------------------------ MODULE NetworkWorkerProofs ------------------------
(***************************************************************************)
(* Proofs about NetworkWorker, for any number of connections and bytes and *)
(* any timeout.                                                            *)
(***************************************************************************)
EXTENDS NetworkWorker, FiniteSetTheorems, TLAPS

(* The type invariant in two parts, which different provers handle. *)
Flags ==
    /\ connected \in BOOLEAN /\ tcp \in BOOLEAN /\ udp \in BOOLEAN
    /\ has_acked \in BOOLEAN /\ calling \in BOOLEAN /\ full \in BOOLEAN

Data ==
    /\ qn \in Seq(NetItem)
    /\ pc \in {"poll", "accept", "opened", "none", "header", "data"}
    /\ protocol \in Protocols /\ timeout \in Timeouts
    /\ silence \in 0..timeout + 1
    /\ process \in {"running", "exited", "killed"}
    /\ station \in {"away", "up", "closed", "reset", "dead"}
    /\ inbox \in Seq(Byte) /\ forwarded \in Seq(Byte)
    /\ said \in 0..MaxBytes /\ conns \in 0..MaxConns

(* There is a connection while the station's end is there, and none while  *)
(* the thread waits for one; it is known but to the rest of                *)
(* open_connection.                                                        *)
SocketInv ==
    /\ tcp <=> station # "away"
    /\ pc = "accept" => ~tcp
    /\ tcp => connected \/ pc = "opened"
    /\ calling => conns < MaxConns
    /\ ~tcp => said = 0 /\ inbox = <<>>
    /\ station # "away" => conns > 0

(* The unread bytes are the last ones the station sent, in order. *)
InboxInv ==
    /\ Len(inbox) <= said
    /\ \A k \in 1..Len(inbox) : inbox[k] = <<conns, (said - Len(inbox)) + k>>

(* The bytes read on this connection so far end the forwarded ones. *)
ForwardInv ==
    /\ said > Len(inbox) =>
          /\ forwarded # <<>>
          /\ forwarded[Len(forwarded)] = <<conns, said - Len(inbox)>>
    /\ \A k \in 1..Len(forwarded) : forwarded[k][1] <= conns

(* At most one nq_recv is queued, and none when the thread makes a new one. *)
RecvInv ==
    /\ \A i, j \in 1..Len(qn) : qn[i] = "nq_recv" /\ qn[j] = "nq_recv" => i = j
    /\ pc \in {"none", "accept", "opened"} => \A i \in 1..Len(qn) : qn[i] # "nq_recv"

IInv == Flags /\ Data /\ SocketInv /\ InboxInv /\ ForwardInv /\ RecvInv /\ CommandsInOrder

-----------------------------------------------------------------------------
(* The flags stay Boolean. *)
LEMMA NextFlags == IInv /\ [Next]_vars => Flags'
<1> SUFFICES ASSUME IInv, [Next]_vars PROVE Flags'
  OBVIOUS
<1> USE NetworkAssumption DEF IInv, Flags,
        takes, running, sockets, config, sockVars, thread
<1>1. CASE recv_nothing /\ UNCHANGED config
  BY <1>1 DEF recv_nothing
<1>2. CASE recv_byte /\ UNCHANGED config
  BY <1>2 DEF recv_byte
<1>3. CASE recv_eof /\ UNCHANGED config
  BY <1>3 DEF recv_eof, fail_connection
<1>4. CASE recv_error /\ UNCHANGED config
  <2>1. CASE station' = "dead" /\ UNCHANGED <<connected, sockets, calling, full, inbox, said, conns, forwarded>>
    BY <1>4, <2>1 DEF recv_error
  <2>2. CASE fail_connection
    BY <1>4, <2>2 DEF recv_error, fail_connection
  <2> QED
    BY <1>4, <2>1, <2>2 DEF recv_error
<1>5. CASE send_ack /\ UNCHANGED config
  BY <1>5 DEF send_ack
<1>6. CASE begin_send /\ UNCHANGED config
  BY <1>6 DEF begin_send
<1>7. CASE write_socket /\ UNCHANGED config
  BY <1>7 DEF write_socket
<1>8. CASE poll_none /\ UNCHANGED config
  BY <1>8 DEF poll_none
<1>9. CASE open_connection /\ UNCHANGED config
  BY <1>9 DEF open_connection, open_udp
<1>10. CASE none_timeout /\ UNCHANGED config
  BY <1>10 DEF none_timeout, fail_connection
<1>11. CASE none_ack /\ UNCHANGED config
  BY <1>11 DEF none_ack
<1>12. CASE none_recv /\ UNCHANGED config
  BY <1>12 DEF none_recv
<1>13. CASE recv_poll_failed /\ UNCHANGED config
  BY <1>13 DEF recv_poll_failed, exits
<1>14. CASE accept_failed /\ UNCHANGED config
  BY <1>14 DEF accept_failed
<1>15. CASE listen_failed /\ UNCHANGED config
  BY <1>15 DEF listen_failed, exits
<1>16. CASE WorkerSends
  BY <1>16 DEF WorkerSends
<1>17. CASE Tick
  BY <1>17 DEF Tick
<1>18. CASE StationCalls
  BY <1>18 DEF StationCalls
<1>19. CASE StationSends
  BY <1>19 DEF StationSends
<1>20. CASE StationLeaves
  BY <1>20 DEF StationLeaves
<1>21. CASE BufferFills
  BY <1>21 DEF BufferFills
<1>22. CASE UNCHANGED vars
  BY <1>22 DEF vars
<1>23. CASE wait_for_connection /\ UNCHANGED config
  BY <1>23 DEF wait_for_connection
<1> QED
  BY <1>1, <1>2, <1>3, <1>4, <1>5, <1>6, <1>7, <1>8, <1>9, <1>10, <1>11, <1>12,
     <1>13, <1>14, <1>15, <1>16, <1>17, <1>18, <1>19, <1>20, <1>21, <1>22,
     <1>23
     DEF Next, worker_method, Fault, Station

(* Everything else stays well typed; a byte carries the number of a        *)
(* connection that was made.                                               *)
LEMMA NextData == IInv /\ [Next]_vars => Data'
<1> SUFFICES ASSUME IInv, [Next]_vars PROVE Data'
  OBVIOUS
<1> USE NetworkAssumption DEF IInv, Data, SocketInv, NetItem,
        takes, running, sockets, config, sockVars, thread
<1>1. CASE recv_nothing /\ UNCHANGED config
  BY <1>1 DEF recv_nothing
<1>2. CASE recv_byte /\ UNCHANGED config
  BY <1>2 DEF recv_byte
<1>3. CASE recv_eof /\ UNCHANGED config
  BY <1>3 DEF recv_eof, fail_connection
<1>4. CASE recv_error /\ UNCHANGED config
  <2>1. CASE station' = "dead" /\ UNCHANGED <<connected, sockets, calling, full, inbox, said, conns, forwarded>>
    BY <1>4, <2>1 DEF recv_error
  <2>2. CASE fail_connection
    BY <1>4, <2>2 DEF recv_error, fail_connection
  <2> QED
    BY <1>4, <2>1, <2>2 DEF recv_error
<1>5. CASE send_ack /\ UNCHANGED config
  BY <1>5 DEF send_ack
<1>6. CASE begin_send /\ UNCHANGED config
  BY <1>6 DEF begin_send
<1>7. CASE write_socket /\ UNCHANGED config
  BY <1>7 DEF write_socket
<1>8. CASE poll_none /\ UNCHANGED config
  BY <1>8 DEF poll_none
<1>9. CASE open_connection /\ UNCHANGED config
  BY <1>9 DEF open_connection, open_udp
<1>10. CASE none_timeout /\ UNCHANGED config
  BY <1>10 DEF none_timeout, fail_connection
<1>11. CASE none_ack /\ UNCHANGED config
  BY <1>11 DEF none_ack
<1>12. CASE none_recv /\ UNCHANGED config
  BY <1>12 DEF none_recv
<1>13. CASE recv_poll_failed /\ UNCHANGED config
  BY <1>13 DEF recv_poll_failed, exits
<1>14. CASE accept_failed /\ UNCHANGED config
  BY <1>14 DEF accept_failed
<1>15. CASE listen_failed /\ UNCHANGED config
  BY <1>15 DEF listen_failed, exits
<1>16. CASE WorkerSends
  BY <1>16 DEF WorkerSends
<1>17. CASE Tick
  BY <1>17 DEF Tick
<1>18. CASE StationCalls
  BY <1>18 DEF StationCalls
<1>19. CASE StationSends
  <2>1. <<conns, said + 1>> \in Byte
    BY <1>19 DEF StationSends, Byte
  <2> QED
    BY <1>19, <2>1 DEF StationSends
<1>20. CASE StationLeaves
  BY <1>20 DEF StationLeaves
<1>21. CASE BufferFills
  BY <1>21 DEF BufferFills
<1>22. CASE UNCHANGED vars
  BY <1>22 DEF vars
<1>23. CASE wait_for_connection /\ UNCHANGED config
  BY <1>23 DEF wait_for_connection
<1> QED
  BY <1>1, <1>2, <1>3, <1>4, <1>5, <1>6, <1>7, <1>8, <1>9, <1>10, <1>11, <1>12,
     <1>13, <1>14, <1>15, <1>16, <1>17, <1>18, <1>19, <1>20, <1>21, <1>22,
     <1>23
     DEF Next, worker_method, Fault, Station

(* The connection and the station agree. *)
LEMMA NextSocket == IInv /\ [Next]_vars => SocketInv'
<1> SUFFICES ASSUME IInv, [Next]_vars PROVE SocketInv'
  OBVIOUS
<1> USE NetworkAssumption DEF IInv, Flags, Data, SocketInv,
        takes, running, sockets, config, sockVars, thread
<1>1. CASE recv_nothing /\ UNCHANGED config
  BY <1>1 DEF recv_nothing
<1>2. CASE recv_byte /\ UNCHANGED config
  BY <1>2 DEF recv_byte
<1>3. CASE recv_eof /\ UNCHANGED config
  BY <1>3 DEF recv_eof, fail_connection
<1>4. CASE recv_error /\ UNCHANGED config
  <2>1. CASE station' = "dead" /\ UNCHANGED <<connected, sockets, calling, full, inbox, said, conns, forwarded>>
    BY <1>4, <2>1 DEF recv_error
  <2>2. CASE fail_connection
    BY <1>4, <2>2 DEF recv_error, fail_connection
  <2> QED
    BY <1>4, <2>1, <2>2 DEF recv_error
<1>5. CASE send_ack /\ UNCHANGED config
  BY <1>5 DEF send_ack
<1>6. CASE begin_send /\ UNCHANGED config
  BY <1>6 DEF begin_send
<1>7. CASE write_socket /\ UNCHANGED config
  BY <1>7 DEF write_socket
<1>8. CASE poll_none /\ UNCHANGED config
  BY <1>8 DEF poll_none
<1>9. CASE open_connection /\ UNCHANGED config
  BY <1>9 DEF open_connection, open_udp
<1>10. CASE none_timeout /\ UNCHANGED config
  BY <1>10 DEF none_timeout, fail_connection
<1>11. CASE none_ack /\ UNCHANGED config
  BY <1>11 DEF none_ack
<1>12. CASE none_recv /\ UNCHANGED config
  BY <1>12 DEF none_recv
<1>13. CASE recv_poll_failed /\ UNCHANGED config
  BY <1>13 DEF recv_poll_failed, exits
<1>14. CASE accept_failed /\ UNCHANGED config
  BY <1>14 DEF accept_failed
<1>15. CASE listen_failed /\ UNCHANGED config
  BY <1>15 DEF listen_failed, exits
<1>16. CASE WorkerSends
  BY <1>16 DEF WorkerSends
<1>17. CASE Tick
  BY <1>17 DEF Tick
<1>18. CASE StationCalls
  BY <1>18 DEF StationCalls
<1>19. CASE StationSends
  BY <1>19 DEF StationSends
<1>20. CASE StationLeaves
  BY <1>20 DEF StationLeaves
<1>21. CASE BufferFills
  BY <1>21 DEF BufferFills
<1>22. CASE UNCHANGED vars
  BY <1>22 DEF vars
<1>23. CASE wait_for_connection /\ UNCHANGED config
  BY <1>23 DEF wait_for_connection
<1> QED
  BY <1>1, <1>2, <1>3, <1>4, <1>5, <1>6, <1>7, <1>8, <1>9, <1>10, <1>11, <1>12,
     <1>13, <1>14, <1>15, <1>16, <1>17, <1>18, <1>19, <1>20, <1>21, <1>22,
     <1>23
     DEF Next, worker_method, Fault, Station

(* A read is queued only when none is. *)
LEMMA NextRecv == IInv /\ [Next]_vars => RecvInv'
<1> SUFFICES ASSUME IInv, [Next]_vars PROVE RecvInv'
  OBVIOUS
<1> USE NetworkAssumption DEF IInv, Data, RecvInv,
        takes, running, sockets, config, sockVars, thread
<1>1. CASE recv_nothing /\ UNCHANGED config
  BY <1>1 DEF recv_nothing
<1>2. CASE recv_byte /\ UNCHANGED config
  BY <1>2 DEF recv_byte
<1>3. CASE recv_eof /\ UNCHANGED config
  BY <1>3 DEF recv_eof, fail_connection
<1>4. CASE recv_error /\ UNCHANGED config
  <2>1. CASE station' = "dead" /\ UNCHANGED <<connected, sockets, calling, full, inbox, said, conns, forwarded>>
    BY <1>4, <2>1 DEF recv_error
  <2>2. CASE fail_connection
    BY <1>4, <2>2 DEF recv_error, fail_connection
  <2> QED
    BY <1>4, <2>1, <2>2 DEF recv_error
<1>5. CASE send_ack /\ UNCHANGED config
  BY <1>5 DEF send_ack
<1>6. CASE begin_send /\ UNCHANGED config
  BY <1>6 DEF begin_send
<1>7. CASE write_socket /\ UNCHANGED config
  BY <1>7 DEF write_socket
<1>8. CASE poll_none /\ UNCHANGED config
  BY <1>8 DEF poll_none
<1>9. CASE open_connection /\ UNCHANGED config
  BY <1>9 DEF open_connection, open_udp
<1>10. CASE none_timeout /\ UNCHANGED config
  BY <1>10 DEF none_timeout, fail_connection
<1>11. CASE none_ack /\ UNCHANGED config
  BY <1>11 DEF none_ack
<1>12. CASE none_recv /\ UNCHANGED config
  BY <1>12 DEF none_recv
<1>13. CASE recv_poll_failed /\ UNCHANGED config
  BY <1>13 DEF recv_poll_failed, exits
<1>14. CASE accept_failed /\ UNCHANGED config
  BY <1>14 DEF accept_failed
<1>15. CASE listen_failed /\ UNCHANGED config
  BY <1>15 DEF listen_failed, exits
<1>16. CASE WorkerSends
  BY <1>16 DEF WorkerSends
<1>17. CASE Tick
  BY <1>17 DEF Tick
<1>18. CASE StationCalls
  BY <1>18 DEF StationCalls
<1>19. CASE StationSends
  BY <1>19 DEF StationSends
<1>20. CASE StationLeaves
  BY <1>20 DEF StationLeaves
<1>21. CASE BufferFills
  BY <1>21 DEF BufferFills
<1>22. CASE UNCHANGED vars
  BY <1>22 DEF vars
<1>23. CASE wait_for_connection /\ UNCHANGED config
  BY <1>23 DEF wait_for_connection
<1> QED
  BY <1>1, <1>2, <1>3, <1>4, <1>5, <1>6, <1>7, <1>8, <1>9, <1>10, <1>11, <1>12,
     <1>13, <1>14, <1>15, <1>16, <1>17, <1>18, <1>19, <1>20, <1>21, <1>22,
     <1>23
     DEF Next, worker_method, Fault, Station

-----------------------------------------------------------------------------
(* The steps that touch the bytes on their way to the work queue. *)
LEMMA ByteSteps ==
    [Next]_vars => \/ recv_byte \/ StationSends \/ wait_for_connection \/ fail_connection
                   \/ UNCHANGED <<inbox, said, conns, forwarded>>
  BY DEF Next, worker_method, Fault, Station, vars, sockVars, recv_nothing, recv_eof, recv_error,
         send_ack, begin_send, write_socket, poll_none, open_connection, none_timeout, none_ack,
         none_recv, recv_poll_failed, accept_failed, listen_failed, exits, WorkerSends, Tick,
         StationCalls, StationLeaves, BufferFills

(* The parts of a byte are numbers. *)
LEMMA ByteParts ==
    ASSUME Data
    PROVE  /\ \A k \in 1..Len(inbox) : inbox[k] \in Byte
           /\ \A k \in 1..Len(forwarded) : /\ forwarded[k] \in Byte
                                           /\ forwarded[k][1] \in Nat /\ forwarded[k][2] \in Nat
<1>1. \A k \in 1..Len(inbox) : inbox[k] \in Byte
  BY DEF Data
<1>2. \A k \in 1..Len(forwarded) : forwarded[k] \in Byte
  BY DEF Data
<1>3. \A b \in Byte : b[1] \in Nat /\ b[2] \in Nat
  BY NetworkAssumption DEF Byte
<1> QED
  BY <1>1, <1>2, <1>3

(* Reading takes the first unread byte, which is forwarded; sending adds   *)
(* one after the last.                                                     *)
LEMMA NextBytes == IInv /\ [Next]_vars => InboxInv' /\ ForwardInv' /\ CommandsInOrder'
<1> SUFFICES ASSUME IInv, [Next]_vars PROVE InboxInv' /\ ForwardInv' /\ CommandsInOrder'
  OBVIOUS
<1> USE NetworkAssumption DEF IInv, Data
<1>0. Len(inbox) \in Nat /\ said \in Nat /\ conns \in Nat /\ Len(forwarded) \in Nat
  OBVIOUS
<1>1. CASE recv_byte
  <2>1. /\ inbox # <<>> /\ inbox' = Tail(inbox) /\ said' = said /\ conns' = conns
        /\ forwarded' = Append(forwarded, Head(inbox))
    BY <1>1 DEF recv_byte
  <2>2. /\ Len(inbox') = Len(inbox) - 1
        /\ \A k \in 1..Len(inbox') : inbox'[k] = inbox[k + 1]
    BY <2>1
  <2>3. Head(inbox) = <<conns, (said - Len(inbox)) + 1>>
    BY <2>1, <1>0 DEF InboxInv
  <2>4. /\ Len(forwarded') = Len(forwarded) + 1
        /\ \A k \in 1..Len(forwarded) : forwarded'[k] = forwarded[k]
        /\ forwarded'[Len(forwarded) + 1] = <<conns, (said - Len(inbox)) + 1>>
    BY <2>1, <2>3
  <2>5. InboxInv'
    <3>1. Len(inbox') <= said'
      BY <2>1, <2>2, <1>0 DEF InboxInv
    <3>2. ASSUME NEW k \in 1..Len(inbox')
          PROVE  inbox'[k] = <<conns', (said' - Len(inbox')) + k>>
      <4>1. k + 1 \in 1..Len(inbox) /\ inbox'[k] = inbox[k + 1]
        BY <2>2, <1>0
      <4>2. inbox[k + 1] = <<conns, (said - Len(inbox)) + (k + 1)>>
        BY <4>1 DEF InboxInv
      <4>3. (said - Len(inbox)) + (k + 1) = (said' - Len(inbox')) + k
        BY <2>1, <2>2, <1>0
      <4> QED
        BY <4>1, <4>2, <4>3, <2>1
    <3> QED
      BY <3>1, <3>2 DEF InboxInv
  <2>6. ForwardInv'
    <3>1. forwarded' # <<>> /\ forwarded'[Len(forwarded')] = <<conns', said' - Len(inbox')>>
      BY <1>0, <2>1, <2>2, <2>4
    <3>2. ASSUME NEW k \in 1..Len(forwarded') PROVE forwarded'[k][1] <= conns'
      BY <1>0, <2>1, <2>4, <3>2 DEF ForwardInv
    <3> QED
      BY <3>1, <3>2 DEF ForwardInv
  <2>7. CommandsInOrder'
    <3> SUFFICES ASSUME NEW k \in 1..Len(forwarded')
                 PROVE  /\ forwarded'[k][2] > 1 =>
                              /\ k > 1
                              /\ forwarded'[k-1] = <<forwarded'[k][1], forwarded'[k][2] - 1>>
                        /\ k > 1 => forwarded'[k-1][1] <= forwarded'[k][1]
      BY DEF CommandsInOrder
    <3>1. CASE k \in 1..Len(forwarded)
      <4>1. /\ forwarded'[k] = forwarded[k]
            /\ k > 1 => forwarded'[k-1] = forwarded[k-1]
        BY <3>1, <1>0, <2>4
      <4> QED
        BY <3>1, <4>1 DEF CommandsInOrder
    <3>2. CASE k = Len(forwarded) + 1
      <4>1. forwarded'[k] = <<conns, (said - Len(inbox)) + 1>>
        BY <3>2, <2>4
      <4>2. CASE said > Len(inbox)
        <5>1. /\ forwarded # <<>> /\ k > 1 /\ k - 1 \in 1..Len(forwarded)
              /\ forwarded'[k-1] = <<conns, said - Len(inbox)>>
          BY <3>2, <4>2, <1>0, <2>4 DEF ForwardInv
        <5> QED
          BY <4>1, <5>1, <1>0
      <4>3. CASE said = Len(inbox)
        <5>1. forwarded'[k][2] = 1 /\ forwarded'[k][1] = conns
          BY <4>1, <4>3, <1>0
        <5>2. k > 1 => forwarded'[k-1][1] <= conns
          BY <3>2, <1>0, <2>4 DEF ForwardInv
        <5> QED
          BY <5>1, <5>2
      <4> QED
        BY <4>2, <4>3, <1>0 DEF InboxInv
    <3> QED
      BY <3>1, <3>2, <1>0, <2>4
  <2> QED
    BY <2>5, <2>6, <2>7
<1>2. CASE StationSends
  <2>1. /\ said' = said + 1 /\ inbox' = Append(inbox, <<conns, said + 1>>)
        /\ UNCHANGED <<conns, forwarded>>
    BY <1>2 DEF StationSends
  <2>2. /\ Len(inbox') = Len(inbox) + 1
        /\ \A k \in 1..Len(inbox) : inbox'[k] = inbox[k]
        /\ inbox'[Len(inbox) + 1] = <<conns, said + 1>>
    BY <2>1
  <2>3. InboxInv'
    <3>1. Len(inbox') <= said' /\ said' - Len(inbox') = said - Len(inbox)
      BY <2>1, <2>2, <1>0 DEF InboxInv
    <3>2. ASSUME NEW k \in 1..Len(inbox')
          PROVE  inbox'[k] = <<conns', (said' - Len(inbox')) + k>>
      <4>1. CASE k \in 1..Len(inbox)
        BY <4>1, <2>1, <2>2, <3>1 DEF InboxInv
      <4>2. CASE k = Len(inbox) + 1
        <5>1. said + 1 = (said' - Len(inbox')) + k
          BY <4>2, <3>1, <1>0
        <5> QED
          BY <4>2, <5>1, <2>1, <2>2
      <4> QED
        BY <4>1, <4>2, <2>2, <1>0
    <3> QED
      BY <3>1, <3>2 DEF InboxInv
  <2> QED
    BY <2>1, <2>2, <2>3, <1>0 DEF ForwardInv, CommandsInOrder
<1>3. CASE wait_for_connection
  <2>1. said = 0 /\ inbox = <<>> /\ conns' = conns + 1 /\ UNCHANGED <<inbox, said, forwarded>>
    BY <1>3 DEF wait_for_connection, SocketInv
  <2>2. \A k \in 1..Len(forwarded) : forwarded[k][1] <= conns + 1
    BY <1>0, ByteParts DEF ForwardInv
  <2> QED
    BY <2>1, <2>2 DEF InboxInv, ForwardInv, CommandsInOrder
<1>4. CASE fail_connection
  BY <1>4 DEF fail_connection, InboxInv, ForwardInv, CommandsInOrder
<1>5. CASE UNCHANGED <<inbox, said, conns, forwarded>>
  BY <1>5 DEF InboxInv, ForwardInv, CommandsInOrder
<1> QED
  BY <1>1, <1>2, <1>3, <1>4, <1>5, ByteSteps

-----------------------------------------------------------------------------
(* The inductive invariant holds at the start. *)
LEMMA InitIInv == Init => IInv
<1> SUFFICES ASSUME Init PROVE IInv
  OBVIOUS
<1>1. Flags
  BY DEF Init, Flags
<1>2. Data
  BY NetworkAssumption DEF Init, Data, NetItem
<1>3. SocketInv /\ InboxInv /\ ForwardInv /\ RecvInv /\ CommandsInOrder
  BY DEF Init, SocketInv, InboxInv, ForwardInv, RecvInv, CommandsInOrder
<1> QED
  BY <1>1, <1>2, <1>3 DEF IInv

(* Every reachable state satisfies the inductive invariant. *)
LEMMA Inductive == Spec => []IInv
<1>1. IInv /\ [Next]_vars => IInv'
  BY NextFlags, NextData, NextSocket, NextRecv, NextBytes DEF IInv
<1> QED
  BY InitIInv, <1>1, PTL DEF Spec

(* The network thread's state is well typed, whatever the base station and *)
(* failing system calls do.                                                *)
THEOREM TypeCorrect == Spec => []TypeOK
<1>1. IInv => TypeOK
  BY DEF IInv, Flags, Data, TypeOK
<1> QED
  BY <1>1, Inductive, PTL

(* At most one read is queued on the network queue, for any length of the  *)
(* queue and any number of connections.                                    *)
THEOREM OneRecv == Spec => []OneRecvQueued
<1>1. ASSUME IInv PROVE OneRecvQueued
  <2> DEFINE R == {k \in 1..Len(qn) : qn[k] = "nq_recv"}
  <2>1. \A i, j \in R : i = j
    BY <1>1 DEF IInv, RecvInv
  <2>2. R = {} \/ \E k : R = {k}
    BY <2>1
  <2>3. Cardinality(R) <= 1
    <3> HIDE DEF R
    <3>1. CASE R = {}
      BY <3>1, FS_EmptySet
    <3>2. CASE \E k : R = {k}
      <4>1. PICK k : R = {k}
        BY <3>2
      <4>2. Cardinality({k}) = 1
        BY FS_Singleton
      <4> QED
        BY <4>1, <4>2
    <3> QED
      BY <2>2, <3>1, <3>2
  <2> QED
    BY <2>3 DEF OneRecvQueued
<1> QED
  BY <1>1, Inductive, PTL

(* Commands reach the work queue in order, once and without a gap within a *)
(* connection, for any number of connections and bytes.                    *)
THEOREM CommandOrder == Spec => []CommandsInOrder
  BY Inductive, PTL DEF IInv

=============================================================================
