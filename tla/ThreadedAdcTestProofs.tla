----------------------- MODULE ThreadedAdcTestProofs ------------------------
(***************************************************************************)
(* Proofs about ThreadedAdcTest: the sampling mode follows the commands,   *)
(* for every number of readings per send and every bound on readings,      *)
(* bytes and the length of the work queue.                                 *)
(***************************************************************************)
EXTENDS ThreadedAdcTest, TLAPS

Order == {"wq_start", "wq_stop", "wq_none"}

(* The type invariant the proofs rest on. *)
Typed ==
    /\ qw \in Seq(Order)
    /\ sending \in BOOLEAN /\ wanted \in BOOLEAN
    /\ c \in Char /\ inbox \in Seq(Char) /\ said \in Seq(Char)

(* What Head and Tail of a queue are. *)
LEMMA Dequeued ==
    ASSUME NEW S, NEW q \in Seq(S), q # <<>>
    PROVE  /\ Head(q) \in S /\ Head(q) = q[1] /\ Len(q) \in Nat \ {0}
           /\ Tail(q) \in Seq(S) /\ Len(Tail(q)) = Len(q) - 1
           /\ \A k \in 1..Len(q) - 1 : Tail(q)[k] = q[k + 1]
OBVIOUS

(* What Append makes of a queue. *)
LEMMA Enqueued ==
    ASSUME NEW S, NEW q \in Seq(S), NEW x \in S
    PROVE  /\ Append(q, x) \in Seq(S) /\ Len(Append(q, x)) = Len(q) + 1 /\ Len(q) \in Nat
           /\ \A k \in 1..Len(q) : Append(q, x)[k] = q[k]
           /\ Append(q, x)[Len(q) + 1] = x
OBVIOUS

(* Every byte is turned into an order. *)
LEMMA ActionTyped == \A b \in Char : action(b) \in Order
BY DEF action, Order

-----------------------------------------------------------------------------
(* The state is well typed initially. *)
LEMMA InitTyped == Init => Typed
<1> SUFFICES ASSUME Init PROVE Typed
  OBVIOUS
<1>1. qw \in Seq(Order) /\ inbox \in Seq(Char) /\ said \in Seq(Char)
  BY DEF Init
<1>2. c \in Char /\ sending \in BOOLEAN /\ wanted \in BOOLEAN
  BY DEF Init
<1> QED  BY <1>1, <1>2 DEF Typed

(* Every step keeps it well typed. *)
LEMMA NextTyped == Typed /\ [Next]_vars => Typed'
<1> SUFFICES ASSUME Typed, [Next]_vars PROVE Typed'
  OBVIOUS
<1> USE DEF Typed
<1>1. ASSUME work_command PROVE Typed'
  <2>1. qw' \in Seq(Order) /\ sending' \in BOOLEAN
    BY <1>1, Dequeued DEF work_command
  <2> QED  BY <1>1, <2>1 DEF work_command, network, sockVars
<1>2. ASSUME work_none PROVE Typed'
  <2>1. qw' \in Seq(Order)
    BY <1>2, Dequeued DEF work_none
  <2> QED  BY <1>2, <2>1 DEF work_none, network, sockVars
<1>3. ASSUME wait_for_connection PROVE Typed'
  BY <1>3 DEF wait_for_connection, worker
<1>4. ASSUME recv_poll_failed \/ recv_nothing \/ begin_send \/ none_recv PROVE Typed'
  BY <1>4 DEF recv_poll_failed, recv_nothing, begin_send, none_recv, worker, network, sockVars
<1>5. ASSUME recv_byte PROVE Typed'
  <2>1. c' \in Char /\ inbox' \in Seq(Char)
    BY <1>5, Dequeued DEF recv_byte
  <2>2. qw' \in Seq(Order) /\ wanted' \in BOOLEAN
    BY <1>5, <2>1, ActionTyped, Enqueued DEF recv_byte
  <2> QED  BY <1>5, <2>1, <2>2 DEF recv_byte, worker
<1>6. ASSUME recv_eof PROVE Typed'
  <2>1. qw' \in Seq(Order)
    BY <1>6, ActionTyped, Enqueued DEF recv_eof
  <2> QED  BY <1>6, <2>1 DEF recv_eof, worker, network, sockVars
<1>7. ASSUME write_data PROVE Typed'
  BY <1>7 DEF write_data, worker
<1>8. ASSUME StationSends PROVE Typed'
  <2>1. inbox' \in Seq(Char) /\ said' \in Seq(Char)
    BY <1>8, Enqueued DEF StationSends
  <2> QED  BY <1>8, <2>1 DEF StationSends, worker, network
<1>9. ASSUME StationLeaves \/ BufferFills \/ UNCHANGED vars PROVE Typed'
  BY <1>9 DEF StationLeaves, BufferFills, vars, worker, network, sockVars
<1> QED
  BY <1>1, <1>2, <1>3, <1>4, <1>5, <1>6, <1>7, <1>8, <1>9
  DEF Next, worker_thread, network_thread, loop

-----------------------------------------------------------------------------
(* What c is worth: once a byte was read, a start or stop byte in it is    *)
(* the one that is wanted.                                                 *)
LastByte ==
    /\ station \in {"calling", "up", "closed", "reset"}
    /\ pc = "accept" => station = "calling"
    /\ connfd => station # "calling"
    /\ Len(inbox) <= Len(said)
    /\ Len(inbox) < Len(said) /\ c \in {"0", "1"} => wanted = (c = "0")

(* Every step keeps that. *)
LEMMA LastByteNext == Typed /\ LastByte /\ [Next]_vars => LastByte'
<1> SUFFICES ASSUME Typed, LastByte, [Next]_vars PROVE LastByte'
  OBVIOUS
<1>ty. Len(inbox) \in Nat /\ Len(said) \in Nat
  BY DEF Typed
<1>1. ASSUME recv_byte PROVE LastByte'
  <2>1. Len(inbox') = Len(inbox) - 1 /\ said' = said
    BY <1>1, Dequeued DEF recv_byte, Typed
  <2>2. Len(inbox') <= Len(said')
    BY <1>ty, <2>1 DEF LastByte
  <2>3. c' \in {"0", "1"} => wanted' = (c' = "0")
    BY <1>1 DEF recv_byte
  <2>4. /\ station' \in {"calling", "up", "closed", "reset"}
        /\ (pc = "accept" => station = "calling")' /\ (connfd => station # "calling")'
    BY <1>1 DEF recv_byte, LastByte
  <2> QED  BY <2>2, <2>3, <2>4 DEF LastByte
<1>2. ASSUME StationSends PROVE LastByte'
  <2>1. /\ Len(inbox') = Len(inbox) + 1 /\ Len(said') = Len(said) + 1
        /\ UNCHANGED <<pc, connfd, station, c, wanted>>
    BY <1>2, Enqueued DEF StationSends, Typed, network
  <2>2. Len(inbox') <= Len(said') /\ (Len(inbox') < Len(said') => Len(inbox) < Len(said))
    BY <1>ty, <2>1 DEF LastByte
  <2> QED  BY <2>1, <2>2 DEF LastByte
<1>3. ASSUME wait_for_connection \/ write_data \/ StationLeaves PROVE LastByte'
  <2>1. UNCHANGED <<inbox, said, c, wanted>>
    BY <1>3 DEF wait_for_connection, write_data, StationLeaves, network
  <2>2. /\ station' \in {"calling", "up", "closed", "reset"}
        /\ (pc = "accept" => station = "calling")' /\ (connfd => station # "calling")'
    BY <1>3 DEF wait_for_connection, write_data, StationLeaves, network, LastByte
  <2> QED  BY <2>1, <2>2 DEF LastByte
<1>4. ASSUME pc' \in {pc, "poll", "write"}, UNCHANGED <<connfd, station, inbox, said, c, wanted>>
      PROVE  LastByte'
  BY <1>4 DEF LastByte
<1>5. ASSUME \/ work_command \/ work_none \/ recv_poll_failed \/ recv_nothing \/ recv_eof
             \/ begin_send \/ none_recv \/ BufferFills \/ UNCHANGED vars
      PROVE  pc' \in {pc, "poll", "write"} /\ UNCHANGED <<connfd, station, inbox, said, c, wanted>>
  BY <1>5 DEF work_command, work_none, recv_poll_failed, recv_nothing, recv_eof, begin_send,
              none_recv, BufferFills, vars, network, sockVars
<1> QED
  BY <1>1, <1>2, <1>3, <1>4, <1>5 DEF Next, worker_thread, network_thread, loop

-----------------------------------------------------------------------------
(* The mode.  ModeFollows is inductive together with the types and LastByte. *)

(* Dropping a wq_none from the head of the work queue changes no order. *)
LEMMA NoneDropped ==
    ASSUME Typed, ModeRight, qw # <<>>, Head(qw) = "wq_none", qw' = Tail(qw),
           UNCHANGED <<sending, wanted>>
    PROVE  ModeRight'
<1>1. /\ qw[1] = "wq_none" /\ Len(qw) \in Nat \ {0} /\ Len(qw') = Len(qw) - 1
      /\ \A k \in 1..Len(qw) - 1 : qw'[k] = qw[k + 1]
  BY Dequeued DEF Typed
<1>2. ASSUME \A k \in 1..Len(qw') : qw'[k] = "wq_none" PROVE sending' = wanted'
  <2>1. \A k \in 1..Len(qw) : qw[k] = "wq_none"
    <3> TAKE k \in 1..Len(qw)
    <3>1. CASE k > 1
      <4>1. k - 1 \in 1..Len(qw') /\ k - 1 \in 1..Len(qw) - 1 /\ (k - 1) + 1 = k
        BY <1>1, <3>1
      <4> QED  BY <1>1, <1>2, <4>1
    <3> QED  BY <1>1, <3>1
  <2> QED  BY <2>1 DEF ModeRight
<1>3. ASSUME NEW k \in 1..Len(qw'), qw'[k] # "wq_none",
             \A j \in 1..Len(qw') : qw'[j] # "wq_none" => j <= k
      PROVE  (qw'[k] = "wq_start") = wanted'
  <2>1. k + 1 \in 1..Len(qw) /\ qw[k + 1] = qw'[k]
    BY <1>1
  <2>2. ASSUME NEW j \in 1..Len(qw), qw[j] # "wq_none" PROVE j <= k + 1
    <3>1. CASE j > 1
      <4>1. j - 1 \in 1..Len(qw') /\ j - 1 \in 1..Len(qw) - 1 /\ (j - 1) + 1 = j
        BY <1>1, <3>1
      <4>2. j - 1 <= k
        BY <1>1, <1>3, <2>2, <4>1
      <4> QED  BY <4>1, <4>2
    <3> QED  BY <3>1, <1>1
  <2> QED  BY <1>3, <2>1, <2>2 DEF ModeRight
<1> QED  BY <1>2, <1>3 DEF ModeRight

(* Queueing the order of a byte keeps the mode right for the last order. *)
LEMMA OrderQueued ==
    ASSUME Typed, ModeRight, NEW b \in Char, qw' = Append(qw, action(b)), sending' = sending,
           wanted' = IF b \in {"0", "1"} THEN b = "0" ELSE wanted
    PROVE  ModeRight'
<1>1. /\ Len(qw') = Len(qw) + 1 /\ Len(qw) \in Nat
      /\ \A k \in 1..Len(qw) : qw'[k] = qw[k]
      /\ qw'[Len(qw) + 1] = action(b)
  BY ActionTyped, Enqueued DEF Typed
<1>2. CASE b \in {"0", "1"}
  <2>1. qw'[Len(qw')] # "wq_none" /\ (qw'[Len(qw')] = "wq_start") = wanted'
    BY <1>1, <1>2 DEF action
  <2>2. Len(qw') \in 1..Len(qw')
    BY <1>1
  <2>3. ASSUME NEW k \in 1..Len(qw'), \A j \in 1..Len(qw') : qw'[j] # "wq_none" => j <= k
        PROVE  k = Len(qw')
    BY <1>1, <2>1, <2>2, <2>3
  <2> QED  BY <2>1, <2>2, <2>3 DEF ModeRight
<1>3. CASE b \notin {"0", "1"}
  <2>1. qw'[Len(qw) + 1] = "wq_none" /\ wanted' = wanted
    BY <1>1, <1>3 DEF action
  <2>2. ASSUME \A k \in 1..Len(qw') : qw'[k] = "wq_none" PROVE sending' = wanted'
    <3>1. \A k \in 1..Len(qw) : qw[k] = "wq_none"
      BY <1>1, <2>2
    <3> QED  BY <2>1, <3>1 DEF ModeRight
  <2>3. ASSUME NEW k \in 1..Len(qw'), qw'[k] # "wq_none",
               \A j \in 1..Len(qw') : qw'[j] # "wq_none" => j <= k
        PROVE  (qw'[k] = "wq_start") = wanted'
    <3>1. k \in 1..Len(qw)
      BY <1>1, <2>1, <2>3
    <3>2. \A j \in 1..Len(qw) : qw[j] # "wq_none" => j <= k
      BY <1>1, <2>3
    <3> QED  BY <1>1, <2>1, <2>3, <3>1, <3>2 DEF ModeRight
  <2> QED  BY <2>2, <2>3 DEF ModeRight
<1> QED  BY <1>2, <1>3

(* Every step keeps the mode in step with the last order. *)
LEMMA ModeNext == Typed /\ LastByte /\ ModeFollows /\ [Next]_vars => ModeFollows'
<1> SUFFICES ASSUME Typed, LastByte, ModeFollows, [Next]_vars, ~NeverSpoke' PROVE ModeRight'
  BY Zenon DEF ModeFollows
<1>s. ~NeverSpoke
  <2>1. ASSUME NeverSpoke PROVE station' \in {"closed", "reset"} /\ said' = <<>>
    BY <2>1 DEF NeverSpoke, LastByte, Next, worker_thread, network_thread, loop, work_command, work_none,
       wait_for_connection, recv_poll_failed, recv_nothing, recv_byte, recv_eof, begin_send,
       write_data, none_recv, StationSends, StationLeaves, BufferFills, vars, sockVars
  <2> QED  BY <2>1 DEF NeverSpoke
<1>m. ModeRight
  BY <1>s DEF ModeFollows
<1>0. ASSUME UNCHANGED <<qw, sending, wanted>> PROVE ModeRight'
  BY <1>0, <1>m DEF ModeRight
<1>1. ASSUME work_command PROVE ModeRight'
  <2>1. /\ qw[1] # "wq_none" /\ Len(qw) \in Nat \ {0} /\ Len(qw') = Len(qw) - 1
        /\ \A k \in 1..Len(qw) - 1 : qw'[k] = qw[k + 1]
        /\ sending' = (qw[1] = "wq_start") /\ wanted' = wanted
    BY <1>1, Dequeued DEF work_command, network, Typed
  <2>2. ASSUME \A k \in 1..Len(qw') : qw'[k] = "wq_none" PROVE sending' = wanted'
    <3>1. 1 \in 1..Len(qw)
      BY <2>1
    <3>2. ASSUME NEW j \in 1..Len(qw), qw[j] # "wq_none" PROVE j <= 1
      <4>1. CASE j > 1
        <5>1. j - 1 \in 1..Len(qw') /\ j - 1 \in 1..Len(qw) - 1 /\ (j - 1) + 1 = j
          BY <2>1, <4>1
        <5> QED  BY <2>1, <2>2, <3>2, <5>1
      <4> QED  BY <4>1, <2>1
    <3> QED  BY <2>1, <3>1, <3>2, <1>m DEF ModeRight
  <2>3. ASSUME NEW k \in 1..Len(qw'), qw'[k] # "wq_none",
               \A j \in 1..Len(qw') : qw'[j] # "wq_none" => j <= k
        PROVE  (qw'[k] = "wq_start") = wanted'
    <3>1. k + 1 \in 1..Len(qw) /\ qw[k + 1] = qw'[k]
      BY <2>1
    <3>2. ASSUME NEW j \in 1..Len(qw), qw[j] # "wq_none" PROVE j <= k + 1
      <4>1. CASE j > 1
        <5>1. j - 1 \in 1..Len(qw') /\ j - 1 \in 1..Len(qw) - 1 /\ (j - 1) + 1 = j
          BY <2>1, <4>1
        <5>2. j - 1 <= k
          BY <2>1, <2>3, <3>2, <5>1
        <5> QED  BY <5>1, <5>2
      <4> QED  BY <4>1, <2>1
    <3> QED  BY <2>1, <2>3, <3>1, <3>2, <1>m DEF ModeRight
  <2> QED  BY <2>2, <2>3 DEF ModeRight
<1>2. ASSUME work_none PROVE ModeRight'
  <2>1. UNCHANGED <<sending, wanted>>
    BY <1>2 DEF work_none, network
  <2> QED  BY <1>0, <1>2, <2>1, <1>m, NoneDropped DEF work_none
<1>3. ASSUME recv_byte PROVE ModeRight'
  <2>1. c' \in Char
    BY <1>3, Dequeued DEF recv_byte, Typed
  <2> QED  BY <1>3, <1>m, <2>1, OrderQueued DEF recv_byte, worker
<1>4. ASSUME recv_eof PROVE ModeRight'
  <2>1. inbox = <<>> /\ said # <<>>
    BY <1>s, <1>4 DEF recv_eof, NeverSpoke, LastByte, Typed
  <2>2. Len(inbox) < Len(said)
    BY <2>1 DEF Typed
  <2>3. c \in Char /\ wanted = IF c \in {"0", "1"} THEN c = "0" ELSE wanted
    BY <2>2 DEF LastByte, Typed
  <2>4. qw' = Append(qw, action(c)) /\ sending' = sending /\ wanted' = wanted
    BY <1>4 DEF recv_eof, worker, network
  <2> QED  BY <1>m, <2>3, <2>4, OrderQueued
<1>5. ASSUME \/ wait_for_connection \/ recv_poll_failed \/ recv_nothing \/ begin_send
             \/ write_data \/ none_recv \/ StationSends \/ StationLeaves \/ BufferFills
             \/ UNCHANGED vars
      PROVE  UNCHANGED <<qw, sending, wanted>>
  BY <1>5 DEF wait_for_connection, recv_poll_failed, recv_nothing, begin_send, write_data,
              none_recv, StationSends, StationLeaves, BufferFills, vars, worker, network
<1> QED
  BY <1>0, <1>1, <1>2, <1>3, <1>4, <1>5 DEF Next, worker_thread, network_thread, loop

(* Unless the station left without a byte, the worker's mode follows the   *)
(* last start or stop byte read from the socket: it is what that byte asks *)
(* for once the orders still in the work queue are carried out.            *)
THEOREM ModeSafe == Spec => []ModeFollows
<1>1. Init => ModeFollows
  <2> SUFFICES ASSUME Init PROVE ModeFollows
    OBVIOUS
  <2>1. 1..Len(qw) = {}
    BY DEF Init
  <2>2. sending = wanted
    BY DEF Init
  <2> QED  BY <2>1, <2>2 DEF ModeFollows, ModeRight
<1>2. Init => LastByte
  BY DEF Init, LastByte
<1> QED  BY <1>1, <1>2, InitTyped, NextTyped, LastByteNext, ModeNext, PTL DEF Spec

=============================================================================
