--------------------------- MODULE NetworkWorker ---------------------------
(***************************************************************************)
(* The network thread: network_worker's loop and connection handling with  *)
(* main_network_worker's process_nqi.  It talks to one base station over   *)
(* TCP, turns each byte it reads into a wq_process item and sends what the *)
(* worker thread has put on the network queue, over UDP if so configured.  *)
(* The base station, the kernel's socket and the worker thread are the     *)
(* environment.                                                            *)
(*                                                                         *)
(* Payloads are left out; a byte is the pair <<connection, position>>.     *)
(***************************************************************************)
EXTENDS Integers, Sequences, FiniteSets

CONSTANTS
    Protocols,  \* the values of Server.Protocol considered
    Timeouts,   \* the values of timeout considered; the controller uses 0
    Faults,     \* the system calls that may fail: "poll", "listen", "accept"
    MaxBytes,   \* bound: bytes the base station sends per connection
    MaxConns,   \* bound: how often the base station connects
    MaxQn       \* bound: length of qn at which the worker stops sending

ASSUME NetworkAssumption ==
    /\ Protocols \subseteq {"TCP", "UDP"}
    /\ Timeouts \subseteq Nat /\ MaxBytes \in Nat /\ MaxConns \in Nat /\ MaxQn \in Nat
    /\ Faults \subseteq {"poll", "listen", "accept"}

VARIABLES
    qn,         \* the network queue
    pc,         \* where the thread is: at qn.poll, in accept, in the rest of
                \* open_connection ("opened"), in the nq_none case, writing
    connected,  \* shared with the worker thread; not initialised
    tcp,        \* whether connfd_tcp is a connection (else it is -1)
    udp,        \* whether connfd_udp is a socket (else it is -1)
    protocol,   \* the configured Server.Protocol
    timeout,    \* chosen by the constructor; 0 means never
    has_acked,  \* not initialised, never set
    silence,    \* get_time() - last_recv, saturating at timeout + 1
    process,    \* "running", "exited" by exit(1), or "killed" by SIGPIPE
    station,    \* the station's end of the connection; "dead": its reset was reported
    calling,    \* whether a station keeps trying to connect
    full,       \* whether the socket's send buffer is full
    inbox,      \* bytes in the socket, not yet read
    said,       \* how many bytes the station sent on this connection
    conns,      \* how often a station was accepted
    forwarded   \* history: the bytes put on the work queue, in order

sockets == <<tcp, udp>>
config == <<protocol, timeout>>
thread == <<qn, pc, connected, sockets, config, has_acked, silence, process>>
sockVars == <<station, calling, full, inbox, said, conns>>
vars == <<thread, sockVars, forwarded>>

NetItem == {"nq_recv", "nq_send", "nq_send_ack"}
Byte == (1..MaxConns) \X (1..MaxBytes)

TypeOK ==
    /\ qn \in Seq(NetItem)
    /\ pc \in {"poll", "accept", "opened", "none", "header", "data"}
    /\ connected \in BOOLEAN /\ tcp \in BOOLEAN /\ has_acked \in BOOLEAN
    /\ udp \in BOOLEAN /\ protocol \in Protocols /\ timeout \in Timeouts
    /\ silence \in 0..timeout + 1
    /\ process \in {"running", "exited", "killed"}
    /\ station \in {"away", "up", "closed", "reset", "dead"}
    /\ calling \in BOOLEAN /\ full \in BOOLEAN
    /\ inbox \in Seq(Byte) /\ forwarded \in Seq(Byte)
    /\ said \in 0..MaxBytes /\ conns \in 0..MaxConns

(* main and the constructor: one nq_recv queued, last_recv = now - timeout. *)
Init ==
    /\ qn = <<"nq_recv">> /\ pc = "poll"
    /\ connected \in BOOLEAN /\ has_acked \in BOOLEAN
    /\ tcp = FALSE /\ udp = FALSE /\ protocol \in Protocols
    /\ timeout \in Timeouts /\ silence = timeout /\ process = "running"
    /\ station = "away" /\ calling = FALSE /\ full = FALSE
    /\ inbox = <<>> /\ said = 0 /\ conns = 0
    /\ forwarded = <<>>

-----------------------------------------------------------------------------
(* The network thread.                                                     *)

running == process = "running"
takes(item) == running /\ pc = "poll" /\ qn # <<>> /\ Head(qn) = item

(* fail_connection: close the sockets and mark the worker disconnected. *)
fail_connection ==
    /\ connected' = FALSE /\ tcp' = FALSE /\ udp' = FALSE
    /\ station' = "away" /\ full' = FALSE /\ inbox' = <<>> /\ said' = 0
    /\ UNCHANGED <<calling, conns, forwarded>>

(* exit(1): atexit runs initialize_pins, the process is gone. *)
exits == process' = "exited" /\ UNCHANGED <<pc, connected, sockets, has_acked, silence, sockVars>>

(* Mutant: the result of do_recv is not tested, and the uninitialised      *)
(* character is forwarded.                                                 *)
recv_nothing_forwarded ==
    /\ takes("nq_recv")
    /\ ~tcp \/ (station = "up" /\ inbox = <<>>)
    /\ qn' = Tail(qn)
    /\ forwarded' = Append(forwarded, <<0, 0>>)
    /\ UNCHANGED <<pc, connected, sockets, has_acked, silence, process, sockVars>>

(* do_recv for an nq_recv: nothing to read; poll fails; one byte; end of   *)
(* file; a reset connection, reported as an error once (or not at all) and *)
(* as end of file after that.  With connfd_tcp at -1 there is nothing to   *)
(* read.                                                                   *)
recv_nothing ==
    /\ takes("nq_recv")
    /\ ~tcp \/ (station = "up" /\ inbox = <<>>)
    /\ qn' = Tail(qn)
    /\ UNCHANGED <<pc, connected, sockets, has_acked, silence, process, sockVars, forwarded>>

recv_poll_failed ==
    /\ takes("nq_recv") /\ "poll" \in Faults
    /\ qn' = Tail(qn)
    /\ exits /\ UNCHANGED forwarded

(* Mutant: the byte read is dropped when a send is waiting. *)
recv_byte_busy ==
    /\ takes("nq_recv") /\ tcp /\ inbox # <<>>
    /\ qn' = Tail(qn)
    /\ inbox' = Tail(inbox)
    /\ forwarded' = IF Len(qn) > 1 THEN forwarded ELSE Append(forwarded, Head(inbox))
    /\ silence' = 0 /\ has_acked' = FALSE
    /\ UNCHANGED <<pc, connected, sockets, process, station, calling, full, said, conns>>

recv_byte ==
    /\ takes("nq_recv") /\ tcp /\ inbox # <<>>
    /\ qn' = Tail(qn)
    /\ inbox' = Tail(inbox)
    /\ forwarded' = Append(forwarded, Head(inbox))
    /\ silence' = 0 /\ has_acked' = FALSE
    /\ UNCHANGED <<pc, connected, sockets, process, station, calling, full, said, conns>>

recv_eof ==
    /\ takes("nq_recv") /\ tcp /\ inbox = <<>> /\ station \in {"closed", "dead"}
    /\ qn' = Tail(qn)
    /\ fail_connection
    /\ UNCHANGED <<pc, has_acked, silence, process>>

recv_error ==
    /\ takes("nq_recv") /\ tcp /\ inbox = <<>> /\ station = "reset"
    /\ qn' = Tail(qn)
    /\ \/ /\ station' = "dead"          \* read returned -1
          /\ UNCHANGED <<connected, sockets, calling, full, inbox, said, conns, forwarded>>
       \/ fail_connection              \* read returned 0
    /\ UNCHANGED <<pc, has_acked, silence, process>>

(* nq_send_ack: nothing happens (the function then ends without a return). *)
send_ack ==
    /\ takes("nq_send_ack")
    /\ qn' = Tail(qn)
    /\ UNCHANGED <<pc, connected, sockets, has_acked, silence, process, sockVars, forwarded>>

(* nq_send: the POLLOUT test, !pf.revents & POLLOUT, is always 0, so the   *)
(* item is never put off and the header is written next.                   *)
begin_send ==
    /\ takes("nq_send")
    /\ qn' = Tail(qn)
    /\ pc' = "header"
    /\ UNCHANGED <<connected, sockets, has_acked, silence, process, sockVars, forwarded>>

(* write(2) of the header, then of the data, to the UDP socket if there is *)
(* one.  On the TCP socket it blocks while the send buffer is full, fails  *)
(* quietly on descriptor -1, makes a closed peer answer with a reset, and  *)
(* raises SIGPIPE on a connection that was reset, at the latest once the   *)
(* reset has been reported; nobody handles that signal.                    *)
on_tcp == tcp /\ ~udp

write_socket ==
    /\ running /\ pc \in {"header", "data"}
    /\ ~(on_tcp /\ full /\ station = "up")
    /\ \/ /\ on_tcp /\ station \in {"reset", "dead"}
          /\ process' = "killed" /\ UNCHANGED <<pc, station>>
       \/ /\ ~(on_tcp /\ station = "dead")
          /\ pc' = IF pc = "header" THEN "data" ELSE "poll"
          /\ station' \in CASE on_tcp /\ station = "closed" -> {"closed", "reset"}
                           [] on_tcp /\ station = "reset" -> {"dead"}
                           [] OTHER -> {station}
          /\ UNCHANGED process
    /\ UNCHANGED <<qn, connected, sockets, has_acked, silence, calling, full, inbox, said, conns, forwarded>>

(* Mutant: the listener is opened for the first connection only. *)
poll_none_once ==
    /\ running /\ pc = "poll" /\ qn = <<>>
    /\ pc' = IF connected \/ forwarded # <<>> THEN "none" ELSE "accept"
    /\ UNCHANGED <<qn, connected, sockets, has_acked, silence, process, sockVars, forwarded>>

(* An empty queue: process_nqi with nq_none.  Without a connection it      *)
(* opens the listener and blocks in accept.                                *)
poll_none ==
    /\ running /\ pc = "poll" /\ qn = <<>>
    /\ pc' = IF connected THEN "none" ELSE "accept"
    /\ UNCHANGED <<qn, connected, sockets, has_acked, silence, process, sockVars, forwarded>>

(* accept returns with a station that calls.  The worker thread is not     *)
(* told yet.                                                               *)
wait_for_connection ==
    /\ running /\ pc = "accept" /\ calling
    /\ tcp' = TRUE /\ pc' = "opened"
    /\ station' = "up" /\ calling' = FALSE /\ conns' = conns + 1
    /\ UNCHANGED <<qn, connected, udp, has_acked, silence, process, full, inbox, said, forwarded>>

(* accept returns -1: only a message, and open_connection goes on. *)
accept_failed ==
    /\ running /\ pc = "accept" /\ "accept" \in Faults
    /\ tcp' = FALSE /\ pc' = "opened"
    /\ UNCHANGED <<qn, connected, udp, has_acked, silence, process, sockVars, forwarded>>

(* The UDP socket, if configured; connecting it may fail. *)
open_udp == udp' \in IF protocol = "UDP" THEN BOOLEAN ELSE {udp}

(* The rest of open_connection: `connected' becomes true, also after a     *)
(* failed accept.                                                          *)
open_connection ==
    /\ running /\ pc = "opened"
    /\ open_udp
    /\ connected' = TRUE /\ has_acked' = FALSE /\ silence' = 0 /\ pc' = "none"
    /\ UNCHANGED <<qn, tcp, process, sockVars, forwarded>>

listen_failed ==
    /\ running /\ pc = "accept" /\ "listen" \in Faults
    /\ exits /\ UNCHANGED <<qn, forwarded>>

timed_out == timeout > 0 /\ silence > timeout
ack_due == timeout > 0 /\ ~has_acked /\ silence > timeout \div 2

(* The nq_none case: time out, or ask for an ack, or queue the next nq_recv. *)
none_timeout ==
    /\ running /\ pc = "none" /\ timed_out
    /\ fail_connection /\ pc' = "poll"
    /\ UNCHANGED <<qn, has_acked, silence, process>>

none_ack ==
    /\ running /\ pc = "none" /\ ~timed_out /\ ack_due
    /\ qn' = Append(qn, "nq_send_ack") /\ pc' = "poll"
    /\ UNCHANGED <<connected, sockets, has_acked, silence, process, sockVars, forwarded>>

(* Mutant: the next read is queued twice. *)
none_recv_twice ==
    /\ running /\ pc = "none" /\ ~timed_out /\ ~ack_due
    /\ qn' = qn \o <<"nq_recv", "nq_recv">> /\ pc' = "poll"
    /\ UNCHANGED <<connected, sockets, has_acked, silence, process, sockVars, forwarded>>

(* Mutant: reading stops after the first command. *)
none_recv_lost ==
    /\ running /\ pc = "none" /\ ~timed_out /\ ~ack_due
    /\ qn' = IF forwarded = <<>> THEN Append(qn, "nq_recv") ELSE qn
    /\ pc' = "poll"
    /\ UNCHANGED <<connected, sockets, has_acked, silence, process, sockVars, forwarded>>

none_recv ==
    /\ running /\ pc = "none" /\ ~timed_out /\ ~ack_due
    /\ qn' = Append(qn, "nq_recv") /\ pc' = "poll"
    /\ UNCHANGED <<connected, sockets, has_acked, silence, process, sockVars, forwarded>>

(* No step of the loop changes the configuration. *)
worker_method ==
    /\ \/ recv_nothing \/ recv_byte \/ recv_eof \/ recv_error
       \/ send_ack \/ begin_send \/ write_socket
       \/ poll_none \/ wait_for_connection \/ open_connection
       \/ none_timeout \/ none_ack \/ none_recv
    /\ UNCHANGED config

Fault ==
    /\ recv_poll_failed \/ accept_failed \/ listen_failed
    /\ UNCHANGED config

-----------------------------------------------------------------------------
(* The environment.                                                        *)

(* The worker thread's visitTimed: a send item, if it reads `connected'.   *)
WorkerSends ==
    /\ running /\ connected /\ Len(qn) < MaxQn
    /\ qn' = Append(qn, "nq_send")
    /\ UNCHANGED <<pc, connected, sockets, config, has_acked, silence, process, sockVars, forwarded>>

Tick ==
    /\ silence <= timeout /\ timeout > 0 /\ silence' = silence + 1
    /\ UNCHANGED <<qn, pc, connected, sockets, config, has_acked, process, sockVars, forwarded>>

(* A station calls at any time, also before the controller has noticed     *)
(* that the last one left; it keeps trying while the port is closed.       *)
StationCalls ==
    /\ ~calling /\ conns < MaxConns
    /\ calling' = TRUE
    /\ UNCHANGED <<thread, station, full, inbox, said, conns, forwarded>>

StationSends ==
    /\ station = "up" /\ said < MaxBytes
    /\ said' = said + 1 /\ inbox' = Append(inbox, <<conns, said + 1>>)
    /\ UNCHANGED <<thread, station, calling, full, conns, forwarded>>

StationLeaves ==
    /\ station \in {"up", "closed"}
    /\ station' \in {"closed", "reset"} \ {station}
    /\ UNCHANGED <<thread, calling, full, inbox, said, conns, forwarded>>

(* The station stops reading, and takes it up again. *)
BufferFills ==
    /\ station = "up" /\ full' = ~full
    /\ UNCHANGED <<thread, station, calling, inbox, said, conns, forwarded>>

Station == StationCalls \/ StationSends \/ StationLeaves \/ BufferFills

Next == worker_method \/ Fault \/ WorkerSends \/ Tick \/ Station

Spec == Init /\ [][Next]_vars

(* The thread never blocks but in accept and in write. *)
FairSpec == Spec /\ WF_vars(worker_method) /\ WF_vars(Tick)

-----------------------------------------------------------------------------
(* At most one nq_recv is queued: reads are not piled up behind the sends  *)
(* by reconnections, acks or the item main enqueues before the loop runs.  *)
OneRecvQueued == Cardinality({k \in 1..Len(qn) : qn[k] = "nq_recv"}) <= 1

(* Commands reach the work queue in the order the station sent them, each  *)
(* once, and without a gap within a connection: what a lost connection     *)
(* loses is the end of what was sent on it.                                *)
CommandsInOrder ==
    \A k \in 1..Len(forwarded) :
        /\ forwarded[k][2] > 1 => k > 1 /\ forwarded[k-1] = <<forwarded[k][1], forwarded[k][2] - 1>>
        /\ k > 1 => forwarded[k-1][1] <= forwarded[k][1]

ByteWaits == running /\ tcp /\ inbox # <<>>

(* If the thread meets an empty queue again and again, a byte waiting in   *)
(* the socket is read, or its connection is lost.                          *)
DrainedMeansReading == []<>(pc \in {"none", "accept"}) => (ByteWaits ~> ~ByteWaits)

(* A base station calls while no other is there, perhaps before the        *)
(* controller has noticed that, and `connected' is not wrongly true.  (An  *)
(* uninitialised flag may be, and one set after a failed accept is; nobody *)
(* corrects it.)                                                           *)
CallerWaits == running /\ calling /\ station # "up" /\ (connected => tcp)

(* If the thread meets an empty queue again and again, a base station that *)
(* waits is accepted, whatever was queued for, left unread of or not yet   *)
(* noticed about the one before it.  Otherwise accept fails, or another    *)
(* system call ends the process.                                           *)
CallerAccepted == []<>(pc \in {"none", "accept"}) => (CallerWaits ~> ~CallerWaits)

(* The test before an nq_send, "Cannot write. Will block.": a send is not  *)
(* begun on a full socket.                                                 *)
NeverBlocksOnSend == [][begin_send => ~(on_tcp /\ full)]_vars

(* The test after an nq_send reports "Connection Closed" and goes on: a    *)
(* base station that goes away does not end the process.                   *)
SurvivesStation == process # "killed"
=============================================================================
