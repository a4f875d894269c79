-------------------------- MODULE ThreadedAdcTest --------------------------
(***************************************************************************)
(* threaded_adc_test: the stand-alone test program with a worker thread    *)
(* that samples one converter while `sending', and a network thread that   *)
(* serves one connection and never opens another.  The byte '0' starts     *)
(* the sampling and '1' stops it.                                          *)
(*                                                                         *)
(* The buffer is counted in readings.  What it holds, and which of its     *)
(* bytes an nq_send names, is left out.                                    *)
(***************************************************************************)
EXTENDS Integers, Sequences

CONSTANTS
    PerSend,        \* readings per nq_send, 100
    MaxReadings,    \* bound: how many readings are made
    MaxBytes,       \* bound: how many bytes the station sends
    MaxQw           \* bound: length of qw at which the network thread has to wait

ASSUME AdcTestAssumption ==
    PerSend \in Nat /\ MaxReadings \in Nat /\ MaxBytes \in Nat /\ MaxQw \in Nat \ {0}

VARIABLES
    qn,         \* the network queue
    qw,         \* the work queue
    sending,    \* local of the worker: whether it samples
    bw,         \* readings in the buffer's stream so far
    last_send,  \* local of the worker: bw at the last nq_send
    pc,         \* where the network thread is: in accept, at qn.poll, writing
    connfd,     \* whether there is a connection
    c,          \* local of the network thread: the last byte read; not initialised
    alive,      \* whether the process runs
    station, full, inbox, said,  \* the base station and the socket, see NetworkWorker
    wanted      \* history: what the last '0' or '1' read from the socket asks for

network == <<pc, connfd, c, alive, wanted>>
worker == <<sending, bw, last_send>>
sockVars == <<station, full, inbox, said>>
vars == <<qn, qw, network, worker, sockVars>>

Char == {"0", "1", "x"}

NetItem == {"nq_recv", "nq_send"}

Init ==
    /\ qn = <<"nq_recv">> /\ qw = <<>>
    /\ sending = FALSE /\ bw = 0 /\ last_send = 0
    /\ pc = "accept" /\ connfd = FALSE /\ c \in Char /\ alive = TRUE
    /\ station = "calling" /\ full = FALSE /\ inbox = <<>> /\ said = <<>>
    /\ wanted = FALSE

-----------------------------------------------------------------------------
(* The worker thread.                                                      *)

(* Mutant: the break of wq_stop is missing. *)
work_command_through ==
    /\ qw # <<>> /\ qw' = Tail(qw)
    /\ sending' = IF Head(qw) = "wq_none" THEN sending ELSE TRUE
    /\ UNCHANGED <<qn, bw, last_send, network, sockVars>>

(* wq_start and wq_stop.  A queued wq_none is treated like an empty queue. *)
work_command ==
    /\ qw # <<>> /\ Head(qw) # "wq_none" /\ qw' = Tail(qw)
    /\ sending' = (Head(qw) = "wq_start")
    /\ UNCHANGED <<qn, bw, last_send, network, sockVars>>

send_due == bw' > last_send + PerSend

(* A reading is added; more than PerSend of them make an nq_send. *)
sample ==
    /\ bw < MaxReadings /\ bw' = bw + 1
    /\ IF send_due THEN qn' = Append(qn, "nq_send") /\ last_send' = bw'
                   ELSE UNCHANGED <<qn, last_send>>

work_none ==
    /\ \/ qw = <<>> /\ UNCHANGED qw
       \/ qw # <<>> /\ Head(qw) = "wq_none" /\ qw' = Tail(qw)
    /\ \/ sending /\ sample
       \/ (~sending \/ bw = MaxReadings) /\ UNCHANGED <<qn, bw, last_send>>
    /\ UNCHANGED <<sending, network, sockVars>>

worker_thread == alive /\ (work_command \/ work_none)

-----------------------------------------------------------------------------
(* The network thread.                                                     *)

(* The listener cannot be opened; accept; accept fails, which is only a    *)
(* message, and the loop is entered all the same.                          *)
wait_for_connection ==
    /\ pc = "accept"
    /\ \/ alive' = FALSE /\ UNCHANGED <<pc, connfd, station>>
       \/ pc' = "poll" /\ connfd' = TRUE /\ station' = "up" /\ UNCHANGED alive
       \/ pc' = "poll" /\ UNCHANGED <<connfd, station, alive>>
    /\ UNCHANGED <<qn, qw, worker, c, wanted, full, inbox, said>>

takes == pc = "poll" /\ qn # <<>> /\ qn' = Tail(qn)

(* Mutant: an unknown byte stops the sampling. *)
action_unknown_stops(b) == IF b = "0" THEN "wq_start" ELSE "wq_stop"

action(b) == IF b = "0" THEN "wq_start" ELSE IF b = "1" THEN "wq_stop" ELSE "wq_none"

(* nq_recv: poll fails; nothing to read; a byte; end of file or an error,  *)
(* which are not noticed: c is as it was and is acted on again.            *)
recv_poll_failed ==
    /\ takes /\ Head(qn) = "nq_recv" /\ alive' = FALSE
    /\ UNCHANGED <<qw, worker, pc, connfd, c, wanted, sockVars>>

recv_nothing ==
    /\ takes /\ Head(qn) = "nq_recv"
    /\ ~connfd \/ (station = "up" /\ inbox = <<>>)
    /\ UNCHANGED <<qw, worker, network, sockVars>>

recv_byte ==
    /\ takes /\ Head(qn) = "nq_recv" /\ Len(qw) < MaxQw
    /\ connfd /\ inbox # <<>>
    /\ c' = Head(inbox) /\ inbox' = Tail(inbox)
    /\ qw' = Append(qw, action(c'))
    /\ wanted' = IF c' \in {"0", "1"} THEN c' = "0" ELSE wanted
    /\ UNCHANGED <<worker, pc, connfd, alive, station, full, said>>

recv_eof ==
    /\ takes /\ Head(qn) = "nq_recv" /\ Len(qw) < MaxQw
    /\ connfd /\ inbox = <<>> /\ station # "up"
    /\ qw' = Append(qw, action(c))
    /\ UNCHANGED <<worker, network, sockVars>>

(* nq_send: the test for a full socket is always 0, as in the controller.  *)
begin_send ==
    /\ takes /\ Head(qn) = "nq_send"
    /\ pc' = "write"
    /\ UNCHANGED <<qw, worker, connfd, c, alive, wanted, sockVars>>

(* write_data: blocks on a full socket, fails on -1, raises SIGPIPE on a   *)
(* connection that was reset.                                              *)
write_data ==
    /\ pc = "write" /\ ~(connfd /\ full /\ station = "up")
    /\ \/ connfd /\ station = "reset" /\ alive' = FALSE /\ UNCHANGED <<pc, station>>
       \/ /\ pc' = "poll" /\ UNCHANGED alive
          /\ station' \in IF connfd /\ station = "closed" THEN {"closed", "reset"} ELSE {station}
    /\ UNCHANGED <<qn, qw, worker, connfd, c, wanted, full, inbox, said>>

none_recv ==
    /\ pc = "poll" /\ qn = <<>> /\ qn' = <<"nq_recv">>
    /\ UNCHANGED <<qw, worker, network, sockVars>>

loop == alive /\ (recv_nothing \/ recv_byte \/ recv_eof \/ begin_send \/ write_data \/ none_recv)
network_thread == loop \/ (alive /\ (wait_for_connection \/ recv_poll_failed))

-----------------------------------------------------------------------------
(* The base station.                                                       *)

StationSends ==
    /\ station = "up" /\ Len(said) < MaxBytes
    /\ \E b \in Char : said' = Append(said, b) /\ inbox' = Append(inbox, b)
    /\ UNCHANGED <<qn, qw, worker, network, station, full>>

StationLeaves ==
    /\ station \in {"up", "closed"} /\ station' \in {"closed", "reset"} \ {station}
    /\ UNCHANGED <<qn, qw, worker, network, full, inbox, said>>

BufferFills ==
    /\ station = "up" /\ full' = ~full
    /\ UNCHANGED <<qn, qw, worker, network, station, inbox, said>>

Next == worker_thread \/ network_thread \/ StationSends \/ StationLeaves \/ BufferFills

Spec == Init /\ [][Next]_vars

(* Neither thread stops; accept waits for the station, a write for room. *)
FairSpec == Spec /\ WF_vars(worker_thread) /\ WF_vars(loop)

-----------------------------------------------------------------------------
(* The station left without a byte: what c holds is then anybody's guess,  *)
(* and may start the sampling.                                             *)
NeverSpoke == said = <<>> /\ station \in {"closed", "reset"}

(* Sampling is, or once the orders in the work queue are carried out will  *)
(* be, what the last start or stop byte asked for.                         *)
ModeRight ==
    LET orders == {k \in 1..Len(qw) : qw[k] # "wq_none"} IN
    /\ orders = {} => sending = wanted
    /\ \A k \in orders : (\A j \in orders : j <= k) => (qw[k] = "wq_start") = wanted

(* The sampling follows the start and stop bytes the station sent, unless  *)
(* it left without a byte: no command is lost or reordered, and when the   *)
(* end of the connection makes the last byte a command again and again,    *)
(* also behind unknown bytes, the repetitions change nothing.              *)
ModeFollows == ~NeverSpoke => ModeRight

(* A stop command is obeyed in the end if the station stays, goes on       *)
(* reading, and the network queue runs empty from time to time.            *)
StopHeeded ==
    /\ <>[](alive /\ connfd /\ station = "up" /\ ~full /\ said # <<>> /\ said[Len(said)] = "1")
    /\ []<>(qn = <<>>)
    => <>[]~sending

=============================================================================
