----------------------------- MODULE Telemetry -----------------------------
(***************************************************************************)
(* One sensor's readings on their way out: the worker thread adds them to  *)
(* the sensor's circular_buffer, appends them to the log file and queues   *)
(* nq_send items; the network thread writes the bytes those items name to  *)
(* the socket, straight from the buffer and without a lock.                *)
(*                                                                         *)
(* The byte number k of the sensor's stream is modelled by k itself, so    *)
(* that a byte out of place shows.                                         *)
(***************************************************************************)
EXTENDS Integers, Sequences

CONSTANTS
    Sizes,          \* the buffer sizes considered
    ReadingSize,    \* sizeof(adc_reading)
    SizeRange,      \* 2^w for a size_t of w bits
    MaxReadings     \* bound: how many readings are made

ASSUME TelemetryAssumption ==
    /\ ReadingSize \in Nat \ {0} /\ MaxReadings \in Nat
    /\ \A size \in Sizes : size \in Nat /\ size >= ReadingSize
    /\ \A size \in Sizes : SizeRange \in Nat /\ SizeRange > size

VARIABLES
    nbytes,             \* the size of the buffer
    data,               \* its bytes; -1 before the first write
    bytes_written,      \* counted bytes, as a size_t
    total,              \* history: the same, not reduced to a size_t
    left,               \* the bytes of the reading that add_data has still to count
    copied,             \* of these, how many are copied and not yet counted
    nbytes_last_send,   \* bytes_written at the last send
    logging, sending,   \* where each thread is in write_data
    qn,                 \* the sensor's nq_send items on the network queue
    worker,             \* where the worker is: between readings, adding, deciding
    log,                \* history: the log file
    lost,               \* history: how many bytes the log file missed
    wire                \* history: the bytes of the last write to the socket

bufferVars == <<nbytes, data, bytes_written, total, left, copied>>
vars == <<bufferVars, nbytes_last_send, logging, sending, qn, worker, log, lost, wire>>

(* The arguments of write_data; pos is offset, not reduced to a size_t. *)
Cursor == [n : 0..SizeRange - 1, offset : 0..SizeRange - 1, pos : Nat]
idle == [n |-> 0, offset |-> 0, pos |-> 0]

(* A byte that was written out, and whether the worker had by then lapped  *)
(* the reader at that position.                                            *)
Sent == [pos : Nat, byte : -1..MaxReadings * ReadingSize, lapped : BOOLEAN]

TypeOK ==
    /\ nbytes \in Sizes
    /\ data \in [0..nbytes - 1 -> -1..MaxReadings * ReadingSize]
    /\ bytes_written \in 0..SizeRange - 1 /\ nbytes_last_send \in 0..SizeRange - 1
    /\ total \in 0..MaxReadings * ReadingSize
    /\ left \in 0..ReadingSize /\ copied \in 0..left
    /\ logging \in Cursor /\ sending \in Cursor /\ qn \in Seq(Cursor)
    /\ worker \in {"idle", "adding", "deciding"}
    /\ log \in Seq(Sent) /\ lost \in Nat /\ wire \in Seq(Sent)

Init ==
    /\ nbytes \in Sizes
    /\ data = [p \in 0..nbytes - 1 |-> -1]
    /\ bytes_written = 0 /\ total = 0 /\ left = 0 /\ copied = 0
    /\ nbytes_last_send = 0
    /\ logging = idle /\ sending = idle /\ qn = <<>> /\ worker = "idle"
    /\ log = <<>> /\ lost = 0 /\ wire = <<>>

-----------------------------------------------------------------------------
(* circular_buffer.                                                        *)

(* Mutant: the end of the buffer is not taken into account. *)
until_end_ignored(offset, n) == n

(* How many of n bytes at offset come before the end of the buffer. *)
until_end(offset, n) ==
    IF nbytes - (offset % nbytes) > n THEN n ELSE nbytes - (offset % nbytes)

(* add_data: memcpy a piece, count it, and again for what is left. *)
add_data_copy ==
    LET at == bytes_written % nbytes
        to_add == until_end(bytes_written, left)
    IN  /\ worker = "adding" /\ left > 0 /\ copied = 0
        /\ data' = [p \in 0..nbytes - 1 |->
                       IF p \in at..at + to_add - 1 THEN total + (p - at) ELSE data[p]]
        /\ copied' = to_add
        /\ UNCHANGED <<nbytes, bytes_written, total, left, nbytes_last_send, logging, sending,
                       qn, worker, log, lost, wire>>

add_data_count ==
    /\ worker = "adding" /\ copied > 0
    /\ bytes_written' = (bytes_written + copied) % SizeRange
    /\ total' = total + copied
    /\ left' = left - copied /\ copied' = 0
    /\ worker' = IF left' = 0 THEN "deciding" ELSE "adding"
    /\ UNCHANGED <<nbytes, data, nbytes_last_send, logging, sending, qn, log, lost, wire>>

(* The k bytes one write(2) of write_data takes from the buffer. *)
taken(cur, k) ==
    [j \in 1..k |-> [pos |-> cur.pos + j - 1,
                     byte |-> data[(cur.offset % nbytes) + j - 1],
                     lapped |-> total + copied - (cur.pos + j - 1) > nbytes]]

(* Mutant: write_data is called again with the same offset. *)
advance_same_offset(cur, k) ==
    IF k = cur.n THEN idle
    ELSE [n |-> cur.n - k, offset |-> cur.offset, pos |-> cur.pos + k]

(* The recursive call of write_data. *)
advance(cur, k) ==
    IF k = cur.n THEN idle
    ELSE [n |-> cur.n - k, offset |-> (cur.offset + k) % SizeRange, pos |-> cur.pos + k]

-----------------------------------------------------------------------------
(* The worker thread: visitTimed of the sensor.                            *)

read_item ==
    /\ worker = "idle" /\ logging = idle /\ total < MaxReadings * ReadingSize
    /\ worker' = "adding" /\ left' = ReadingSize
    /\ UNCHANGED <<nbytes, data, bytes_written, total, copied, nbytes_last_send, logging, sending,
                   qn, log, lost, wire>>

pending == (bytes_written - nbytes_last_send) % SizeRange

(* SEND_TIME has not passed since the last send.  It always has before the *)
(* buffer could be filled: SEND_TIME is 0.5 s, a buffer holds 49 s.        *)
not_due ==
    /\ worker = "deciding" /\ pending <= nbytes - ReadingSize
    /\ worker' = "idle"
    /\ UNCHANGED <<bufferVars, nbytes_last_send, logging, sending, qn, log, lost, wire>>

(* Mutants: the item starts at its own end; the difference is not reduced. *)
send_item_at_end == [n |-> pending, offset |-> bytes_written, pos |-> total - pending]
send_item_signed == [n |-> bytes_written - nbytes_last_send, offset |-> nbytes_last_send,
                     pos |-> total - pending]

send_item == [n |-> pending, offset |-> nbytes_last_send, pos |-> total - pending]

(* Mutant: nbytes_last_send is not brought up to date. *)
last_send_kept == nbytes_last_send

last_send == bytes_written

(* SEND_TIME has passed: queue an item for the network thread if it says   *)
(* connected, and turn to the log file.                                    *)
send_due ==
    /\ worker = "deciding"
    /\ qn' \in {qn, Append(qn, send_item)}
    /\ nbytes_last_send' = last_send
    /\ logging' = send_item /\ worker' = "idle"
    /\ UNCHANGED <<bufferVars, sending, log, lost, wire>>

(* write_from_nqi: a file takes every piece in full, or opening or writing *)
(* it fails and what is left of the item is not logged.                    *)
write_log ==
    /\ logging.n > 0
    /\ LET k == until_end(logging.offset, logging.n) IN
          log' = log \o taken(logging, k) /\ logging' = advance(logging, k)
    /\ UNCHANGED <<bufferVars, nbytes_last_send, sending, qn, worker, lost, wire>>

log_fails ==
    /\ logging.n > 0
    /\ lost' = lost + logging.n /\ logging' = idle
    /\ UNCHANGED <<bufferVars, nbytes_last_send, sending, qn, worker, log, wire>>

Worker ==
    \/ read_item \/ add_data_copy \/ add_data_count
    \/ not_due \/ send_due \/ write_log \/ log_fails

-----------------------------------------------------------------------------
(* The network thread: process_nqi of an nq_send.                          *)

take_send ==
    /\ sending.n = 0 /\ qn # <<>>
    /\ sending' = Head(qn) /\ qn' = Tail(qn)
    /\ UNCHANGED <<bufferVars, nbytes_last_send, logging, worker, log, lost, wire>>

(* A socket may take less than it is offered. *)
write_wire ==
    /\ sending.n > 0
    /\ \E k \in 1..until_end(sending.offset, sending.n) :
          wire' = taken(sending, k) /\ sending' = advance(sending, k)
    /\ UNCHANGED <<bufferVars, nbytes_last_send, logging, qn, worker, log, lost>>

(* The write fails: the rest of the item is not sent. *)
wire_fails ==
    /\ sending.n > 0 /\ sending' = idle
    /\ UNCHANGED <<bufferVars, nbytes_last_send, logging, qn, worker, log, lost, wire>>

Network == take_send \/ write_wire \/ wire_fails

Next == Worker \/ Network

Spec == Init /\ [][Next]_vars

-----------------------------------------------------------------------------
(* The counter has not passed the range of size_t, or does no harm when it *)
(* does.  (The controller's buffers of 12 << 17 bytes do not divide 2^32.) *)
NoWrap == SizeRange % nbytes = 0 \/ total + copied <= SizeRange

(* The buffer holds the last nbytes bytes of the stream, counting those    *)
(* copied and not yet counted, each where write_data looks for it, however *)
(* readings fall on the end of the buffer.                                 *)
WindowIntact ==
    NoWrap => \A k \in 0..total + copied - 1 :
                 k >= total + copied - nbytes => data[(k % SizeRange) % nbytes] = k

(* The log file has the stream's bytes in order, right and without a gap   *)
(* but for the items whose file could not be written.                      *)
LogExact ==
    NoWrap =>
        /\ \A j \in 1..Len(log) : log[j].byte = log[j].pos
        /\ \A j \in 1..Len(log) - 1 : log[j].pos < log[j+1].pos
        /\ logging = idle => Len(log) + lost = total - pending

(* What the network thread sends are the bytes recorded at that place of   *)
(* the stream, although the worker goes on writing, unless the worker has  *)
(* lapped it; the readings of two items never mix.                         *)
SentIntact ==
    NoWrap => \A j \in 1..Len(wire) : wire[j].byte = wire[j].pos \/ wire[j].lapped

(* Readings reach the base station in order and at most once, whatever     *)
(* partial writes, failed writes and lost connections did to their items.  *)
WireInOrder ==
    [][ wire # <<>> /\ wire' # wire =>
          \A i \in 1..Len(wire), j \in 1..Len(wire') : wire[i].pos < wire'[j].pos ]_vars

=============================================================================
