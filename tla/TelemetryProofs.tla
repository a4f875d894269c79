-------------------------- MODULE TelemetryProofs ---------------------------
(***************************************************************************)
(* Proofs about Telemetry, for every size of the buffer, of a reading and  *)
(* of size_t: what the circular buffer holds, what reaches the log file    *)
(* and what reaches the socket.                                            *)
(***************************************************************************)
EXTENDS Telemetry, TLAPS

-----------------------------------------------------------------------------
(* Remainders.                                                             *)

(* A product grows with its second factor by at least the first one. *)
LEMMA ProductGrows ==
    ASSUME NEW n \in Nat \ {0}, NEW p \in Int, NEW q \in Int, p < q
    PROVE  n * p + n <= n * q
<1>1. PICK d \in Nat : q = p + 1 + d
  <2>1. q - p - 1 \in Nat /\ q = p + 1 + (q - p - 1)
    OBVIOUS
  <2> QED  BY <2>1
<1>2. n * q = (n * p + n) + n * d /\ n * d >= 0
  BY <1>1
<1> QED  BY <1>2

(* Division with remainder. *)
LEMMA DivMod ==
    ASSUME NEW n \in Nat \ {0}, NEW a \in Int
    PROVE  /\ a % n \in Nat /\ (a % n) < n /\ a % n \in 0..n - 1
           /\ \E q \in Int : a = n * q + (a % n)
<1>1. a % n \in Nat /\ (a % n) < n
  OBVIOUS
<1>2. a \div n \in Int /\ a = n * (a \div n) + (a % n)
  OBVIOUS
<1>3. a % n \in 0..n - 1
  BY <1>1
<1>4. \E q \in Int : a = n * q + (a % n)
  <2> WITNESS a \div n \in Int
  <2> QED  BY <1>2
<1> QED  BY <1>1, <1>3, <1>4

(* There is only one remainder. *)
LEMMA ModUnique ==
    ASSUME NEW n \in Nat \ {0}, NEW a \in Int, NEW q \in Int, NEW r \in 0..n - 1,
           a = n * q + r
    PROVE  a % n = r
<1>1. PICK p \in Int : a = n * p + (a % n)
  BY DivMod
<1>2. a % n \in Nat /\ (a % n) < n
  BY DivMod
<1> DEFINE m == a % n
<1>3. m \in Nat /\ m < n /\ a = n * p + m
  BY <1>1, <1>2
<1> HIDE DEF m
<1>4. n * p \in Int /\ n * q \in Int
  OBVIOUS
<1>5. ~(p < q)
  <2> SUFFICES ASSUME p < q PROVE FALSE
    OBVIOUS
  <2>1. n * p + n <= n * q
    BY ProductGrows
  <2> QED  BY <1>3, <1>4, <2>1
<1>6. ~(q < p)
  <2> SUFFICES ASSUME q < p PROVE FALSE
    OBVIOUS
  <2>1. n * q + n <= n * p
    BY ProductGrows
  <2> QED  BY <1>3, <1>4, <2>1
<1>7. p = q
  BY <1>5, <1>6
<1>8. m = r
  BY <1>3, <1>4, <1>7
<1> QED  BY <1>8 DEF m

(* A remainder may be taken before an addition. *)
LEMMA ModAdd ==
    ASSUME NEW n \in Nat \ {0}, NEW a \in Int, NEW b \in Int
    PROVE  ((a % n) + b) % n = (a + b) % n
<1>1. PICK p \in Int : a = n * p + (a % n)
  BY DivMod
<1>0. a + b \in Int
  OBVIOUS
<1>2. PICK q \in Int : a + b = n * q + ((a + b) % n)
  BY <1>0, DivMod
<1>3. a % n \in Int /\ (a + b) % n \in 0..n - 1
  BY <1>0, DivMod
<1> DEFINE m == a % n
           s == (a + b) % n
<1>4. m \in Int /\ s \in 0..n - 1 /\ a = n * p + m /\ a + b = n * q + s
  BY <1>1, <1>2, <1>3
<1> HIDE DEF m, s
<1>5. m + b = n * (q - p) + s
  <2>1. n * (q - p) = n * q - n * p
    OBVIOUS
  <2>2. n * q \in Int /\ n * p \in Int
    OBVIOUS
  <2> QED  BY <1>4, <2>1, <2>2
<1>6. m + b \in Int /\ q - p \in Int
  BY <1>4
<1>7. (m + b) % n = s
  BY <1>4, <1>5, <1>6, ModUnique
<1> QED  BY <1>7 DEF m, s

(* The difference of two counters, each taken modulo n, is their distance  *)
(* as long as this is less than n.                                         *)
LEMMA ModDistance ==
    ASSUME NEW n \in Nat \ {0}, NEW a \in Int, NEW b \in Int, a - b \in 0..n - 1
    PROVE  ((a % n) - (b % n)) % n = a - b
<1>1. PICK p \in Int : a = n * p + (a % n)
  BY DivMod
<1>2. PICK q \in Int : b = n * q + (b % n)
  BY DivMod
<1> DEFINE c == a % n
           d == b % n
<1>3. c \in Int /\ d \in Int /\ a = n * p + c /\ b = n * q + d
  BY <1>1, <1>2, DivMod
<1> HIDE DEF c, d
<1>4. c - d = n * (q - p) + (a - b)
  <2>1. n * (q - p) = n * q - n * p
    OBVIOUS
  <2>2. n * q \in Int /\ n * p \in Int
    OBVIOUS
  <2> QED  BY <1>3, <2>1, <2>2
<1>5. c - d \in Int /\ q - p \in Int
  BY <1>3
<1>6. (c - d) % n = a - b
  BY <1>4, <1>5, ModUnique
<1> QED  BY <1>6 DEF c, d

(* Numbers less than n apart have different remainders. *)
LEMMA ModDistinct ==
    ASSUME NEW n \in Nat \ {0}, NEW a \in Int, NEW b \in Int, a - b \in 1..n - 1
    PROVE  a % n # b % n
<1> SUFFICES ASSUME a % n = b % n PROVE FALSE
  OBVIOUS
<1> DEFINE c == a % n
           d == b % n
<1>0. a - b \in 0..n - 1
  OBVIOUS
<1>1. (c - d) % n = a - b
  BY <1>0, ModDistance
<1>2. c - d = 0
  <2>1. c \in Int
    BY DivMod
  <2> QED  BY <2>1
<1> HIDE DEF c, d
<1>3. 0 % n = 0
  BY ModUnique
<1> QED  BY <1>1, <1>2, <1>3

(* A remainder modulo a multiple of n may be taken before one modulo n. *)
LEMMA ModMod ==
    ASSUME NEW n \in Nat \ {0}, NEW r \in Nat \ {0}, r % n = 0, NEW a \in Int
    PROVE  (a % r) % n = a % n
<1>1. PICK k \in Int : r = n * k
  <2>0. r \in Int
    OBVIOUS
  <2>1. PICK k \in Int : r = n * k + (r % n)
    BY <2>0, DivMod
  <2> QED  BY <2>1
<1>2. PICK p \in Int : a = r * p + (a % r)
  BY DivMod
<1>3. PICK q \in Int : a = n * q + (a % n)
  BY DivMod
<1> DEFINE c == a % r
           d == a % n
<1>4. c \in Int /\ d \in 0..n - 1 /\ a = r * p + c /\ a = n * q + d
  BY <1>2, <1>3, DivMod
<1> HIDE DEF c, d
<1>5. c = n * (q - k * p) + d
  <2>1. r * p = n * (k * p)
    BY <1>1
  <2>2. n * (q - k * p) = n * q - n * (k * p)
    OBVIOUS
  <2>3. n * q \in Int /\ n * (k * p) \in Int
    OBVIOUS
  <2> QED  BY <1>4, <2>1, <2>2, <2>3
<1>6. q - k * p \in Int
  OBVIOUS
<1>7. c % n = d
  BY <1>4, <1>5, <1>6, ModUnique
<1> QED  BY <1>7 DEF c, d

(* A number below n is its own remainder. *)
LEMMA ModSmall ==
    ASSUME NEW n \in Nat \ {0}, NEW a \in 0..n - 1
    PROVE  a % n = a
<1>1. a = n * 0 + a
  OBVIOUS
<1> QED  BY <1>1, ModUnique

(* Consecutive numbers have consecutive remainders until n is reached. *)
LEMMA ModConsecutive ==
    ASSUME NEW n \in Nat \ {0}, NEW a \in Int, NEW j \in Nat, (a % n) + j < n
    PROVE  (a + j) % n = (a % n) + j
<1>1. (a % n) \in Nat
  BY DivMod
<1> DEFINE c == a % n
<1>2. c \in Nat /\ c + j \in 0..n - 1
  BY <1>1
<1>0. j \in Int
  OBVIOUS
<1>3. (c + j) % n = (a + j) % n
  BY <1>0, ModAdd
<1> HIDE DEF c
<1>4. (c + j) % n = c + j
  BY <1>2, ModSmall
<1> QED  BY <1>3, <1>4 DEF c

-----------------------------------------------------------------------------
(* The invariant.                                                          *)

(* Up to where the stream was handed out for sending, and up to where it   *)
(* has been logged or given up.                                            *)
SendEnd == total - pending
LogEnd == SendEnd - logging.n

(* The counters, each reduced to a size_t, stand for true positions of the *)
(* stream, and what has been added since the last send, with what is still *)
(* to be added, fits into the buffer.                                      *)
CounterInv ==
    /\ bytes_written = total % SizeRange
    /\ nbytes_last_send = SendEnd % SizeRange
    /\ pending <= total /\ pending + left <= nbytes
    /\ worker = "adding" <=> left > 0
    /\ worker = "idle" => pending + ReadingSize <= nbytes
    /\ worker = "deciding" => pending > 0
    /\ \E m \in Nat : total + left = ReadingSize * m
    /\ total + left <= MaxReadings * ReadingSize

(* A cursor with bytes left to write stands at a position that was handed  *)
(* out, and its offset is that position reduced to a size_t.               *)
Placed(cur) ==
    cur.n > 0 => cur.offset = cur.pos % SizeRange /\ cur.pos + cur.n <= SendEnd

(* The log file is written by the worker itself, between two readings. *)
LogInv ==
    /\ Placed(logging)
    /\ logging.n = 0 => logging = idle
    /\ logging.n > 0 => /\ worker = "idle" /\ pending = 0
                        /\ logging.pos + logging.n = total /\ logging.n <= nbytes
    /\ Len(log) + lost = LogEnd
    /\ \A j \in 1..Len(log) : log[j].pos < LogEnd
    /\ \A j \in 1..Len(log) - 1 : log[j].pos < log[j+1].pos
    /\ NoWrap => \A j \in 1..Len(log) : log[j].byte = log[j].pos

(* The socket: what is written, being written and queued is in the order   *)
(* of the stream, without overlap.                                         *)
WireInv ==
    /\ Placed(sending) /\ \A i \in 1..Len(qn) : Placed(qn[i]) /\ qn[i].n > 0
    /\ \A i \in 1..Len(qn) : \A j \in i + 1..Len(qn) : qn[i].pos + qn[i].n <= qn[j].pos
    /\ sending.n > 0 => \A i \in 1..Len(qn) : sending.pos + sending.n <= qn[i].pos
    /\ \A w \in 1..Len(wire) :
          /\ wire[w].pos < SendEnd
          /\ sending.n > 0 => wire[w].pos < sending.pos
          /\ \A i \in 1..Len(qn) : wire[w].pos < qn[i].pos

StreamInv == TypeOK /\ CounterInv /\ WindowIntact /\ LogInv /\ WireInv /\ SentIntact

-----------------------------------------------------------------------------
(* Types of the parts.                                                     *)

MaxTotal == MaxReadings * ReadingSize

(* The sizes that are in force. *)
LEMMA Sized ==
    ASSUME nbytes \in Sizes
    PROVE  /\ nbytes \in Nat \ {0} /\ SizeRange \in Nat \ {0} /\ nbytes < SizeRange
           /\ ReadingSize \in Nat \ {0} /\ ReadingSize <= nbytes /\ MaxTotal \in Nat
<1>1. /\ nbytes \in Nat /\ SizeRange \in Nat /\ nbytes < SizeRange
      /\ ReadingSize \in Nat \ {0} /\ ReadingSize <= nbytes /\ MaxReadings \in Nat
  BY TelemetryAssumption
<1>2. MaxTotal \in Nat
  BY <1>1 DEF MaxTotal
<1> QED  BY <1>1, <1>2

(* What is pending is a size_t. *)
LEMMA PendingTyped == ASSUME TypeOK PROVE pending \in 0..SizeRange - 1
<1>1. SizeRange \in Nat \ {0} /\ bytes_written - nbytes_last_send \in Int
  BY Sized DEF TypeOK
<1> QED  BY <1>1, DivMod DEF pending

(* A piece has at least one byte, and stops at the end of the buffer. *)
LEMMA UntilEnd ==
    ASSUME TypeOK, NEW offset \in Nat, NEW n \in Nat \ {0}
    PROVE  /\ until_end(offset, n) \in 1..n
           /\ (offset % nbytes) \in Nat /\ (offset % nbytes) < nbytes
           /\ (offset % nbytes) + until_end(offset, n) <= nbytes
<1> DEFINE m == offset % nbytes
<1>1. nbytes \in Nat \ {0} /\ offset \in Int
  BY Sized DEF TypeOK
<1>2. m \in Nat /\ m < nbytes
  BY <1>1, DivMod
<1>3. until_end(offset, n) = IF nbytes - m > n THEN n ELSE nbytes - m
  BY DEF until_end
<1> HIDE DEF m
<1>4. until_end(offset, n) \in 1..n /\ m + until_end(offset, n) <= nbytes
  BY <1>1, <1>2, <1>3
<1> QED  BY <1>2, <1>4 DEF m

(* The cursor after k of its bytes. *)
LEMMA Advanced ==
    ASSUME TypeOK, NEW cur \in Cursor, NEW k \in 1..cur.n
    PROVE  /\ advance(cur, k) \in Cursor /\ advance(cur, k).n = cur.n - k
           /\ advance(cur, k).n = 0 => advance(cur, k) = idle
           /\ advance(cur, k).n > 0 => /\ advance(cur, k).pos = cur.pos + k
                                       /\ advance(cur, k).offset = (cur.offset + k) % SizeRange
<1>1. /\ SizeRange \in Nat \ {0} /\ cur.n \in 0..SizeRange - 1
      /\ cur.offset \in 0..SizeRange - 1 /\ cur.pos \in Nat /\ k \in Nat /\ k > 0 /\ k <= cur.n
  BY Sized DEF TypeOK, Cursor
<1>2. idle \in Cursor /\ idle.n = 0
  BY <1>1 DEF Cursor, idle
<1>3. CASE k = cur.n
  <2>1. advance(cur, k) = idle
    BY <1>3 DEF advance
  <2> QED  BY <1>1, <1>2, <1>3, <2>1
<1>4. CASE k # cur.n
  <2> DEFINE o == (cur.offset + k) % SizeRange
  <2>1. advance(cur, k) = [n |-> cur.n - k, offset |-> o, pos |-> cur.pos + k]
    BY <1>4 DEF advance
  <2>2. o \in 0..SizeRange - 1
    <3>1. cur.offset + k \in Int
      BY <1>1
    <3> QED  BY <1>1, <3>1, DivMod
  <2>3. cur.n - k \in 0..SizeRange - 1 /\ cur.n - k # 0 /\ cur.pos + k \in Nat
    BY <1>1, <1>4
  <2> HIDE DEF o
  <2>4. advance(cur, k) \in Cursor
    BY <2>1, <2>2, <2>3 DEF Cursor
  <2>5. advance(cur, k).n = cur.n - k /\ advance(cur, k).pos = cur.pos + k /\ advance(cur, k).offset = o
    BY <2>1
  <2> QED  BY <2>3, <2>4, <2>5 DEF o
<1> QED  BY <1>3, <1>4

(* The bytes one write takes. *)
LEMMA Taken ==
    ASSUME TypeOK, NEW cur \in Cursor, cur.n > 0,
           NEW k \in 1..until_end(cur.offset, cur.n)
    PROVE  /\ taken(cur, k) \in Seq(Sent) /\ Len(taken(cur, k)) = k
           /\ k \in 1..cur.n
           /\ \A j \in 1..k :
                /\ (cur.offset % nbytes) + j - 1 \in 0..nbytes - 1
                /\ taken(cur, k)[j].pos = cur.pos + j - 1
                /\ taken(cur, k)[j].byte = data[(cur.offset % nbytes) + j - 1]
                /\ taken(cur, k)[j].lapped = (total + copied - (cur.pos + j - 1) > nbytes)
<1> DEFINE m == cur.offset % nbytes
           u == until_end(cur.offset, cur.n)
<1>1. cur.n \in Nat \ {0} /\ cur.offset \in Nat /\ cur.pos \in Nat /\ nbytes \in Nat \ {0}
  BY Sized DEF TypeOK, Cursor
<1>2. m \in Nat /\ u \in 1..cur.n /\ m + u <= nbytes
  BY <1>1, UntilEnd
<1>3. taken(cur, k) = [j \in 1..k |-> [pos |-> cur.pos + j - 1, byte |-> data[m + j - 1],
                                       lapped |-> total + copied - (cur.pos + j - 1) > nbytes]]
  BY DEF taken
<1> HIDE DEF m, u
<1>4. k \in 1..u /\ k \in 1..cur.n /\ k \in Nat
  BY <1>1, <1>2 DEF u
<1>5. ASSUME NEW j \in 1..k
      PROVE  /\ m + j - 1 \in 0..nbytes - 1 /\ cur.pos + j - 1 \in Nat
             /\ data[m + j - 1] \in -1..MaxReadings * ReadingSize
  <2>1. m + j - 1 \in 0..nbytes - 1 /\ cur.pos + j - 1 \in Nat
    BY <1>1, <1>2, <1>4
  <2> QED  BY <2>1 DEF TypeOK
<1>6. ASSUME NEW j \in 1..k
      PROVE  [pos |-> cur.pos + j - 1, byte |-> data[m + j - 1],
              lapped |-> total + copied - (cur.pos + j - 1) > nbytes] \in Sent
  BY <1>5 DEF Sent
<1>7. taken(cur, k) \in [1..k -> Sent]
  BY <1>3, <1>6
<1>8. taken(cur, k) \in Seq(Sent) /\ Len(taken(cur, k)) = k
  BY <1>3, <1>4, <1>7
<1>9. \A j \in 1..k : /\ taken(cur, k)[j].pos = cur.pos + j - 1
                      /\ taken(cur, k)[j].byte = data[m + j - 1]
                      /\ taken(cur, k)[j].lapped = (total + copied - (cur.pos + j - 1) > nbytes)
  BY <1>3
<1> QED  BY <1>4, <1>5, <1>8, <1>9 DEF m

-----------------------------------------------------------------------------
(* The counters.                                                           *)

(* What a step may do to the counters. *)
LEMMA Counting ==
    ASSUME [Next]_vars
    PROVE  \/ read_item \/ add_data_copy \/ add_data_count \/ not_due \/ send_due
           \/ UNCHANGED <<bufferVars, nbytes_last_send, worker>>
BY DEF Next, Worker, Network, write_log, log_fails, take_send, write_wire, wire_fails, vars

(* The counters are right initially. *)
LEMMA CounterInit == Init => CounterInv
<1> SUFFICES ASSUME Init PROVE CounterInv
  OBVIOUS
<1>1. /\ nbytes \in Nat \ {0} /\ SizeRange \in Nat \ {0} /\ ReadingSize \in Nat \ {0}
      /\ ReadingSize <= nbytes /\ MaxTotal \in Nat
  BY Sized DEF Init
<1>2. 0 % SizeRange = 0
  BY <1>1, ModSmall
<1>3. pending = 0 /\ SendEnd = 0
  BY <1>2 DEF Init, pending, SendEnd
<1>4. total + left = ReadingSize * 0 /\ total + left <= MaxReadings * ReadingSize
  BY <1>1 DEF Init, MaxTotal
<1> QED  BY <1>1, <1>2, <1>3, <1>4 DEF Init, CounterInv

(* While only the counters are left alone, so is what is pending. *)
LEMMA CounterFrame ==
    ASSUME UNCHANGED <<bytes_written, nbytes_last_send, total>>
    PROVE  pending' = pending /\ SendEnd' = SendEnd
BY DEF pending, SendEnd

(* Counting a piece adds it to what is pending: the difference of the two  *)
(* counters is right although each may have wrapped around.                *)
LEMMA CountedPending ==
    ASSUME TypeOK, CounterInv, add_data_count
    PROVE  /\ bytes_written' = total' % SizeRange
           /\ pending' = pending + copied /\ SendEnd' = SendEnd
<1>1. /\ SizeRange \in Nat \ {0} /\ total \in Nat /\ copied \in Nat /\ copied <= left /\ left \in Nat
      /\ nbytes < SizeRange /\ nbytes \in Nat
  BY Sized DEF TypeOK
<1>2. pending \in Nat /\ pending + left <= nbytes /\ pending <= total
  BY PendingTyped DEF CounterInv
<1>3. total' = total + copied /\ bytes_written' = (bytes_written + copied) % SizeRange
      /\ nbytes_last_send' = nbytes_last_send
  BY DEF add_data_count
<1>4. bytes_written' = total' % SizeRange
  <2>1. total \in Int /\ copied \in Int
    BY <1>1
  <2>2. ((total % SizeRange) + copied) % SizeRange = (total + copied) % SizeRange
    BY <1>1, <2>1, ModAdd
  <2>3. bytes_written = total % SizeRange
    BY DEF CounterInv
  <2> QED  BY <1>3, <2>2, <2>3
<1>5. pending' = ((total' % SizeRange) - (SendEnd % SizeRange)) % SizeRange
  BY <1>3, <1>4 DEF pending, CounterInv
<1>6. total' \in Int /\ SendEnd \in Int /\ total' - SendEnd = pending + copied
      /\ total' - SendEnd \in 0..SizeRange - 1
  BY <1>1, <1>2, <1>3 DEF SendEnd
<1>7. pending' = pending + copied
  BY <1>1, <1>5, <1>6, ModDistance
<1>8. SendEnd' = SendEnd
  BY <1>1, <1>2, <1>3, <1>7 DEF SendEnd
<1> QED  BY <1>4, <1>7, <1>8

(* A send leaves nothing pending. *)
LEMMA SentPending ==
    ASSUME TypeOK, send_due
    PROVE  pending' = 0 /\ SendEnd' = total
<1>1. SizeRange \in Nat \ {0} /\ bytes_written \in Int /\ total \in Int
  BY Sized DEF TypeOK
<1>2. bytes_written' = bytes_written /\ nbytes_last_send' = bytes_written /\ total' = total
  BY DEF send_due, bufferVars, last_send
<1>3. 0 % SizeRange = 0
  BY <1>1, ModSmall
<1>4. pending' = 0
  BY <1>1, <1>2, <1>3 DEF pending
<1> QED  BY <1>1, <1>2, <1>4 DEF SendEnd

(* Every step keeps the counters right. *)
LEMMA CounterNext == ASSUME TypeOK, CounterInv, [Next]_vars PROVE CounterInv'
<1>ty. /\ nbytes \in Nat \ {0} /\ SizeRange \in Nat \ {0} /\ nbytes < SizeRange
       /\ ReadingSize \in Nat \ {0} /\ ReadingSize <= nbytes /\ MaxTotal \in Nat
       /\ total \in Nat /\ left \in Nat /\ copied \in 0..left /\ left <= ReadingSize
       /\ pending \in Nat
  BY Sized, PendingTyped DEF TypeOK
<1>1. CASE UNCHANGED <<bufferVars, nbytes_last_send, worker>>
  <2>1. UNCHANGED <<nbytes, bytes_written, nbytes_last_send, total, left, worker>>
    BY <1>1 DEF bufferVars
  <2> QED  BY <2>1, CounterFrame DEF CounterInv
<1>2. CASE read_item
  <2>1. /\ UNCHANGED <<nbytes, bytes_written, nbytes_last_send, total>>
        /\ left' = ReadingSize /\ worker' = "adding" /\ worker = "idle"
        /\ total < MaxReadings * ReadingSize
    BY <1>2 DEF read_item
  <2>2. pending' = pending /\ SendEnd' = SendEnd
    BY <2>1, CounterFrame
  <2>3. left = 0 /\ pending + ReadingSize <= nbytes
    BY <1>ty, <2>1 DEF CounterInv
  <2>4. PICK m \in Nat : total = ReadingSize * m
    BY <1>ty, <2>3 DEF CounterInv
  <2>5. total + ReadingSize = ReadingSize * (m + 1)
    BY <1>ty, <2>4
  <2>6. total + ReadingSize <= MaxReadings * ReadingSize
    <3>1. MaxReadings \in Nat /\ MaxReadings * ReadingSize = ReadingSize * MaxReadings
      BY <1>ty, TelemetryAssumption
    <3>2. ReadingSize * m \in Int /\ ReadingSize * MaxReadings \in Int
      BY <1>ty, <3>1
    <3>3. m < MaxReadings
      <4> SUFFICES ASSUME MaxReadings <= m PROVE FALSE
        BY <3>1
      <4>1. CASE MaxReadings = m
        BY <2>1, <2>4, <3>1, <3>2, <4>1
      <4>2. CASE MaxReadings < m
        <5>1. ReadingSize * MaxReadings + ReadingSize <= ReadingSize * m
          BY <1>ty, <3>1, <4>2, ProductGrows
        <5> QED  BY <1>ty, <2>1, <2>4, <3>1, <3>2, <5>1
      <4> QED  BY <3>1, <4>1, <4>2
    <3>4. ReadingSize * m + ReadingSize <= ReadingSize * MaxReadings
      BY <1>ty, <3>1, <3>3, ProductGrows
    <3> QED  BY <2>4, <3>1, <3>4
  <2>7. \E l \in Nat : total' + left' = ReadingSize * l
    <3> WITNESS m + 1 \in Nat
    <3> QED  BY <2>1, <2>5
  <2>8. bytes_written' = total' % SizeRange /\ nbytes_last_send' = SendEnd' % SizeRange
    BY <2>1, <2>2 DEF CounterInv
  <2> QED  BY <1>ty, <2>1, <2>2, <2>3, <2>6, <2>7, <2>8 DEF CounterInv
<1>3. CASE add_data_copy
  <2>1. UNCHANGED <<nbytes, bytes_written, nbytes_last_send, total, left, worker>>
    BY <1>3 DEF add_data_copy
  <2> QED  BY <2>1, CounterFrame DEF CounterInv
<1>4. CASE add_data_count
  <2>1. /\ total' = total + copied /\ left' = left - copied /\ copied > 0
        /\ worker = "adding" /\ worker' = IF left' = 0 THEN "deciding" ELSE "adding"
        /\ UNCHANGED <<nbytes, nbytes_last_send>>
    BY <1>4 DEF add_data_count
  <2>2. bytes_written' = total' % SizeRange /\ pending' = pending + copied /\ SendEnd' = SendEnd
    BY <1>4, CountedPending
  <2>3. total' + left' = total + left /\ left' \in Nat
    BY <1>ty, <2>1
  <2>4. \E m \in Nat : total' + left' = ReadingSize * m
    BY <2>3 DEF CounterInv
  <2>5. pending' <= total' /\ pending' + left' <= nbytes' /\ pending' > 0
    BY <1>ty, <2>1, <2>2 DEF CounterInv
  <2>6. (worker' = "adding" <=> left' > 0) /\ worker' # "idle"
    BY <2>1, <2>3
  <2>7. total' + left' <= MaxReadings * ReadingSize /\ nbytes_last_send' = SendEnd' % SizeRange
    BY <2>1, <2>2, <2>3 DEF CounterInv
  <2> QED  BY <2>2, <2>4, <2>5, <2>6, <2>7 DEF CounterInv
<1>5. CASE not_due
  <2>1. /\ UNCHANGED <<nbytes, bytes_written, nbytes_last_send, total, left>>
        /\ worker = "deciding" /\ worker' = "idle" /\ pending <= nbytes - ReadingSize
    BY <1>5 DEF not_due, bufferVars
  <2>2. pending' = pending /\ SendEnd' = SendEnd
    BY <2>1, CounterFrame
  <2>3. pending' + ReadingSize <= nbytes'
    BY <1>ty, <2>1, <2>2
  <2> QED  BY <2>1, <2>2, <2>3 DEF CounterInv
<1>6. CASE send_due
  <2>1. /\ UNCHANGED <<nbytes, bytes_written, total, left>> /\ nbytes_last_send' = bytes_written
        /\ worker = "deciding" /\ worker' = "idle"
    BY <1>6 DEF send_due, bufferVars, last_send
  <2>2. pending' = 0 /\ SendEnd' = total
    BY <1>6, SentPending
  <2>3. left = 0
    BY <1>ty, <2>1 DEF CounterInv
  <2>4. pending' <= total' /\ pending' + left' <= nbytes' /\ pending' + ReadingSize <= nbytes'
    BY <1>ty, <2>1, <2>2, <2>3
  <2>5. bytes_written' = total' % SizeRange /\ nbytes_last_send' = SendEnd' % SizeRange
    BY <2>1, <2>2 DEF CounterInv
  <2> QED  BY <2>1, <2>4, <2>5 DEF CounterInv
<1> QED
  BY <1>1, <1>2, <1>3, <1>4, <1>5, <1>6, Counting

-----------------------------------------------------------------------------
(* Types.                                                                  *)

(* The item queued by a send is what is pending. *)
LEMMA SendItem ==
    ASSUME TypeOK, CounterInv
    PROVE  /\ send_item \in Cursor /\ send_item.n = pending /\ send_item.pos = SendEnd
           /\ send_item.offset = SendEnd % SizeRange /\ SendEnd \in Nat
<1>1. pending \in 0..SizeRange - 1 /\ pending <= total /\ total \in Nat /\ SizeRange \in Nat
  BY PendingTyped, Sized DEF TypeOK, CounterInv
<1>2. total - pending \in Nat
  BY <1>1
<1>3. nbytes_last_send \in 0..SizeRange - 1 /\ nbytes_last_send = SendEnd % SizeRange
  BY DEF TypeOK, CounterInv
<1>4. send_item \in Cursor
  BY <1>1, <1>2, <1>3 DEF send_item, Cursor
<1>5. /\ send_item.n = pending /\ send_item.pos = total - pending
      /\ send_item.offset = nbytes_last_send
  BY DEF send_item
<1> QED  BY <1>2, <1>3, <1>4, <1>5 DEF SendEnd

(* The state is typed initially. *)
LEMMA TypedInit == Init => TypeOK
<1> SUFFICES ASSUME Init PROVE TypeOK
  OBVIOUS
<1>1. SizeRange \in Nat \ {0} /\ ReadingSize \in Nat /\ nbytes \in Nat /\ MaxTotal \in Nat
  BY Sized DEF Init
<1>2. 0 \in 0..SizeRange - 1 /\ 0 \in 0..MaxReadings * ReadingSize /\ -1 \in -1..MaxReadings * ReadingSize
  BY <1>1 DEF MaxTotal
<1>3. idle \in Cursor
  BY <1>2 DEF idle, Cursor
<1>4. data \in [0..nbytes - 1 -> -1..MaxReadings * ReadingSize]
  BY <1>2 DEF Init
<1> QED  BY <1>1, <1>2, <1>3, <1>4 DEF Init, TypeOK

(* Every step keeps the types. *)
LEMMA TypedNext == ASSUME TypeOK, CounterInv, [Next]_vars PROVE TypeOK'
<1>ty. /\ nbytes \in Nat \ {0} /\ SizeRange \in Nat \ {0} /\ ReadingSize \in Nat \ {0}
       /\ MaxTotal \in Nat /\ total \in Nat /\ left \in Nat /\ left <= ReadingSize
       /\ copied \in Nat /\ copied <= left /\ bytes_written \in Nat
       /\ total + left <= MaxTotal
  BY Sized DEF TypeOK, CounterInv, MaxTotal
<1>idle. idle \in Cursor
  BY <1>ty DEF idle, Cursor
<1>1. CASE read_item
  <2>1. ReadingSize \in 0..ReadingSize /\ copied \in 0..ReadingSize
    BY <1>ty
  <2> QED  BY <1>1, <2>1 DEF read_item, TypeOK
<1>2. CASE add_data_copy
  <2> DEFINE at == bytes_written % nbytes
             to_add == until_end(bytes_written, left)
  <2>1. /\ left > 0
        /\ data' = [p \in 0..nbytes - 1 |->
                      IF p \in at..at + to_add - 1 THEN total + (p - at) ELSE data[p]]
        /\ copied' = to_add
        /\ UNCHANGED <<nbytes, bytes_written, total, left, nbytes_last_send, logging, sending,
                       qn, worker, log, lost, wire>>
    BY <1>2 DEF add_data_copy
  <2>2. at \in Nat /\ to_add \in 1..left
    <3>1. left \in Nat \ {0}
      BY <1>ty, <2>1
    <3> QED  BY <1>ty, <3>1, UntilEnd
  <2> HIDE DEF at, to_add
  <2>3. ASSUME NEW p \in 0..nbytes - 1
        PROVE  (IF p \in at..at + to_add - 1 THEN total + (p - at) ELSE data[p])
                  \in -1..MaxReadings * ReadingSize
    <3>1. CASE p \in at..at + to_add - 1
      <4>1. total + (p - at) \in Nat /\ total + (p - at) <= MaxTotal
        BY <1>ty, <2>2, <3>1
      <4> QED  BY <1>ty, <3>1, <4>1 DEF MaxTotal
    <3>2. CASE p \notin at..at + to_add - 1
      BY <3>2 DEF TypeOK
    <3> QED  BY <3>1, <3>2
  <2>4. data' \in [0..nbytes' - 1 -> -1..MaxReadings * ReadingSize]
    BY <2>1, <2>3
  <2>5. copied' \in 0..left'
    BY <1>ty, <2>1, <2>2
  <2> QED  BY <2>1, <2>4, <2>5 DEF TypeOK
<1>3. CASE add_data_count
  <2>1. /\ bytes_written' = (bytes_written + copied) % SizeRange /\ total' = total + copied
        /\ left' = left - copied /\ copied' = 0
        /\ worker' \in {"adding", "deciding"}
        /\ UNCHANGED <<nbytes, data, nbytes_last_send, logging, sending, qn, log, lost, wire>>
    BY <1>3 DEF add_data_count
  <2>2. bytes_written' \in 0..SizeRange - 1
    <3>1. bytes_written + copied \in Int
      BY <1>ty
    <3> QED  BY <1>ty, <2>1, <3>1, DivMod
  <2>3. total' \in 0..MaxReadings * ReadingSize
    BY <1>ty, <2>1 DEF MaxTotal
  <2>4. left' \in 0..ReadingSize /\ copied' \in 0..left'
    BY <1>ty, <2>1
  <2> QED  BY <2>1, <2>2, <2>3, <2>4 DEF TypeOK
<1>4. CASE not_due
  BY <1>4 DEF not_due, bufferVars, TypeOK
<1>5. CASE send_due
  <2>1. /\ qn' \in {qn, Append(qn, send_item)} /\ nbytes_last_send' = bytes_written
        /\ logging' = send_item /\ worker' = "idle"
        /\ UNCHANGED <<bufferVars, sending, log, lost, wire>>
    BY <1>5 DEF send_due, last_send
  <2>2. send_item \in Cursor
    BY SendItem
  <2>3. qn' \in Seq(Cursor)
    BY <2>1, <2>2 DEF TypeOK
  <2> QED  BY <2>1, <2>2, <2>3 DEF TypeOK, bufferVars
<1>6. CASE write_log
  <2> DEFINE k == until_end(logging.offset, logging.n)
  <2>1. /\ logging.n > 0 /\ log' = log \o taken(logging, k) /\ logging' = advance(logging, k)
        /\ UNCHANGED <<bufferVars, nbytes_last_send, sending, qn, worker, lost, wire>>
    BY <1>6 DEF write_log
  <2>2. k \in 1..logging.n /\ k \in 1..k
    <3>1. logging.offset \in Nat /\ logging.n \in Nat \ {0}
      BY <1>ty, <2>1 DEF TypeOK, Cursor
    <3>2. k \in 1..logging.n
      BY <3>1, UntilEnd
    <3> QED  BY <3>1, <3>2
  <2>3. logging \in Cursor
    BY DEF TypeOK
  <2>4. taken(logging, k) \in Seq(Sent)
    BY <2>1, <2>2, <2>3, Taken
  <2>5. advance(logging, k) \in Cursor
    BY <2>2, <2>3, Advanced
  <2> HIDE DEF k
  <2>6. log' \in Seq(Sent)
    BY <2>1, <2>4 DEF TypeOK
  <2> QED  BY <2>1, <2>5, <2>6 DEF TypeOK, bufferVars
<1>7. CASE log_fails
  <2>1. logging.n \in Nat
    BY <1>ty DEF TypeOK, Cursor
  <2>2. lost' \in Nat /\ logging' \in Cursor
    BY <1>7, <1>idle, <2>1 DEF log_fails, TypeOK
  <2> QED  BY <1>7, <2>2 DEF log_fails, bufferVars, TypeOK
<1>8. CASE take_send
  <2>1. Head(qn) \in Cursor /\ Tail(qn) \in Seq(Cursor)
    BY <1>8 DEF take_send, TypeOK
  <2> QED  BY <1>8, <2>1 DEF take_send, bufferVars, TypeOK
<1>9. CASE write_wire
  <2>1. PICK k \in 1..until_end(sending.offset, sending.n) :
            wire' = taken(sending, k) /\ sending' = advance(sending, k)
    BY <1>9 DEF write_wire
  <2>2. sending.n > 0 /\ sending \in Cursor
        /\ UNCHANGED <<bufferVars, nbytes_last_send, logging, qn, worker, log, lost>>
    BY <1>9 DEF write_wire, TypeOK
  <2>3. taken(sending, k) \in Seq(Sent) /\ k \in 1..sending.n
    BY <2>2, Taken
  <2>4. advance(sending, k) \in Cursor
    BY <2>2, <2>3, Advanced
  <2> QED  BY <2>1, <2>2, <2>3, <2>4 DEF bufferVars, TypeOK
<1>10. CASE wire_fails
  BY <1>10, <1>idle DEF wire_fails, bufferVars, TypeOK
<1>11. CASE UNCHANGED vars
  BY <1>11 DEF vars, bufferVars, TypeOK
<1> QED
  BY <1>1, <1>2, <1>3, <1>4, <1>5, <1>6, <1>7, <1>8, <1>9, <1>10, <1>11 DEF Next, Worker, Network

-----------------------------------------------------------------------------
(* The buffer.                                                             *)

(* The place of byte k, found through a counter that wraps around at r, is *)
(* that of the true position.                                              *)
LEMMA Slot ==
    ASSUME NEW n \in Nat \ {0}, NEW r \in Nat \ {0}, NEW k \in Nat, r % n = 0 \/ k < r
    PROVE  (k % r) % n = k % n
<1>1. CASE r % n = 0
  <2>1. k \in Int
    OBVIOUS
  <2> QED  BY <1>1, <2>1, ModMod
<1>2. CASE k < r
  <2>1. k \in 0..r - 1
    BY <1>2
  <2>2. k % r = k
    BY <2>1, ModSmall
  <2> QED  BY <2>2
<1> QED  BY <1>1, <1>2

(* A counter that is past the range of size_t stays so. *)
LEMMA WrapStays == ASSUME TypeOK, [Next]_vars, NoWrap' PROVE NoWrap
<1>ty. /\ total \in Nat /\ left \in Nat /\ copied \in Nat /\ bytes_written \in Nat
       /\ SizeRange \in Nat /\ nbytes \in Nat
  BY Sized DEF TypeOK
<1>1. CASE add_data_copy
  <2>1. /\ copied = 0 /\ left > 0 /\ copied' = until_end(bytes_written, left)
        /\ total' = total /\ nbytes' = nbytes
    BY <1>1 DEF add_data_copy
  <2>2. copied' \in Nat
    <3>1. left \in Nat \ {0}
      BY <1>ty, <2>1
    <3>2. until_end(bytes_written, left) \in 1..left
      BY <1>ty, <3>1, UntilEnd
    <3> QED  BY <1>ty, <2>1, <3>2
  <2> QED  BY <1>ty, <2>1, <2>2 DEF NoWrap
<1>2. CASE add_data_count
  <2>1. total' = total + copied /\ copied' = 0 /\ nbytes' = nbytes
    BY <1>2 DEF add_data_count
  <2> QED  BY <1>ty, <2>1 DEF NoWrap
<1>3. CASE UNCHANGED <<total, copied, nbytes>>
  BY <1>3 DEF NoWrap
<1>4. \/ add_data_copy \/ add_data_count \/ UNCHANGED <<total, copied, nbytes>>
  BY Counting DEF read_item, not_due, send_due, bufferVars
<1> QED  BY <1>1, <1>2, <1>3, <1>4

(* The buffer is right initially: nothing has been added. *)
LEMMA WindowInit == Init => WindowIntact
<1> SUFFICES ASSUME Init PROVE WindowIntact
  OBVIOUS
<1>1. total + copied - 1 = -1
  BY DEF Init
<1> QED  BY <1>1 DEF WindowIntact

(* A copied piece takes the places of the oldest bytes and of no others. *)
LEMMA WindowNext == ASSUME TypeOK, CounterInv, WindowIntact, [Next]_vars PROVE WindowIntact'
<1>ty. /\ nbytes \in Nat \ {0} /\ SizeRange \in Nat \ {0} /\ total \in Nat /\ left \in Nat
       /\ copied \in Nat /\ bytes_written \in Nat
  BY Sized DEF TypeOK
<1>1. CASE UNCHANGED <<total, copied, nbytes, data>>
  BY <1>1 DEF WindowIntact, NoWrap
<1>2. CASE add_data_count
  <2>1. /\ total' = total + copied /\ copied' = 0 /\ nbytes' = nbytes /\ data' = data
    BY <1>2 DEF add_data_count
  <2>2. total' + copied' = total + copied
    BY <1>ty, <2>1
  <2>3. NoWrap' => NoWrap
    BY <2>1, <2>2 DEF NoWrap
  <2> SUFFICES ASSUME NoWrap', NEW k \in 0..total' + copied' - 1, k >= total' + copied' - nbytes'
               PROVE  data'[(k % SizeRange) % nbytes'] = k
    BY Zenon DEF WindowIntact
  <2>4. k \in 0..total + copied - 1 /\ k >= total + copied - nbytes
    BY <1>ty, <2>1, <2>2
  <2>5. data[(k % SizeRange) % nbytes] = k
    BY <2>3, <2>4 DEF WindowIntact
  <2> QED  BY <2>1, <2>5
<1>3. CASE add_data_copy
  <2> SUFFICES ASSUME NoWrap', NEW k \in 0..total' + copied' - 1, k >= total' + copied' - nbytes'
               PROVE  data'[(k % SizeRange) % nbytes'] = k
    BY Zenon DEF WindowIntact
  <2> DEFINE at == bytes_written % nbytes
             c == until_end(bytes_written, left)
             slot == k % nbytes
  <2>1. /\ left > 0 /\ copied = 0 /\ nbytes' = nbytes /\ total' = total /\ copied' = c
        /\ data' = [p \in 0..nbytes - 1 |->
                      IF p \in at..at + c - 1 THEN total + (p - at) ELSE data[p]]
    BY <1>3 DEF add_data_copy
  <2>2. at \in Nat /\ c \in Nat \ {0} /\ at + c <= nbytes
    <3>1. left \in Nat \ {0}
      BY <1>ty, <2>1
    <3>2. c \in 1..left /\ at \in Nat /\ at + c <= nbytes
      BY <1>ty, <3>1, UntilEnd
    <3> QED  BY <1>ty, <3>2
  <2>3. SizeRange % nbytes = 0 \/ total + c <= SizeRange
    BY <2>1 DEF NoWrap
  <2>4. at = total % nbytes
    <3>1. SizeRange % nbytes = 0 \/ total < SizeRange
      <4> HIDE DEF at, c
      <4> QED  BY <1>ty, <2>2, <2>3
    <3>2. (total % SizeRange) % nbytes = total % nbytes
      BY <1>ty, <3>1, Slot
    <3> QED  BY <3>2 DEF CounterInv
  <2>5. k \in Nat /\ k < total + c /\ k >= total + c - nbytes
    <3> HIDE DEF at, c
    <3> QED  BY <1>ty, <2>1, <2>2
  <2>6. (k % SizeRange) % nbytes = slot
    <3>1. SizeRange % nbytes = 0 \/ k < SizeRange
      <4> HIDE DEF at, c
      <4> QED  BY <1>ty, <2>2, <2>3, <2>5
    <3> QED  BY <1>ty, <2>5, <3>1, Slot
  <2>7. slot \in 0..nbytes - 1
    <3>1. k \in Int
      BY <2>5
    <3> QED  BY <1>ty, <3>1, DivMod
  <2>8. ASSUME NEW j \in 0..c - 1
        PROVE  (total + j) % nbytes = at + j
    <3>1. j \in Nat /\ at + j < nbytes /\ total \in Int
      <4> HIDE DEF at, c
      <4> QED  BY <1>ty, <2>2
    <3>2. (total % nbytes) + j < nbytes
      BY <2>4, <3>1
    <3>3. (total + j) % nbytes = (total % nbytes) + j
      BY <1>ty, <3>1, <3>2, ModConsecutive
    <3> QED  BY <2>4, <3>3
  <2> HIDE DEF at, c
  <2>9. CASE k >= total
    <3>1. k - total \in 0..c - 1 /\ total + (k - total) = k
      BY <1>ty, <2>2, <2>5, <2>9
    <3> DEFINE j == k - total
    <3>2. j \in 0..c - 1 /\ total + j = k
      BY <3>1
    <3> HIDE DEF j
    <3>3. slot = at + j
      <4>1. (total + j) % nbytes = at + j
        BY <2>8, <3>2
      <4> QED  BY <3>2, <4>1
    <3> HIDE DEF slot
    <3>4. slot \in at..at + c - 1 /\ total + (slot - at) = k
      BY <1>ty, <2>2, <3>2, <3>3
    <3>5. data'[slot] = k
      BY <2>1, <2>7, <3>4
    <3> QED  BY <2>1, <2>6, <3>5
  <2>10. CASE k < total
    <3>1. slot \notin at..at + c - 1
      <4> SUFFICES ASSUME slot \in at..at + c - 1 PROVE FALSE
        OBVIOUS
      <4> DEFINE j == slot - at
                 x == total + j
      <4> HIDE DEF slot
      <4>1. j \in 0..c - 1 /\ slot = at + j
        BY <2>2, <2>7
      <4> HIDE DEF j
      <4>2. x % nbytes = slot
        BY <2>8, <4>1
      <4>3. x \in Int /\ k \in Int /\ x - k \in 1..nbytes - 1
        BY <1>ty, <2>2, <2>5, <2>10, <4>1
      <4> HIDE DEF x
      <4>4. x % nbytes # k % nbytes
        BY <1>ty, <4>3, ModDistinct
      <4> QED  BY <4>2, <4>4 DEF slot
    <3>2. data'[slot] = data[slot]
      <4> HIDE DEF slot
      <4> QED  BY <2>1, <2>7, <3>1
    <3>3. NoWrap
      BY WrapStays
    <3>4. k \in 0..total + copied - 1 /\ k >= total + copied - nbytes
      BY <1>ty, <2>1, <2>2, <2>5, <2>10
    <3>5. data[(k % SizeRange) % nbytes] = k
      BY <3>3, <3>4 DEF WindowIntact
    <3> QED  BY <2>1, <2>6, <3>2, <3>5
  <2> QED  BY <1>ty, <2>5, <2>9, <2>10
<1>4. \/ add_data_copy \/ add_data_count \/ UNCHANGED <<total, copied, nbytes, data>>
  BY Counting DEF read_item, not_due, send_due, bufferVars
<1> QED  BY <1>1, <1>2, <1>3, <1>4

(* A byte that one write takes from the buffer is the one the stream has   *)
(* at that position, unless the worker has lapped the reader.              *)
LEMMA TakenRight ==
    ASSUME TypeOK, CounterInv, WindowIntact, NoWrap,
           NEW cur \in Cursor, cur.n > 0, Placed(cur),
           NEW k \in 1..until_end(cur.offset, cur.n), NEW j \in 1..k
    PROVE  taken(cur, k)[j].byte = taken(cur, k)[j].pos \/ taken(cur, k)[j].lapped
<1> DEFINE m == cur.offset % nbytes
           x == cur.pos + (j - 1)
<1>1. /\ nbytes \in Nat \ {0} /\ SizeRange \in Nat \ {0} /\ total \in Nat /\ copied \in Nat
      /\ cur.pos \in Nat /\ cur.n \in Nat
  BY Sized DEF TypeOK, Cursor
<1>2. /\ k \in 1..cur.n /\ m + j - 1 \in 0..nbytes - 1
      /\ taken(cur, k)[j].pos = cur.pos + j - 1
      /\ taken(cur, k)[j].byte = data[m + j - 1]
      /\ taken(cur, k)[j].lapped = (total + copied - (cur.pos + j - 1) > nbytes)
  BY Taken
<1>3. /\ cur.offset = cur.pos % SizeRange /\ cur.pos + cur.n <= total
  <2>1. pending \in Nat
    BY <1>1, PendingTyped
  <2> QED  BY <1>1, <2>1 DEF Placed, SendEnd
<1>4. j \in Nat /\ k \in Nat /\ j - 1 \in Nat /\ x \in Nat /\ x < total /\ cur.pos + j - 1 = x
      /\ cur.pos < total
  <2>1. j \in Nat /\ k \in Nat /\ j >= 1 /\ j <= k /\ k <= cur.n
    BY <1>1, <1>2
  <2> QED  BY <1>1, <1>3, <2>1
<1>5. SizeRange % nbytes = 0 \/ total + copied <= SizeRange
  BY DEF NoWrap
<1>6. m = cur.pos % nbytes
  <2>1. SizeRange % nbytes = 0 \/ cur.pos < SizeRange
    <3> HIDE DEF m, x
    <3> QED  BY <1>1, <1>4, <1>5
  <2>2. (cur.pos % SizeRange) % nbytes = cur.pos % nbytes
    BY <1>1, <2>1, Slot
  <2> QED  BY <1>3, <2>2
<1>7. (x % SizeRange) % nbytes = x % nbytes
  <2> HIDE DEF m, x
  <2>1. SizeRange % nbytes = 0 \/ x < SizeRange
    BY <1>1, <1>4, <1>5
  <2> QED  BY <1>1, <1>4, <2>1, Slot
<1>8. x % nbytes = m + j - 1
  <2>1. m \in Nat
    <3>1. cur.pos \in Int
      BY <1>1
    <3> QED  BY <1>1, <1>6, <3>1, DivMod
  <2> DEFINE i == j - 1
  <2>2. i \in Nat /\ m + i < nbytes /\ m + i = m + j - 1 /\ cur.pos \in Int
    <3> HIDE DEF m, x
    <3> QED  BY <1>1, <1>2, <1>4, <2>1
  <2> HIDE DEF i
  <2>3. (cur.pos % nbytes) + i < nbytes
    BY <1>6, <2>2
  <2>4. (cur.pos + i) % nbytes = (cur.pos % nbytes) + i
    BY <1>1, <2>2, <2>3, ModConsecutive
  <2> QED  BY <1>6, <2>2, <2>4 DEF i
<1> HIDE DEF m, x
<1>9. CASE total + copied - x > nbytes
  BY <1>2, <1>4, <1>9
<1>10. CASE ~(total + copied - x > nbytes)
  <2>1. x \in 0..total + copied - 1 /\ x >= total + copied - nbytes
    BY <1>1, <1>4, <1>10
  <2>2. data[(x % SizeRange) % nbytes] = x
    BY <2>1 DEF WindowIntact
  <2> QED  BY <1>2, <1>4, <1>7, <1>8, <2>2
<1> QED  BY <1>9, <1>10

-----------------------------------------------------------------------------
(* Positions handed out.                                                   *)

(* Only a send hands out positions of the stream, and none is taken back. *)
LEMMA HandedOut ==
    ASSUME TypeOK, CounterInv, [Next]_vars
    PROVE  /\ SendEnd \in Nat /\ SendEnd' \in Nat /\ SendEnd <= SendEnd' /\ SendEnd <= total
           /\ send_due \/ SendEnd' = SendEnd
<1>1. SendEnd \in Nat /\ total \in Nat /\ pending \in Nat /\ SendEnd <= total
  <2>1. SendEnd \in Nat /\ pending \in Nat /\ total \in Nat
    BY SendItem, PendingTyped, Sized DEF TypeOK
  <2> QED  BY <2>1 DEF SendEnd
<1>2. CASE send_due
  <2>1. SendEnd' = total
    BY <1>2, SentPending
  <2> QED  BY <1>1, <1>2, <2>1
<1>3. CASE add_data_count
  <2>1. SendEnd' = SendEnd
    BY <1>3, CountedPending
  <2> QED  BY <1>1, <2>1
<1>4. CASE UNCHANGED <<bytes_written, nbytes_last_send, total>>
  <2>1. SendEnd' = SendEnd
    BY <1>4, CounterFrame
  <2> QED  BY <1>1, <2>1
<1>5. send_due \/ add_data_count \/ UNCHANGED <<bytes_written, nbytes_last_send, total>>
  BY Counting DEF read_item, add_data_copy, not_due, bufferVars
<1> QED  BY <1>2, <1>3, <1>4, <1>5

(* The recursive call of write_data keeps offset and position together. *)
LEMMA PlacedAdvance ==
    ASSUME TypeOK, CounterInv, NEW cur \in Cursor, Placed(cur), NEW k \in 1..cur.n
    PROVE  Placed(advance(cur, k))
<1> SUFFICES ASSUME advance(cur, k).n > 0
             PROVE  /\ advance(cur, k).offset = advance(cur, k).pos % SizeRange
                    /\ advance(cur, k).pos + advance(cur, k).n <= SendEnd
  BY DEF Placed
<1>1. /\ cur.n \in Nat /\ cur.pos \in Nat /\ k \in Nat /\ k >= 1 /\ k <= cur.n
      /\ SizeRange \in Nat \ {0} /\ SendEnd \in Nat
  <2>1. SizeRange \in Nat \ {0}
    BY Sized DEF TypeOK
  <2>2. cur.n \in Nat /\ cur.pos \in Nat
    BY <2>1 DEF Cursor
  <2>3. SendEnd \in Nat
    BY SendItem
  <2> QED  BY <2>1, <2>2, <2>3
<1>2. /\ advance(cur, k).n = cur.n - k /\ advance(cur, k).pos = cur.pos + k
      /\ advance(cur, k).offset = (cur.offset + k) % SizeRange
  BY Advanced
<1>3. cur.offset = cur.pos % SizeRange /\ cur.pos + cur.n <= SendEnd
  BY <1>1 DEF Placed
<1>4. cur.pos \in Int /\ k \in Int
  BY <1>1
<1>5. ((cur.pos % SizeRange) + k) % SizeRange = (cur.pos + k) % SizeRange
  BY <1>1, <1>4, ModAdd
<1>6. advance(cur, k).pos + advance(cur, k).n <= SendEnd
  BY <1>1, <1>2, <1>3
<1> QED  BY <1>2, <1>3, <1>5, <1>6

-----------------------------------------------------------------------------
(* The log file.                                                           *)

(* The log file is right initially: it is empty. *)
LEMMA LogInit == Init => LogInv
<1> SUFFICES ASSUME Init PROVE LogInv
  OBVIOUS
<1>1. SizeRange \in Nat \ {0}
  BY Sized DEF Init
<1>2. 0 % SizeRange = 0
  BY <1>1, ModSmall
<1>3. SendEnd = 0 /\ LogEnd = 0 /\ logging.n = 0 /\ logging = idle
  BY <1>2 DEF Init, pending, SendEnd, LogEnd, idle
<1>4. log = <<>> /\ Len(log) = 0 /\ lost = 0
  BY DEF Init
<1> QED  BY <1>3, <1>4 DEF LogInv, Placed

(* Steps that leave the log file and its cursor alone. *)
LEMMA LogFrame ==
    ASSUME LogInv, UNCHANGED <<logging, log, lost>>, SendEnd' = SendEnd, NoWrap' => NoWrap,
           logging.n > 0 => UNCHANGED <<worker, total, nbytes, pending>>
    PROVE  LogInv'
<1>1. LogEnd' = LogEnd
  BY DEF LogEnd
<1>2. Placed(logging)'
  BY DEF LogInv, Placed
<1>3. /\ (logging.n = 0 => logging = idle)'
      /\ (logging.n > 0 => /\ worker = "idle" /\ pending = 0
                           /\ logging.pos + logging.n = total /\ logging.n <= nbytes)'
  BY DEF LogInv, idle
<1>4. /\ (Len(log) + lost = LogEnd)'
      /\ (\A j \in 1..Len(log) : log[j].pos < LogEnd)'
      /\ (\A j \in 1..Len(log) - 1 : log[j].pos < log[j+1].pos)'
  BY <1>1 DEF LogInv
<1>5. (NoWrap => \A j \in 1..Len(log) : log[j].byte = log[j].pos)'
  BY DEF LogInv
<1> QED  BY <1>2, <1>3, <1>4, <1>5 DEF LogInv

(* Appending bytes of ascending positions at the end keeps the log right. *)
LEMMA LogAppends ==
    ASSUME NEW old \in Seq(Sent), NEW new \in Seq(Sent), NEW end \in Nat,
           \A j \in 1..Len(old) : old[j].pos < end,
           \A j \in 1..Len(old) - 1 : old[j].pos < old[j+1].pos,
           \A j \in 1..Len(new) : new[j].pos = end + j - 1
    PROVE  /\ \A j \in 1..Len(old \o new) : (old \o new)[j].pos < end + Len(new)
           /\ \A j \in 1..Len(old \o new) - 1 : (old \o new)[j].pos < (old \o new)[j+1].pos
<1> DEFINE a == Len(old)
           b == Len(new)
           both == old \o new
<1>1. a \in Nat /\ b \in Nat /\ Len(both) = a + b /\ both \in Seq(Sent)
  OBVIOUS
<1>2. \A j \in 1..a + b : both[j] = IF j <= a THEN old[j] ELSE new[j - a]
  OBVIOUS
<1>3. \A j \in 1..a : old[j].pos \in Nat
  <2>1. \A j \in 1..a : old[j] \in Sent
    OBVIOUS
  <2> QED  BY <2>1 DEF Sent
<1> HIDE DEF a, b, both
<1>4. ASSUME NEW j \in 1..a + b PROVE both[j].pos < end + b
  <2>1. CASE j <= a
    <3>1. j \in 1..a
      BY <1>1, <2>1
    <3>2. both[j] = old[j] /\ old[j].pos < end /\ old[j].pos \in Nat
      BY <1>2, <1>3, <2>1, <3>1 DEF a
    <3> QED  BY <1>1, <3>2
  <2>2. CASE j > a
    <3>1. j - a \in 1..b /\ j - a \in Nat /\ ~(j <= a)
      BY <1>1, <2>2
    <3>2. both[j] = new[j - a] /\ new[j - a].pos = end + (j - a) - 1
      BY <1>2, <3>1 DEF b
    <3> QED  BY <1>1, <3>1, <3>2
  <2> QED  BY <1>1, <2>1, <2>2
<1>5. ASSUME NEW j \in 1..a + b - 1 PROVE both[j].pos < both[j+1].pos
  <2>0. j \in Nat /\ j \in 1..a + b /\ j + 1 \in 1..a + b
    BY <1>1
  <2>next. both[j+1] = IF j + 1 <= a THEN old[j+1] ELSE new[(j + 1) - a]
    <3> DEFINE i == j + 1
    <3>1. i \in 1..a + b
      BY <2>0
    <3> HIDE DEF i
    <3>2. both[i] = IF i <= a THEN old[i] ELSE new[i - a]
      BY <1>2, <3>1
    <3> QED  BY <3>2 DEF i
  <2>1. CASE j + 1 <= a
    <3>1. j \in 1..a - 1 /\ j <= a
      BY <1>1, <2>0, <2>1
    <3>2. both[j] = old[j] /\ both[j+1] = old[j+1] /\ old[j].pos < old[j+1].pos
      BY <1>2, <2>0, <2>1, <3>1 DEF a
    <3> QED  BY <3>2
  <2>2. CASE j = a
    <3>1. j \in 1..a /\ 1 \in 1..b /\ (j + 1) - a = 1 /\ ~(j + 1 <= a) /\ j <= a
      BY <1>1, <2>0, <2>2
    <3>2. both[j] = old[j] /\ both[j+1] = new[1]
      BY <1>2, <2>0, <2>next, <3>1
    <3>3. old[j].pos < end /\ new[1].pos = end + 1 - 1
      BY <3>1 DEF a, b
    <3>4. old[j].pos \in Nat
      BY <1>3, <3>1
    <3> QED  BY <3>2, <3>3, <3>4
  <2>3. CASE j > a
    <3>1. j - a \in 1..b /\ (j + 1) - a \in 1..b /\ ~(j <= a) /\ ~(j + 1 <= a)
      BY <1>1, <2>0, <2>3
    <3>2. both[j] = new[j - a] /\ both[j+1] = new[(j + 1) - a]
      BY <1>2, <2>0, <2>next, <3>1
    <3>3. new[j - a].pos = end + (j - a) - 1 /\ new[(j + 1) - a].pos = end + ((j + 1) - a) - 1
      BY <3>1 DEF b
    <3> QED  BY <1>1, <2>0, <3>2, <3>3
  <2> QED  BY <1>1, <2>0, <2>1, <2>2, <2>3
<1>6. (\A j \in 1..a + b : both[j].pos < end + b)
      /\ (\A j \in 1..a + b - 1 : both[j].pos < both[j+1].pos)
  BY <1>4, <1>5
<1> QED  BY <1>1, <1>6 DEF a, b, both

(* Every step keeps the log file right. *)
LEMMA LogNext ==
    ASSUME TypeOK, CounterInv, WindowIntact, LogInv, [Next]_vars
    PROVE  LogInv'
<1>ty. /\ total \in Nat /\ left \in Nat /\ copied \in 0..left /\ pending \in Nat /\ SendEnd \in Nat
       /\ nbytes \in Nat \ {0} /\ SizeRange \in Nat \ {0}
       /\ logging \in Cursor /\ logging.n \in Nat /\ logging.pos \in Nat /\ logging.offset \in Nat
       /\ log \in Seq(Sent) /\ Len(log) \in Nat /\ lost \in Nat
  <2>1. nbytes \in Nat \ {0} /\ SizeRange \in Nat \ {0} /\ SendEnd \in Nat /\ pending \in Nat
    BY Sized, SendItem, PendingTyped DEF TypeOK
  <2> QED  BY <2>1 DEF TypeOK, Cursor
<1>wrap. NoWrap' => NoWrap
  BY WrapStays
<1>end. send_due \/ SendEnd' = SendEnd
  BY HandedOut
<1>1. CASE read_item \/ add_data_copy \/ add_data_count \/ not_due
  <2>1. UNCHANGED <<logging, log, lost>>
    BY <1>1 DEF read_item, add_data_copy, add_data_count, not_due
  <2>2. ~(logging.n > 0)
    <3>1. idle.n = 0
      BY DEF idle
    <3> QED  BY <1>1, <3>1 DEF LogInv, read_item, add_data_copy, add_data_count, not_due
  <2>3. SendEnd' = SendEnd
    <3>1. CASE add_data_count
      BY <3>1, CountedPending
    <3>2. CASE read_item \/ add_data_copy \/ not_due
      <4>1. UNCHANGED <<bytes_written, nbytes_last_send, total>>
        BY <3>2 DEF read_item, add_data_copy, not_due, bufferVars
      <4> QED  BY <4>1, CounterFrame
    <3> QED  BY <1>1, <3>1, <3>2
  <2> QED  BY <1>wrap, <2>1, <2>2, <2>3, LogFrame
<1>2. CASE UNCHANGED <<bufferVars, nbytes_last_send, worker, logging, log, lost>>
  <2>1. UNCHANGED <<bytes_written, nbytes_last_send, total, worker, nbytes, logging, log, lost>>
    BY <1>2 DEF bufferVars
  <2>2. pending' = pending /\ SendEnd' = SendEnd
    BY <2>1, CounterFrame
  <2> QED  BY <1>wrap, <2>1, <2>2, LogFrame
<1>3. CASE send_due
  <2>1. /\ logging' = send_item /\ worker = "deciding" /\ worker' = "idle"
        /\ UNCHANGED <<nbytes, total, log, lost>>
    BY <1>3 DEF send_due, bufferVars
  <2>2. pending' = 0 /\ SendEnd' = total
    BY <1>3, SentPending
  <2>3. /\ logging'.n = pending /\ logging'.pos = SendEnd
        /\ logging'.offset = SendEnd % SizeRange
    BY <2>1, SendItem
  <2>4. pending > 0 /\ pending <= nbytes /\ SendEnd + pending = total
    BY <1>ty, <2>1 DEF CounterInv, SendEnd
  <2>5. LogEnd' = SendEnd /\ LogEnd = SendEnd
    <3>1. logging.n = 0
      BY <1>ty, <2>1 DEF LogInv
    <3>2. LogEnd = SendEnd
      BY <1>ty, <3>1 DEF LogEnd
    <3>3. LogEnd' = total - pending
      BY <2>2, <2>3 DEF LogEnd
    <3> QED  BY <1>ty, <2>4, <3>2, <3>3
  <2>6. Placed(logging)'
    BY <1>ty, <2>2, <2>3, <2>4 DEF Placed
  <2>7. /\ (logging.n = 0 => logging = idle)'
        /\ (logging.n > 0 => /\ worker = "idle" /\ pending = 0
                             /\ logging.pos + logging.n = total /\ logging.n <= nbytes)'
    BY <1>ty, <2>1, <2>2, <2>3, <2>4
  <2>8. /\ (Len(log) + lost = LogEnd)'
        /\ (\A j \in 1..Len(log) : log[j].pos < LogEnd)'
        /\ (\A j \in 1..Len(log) - 1 : log[j].pos < log[j+1].pos)'
    BY <2>1, <2>5 DEF LogInv
  <2>9. (NoWrap => \A j \in 1..Len(log) : log[j].byte = log[j].pos)'
    BY <1>wrap, <2>1 DEF LogInv
  <2> QED  BY <2>6, <2>7, <2>8, <2>9 DEF LogInv
<1>4. CASE write_log
  <2> DEFINE k == until_end(logging.offset, logging.n)
             new == taken(logging, k)
  <2>1. /\ logging.n > 0 /\ log' = log \o new /\ logging' = advance(logging, k)
        /\ UNCHANGED <<bufferVars, nbytes_last_send, worker, lost>>
    BY <1>4 DEF write_log
  <2>2. UNCHANGED <<nbytes, bytes_written, nbytes_last_send, total, worker, lost, copied>>
    BY <2>1 DEF bufferVars
  <2>3. pending' = pending /\ SendEnd' = SendEnd
    BY <2>2, CounterFrame
  <2>4. k \in 1..logging.n /\ k \in 1..k /\ k \in Nat
    <3>1. logging.n \in Nat \ {0}
      BY <1>ty, <2>1
    <3>2. k \in 1..logging.n
      BY <1>ty, <3>1, UntilEnd
    <3> QED  BY <1>ty, <3>2
  <2>5. /\ worker = "idle" /\ pending = 0 /\ logging.pos + logging.n = total
        /\ logging.n <= nbytes /\ Placed(logging)
    BY <2>1 DEF LogInv
  <2>6. LogEnd = logging.pos /\ LogEnd \in Nat
    BY <1>ty, <2>5 DEF LogEnd, SendEnd
  <2>7. /\ new \in Seq(Sent) /\ Len(new) = k
        /\ \A j \in 1..k : /\ new[j].pos = logging.pos + j - 1
                           /\ new[j].lapped = (total + copied - (logging.pos + j - 1) > nbytes)
    BY <1>ty, <2>1, <2>4, Taken
  <2>8. /\ logging'.n = logging.n - k /\ (logging'.n = 0 => logging' = idle)
        /\ (logging'.n > 0 => logging'.pos = logging.pos + k)
    BY <1>ty, <2>1, <2>4, Advanced
  <2>9. LogEnd' = LogEnd + k
    <3> HIDE DEF k
    <3> QED  BY <1>ty, <2>3, <2>4, <2>8 DEF LogEnd
  <2>10. Placed(logging)'
    <3>1. Placed(advance(logging, k))
      BY <1>ty, <2>4, <2>5, PlacedAdvance
    <3> QED  BY <2>1, <2>3, <3>1 DEF Placed
  <2>11. /\ (logging.n = 0 => logging = idle)'
         /\ (logging.n > 0 => /\ worker = "idle" /\ pending = 0
                              /\ logging.pos + logging.n = total /\ logging.n <= nbytes)'
    <3>1. (logging.n = 0 => logging = idle)'
      BY <2>8 DEF idle
    <3> HIDE DEF k, new
    <3>2. logging'.n > 0 => /\ logging'.pos + logging'.n = total' /\ logging'.n <= nbytes'
      BY <1>ty, <2>2, <2>4, <2>5, <2>8
    <3> QED  BY <2>2, <2>3, <2>5, <3>1, <3>2
  <2>12. ASSUME NoWrap, NEW j \in 1..k PROVE new[j].byte = new[j].pos
    <3>1. new[j].byte = new[j].pos \/ new[j].lapped
      BY <1>ty, <2>1, <2>4, <2>5, <2>12, TakenRight
    <3>2. copied = 0
      BY <1>ty, <2>5 DEF CounterInv
    <3> HIDE DEF k, new
    <3>3. ~(total + copied - (logging.pos + j - 1) > nbytes)
      BY <1>ty, <2>4, <2>5, <3>2
    <3>4. new[j].lapped = (total + copied - (logging.pos + j - 1) > nbytes)
      BY <2>7
    <3> QED  BY <3>1, <3>3, <3>4
  <2> HIDE DEF k, new
  <2>13. /\ \A j \in 1..Len(log \o new) : (log \o new)[j].pos < LogEnd + Len(new)
         /\ \A j \in 1..Len(log \o new) - 1 : (log \o new)[j].pos < (log \o new)[j+1].pos
    <3>1. \A j \in 1..Len(log) : log[j].pos < LogEnd
      BY DEF LogInv
    <3>2. \A j \in 1..Len(log) - 1 : log[j].pos < log[j+1].pos
      BY DEF LogInv
    <3>3. \A j \in 1..Len(new) : new[j].pos = LogEnd + j - 1
      BY <2>6, <2>7
    <3> QED  BY <1>ty, <2>6, <2>7, <3>1, <3>2, <3>3, LogAppends
  <2>14. Len(log') = Len(log) + k
    <3>1. new \in Seq(Sent) /\ Len(new) = k
      BY <2>7
    <3>2. Len(log \o new) = Len(log) + Len(new)
      BY <1>ty, <3>1
    <3> QED  BY <2>1, <3>1, <3>2
  <2>15. /\ (Len(log) + lost = LogEnd)'
         /\ (\A j \in 1..Len(log) : log[j].pos < LogEnd)'
         /\ (\A j \in 1..Len(log) - 1 : log[j].pos < log[j+1].pos)'
    <3>1. (Len(log) + lost = LogEnd)'
      BY <1>ty, <2>2, <2>4, <2>6, <2>9, <2>14 DEF LogInv
    <3> QED  BY <2>1, <2>7, <2>9, <2>13, <3>1
  <2>16. (NoWrap => \A j \in 1..Len(log) : log[j].byte = log[j].pos)'
    <3> SUFFICES ASSUME NoWrap', NEW j \in 1..Len(log') PROVE log'[j].byte = log'[j].pos
      BY Zenon
    <3>1. log'[j] = IF j <= Len(log) THEN log[j] ELSE new[j - Len(log)]
      BY <1>ty, <2>1, <2>7
    <3>2. CASE j <= Len(log)
      <4>1. j \in 1..Len(log)
        BY <1>ty, <2>14, <3>2
      <4> QED  BY <1>wrap, <3>1, <3>2, <4>1 DEF LogInv
    <3>3. CASE ~(j <= Len(log))
      <4>1. j - Len(log) \in 1..k
        BY <1>ty, <2>4, <2>14, <3>3
      <4> QED  BY <1>wrap, <2>12, <3>1, <3>3, <4>1
    <3> QED  BY <3>2, <3>3
  <2> QED  BY <2>10, <2>11, <2>15, <2>16 DEF LogInv
<1>5. CASE log_fails
  <2>1. /\ logging.n > 0 /\ logging' = idle /\ lost' = lost + logging.n /\ log' = log
        /\ UNCHANGED <<nbytes, bytes_written, nbytes_last_send, total, worker>>
    BY <1>5 DEF log_fails, bufferVars
  <2>2. SendEnd' = SendEnd
    BY <2>1, CounterFrame
  <2>3. logging'.n = 0
    BY <2>1 DEF idle
  <2>4. LogEnd' = LogEnd + logging.n /\ LogEnd \in Int /\ LogEnd <= LogEnd'
    BY <1>ty, <2>2, <2>3 DEF LogEnd
  <2>5. Placed(logging)'
    BY <2>3 DEF Placed
  <2>6. (Len(log) + lost = LogEnd)'
    BY <1>ty, <2>1, <2>4 DEF LogInv
  <2>7. (\A j \in 1..Len(log) : log[j].pos < LogEnd)'
    <3> SUFFICES ASSUME NEW j \in 1..Len(log) PROVE log[j].pos < LogEnd'
      BY <2>1
    <3>1. log[j] \in Sent
      BY <1>ty
    <3>2. log[j].pos \in Nat /\ log[j].pos < LogEnd
      BY <3>1 DEF Sent, LogInv
    <3> QED  BY <1>ty, <2>4, <3>2
  <2>8. (\A j \in 1..Len(log) - 1 : log[j].pos < log[j+1].pos)'
    BY <2>1 DEF LogInv
  <2>9. (NoWrap => \A j \in 1..Len(log) : log[j].byte = log[j].pos)'
    BY <1>wrap, <2>1 DEF LogInv
  <2> QED  BY <2>1, <2>3, <2>5, <2>6, <2>7, <2>8, <2>9 DEF LogInv
<1>6. \/ read_item \/ add_data_copy \/ add_data_count \/ not_due
      \/ UNCHANGED <<bufferVars, nbytes_last_send, worker, logging, log, lost>>
      \/ send_due \/ write_log \/ log_fails
  BY DEF Next, Worker, Network, take_send, write_wire, wire_fails, vars
<1> QED  BY <1>1, <1>2, <1>3, <1>4, <1>5, <1>6

-----------------------------------------------------------------------------
(* The socket.                                                             *)

(* Nothing is queued or sent initially. *)
LEMMA WireInit == Init => WireInv /\ SentIntact
<1> SUFFICES ASSUME Init PROVE WireInv /\ SentIntact
  OBVIOUS
<1>1. Len(qn) = 0 /\ Len(wire) = 0 /\ ~(sending.n > 0)
  BY DEF Init, idle
<1> QED  BY <1>1 DEF WireInv, SentIntact, Placed

(* What the proofs below need of the positions. *)
LEMMA WireTyped ==
    ASSUME TypeOK, CounterInv
    PROVE  /\ SendEnd \in Nat /\ sending.n \in Nat /\ sending.pos \in Nat /\ sending \in Cursor
           /\ qn \in Seq(Cursor) /\ Len(qn) \in Nat /\ wire \in Seq(Sent)
           /\ \A i \in 1..Len(qn) : qn[i].n \in Nat /\ qn[i].pos \in Nat
           /\ \A w \in 1..Len(wire) : wire[w].pos \in Nat
<1>1. SendEnd \in Nat /\ SizeRange \in Nat
  BY SendItem, Sized DEF TypeOK
<1>2. sending \in Cursor /\ qn \in Seq(Cursor) /\ wire \in Seq(Sent)
  BY DEF TypeOK
<1>3. \A i \in 1..Len(qn) : qn[i] \in Cursor
  BY <1>2
<1>4. \A w \in 1..Len(wire) : wire[w] \in Sent
  BY <1>2
<1>5. \A cur \in Cursor : cur.n \in Nat /\ cur.pos \in Nat
  BY <1>1 DEF Cursor
<1>6. \A w \in 1..Len(wire) : wire[w].pos \in Nat
  BY <1>4 DEF Sent
<1> QED  BY <1>1, <1>2, <1>3, <1>5, <1>6

(* Every step keeps what is written, being written and queued in order. *)
LEMMA WireNext == ASSUME TypeOK, CounterInv, WireInv, [Next]_vars PROVE WireInv'
<1>ty. /\ SendEnd \in Nat /\ sending.n \in Nat /\ sending.pos \in Nat /\ sending \in Cursor
       /\ qn \in Seq(Cursor) /\ Len(qn) \in Nat /\ wire \in Seq(Sent)
       /\ \A i \in 1..Len(qn) : qn[i].n \in Nat /\ qn[i].pos \in Nat
       /\ \A w \in 1..Len(wire) : wire[w].pos \in Nat
  BY WireTyped
<1>end. SendEnd' \in Nat /\ SendEnd <= SendEnd' /\ (send_due \/ SendEnd' = SendEnd)
  BY HandedOut
<1>q. \A i \in 1..Len(qn) : /\ qn[i].n > 0 /\ qn[i].offset = qn[i].pos % SizeRange
                            /\ qn[i].pos + qn[i].n <= SendEnd
  BY <1>ty DEF WireInv, Placed
<1>s. sending.n > 0 => sending.offset = sending.pos % SizeRange /\ sending.pos + sending.n <= SendEnd
  BY DEF WireInv, Placed
<1>1. CASE UNCHANGED <<sending, qn, wire>>
  <2>1. Placed(sending)'
    BY <1>ty, <1>end, <1>s, <1>1 DEF Placed
  <2>2. (\A i \in 1..Len(qn) : Placed(qn[i]) /\ qn[i].n > 0)'
    <3> SUFFICES ASSUME NEW i \in 1..Len(qn)
                 PROVE  /\ qn[i].n > 0 /\ qn[i].offset = qn[i].pos % SizeRange
                        /\ qn[i].pos + qn[i].n <= SendEnd'
      BY <1>1 DEF Placed
    <3> QED  BY <1>ty, <1>end, <1>q
  <2>3. (\A w \in 1..Len(wire) : wire[w].pos < SendEnd)'
    <3> SUFFICES ASSUME NEW w \in 1..Len(wire) PROVE wire[w].pos < SendEnd'
      BY <1>1
    <3>1. wire[w].pos < SendEnd
      BY DEF WireInv
    <3> QED  BY <1>ty, <1>end, <3>1
  <2> QED  BY <1>1, <2>1, <2>2, <2>3 DEF WireInv
<1>2. CASE send_due /\ qn' = Append(qn, send_item)
  <2>1. UNCHANGED <<sending, wire>>
    BY <1>2 DEF send_due
  <2>2. SendEnd' = total
    BY <1>2, SentPending
  <2>3. /\ send_item \in Cursor /\ send_item.n = pending /\ send_item.pos = SendEnd
        /\ send_item.offset = SendEnd % SizeRange
    BY SendItem
  <2>4. pending > 0 /\ SendEnd + pending = total
    <3>1. pending \in Nat /\ total \in Nat
      BY PendingTyped, Sized DEF TypeOK
    <3> QED  BY <1>2, <3>1 DEF CounterInv, SendEnd, send_due
  <2>5. /\ Len(qn') = Len(qn) + 1 /\ qn'[Len(qn) + 1] = send_item
        /\ \A i \in 1..Len(qn) : qn'[i] = qn[i]
    BY <1>ty, <1>2, <2>3
  <2>6. \A i \in 1..Len(qn') : i \in 1..Len(qn) \/ i = Len(qn) + 1
    BY <1>ty, <2>5
  <2>7. Placed(sending)'
    BY <1>ty, <1>end, <1>s, <2>1 DEF Placed
  <2>8. (\A i \in 1..Len(qn) : Placed(qn[i]) /\ qn[i].n > 0)'
    <3> SUFFICES ASSUME NEW i \in 1..Len(qn')
                 PROVE  /\ qn'[i].n > 0 /\ qn'[i].offset = qn'[i].pos % SizeRange
                        /\ qn'[i].pos + qn'[i].n <= SendEnd'
      BY DEF Placed
    <3>1. CASE i \in 1..Len(qn)
      <4>1. qn'[i] = qn[i]
        BY <2>5, <3>1
      <4> QED  BY <1>ty, <1>end, <1>q, <3>1, <4>1
    <3>2. CASE i = Len(qn) + 1
      BY <1>end, <2>2, <2>3, <2>4, <2>5, <3>2
    <3> QED  BY <2>6, <3>1, <3>2
  <2>9. (\A i \in 1..Len(qn) : \A j \in i + 1..Len(qn) : qn[i].pos + qn[i].n <= qn[j].pos)'
    <3> SUFFICES ASSUME NEW i \in 1..Len(qn'), NEW j \in i + 1..Len(qn')
                 PROVE  qn'[i].pos + qn'[i].n <= qn'[j].pos
      OBVIOUS
    <3>1. i \in 1..Len(qn) /\ j \in 1..Len(qn')
      BY <1>ty, <2>5
    <3>2. qn'[i] = qn[i]
      BY <2>5, <3>1
    <3>3. CASE j \in 1..Len(qn)
      <4>1. qn'[j] = qn[j] /\ j \in i + 1..Len(qn)
        BY <1>ty, <2>5, <3>1, <3>3
      <4> QED  BY <3>1, <3>2, <4>1 DEF WireInv
    <3>4. CASE j = Len(qn) + 1
      <4>1. qn[i].pos + qn[i].n <= SendEnd /\ qn'[j].pos = SendEnd
        BY <1>q, <2>3, <2>5, <3>1, <3>4
      <4> QED  BY <3>2, <4>1
    <3> QED  BY <2>6, <3>1, <3>3, <3>4
  <2>10. (sending.n > 0 => \A i \in 1..Len(qn) : sending.pos + sending.n <= qn[i].pos)'
    <3> SUFFICES ASSUME sending.n > 0, NEW i \in 1..Len(qn')
                 PROVE  sending.pos + sending.n <= qn'[i].pos
      BY <2>1
    <3>1. CASE i \in 1..Len(qn)
      <4>1. qn'[i] = qn[i]
        BY <2>5, <3>1
      <4> QED  BY <3>1, <4>1 DEF WireInv
    <3>2. CASE i = Len(qn) + 1
      <4>1. qn'[i].pos = SendEnd
        BY <2>3, <2>5, <3>2
      <4> QED  BY <1>s, <4>1
    <3> QED  BY <2>6, <3>1, <3>2
  <2>11. (\A w \in 1..Len(wire) :
            /\ wire[w].pos < SendEnd
            /\ sending.n > 0 => wire[w].pos < sending.pos
            /\ \A i \in 1..Len(qn) : wire[w].pos < qn[i].pos)'
    <3> SUFFICES ASSUME NEW w \in 1..Len(wire)
                 PROVE  /\ wire[w].pos < SendEnd'
                        /\ sending.n > 0 => wire[w].pos < sending.pos
                        /\ \A i \in 1..Len(qn') : wire[w].pos < qn'[i].pos
      BY <2>1
    <3>1. /\ wire[w].pos < SendEnd /\ (sending.n > 0 => wire[w].pos < sending.pos)
          /\ \A i \in 1..Len(qn) : wire[w].pos < qn[i].pos
      BY DEF WireInv
    <3>2. wire[w].pos < SendEnd'
      BY <1>ty, <1>end, <3>1
    <3>3. ASSUME NEW i \in 1..Len(qn') PROVE wire[w].pos < qn'[i].pos
      <4>1. CASE i \in 1..Len(qn)
        <5>1. qn'[i] = qn[i]
          BY <2>5, <4>1
        <5> QED  BY <3>1, <4>1, <5>1
      <4>2. CASE i = Len(qn) + 1
        <5>1. qn'[i].pos = SendEnd
          BY <2>3, <2>5, <4>2
        <5> QED  BY <3>1, <5>1
      <4> QED  BY <2>6, <4>1, <4>2
    <3> QED  BY <3>1, <3>2, <3>3
  <2> QED  BY <2>7, <2>8, <2>9, <2>10, <2>11 DEF WireInv
<1>3. CASE take_send
  <2>1. qn # <<>> /\ sending' = Head(qn) /\ qn' = Tail(qn) /\ wire' = wire
    BY <1>3 DEF take_send
  <2>2. SendEnd' = SendEnd
    BY <1>3, CounterFrame DEF take_send, bufferVars
  <2>3. /\ Len(qn) >= 1 /\ 1 \in 1..Len(qn) /\ sending' = qn[1] /\ Len(qn') = Len(qn) - 1
        /\ \A i \in 1..Len(qn') : i + 1 \in 1..Len(qn) /\ qn'[i] = qn[i + 1]
    BY <1>ty, <2>1
  <2>4. Placed(sending)'
    BY <1>q, <2>2, <2>3 DEF Placed
  <2>5. (\A i \in 1..Len(qn) : Placed(qn[i]) /\ qn[i].n > 0)'
    <3> SUFFICES ASSUME NEW i \in 1..Len(qn')
                 PROVE  /\ qn'[i].n > 0 /\ qn'[i].offset = qn'[i].pos % SizeRange
                        /\ qn'[i].pos + qn'[i].n <= SendEnd'
      BY DEF Placed
    <3> QED  BY <1>q, <2>2, <2>3
  <2>6. (\A i \in 1..Len(qn) : \A j \in i + 1..Len(qn) : qn[i].pos + qn[i].n <= qn[j].pos)'
    <3> SUFFICES ASSUME NEW i \in 1..Len(qn'), NEW j \in i + 1..Len(qn')
                 PROVE  qn'[i].pos + qn'[i].n <= qn'[j].pos
      OBVIOUS
    <3> DEFINE a == i + 1
               b == j + 1
    <3>1. j \in 1..Len(qn') /\ a \in 1..Len(qn) /\ b \in a + 1..Len(qn)
      BY <1>ty, <2>3
    <3>2. qn'[i] = qn[a] /\ qn'[j] = qn[b]
      BY <2>3, <3>1
    <3> HIDE DEF a, b
    <3> QED  BY <3>1, <3>2 DEF WireInv
  <2>7. (sending.n > 0 => \A i \in 1..Len(qn) : sending.pos + sending.n <= qn[i].pos)'
    <3> SUFFICES ASSUME NEW i \in 1..Len(qn') PROVE qn[1].pos + qn[1].n <= qn'[i].pos
      BY <2>3
    <3> DEFINE a == i + 1
    <3>1. a \in 1 + 1..Len(qn) /\ qn'[i] = qn[a]
      BY <1>ty, <2>3
    <3> HIDE DEF a
    <3> QED  BY <2>3, <3>1 DEF WireInv
  <2>8. (\A w \in 1..Len(wire) :
            /\ wire[w].pos < SendEnd
            /\ sending.n > 0 => wire[w].pos < sending.pos
            /\ \A i \in 1..Len(qn) : wire[w].pos < qn[i].pos)'
    <3> SUFFICES ASSUME NEW w \in 1..Len(wire)
                 PROVE  /\ wire[w].pos < SendEnd /\ wire[w].pos < qn[1].pos
                        /\ \A i \in 1..Len(qn') : wire[w].pos < qn'[i].pos
      BY <2>1, <2>2, <2>3
    <3>1. wire[w].pos < SendEnd /\ \A i \in 1..Len(qn) : wire[w].pos < qn[i].pos
      BY DEF WireInv
    <3> QED  BY <2>3, <3>1
  <2> QED  BY <2>4, <2>5, <2>6, <2>7, <2>8 DEF WireInv
<1>4. CASE write_wire
  <2>1. PICK k \in 1..until_end(sending.offset, sending.n) :
            wire' = taken(sending, k) /\ sending' = advance(sending, k)
    BY <1>4 DEF write_wire
  <2>2. sending.n > 0 /\ qn' = qn /\ UNCHANGED <<bytes_written, nbytes_last_send, total>>
    BY <1>4 DEF write_wire, bufferVars
  <2>3. SendEnd' = SendEnd
    BY <2>2, CounterFrame
  <2>4. /\ Len(wire') = k /\ k \in 1..sending.n
        /\ \A w \in 1..k : wire'[w].pos = sending.pos + w - 1
    BY <1>ty, <2>1, <2>2, Taken
  <2>5. /\ sending'.n = sending.n - k /\ (sending'.n > 0 => sending'.pos = sending.pos + k)
    BY <1>ty, <2>1, <2>4, Advanced
  <2>6. Placed(sending)'
    <3>1. Placed(sending)
      BY DEF WireInv
    <3>2. Placed(advance(sending, k))
      BY <1>ty, <2>4, <3>1, PlacedAdvance
    <3> QED  BY <2>1, <2>3, <3>2 DEF Placed
  <2>7. (\A i \in 1..Len(qn) : Placed(qn[i]) /\ qn[i].n > 0)'
    <3> SUFFICES ASSUME NEW i \in 1..Len(qn)
                 PROVE  /\ qn[i].n > 0 /\ qn[i].offset = qn[i].pos % SizeRange
                        /\ qn[i].pos + qn[i].n <= SendEnd
      BY <2>2, <2>3 DEF Placed
    <3> QED  BY <1>q
  <2>8. ASSUME NEW i \in 1..Len(qn)
        PROVE  sending.pos + sending.n <= qn[i].pos /\ qn[i].pos \in Nat
    BY <1>ty, <2>2 DEF WireInv
  <2>9. (sending.n > 0 => \A i \in 1..Len(qn) : sending.pos + sending.n <= qn[i].pos)'
    <3> SUFFICES ASSUME sending'.n > 0, NEW i \in 1..Len(qn)
                 PROVE  sending'.pos + sending'.n <= qn[i].pos
      BY <2>2
    <3>1. sending'.pos + sending'.n = sending.pos + sending.n
      BY <1>ty, <2>4, <2>5
    <3> QED  BY <2>8, <3>1
  <2>10. (\A w \in 1..Len(wire) :
            /\ wire[w].pos < SendEnd
            /\ sending.n > 0 => wire[w].pos < sending.pos
            /\ \A i \in 1..Len(qn) : wire[w].pos < qn[i].pos)'
    <3> SUFFICES ASSUME NEW w \in 1..k
                 PROVE  /\ wire'[w].pos < SendEnd
                        /\ sending'.n > 0 => wire'[w].pos < sending'.pos
                        /\ \A i \in 1..Len(qn) : wire'[w].pos < qn[i].pos
      BY <2>2, <2>3, <2>4
    <3>1. /\ wire'[w].pos = sending.pos + w - 1 /\ w \in Nat /\ w >= 1 /\ w <= k /\ k \in Nat
          /\ k <= sending.n
      BY <1>ty, <2>4
    <3>2. wire'[w].pos < sending.pos + k /\ wire'[w].pos < sending.pos + sending.n
          /\ wire'[w].pos \in Nat
      BY <1>ty, <3>1
    <3>3. wire'[w].pos < SendEnd
      BY <1>ty, <1>s, <2>2, <3>2
    <3>4. sending'.n > 0 => wire'[w].pos < sending'.pos
      BY <2>5, <3>2
    <3>5. \A i \in 1..Len(qn) : wire'[w].pos < qn[i].pos
      BY <1>ty, <2>8, <3>2
    <3> QED  BY <3>3, <3>4, <3>5
  <2> QED  BY <2>2, <2>6, <2>7, <2>9, <2>10 DEF WireInv
<1>5. CASE wire_fails
  <2>1. UNCHANGED <<qn, wire, bytes_written, nbytes_last_send, total>> /\ ~(sending'.n > 0)
    BY <1>5 DEF wire_fails, bufferVars, idle
  <2>2. SendEnd' = SendEnd
    BY <2>1, CounterFrame
  <2> QED  BY <2>1, <2>2 DEF WireInv, Placed
<1>6. \/ UNCHANGED <<sending, qn, wire>> \/ (send_due /\ qn' = Append(qn, send_item))
      \/ take_send \/ write_wire \/ wire_fails
  BY DEF Next, Worker, Network, read_item, add_data_copy, add_data_count, not_due, send_due,
         write_log, log_fails, vars
<1> QED  BY <1>1, <1>2, <1>3, <1>4, <1>5, <1>6

(* Every step that writes to the socket takes the bytes of the stream. *)
LEMMA SentNext ==
    ASSUME TypeOK, CounterInv, WindowIntact, WireInv, SentIntact, [Next]_vars
    PROVE  SentIntact'
<1>wrap. NoWrap' => NoWrap
  BY WrapStays
<1>1. CASE UNCHANGED wire
  BY <1>wrap, <1>1 DEF SentIntact
<1>2. CASE write_wire
  <2>1. PICK k \in 1..until_end(sending.offset, sending.n) : wire' = taken(sending, k)
    BY <1>2 DEF write_wire
  <2>2. sending.n > 0 /\ sending \in Cursor /\ Placed(sending)
    BY <1>2 DEF write_wire, TypeOK, WireInv
  <2>3. Len(wire') = k
    BY <2>1, <2>2, Taken
  <2>4. ASSUME NoWrap, NEW j \in 1..k
        PROVE  wire'[j].byte = wire'[j].pos \/ wire'[j].lapped
    BY <2>1, <2>2, <2>4, TakenRight
  <2> QED  BY <1>wrap, <2>3, <2>4 DEF SentIntact
<1>3. write_wire \/ UNCHANGED wire
  BY DEF Next, Worker, Network, read_item, add_data_copy, add_data_count, not_due, send_due,
         write_log, log_fails, take_send, wire_fails, vars
<1> QED  BY <1>1, <1>2, <1>3

-----------------------------------------------------------------------------
(* The theorems.                                                           *)

(* The whole invariant is inductive. *)
LEMMA StreamSafe == Spec => []StreamInv
<1>1. Init => StreamInv
  BY TypedInit, CounterInit, WindowInit, LogInit, WireInit DEF StreamInv
<1>2. StreamInv /\ [Next]_vars => StreamInv'
  BY TypedNext, CounterNext, WindowNext, LogNext, WireNext, SentNext DEF StreamInv
<1> QED  BY <1>1, <1>2, PTL DEF Spec

(* Every variable of the buffer, the log file and the socket keeps its     *)
(* type, the counters that circular_buffer.cpp lets wrap around included.  *)
THEOREM TypeCorrect == Spec => []TypeOK
<1>1. StreamInv => TypeOK
  BY DEF StreamInv
<1> QED  BY <1>1, StreamSafe, PTL

(* circular_buffer::add_data keeps the last nbytes bytes of the stream,    *)
(* each where write_data looks for it, for every size of the buffer.       *)
THEOREM WindowSafe == Spec => []WindowIntact
<1>1. StreamInv => WindowIntact
  BY DEF StreamInv
<1> QED  BY <1>1, StreamSafe, PTL

(* The log file written by write_from_nqi has every byte of the stream in  *)
(* order, right and accounted for.                                         *)
THEOREM LogSafe == Spec => []LogExact
<1>1. StreamInv => LogExact
  <2> SUFFICES ASSUME StreamInv PROVE LogExact
    OBVIOUS
  <2>1. LogInv /\ TypeOK /\ CounterInv
    BY DEF StreamInv
  <2>2. logging = idle => Len(log) + lost = total - pending
    <3> SUFFICES ASSUME logging = idle PROVE Len(log) + lost = total - pending
      OBVIOUS
    <3>1. logging.n = 0 /\ Len(log) + lost = LogEnd /\ SendEnd \in Nat
      BY <2>1, SendItem DEF LogInv, idle
    <3>2. LogEnd = SendEnd
      BY <3>1 DEF LogEnd
    <3> QED  BY <3>1, <3>2 DEF SendEnd
  <2> QED  BY <2>1, <2>2 DEF LogExact, LogInv
<1> QED  BY <1>1, StreamSafe, PTL

(* The network thread, which reads the buffer without a lock, sends the    *)
(* bytes of the stream unless the worker has lapped it.                    *)
THEOREM SentSafe == Spec => []SentIntact
<1>1. StreamInv => SentIntact
  BY DEF StreamInv
<1> QED  BY <1>1, StreamSafe, PTL

(* What one write(2) of process_nqi puts on the socket comes after all of  *)
(* the write before it: nothing is repeated or sent out of order.          *)
THEOREM WireOrdered == Spec => WireInOrder
<1> DEFINE A == wire # <<>> /\ wire' # wire =>
                   \A i \in 1..Len(wire), j \in 1..Len(wire') : wire[i].pos < wire'[j].pos
<1>1. ASSUME StreamInv, [Next]_vars PROVE [A]_vars
  <2>0. TypeOK /\ CounterInv /\ WireInv
    BY <1>1 DEF StreamInv
  <2>1. CASE wire' = wire
    BY <2>1
  <2>2. CASE write_wire
    <3>1. PICK k \in 1..until_end(sending.offset, sending.n) : wire' = taken(sending, k)
      BY <2>2 DEF write_wire
    <3>2. /\ sending.n > 0 /\ sending \in Cursor /\ sending.pos \in Nat
          /\ \A w \in 1..Len(wire) : wire[w].pos \in Nat
      BY <2>0, <2>2, WireTyped DEF write_wire
    <3>3. Len(wire') = k /\ \A j \in 1..k : wire'[j].pos = sending.pos + j - 1
      BY <2>0, <3>1, <3>2, Taken
    <3>4. ASSUME NEW i \in 1..Len(wire), NEW j \in 1..Len(wire')
          PROVE  wire[i].pos < wire'[j].pos
      <4>1. wire[i].pos < sending.pos /\ wire[i].pos \in Nat
        BY <2>0, <3>2 DEF WireInv
      <4>2. j \in 1..k /\ wire'[j].pos = sending.pos + j - 1
        BY <3>3
      <4>3. j \in Nat /\ j >= 1
        BY <4>2
      <4> QED  BY <3>2, <4>1, <4>2, <4>3
    <3> QED  BY <3>4
  <2>3. write_wire \/ wire' = wire
    BY <1>1 DEF Next, Worker, Network, read_item, add_data_copy, add_data_count, not_due,
                send_due, write_log, log_fails, take_send, wire_fails, vars
  <2> QED  BY <2>1, <2>2, <2>3
<1>2. StreamInv /\ [Next]_vars => [A]_vars
  BY <1>1
<1> QED  BY <1>2, StreamSafe, PTL DEF Spec, WireInOrder

=============================================================================
