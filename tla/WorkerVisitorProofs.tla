------------------------ MODULE WorkerVisitorProofs ------------------------
(***************************************************************************)
(* What the proofs about both engines share: lemmas about the pins, the    *)
(* timers and the work queue, and what the steps of the base class, of the *)
(* clock and of the network thread preserve.                               *)
(***************************************************************************)
EXTENDS WorkerVisitor, FiniteSetTheorems, TLAPS

USE DEF SequenceItem

(* Every item the code enqueues is a work queue item. *)
LEMMA EnqueuedTyped ==
    /\ \A c \in Command : Process(c) \in WorkItem
    /\ \A i \in Item : Timed(i) \in WorkItem
    /\ Ign1 \in WorkItem /\ None \in WorkItem
BY DEF WorkItem

(* Dequeuing from and enqueuing on a work queue give a work queue. *)
LEMMA QueueTyped ==
    ASSUME NEW q \in Seq(WorkItem), NEW x \in WorkItem
    PROVE  /\ q # <<>> => Tail(q) \in Seq(WorkItem)
           /\ q # <<>> => Append(Tail(q), x) \in Seq(WorkItem)
           /\ Append(q, x) \in Seq(WorkItem)
OBVIOUS

(* bcm2835_gpio_write keeps levels and writers well typed, changes only    *)
(* the pins it names, and records who wrote them.                          *)
LEMMA GpioWrite ==
    ASSUME NEW who \in Driver, NEW high, NEW low,
           pins \in [Pin -> Level], driver \in [Pin -> Driver],
           gpio_write(who, high, low)
    PROVE  /\ pins' \in [Pin -> Level] /\ driver' \in [Pin -> Driver]
           /\ \A p \in Pin : p \in high => pins'[p] = "HIGH" /\ driver'[p] = who
           /\ \A p \in Pin : p \in low \ high => pins'[p] = "LOW" /\ driver'[p] = who
           /\ \A p \in Pin : p \notin high \cup low =>
                                pins'[p] = pins[p] /\ driver'[p] = driver[p]
BY DEF gpio_write, Level

(* Enabling and disabling timed items keeps the timers well typed. *)
LEMMA SetTimers ==
    ASSUME NEW visited, NEW on \in SUBSET Item, NEW off,
           enabled \subseteq Item, age \in [Item -> 0..AgeCap],
           set_timers(visited, on, off)
    PROVE  /\ enabled' \subseteq Item /\ enabled' = (enabled \ off) \cup on
           /\ age' \in [Item -> 0..AgeCap]
           /\ \A i \in Item : i \in visited \cup on => age'[i] = 0
           /\ \A i \in Item : i \notin visited \cup on => age'[i] = age[i]
BY CapAssumption DEF set_timers

-----------------------------------------------------------------------------
(* Types.                                                                  *)

(* The initial state of the worker thread is well typed. *)
LEMMA WorkerInitTyped == WorkerInit => WorkerTypeOK
<1> SUFFICES ASSUME WorkerInit PROVE WorkerTypeOK
  OBVIOUS
<1>1. age \in [Item -> 0..AgeCap] /\ burn_age \in 0..AgeCap /\ lit_age \in 0..preignite_us + 1
  BY CapAssumption, DelayAssumption DEF WorkerInit
<1>2. time_delay \in [Item -> 0..AgeCap]
  <2>1. \A i \in Sensors : sensor_delay[i] \in 0..AgeCap
    BY DelayAssumption, CapAssumption
  <2>2. \A i \in SequenceItem : sequence_delay[i] \in 0..AgeCap
    BY DelayAssumption, CapAssumption DEF sequence_delay
  <2> QED  BY <2>1, <2>2 DEF WorkerInit, Item
<1>3. pins \in [Pin -> Level] /\ driver \in [Pin -> Driver]
  BY DEF WorkerInit, initialize_pins, Level, Driver
<1>4. send_age \in [Sensors -> 0..SEND_TIME + 1] /\ sent \in [Command -> Nat]
  BY DelayAssumption DEF WorkerInit
<1>5. qw \in Seq(WorkItem) /\ scan \subseteq Item /\ enabled \subseteq Item /\ qn \subseteq Sensors
  BY DEF WorkerInit, Item
<1>6. burn_on \in BOOLEAN /\ connected \in BOOLEAN /\ socket \in BOOLEAN
  BY DEF WorkerInit
<1> QED
  BY <1>1, <1>2, <1>3, <1>4, <1>5, <1>6 DEF WorkerTypeOK

(* The steps that do not depend on the engine. *)
SharedStep ==
    \/ \E c \in Command : \E writes : worker_visitProc(c, writes)
    \/ \E s \in Sensors : worker_visitTimed(s)
    \/ visitIgn \/ visitNone \/ check_ti_list
    \/ Tick \/ Network \/ UNCHANGED workerVars

(* They keep the state well typed. *)
LEMMA SharedTyped == WorkerTypeOK /\ SharedStep => WorkerTypeOK'
<1> SUFFICES ASSUME WorkerTypeOK, SharedStep PROVE WorkerTypeOK'
  OBVIOUS
<1> USE DEF WorkerTypeOK
<1>1. ASSUME NEW c \in Command, NEW writes, worker_visitProc(c, writes) PROVE WorkerTypeOK'
  <2>1. UNCHANGED <<scan, timers, burn, telemetry, link>> /\ qw # <<>>
    BY <1>1 DEF worker_visitProc, polls
  <2>2. qw' \in Seq(WorkItem)
    <3>1. \/ qw' = Tail(qw) \/ qw' = Append(Tail(qw), Ign1) \/ qw' = Append(Tail(qw), None)
      BY <1>1 DEF worker_visitProc
    <3> QED  BY <2>1, <3>1, EnqueuedTyped, QueueTyped
  <2>3. pins' \in [Pin -> Level] /\ driver' \in [Pin -> Driver]
    <3>1. UNCHANGED gpio \/ \E high, low : gpio_write("operator", high, low)
      BY <1>1 DEF worker_visitProc
    <3> QED  BY <3>1, GpioWrite DEF gpio, Driver
  <2> QED  BY <2>1, <2>2, <2>3 DEF timers, burn, telemetry, link
<1>2. ASSUME NEW s \in Sensors, worker_visitTimed(s) PROVE WorkerTypeOK'
  <2>1. UNCHANGED <<scan, time_delay, burn_age, lit_age, link>> /\ qw # <<>> /\ qw' = Tail(qw)
    BY <1>2 DEF worker_visitTimed, polls
  <2>2. enabled' \subseteq Item /\ age' \in [Item -> 0..AgeCap]
    BY <1>2, SetTimers DEF worker_visitTimed
  <2>3. pins' \in [Pin -> Level] /\ driver' \in [Pin -> Driver] /\ burn_on' \in BOOLEAN
    BY <1>2, GpioWrite DEF worker_visitTimed, trip_shutoff, gpio, Driver
  <2>4. send_age' \in [Sensors -> 0..SEND_TIME + 1] /\ qn' \subseteq Sensors
    <3>1. \/ send_age' = [send_age EXCEPT ![s] = 0] /\ (qn' = qn \cup {s} \/ qn' = qn)
          \/ send_age' = send_age /\ qn' = qn
      BY <1>2 DEF worker_visitTimed, send_reading, telemetry
    <3>2. 0 \in 0..SEND_TIME + 1
      BY DelayAssumption
    <3> QED  BY <3>1, <3>2
  <2>5. qw' \in Seq(WorkItem)
    BY <2>1, EnqueuedTyped, QueueTyped
  <2> QED  BY <2>1, <2>2, <2>3, <2>4, <2>5 DEF link
<1>3. ASSUME visitIgn PROVE WorkerTypeOK'
  <2>1. UNCHANGED <<scan, burn_on, burn_age, telemetry, link>> /\ qw # <<>> /\ qw' = Tail(qw)
        /\ lit_age' \in 0..preignite_us + 1
    BY <1>3, DelayAssumption DEF visitIgn, polls
  <2>2. enabled' \subseteq Item /\ age' \in [Item -> 0..AgeCap]
    BY <1>3, SetTimers DEF visitIgn, Item
  <2>3. pins' \in [Pin -> Level] /\ driver' \in [Pin -> Driver]
    BY <1>3, GpioWrite DEF visitIgn, Driver
  <2>4. time_delay' \in [Item -> 0..AgeCap]
    <3>1. preignite_us \in 0..AgeCap /\ hotflow_us \in 0..AgeCap
      BY DelayAssumption, CapAssumption
    <3> QED  BY <1>3, <3>1 DEF visitIgn, ign_delays
  <2>5. qw' \in Seq(WorkItem)
    BY <2>1, EnqueuedTyped, QueueTyped
  <2> QED  BY <2>1, <2>2, <2>3, <2>4, <2>5 DEF telemetry, link
<1>4. ASSUME visitNone PROVE WorkerTypeOK'
  <2>1. UNCHANGED <<timers, gpio, burn, telemetry, link>> /\ scan' \subseteq Item
    BY <1>4 DEF visitNone
  <2>2. qw' \in Seq(WorkItem)
    BY <1>4, EnqueuedTyped, QueueTyped DEF visitNone
  <2> QED  BY <2>1, <2>2 DEF timers, gpio, burn, telemetry, link
<1>5. ASSUME check_ti_list PROVE WorkerTypeOK'
  <2>1. UNCHANGED <<timers, gpio, burn, telemetry, link>> /\ scan' \subseteq Item
    BY <1>5 DEF check_ti_list
  <2>2. qw' \in Seq(WorkItem)
    BY <1>5, EnqueuedTyped, QueueTyped DEF check_ti_list
  <2> QED  BY <2>1, <2>2 DEF timers, gpio, burn, telemetry, link
<1>6. ASSUME Tick PROVE WorkerTypeOK'
  <2>1. age' \in [Item -> 0..AgeCap] /\ burn_age' \in 0..AgeCap /\ lit_age' \in 0..preignite_us + 1
    BY <1>6, CapAssumption, DelayAssumption DEF Tick
  <2>2. send_age' \in [Sensors -> 0..SEND_TIME + 1]
    BY <1>6, DelayAssumption DEF Tick
  <2> QED  BY <1>6, <2>1, <2>2 DEF Tick, gpio, link
<1>7. ASSUME NEW c \in Command, Receive(c) PROVE WorkerTypeOK'
  <2>1. qw' \in Seq(WorkItem) /\ sent' \in [Command -> Nat]
    BY <1>7, EnqueuedTyped, QueueTyped DEF Receive
  <2> QED  BY <1>7, <2>1 DEF Receive, timers, gpio, burn, telemetry
<1>8. ASSUME TakeSend \/ open_connection \/ fail_connection PROVE WorkerTypeOK'
  BY <1>8 DEF TakeSend, open_connection, fail_connection, timers, gpio, burn, telemetry, link
<1>9. ASSUME UNCHANGED workerVars PROVE WorkerTypeOK'
  BY <1>9 DEF workerVars, timers, gpio, burn, telemetry, link
<1> QED
  BY <1>1, <1>2, <1>3, <1>4, <1>5, <1>6, <1>7, <1>8, <1>9 DEF SharedStep, Network

-----------------------------------------------------------------------------
(* The deadline of a burn.                                                 *)

HotflowDelay == time_delay["ign3"] = hotflow_us
BurnArmed == burn_on => "ign3" \in enabled /\ age["ign3"] = burn_age

(* No burn is on at the start, and ign3 has the configured delay. *)
LEMMA WorkerInitDeadline == WorkerInit => HotflowDelay /\ BurnArmed
<1>1. "ign3" \in Item /\ "ign3" \notin Sensors
  BY SensorsAssumption DEF Item, SensorName
<1> QED  BY <1>1 DEF WorkerInit, HotflowDelay, BurnArmed, sequence_delay

(* The steps of the base class keep the deadline of a burn that is on: the *)
(* shutoff ends the burn, an ignition rewrites ign3's delay with the same  *)
(* value, and the clocks of ign3 and of the burn advance together.         *)
LEMMA SharedDeadline ==
    ASSUME WorkerTypeOK, HotflowDelay, BurnArmed, SharedStep
    PROVE  HotflowDelay' /\ BurnArmed'
<1>ty. /\ enabled \subseteq Item /\ age \in [Item -> 0..AgeCap]
       /\ time_delay \in [Item -> 0..AgeCap] /\ burn_on \in BOOLEAN
       /\ {"ign2", "ign3", "gitvc"} \subseteq Item /\ "ign3" \notin Sensors
  BY SensorsAssumption DEF WorkerTypeOK, Item, SensorName
<1>1. ASSUME UNCHANGED <<timers, burn>> PROVE HotflowDelay' /\ BurnArmed'
  BY <1>1 DEF timers, burn, HotflowDelay, BurnArmed
<1>2. ASSUME NEW s \in Sensors, worker_visitTimed(s) PROVE HotflowDelay' /\ BurnArmed'
  <2>1. UNCHANGED <<time_delay, burn_age>> /\ set_timers({s}, {}, {})
    BY <1>2 DEF worker_visitTimed
  <2>2. age'["ign3"] = age["ign3"] /\ enabled' = enabled
    BY <1>ty, <2>1 DEF set_timers
  <2>3. burn_on' = FALSE \/ burn_on' = burn_on
    BY <1>2 DEF worker_visitTimed, trip_shutoff
  <2> QED  BY <2>1, <2>2, <2>3 DEF HotflowDelay, BurnArmed
<1>3. ASSUME visitIgn PROVE HotflowDelay' /\ BurnArmed'
  <2>1. UNCHANGED <<burn_on, burn_age>> /\ set_timers({}, {"ign2"}, {}) /\ time_delay' = ign_delays
    BY <1>3 DEF visitIgn
  <2>2. age'["ign3"] = age["ign3"] /\ ("ign3" \in enabled => "ign3" \in enabled')
    BY <1>ty, <2>1 DEF set_timers
  <2>3. HotflowDelay'
    BY <2>1, <1>ty DEF ign_delays, HotflowDelay
  <2> QED  BY <2>1, <2>2, <2>3 DEF BurnArmed
<1>4. ASSUME Tick PROVE HotflowDelay' /\ BurnArmed'
  <2>1. UNCHANGED <<time_delay, enabled, burn_on>>
    BY <1>4 DEF Tick
  <2>2. burn_on => age'["ign3"] = burn_age'
    BY <1>4, <1>ty DEF Tick, BurnArmed
  <2> QED  BY <2>1, <2>2 DEF HotflowDelay, BurnArmed
<1>5. ASSUME \/ \E c \in Command : \E writes : worker_visitProc(c, writes)
             \/ visitNone \/ check_ti_list \/ Network \/ UNCHANGED workerVars
      PROVE  UNCHANGED <<timers, burn>>
  BY <1>5 DEF worker_visitProc, visitNone, check_ti_list, Network, Receive, TakeSend,
              open_connection, fail_connection, workerVars
<1> QED
  BY <1>1, <1>2, <1>3, <1>4, <1>5 DEF SharedStep

-----------------------------------------------------------------------------
(* The igniter.                                                            *)

(* The steps of the base class keep a timer armed for an igniter that the  *)
(* sequence lit: only visitIgn lights it, and none of them disarms ign2 or *)
(* ign3.                                                                   *)
LEMMA SharedIgniter ==
    ASSUME WorkerTypeOK, IgniterAccounted, SharedStep
    PROVE  IgniterAccounted'
<1>ty. pins \in [Pin -> Level] /\ driver \in [Pin -> Driver] /\ "IGN_START" \in Pin
  BY DEF WorkerTypeOK, Pin
<1>1. ASSUME UNCHANGED <<enabled, gpio>> PROVE IgniterAccounted'
  BY <1>1 DEF gpio, IgniterAccounted
<1>2. ASSUME NEW c \in Command, NEW writes, worker_visitProc(c, writes) PROVE IgniterAccounted'
  <2>1. enabled' = enabled
    BY <1>2 DEF worker_visitProc, timers
  <2>2. UNCHANGED gpio \/ \E high, low : gpio_write("operator", high, low)
    BY <1>2 DEF worker_visitProc
  <2>3. ASSUME NEW high, NEW low, gpio_write("operator", high, low) PROVE IgniterAccounted'
    BY <1>ty, <2>1, <2>3, GpioWrite DEF IgniterAccounted, Driver
  <2> QED  BY <1>1, <2>1, <2>2, <2>3
<1>3. ASSUME NEW s \in Sensors, worker_visitTimed(s) PROVE IgniterAccounted'
  <2>1. enabled' = enabled
    BY <1>3 DEF worker_visitTimed, set_timers
  <2>2. CASE trip_shutoff
    BY <1>ty, <2>2, GpioWrite DEF trip_shutoff, IgniterAccounted, Driver
  <2>3. CASE UNCHANGED gpio
    BY <1>1, <2>1, <2>3
  <2> QED  BY <1>3, <2>2, <2>3 DEF worker_visitTimed
<1>4. ASSUME visitIgn PROVE IgniterAccounted'
  BY <1>4 DEF visitIgn, set_timers, IgniterAccounted
<1>5. ASSUME visitNone \/ check_ti_list \/ Tick \/ Network \/ UNCHANGED workerVars
      PROVE  UNCHANGED <<enabled, gpio>>
  BY <1>5 DEF visitNone, check_ti_list, Tick, Network, Receive, TakeSend,
              open_connection, fail_connection, workerVars, timers
<1> QED
  BY <1>1, <1>2, <1>3, <1>4, <1>5 DEF SharedStep

-----------------------------------------------------------------------------
(* Counting items in a queue.                                              *)

Positions(q, x) == {k \in 1..Len(q) : q[k] = x}
Count(q, x) == Cardinality(Positions(q, x))

(* A queue holds a finite number of copies of an item. *)
LEMMA CountNat ==
    ASSUME NEW S, NEW q \in Seq(S), NEW x
    PROVE  IsFiniteSet(Positions(q, x)) /\ Count(q, x) \in Nat
<1>1. IsFiniteSet(1..Len(q))
  BY FS_Interval
<1>2. Positions(q, x) \in SUBSET (1..Len(q))
  BY DEF Positions
<1>3. IsFiniteSet(Positions(q, x))
  BY <1>1, <1>2, FS_Subset
<1> QED  BY <1>3, FS_CardinalityType DEF Count

(* None, exactly when no place of the queue holds it. *)
LEMMA CountZero ==
    ASSUME NEW S, NEW q \in Seq(S), NEW x
    PROVE  Count(q, x) = 0 <=> \A k \in 1..Len(q) : q[k] # x
<1>1. Count(q, x) = 0 <=> Positions(q, x) = {}
  BY CountNat, FS_EmptySet DEF Count
<1> QED  BY <1>1 DEF Positions

(* Enqueuing adds one copy of the item enqueued. *)
LEMMA CountAppend ==
    ASSUME NEW S, NEW q \in Seq(S), NEW y \in S, NEW x
    PROVE  Count(Append(q, y), x) = Count(q, x) + (IF y = x THEN 1 ELSE 0)
<1> DEFINE n == Len(q) + 1
<1>1. n \in Nat /\ n \notin 1..Len(q) /\ 1..n = (1..Len(q)) \cup {n} /\ Len(Append(q, y)) = n
  OBVIOUS
<1>2. Append(q, y)[n] = y /\ \A k \in 1..Len(q) : Append(q, y)[k] = q[k]
  OBVIOUS
<1>3. n \notin Positions(q, x)
  BY <1>1 DEF Positions
<1> HIDE DEF n
<1>4. CASE y = x
  <2>1. Positions(Append(q, y), x) = Positions(q, x) \cup {n}
    BY <1>1, <1>2, <1>4 DEF Positions
  <2>2. Cardinality(Positions(q, x) \cup {n}) = Cardinality(Positions(q, x)) + 1
    BY <1>3, CountNat, FS_AddElement
  <2> QED  BY <1>4, <2>1, <2>2 DEF Count
<1>5. CASE y # x
  <2>1. Positions(Append(q, y), x) = Positions(q, x)
    BY <1>1, <1>2, <1>5 DEF Positions
  <2> QED  BY <1>5, <2>1, CountNat DEF Count
<1> QED  BY <1>4, <1>5

(* Dequeuing removes one copy of the item dequeued. *)
LEMMA CountTail ==
    ASSUME NEW S, NEW q \in Seq(S), q # <<>>, NEW x
    PROVE  Count(q, x) = Count(Tail(q), x) + (IF Head(q) = x THEN 1 ELSE 0)
<1> DEFINE T == Positions(Tail(q), x)
           U == Positions(q, x) \ {1}
           f == [k \in T |-> k + 1]
<1>1. /\ Len(q) \in Nat \ {0} /\ Len(Tail(q)) = Len(q) - 1 /\ Head(q) = q[1]
      /\ Tail(q) \in Seq(S) /\ \A k \in 1..Len(q) - 1 : Tail(q)[k] = q[k + 1]
  OBVIOUS
<1>2. \A k \in T : k \in Nat /\ k + 1 \in U
  BY <1>1 DEF Positions
<1>3. \A k \in U : k - 1 \in T /\ (k - 1) + 1 = k
  BY <1>1 DEF Positions
<1> HIDE DEF T, U
<1>4. f \in [T -> U] /\ (\A a, b \in T : f[a] = f[b] => a = b) /\ (\A u \in U : \E t \in T : f[t] = u)
  <2>1. \A a, b \in T : f[a] = f[b] => a = b
    BY <1>2
  <2>2. f \in [T -> U]
    BY <1>2
  <2>3. ASSUME NEW u \in U PROVE \E t \in T : f[t] = u
    BY <1>3
  <2> QED  BY <2>1, <2>2, <2>3
<1>5. ExistsBijection(T, U)
  <2> HIDE DEF f
  <2>1. f \in Bijection(T, U)
    BY <1>4 DEF Bijection, Injection, Surjection, IsInjective
  <2> QED  BY <2>1 DEF ExistsBijection
<1>6. Cardinality(U) = Count(Tail(q), x) /\ Count(Tail(q), x) \in Nat
  <2>1. IsFiniteSet(T)
    BY <1>1, CountNat DEF T
  <2>2. Cardinality(U) = Cardinality(T)
    BY <1>5, <2>1, FS_Bijection
  <2> QED  BY <1>1, <2>2, CountNat DEF T, Count
<1>7. Cardinality(U) = IF 1 \in Positions(q, x) THEN Count(q, x) - 1 ELSE Count(q, x)
  BY CountNat, FS_RemoveElement DEF U, Count
<1>8. 1 \in Positions(q, x) <=> Head(q) = x
  BY <1>1 DEF Positions
<1> QED  BY <1>6, <1>7, <1>8, CountNat

-----------------------------------------------------------------------------
(* The work queue.  What a step may do to the queue, to check_ti_list's    *)
(* loop and to the count of commands received.                             *)

Takes(item) == scan = {} /\ qw # <<>> /\ Head(qw) = item /\ UNCHANGED <<scan, sent>>

(* The head is visited: it is gone, or an ignition command is replaced by  *)
(* ign1, an unknown byte by wq_none.                                       *)
Visit ==
    \/ qw' = Tail(qw) /\ \E item \in WorkItem \ {None} : Takes(item)
    \/ qw' = Append(Tail(qw), Ign1) /\ Takes(Process("ign_normal"))
    \/ qw' = Append(Tail(qw), None) /\ Takes(Process("other"))

(* The timers are scanned, a due item is enqueued, a command is received. *)
Scan ==
    /\ scan = {} /\ scan' \subseteq Item /\ sent' = sent
    /\ (qw = <<>> /\ qw' = qw) \/ (qw # <<>> /\ Head(qw) = None /\ qw' = Tail(qw))
EnqueueDue ==
    \E i \in scan : scan' = scan \ {i} /\ qw' = Append(qw, Timed(i)) /\ sent' = sent
Received ==
    /\ scan' = scan
    /\ \E c \in Command : qw' = Append(qw, Process(c)) /\ sent' = [sent EXCEPT ![c] = @ + 1]

QueueStep == Visit \/ Scan \/ EnqueueDue \/ Received \/ UNCHANGED <<qw, scan, sent>>

(* Every shared step is one of these, if "other" is the only byte without  *)
(* a case in the engine's visitProc.                                       *)
LEMMA SharedQueueStep ==
    ASSUME WorkerTypeOK, NEW writes,
           Command \subseteq DOMAIN writes \cup DOMAIN proc_writes \cup {"ign_normal", "other"},
           \/ \E c \in Command : worker_visitProc(c, writes)
           \/ \E s \in Sensors : worker_visitTimed(s)
           \/ visitIgn \/ visitNone \/ check_ti_list
           \/ Tick \/ Network \/ UNCHANGED workerVars
    PROVE  QueueStep
<1>1. ASSUME NEW c \in Command, worker_visitProc(c, writes) PROVE Visit
  <2>1. Takes(Process(c)) /\ Process(c) \in WorkItem \ {None}
    BY <1>1, EnqueuedTyped DEF worker_visitProc, polls, Takes, link, Process, None
  <2>2. \/ qw' = Tail(qw)
        \/ qw' = Append(Tail(qw), Ign1) /\ c = "ign_normal"
        \/ qw' = Append(Tail(qw), None) /\ c = "other"
    BY <1>1 DEF worker_visitProc
  <2> QED  BY <2>1, <2>2 DEF Visit
<1>2. ASSUME NEW s \in Sensors, worker_visitTimed(s) PROVE Visit
  <2>1. Timed(s) \in WorkItem \ {None}
    BY EnqueuedTyped DEF Item, Timed, None
  <2> QED  BY <1>2, <2>1 DEF worker_visitTimed, polls, Takes, link, Visit
<1>3. ASSUME visitIgn PROVE Visit
  <2>1. Ign1 \in WorkItem \ {None}
    BY EnqueuedTyped DEF Ign1, None
  <2> QED  BY <1>3, <2>1 DEF visitIgn, polls, Takes, link, Visit
<1>4. ASSUME visitNone PROVE Scan
  BY <1>4 DEF visitNone, Scan, link
<1>5. ASSUME check_ti_list PROVE EnqueueDue
  BY <1>5 DEF check_ti_list, EnqueueDue, link
<1>6. ASSUME NEW c \in Command, Receive(c) PROVE Received
  BY <1>6 DEF Receive, Received
<1>7. ASSUME Tick \/ TakeSend \/ open_connection \/ fail_connection \/ UNCHANGED workerVars
      PROVE  UNCHANGED <<qw, scan, sent>>
  BY <1>7 DEF Tick, TakeSend, open_connection, fail_connection, workerVars, link
<1> QED
  BY <1>1, <1>2, <1>3, <1>4, <1>5, <1>6, <1>7 DEF QueueStep, Network

-----------------------------------------------------------------------------
(* How often a timed item is queued.                                       *)

InScan(i) == IF i \in scan THEN 1 ELSE 0
Copied(i) == Count(qw, Timed(i)) + InScan(i)

(* The unknown bytes whose wq_none has been visited. *)
Unknown == Count(qw, None) + Count(qw, Process("other"))
Visited == sent["other"] - Unknown

(* An item is not queued behind a wq_none, nor about to be. *)
Ahead(i) ==
    /\ \A j, k \in 1..Len(qw) : j < k /\ qw[j] = None => qw[k] # Timed(i)
    /\ i \in scan => \A j \in 1..Len(qw) : qw[j] # None

(* A scan starts on an empty queue or on a wq_none.  In the first case the *)
(* items it enqueues are single and ahead of every wq_none that is still   *)
(* to come, so the scan that this wq_none causes finds them visited; each  *)
(* further scan has consumed an unknown byte.                              *)
Single(i) == Copied(i) <= 1 /\ Ahead(i)
MultiplicityInv ==
    /\ Unknown <= sent["other"]
    /\ \A i \in Item : Copied(i) <= Visited \/ Single(i)

(* It holds of the empty queue. *)
LEMMA MultiplicityInit == WorkerInit => MultiplicityInv
<1> SUFFICES ASSUME WorkerInit PROVE MultiplicityInv
  OBVIOUS
<1>1. qw = <<>> /\ qw \in Seq(WorkItem) /\ 1..Len(qw) = {} /\ scan = {}
  BY DEF WorkerInit
<1>2. \A x : Count(qw, x) = 0
  BY <1>1, CountZero
<1>3. sent["other"] = 0
  BY CommandAssumption DEF WorkerInit
<1> QED  BY <1>1, <1>2, <1>3 DEF MultiplicityInv, Unknown, Copied, InScan, Single, Ahead

(* Every step of the queue keeps it. *)
LEMMA MultiplicityNext ==
    ASSUME WorkerTypeOK, MultiplicityInv, QueueStep
    PROVE  MultiplicityInv'
<1>ty. /\ qw \in Seq(WorkItem) /\ scan \subseteq Item /\ sent \in [Command -> Nat]
       /\ sent["other"] \in Nat /\ Len(qw) \in Nat
  BY CommandAssumption DEF WorkerTypeOK
<1>nat. \A x : Count(qw, x) \in Nat
  BY <1>ty, CountNat
<1>eq. /\ None # Process("other") /\ None # Ign1 /\ Ign1 # Process("other")
       /\ Process("ign_normal") # None /\ Process("ign_normal") # Process("other")
       /\ \A i : Timed(i) # None /\ Timed(i) # Ign1
       /\ \A i, c : Timed(i) # Process(c)
  BY DEF None, Ign1, Process, Timed
<1>1. CASE Visit
  <2>1. scan = {} /\ scan' = {} /\ sent' = sent /\ qw # <<>>
    BY <1>1 DEF Visit, Takes
  <2>2. /\ Tail(qw) \in Seq(WorkItem) /\ Len(Tail(qw)) = Len(qw) - 1 /\ Len(qw) > 0
        /\ \A k \in 1..Len(qw) - 1 : Tail(qw)[k] = qw[k + 1]
    BY <1>ty, <2>1
  <2>3. \A x : Count(Tail(qw), x) \in Nat
    BY <2>2, CountNat
  <2>4. \A x : Count(qw, x) = Count(Tail(qw), x) + (IF Head(qw) = x THEN 1 ELSE 0)
    BY <1>ty, <2>1, CountTail
  <2>8. \A x : Count(Append(Tail(qw), Ign1), x) = Count(Tail(qw), x) + (IF Ign1 = x THEN 1 ELSE 0)
    BY <2>2, CountAppend, EnqueuedTyped
  <2>9. \A x : Count(Append(Tail(qw), None), x) = Count(Tail(qw), x) + (IF None = x THEN 1 ELSE 0)
    BY <2>2, CountAppend, EnqueuedTyped
  <2>5. Unknown' <= Unknown
    <3>1. CASE qw' = Tail(qw)
      BY <2>3, <2>4, <3>1 DEF Unknown
    <3>2. CASE qw' = Append(Tail(qw), Ign1)
      <4>1. Count(qw', None) = Count(Tail(qw), None)
            /\ Count(qw', Process("other")) = Count(Tail(qw), Process("other"))
        BY <1>eq, <2>3, <2>8, <3>2
      <4> QED  BY <2>3, <2>4, <4>1 DEF Unknown
    <3>3. CASE qw' = Append(Tail(qw), None) /\ Head(qw) = Process("other")
      <4>1. Count(qw', None) = Count(Tail(qw), None) + 1
            /\ Count(qw', Process("other")) = Count(Tail(qw), Process("other"))
        BY <1>eq, <2>3, <2>9, <3>3
      <4>2. Count(qw, None) = Count(Tail(qw), None)
            /\ Count(qw, Process("other")) = Count(Tail(qw), Process("other")) + 1
        BY <1>eq, <2>3, <2>4, <3>3
      <4> QED  BY <2>3, <4>1, <4>2 DEF Unknown
    <3> QED  BY <1>1, <3>1, <3>2, <3>3 DEF Visit, Takes
  <2>6. Unknown \in Nat /\ Unknown' \in Nat
    <3>1. qw' \in Seq(WorkItem)
      <4>1. qw' = Tail(qw) \/ qw' = Append(Tail(qw), Ign1) \/ qw' = Append(Tail(qw), None)
        BY <1>1 DEF Visit
      <4> QED  BY <2>2, <4>1, EnqueuedTyped
    <3> QED  BY <1>nat, <3>1, CountNat DEF Unknown
  <2>7. ASSUME NEW i \in Item PROVE Copied(i)' <= Visited' \/ Single(i)'
    <3>1. Count(qw', Timed(i)) = Count(Tail(qw), Timed(i))
      <4>1. qw' = Tail(qw) \/ qw' = Append(Tail(qw), Ign1) \/ qw' = Append(Tail(qw), None)
        BY <1>1 DEF Visit
      <4>2. Ign1 # Timed(i) /\ None # Timed(i) /\ Count(Tail(qw), Timed(i)) \in Nat
        BY <1>eq, <2>3
      <4>3. Count(Append(Tail(qw), Ign1), Timed(i)) = Count(Tail(qw), Timed(i))
        BY <2>8, <4>2
      <4>4. Count(Append(Tail(qw), None), Timed(i)) = Count(Tail(qw), Timed(i))
        BY <2>9, <4>2
      <4> QED  BY <4>1, <4>3, <4>4
    <3>2. Copied(i)' <= Copied(i) /\ Copied(i) \in Nat /\ Copied(i)' \in Nat
      BY <1>nat, <2>1, <2>3, <2>4, <3>1 DEF Copied, InScan
    <3>3. Ahead(i) => Ahead(i)'
      <4> SUFFICES ASSUME Ahead(i), NEW j \in 1..Len(qw'), NEW k \in 1..Len(qw'),
                          j < k, qw'[j] = None
                   PROVE  qw'[k] # Timed(i)
        BY <2>1 DEF Ahead
      <4>1. CASE k \in 1..Len(qw) - 1
        <5>1. /\ j \in 1..Len(qw) - 1 /\ qw'[j] = qw[j + 1] /\ qw'[k] = qw[k + 1]
              /\ j + 1 \in 1..Len(qw) /\ k + 1 \in 1..Len(qw) /\ j + 1 < k + 1
          <6>1. j \in 1..Len(qw) - 1 /\ j + 1 \in 1..Len(qw) /\ k + 1 \in 1..Len(qw) /\ j + 1 < k + 1
            BY <1>ty, <4>1
          <6>2. \A l \in 1..Len(qw) - 1 : qw'[l] = Tail(qw)[l]
            BY <1>1, <2>2 DEF Visit
          <6> QED  BY <2>2, <4>1, <6>1, <6>2
        <5> QED  BY <5>1 DEF Ahead
      <4>2. CASE k \notin 1..Len(qw) - 1
        <5>1. k = Len(qw) /\ (qw'[k] = Ign1 \/ qw'[k] = None)
          <6>1. qw' = Tail(qw) \/ qw' = Append(Tail(qw), Ign1) \/ qw' = Append(Tail(qw), None)
            BY <1>1 DEF Visit
          <6> QED  BY <1>ty, <2>2, <4>2, <6>1
        <5> QED  BY <1>eq, <5>1
      <4> QED  BY <4>1, <4>2
    <3>4. Visited <= Visited'
      BY <1>ty, <2>1, <2>5, <2>6 DEF Visited
    <3>5. Visited \in Int /\ Visited' \in Int
      BY <1>ty, <2>1, <2>6 DEF Visited
    <3> QED  BY <3>2, <3>3, <3>4, <3>5 DEF MultiplicityInv, Single
  <2> QED  BY <1>ty, <2>1, <2>5, <2>6, <2>7 DEF MultiplicityInv
<1>2. CASE Scan
  <2>1. scan = {} /\ scan' \subseteq Item /\ sent' = sent
    BY <1>2 DEF Scan
  <2>2. CASE qw = <<>> /\ qw' = qw
    <3>1. 1..Len(qw) = {}
      BY <2>2
    <3>4. \A x : Count(qw, x) = 0
      BY <1>ty, <3>1, CountZero
    <3>2. \A i \in Item : Single(i)'
      BY <2>2, <3>1, <3>4 DEF Single, Copied, InScan, Ahead
    <3>3. Unknown' <= sent'["other"]
      BY <2>1, <2>2 DEF MultiplicityInv, Unknown
    <3> QED  BY <3>2, <3>3 DEF MultiplicityInv
  <2>3. CASE qw # <<>> /\ Head(qw) = None /\ qw' = Tail(qw)
    <3>1. /\ qw' \in Seq(WorkItem) /\ Len(qw') = Len(qw) - 1 /\ Len(qw) > 0 /\ qw[1] = None
          /\ \A k \in 1..Len(qw) - 1 : qw'[k] = qw[k + 1]
      BY <1>ty, <2>3
    <3>2. \A x : Count(qw', x) \in Nat /\ Count(qw, x) = Count(qw', x) + (IF x = None THEN 1 ELSE 0)
      BY <1>ty, <2>3, <3>1, CountNat, CountTail
    <3>3. Unknown = Unknown' + 1 /\ Unknown' \in Nat
      BY <1>eq, <3>2 DEF Unknown
    <3>4. Visited' = Visited + 1 /\ Visited \in Nat
      BY <1>ty, <2>1, <3>3 DEF Visited, MultiplicityInv
    <3>5. ASSUME NEW i \in Item PROVE Copied(i)' <= Visited'
      <4>1. Copied(i) = Count(qw, Timed(i)) /\ Count(qw', Timed(i)) = Count(qw, Timed(i))
            /\ Copied(i)' <= Copied(i) + 1 /\ Copied(i) \in Nat /\ Copied(i)' \in Nat
        BY <1>eq, <1>nat, <2>1, <3>2 DEF Copied, InScan
      <4>2. ASSUME Single(i) PROVE Copied(i) = 0
        <5>1. \A k \in 1..Len(qw) : qw[k] # Timed(i)
          <6> TAKE k \in 1..Len(qw)
          <6>1. CASE k = 1
            BY <1>eq, <3>1, <6>1
          <6>2. CASE k > 1
            <7>1. 1 \in 1..Len(qw) /\ 1 < k
              BY <1>ty, <3>1, <6>2
            <7> QED  BY <4>2, <3>1, <7>1 DEF Single, Ahead
          <6> QED  BY <6>1, <6>2
        <5> QED  BY <1>ty, <4>1, <5>1, CountZero
      <4> QED  BY <3>4, <4>1, <4>2 DEF MultiplicityInv
    <3>6. Unknown' <= sent'["other"]
      BY <1>ty, <2>1, <3>3 DEF MultiplicityInv
    <3> QED  BY <3>5, <3>6 DEF MultiplicityInv
  <2> QED  BY <1>2, <2>2, <2>3 DEF Scan
<1>3. CASE EnqueueDue
  <2> PICK d \in scan : scan' = scan \ {d} /\ qw' = Append(qw, Timed(d)) /\ sent' = sent
    BY <1>3 DEF EnqueueDue
  <2>0. d \in Item /\ Timed(d) \in WorkItem
    BY <1>ty, EnqueuedTyped
  <2>1. \A x : Count(qw', x) = Count(qw, x) + (IF Timed(d) = x THEN 1 ELSE 0)
    BY <1>ty, <2>0, CountAppend
  <2>2. Unknown' = Unknown /\ Visited' = Visited
    BY <1>eq, <1>nat, <2>1 DEF Unknown, Visited
  <2>3. ASSUME NEW i \in Item PROVE Copied(i)' = Copied(i) /\ (Single(i) => Single(i)')
    <3>1. Timed(d) = Timed(i) <=> d = i
      BY DEF Timed
    <3>2. Copied(i)' = Copied(i)
      BY <1>nat, <2>1, <3>1 DEF Copied, InScan
    <3>3. /\ Len(qw') = Len(qw) + 1 /\ qw'[Len(qw) + 1] = Timed(d)
          /\ \A k \in 1..Len(qw) : qw'[k] = qw[k]
      BY <1>ty, <2>0
    <3>4. ASSUME Ahead(i) PROVE Ahead(i)'
      <4>1. ASSUME NEW j \in 1..Len(qw'), NEW k \in 1..Len(qw'), j < k, qw'[j] = None
            PROVE  qw'[k] # Timed(i)
        <5>1. j \in 1..Len(qw) /\ qw[j] = None
          BY <1>ty, <3>3, <4>1
        <5>2. CASE k \in 1..Len(qw)
          BY <3>3, <3>4, <4>1, <5>1, <5>2 DEF Ahead
        <5>3. CASE k = Len(qw) + 1
          BY <3>1, <3>3, <3>4, <5>1, <5>3 DEF Ahead
        <5> QED  BY <1>ty, <3>3, <5>2, <5>3
      <4>2. ASSUME i \in scan', NEW j \in 1..Len(qw') PROVE qw'[j] # None
        BY <1>ty, <1>eq, <3>3, <3>4, <4>2 DEF Ahead
      <4> QED  BY <4>1, <4>2 DEF Ahead
    <3> QED  BY <3>2, <3>4 DEF Single
  <2> QED  BY <2>2, <2>3 DEF MultiplicityInv
<1>4. CASE Received
  <2> PICK c \in Command : qw' = Append(qw, Process(c)) /\ sent' = [sent EXCEPT ![c] = @ + 1]
    BY <1>4 DEF Received
  <2>0. scan' = scan /\ Process(c) \in WorkItem
    BY <1>4, EnqueuedTyped DEF Received
  <2>1. \A x : Count(qw', x) = Count(qw, x) + (IF Process(c) = x THEN 1 ELSE 0)
    BY <1>ty, <2>0, CountAppend
  <2>2. Visited' = Visited /\ Unknown' <= sent'["other"]
    <3>1. Process(c) # None /\ (Process(c) = Process("other") <=> c = "other")
      BY DEF Process, None
    <3>2. sent'["other"] = sent["other"] + (IF c = "other" THEN 1 ELSE 0)
      BY <1>ty, CommandAssumption
    <3>3. Unknown' = Unknown + (IF c = "other" THEN 1 ELSE 0) /\ Unknown \in Nat
      BY <1>nat, <2>1, <3>1 DEF Unknown
    <3> QED  BY <1>ty, <3>2, <3>3 DEF Visited, MultiplicityInv
  <2>3. ASSUME NEW i \in Item PROVE Copied(i)' = Copied(i) /\ (Single(i) => Single(i)')
    <3>1. Process(c) # Timed(i) /\ Process(c) # None
      BY DEF Timed, Process, None
    <3>2. Copied(i)' = Copied(i)
      BY <1>nat, <2>0, <2>1, <3>1 DEF Copied, InScan
    <3>3. /\ Len(qw') = Len(qw) + 1 /\ qw'[Len(qw) + 1] = Process(c)
          /\ \A k \in 1..Len(qw) : qw'[k] = qw[k]
      BY <1>ty, <2>0
    <3>4. ASSUME Ahead(i) PROVE Ahead(i)'
      <4>1. ASSUME NEW j \in 1..Len(qw'), NEW k \in 1..Len(qw'), j < k, qw'[j] = None
            PROVE  qw'[k] # Timed(i)
        <5>1. j \in 1..Len(qw) /\ qw[j] = None
          BY <1>ty, <3>3, <4>1
        <5>2. CASE k \in 1..Len(qw)
          BY <3>3, <3>4, <4>1, <5>1, <5>2 DEF Ahead
        <5>3. CASE k = Len(qw) + 1
          BY <3>1, <3>3, <5>3
        <5> QED  BY <1>ty, <3>3, <5>2, <5>3
      <4>2. ASSUME i \in scan', NEW j \in 1..Len(qw') PROVE qw'[j] # None
        BY <1>ty, <2>0, <3>1, <3>3, <3>4, <4>2 DEF Ahead
      <4> QED  BY <4>1, <4>2 DEF Ahead
    <3> QED  BY <3>2, <3>4 DEF Single
  <2> QED  BY <2>2, <2>3 DEF MultiplicityInv
<1>5. CASE UNCHANGED <<qw, scan, sent>>
  BY <1>5 DEF MultiplicityInv, Unknown, Visited, Copied, InScan, Single, Ahead
<1> QED
  BY <1>1, <1>2, <1>3, <1>4, <1>5 DEF QueueStep

(* What the invariant says of the copies of an item in the queue. *)
LEMMA MultiplicitySafe ==
    ASSUME WorkerTypeOK, MultiplicityInv
    PROVE  /\ TimedMultiplicity
           /\ sent["other"] <= 1 => \A i \in Item : Copied(i) <= 1
<1>1. qw \in Seq(WorkItem) /\ sent["other"] \in Nat /\ \A x : Count(qw, x) \in Nat
  BY CommandAssumption, CountNat DEF WorkerTypeOK
<1>2. Unknown \in Nat
  BY <1>1 DEF Unknown
<1>3. \A i \in Item : Copies(Timed(i)) = Count(qw, Timed(i))
  BY DEF Copies, Count, Positions
<1>4. \A i \in Item : Copied(i) <= 1 \/ Copied(i) <= sent["other"]
  BY <1>1, <1>2 DEF MultiplicityInv, Visited, Single, Copied, InScan
<1>5. \A i \in Item : Count(qw, Timed(i)) <= Copied(i) /\ Copied(i) \in Nat
  BY <1>1 DEF Copied, InScan
<1> QED  BY <1>1, <1>3, <1>4, <1>5 DEF TimedMultiplicity

-----------------------------------------------------------------------------
(* What a step does to the number of copies of an item in the queue.       *)

(* Removing the head and adding an item, in terms of the counts. *)
LEMMA CountStep ==
    ASSUME qw \in Seq(WorkItem), qw' \in Seq(WorkItem)
    PROVE  /\ \A x : Count(qw, x) \in Nat /\ Count(qw', x) \in Nat
           /\ qw # <<>> /\ qw' = Tail(qw) =>
                \A x : Count(qw, x) = Count(qw', x) + (IF Head(qw) = x THEN 1 ELSE 0)
           /\ \A y \in WorkItem : qw' = Append(qw, y) =>
                \A x : Count(qw', x) = Count(qw, x) + (IF y = x THEN 1 ELSE 0)
           /\ \A y \in WorkItem : qw # <<>> /\ qw' = Append(Tail(qw), y) =>
                \A x : Count(qw', x) + (IF Head(qw) = x THEN 1 ELSE 0)
                         = Count(qw, x) + (IF y = x THEN 1 ELSE 0)
<1>1. \A x : Count(qw, x) \in Nat /\ Count(qw', x) \in Nat
  BY CountNat
<1>2. ASSUME qw # <<>>
      PROVE  \A x : /\ Count(Tail(qw), x) \in Nat
                    /\ Count(qw, x) = Count(Tail(qw), x) + (IF Head(qw) = x THEN 1 ELSE 0)
  <2>1. Tail(qw) \in Seq(WorkItem)
    BY <1>2
  <2> QED  BY <1>2, <2>1, CountNat, CountTail
<1>3. ASSUME NEW y \in WorkItem, qw' = Append(qw, y), NEW x
      PROVE  Count(qw', x) = Count(qw, x) + (IF y = x THEN 1 ELSE 0)
  BY <1>3, CountAppend
<1>4. ASSUME NEW y \in WorkItem, qw # <<>>, qw' = Append(Tail(qw), y), NEW x
      PROVE  Count(qw', x) + (IF Head(qw) = x THEN 1 ELSE 0) = Count(qw, x) + (IF y = x THEN 1 ELSE 0)
  <2>1. Tail(qw) \in Seq(WorkItem)
    BY <1>4
  <2>2. Count(qw', x) = Count(Tail(qw), x) + (IF y = x THEN 1 ELSE 0)
    <3>1. ASSUME NEW q \in Seq(WorkItem)
          PROVE  Count(Append(q, y), x) = Count(q, x) + (IF y = x THEN 1 ELSE 0)
      BY CountAppend
    <3> QED  BY <1>4, <2>1, <3>1
  <2> QED  BY <1>2, <1>4, <2>2
<1> QED  BY <1>1, <1>2, <1>3, <1>4

(* A visit of the head takes one copy of it, and a copy of a timed item is *)
(* new only if the item is among those a scan has just found due.          *)
LEMMA CopiedStep ==
    ASSUME WorkerTypeOK, qw' \in Seq(WorkItem), QueueStep, NEW i \in Item
    PROVE  /\ Copied(i) \in Nat /\ Copied(i)' \in Nat
           /\ Copied(i)' <= Copied(i) \/ i \in scan' \ scan
           /\ Takes(Timed(i)) => Copied(i) >= 1
           /\ Takes(Timed(i)) /\ qw' = Tail(qw) => Copied(i)' = Copied(i) - 1
<1> DEFINE t == Timed(i)
<1>ty. qw \in Seq(WorkItem) /\ Ign1 \in WorkItem /\ None \in WorkItem /\ Timed(i) \in WorkItem
  BY EnqueuedTyped DEF WorkerTypeOK
<1>1. Count(qw, t) \in Nat /\ Count(qw', t) \in Nat
  BY <1>ty, CountStep
<1>2. qw # <<>> /\ qw' = Tail(qw) => Count(qw, t) = Count(qw', t) + (IF Head(qw) = t THEN 1 ELSE 0)
  BY <1>ty, CountStep
<1>3. t # Ign1 /\ t # None /\ \A c : t # Process(c)
  BY DEF Timed, Ign1, None, Process
<1>4. Takes(t) => Count(qw, t) >= 1
  <2> SUFFICES ASSUME Takes(t) PROVE Count(qw, t) # 0
    BY <1>1
  <2>1. Head(qw) = qw[1] /\ 1 \in 1..Len(qw) /\ Head(qw) = t
    BY <1>ty DEF Takes
  <2> QED  BY <1>ty, <2>1, CountZero
<1> HIDE DEF t
<1>5. CASE Visit
  <2>1. scan = {} /\ scan' = {} /\ qw # <<>>
    BY <1>5 DEF Visit, Takes
  <2>2. Count(qw', t) <= Count(qw, t)
    <3>1. CASE qw' = Tail(qw)
      BY <1>1, <1>2, <2>1, <3>1
    <3>2. CASE qw' = Append(Tail(qw), Ign1)
      <4>1. Count(qw', t) + (IF Head(qw) = t THEN 1 ELSE 0) = Count(qw, t) + (IF Ign1 = t THEN 1 ELSE 0)
        BY <1>ty, <2>1, <3>2, CountStep
      <4> QED  BY <1>1, <1>3, <4>1
    <3>3. CASE qw' = Append(Tail(qw), None)
      <4>1. Count(qw', t) + (IF Head(qw) = t THEN 1 ELSE 0) = Count(qw, t) + (IF None = t THEN 1 ELSE 0)
        BY <1>ty, <2>1, <3>3, CountStep
      <4> QED  BY <1>1, <1>3, <4>1
    <3> QED  BY <1>5, <3>1, <3>2, <3>3 DEF Visit
  <2> QED  BY <1>1, <1>2, <1>4, <2>1, <2>2 DEF Copied, InScan, Takes, t
<1>6. CASE Scan
  <2>1. scan = {} /\ Count(qw', t) <= Count(qw, t)
    BY <1>1, <1>2, <1>6 DEF Scan
  <2> QED  BY <1>1, <1>2, <1>4, <2>1 DEF Copied, InScan, Takes, t
<1>7. CASE EnqueueDue
  <2> PICK d \in scan : scan' = scan \ {d} /\ qw' = Append(qw, Timed(d))
    BY <1>7 DEF EnqueueDue
  <2>1. Timed(d) \in WorkItem /\ (Timed(d) = t <=> d = i)
    BY EnqueuedTyped DEF WorkerTypeOK, Timed, t
  <2>2. Count(qw', t) = Count(qw, t) + (IF d = i THEN 1 ELSE 0)
    BY <1>ty, <2>1, CountStep
  <2>3. ~Takes(t)
    BY DEF Takes
  <2> QED  BY <1>1, <2>2, <2>3 DEF Copied, InScan, t
<1>8. CASE Received
  <2> PICK c \in Command : qw' = Append(qw, Process(c))
    BY <1>8 DEF Received
  <2>0. scan' = scan /\ Process(c) \in WorkItem
    BY <1>8, EnqueuedTyped DEF Received
  <2>1. Count(qw', t) = Count(qw, t) + (IF Process(c) = t THEN 1 ELSE 0)
    BY <1>ty, <2>0, CountStep
  <2>2. Count(qw', t) = Count(qw, t)
    BY <1>1, <1>3, <2>1
  <2> QED  BY <1>1, <1>2, <1>4, <2>0, <2>2 DEF Copied, InScan, Takes, t
<1>9. CASE UNCHANGED <<qw, scan, sent>>
  BY <1>1, <1>2, <1>4, <1>9 DEF Copied, InScan, Takes, t
<1> QED
  BY <1>5, <1>6, <1>7, <1>8, <1>9 DEF QueueStep

(* The ignitions and the aborts that were carried out. *)
Started == sent["ign_normal"] - (Count(qw, Process("ign_normal")) + Count(qw, Ign1))
Aborted == sent["unset_ignition"] - Count(qw, Process("unset_ignition"))

(* Commands are neither lost nor made up on the queue: what is carried out *)
(* stays so, and is counted when its item is visited.                      *)
LEMMA StartedStep ==
    ASSUME WorkerTypeOK, qw' \in Seq(WorkItem), QueueStep
    PROVE  /\ Started \in Int /\ Aborted \in Int /\ Started' \in Int /\ Aborted' \in Int
           /\ Started <= Started' /\ Aborted <= Aborted'
           /\ Takes(Ign1) /\ qw' = Tail(qw) => Started' = Started + 1
           /\ \A c \in Command : sent[c] \in Nat /\ sent'[c] \in Nat /\ sent[c] <= sent'[c]
<1> DEFINE a == Process("ign_normal")
           b == Process("unset_ignition")
<1>ty. /\ qw \in Seq(WorkItem) /\ Ign1 \in WorkItem /\ None \in WorkItem
       /\ \A c \in Command : Process(c) \in WorkItem
       /\ sent \in [Command -> Nat] /\ {"ign_normal", "unset_ignition"} \subseteq Command
  BY EnqueuedTyped, CommandAssumption DEF WorkerTypeOK
<1>eq. /\ a # Ign1 /\ b # Ign1 /\ a # b /\ a # None /\ b # None /\ Ign1 # None
       /\ \A c : Process(c) # Ign1 /\ (Process(c) = a <=> c = "ign_normal")
                   /\ (Process(c) = b <=> c = "unset_ignition")
       /\ \A i : Timed(i) # Ign1 /\ Timed(i) # a /\ Timed(i) # b
  BY DEF Process, Ign1, None, Timed
<1>nat. \A x : Count(qw, x) \in Nat /\ Count(qw', x) \in Nat
  BY <1>ty, CountStep
<1> DEFINE na == Count(qw, a)
           n1 == Count(qw, Ign1)
           nb == Count(qw, b)
           ma == Count(qw', a)
           m1 == Count(qw', Ign1)
           mb == Count(qw', b)
           P == /\ Started \in Int /\ Aborted \in Int /\ Started' \in Int /\ Aborted' \in Int
                /\ Started <= Started' /\ Aborted <= Aborted'
                /\ Takes(Ign1) /\ qw' = Tail(qw) => Started' = Started + 1
                /\ \A c \in Command : sent[c] \in Nat /\ sent'[c] \in Nat /\ sent[c] <= sent'[c]
<1>def. /\ Started = sent["ign_normal"] - (na + n1) /\ Aborted = sent["unset_ignition"] - nb
        /\ Started' = sent'["ign_normal"] - (ma + m1) /\ Aborted' = sent'["unset_ignition"] - mb
        /\ na \in Nat /\ n1 \in Nat /\ nb \in Nat /\ ma \in Nat /\ m1 \in Nat /\ mb \in Nat
  BY <1>nat DEF Started, Aborted
<1>s. ASSUME sent' = sent, ma + m1 <= na + n1, mb <= nb,
             Takes(Ign1) /\ qw' = Tail(qw) => (ma + m1) + 1 = na + n1
      PROVE  P
  <2>1. \A c \in Command : sent[c] \in Nat /\ sent'[c] = sent[c]
    BY <1>ty, <1>s
  <2>2. ASSUME NEW k \in Nat, NEW u \in Nat, NEW v \in Nat, v <= u
        PROVE  k - u \in Int /\ k - v \in Int /\ k - u <= k - v
               /\ (v + 1 = u => k - v = (k - u) + 1)
    BY <2>2
  <2>3. sent["ign_normal"] \in Nat /\ sent["unset_ignition"] \in Nat
        /\ sent'["ign_normal"] = sent["ign_normal"]
        /\ sent'["unset_ignition"] = sent["unset_ignition"]
    BY <1>ty, <2>1
  <2>4. na + n1 \in Nat /\ ma + m1 \in Nat
    BY <1>nat
  <2> DEFINE n == na + n1
             m == ma + m1
  <2>7. /\ Started = sent["ign_normal"] - n /\ Started' = sent["ign_normal"] - m
        /\ n \in Nat /\ m \in Nat /\ m <= n
        /\ Takes(Ign1) /\ qw' = Tail(qw) => m + 1 = n
    BY <1>def, <1>s, <2>3, <2>4
  <2> HIDE DEF n, m, nb, mb
  <2>5. Started \in Int /\ Started' \in Int /\ Started <= Started'
        /\ (Takes(Ign1) /\ qw' = Tail(qw) => Started' = Started + 1)
    BY <2>2, <2>3, <2>7
  <2>6. Aborted \in Int /\ Aborted' \in Int /\ Aborted <= Aborted'
    BY <1>def, <1>s, <2>2, <2>3
  <2> QED  BY <2>1, <2>5, <2>6
<1>0. ASSUME qw # <<>>, qw' = Tail(qw), sent' = sent PROVE P
  <2>1. \A x : Count(qw, x) = Count(qw', x) + (IF Head(qw) = x THEN 1 ELSE 0)
    BY <1>ty, <1>0, CountStep
  <2>2. /\ na = ma + (IF Head(qw) = a THEN 1 ELSE 0)
        /\ n1 = m1 + (IF Head(qw) = Ign1 THEN 1 ELSE 0)
        /\ nb = mb + (IF Head(qw) = b THEN 1 ELSE 0)
    BY <2>1
  <2>3. ma + m1 <= na + n1 /\ mb <= nb /\ (Head(qw) = Ign1 => (ma + m1) + 1 = na + n1)
    <3> HIDE DEF na, n1, nb, ma, m1, mb, a, b
    <3> QED  BY <1>def, <1>eq, <2>2
  <2> QED  BY <1>0, <1>s, <2>3 DEF Takes
<1>1. CASE Visit
  <2>1. qw # <<>> /\ sent' = sent
    BY <1>1 DEF Visit, Takes
  <2>2. CASE qw' = Append(Tail(qw), Ign1) /\ Head(qw) = a
    <3>1. \A x : Count(qw', x) + (IF Head(qw) = x THEN 1 ELSE 0) = Count(qw, x) + (IF Ign1 = x THEN 1 ELSE 0)
      BY <1>ty, <2>1, <2>2, CountStep
    <3>2. ma + 1 = na /\ m1 = n1 + 1 /\ mb = nb
      <4>1. ma + 1 = na
        BY <1>nat, <1>eq, <2>2, <3>1
      <4>2. m1 = n1 + 1
        BY <1>nat, <1>eq, <2>2, <3>1
      <4>3. mb = nb
        BY <1>nat, <1>eq, <2>2, <3>1
      <4> QED  BY <4>1, <4>2, <4>3
    <3>3. ma + m1 <= na + n1 /\ mb <= nb
      <4> HIDE DEF na, n1, nb, ma, m1, mb
      <4> QED  BY <1>def, <3>2
    <3>4. ~Takes(Ign1)
      BY <1>eq, <2>2 DEF Takes
    <3> QED  BY <1>s, <2>1, <3>3, <3>4
  <2>3. CASE qw' = Append(Tail(qw), None) /\ Head(qw) = Process("other")
    <3>1. \A x : Count(qw', x) + (IF Head(qw) = x THEN 1 ELSE 0) = Count(qw, x) + (IF None = x THEN 1 ELSE 0)
      BY <1>ty, <2>1, <2>3, CountStep
    <3>2. ma <= na /\ m1 <= n1 /\ mb <= nb
      BY <1>nat, <1>eq, <3>1
    <3>3. ma + m1 <= na + n1
      <4> HIDE DEF na, n1, nb, ma, m1, mb
      <4> QED  BY <1>def, <3>2
    <3>4. ~Takes(Ign1)
      BY <1>eq, <2>3 DEF Takes
    <3> QED  BY <1>s, <2>1, <3>2, <3>3, <3>4
  <2> QED  BY <1>0, <1>1, <2>1, <2>2, <2>3 DEF Visit, Takes
<1>2. CASE Scan
  <2>1. CASE qw' = qw /\ qw = <<>>
    <3>1. ma + m1 <= na + n1 /\ mb <= nb /\ ~Takes(Ign1)
      BY <1>nat, <2>1 DEF Takes
    <3> QED  BY <1>2, <1>s, <3>1 DEF Scan
  <2> QED  BY <1>0, <1>2, <2>1 DEF Scan
<1>3. CASE EnqueueDue
  <2> PICK d \in scan : qw' = Append(qw, Timed(d)) /\ sent' = sent
    BY <1>3 DEF EnqueueDue
  <2>1. Timed(d) \in WorkItem
    BY EnqueuedTyped DEF WorkerTypeOK
  <2>2. \A x : Count(qw', x) = Count(qw, x) + (IF Timed(d) = x THEN 1 ELSE 0)
    BY <1>ty, <2>1, CountStep
  <2>3. ma = na /\ m1 = n1 /\ mb = nb /\ ~Takes(Ign1)
    BY <1>nat, <1>eq, <2>2 DEF Takes
  <2>4. ma + m1 <= na + n1 /\ mb <= nb
    <3> HIDE DEF na, n1, nb, ma, m1, mb
    <3> QED  BY <1>def, <2>3
  <2> QED  BY <1>s, <2>3, <2>4
<1>4. CASE Received
  <2> PICK c \in Command : qw' = Append(qw, Process(c)) /\ sent' = [sent EXCEPT ![c] = @ + 1]
    BY <1>4 DEF Received
  <2>1. \A x : Count(qw', x) = Count(qw, x) + (IF Process(c) = x THEN 1 ELSE 0)
    BY <1>ty, CountStep
  <2>2. /\ ma = na + (IF c = "ign_normal" THEN 1 ELSE 0) /\ m1 = n1
        /\ mb = nb + (IF c = "unset_ignition" THEN 1 ELSE 0)
    BY <1>nat, <1>eq, <2>1
  <2>3. \A d \in Command : sent[d] \in Nat /\ sent'[d] = sent[d] + (IF c = d THEN 1 ELSE 0)
    BY <1>ty
  <2>4. qw' # Tail(qw) \/ qw = <<>>
    <3>1. Len(qw') = Len(qw) + 1 /\ (qw # <<>> => Len(Tail(qw)) = Len(qw) - 1) /\ Len(qw) \in Nat
      BY <1>ty
    <3> QED  BY <3>1
  <2>5. /\ sent'["ign_normal"] = sent["ign_normal"] + (IF c = "ign_normal" THEN 1 ELSE 0)
        /\ sent'["unset_ignition"] = sent["unset_ignition"] + (IF c = "unset_ignition" THEN 1 ELSE 0)
        /\ sent["ign_normal"] \in Nat /\ sent["unset_ignition"] \in Nat
    BY <1>ty, <2>3
  <2>6. Started' = Started /\ Aborted' = Aborted /\ Started \in Int /\ Aborted \in Int
    <3>1. ASSUME NEW k \in Nat, NEW u \in Nat, NEW v \in Nat, NEW d \in Nat
          PROVE  k - (u + v) \in Int /\ (k + d) - ((u + d) + v) = k - (u + v)
                 /\ k - u \in Int /\ (k + d) - (u + d) = k - u
      OBVIOUS
    <3>2. (IF c = "ign_normal" THEN 1 ELSE 0) \in Nat /\ (IF c = "unset_ignition" THEN 1 ELSE 0) \in Nat
      OBVIOUS
    <3> DEFINE d1 == IF c = "ign_normal" THEN 1 ELSE 0
               d2 == IF c = "unset_ignition" THEN 1 ELSE 0
               k1 == sent["ign_normal"]
               k2 == sent["unset_ignition"]
    <3>3. /\ Started = k1 - (na + n1) /\ Aborted = k2 - nb
          /\ Started' = (k1 + d1) - ((na + d1) + n1) /\ Aborted' = (k2 + d2) - (nb + d2)
      BY <1>def, <2>2, <2>5
    <3>4. na \in Nat /\ n1 \in Nat /\ nb \in Nat /\ d1 \in Nat /\ d2 \in Nat /\ k1 \in Nat /\ k2 \in Nat
      BY <1>nat, <2>5, <3>2
    <3> HIDE DEF na, n1, nb, d1, d2, k1, k2
    <3> QED  BY <3>1, <3>3, <3>4
  <2>7. \A d \in Command : sent[d] \in Nat /\ sent'[d] \in Nat /\ sent[d] <= sent'[d]
    BY <2>3
  <2> QED  BY <2>4, <2>6, <2>7 DEF Takes
<1>5. CASE UNCHANGED <<qw, scan, sent>>
  <2>1. ma = na /\ m1 = n1 /\ mb = nb
    BY <1>5
  <2>2. ma + m1 <= na + n1 /\ mb <= nb
    <3> HIDE DEF na, n1, nb, ma, m1, mb
    <3> QED  BY <1>def, <2>1
  <2> QED  BY <1>5, <1>0, <1>s, <2>2 DEF Takes
<1> QED
  BY <1>1, <1>2, <1>3, <1>4, <1>5 DEF QueueStep

=============================================================================
