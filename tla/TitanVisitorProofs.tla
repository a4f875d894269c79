------------------------ MODULE TitanVisitorProofs -------------------------
(***************************************************************************)
(* Proofs about TitanVisitor, for every set of sensors, every delay and    *)
(* every bound on the commands.  The steps Titan shares with Luna are      *)
(* handled once, in WorkerVisitorProofs.                                   *)
(***************************************************************************)
EXTENDS TitanVisitor, WorkerVisitorProofs, TLAPS

USE DEF SequenceItem

(* A step of the Titan worker is a shared step or the visit of ign2 or     *)
(* ign3.                                                                   *)
LEMMA TitanSteps ==
    ASSUME [Next]_vars
    PROVE  SharedStep \/ visitIgn2 \/ visitIgn3
BY DEF Next, Worker, visitProc, visitTimed, vars, SharedStep

-----------------------------------------------------------------------------
(* Every step keeps the state well typed. *)
LEMMA NextTyped == TypeOK /\ [Next]_vars => TypeOK'
<1> SUFFICES ASSUME TypeOK, [Next]_vars PROVE TypeOK'
  OBVIOUS
<1>1. ASSUME SharedStep PROVE TypeOK'
  BY <1>1, SharedTyped DEF TypeOK
<1> USE DEF TypeOK, WorkerTypeOK
<1>2. ASSUME visitIgn2 PROVE TypeOK'
  <2>1. UNCHANGED <<scan, telemetry, link, time_delay, lit_age>> /\ qw # <<>> /\ qw' = Tail(qw)
    BY <1>2 DEF visitIgn2, visits, polls
  <2>2. enabled' \subseteq Item /\ age' \in [Item -> 0..AgeCap]
    BY <1>2, SetTimers DEF visitIgn2, Item
  <2>3. pins' \in [Pin -> Level] /\ driver' \in [Pin -> Driver]
    BY <1>2, GpioWrite DEF visitIgn2, Driver
  <2>4. burn_on' \in BOOLEAN /\ burn_age' \in 0..AgeCap
    BY <1>2, CapAssumption DEF visitIgn2
  <2>5. qw' \in Seq(WorkItem)
    BY <2>1, EnqueuedTyped, QueueTyped
  <2> QED  BY <2>1, <2>2, <2>3, <2>4, <2>5 DEF telemetry, link
<1>3. ASSUME visitIgn3 PROVE TypeOK'
  <2>1. /\ UNCHANGED <<scan, telemetry, link, time_delay, burn_age, lit_age>>
        /\ qw # <<>> /\ qw' = Tail(qw) /\ burn_on' = FALSE
    BY <1>3 DEF visitIgn3, visits, polls
  <2>2. enabled' \subseteq Item /\ age' \in [Item -> 0..AgeCap]
    BY <1>3, SetTimers DEF visitIgn3
  <2>3. pins' \in [Pin -> Level] /\ driver' \in [Pin -> Driver]
    BY <1>3, GpioWrite DEF visitIgn3, Driver
  <2>5. qw' \in Seq(WorkItem)
    BY <2>1, EnqueuedTyped, QueueTyped
  <2> QED  BY <2>1, <2>2, <2>3, <2>5 DEF telemetry, link
<1> QED
  BY <1>1, <1>2, <1>3, TitanSteps

(* Every reachable state of the Titan worker thread is well typed. *)
THEOREM TypeCorrect == Spec => []TypeOK
<1>1. Init => TypeOK
  BY WorkerInitTyped DEF Init, TypeOK
<1> QED  BY <1>1, NextTyped, PTL DEF Spec

-----------------------------------------------------------------------------
(* The deadline of a burn.                                                 *)

DeadlineInv == TypeOK /\ HotflowDelay /\ BurnArmed

(* Every step keeps the deadline: ign2 starts it, ign3 ends the burn. *)
LEMMA DeadlineNext == DeadlineInv /\ [Next]_vars => DeadlineInv'
<1> SUFFICES ASSUME DeadlineInv, [Next]_vars PROVE (HotflowDelay /\ BurnArmed)'
  BY NextTyped DEF DeadlineInv
<1> USE DEF DeadlineInv
<1>1. ASSUME SharedStep PROVE (HotflowDelay /\ BurnArmed)'
  BY <1>1, SharedDeadline DEF TypeOK
<1>2. ASSUME visitIgn2 PROVE (HotflowDelay /\ BurnArmed)'
  <2>1. "ign3" \in Item
    BY DEF Item
  <2>2. "ign3" \in enabled' /\ age'["ign3"] = 0 /\ burn_age' = 0 /\ time_delay' = time_delay
    BY <1>2, <2>1 DEF visitIgn2, set_timers
  <2> QED  BY <2>2 DEF HotflowDelay, BurnArmed
<1>3. ASSUME visitIgn3 PROVE (HotflowDelay /\ BurnArmed)'
  BY <1>3 DEF visitIgn3, HotflowDelay, BurnArmed
<1> QED
  BY <1>1, <1>2, <1>3, TitanSteps

(* A Titan burn that is on always has ign3 armed, with the configured      *)
(* hotflow time and its clock started when the burn began.                 *)
THEOREM BurnDeadline == Spec => []BurnHasDeadline
<1>1. Init => DeadlineInv
  BY WorkerInitTyped, WorkerInitDeadline DEF Init, DeadlineInv, TypeOK
<1>2. DeadlineInv => BurnHasDeadline
  BY DEF DeadlineInv, HotflowDelay, BurnArmed, BurnHasDeadline
<1> QED  BY <1>1, <1>2, DeadlineNext, PTL DEF Spec

-----------------------------------------------------------------------------
(* The igniter.                                                            *)

(* An igniter lit by the Titan sequence always has ign2 or ign3 pending:   *)
(* ign2 hands over to ign3, and ign3 turns the igniter off.                *)
THEOREM IgniterSafe == Spec => []IgniterAccounted
<1> DEFINE Inv == TypeOK /\ IgniterAccounted
<1>1. Init => Inv
  <2>1. WorkerInit => IgniterAccounted
    BY DEF WorkerInit, initialize_pins, Pin, IgniterAccounted
  <2> QED  BY <2>1, WorkerInitTyped DEF Init, TypeOK
<1>2. Inv /\ [Next]_vars => Inv'
  <2> SUFFICES ASSUME TypeOK, IgniterAccounted, [Next]_vars PROVE IgniterAccounted'
    BY NextTyped
  <2>1. ASSUME SharedStep PROVE IgniterAccounted'
    BY <2>1, SharedIgniter DEF TypeOK
  <2>2. ASSUME visitIgn2 PROVE IgniterAccounted'
    BY <2>2 DEF visitIgn2, set_timers, IgniterAccounted
  <2>3. ASSUME visitIgn3 PROVE IgniterAccounted'
    <3>1. pins'["IGN_START"] = "LOW"
      BY <2>3 DEF visitIgn3, gpio_write, burn_end, Pin
    <3> QED  BY <3>1 DEF IgniterAccounted
  <2> QED  BY <2>1, <2>2, <2>3, TitanSteps
<1> QED  BY <1>1, <1>2, PTL DEF Spec

-----------------------------------------------------------------------------
(* The default position.  DefaultUnlessOperator speaks of the three valves *)
(* together; what is inductive is that each of them, on its own, is in its *)
(* default position unless the operator was the last to write it.          *)

Valve == {"MAIN_VALVE", VENT, TANK}
default == [v \in Valve |-> IF v = TANK THEN "HIGH" ELSE "LOW"]
EachAtDefault == \A v \in Valve : driver[v] # "operator" => pins[v] = default[v]
DefaultInv == TypeOK /\ EachAtDefault

(* A write of the sequence or of the shutoff that puts the valves it names *)
(* in their default position keeps every other valve where it was.         *)
LEMMA DefaultWrite ==
    ASSUME DefaultInv, NEW who \in Driver, NEW high, NEW low,
           \A v \in Valve : (v \in high => default[v] = "HIGH")
                              /\ (v \in low \ high => default[v] = "LOW"),
           gpio_write(who, high, low)
    PROVE  EachAtDefault'
<1>1. pins \in [Pin -> Level] /\ driver \in [Pin -> Driver] /\ Valve \subseteq Pin
  BY DEF DefaultInv, TypeOK, WorkerTypeOK, Valve, VENT, TANK, Pin
<1> SUFFICES ASSUME NEW v \in Valve, driver'[v] # "operator" PROVE pins'[v] = default[v]
  BY DEF EachAtDefault, default
<1>2. CASE v \in high \cup low
  BY <1>1, <1>2, GpioWrite
<1>3. CASE v \notin high \cup low
  BY <1>1, <1>3, GpioWrite DEF DefaultInv, EachAtDefault
<1> QED  BY <1>2, <1>3

(* What the operator writes is the operator's. *)
LEMMA OperatorWrite ==
    ASSUME DefaultInv, NEW high, NEW low, gpio_write("operator", high, low)
    PROVE  EachAtDefault'
<1>1. pins \in [Pin -> Level] /\ driver \in [Pin -> Driver] /\ Valve \subseteq Pin
      /\ "operator" \in Driver
  BY DEF DefaultInv, TypeOK, WorkerTypeOK, Valve, VENT, TANK, Pin, Driver
<1> SUFFICES ASSUME NEW v \in Valve, driver'[v] # "operator" PROVE pins'[v] = default[v]
  BY DEF EachAtDefault, default
<1>2. v \notin high \cup low
  BY <1>1, GpioWrite
<1> QED  BY <1>1, <1>2, GpioWrite DEF DefaultInv, EachAtDefault

(* Every step leaves the valves the operator does not hold in the default  *)
(* position: ign2 and the shutoff write exactly that position, ign1 and    *)
(* ign3 write the igniter only.                                            *)
LEMMA DefaultNext == DefaultInv /\ [Next]_vars => DefaultInv'
<1> SUFFICES ASSUME DefaultInv, [Next]_vars PROVE EachAtDefault'
  BY NextTyped DEF DefaultInv
<1>who. "sequence" \in Driver /\ "shutoff" \in Driver
  BY DEF Driver
<1>0. ASSUME UNCHANGED gpio PROVE EachAtDefault'
  BY <1>0 DEF DefaultInv, EachAtDefault, gpio, default
<1>1. ASSUME NEW c \in Command, NEW writes, worker_visitProc(c, writes) PROVE EachAtDefault'
  <2>1. UNCHANGED gpio \/ \E high, low : gpio_write("operator", high, low)
    BY <1>1 DEF worker_visitProc
  <2> QED  BY <2>1, <1>0, OperatorWrite
<1>2. ASSUME NEW s \in Sensors, worker_visitTimed(s) PROVE EachAtDefault'
  <2>1. UNCHANGED gpio
        \/ gpio_write("shutoff", {"GITVC_VALVE"}, {"MAIN_VALVE", "IGN_START"})
    BY <1>2 DEF worker_visitTimed, trip_shutoff
  <2>2. \A v \in Valve : (v \in {"GITVC_VALVE"} => default[v] = "HIGH")
            /\ (v \in {"MAIN_VALVE", "IGN_START"} \ {"GITVC_VALVE"} => default[v] = "LOW")
    BY DEF Valve, default, VENT, TANK
  <2> QED  BY <1>who, <2>1, <2>2, <1>0, DefaultWrite
<1>3. ASSUME visitIgn PROVE EachAtDefault'
  <2> DEFINE lit == IF ignition_on THEN {"IGN_START"} ELSE {}
  <2>1. gpio_write("sequence", lit, {})
    BY <1>3 DEF visitIgn
  <2>2. \A v \in Valve : (v \in lit => default[v] = "HIGH")
                           /\ (v \in {} \ lit => default[v] = "LOW")
    BY DEF Valve, VENT, TANK
  <2> HIDE DEF lit
  <2> QED  BY <1>who, <2>1, <2>2, DefaultWrite
<1>4. ASSUME visitNone \/ check_ti_list \/ Tick \/ Network \/ UNCHANGED workerVars
      PROVE  EachAtDefault'
  BY <1>4, <1>0 DEF visitNone, check_ti_list, Tick, Network, Receive, TakeSend,
                    open_connection, fail_connection, workerVars
<1>5. ASSUME visitIgn2 PROVE EachAtDefault'
  <2>1. gpio_write("sequence", {TANK}, {"MAIN_VALVE", VENT})
    BY <1>5 DEF visitIgn2, burn_position
  <2>2. \A v \in Valve : (v \in {TANK} => default[v] = "HIGH")
                           /\ (v \in {"MAIN_VALVE", VENT} \ {TANK} => default[v] = "LOW")
    BY DEF Valve, default, VENT, TANK
  <2> QED  BY <1>who, <2>1, <2>2, DefaultWrite
<1>6. ASSUME visitIgn3 PROVE EachAtDefault'
  <2>1. gpio_write("sequence", {}, {"IGN_START"})
    BY <1>6 DEF visitIgn3, burn_end
  <2>2. \A v \in Valve : (v \in {} => default[v] = "HIGH")
                           /\ (v \in {"IGN_START"} \ {} => default[v] = "LOW")
    BY DEF Valve, VENT, TANK
  <2> QED  BY <1>who, <2>1, <2>2, DefaultWrite
<1> QED
  BY <1>1, <1>2, <1>3, <1>4, <1>5, <1>6, TitanSteps DEF SharedStep

(* Valves that the operator was not the last to write are in the default   *)
(* position, whatever burns, shutoffs and presets came before.             *)
THEOREM DefaultSafe == Spec => []DefaultUnlessOperator
<1>1. Init => DefaultInv
  <2>1. WorkerInit => EachAtDefault
    BY DEF WorkerInit, initialize_pins, Pin, EachAtDefault, Valve, default, VENT, TANK
  <2> QED  BY <2>1, WorkerInitTyped DEF Init, DefaultInv, TypeOK
<1>2. DefaultInv => DefaultUnlessOperator
  BY DEF DefaultInv, EachAtDefault, DefaultUnlessOperator, AtDefault, Valve, default, VENT, TANK
<1> QED  BY <1>1, <1>2, DefaultNext, PTL DEF Spec

-----------------------------------------------------------------------------
(* The work queue.                                                         *)

(* What the Titan worker's steps do to the work queue. *)
LEMMA TitanQueueStep == ASSUME TypeOK, [Next]_vars PROVE QueueStep
<1>1. ASSUME NEW i \in SequenceItem, visits(i) PROVE QueueStep
  <2>1. Timed(i) \in WorkItem \ {None}
    BY EnqueuedTyped DEF Item, Timed, None
  <2> QED  BY <1>1, <2>1 DEF visits, polls, Takes, link, Visit, QueueStep
<1>2. ASSUME visitIgn2 \/ visitIgn3 PROVE QueueStep
  BY <1>1, <1>2 DEF visitIgn2, visitIgn3
<1>3. \/ \E c \in Command : worker_visitProc(c, titan_writes)
      \/ \E s \in Sensors : worker_visitTimed(s)
      \/ visitIgn \/ visitNone \/ check_ti_list
      \/ Tick \/ Network \/ UNCHANGED workerVars
      \/ visitIgn2 \/ visitIgn3
  BY DEF Next, Worker, visitProc, visitTimed, vars
<1> QED  BY <1>2, <1>3, SharedQueueStep, TitanCommandAssumption DEF TypeOK

(* A timed item is queued at most once, or once per unknown byte received: *)
(* the same argument as for Luna, over Titan's commands.                   *)
THEOREM QueuedOnce == Spec => []TimedMultiplicity
<1>1. Init => TypeOK /\ MultiplicityInv
  BY WorkerInitTyped, MultiplicityInit DEF Init, TypeOK
<1>2. TypeOK /\ MultiplicityInv /\ [Next]_vars => TypeOK' /\ MultiplicityInv'
  BY NextTyped, TitanQueueStep, MultiplicityNext DEF TypeOK
<1>3. TypeOK /\ MultiplicityInv => TimedMultiplicity
  BY MultiplicitySafe DEF TypeOK
<1> QED  BY <1>1, <1>2, <1>3, PTL DEF Spec

=============================================================================
