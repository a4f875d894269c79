------------------------- MODULE LunaVisitorProofs -------------------------
(***************************************************************************)
(* Proofs about LunaVisitor, for every set of sensors, every delay, every  *)
(* list of GITVC pulses and every bound on the commands.                   *)
(***************************************************************************)
EXTENDS LunaVisitor, WorkerVisitorProofs, TLAPS

USE DEF SequenceItem

(* All that the proofs need to know of INT_MAX. *)
LEMMA IntMax == INT_MAX \in Nat
BY SMT DEF INT_MAX

(* A step of the Luna worker is a shared step that leaves the GITVC state  *)
(* alone, or the visit of one of the sequence's items.                     *)
LEMMA LunaSteps ==
    ASSUME [Next]_vars
    PROVE  \/ SharedStep /\ UNCHANGED gitvcVars
           \/ visitIgn2 \/ visitIgn3 \/ visitGitvc
BY DEF Next, Worker, visitProc, visitTimed, Clock, NetworkThread, vars, SharedStep

(* The initial state is well typed. *)
LEMMA InitTyped == Init => TypeOK
<1> SUFFICES ASSUME Init PROVE TypeOK
  OBVIOUS
<1>1. WorkerTypeOK
  BY WorkerInitTyped DEF Init
<1>2. gitvc_count \in 0..INT_MAX
  BY IntMax DEF Init
<1> QED  BY <1>1, <1>2 DEF Init, TypeOK

(* Every step keeps the state well typed. *)
LEMMA NextTyped == TypeOK /\ [Next]_vars => TypeOK'
<1> SUFFICES ASSUME TypeOK, [Next]_vars PROVE TypeOK'
  OBVIOUS
<1>1. ASSUME SharedStep, UNCHANGED gitvcVars PROVE TypeOK'
  BY <1>1, SharedTyped DEF TypeOK, gitvcVars
<1> USE DEF TypeOK, WorkerTypeOK
<1>2. ASSUME visitIgn2 PROVE TypeOK'
  <2> DEFINE pulses == IF use_gitvc /\ gitvc_left THEN {"gitvc"} ELSE {}
  <2>1. UNCHANGED <<scan, telemetry, link, time_delay, lit_age, gitvc_count>>
        /\ qw # <<>> /\ qw' = Tail(qw)
    BY <1>2 DEF visitIgn2, visits, polls
  <2>2. enabled' \subseteq Item /\ age' \in [Item -> 0..AgeCap]
    <3>1. {"ign3"} \cup pulses \in SUBSET Item
      BY DEF Item
    <3>2. set_timers({"ign2"}, {"ign3"} \cup pulses, {"ign2"})
      BY <1>2 DEF visitIgn2
    <3> HIDE DEF pulses
    <3> QED  BY <3>1, <3>2, SetTimers
  <2>3. pins' \in [Pin -> Level] /\ driver' \in [Pin -> Driver]
    BY <1>2, GpioWrite DEF visitIgn2, Driver
  <2>4. burn_on' \in BOOLEAN /\ burn_age' \in 0..AgeCap /\ gitvc_on' \in BOOLEAN
    BY <1>2, CapAssumption DEF visitIgn2
  <2>5. qw' \in Seq(WorkItem)
    BY <2>1, EnqueuedTyped, QueueTyped
  <2> QED  BY <2>1, <2>2, <2>3, <2>4, <2>5 DEF telemetry, link
<1>3. ASSUME visitIgn3 PROVE TypeOK'
  <2>1. UNCHANGED <<scan, telemetry, link, time_delay, burn_age, lit_age, gitvc_on>>
        /\ qw # <<>> /\ qw' = Tail(qw)
    BY <1>3 DEF visitIgn3, visits, polls
  <2>2. enabled' \subseteq Item /\ age' \in [Item -> 0..AgeCap]
    BY <1>3, SetTimers DEF visitIgn3
  <2>3. pins' \in [Pin -> Level] /\ driver' \in [Pin -> Driver]
    BY <1>3, GpioWrite DEF visitIgn3, Driver
  <2>4. burn_on' \in BOOLEAN /\ gitvc_count' = INT_MAX
    BY <1>3 DEF visitIgn3
  <2>5. qw' \in Seq(WorkItem)
    BY <2>1, EnqueuedTyped, QueueTyped
  <2>6. gitvc_count' \in 0..INT_MAX
    BY <2>4, IntMax
  <2> QED  BY <2>1, <2>2, <2>3, <2>4, <2>5, <2>6 DEF telemetry, link
<1>4. ASSUME visitGitvc PROVE TypeOK'
  <2>1. UNCHANGED <<scan, telemetry, link, burn>> /\ qw # <<>> /\ qw' = Tail(qw)
    BY <1>4 DEF visitGitvc, visits, polls
  <2>2. enabled' \subseteq Item /\ age' \in [Item -> 0..AgeCap]
    <3>1. {"gitvc"} \in SUBSET Item /\ {} \in SUBSET Item
      BY DEF Item
    <3> QED  BY <1>4, <3>1, SetTimers DEF visitGitvc
  <2>3. pins' \in [Pin -> Level] /\ driver' \in [Pin -> Driver]
    BY <1>4, GpioWrite DEF visitGitvc, Driver, gpio
  <2>4. gitvc_on' \in BOOLEAN
    BY <1>4 DEF visitGitvc, gitvcVars
  <2>7. gitvc_count' \in 0..INT_MAX
    <3>1. (gitvc_count' = gitvc_count) \/ (gitvc_left /\ gitvc_count' = gitvc_count + 1)
      BY <1>4 DEF visitGitvc, gitvcVars
    <3> QED  BY <3>1, IntMax, GitvcAssumption DEF gitvc_left
  <2>5. time_delay' \in [Item -> 0..AgeCap]
    <3>1. gitvc_left => gitvc_times[gitvc_count + 1] \in 0..AgeCap
      BY IntMax, GitvcAssumption, CapAssumption DEF gitvc_left
    <3>2. time_between_gitvc \in 0..AgeCap
      BY GitvcAssumption, CapAssumption
    <3> QED  BY <1>4, <3>1, <3>2 DEF visitGitvc
  <2>6. qw' \in Seq(WorkItem)
    BY <2>1, EnqueuedTyped, QueueTyped
  <2> QED  BY <2>1, <2>2, <2>3, <2>4, <2>5, <2>6, <2>7 DEF telemetry, link, burn
<1> QED
  BY <1>1, <1>2, <1>3, <1>4, LunaSteps

(* Every reachable state of the Luna worker thread is well typed. *)
THEOREM TypeCorrect == Spec => []TypeOK
BY InitTyped, NextTyped, PTL DEF Spec

-----------------------------------------------------------------------------
(* The inductive strengthening of MainValveAccounted: the burn flag, not   *)
(* the valve, carries the deadline, because the shutoff clears the flag    *)
(* and leaves ign3 armed, and because ign3's delay is rewritten by every   *)
(* ignition command, valve open or not.                                    *)
ValveImpliesBurn == OpenedBySequence => burn_on
DeadlineInv == TypeOK /\ HotflowDelay /\ ValveImpliesBurn /\ BurnArmed

(* A step that touches neither pins, timers nor the burn keeps the deadline. *)
LEMMA DeadlineFrame ==
    ASSUME DeadlineInv, UNCHANGED <<timers, gpio, burn>>
    PROVE  (HotflowDelay /\ ValveImpliesBurn /\ BurnArmed)'
BY DEF DeadlineInv, HotflowDelay, ValveImpliesBurn, BurnArmed, OpenedBySequence, timers, gpio, burn

(* The deadline holds initially: no burn, valve closed. *)
LEMMA DeadlineInit == Init => DeadlineInv
<1> SUFFICES ASSUME Init PROVE DeadlineInv
  OBVIOUS
<1>1. HotflowDelay
  <2>1. "ign3" \in Item /\ "ign3" \notin Sensors
    BY SensorsAssumption DEF Item, SensorName
  <2> QED  BY <2>1 DEF Init, WorkerInit, HotflowDelay, sequence_delay
<1>2. ValveImpliesBurn
  BY DEF Init, WorkerInit, initialize_pins, ValveImpliesBurn, OpenedBySequence, Pin
<1>3. BurnArmed
  BY DEF Init, WorkerInit, BurnArmed
<1> QED  BY <1>1, <1>2, <1>3, InitTyped DEF DeadlineInv

(* Every step keeps the deadline of an open main valve. *)
LEMMA DeadlineNext == DeadlineInv /\ [Next]_vars => DeadlineInv'
<1> SUFFICES ASSUME DeadlineInv, [Next]_vars
             PROVE  (HotflowDelay /\ ValveImpliesBurn /\ BurnArmed)'
  BY NextTyped DEF DeadlineInv
<1> USE DEF DeadlineInv
<1>ty. /\ pins \in [Pin -> Level] /\ driver \in [Pin -> Driver]
       /\ enabled \subseteq Item /\ age \in [Item -> 0..AgeCap]
       /\ time_delay \in [Item -> 0..AgeCap] /\ burn_on \in BOOLEAN
       /\ {"ign2", "ign3", "gitvc"} \subseteq Item /\ "ign3" \notin Sensors
  BY SensorsAssumption DEF TypeOK, WorkerTypeOK, Item, SensorName
<1>pin. "MAIN_VALVE" \in Pin
  BY DEF Pin
<1> DEFINE R == (HotflowDelay /\ ValveImpliesBurn /\ BurnArmed)'
<1>1. ASSUME NEW c \in Command, visitProc(c) PROVE R
  <2>1. UNCHANGED <<timers, burn>>
    BY <1>1 DEF visitProc, worker_visitProc
  <2>2. \/ UNCHANGED gpio
        \/ \E high, low : gpio_write("operator", high, low)
    BY <1>1 DEF visitProc, worker_visitProc
  <2>3. ASSUME NEW high, NEW low, gpio_write("operator", high, low)
        PROVE  OpenedBySequence' => OpenedBySequence
    BY <1>ty, <1>pin, <2>3, GpioWrite DEF OpenedBySequence, Driver
  <2>4. OpenedBySequence' => OpenedBySequence
    BY <2>2, <2>3 DEF OpenedBySequence, gpio
  <2> QED  BY <2>1, <2>4 DEF timers, burn, HotflowDelay, ValveImpliesBurn, BurnArmed
<1>2. ASSUME NEW s \in Sensors, worker_visitTimed(s) PROVE R
  <2>1. UNCHANGED <<time_delay, burn_age>> /\ set_timers({s}, {}, {})
    BY <1>2 DEF worker_visitTimed
  <2>2. age'["ign3"] = age["ign3"] /\ enabled' = enabled
    BY <1>ty, <2>1 DEF set_timers
  <2>3. CASE trip_shutoff
    <3>1. pins'["MAIN_VALVE"] = "LOW" /\ burn_on' = FALSE
      BY <2>3, <1>ty, <1>pin, GpioWrite DEF trip_shutoff, Driver
    <3> QED  BY <3>1, <2>1 DEF HotflowDelay, ValveImpliesBurn, BurnArmed, OpenedBySequence
  <2>4. CASE UNCHANGED <<gpio, burn_on>>
    BY <2>1, <2>2, <2>4 DEF HotflowDelay, ValveImpliesBurn, BurnArmed, OpenedBySequence, gpio
  <2> QED  BY <1>2, <2>3, <2>4 DEF worker_visitTimed
<1>3. ASSUME visitIgn2 PROVE R
  <2> DEFINE on == {"ign3"} \cup IF use_gitvc /\ gitvc_left THEN {"gitvc"} ELSE {}
  <2>1. set_timers({"ign2"}, on, {"ign2"}) /\ time_delay' = time_delay
        /\ burn_on' = TRUE /\ burn_age' = 0
    BY <1>3 DEF visitIgn2
  <2>2. on \in SUBSET Item /\ "ign3" \in on
    BY <1>ty
  <2> HIDE DEF on
  <2>3. "ign3" \in enabled' /\ age'["ign3"] = 0
    BY <1>ty, <2>1, <2>2, SetTimers
  <2> QED  BY <2>1, <2>3 DEF HotflowDelay, ValveImpliesBurn, BurnArmed
<1>4. ASSUME visitIgn3 PROVE R
  <2>1. pins'["MAIN_VALVE"] = "LOW" /\ burn_on' = FALSE /\ time_delay' = time_delay
    BY <1>4, <1>ty, <1>pin, GpioWrite DEF visitIgn3, burn_end, Driver
  <2> QED  BY <2>1 DEF HotflowDelay, ValveImpliesBurn, BurnArmed, OpenedBySequence
<1>5. ASSUME visitGitvc PROVE R
  <2>1. UNCHANGED burn
    BY <1>5 DEF visitGitvc
  <2>2. set_timers({"gitvc"}, {"gitvc"}, {}) \/ set_timers({"gitvc"}, {}, {})
    BY <1>5 DEF visitGitvc
  <2>3. age'["ign3"] = age["ign3"] /\ ("ign3" \in enabled => "ign3" \in enabled')
    BY <1>ty, <2>2 DEF set_timers
  <2>4. OpenedBySequence' => OpenedBySequence
    <3>1. \/ gpio_write("sequence", {"GITVC_VALVE"}, {})
          \/ gpio_write("sequence", {}, {"GITVC_VALVE"})
          \/ UNCHANGED gpio
      BY <1>5 DEF visitGitvc
    <3> QED  BY <3>1, <1>ty, <1>pin, GpioWrite DEF OpenedBySequence, gpio, Driver
  <2>5. time_delay'["ign3"] = time_delay["ign3"]
    BY <1>5, <1>ty DEF visitGitvc
  <2> QED  BY <2>1, <2>3, <2>4, <2>5 DEF burn, HotflowDelay, ValveImpliesBurn, BurnArmed
<1>6. ASSUME visitIgn PROVE R
  <2>1. UNCHANGED <<burn_on, burn_age>> /\ set_timers({}, {"ign2"}, {}) /\ time_delay' = ign_delays
    BY <1>6 DEF visitIgn
  <2>2. age'["ign3"] = age["ign3"] /\ ("ign3" \in enabled => "ign3" \in enabled')
    BY <1>ty, <2>1 DEF set_timers
  <2>3. OpenedBySequence' => OpenedBySequence
    BY <1>6, <1>ty, <1>pin DEF visitIgn, gpio_write, OpenedBySequence
  <2>4. HotflowDelay'
    BY <2>1, <1>ty DEF ign_delays, HotflowDelay
  <2> QED  BY <2>1, <2>2, <2>3, <2>4 DEF ValveImpliesBurn, BurnArmed
<1>7. ASSUME visitNone \/ check_ti_list PROVE R
  <2>1. UNCHANGED <<timers, gpio, burn>>
    BY <1>7 DEF visitNone, check_ti_list
  <2> QED  BY <2>1, DeadlineFrame
<1>8. ASSUME Clock PROVE R
  <2>1. UNCHANGED <<gpio, time_delay, enabled, burn_on>>
    BY <1>8 DEF Clock, Tick
  <2>2. burn_on => age'["ign3"] = burn_age'
    BY <1>8, <1>ty DEF Clock, Tick, BurnArmed
  <2> QED  BY <2>1, <2>2 DEF gpio, HotflowDelay, ValveImpliesBurn, BurnArmed, OpenedBySequence
<1>9. ASSUME NetworkThread PROVE R
  <2>1. UNCHANGED <<timers, gpio, burn>>
    BY <1>9 DEF NetworkThread, Network, Receive, TakeSend, open_connection, fail_connection
  <2> QED  BY <2>1, DeadlineFrame
<1>10. ASSUME UNCHANGED vars PROVE R
  <2>1. UNCHANGED <<timers, gpio, burn>>
    BY <1>10 DEF vars, workerVars
  <2> QED  BY <2>1, DeadlineFrame
<1> QED
  BY <1>1, <1>2, <1>3, <1>4, <1>5, <1>6, <1>7, <1>8, <1>9, <1>10 DEF Next, Worker, visitTimed

(* The deadline invariant holds throughout, for every configuration. *)
LEMMA DeadlineAlways == Spec => []DeadlineInv
BY DeadlineInit, DeadlineNext, PTL DEF Spec

(* A main valve opened by the sequence always has ign3's deadline running, *)
(* started when it opened, with the configured hotflow time.               *)
THEOREM MainValveSafe == Spec => []MainValveAccounted
<1>1. DeadlineInv => MainValveAccounted
  BY DEF DeadlineInv, HotflowDelay, ValveImpliesBurn, BurnArmed, MainValveAccounted
<1> QED  BY <1>1, DeadlineAlways, PTL

(* The same for the burn flag, whoever holds the valve. *)
THEOREM BurnDeadline == Spec => []BurnHasDeadline
<1>1. DeadlineInv => BurnHasDeadline
  BY DEF DeadlineInv, HotflowDelay, BurnArmed, BurnHasDeadline
<1> QED  BY <1>1, DeadlineAlways, PTL

-----------------------------------------------------------------------------
(* The igniter and the GITVC valve: what the sequence turned on has the    *)
(* timer armed that turns it off.  Inductive together with the types.      *)
TimersArmed == TypeOK /\ IgniterAccounted /\ GitvcAccounted

(* A step that touches neither pins, the set of enabled items nor the burn *)
(* flag keeps them.                                                        *)
LEMMA ArmedFrame ==
    ASSUME TimersArmed, UNCHANGED <<enabled, gpio, burn_on>>
    PROVE  (IgniterAccounted /\ GitvcAccounted)'
BY DEF TimersArmed, IgniterAccounted, GitvcAccounted, gpio

(* Initially both are off. *)
LEMMA ArmedInit == Init => TimersArmed
<1> SUFFICES ASSUME Init PROVE IgniterAccounted /\ GitvcAccounted
  BY InitTyped DEF TimersArmed
<1> QED  BY DEF Init, WorkerInit, initialize_pins, Pin, IgniterAccounted, GitvcAccounted

(* No step leaves the igniter or the GITVC valve on without its timer. *)
LEMMA ArmedNext == TimersArmed /\ [Next]_vars => TimersArmed'
<1> SUFFICES ASSUME TimersArmed, [Next]_vars PROVE (IgniterAccounted /\ GitvcAccounted)'
  BY NextTyped DEF TimersArmed
<1> USE DEF TimersArmed
<1>ty. /\ pins \in [Pin -> Level] /\ driver \in [Pin -> Driver]
       /\ enabled \subseteq Item /\ burn_on \in BOOLEAN
       /\ {"IGN_START", "GITVC_VALVE"} \subseteq Pin
  BY DEF TypeOK, WorkerTypeOK, Pin
<1> DEFINE R == (IgniterAccounted /\ GitvcAccounted)'
<1>1. ASSUME NEW c \in Command, visitProc(c) PROVE R
  <2>1. enabled' = enabled /\ burn_on' = burn_on
    BY <1>1 DEF visitProc, worker_visitProc, timers, burn
  <2>2. \/ UNCHANGED gpio
        \/ \E high, low : gpio_write("operator", high, low)
    BY <1>1 DEF visitProc, worker_visitProc
  <2>3. ASSUME NEW high, NEW low, gpio_write("operator", high, low) PROVE R
    BY <1>ty, <2>1, <2>3, GpioWrite DEF IgniterAccounted, GitvcAccounted, Driver
  <2> QED  BY <2>1, <2>2, <2>3, ArmedFrame
<1>2. ASSUME NEW s \in Sensors, worker_visitTimed(s) PROVE R
  <2>1. enabled' = enabled
    BY <1>2 DEF worker_visitTimed, set_timers
  <2>2. CASE trip_shutoff
    BY <1>ty, <2>2, GpioWrite DEF trip_shutoff, IgniterAccounted, GitvcAccounted, Driver
  <2>3. CASE UNCHANGED <<gpio, burn_on>>
    BY <2>1, <2>3, ArmedFrame
  <2> QED  BY <1>2, <2>2, <2>3 DEF worker_visitTimed
<1>3. ASSUME visitIgn2 PROVE R
  <2>1. "ign3" \in enabled' /\ ("gitvc" \in enabled => "gitvc" \in enabled') /\ burn_on' = TRUE
    BY <1>3 DEF visitIgn2, set_timers
  <2>2. gpio_write("sequence", {"MAIN_VALVE"}, {})
    BY <1>3 DEF visitIgn2
  <2>3. pins'["GITVC_VALVE"] = pins["GITVC_VALVE"] /\ driver'["GITVC_VALVE"] = driver["GITVC_VALVE"]
    BY <1>ty, <2>2 DEF gpio_write
  <2> QED  BY <2>1, <2>3 DEF IgniterAccounted, GitvcAccounted
<1>4. ASSUME visitIgn3 PROVE R
  <2>1. pins'["IGN_START"] = "LOW" /\ pins'["GITVC_VALVE"] = "HIGH"
    BY <1>4, <1>ty DEF visitIgn3, gpio_write, burn_end
  <2> QED  BY <2>1 DEF IgniterAccounted, GitvcAccounted
<1>5. ASSUME visitGitvc PROVE R
  <2>1. burn_on' = burn_on /\ enabled \subseteq enabled'
    BY <1>5 DEF visitGitvc, burn, set_timers
  <2>2. CASE gpio_write("sequence", {"GITVC_VALVE"}, {})
    BY <1>ty, <2>1, <2>2 DEF gpio_write, IgniterAccounted, GitvcAccounted
  <2>3. CASE /\ gpio_write("sequence", {}, {"GITVC_VALVE"})
             /\ burn_on /\ set_timers({"gitvc"}, {"gitvc"}, {})
    <3>1. "gitvc" \in enabled'
      BY <2>3 DEF set_timers
    <3> QED  BY <1>ty, <2>1, <2>3, <3>1 DEF gpio_write, IgniterAccounted, GitvcAccounted
  <2>4. CASE UNCHANGED gpio
    BY <2>1, <2>4 DEF gpio, IgniterAccounted, GitvcAccounted
  <2> QED  BY <1>5, <2>2, <2>3, <2>4 DEF visitGitvc
<1>6. ASSUME visitIgn PROVE R
  <2>1. burn_on' = burn_on /\ enabled' = enabled \cup {"ign2"}
    BY <1>6 DEF visitIgn, set_timers
  <2>2. pins'["GITVC_VALVE"] = pins["GITVC_VALVE"] /\ driver'["GITVC_VALVE"] = driver["GITVC_VALVE"]
    BY <1>6, <1>ty DEF visitIgn, gpio_write
  <2> QED  BY <2>1, <2>2 DEF IgniterAccounted, GitvcAccounted
<1>7. ASSUME visitNone \/ check_ti_list \/ Clock \/ NetworkThread \/ UNCHANGED vars PROVE R
  <2>1. UNCHANGED <<enabled, gpio, burn_on>>
    BY <1>7 DEF visitNone, check_ti_list, Clock, Tick, NetworkThread, Network, Receive, TakeSend,
                open_connection, fail_connection, vars, workerVars, timers, burn
  <2> QED  BY <2>1, ArmedFrame
<1> QED
  BY <1>1, <1>2, <1>3, <1>4, <1>5, <1>6, <1>7 DEF Next, Worker, visitTimed

(* The invariant above holds throughout. *)
LEMMA ArmedAlways == Spec => []TimersArmed
BY ArmedInit, ArmedNext, PTL DEF Spec

(* An igniter lit by the sequence always has ign2 or ign3 pending, for     *)
(* every configuration and every interleaving of commands and shutoffs.    *)
THEOREM IgniterSafe == Spec => []IgniterAccounted
<1>1. TimersArmed => IgniterAccounted
  BY DEF TimersArmed
<1> QED  BY <1>1, ArmedAlways, PTL

(* A GITVC valve opened by the sequence always has the burn on and its own *)
(* timer running: neither ign3 nor the shutoff leaves it open.             *)
THEOREM GitvcSafe == Spec => []GitvcAccounted
<1>1. TimersArmed => GitvcAccounted
  BY DEF TimersArmed
<1> QED  BY <1>1, ArmedAlways, PTL

-----------------------------------------------------------------------------
(* How often a timed item is queued.                                       *)

(* What the Luna worker's steps do to the work queue. *)
LEMMA LunaQueueStep == ASSUME TypeOK, [Next]_vars PROVE QueueStep
<1>1. ASSUME NEW i \in SequenceItem, visits(i) PROVE QueueStep
  <2>1. Timed(i) \in WorkItem \ {None}
    BY EnqueuedTyped DEF Item, Timed, None
  <2> QED  BY <1>1, <2>1 DEF visits, polls, Takes, link, Visit, QueueStep
<1>2. ASSUME visitIgn2 \/ visitIgn3 \/ visitGitvc PROVE QueueStep
  BY <1>1, <1>2 DEF visitIgn2, visitIgn3, visitGitvc
<1>3. \/ \E c \in Command : worker_visitProc(c, luna_writes)
      \/ \E s \in Sensors : worker_visitTimed(s)
      \/ visitIgn \/ visitNone \/ check_ti_list
      \/ Tick \/ Network \/ UNCHANGED workerVars
      \/ visitIgn2 \/ visitIgn3 \/ visitGitvc
  BY DEF Next, Worker, visitProc, visitTimed, Clock, NetworkThread, vars
<1> QED  BY <1>2, <1>3, SharedQueueStep, LunaCommandAssumption DEF TypeOK

(* The counting invariant holds throughout. *)
LEMMA MultiplicityAlways == Spec => [](TypeOK /\ MultiplicityInv)
<1>1. Init => TypeOK /\ MultiplicityInv
  BY InitTyped, MultiplicityInit DEF Init
<1>2. TypeOK /\ MultiplicityInv /\ [Next]_vars => TypeOK' /\ MultiplicityInv'
  BY NextTyped, LunaQueueStep, MultiplicityNext DEF TypeOK
<1> QED  BY <1>1, <1>2, PTL DEF Spec

(* A timed item is queued at most once, or once per unknown byte received, *)
(* however long the work queue gets.                                       *)
THEOREM QueuedOnce == Spec => []TimedMultiplicity
<1>1. TypeOK /\ MultiplicityInv => TimedMultiplicity
  BY MultiplicitySafe DEF TypeOK
<1> QED  BY <1>1, MultiplicityAlways, PTL

-----------------------------------------------------------------------------
(* A single burn.                                                          *)

(* The clocks: ign2's agrees with the time since the igniter was lit until *)
(* preignite_us have passed, ign3's with the time since the valve opened.  *)
ClockInv ==
    /\ time_delay["ign2"] = preignite_us
    /\ "ign2" \in enabled /\ lit_age <= preignite_us => age["ign2"] = lit_age
    /\ "ign3" \in enabled => age["ign3"] = burn_age

(* Before the ignition is carried out nothing of the sequence has happened. *)
Fresh ==
    /\ {"ign2", "ign3"} \cap enabled = {} /\ ~burn_on
    /\ driver["MAIN_VALVE"] \in {"init", "operator"}

(* The stages of a single burn exclude each other, a queued ign2 or ign3   *)
(* is enabled and due, the shutoff ends the sequence, and the igniter is   *)
(* on from ign1 on.                                                        *)
StartsFresh == Started = 0 => Fresh
OneStage == ~({"ign2", "ign3"} \subseteq enabled)
QueuedIsDue == \A i \in {"ign2", "ign3"} : Copied(i) > 0 => due(i)
ShutoffEnds == driver["MAIN_VALVE"] = "shutoff" => ~burn_on /\ "ign2" \notin enabled
IgniterFirst ==
    sent["unset_ignition"] = 0 /\ ignition_on /\ ("ign2" \in enabled \/ OpenedBySequence)
        => pins["IGN_START"] = "HIGH"

SingleInv == StartsFresh /\ OneStage /\ QueuedIsDue /\ ShutoffEnds /\ IgniterFirst

BurnInv ==
    /\ DeadlineInv /\ MultiplicityInv /\ ClockInv
    /\ Started >= 0 /\ Aborted >= 0
    /\ SingleBurn => SingleInv

(* The cases of a step, and what each of them leaves alone. *)
LEMMA LunaCases ==
    ASSUME [Next]_vars
    PROVE  \/ \E c \in Command : worker_visitProc(c, luna_writes)
           \/ \E s \in Sensors : worker_visitTimed(s)
           \/ visitIgn2 \/ visitIgn3 \/ visitGitvc \/ visitIgn \/ visitNone \/ Tick
           \/ UNCHANGED <<timers, gpio, burn>> /\ scan' \subseteq scan
BY DEF Next, Worker, visitProc, visitTimed, Clock, NetworkThread, Network, vars, workerVars,
       check_ti_list, Receive, TakeSend, open_connection, fail_connection

(* Only ign2 opens the main valve for the sequence. *)
LEMMA OnlyIgn2Opens ==
    ASSUME TypeOK, [Next]_vars, ~visitIgn2
    PROVE  OpenedBySequence' => OpenedBySequence
<1>ty. pins \in [Pin -> Level] /\ driver \in [Pin -> Driver] /\ "MAIN_VALVE" \in Pin
  BY DEF TypeOK, WorkerTypeOK, Pin
<1>0. ASSUME UNCHANGED gpio PROVE OpenedBySequence' => OpenedBySequence
  BY <1>0 DEF gpio, OpenedBySequence
<1>1. ASSUME NEW c \in Command, worker_visitProc(c, luna_writes)
      PROVE  OpenedBySequence' => OpenedBySequence
  <2>1. UNCHANGED gpio \/ \E high, low : gpio_write("operator", high, low)
    BY <1>1 DEF worker_visitProc
  <2>2. ASSUME NEW high, NEW low, gpio_write("operator", high, low)
        PROVE  OpenedBySequence' => OpenedBySequence
    BY <1>ty, <2>2, GpioWrite DEF OpenedBySequence, Driver
  <2> QED  BY <1>0, <2>1, <2>2
<1>2. ASSUME NEW s \in Sensors, worker_visitTimed(s) PROVE OpenedBySequence' => OpenedBySequence
  BY <1>ty, <1>0, <1>2, GpioWrite DEF worker_visitTimed, trip_shutoff, OpenedBySequence, Driver
<1>3. ASSUME visitIgn3 PROVE OpenedBySequence' => OpenedBySequence
  BY <1>ty, <1>3, GpioWrite DEF visitIgn3, burn_end, OpenedBySequence, Driver
<1>4. ASSUME visitGitvc PROVE OpenedBySequence' => OpenedBySequence
  <2>1. \/ gpio_write("sequence", {"GITVC_VALVE"}, {}) \/ gpio_write("sequence", {}, {"GITVC_VALVE"})
        \/ UNCHANGED gpio
    BY <1>4 DEF visitGitvc
  <2> QED  BY <1>ty, <1>0, <2>1, GpioWrite DEF OpenedBySequence, Driver
<1>5. ASSUME visitIgn PROVE OpenedBySequence' => OpenedBySequence
  BY <1>ty, <1>5 DEF visitIgn, gpio_write, OpenedBySequence
<1>6. ASSUME visitNone \/ Tick PROVE OpenedBySequence' => OpenedBySequence
  BY <1>0, <1>6 DEF visitNone, Tick
<1> QED
  BY <1>0, <1>1, <1>2, <1>3, <1>4, <1>5, <1>6, LunaCases

(* The clocks agree initially. *)
LEMMA ClockInit == Init => ClockInv
<1>1. "ign2" \in Item /\ "ign2" \notin Sensors /\ "ign3" \notin Sensors
  BY SensorsAssumption DEF Item, SensorName
<1> QED  BY <1>1 DEF Init, WorkerInit, ClockInv, sequence_delay

(* Every step keeps the clocks in agreement. *)
LEMMA ClockNext == ASSUME TypeOK, ClockInv, [Next]_vars PROVE ClockInv'
<1>ty. /\ enabled \subseteq Item /\ age \in [Item -> 0..AgeCap]
       /\ time_delay \in [Item -> 0..AgeCap] /\ lit_age \in 0..preignite_us + 1
       /\ burn_age \in 0..AgeCap
       /\ {"ign2", "ign3", "gitvc"} \subseteq Item /\ "ign3" \notin Sensors /\ "ign2" \notin Sensors
       /\ preignite_us \in Nat /\ AgeCap \in Nat /\ preignite_us < AgeCap
  BY SensorsAssumption, DelayAssumption, CapAssumption DEF TypeOK, WorkerTypeOK, Item, SensorName
<1>0. ASSUME UNCHANGED <<timers, burn>> PROVE ClockInv'
  BY <1>0 DEF timers, burn, ClockInv
<1>1. ASSUME NEW s \in Sensors, worker_visitTimed(s) PROVE ClockInv'
  <2>1. UNCHANGED <<time_delay, burn_age, lit_age>> /\ set_timers({s}, {}, {})
    BY <1>1 DEF worker_visitTimed
  <2>2. age'["ign3"] = age["ign3"] /\ age'["ign2"] = age["ign2"] /\ enabled' = enabled
    BY <1>ty, <2>1 DEF set_timers
  <2> QED  BY <2>1, <2>2 DEF ClockInv
<1>2. ASSUME visitIgn2 PROVE ClockInv'
  <2> DEFINE on == {"ign3"} \cup IF use_gitvc /\ gitvc_left THEN {"gitvc"} ELSE {}
  <2>1. set_timers({"ign2"}, on, {"ign2"}) /\ time_delay' = time_delay /\ burn_age' = 0
    BY <1>2 DEF visitIgn2
  <2>2. on \in SUBSET Item /\ "ign3" \in on /\ "ign2" \notin on
    BY <1>ty
  <2> HIDE DEF on
  <2>3. age'["ign3"] = 0 /\ "ign2" \notin enabled'
    BY <1>ty, <2>1, <2>2, SetTimers
  <2> QED  BY <2>1, <2>3 DEF ClockInv
<1>3. ASSUME visitIgn3 PROVE ClockInv'
  <2>1. set_timers({"ign3"}, {}, {"ign3", "gitvc"}) /\ UNCHANGED <<time_delay, lit_age>>
    BY <1>3 DEF visitIgn3
  <2>2. "ign3" \notin enabled' /\ age'["ign2"] = age["ign2"] /\ ("ign2" \in enabled' => "ign2" \in enabled)
    BY <1>ty, <2>1 DEF set_timers
  <2> QED  BY <2>1, <2>2 DEF ClockInv
<1>4. ASSUME visitGitvc PROVE ClockInv'
  <2>1. set_timers({"gitvc"}, {"gitvc"}, {}) \/ set_timers({"gitvc"}, {}, {})
    BY <1>4 DEF visitGitvc
  <2>2. /\ age'["ign3"] = age["ign3"] /\ age'["ign2"] = age["ign2"]
        /\ "ign3" \in enabled' => "ign3" \in enabled
        /\ "ign2" \in enabled' => "ign2" \in enabled
    BY <1>ty, <2>1 DEF set_timers
  <2>3. time_delay'["ign2"] = time_delay["ign2"] /\ UNCHANGED <<burn_age, lit_age>>
    BY <1>4, <1>ty DEF visitGitvc, burn
  <2> QED  BY <2>2, <2>3 DEF ClockInv
<1>5. ASSUME visitIgn PROVE ClockInv'
  <2>1. /\ UNCHANGED burn_age /\ set_timers({}, {"ign2"}, {}) /\ time_delay' = ign_delays
        /\ lit_age' = 0
    BY <1>5 DEF visitIgn
  <2>2. /\ age'["ign3"] = age["ign3"] /\ ("ign3" \in enabled' => "ign3" \in enabled)
        /\ age'["ign2"] = 0
    BY <1>ty, <2>1 DEF set_timers
  <2>3. time_delay'["ign2"] = preignite_us
    BY <1>ty, <2>1 DEF ign_delays
  <2> QED  BY <2>1, <2>2, <2>3 DEF ClockInv
<1>6. ASSUME Tick PROVE ClockInv'
  <2>1. UNCHANGED <<time_delay, enabled>>
    BY <1>6 DEF Tick
  <2>2. "ign3" \in enabled => age'["ign3"] = burn_age'
    BY <1>6, <1>ty DEF Tick, ClockInv
  <2>3. "ign2" \in enabled /\ lit_age' <= preignite_us => age'["ign2"] = lit_age'
    BY <1>6, <1>ty DEF Tick, ClockInv
  <2> QED  BY <2>1, <2>2, <2>3 DEF ClockInv
<1>7. ASSUME (\E c \in Command : worker_visitProc(c, luna_writes)) \/ visitNone
      PROVE  UNCHANGED <<timers, burn>>
  BY <1>7 DEF worker_visitProc, visitNone
<1> QED
  BY <1>0, <1>1, <1>2, <1>3, <1>4, <1>5, <1>6, <1>7, LunaCases

(* No command has been carried out initially, and nothing is under way. *)
LEMMA BurnInit == Init => BurnInv
<1> SUFFICES ASSUME Init PROVE BurnInv
  OBVIOUS
<1>1. DeadlineInv /\ MultiplicityInv /\ ClockInv
  BY DeadlineInit, MultiplicityInit, ClockInit DEF Init
<1>2. qw \in Seq(WorkItem) /\ 1..Len(qw) = {}
  BY DEF Init, WorkerInit
<1>3. \A x : Count(qw, x) = 0
  BY <1>2, CountZero
<1>4. sent["ign_normal"] = 0 /\ sent["unset_ignition"] = 0
  BY CommandAssumption DEF Init, WorkerInit
<1>5. Started = 0 /\ Aborted = 0
  BY <1>3, <1>4 DEF Started, Aborted
<1>6. /\ enabled = Sensors /\ "ign2" \notin Sensors /\ "ign3" \notin Sensors
      /\ burn_on = FALSE /\ driver["MAIN_VALVE"] = "init" /\ scan = {}
  BY SensorsAssumption DEF Init, WorkerInit, SensorName, Pin
<1>7. QueuedIsDue
  BY <1>3, <1>6 DEF QueuedIsDue, Copied, InScan
<1>8. StartsFresh /\ OneStage /\ ShutoffEnds /\ IgniterFirst
  BY <1>6 DEF StartsFresh, Fresh, OneStage, ShutoffEnds, IgniterFirst, OpenedBySequence
<1> QED  BY <1>1, <1>5, <1>7, <1>8 DEF BurnInv, SingleInv

(* The operator's only command that turns the igniter off is the abort. *)
LEMMA OperatorIgniter ==
    ASSUME NEW c \in Command, c # "unset_ignition"
    PROVE  /\ c \in DOMAIN luna_writes => "IGN_START" \notin luna_writes[c].low
           /\ c \in DOMAIN proc_writes => "IGN_START" \notin proc_writes[c].low
<1>1. c \in DOMAIN luna_writes => "IGN_START" \notin luna_writes[c].low
  BY DEF luna_writes
<1>2. c \in DOMAIN proc_writes => "IGN_START" \notin proc_writes[c].low
  BY DEF proc_writes
<1> QED  BY <1>1, <1>2

(* What the invariant says of the queue in a state of a single burn. *)
LEMMA SingleFacts ==
    ASSUME BurnInv, [Next]_vars, SingleBurn'
    PROVE  /\ SingleBurn /\ SingleInv /\ WorkerTypeOK /\ QueueStep /\ qw' \in Seq(WorkItem)
           /\ Started \in {0, 1} /\ Started' \in {0, 1} /\ Started <= Started'
           /\ \A c \in Command : sent[c] \in Nat /\ sent'[c] \in Nat /\ sent[c] <= sent'[c]
           /\ \A i \in Item : Copied(i) <= 1
<1>1. WorkerTypeOK /\ TypeOK' /\ QueueStep /\ qw' \in Seq(WorkItem) /\ qw \in Seq(WorkItem)
  BY LunaQueueStep, NextTyped DEF BurnInv, DeadlineInv, TypeOK, WorkerTypeOK
<1>2. /\ Started \in Int /\ Started' \in Int /\ Started <= Started'
      /\ \A c \in Command : sent[c] \in Nat /\ sent'[c] \in Nat /\ sent[c] <= sent'[c]
  BY <1>1, StartedStep
<1>3. SingleBurn
  BY <1>2, CommandAssumption DEF SingleBurn
<1>4. Started <= 1 /\ Started' <= 1
  <2>1. \A x : Count(qw, x) \in Nat /\ Count(qw', x) \in Nat
    BY <1>1, CountStep
  <2> QED  BY <1>2, <1>3, <2>1, CommandAssumption DEF Started, SingleBurn
<1>5. \A i \in Item : Copied(i) <= 1
  BY <1>1, <1>3, MultiplicitySafe DEF SingleBurn, BurnInv
<1> QED  BY <1>1, <1>2, <1>3, <1>4, <1>5 DEF BurnInv

(* Every step of a single burn keeps its stages apart. *)
LEMMA SingleNext == ASSUME BurnInv, [Next]_vars, SingleBurn' PROVE SingleInv'
<1>f. /\ SingleBurn /\ SingleInv /\ WorkerTypeOK /\ QueueStep /\ qw' \in Seq(WorkItem)
      /\ Started \in {0, 1} /\ Started' \in {0, 1} /\ Started <= Started'
      /\ \A c \in Command : sent[c] \in Nat /\ sent'[c] \in Nat /\ sent[c] <= sent'[c]
      /\ \A i \in Item : Copied(i) <= 1
  BY SingleFacts
<1>ty. /\ pins \in [Pin -> Level] /\ driver \in [Pin -> Driver]
       /\ {"MAIN_VALVE", "IGN_START", "GITVC_VALVE"} \subseteq Pin
       /\ enabled \subseteq Item /\ age \in [Item -> 0..AgeCap]
       /\ time_delay \in [Item -> 0..AgeCap]
       /\ {"ign2", "ign3", "gitvc"} \subseteq Item /\ "ign3" \notin Sensors /\ "ign2" \notin Sensors
  BY <1>f, SensorsAssumption DEF WorkerTypeOK, Item, SensorName, Pin
<1>c. \A i \in {"ign2", "ign3"} :
         /\ Copied(i) \in Nat /\ Copied(i)' \in Nat
         /\ Copied(i)' <= Copied(i) \/ i \in scan' \ scan
         /\ Takes(Timed(i)) => Copied(i) >= 1
         /\ Takes(Timed(i)) /\ qw' = Tail(qw) => Copied(i)' = Copied(i) - 1
  BY <1>f, <1>ty, CopiedStep
<1>u. sent["unset_ignition"] \in Nat /\ (sent'["unset_ignition"] = 0 => sent["unset_ignition"] = 0)
  BY <1>f, CommandAssumption
<1>b. burn_on => "ign3" \in enabled /\ "ign2" \notin enabled
  BY <1>f DEF BurnInv, DeadlineInv, BurnArmed, SingleInv, OneStage
(* A queued item is still due if its timer is left alone. *)
<1>q. ASSUME NEW i \in {"ign2", "ign3"}, scan' \subseteq scan,
             i \in enabled => i \in enabled',
             age'[i] = age[i], time_delay'[i] = time_delay[i]
      PROVE  Copied(i)' > 0 => due(i)'
  BY <1>q, <1>f, <1>c DEF SingleInv, QueuedIsDue, due
(* Steps that leave pins, enabled items and the burn alone. *)
<1>p. ASSUME UNCHANGED <<enabled, gpio, burn_on>>
      PROVE  (StartsFresh /\ OneStage /\ ShutoffEnds /\ IgniterFirst)'
  <2>1. UNCHANGED <<pins, driver>>
    BY <1>p DEF gpio
  <2>2. StartsFresh' /\ OneStage' /\ ShutoffEnds'
    BY <1>f, <1>p, <2>1 DEF SingleInv, StartsFresh, Fresh, OneStage, ShutoffEnds
  <2>3. IgniterFirst'
    BY <1>f, <1>p, <1>u, <2>1 DEF SingleInv, IgniterFirst, OpenedBySequence
  <2> QED  BY <2>2, <2>3
<1>1. ASSUME NEW c \in Command, worker_visitProc(c, luna_writes) PROVE SingleInv'
  <2>1. UNCHANGED <<timers, burn, scan>> /\ Takes(Process(c))
    BY <1>1 DEF worker_visitProc, polls, Takes, link
  <2>2. UNCHANGED <<enabled, age, time_delay, burn_on, scan>>
    BY <2>1 DEF timers, burn
  <2>3. QueuedIsDue'
    BY <1>q, <2>2 DEF QueuedIsDue
  <2>4. CASE UNCHANGED gpio
    BY <1>p, <2>2, <2>3, <2>4 DEF SingleInv
  <2>5. ASSUME NEW high, NEW low, gpio_write("operator", high, low),
               c # "unset_ignition" => "IGN_START" \notin low
        PROVE  SingleInv'
    <3>1. /\ driver'["MAIN_VALVE"] = driver["MAIN_VALVE"] \/ driver'["MAIN_VALVE"] = "operator"
          /\ OpenedBySequence' => OpenedBySequence
      BY <1>ty, <2>5, GpioWrite DEF OpenedBySequence, Driver
    <3>2. StartsFresh' /\ OneStage' /\ ShutoffEnds'
      BY <1>f, <2>2, <3>1 DEF SingleInv, StartsFresh, Fresh, OneStage, ShutoffEnds
    <3>3. sent'["unset_ignition"] = 0 => c # "unset_ignition"
      <4> SUFFICES ASSUME sent'["unset_ignition"] = 0, c = "unset_ignition" PROVE FALSE
        OBVIOUS
      <4>1. qw \in Seq(WorkItem) /\ qw # <<>> /\ Head(qw) = Process("unset_ignition")
        BY <1>f, <2>1 DEF WorkerTypeOK, Takes
      <4>2. 1 \in 1..Len(qw) /\ qw[1] = Process("unset_ignition")
        BY <4>1
      <4>3. Count(qw, Process("unset_ignition")) # 0
            /\ Count(qw, Process("unset_ignition")) \in Nat
        BY <4>1, <4>2, CountZero, CountNat
      <4>4. Aborted < 0
        BY <1>u, <4>3 DEF Aborted
      <4>5. Aborted >= 0
        BY DEF BurnInv
      <4>6. Aborted \in Int
        BY <1>u, <4>3 DEF Aborted
      <4> QED  BY <4>4, <4>5, <4>6
    <3>4. c # "unset_ignition" => (pins["IGN_START"] = "HIGH" => pins'["IGN_START"] = "HIGH")
      BY <1>ty, <2>5, GpioWrite DEF Driver
    <3>5. IgniterFirst'
      BY <1>f, <1>u, <2>2, <3>1, <3>3, <3>4 DEF SingleInv, IgniterFirst
    <3> QED  BY <2>3, <3>2, <3>5 DEF SingleInv
  <2>6. \/ UNCHANGED gpio
        \/ \E high, low : gpio_write("operator", high, low)
                            /\ (c # "unset_ignition" => "IGN_START" \notin low)
    BY <1>1, OperatorIgniter DEF worker_visitProc
  <2> QED  BY <2>4, <2>5, <2>6
<1>2. ASSUME NEW s \in Sensors, worker_visitTimed(s) PROVE SingleInv'
  <2>1. UNCHANGED <<time_delay, scan, link>> /\ set_timers({s}, {}, {})
    BY <1>2 DEF worker_visitTimed
  <2>2. age'["ign2"] = age["ign2"] /\ age'["ign3"] = age["ign3"] /\ enabled' = enabled
    BY <1>ty, <2>1 DEF set_timers
  <2>3. QueuedIsDue'
    BY <1>q, <2>1, <2>2 DEF QueuedIsDue
  <2>4. CASE UNCHANGED <<gpio, burn_on>>
    BY <1>p, <2>2, <2>3, <2>4 DEF SingleInv
  <2>5. CASE shutoff_possible(s) /\ trip_shutoff
    <3>1. burn_on /\ burn_on' = FALSE
      BY <2>5 DEF shutoff_possible, trip_shutoff
    <3>2. "ign2" \notin enabled' /\ OneStage'
      BY <1>b, <2>2, <3>1 DEF OneStage
    <3>3. pins'["MAIN_VALVE"] = "LOW"
      BY <1>ty, <2>5, GpioWrite DEF trip_shutoff, Driver
    <3>4. StartsFresh'
      BY <1>f, <3>1 DEF SingleInv, StartsFresh, Fresh
    <3> QED  BY <2>3, <3>1, <3>2, <3>3, <3>4
             DEF SingleInv, ShutoffEnds, IgniterFirst, OpenedBySequence
  <2> QED  BY <1>2, <2>4, <2>5 DEF worker_visitTimed
<1>3. ASSUME visitIgn2 PROVE SingleInv'
  <2> DEFINE on == {"ign3"} \cup IF use_gitvc /\ gitvc_left THEN {"gitvc"} ELSE {}
  <2>1. /\ set_timers({"ign2"}, on, {"ign2"}) /\ UNCHANGED <<time_delay, scan>>
        /\ burn_on' = TRUE /\ Takes(Timed("ign2")) /\ qw' = Tail(qw)
        /\ gpio_write("sequence", {"MAIN_VALVE"}, {})
    BY <1>3 DEF visitIgn2, visits, polls, Takes, link
  <2>2. on \in SUBSET Item /\ "ign3" \in on /\ "ign2" \notin on
    BY <1>ty
  <2> HIDE DEF on
  <2>3. "ign2" \notin enabled'
    BY <1>ty, <2>1, <2>2, SetTimers
  <2>4. "ign2" \in enabled /\ Copied("ign2")' = 0
    <3>1. Copied("ign2") >= 1 /\ Copied("ign2")' = Copied("ign2") - 1 /\ Copied("ign2") \in Nat
      BY <1>c, <2>1
    <3>2. Copied("ign2") = 1
      BY <1>f, <1>ty, <3>1
    <3> QED  BY <1>f, <3>1, <3>2 DEF SingleInv, QueuedIsDue, due
  <2>5. "ign3" \notin enabled /\ Copied("ign3")' = 0
    <3>1. "ign3" \notin enabled
      BY <1>f, <2>4 DEF SingleInv, OneStage
    <3>2. Copied("ign3") = 0
      BY <1>f, <1>c, <3>1 DEF SingleInv, QueuedIsDue, due
    <3> QED  BY <1>c, <2>1, <3>1, <3>2
  <2>6. QueuedIsDue'
    BY <2>4, <2>5 DEF QueuedIsDue
  <2>7. StartsFresh'
    BY <1>f, <2>4 DEF SingleInv, StartsFresh, Fresh
  <2>8. driver'["MAIN_VALVE"] = "sequence" /\ pins'["IGN_START"] = pins["IGN_START"]
    BY <1>ty, <2>1 DEF gpio_write
  <2>9. IgniterFirst'
    BY <1>f, <1>u, <2>4, <2>8 DEF SingleInv, IgniterFirst
  <2> QED  BY <2>3, <2>6, <2>7, <2>8, <2>9 DEF SingleInv, OneStage, ShutoffEnds
<1>4. ASSUME visitIgn3 PROVE SingleInv'
  <2>1. /\ set_timers({"ign3"}, {}, {"ign3", "gitvc"}) /\ UNCHANGED <<time_delay, scan>>
        /\ burn_on' = FALSE /\ Takes(Timed("ign3")) /\ qw' = Tail(qw)
    BY <1>4 DEF visitIgn3, visits, polls, Takes, link
  <2>2. enabled' = enabled \ {"ign3", "gitvc"} /\ age'["ign2"] = age["ign2"]
    BY <1>ty, <2>1 DEF set_timers
  <2>3. "ign3" \in enabled /\ Copied("ign3")' = 0
    <3>1. Copied("ign3") >= 1 /\ Copied("ign3")' = Copied("ign3") - 1 /\ Copied("ign3") \in Nat
      BY <1>c, <2>1
    <3>2. Copied("ign3") = 1
      BY <1>f, <1>ty, <3>1
    <3> QED  BY <1>f, <3>1, <3>2 DEF SingleInv, QueuedIsDue, due
  <2>4. "ign2" \notin enabled /\ Copied("ign2")' = 0
    <3>1. "ign2" \notin enabled
      BY <1>f, <2>3 DEF SingleInv, OneStage
    <3>2. Copied("ign2") = 0
      BY <1>f, <1>c, <3>1 DEF SingleInv, QueuedIsDue, due
    <3> QED  BY <1>c, <2>1, <3>1, <3>2
  <2>5. QueuedIsDue'
    BY <2>3, <2>4 DEF QueuedIsDue
  <2>6. StartsFresh'
    BY <1>f, <2>3 DEF SingleInv, StartsFresh, Fresh
  <2>7. pins'["MAIN_VALVE"] = "LOW" /\ driver'["MAIN_VALVE"] = "sequence"
    BY <1>4, <1>ty, GpioWrite DEF visitIgn3, burn_end, Driver
  <2> QED  BY <2>2, <2>4, <2>5, <2>6, <2>7
           DEF SingleInv, OneStage, ShutoffEnds, IgniterFirst, OpenedBySequence
<1>5. ASSUME visitGitvc PROVE SingleInv'
  <2>1. UNCHANGED <<burn_on, scan>>
    BY <1>5 DEF visitGitvc, visits, burn
  <2>2. set_timers({"gitvc"}, {"gitvc"}, {}) \/ set_timers({"gitvc"}, {}, {})
    BY <1>5 DEF visitGitvc
  <2>3. /\ age'["ign3"] = age["ign3"] /\ age'["ign2"] = age["ign2"]
        /\ "ign3" \in enabled' <=> "ign3" \in enabled
        /\ "ign2" \in enabled' <=> "ign2" \in enabled
    BY <1>ty, <2>2 DEF set_timers
  <2>4. time_delay'["ign2"] = time_delay["ign2"] /\ time_delay'["ign3"] = time_delay["ign3"]
    BY <1>5, <1>ty DEF visitGitvc
  <2>5. QueuedIsDue'
    BY <1>q, <2>1, <2>3, <2>4 DEF QueuedIsDue
  <2>6. \A p \in {"MAIN_VALVE", "IGN_START"} : pins'[p] = pins[p] /\ driver'[p] = driver[p]
    <3>1. \/ gpio_write("sequence", {"GITVC_VALVE"}, {}) \/ gpio_write("sequence", {}, {"GITVC_VALVE"})
          \/ UNCHANGED gpio
      BY <1>5 DEF visitGitvc
    <3> QED  BY <1>ty, <3>1, GpioWrite DEF gpio, Driver
  <2>7. StartsFresh' /\ OneStage' /\ ShutoffEnds'
    BY <1>f, <2>1, <2>3, <2>6 DEF SingleInv, StartsFresh, Fresh, OneStage, ShutoffEnds
  <2>8. IgniterFirst'
    BY <1>f, <1>u, <2>3, <2>6 DEF SingleInv, IgniterFirst, OpenedBySequence
  <2> QED  BY <2>5, <2>7, <2>8 DEF SingleInv
<1>6. ASSUME visitIgn PROVE SingleInv'
  <2>1. /\ Takes(Ign1) /\ qw' = Tail(qw) /\ UNCHANGED <<scan, burn_on>>
        /\ set_timers({}, {"ign2"}, {})
        /\ gpio_write("sequence", IF ignition_on THEN {"IGN_START"} ELSE {}, {})
    BY <1>6 DEF visitIgn, polls, Takes, link
  <2>2. Started' = Started + 1
    BY <1>f, <2>1, StartedStep
  <2>3. Started = 0 /\ Started' = 1
    BY <1>f, <2>2
  <2>4. Fresh
    BY <1>f, <2>3 DEF SingleInv, StartsFresh
  <2>5. enabled' = enabled \cup {"ign2"}
    BY <2>1 DEF set_timers
  <2>6. Copied("ign2")' = 0 /\ Copied("ign3")' = 0
    <3>1. Copied("ign2") = 0 /\ Copied("ign3") = 0
      BY <1>f, <1>c, <2>4 DEF SingleInv, QueuedIsDue, due, Fresh
    <3> QED  BY <1>c, <2>1, <3>1
  <2>7. QueuedIsDue'
    BY <2>6 DEF QueuedIsDue
  <2>8. driver'["MAIN_VALVE"] = driver["MAIN_VALVE"] /\ (ignition_on => pins'["IGN_START"] = "HIGH")
    BY <1>ty, <2>1 DEF gpio_write
  <2> QED  BY <2>3, <2>4, <2>5, <2>7, <2>8
           DEF SingleInv, StartsFresh, OneStage, ShutoffEnds, IgniterFirst, Fresh
<1>7. ASSUME visitNone PROVE SingleInv'
  <2>1. UNCHANGED <<enabled, age, time_delay, gpio, burn_on>> /\ scan' = {i \in Item : due(i)}
    BY <1>7 DEF visitNone, timers, burn
  <2>2. QueuedIsDue'
    BY <1>f, <1>c, <2>1 DEF SingleInv, QueuedIsDue, due
  <2> QED  BY <1>p, <2>1, <2>2 DEF SingleInv
<1>8. ASSUME Tick PROVE SingleInv'
  <2>1. UNCHANGED <<enabled, time_delay, gpio, burn_on, scan>>
    BY <1>8 DEF Tick
  <2>2. \A i \in {"ign2", "ign3"} : due(i) => due(i)'
    <3>1. ASSUME NEW i \in {"ign2", "ign3"} PROVE age'[i] >= age[i] /\ age'[i] \in Nat
      BY <1>ty, <1>8 DEF Tick
    <3> QED  BY <1>ty, <2>1, <3>1 DEF due
  <2>3. QueuedIsDue'
    BY <1>f, <1>c, <2>1, <2>2 DEF SingleInv, QueuedIsDue
  <2> QED  BY <1>p, <2>1, <2>3 DEF SingleInv
<1>9. ASSUME UNCHANGED <<timers, gpio, burn>>, scan' \subseteq scan PROVE SingleInv'
  <2>1. UNCHANGED <<enabled, age, time_delay, gpio, burn_on>>
    BY <1>9 DEF timers, burn
  <2>2. QueuedIsDue'
    BY <1>q, <1>9, <2>1 DEF QueuedIsDue
  <2> QED  BY <1>p, <2>1, <2>2 DEF SingleInv
<1> QED
  BY <1>1, <1>2, <1>3, <1>4, <1>5, <1>6, <1>7, <1>8, <1>9, LunaCases

(* Every step keeps the invariant. *)
LEMMA BurnNext == BurnInv /\ [Next]_vars => BurnInv'
<1> SUFFICES ASSUME BurnInv, [Next]_vars PROVE BurnInv'
  OBVIOUS
<1>1. TypeOK /\ WorkerTypeOK /\ QueueStep /\ DeadlineInv'
  BY LunaQueueStep, DeadlineNext DEF BurnInv, DeadlineInv, TypeOK
<1>2. MultiplicityInv'
  BY <1>1, MultiplicityNext DEF BurnInv
<1>3. ClockInv'
  BY <1>1, ClockNext DEF BurnInv
<1>4. Started' >= 0 /\ Aborted' >= 0
  <2>1. qw' \in Seq(WorkItem)
    BY <1>1 DEF DeadlineInv, TypeOK, WorkerTypeOK
  <2>2. /\ Started \in Int /\ Aborted \in Int /\ Started' \in Int /\ Aborted' \in Int
        /\ Started <= Started' /\ Aborted <= Aborted'
    BY <1>1, <2>1, StartedStep
  <2> QED  BY <2>2 DEF BurnInv
<1>5. SingleBurn' => SingleInv'
  BY SingleNext
<1> QED  BY <1>1, <1>2, <1>3, <1>4, <1>5 DEF BurnInv

(* The invariant of the burn holds throughout. *)
LEMMA BurnAlways == Spec => []BurnInv
BY BurnInit, BurnNext, PTL DEF Spec

(* In a single burn that is not aborted the main valve is never open with  *)
(* the igniter off.                                                        *)
THEOREM IgniterLeads == Spec => []IgniterLeadsMain
<1>1. BurnInv => IgniterLeadsMain
  BY DEF BurnInv, SingleInv, IgniterFirst, IgniterLeadsMain
<1> QED  BY <1>1, BurnAlways, PTL

(* In a single burn the main valve opens only after the configured         *)
(* preignition time, and ign3 ends the burn only after the hotflow time.   *)
THEOREM BurnTimed == Spec => BurnTiming
<1>1. ASSUME BurnInv, [Next]_vars, SingleBurn'
      PROVE  /\ ~OpenedBySequence /\ OpenedBySequence' => lit_age > preignite_us
             /\ visitIgn3 => burn_age > hotflow_us
  <2>1. SingleInv /\ WorkerTypeOK /\ QueueStep /\ qw' \in Seq(WorkItem)
    BY <1>1, SingleFacts
  <2>2. "ign2" \in Item /\ "ign3" \in Item
    BY DEF Item
  <2>3. ASSUME NEW i \in {"ign2", "ign3"}, visits(i) PROVE due(i)
    <3>1. Takes(Timed(i))
      BY <2>3 DEF visits, polls, Takes, link
    <3>2. Copied(i) \in Nat /\ Copied(i) >= 1
      BY <2>1, <2>2, <3>1, CopiedStep
    <3> QED  BY <2>1, <3>2 DEF SingleInv, QueuedIsDue
  <2>4. ASSUME ~OpenedBySequence, OpenedBySequence' PROVE lit_age > preignite_us
    <3>1. visitIgn2
      BY <1>1, <2>4, OnlyIgn2Opens DEF BurnInv, DeadlineInv
    <3>2. "ign2" \in enabled /\ age["ign2"] > preignite_us
      BY <1>1, <2>3, <3>1 DEF visitIgn2, due, BurnInv, ClockInv
    <3>3. lit_age \in Int /\ preignite_us \in Int
      BY <2>1, DelayAssumption DEF WorkerTypeOK
    <3> QED  BY <1>1, <3>2, <3>3 DEF BurnInv, ClockInv
  <2>5. ASSUME visitIgn3 PROVE burn_age > hotflow_us
    <3>1. "ign3" \in enabled /\ age["ign3"] > hotflow_us
      BY <1>1, <2>3, <2>5 DEF visitIgn3, due, BurnInv, DeadlineInv, HotflowDelay
    <3> QED  BY <1>1, <3>1 DEF BurnInv, ClockInv
  <2> QED  BY <2>4, <2>5
<1> DEFINE A == SingleBurn' =>
                  /\ ~OpenedBySequence /\ OpenedBySequence' => lit_age > preignite_us
                  /\ visitIgn3 => burn_age > hotflow_us
<1>2. BurnInv /\ [Next]_vars => [A]_vars
  BY <1>1
<1>3. Spec => [][A]_vars
  BY <1>2, BurnAlways, PTL DEF Spec
<1> QED  BY <1>3 DEF BurnTiming

(* Once the shutoff has closed the valves of a single burn, the sequence   *)
(* opens none and does not light the igniter again.                        *)
THEOREM ShutoffHolds == Spec => ShutoffSticks
<1> DEFINE A == SingleBurn' /\ driver["MAIN_VALVE"] = "shutoff" =>
                  /\ ~OpenedBySequence'
                  /\ ~(pins["GITVC_VALVE"] = "HIGH" /\ pins'["GITVC_VALVE"] = "LOW"
                         /\ driver'["GITVC_VALVE"] = "sequence")
                  /\ ~(pins["IGN_START"] = "LOW" /\ pins'["IGN_START"] = "HIGH"
                         /\ driver'["IGN_START"] = "sequence")
<1>1. ASSUME BurnInv, [Next]_vars PROVE A
  <2> SUFFICES ASSUME SingleBurn', driver["MAIN_VALVE"] = "shutoff"
               PROVE  /\ ~OpenedBySequence'
                      /\ ~(pins["GITVC_VALVE"] = "HIGH" /\ pins'["GITVC_VALVE"] = "LOW"
                             /\ driver'["GITVC_VALVE"] = "sequence")
                      /\ ~(pins["IGN_START"] = "LOW" /\ pins'["IGN_START"] = "HIGH"
                             /\ driver'["IGN_START"] = "sequence")
    OBVIOUS
  <2>f. /\ SingleInv /\ WorkerTypeOK /\ QueueStep /\ qw' \in Seq(WorkItem)
        /\ Started \in {0, 1} /\ Started' \in {0, 1}
    BY <1>1, SingleFacts
  <2>ty. /\ pins \in [Pin -> Level] /\ driver \in [Pin -> Driver]
         /\ {"MAIN_VALVE", "IGN_START", "GITVC_VALVE"} \subseteq Pin
    BY <2>f DEF WorkerTypeOK, Pin
  <2>1. ~burn_on /\ "ign2" \notin enabled /\ Started = 1
    BY <2>f DEF SingleInv, ShutoffEnds, StartsFresh, Fresh
  <2>2. ~visitIgn2
    <3> SUFFICES ASSUME visitIgn2 PROVE FALSE
      OBVIOUS
    <3>1. Takes(Timed("ign2")) /\ "ign2" \in Item
      BY DEF visitIgn2, visits, polls, Takes, link, Item
    <3>2. Copied("ign2") \in Nat /\ Copied("ign2") >= 1
      BY <2>f, <3>1, CopiedStep
    <3> QED  BY <2>f, <2>1, <3>2 DEF SingleInv, QueuedIsDue, due
  <2>3. ~visitIgn
    <3> SUFFICES ASSUME visitIgn PROVE FALSE
      OBVIOUS
    <3>1. Takes(Ign1) /\ qw' = Tail(qw)
      BY DEF visitIgn, polls, Takes, link
    <3>2. Started' = Started + 1
      BY <2>f, <3>1, StartedStep
    <3> QED  BY <2>f, <2>1, <3>2
  <2>4. ~OpenedBySequence'
    BY <1>1, <2>2, OnlyIgn2Opens DEF BurnInv, DeadlineInv, OpenedBySequence
  <2> DEFINE Quiet ==
                \A p \in {"GITVC_VALVE", "IGN_START"} :
                    driver'[p] = "sequence" =>
                        pins'[p] = pins[p] \/ pins'[p] = (IF p = "GITVC_VALVE" THEN "HIGH" ELSE "LOW")
  <2>5. Quiet
    <3>1. ASSUME UNCHANGED gpio PROVE Quiet
      BY <3>1 DEF gpio
    <3>2. ASSUME NEW c \in Command, worker_visitProc(c, luna_writes) PROVE Quiet
      <4>1. UNCHANGED gpio \/ \E high, low : gpio_write("operator", high, low)
        BY <3>2 DEF worker_visitProc
      <4>2. ASSUME NEW high, NEW low, gpio_write("operator", high, low) PROVE Quiet
        BY <2>ty, <4>2, GpioWrite DEF Driver
      <4> QED  BY <3>1, <4>1, <4>2
    <3>3. ASSUME NEW s \in Sensors, worker_visitTimed(s) PROVE Quiet
      BY <2>ty, <3>1, <3>3, GpioWrite DEF worker_visitTimed, trip_shutoff, Driver
    <3>4. ASSUME visitIgn3 PROVE Quiet
      <4>1. gpio_write("sequence", {"GITVC_VALVE"}, {"MAIN_VALVE", "IGN_START", "WATER_VALVE"})
        BY <3>4 DEF visitIgn3, burn_end
      <4> QED  BY <2>ty, <4>1 DEF gpio_write
    <3>5. ASSUME visitGitvc PROVE Quiet
      <4>1. gpio_write("sequence", {"GITVC_VALVE"}, {}) \/ UNCHANGED gpio
        BY <2>1, <3>5 DEF visitGitvc
      <4> QED  BY <2>ty, <3>1, <4>1 DEF gpio_write
    <3>6. ASSUME visitNone \/ Tick PROVE Quiet
      BY <3>1, <3>6 DEF visitNone, Tick
    <3> HIDE DEF Quiet
    <3> QED  BY <1>1, <2>2, <2>3, <3>1, <3>2, <3>3, <3>4, <3>5, <3>6, LunaCases
  <2> QED  BY <2>4, <2>5
<1>2. BurnInv /\ [Next]_vars => [A]_vars
  BY <1>1
<1>3. Spec => [][A]_vars
  BY <1>2, BurnAlways, PTL DEF Spec
<1> QED  BY <1>3 DEF ShutoffSticks

=============================================================================
