---------------------------- MODULE TitanVisitor ----------------------------
(***************************************************************************)
(* titan_visitor: the worker thread of the controller for the Titan        *)
(* engine.  The pins are Luna's: VENT is the pin of WATER_VALVE, TANK the  *)
(* pin of GITVC_VALVE.  The gitvc item exists in tis but is never enabled. *)
(***************************************************************************)
EXTENDS WorkerVisitor

vars == workerVars
TypeOK == WorkerTypeOK
Init == WorkerInit              \* titan_initialize_pins writes the same levels

VENT == "WATER_VALVE"
TANK == "GITVC_VALVE"

(* The cases titan_visitor::visitProc adds: the vent and the presets. *)
titan_writes ==
    [set_water |-> [high |-> {}, low |-> {"WATER_VALVE"}],
     unset_water |-> [high |-> {"WATER_VALVE"}, low |-> {}],
     leak_check |-> [high |-> {"MAIN_VALVE", "WATER_VALVE", "GITVC_VALVE"}, low |-> {}],
     fill |-> [high |-> {"MAIN_VALVE", "WATER_VALVE"}, low |-> {"GITVC_VALVE"}],
     fill_idle |-> [high |-> {"WATER_VALVE", "GITVC_VALVE"}, low |-> {"MAIN_VALVE"}],
     def |-> [high |-> {"GITVC_VALVE"}, low |-> {"MAIN_VALVE", "WATER_VALVE"}]]

(* Every byte that has no case is the one called "other". *)
ASSUME TitanCommandAssumption ==
    Command \subseteq DOMAIN titan_writes \cup DOMAIN proc_writes \cup {"ign_normal", "other"}

visitProc(c) == worker_visitProc(c, titan_writes)

visits(i) ==
    /\ polls(Timed(i))
    /\ qw' = Tail(qw)
    /\ UNCHANGED <<scan, telemetry, link>>

(* Mutant: the vent's polarity is Luna's water valve's. *)
burn_position_vent_closed == [high |-> {TANK, VENT}, low |-> {"MAIN_VALVE"}]

burn_position == [high |-> {TANK}, low |-> {"MAIN_VALVE", VENT}]

(* visitTimed, ign2: the valves take the burn position. *)
visitIgn2 ==
    /\ visits("ign2")
    /\ set_timers({"ign2"}, {"ign3"}, {"ign2"})
    /\ gpio_write("sequence", burn_position.high, burn_position.low)
    /\ burn_on' = TRUE /\ burn_age' = 0
    /\ UNCHANGED <<time_delay, lit_age>>

(* Mutant: the igniter is left on. *)
burn_end_igniter_left == [high |-> {}, low |-> {}]

burn_end == [high |-> {}, low |-> {"IGN_START"}]

(* visitTimed, ign3: the igniter goes off; no valve is written. *)
visitIgn3 ==
    /\ visits("ign3")
    /\ set_timers({"ign3"}, {}, {"ign3"})
    /\ gpio_write("sequence", burn_end.high, burn_end.low)
    /\ burn_on' = FALSE
    /\ UNCHANGED <<time_delay, burn_age, lit_age>>

visitTimed == (\E s \in Sensors : worker_visitTimed(s)) \/ visitIgn2 \/ visitIgn3

Worker ==
    \/ \E c \in Command : visitProc(c)
    \/ visitTimed \/ visitIgn \/ visitNone \/ check_ti_list

Next == Worker \/ Tick \/ Network

Spec == Init /\ [][Next]_vars
FairSpec == Spec /\ WF_vars(Worker) /\ WF_vars(Tick)

-----------------------------------------------------------------------------
AtDefault ==
    /\ pins["MAIN_VALVE"] = "LOW" /\ pins[VENT] = "LOW" /\ pins[TANK] = "HIGH"

(* The reason titan_visitor gives for closing no valve at the end of a     *)
(* burn: the burn position is the default position.  Valves whose last     *)
(* writer is not the operator are in that position, during the burn, after *)
(* it and after a pressure shutoff.                                        *)
DefaultUnlessOperator ==
    (\A v \in {"MAIN_VALVE", VENT, TANK} : driver[v] # "operator") => AtDefault

(* The igniter lit by the sequence is turned off in the end, by ign3, by   *)
(* the shutoff, or by the operator.                                        *)
IgniterOff ==
    (pins["IGN_START"] = "HIGH" /\ driver["IGN_START"] = "sequence") ~>
        ~(pins["IGN_START"] = "HIGH" /\ driver["IGN_START"] = "sequence")

=============================================================================
