---------------------------- MODULE LunaVisitor ----------------------------
(***************************************************************************)
(* luna_visitor: the worker thread of the controller for the Luna engine.  *)
(* A burn is the sequence ign1 (igniter on), ign2 (main valve open), gitvc *)
(* (injection pulses), ign3 (everything closed), driven by timed items     *)
(* while commands of the operator keep arriving.                           *)
(***************************************************************************)
EXTENDS WorkerVisitor

CONSTANTS use_gitvc, time_between_gitvc, gitvc_times    \* from config.ini

INT_MAX == 2147483647

ASSUME GitvcAssumption ==
    /\ use_gitvc \in BOOLEAN
    /\ gitvc_times \in Seq(0..AgeCap - 1) /\ Len(gitvc_times) <= INT_MAX
    /\ time_between_gitvc \in 0..AgeCap - 1

VARIABLES gitvc_on, gitvc_count

gitvcVars == <<gitvc_on, gitvc_count>>
vars == <<workerVars, gitvcVars>>

TypeOK ==
    /\ WorkerTypeOK
    /\ gitvc_on \in BOOLEAN
    /\ gitvc_count \in 0..INT_MAX

Init == WorkerInit /\ gitvc_on = FALSE /\ gitvc_count = 0

(* The cases luna_visitor::visitProc adds. *)
luna_writes ==
    [set_water |-> [high |-> {"WATER_VALVE"}, low |-> {}],
     unset_water |-> [high |-> {}, low |-> {"WATER_VALVE"}],
     set_gitvc |-> [high |-> {}, low |-> {"GITVC_VALVE"}],
     unset_gitvc |-> [high |-> {"GITVC_VALVE"}, low |-> {}]]

(* Every byte that has no case is the one called "other". *)
ASSUME LunaCommandAssumption ==
    Command \subseteq DOMAIN luna_writes \cup DOMAIN proc_writes \cup {"ign_normal", "other"}

visitProc(c) == worker_visitProc(c, luna_writes) /\ UNCHANGED gitvcVars

(* What every visit of ign2, ign3 and gitvc has in common. *)
visits(i) ==
    /\ polls(Timed(i))
    /\ qw' = Tail(qw)
    /\ UNCHANGED <<scan, telemetry, link>>

gitvc_left == Len(gitvc_times) > gitvc_count

(* visitTimed, ign2: open the main valve and start the GITVC pulses. *)
visitIgn2 ==
    LET pulses == IF use_gitvc /\ gitvc_left THEN {"gitvc"} ELSE {} IN
    /\ visits("ign2")
    /\ set_timers({"ign2"}, {"ign3"} \cup pulses, {"ign2"})
    /\ gpio_write("sequence", {"MAIN_VALVE"}, {})
    /\ burn_on' = TRUE /\ burn_age' = 0
    /\ gitvc_on' = (gitvc_on /\ pulses = {})
    /\ UNCHANGED <<time_delay, lit_age, gitvc_count>>

(* Mutants: the end of the burn forgets the igniter, or the main valve. *)
burn_end_igniter_left == [high |-> {"GITVC_VALVE"}, low |-> {"MAIN_VALVE", "WATER_VALVE"}]
burn_end_main_left == [high |-> {"GITVC_VALVE"}, low |-> {"IGN_START", "WATER_VALVE"}]

burn_end == [high |-> {"GITVC_VALVE"}, low |-> {"MAIN_VALVE", "IGN_START", "WATER_VALVE"}]

(* visitTimed, ign3: end the burn. *)
visitIgn3 ==
    /\ visits("ign3")
    /\ set_timers({"ign3"}, {}, {"ign3", "gitvc"})
    /\ gpio_write("sequence", burn_end.high, burn_end.low)
    /\ burn_on' = FALSE
    /\ gitvc_count' = INT_MAX
    /\ UNCHANGED <<time_delay, burn_age, lit_age, gitvc_on>>

(* visitTimed, gitvc: close the valve, open it for the next pulse, or do   *)
(* nothing.                                                                *)
visitGitvc ==
    /\ visits("gitvc")
    /\ \/ /\ gitvc_on
          /\ gpio_write("sequence", {"GITVC_VALVE"}, {})
          /\ gitvc_on' = FALSE
          /\ time_delay' = [time_delay EXCEPT !["gitvc"] = time_between_gitvc]
          /\ set_timers({"gitvc"}, {"gitvc"}, {})
          /\ UNCHANGED gitvc_count
       \/ /\ ~gitvc_on /\ gitvc_left /\ burn_on
          /\ gpio_write("sequence", {}, {"GITVC_VALVE"})
          /\ gitvc_on' = TRUE
          /\ time_delay' = [time_delay EXCEPT !["gitvc"] = gitvc_times[gitvc_count + 1]]
          /\ set_timers({"gitvc"}, {"gitvc"}, {})
          /\ gitvc_count' = gitvc_count + 1
       \/ /\ ~gitvc_on /\ ~(gitvc_left /\ burn_on)
          /\ set_timers({"gitvc"}, {}, {})
          /\ UNCHANGED <<gpio, time_delay, gitvcVars>>
    /\ UNCHANGED burn

visitTimed ==
    \/ \E s \in Sensors : worker_visitTimed(s) /\ UNCHANGED gitvcVars
    \/ visitIgn2 \/ visitIgn3 \/ visitGitvc

(* main_worker::worker_method and worker_visitor::visit *)
Worker ==
    \/ \E c \in Command : visitProc(c)
    \/ visitTimed
    \/ visitIgn /\ UNCHANGED gitvcVars
    \/ visitNone /\ UNCHANGED gitvcVars
    \/ check_ti_list /\ UNCHANGED gitvcVars

Clock == Tick /\ UNCHANGED gitvcVars
NetworkThread == Network /\ UNCHANGED gitvcVars

Next == Worker \/ Clock \/ NetworkThread

Spec == Init /\ [][Next]_vars

(* The worker loop never blocks (qw.poll returns at once) and time passes. *)
(* Nothing obliges the operator or the network.                            *)
FairSpec == Spec /\ WF_vars(Worker) /\ WF_vars(Clock)

-----------------------------------------------------------------------------
(* Safety.                                                                 *)

OpenedBySequence == pins["MAIN_VALVE"] = "HIGH" /\ driver["MAIN_VALVE"] = "sequence"

(* A main valve that ign2 opened always has a running deadline: the burn   *)
(* is on, ign3 is armed with the configured hotflow time, and ign3's clock *)
(* started when the valve opened.  However often ign2 is repeated, and     *)
(* whatever the shutoff and the operator do in between, no open valve is   *)
(* left without the ign3 visit that closes it.                             *)
MainValveAccounted ==
    OpenedBySequence =>
        /\ burn_on
        /\ "ign3" \in enabled
        /\ time_delay["ign3"] = hotflow_us
        /\ age["ign3"] = burn_age

(* The GITVC valve (active low) is open by the sequence's doing only while *)
(* the burn is on and its own timer is running: neither ign3 nor the       *)
(* pressure shutoff leaves it open, in whatever order their visits and     *)
(* gitvc's were queued.                                                    *)
GitvcAccounted ==
    (pins["GITVC_VALVE"] = "LOW" /\ driver["GITVC_VALVE"] = "sequence")
        => burn_on /\ "gitvc" \in enabled

(* One ignition command, and never two scans of the timers in a row.       *)
SingleBurn == sent["ign_normal"] <= 1 /\ sent["other"] <= 1

(* The igniter leads the main valve: in a single burn that the operator    *)
(* does not abort, the main valve is never open with the igniter off.      *)
IgniterLeadsMain ==
    SingleBurn /\ sent["unset_ignition"] = 0 /\ ignition_on
        => (OpenedBySequence => pins["IGN_START"] = "HIGH")

(* In a single burn the main valve opens only when more than preignite_us  *)
(* have passed since ign1 lit the igniter, and ign3 ends the burn only     *)
(* when more than hotflow_us have passed since the main valve opened.      *)
BurnTiming ==
    [][ SingleBurn' =>
          /\ ~OpenedBySequence /\ OpenedBySequence' => lit_age > preignite_us
          /\ visitIgn3 => burn_age > hotflow_us ]_vars

(* The shutoff sticks: once it has closed the valves of a single burn, no  *)
(* later visit of the sequence opens one or lights the igniter again,      *)
(* although the shutoff leaves ign3's and gitvc's timers running.          *)
ShutoffSticks ==
    [][ SingleBurn' /\ driver["MAIN_VALVE"] = "shutoff" =>
          /\ ~OpenedBySequence'
          /\ ~(pins["GITVC_VALVE"] = "HIGH" /\ pins'["GITVC_VALVE"] = "LOW"
                 /\ driver'["GITVC_VALVE"] = "sequence")
          /\ ~(pins["IGN_START"] = "LOW" /\ pins'["IGN_START"] = "HIGH"
                 /\ driver'["IGN_START"] = "sequence") ]_vars

(* What config.ini says of Hotflow_ms, "Total length of hotflow including  *)
(* GITVC": the clock that ends a burn is not turned back while the main    *)
(* valve is open.  (A second ign_normal does turn it back.)                *)
HotflowLengthFixed == [][burn_on /\ burn_on' => burn_age' >= burn_age]_vars

-----------------------------------------------------------------------------
(* Liveness.                                                               *)

(* A main valve opened by the sequence is eventually closed, unless the    *)
(* operator takes it over.                                                 *)
MainCloses == OpenedBySequence ~> ~OpenedBySequence

(* An ignition command that was received leads to a burn, even when the    *)
(* operator turns the igniter off meanwhile, and the burn ends.            *)
IgnitionCompletes ==
    /\ Queued(Process("ign_normal")) ~> burn_on
    /\ burn_on ~> ~burn_on

=============================================================================
