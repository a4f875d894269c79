--------------------------- MODULE WorkerVisitor ---------------------------
(***************************************************************************)
(* The worker thread of the engine controller: main_worker's loop, the     *)
(* timed item list and worker_visitor, the base class of luna_visitor and  *)
(* titan_visitor.  The modules LunaVisitor and TitanVisitor extend this    *)
(* one with what the subclasses override and with the next-state relation. *)
(*                                                                         *)
(* Time is relative: the model keeps get_time() - scheduled ("age")        *)
(* instead of absolute timestamps, saturating at AgeCap, and Tick may      *)
(* happen between any two steps, so the worker may be arbitrarily slow.    *)
(* The clock is assumed never to step backwards.                           *)
(***************************************************************************)
EXTENDS Integers, Sequences, FiniteSets

CONSTANTS
    Sensors,            \* the sensor entries of tis that are kept
    sensor_delay,       \* their time_delay (LC_MAIN_T, PT_COMB_T, ...)
    preignite_us, hotflow_us, gitvc_wait_time,  \* from config.ini
    ignition_on, pressure_shutoff,              \* from config.ini
    SEND_TIME,          \* minimum time between two sends of one buffer
    SHUTOFF_GRACE,      \* the 1000000us of worker_visitor.cpp:135
    Budget,             \* bound: how often each command byte is sent
    MaxCommands,        \* bound: how many command bytes are sent in all
    AgeCap              \* bound: the age at which the clocks saturate

(* The order of tis: check_ti_list enqueues due items in this order. *)
slot == [lc_main |-> 0, lc1 |-> 1, lc2 |-> 2, lc3 |-> 3, pt_inje |-> 4,
         pt_comb |-> 5, pt_feed |-> 6, tc1 |-> 7, tc2 |-> 8, tc3 |-> 9,
         ign2 |-> 10, ign3 |-> 11, gitvc |-> 12]

SequenceItem == {"ign2", "ign3", "gitvc"}      \* the items without a buffer
SensorName == DOMAIN slot \ SequenceItem
Item == Sensors \cup SequenceItem

(* The bytes the base station sends; "other" is any byte without a case in *)
(* the visitor's visitProc.                                                *)
Command == DOMAIN Budget

Pin == {"MAIN_VALVE", "IGN_START", "WATER_VALVE", "GITVC_VALVE"}
Level == {"LOW", "HIGH"}

ASSUME SensorsAssumption == Sensors \subseteq SensorName
ASSUME DelayAssumption ==
    /\ sensor_delay \in [Sensors -> Nat]
    /\ preignite_us \in Nat /\ hotflow_us \in Nat /\ gitvc_wait_time \in Nat
    /\ SEND_TIME \in Nat /\ SHUTOFF_GRACE \in Nat
ASSUME FlagAssumption == ignition_on \in BOOLEAN /\ pressure_shutoff \in BOOLEAN
ASSUME BudgetAssumption == Budget \in [Command -> Nat] /\ MaxCommands \in Nat
ASSUME CommandAssumption == {"ign_normal", "unset_ignition", "other"} \subseteq Command
ASSUME CapAssumption ==
    /\ AgeCap \in Nat /\ AgeCap > SHUTOFF_GRACE
    /\ AgeCap > preignite_us /\ AgeCap > hotflow_us /\ AgeCap > gitvc_wait_time
    /\ \A s \in Sensors : AgeCap > sensor_delay[s]

VARIABLES
    qw,          \* the work queue
    scan,        \* the due items check_ti_list has still to enqueue
    enabled,     \* the enabled timed items
    age,         \* get_time() - scheduled, per item
    time_delay,  \* time_delay, per item
    pins,        \* the level of each output pin
    driver,      \* history: who wrote each pin last
    burn_on,
    burn_age,    \* get_time() - start_time_nitr
    lit_age,     \* history: the time since visitIgn, up to preignite_us + 1
    send_age,    \* get_time() - last_send, per sensor
    qn,          \* the sensors with an nq_send outstanding on the network queue
    connected,   \* nw_ref->connected, shared with the network thread
    socket,      \* whether connfd_tcp is an open connection
    sent         \* history: how often each command was received

timers == <<enabled, age, time_delay>>
gpio == <<pins, driver>>
burn == <<burn_on, burn_age, lit_age>>
telemetry == <<send_age, qn>>
link == <<connected, socket, sent>>
workerVars == <<qw, scan, timers, gpio, burn, telemetry, link>>

Process(c) == [action |-> "wq_process", arg |-> c]
Timed(i) == [action |-> "wq_timed", arg |-> i]
Ign1 == [action |-> "ign1", arg |-> "nil"]
None == [action |-> "wq_none", arg |-> "nil"]
WorkItem == {Process(c) : c \in Command} \cup {Timed(i) : i \in Item} \cup {Ign1, None}

Driver == {"init", "operator", "sequence", "shutoff"}

WorkerTypeOK ==
    /\ qw \in Seq(WorkItem)
    /\ scan \subseteq Item
    /\ enabled \subseteq Item
    /\ age \in [Item -> 0..AgeCap]
    /\ time_delay \in [Item -> 0..AgeCap]
    /\ pins \in [Pin -> Level]
    /\ driver \in [Pin -> Driver]
    /\ burn_on \in BOOLEAN
    /\ burn_age \in 0..AgeCap
    /\ lit_age \in 0..preignite_us + 1
    /\ send_age \in [Sensors -> 0..SEND_TIME + 1]
    /\ qn \subseteq Sensors
    /\ connected \in BOOLEAN
    /\ socket \in BOOLEAN
    /\ sent \in [Command -> Nat]

(* initialize_pins: everything off; the GITVC valve is active low. *)
initialize_pins == [p \in Pin |-> IF p = "GITVC_VALVE" THEN "HIGH" ELSE "LOW"]

sequence_delay == [ign2 |-> preignite_us, ign3 |-> hotflow_us, gitvc |-> gitvc_wait_time]

(* main, the constructors of timed_item_list and worker_visitor.  Time     *)
(* starts at 0 (set_base_time), as do scheduled, last_send and             *)
(* start_time_nitr.  `connected' is not initialised by network_worker's    *)
(* constructor: it is any boolean.                                         *)
WorkerInit ==
    /\ qw = <<>> /\ scan = {}
    /\ enabled = Sensors
    /\ age = [i \in Item |-> 0]
    /\ time_delay = [i \in Item |-> IF i \in Sensors THEN sensor_delay[i]
                                    ELSE sequence_delay[i]]
    /\ pins = initialize_pins
    /\ driver = [p \in Pin |-> "init"]
    /\ burn_on = FALSE /\ burn_age = 0 /\ lit_age = 0
    /\ send_age = [s \in Sensors |-> 0] /\ qn = {}
    /\ connected \in BOOLEAN /\ socket = FALSE
    /\ sent = [c \in Command |-> 0]

-----------------------------------------------------------------------------
(* Pins and timers.                                                        *)

(* bcm2835_gpio_write on the pins of `high' and of `low'. *)
gpio_write(who, high, low) ==
    /\ pins' = [p \in Pin |-> IF p \in high THEN "HIGH"
                              ELSE IF p \in low THEN "LOW" ELSE pins[p]]
    /\ driver' = [p \in Pin |-> IF p \in high \cup low THEN who ELSE driver[p]]

(* Mutant: enable() forgets to set scheduled. *)
set_timers_unscheduled(visited, on, off) ==
    /\ enabled' = (enabled \ off) \cup on
    /\ age' = [i \in Item |-> IF i \in visited THEN 0 ELSE age[i]]

(* The visited item and the items of `on' get scheduled = now; `on' is     *)
(* enabled and `off' disabled (timed_item_list::enable and ::disable).     *)
set_timers(visited, on, off) ==
    /\ enabled' = (enabled \ off) \cup on
    /\ age' = [i \in Item |-> IF i \in visited \cup on THEN 0 ELSE age[i]]

(* Mutants: the enabled flag is not tested; the loop stops two items short. *)
due_or_disabled(i) == age[i] > time_delay[i]
due_short(i) == slot[i] < 11 /\ i \in enabled /\ age[i] > time_delay[i]

(* check_ti_list's test of one item. *)
due(i) == i \in enabled /\ age[i] > time_delay[i]

-----------------------------------------------------------------------------
(* The worker thread.  It is at qw.poll() when scan is empty.              *)

polls(item) == scan = {} /\ qw # <<>> /\ item = Head(qw)

(* Mutant: the timers are scanned whatever is queued. *)
visitNone_eager ==
    /\ scan = {}
    /\ scan' = {i \in Item : due(i)}
    /\ UNCHANGED <<qw, timers, gpio, burn, telemetry, link>>

(* visitNone, on an empty queue or on the wq_none that an unknown command  *)
(* left in the queue: take the time and start check_ti_list's loop.        *)
visitNone ==
    /\ scan = {}
    /\ \/ qw = <<>> /\ qw' = qw
       \/ qw # <<>> /\ Head(qw) = None /\ qw' = Tail(qw)
    /\ scan' = {i \in Item : due(i)}
    /\ UNCHANGED <<timers, gpio, burn, telemetry, link>>

(* One iteration of check_ti_list's loop that enqueues.  Each enqueue      *)
(* takes the queue's mutex anew, so commands get in between; the test is   *)
(* not repeated, only the worker changes the timers.                       *)
check_ti_list ==
    /\ \E i \in scan :
          /\ \A j \in scan : slot[i] <= slot[j]
          /\ scan' = scan \ {i}
          /\ qw' = Append(qw, Timed(i))
    /\ UNCHANGED <<timers, gpio, burn, telemetry, link>>

(* Mutant: the abort forgets the main valve. *)
proc_writes_no_main ==
    [unset_valve |-> [high |-> {}, low |-> {"MAIN_VALVE"}],
     set_valve |-> [high |-> {"MAIN_VALVE"}, low |-> {}],
     unset_ignition |-> [high |-> {}, low |-> {"IGN_START"}],
     set_ignition |-> [high |-> {"IGN_START"}, low |-> {}]]

(* The pins worker_visitor::visitProc writes for a command. *)
proc_writes ==
    [unset_valve |-> [high |-> {}, low |-> {"MAIN_VALVE"}],
     set_valve |-> [high |-> {"MAIN_VALVE"}, low |-> {}],
     unset_ignition |-> [high |-> {}, low |-> {"IGN_START", "MAIN_VALVE"}],
     set_ignition |-> [high |-> {"IGN_START"}, low |-> {}]]

(* visitProc, given the subclass's cases as well: a command either writes  *)
(* pins, or is put back on the queue as ign1 or, unknown, as wq_none.      *)
worker_visitProc(c, subclass_writes) ==
    /\ polls(Process(c))
    /\ \/ /\ c \in DOMAIN subclass_writes
          /\ gpio_write("operator", subclass_writes[c].high, subclass_writes[c].low)
          /\ qw' = Tail(qw)
       \/ /\ c \in DOMAIN proc_writes \ DOMAIN subclass_writes
          /\ gpio_write("operator", proc_writes[c].high, proc_writes[c].low)
          /\ qw' = Tail(qw)
       \/ /\ c = "ign_normal"
          /\ qw' = Append(Tail(qw), Ign1)
          /\ UNCHANGED gpio
       \/ /\ c \notin DOMAIN subclass_writes \cup DOMAIN proc_writes \cup {"ign_normal"}
          /\ qw' = Append(Tail(qw), None)
          /\ UNCHANGED gpio
    /\ UNCHANGED <<scan, timers, burn, telemetry, link>>

(* Mutants: milliseconds taken for microseconds; the delays swapped. *)
ign_delays_ms == [time_delay EXCEPT !["ign2"] = 1000 * preignite_us, !["ign3"] = hotflow_us]
ign_delays_swapped == [time_delay EXCEPT !["ign2"] = hotflow_us, !["ign3"] = preignite_us]

ign_delays == [time_delay EXCEPT !["ign2"] = preignite_us, !["ign3"] = hotflow_us]

(* visitIgn: light the igniter and arm ign2. *)
visitIgn ==
    /\ polls(Ign1)
    /\ qw' = Tail(qw)
    /\ gpio_write("sequence", IF ignition_on THEN {"IGN_START"} ELSE {}, {})
    /\ set_timers({}, {"ign2"}, {})
    /\ time_delay' = ign_delays
    /\ lit_age' = 0
    /\ UNCHANGED <<scan, burn_on, burn_age, telemetry, link>>

(* The pressure shutoff of visitTimed: the chamber pressure is an input,   *)
(* so an average out of range may be seen at any reading.                  *)
shutoff_possible(s) ==
    s = "pt_comb" /\ pressure_shutoff /\ burn_on /\ burn_age > SHUTOFF_GRACE

(* Mutants: the shutoff leaves the GITVC valve, the main valve, or the     *)
(* burn as they are.                                                       *)
trip_shutoff_gitvc_left ==
    gpio_write("shutoff", {}, {"MAIN_VALVE", "IGN_START"}) /\ burn_on' = FALSE
trip_shutoff_main_left ==
    gpio_write("shutoff", {"GITVC_VALVE"}, {"IGN_START"}) /\ burn_on' = FALSE
trip_shutoff_burn_left ==
    gpio_write("shutoff", {"GITVC_VALVE"}, {"MAIN_VALVE", "IGN_START"}) /\ UNCHANGED burn_on

trip_shutoff ==
    gpio_write("shutoff", {"GITVC_VALVE"}, {"MAIN_VALVE", "IGN_START"}) /\ burn_on' = FALSE

(* The end of visitTimed: the reading has just been added to the buffer,   *)
(* so nbytes > 0; a send item is queued if the network says connected.     *)
send_reading(s) ==
    \/ /\ send_age[s] > SEND_TIME
       /\ send_age' = [send_age EXCEPT ![s] = 0]
       /\ qn' = IF connected THEN qn \cup {s} ELSE qn
    \/ /\ send_age[s] <= SEND_TIME
       /\ UNCHANGED telemetry

(* worker_visitor::visitTimed, the visit of a sensor's timed item. *)
worker_visitTimed(s) ==
    /\ polls(Timed(s))
    /\ qw' = Tail(qw)
    /\ set_timers({s}, {}, {})
    /\ \/ shutoff_possible(s) /\ trip_shutoff
       \/ UNCHANGED <<gpio, burn_on>>
    /\ send_reading(s)
    /\ UNCHANGED <<scan, time_delay, burn_age, lit_age, link>>

-----------------------------------------------------------------------------
(* The environment: the clock and the network thread.                      *)

(* get_time() advances by one unit. *)
Tick ==
    /\ age' = [i \in Item |-> IF age[i] < AgeCap THEN age[i] + 1 ELSE age[i]]
    /\ burn_age' = IF burn_age < AgeCap THEN burn_age + 1 ELSE burn_age
    /\ lit_age' = IF lit_age <= preignite_us THEN lit_age + 1 ELSE lit_age
    /\ send_age' = [s \in Sensors |-> IF send_age[s] <= SEND_TIME
                                      THEN send_age[s] + 1 ELSE send_age[s]]
    /\ UNCHANGED <<qw, scan, enabled, time_delay, gpio, burn_on, qn, link>>

(* main_network_worker's nq_recv: one byte read becomes one wq_process.    *)
Receive(c) ==
    /\ socket
    /\ sent[c] < Budget[c]
    /\ Cardinality(UNION {{d} \X (1..sent[d]) : d \in Command}) < MaxCommands
    /\ sent' = [sent EXCEPT ![c] = @ + 1]
    /\ qw' = Append(qw, Process(c))
    /\ UNCHANGED <<scan, timers, gpio, burn, telemetry, connected, socket>>

(* The network thread takes an nq_send off its queue. *)
TakeSend ==
    /\ \E s \in qn : qn' = qn \ {s}
    /\ UNCHANGED <<qw, scan, timers, gpio, burn, send_age, link>>

open_connection ==
    /\ ~connected
    /\ connected' = TRUE /\ socket' = TRUE
    /\ UNCHANGED <<qw, scan, timers, gpio, burn, telemetry, sent>>

fail_connection ==
    /\ socket
    /\ connected' = FALSE /\ socket' = FALSE
    /\ UNCHANGED <<qw, scan, timers, gpio, burn, telemetry, sent>>

Network ==
    \/ \E c \in Command : Receive(c)
    \/ TakeSend \/ open_connection \/ fail_connection

-----------------------------------------------------------------------------
(* Properties of the shared part, checked for both engines.                *)

Queued(item) == \E k \in 1..Len(qw) : qw[k] = item

Copies(item) == Cardinality({k \in 1..Len(qw) : qw[k] = item})

(* check_ti_list enqueues an item again while it is still queued only when *)
(* unknown commands have left several wq_none in the queue: an item is     *)
(* queued at most once, or once per unknown command received.              *)
TimedMultiplicity ==
    \A i \in Item : Copies(Timed(i)) <= 1 \/ Copies(Timed(i)) <= sent["other"]

(* A burn that is on has its deadline: ign3 is armed with the configured   *)
(* hotflow time, and its clock started together with start_time_nitr, from *)
(* which the pressure shutoff's grace period is measured.                  *)
BurnHasDeadline ==
    burn_on => /\ "ign3" \in enabled
               /\ time_delay["ign3"] = hotflow_us
               /\ age["ign3"] = burn_age

(* The igniter that visitIgn lit has a timer pending that will turn it     *)
(* off: ign2, which arms ign3, or ign3 itself.                             *)
IgniterAccounted ==
    (pins["IGN_START"] = "HIGH" /\ driver["IGN_START"] = "sequence")
        => {"ign2", "ign3"} \cap enabled # {}

(* The operator's abort is served: an unset_ignition received is executed, *)
(* whatever is queued before it, and turns off igniter and main valve.     *)
AbortServed ==
    Queued(Process("unset_ignition")) ~>
        \A p \in {"IGN_START", "MAIN_VALVE"} : pins[p] = "LOW" /\ driver[p] = "operator"

=============================================================================
