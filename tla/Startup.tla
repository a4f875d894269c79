------------------------------ MODULE Startup ------------------------------
(***************************************************************************)
(* main: reading and checking the configuration, setting the pins, SPI,    *)
(* the exit handler and the converters, and, once the threads run, the     *)
(* sensor readings of the worker thread.                                   *)
(*                                                                         *)
(* A configuration file is a function on the options it sets; the ones     *)
(* main looks at and the ones that are required are kept, the fractions    *)
(* among them as integers.                                                 *)
(***************************************************************************)
EXTENDS AdcBlock, Sequences

CONSTANTS
    File,           \* the configuration files considered
    Leftover,       \* the pin levels an earlier process may have left
    INT_MAX,        \* the largest int; unsigned wraps at 2 * (INT_MAX + 1)
    MS,             \* microseconds per millisecond, 1000
    PREIGNITE_MAX,  \* the 5000000 of main.cpp:86
    HOTFLOW_MAX     \* the 15000000 of main.cpp:91

Option == {"Port", "engine_type", "Preignite_ms", "Hotflow_ms",
           "Ignition_on", "Pressure_slope", "Pressure_yint"}
Level == {"LOW", "HIGH"}

MAIN_VALVE == 11
WATER_VALVE == 13
VALVE_3 == 15
GITVC_VALVE == 16
IGN_START == 15
TANK == 16
VENT == 13
OutputPin == {MAIN_VALVE, WATER_VALVE, GITVC_VALVE, IGN_START}
Pin == OutputPin \cup SelectPin

ASSUME StartupAssumption ==
    /\ \A f \in File : DOMAIN f \subseteq Option /\ \A o \in DOMAIN f : f[o] \in Int
    /\ Leftover \subseteq [Pin -> Level]
    /\ INT_MAX \in Nat /\ MS \in Nat \ {0} /\ PREIGNITE_MAX \in Nat /\ HOTFLOW_MAX \in Nat

VARIABLES
    pc,         \* how far main has come
    file,       \* the configuration file
    options,    \* the options as init_config stored them
    preignite_us, hotflow_us,
    pins,       \* the level of each pin
    exit_fun    \* whether initialize_pins is registered with atexit

vars == <<pc, file, options, preignite_us, hotflow_us, pins, exit_fun, adcVars>>

int == -(INT_MAX + 1)..INT_MAX
wrap(x) == ((x + INT_MAX + 1) % (2 * (INT_MAX + 1))) - (INT_MAX + 1)

Stage == {"args", "config", "convert", "preignite", "hotflow", "port", "bcm", "pins",
          "spi", "atexit", "adcs", "test1", "test2", "running",
          "returned", "terminated"}

TypeOK ==
    /\ pc \in Stage /\ file \in File
    /\ options \in [Option -> Int]
    /\ preignite_us \in int /\ hotflow_us \in int
    /\ pins \in [Pin -> Level]
    /\ exit_fun \in BOOLEAN
    /\ adc_cs_pin \in [0..2 -> SelectPin]
    /\ reading = <<>> \/ reading \in [pin : SelectPin, channel : Channel, value : Value]

Init ==
    /\ pc = "args" /\ file \in File
    /\ options = [o \in Option |-> 0]
    /\ preignite_us = 0 /\ hotflow_us = 0
    /\ pins \in Leftover
    /\ exit_fun = FALSE
    /\ adc_cs_pin = adc_block(3) /\ reading = <<>>

-----------------------------------------------------------------------------
(* The configuration.                                                      *)

required == Option \ {"engine_type"}
default == [engine_type |-> 0]

(* Values that boost::program_options refuses: a number that is no int or  *)
(* no bool; a negative number is accepted for the unsigned port, and       *)
(* wraps.                                                                  *)
refused(f) ==
    \E o \in DOMAIN f :
        CASE o = "Port" -> f[o] \notin -(2 * INT_MAX + 1)..2 * INT_MAX + 1
          [] o \in {"engine_type", "Preignite_ms", "Hotflow_ms"} -> f[o] \notin int
          [] o = "Ignition_on" -> f[o] \notin {0, 1}
          [] OTHER -> FALSE

(* init_config: an exception nobody catches, or every option stored. *)
init_config ==
    /\ pc = "config"
    /\ \/ /\ ~(required \subseteq DOMAIN file) \/ refused(file)
          /\ pc' = "terminated" /\ UNCHANGED options
       \/ /\ required \subseteq DOMAIN file /\ ~refused(file)
          /\ pc' = "convert"
          /\ options' = [o \in Option |->
                            IF o = "Port" THEN file[o] % (2 * (INT_MAX + 1))
                            ELSE IF o \in DOMAIN file THEN file[o] ELSE default[o]]
    /\ UNCHANGED <<file, preignite_us, hotflow_us, pins, exit_fun, adcVars>>

(* Mutant: the product is taken in a wider type. *)
to_us_wide(ms) == MS * ms

(* ms * 1000 in an int. *)
to_us(ms) == wrap(MS * ms)

convert ==
    /\ pc = "convert" /\ pc' = "preignite"
    /\ preignite_us' = to_us(options["Preignite_ms"])
    /\ hotflow_us' = to_us(options["Hotflow_ms"])
    /\ UNCHANGED <<file, options, pins, exit_fun, adcVars>>

(* Mutant: a negative hotflow time is not refused. *)
bad_hotflow_large == options["Hotflow_ms"] > HOTFLOW_MAX

bad_preignite == preignite_us < 0 \/ preignite_us > PREIGNITE_MAX
bad_hotflow == options["Hotflow_ms"] < 0 \/ options["Hotflow_ms"] > HOTFLOW_MAX
bad_port == options["Port"] <= 0

(* One of main's steps that either goes on or returns 1. *)
checks(stage, bad, next) ==
    /\ pc = stage
    /\ pc' = IF bad THEN "returned" ELSE next
    /\ UNCHANGED <<file, options, preignite_us, hotflow_us, pins, exit_fun, adcVars>>

(* Without an argument there is no file name. *)
check_args == \E missing \in BOOLEAN : checks("args", missing, "config")

check_options ==
    \/ checks("preignite", bad_preignite, "hotflow")
    \/ checks("hotflow", bad_hotflow, "port")
    \/ checks("port", bad_port, "bcm")

-----------------------------------------------------------------------------
(* The hardware.                                                           *)

(* The writes of initialize_pins and of titan_initialize_pins, in order.   *)
initialize_pins ==
    << <<ADC_0_CS, "HIGH">>, <<ADC_1_CS, "HIGH">>, <<ADC_2_CS, "HIGH">>,
       <<MAIN_VALVE, "LOW">>, <<WATER_VALVE, "LOW">>, <<VALVE_3, "LOW">>,
       <<GITVC_VALVE, "HIGH">>, <<IGN_START, "LOW">> >>

(* Mutant: TANK is taken to be off when LOW, and only that write is left. *)
titan_initialize_pins_tank_low ==
    << <<ADC_0_CS, "HIGH">>, <<ADC_1_CS, "HIGH">>, <<ADC_2_CS, "HIGH">>,
       <<MAIN_VALVE, "LOW">>, <<VENT, "LOW">>, <<TANK, "LOW">>, <<IGN_START, "LOW">> >>

titan_initialize_pins ==
    << <<ADC_0_CS, "HIGH">>, <<ADC_1_CS, "HIGH">>, <<ADC_2_CS, "HIGH">>,
       <<MAIN_VALVE, "LOW">>, <<VENT, "LOW">>, <<TANK, "HIGH">>,
       <<GITVC_VALVE, "HIGH">>, <<IGN_START, "LOW">> >>

(* The levels after a sequence of writes: the last write of a pin counts. *)
after(writes, levels) ==
    [p \in Pin |->
        LET to_p == {k \in DOMAIN writes : writes[k][1] = p} IN
        IF to_p = {} THEN levels[p]
        ELSE writes[CHOOSE k \in to_p : \A j \in to_p : j <= k][2]]

(* bcm2835_init may fail. *)
bcm_init == \E fails \in BOOLEAN : checks("bcm", fails, "pins")

init_pins ==
    /\ pc = "pins"
    /\ \/ options["engine_type"] = 0 /\ pins' = after(initialize_pins, pins) /\ pc' = "spi"
       \/ options["engine_type"] = 1 /\ pins' = after(titan_initialize_pins, pins) /\ pc' = "spi"
       \/ options["engine_type"] \notin {0, 1} /\ UNCHANGED pins /\ pc' = "returned"
    /\ UNCHANGED <<file, options, preignite_us, hotflow_us, exit_fun, adcVars>>

(* bcm2835_spi_begin may fail. *)
initialize_spi == \E fails \in BOOLEAN : checks("spi", fails, "atexit")

register_exit ==
    /\ pc = "atexit"
    /\ \/ exit_fun' = TRUE /\ pc' = "adcs"
       \/ exit_fun' = FALSE /\ pc' = "returned"
    /\ UNCHANGED <<file, options, preignite_us, hotflow_us, pins, adcVars>>

register_pin ==
    /\ pc = "adcs" /\ pc' = "test1"
    /\ adc_cs_pin' = [adc_cs_pin EXCEPT ![0] = ADC_0_CS, ![1] = ADC_1_CS, ![2] = ADC_2_CS]
    /\ UNCHANGED <<file, options, preignite_us, hotflow_us, pins, exit_fun, reading>>

reads(pin, channel) ==
    /\ read_item(pin, TRUE, channel)
    /\ UNCHANGED <<file, options, preignite_us, hotflow_us, pins, exit_fun>>

(* The two test reads, of converter 2 and of the load cells' converter. *)
test_adcs ==
    \/ pc = "test1" /\ pc' = "test2" /\ reads(adc_cs_pin[2], 0)
    \/ pc = "test2" /\ pc' = "running" /\ reads(ADC_2_CS, 0)

(* The adc_info of the sensors in timed_item_list: converter and channel. *)
adc_info ==
    [lc_main |-> <<ADC_2_CS, 0>>, lc1 |-> <<ADC_2_CS, 1>>, lc2 |-> <<ADC_2_CS, 3>>,
     lc3 |-> <<ADC_2_CS, 4>>, pt_inje |-> <<ADC_1_CS, 1>>, pt_comb |-> <<ADC_1_CS, 2>>,
     pt_feed |-> <<ADC_1_CS, 0>>, tc1 |-> <<ADC_1_CS, 4>>, tc2 |-> <<ADC_1_CS, 5>>,
     tc3 |-> <<ADC_1_CS, 6>>]

(* The worker thread reads a sensor. *)
read_sensor(s) ==
    /\ pc = "running" /\ UNCHANGED pc
    /\ reads(adc_info[s][1], adc_info[s][2])

main ==
    \/ check_args \/ init_config \/ convert \/ check_options
    \/ bcm_init \/ init_pins \/ initialize_spi \/ register_exit
    \/ register_pin \/ test_adcs

Next == main \/ \E s \in DOMAIN adc_info : read_sensor(s)

Spec == Init /\ [][Next]_vars

-----------------------------------------------------------------------------
(* A configuration that was accepted is timed exactly, and no delay is     *)
(* negative, as long as its times fit into an int of microseconds.  The    *)
(* check of the hotflow time alone does not show this: it is made on the   *)
(* milliseconds, after the conversion.                                     *)
Fits(ms) == ms \in -(INT_MAX \div MS)..INT_MAX \div MS
TimesExact ==
    pc = "running" /\ Fits(options["Preignite_ms"]) /\ Fits(options["Hotflow_ms"]) =>
        /\ preignite_us = MS * options["Preignite_ms"] /\ preignite_us \in 0..PREIGNITE_MAX
        /\ hotflow_us = MS * options["Hotflow_ms"] /\ hotflow_us >= 0

(* Whatever an earlier process left the pins at, and whichever the engine, *)
(* the threads start with every output off, and the exit handler, which is *)
(* Luna's for both engines, brings every state of the pins back to that.   *)
ExitRestores ==
    pc = "running" =>
        /\ exit_fun
        /\ \A p \in OutputPin : pins[p] = IF p = GITVC_VALVE THEN "HIGH" ELSE "LOW"
        /\ \A levels \in Leftover : after(initialize_pins, levels) = pins

(* Every reading is the 12 bit value measured at the channel that was      *)
(* asked for, of the converter that was asked for, whatever the undefined  *)
(* bits of the reply are.                                                  *)
ReadingExact == reading = <<>> \/ reading.value = signal[reading.pin][reading.channel]

=============================================================================
