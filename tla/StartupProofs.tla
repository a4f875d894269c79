--------------------------- MODULE StartupProofs ---------------------------
(***************************************************************************)
(* Proofs about Startup and AdcBlock: for every width of int, every limit, *)
(* every configuration file and every value a converter may measure.       *)
(***************************************************************************)
EXTENDS Startup, TLAPS

-----------------------------------------------------------------------------
(* Readings.                                                               *)

(* The shift, the mask and the byte swap of read_item give back the twelve *)
(* bits of the value, whatever the undefined bits of the reply are: with   *)
(* the value cut into 4, 2 and 6 bits, each piece ends where it belongs.   *)
LEMMA DecodeExact ==
    ASSUME NEW p \in SelectPin, NEW cmd \in Nat, NEW noise \in (0..3) \X (0..3)
    PROVE  bswap_16(load(align(reply(p, cmd, noise)))) = signal[p][cmd % 8]
<1>1. PICK v \in Value : v = signal[p][cmd % 8]
  <2>1. cmd % 8 \in Channel
    BY DEF Channel
  <2> QED
    BY <2>1, AdcAssumption
<1>0. v \in Nat /\ v <= 4095
  BY DEF Value
<1>2. PICK n1 \in 0..3, n2 \in 0..3 : noise = <<n1, n2>>
  OBVIOUS
<1>3. PICK a \in 0..15, b \in 0..3, c \in 0..63 : v = (a * 4 + b) * 64 + c
  <2>1. PICK x \in Nat, c \in 0..63 : v = x * 64 + c
    <3>1. v \div 64 \in Nat /\ v % 64 \in 0..63 /\ v = (v \div 64) * 64 + (v % 64)
      BY <1>0
    <3> QED
      BY <3>1
  <2>2. PICK a \in Nat, b \in 0..3 : x = a * 4 + b
    <3>1. x \div 4 \in Nat /\ x % 4 \in 0..3 /\ x = (x \div 4) * 4 + (x % 4)
      OBVIOUS
    <3> QED
      BY <3>1
  <2>3. a \in 0..15
    <3>2. x * 64 <= 4095
      BY <1>0, <2>1
    <3>3. x <= 63
      BY <3>2
    <3>4. a * 4 <= 63
      BY <2>2, <3>3
    <3> QED
      BY <3>4
  <2> QED
    BY <2>1, <2>2, <2>3
<1>4. v \div 64 = a * 4 + b /\ v % 64 = c
  <2>1. PICK x \in Nat : x = a * 4 + b
    OBVIOUS
  <2>2. (x * 64 + c) \div 64 = x /\ (x * 64 + c) % 64 = c
    OBVIOUS
  <2> QED
    BY <1>3, <2>1, <2>2
<1>5. reply(p, cmd, noise) = <<0, (n1 * 16 + a) * 4 + b, c * 4 + n2>>
  <2>1. n1 * 64 + (a * 4 + b) = (n1 * 16 + a) * 4 + b
    OBVIOUS
  <2>2. noise[1] = n1 /\ noise[2] = n2
    BY <1>2
  <2>3. reply(p, cmd, noise) = <<0, noise[1] * 64 + v \div 64, (v % 64) * 4 + noise[2]>>
    BY <1>1 DEF reply
  <2> QED
    BY <1>4, <2>1, <2>2, <2>3
<1>6. align(reply(p, cmd, noise)) = <<0, a, c + b * 64>>
  <2>1. /\ ((n1 * 16 + a) * 4 + b) \div 4 = n1 * 16 + a
        /\ ((n1 * 16 + a) * 4 + b) % 4 = b
    OBVIOUS
  <2>2. (n1 * 16 + a) % 16 = a
    OBVIOUS
  <2>3. (c * 4 + n2) \div 4 = c
    OBVIOUS
  <2>4. (c + b * 64) % 256 = c + b * 64
    OBVIOUS
  <2> QED
    BY <1>5, <2>1, <2>2, <2>3, <2>4 DEF align
<1>7. bswap_16((c + b * 64) * 256 + a) = a * 256 + (c + b * 64)
  <2>0. PICK x \in Nat : x = c + b * 64
    OBVIOUS
  <2>1. (x * 256 + a) \div 256 = x /\ (x * 256 + a) % 256 = a
    OBVIOUS
  <2> QED
    BY <2>0, <2>1 DEF bswap_16
<1>8. a + 256 * (c + b * 64) = (c + b * 64) * 256 + a /\ a * 256 + (c + b * 64) = v
  BY <1>3
<1>9. load(<<0, a, c + b * 64>>) = a + 256 * (c + b * 64)
  BY DEF load
<1>10. load(align(reply(p, cmd, noise))) = (c + b * 64) * 256 + a
  BY <1>6, <1>8, <1>9
<1> QED
  BY <1>1, <1>7, <1>8, <1>10

(* A single-ended read of a channel returns what that channel measures. *)
LEMMA ReadExact ==
    ASSUME NEW pin \in SelectPin, NEW channel \in Channel, read_item(pin, TRUE, channel)
    PROVE  /\ reading' = [pin |-> pin, channel |-> channel, value |-> signal[pin][channel]]
           /\ UNCHANGED adc_cs_pin
<1>1. selected(pin) = {pin}
  BY DEF selected, chipSelect, SelectPin, SPI_CS_0, SPI_CS_1, ADC_0_CS, ADC_1_CS, ADC_2_CS
<1>2. channel % 8 = channel /\ command(TRUE, channel) % 8 = channel /\ command(TRUE, channel) \in Nat
  BY DEF command, Channel
<1>3. PICK noise \in Noise :
         reading' = [pin |-> pin, channel |-> channel,
                     value |-> bswap_16(load(align(reply(pin, command(TRUE, channel), noise))))]
  BY <1>1, <1>2 DEF read_item
<1>4. noise \in (0..3) \X (0..3)
  BY AdcAssumption
<1> QED
  BY <1>2, <1>3, <1>4, DecodeExact DEF read_item

-----------------------------------------------------------------------------
(* Pins.                                                                   *)

(* A pin has the level of the last write to it. *)
LEMMA AfterLast ==
    ASSUME NEW writes, NEW levels, NEW p \in Pin, NEW k \in DOMAIN writes, DOMAIN writes \subseteq Nat,
           writes[k][1] = p, \A j \in DOMAIN writes : j > k => writes[j][1] # p
    PROVE  after(writes, levels)[p] = writes[k][2]
<1> DEFINE to_p == {j \in DOMAIN writes : writes[j][1] = p}
<1>1. k \in to_p /\ \A j \in to_p : j <= k
  OBVIOUS
<1>2. \A i \in to_p : (\A j \in to_p : j <= i) => i = k
  BY <1>1
<1>3. (CHOOSE i \in to_p : \A j \in to_p : j <= i) = k
  BY <1>1, <1>2
<1> QED
  BY <1>1, <1>3 DEF after

(* Every pin off: the valve of GITVC and the chip selects are active low. *)
off == [p \in Pin |-> IF p \in SelectPin \cup {GITVC_VALVE} THEN "HIGH" ELSE "LOW"]

(* Both engines' functions, and so the exit handler, turn every output off *)
(* whatever the levels were before.                                        *)
LEMMA AllOff ==
    ASSUME NEW levels
    PROVE  after(initialize_pins, levels) = off /\ after(titan_initialize_pins, levels) = off
<1> USE DEF Pin, OutputPin, SelectPin, MAIN_VALVE, WATER_VALVE, VALVE_3, GITVC_VALVE, IGN_START,
        TANK, VENT, ADC_0_CS, ADC_1_CS, ADC_2_CS
<1> DEFINE row(p) == IF p = 26 THEN 1 ELSE IF p = 24 THEN 2 ELSE IF p = 22 THEN 3
                     ELSE IF p = 11 THEN 4 ELSE IF p = 13 THEN 5 ELSE IF p = 16 THEN 7 ELSE 8
<1>1. ASSUME NEW p \in Pin
      PROVE  after(initialize_pins, levels)[p] = off[p]
  <2>1. /\ row(p) \in DOMAIN initialize_pins /\ DOMAIN initialize_pins \subseteq Nat
        /\ initialize_pins[row(p)][1] = p
        /\ initialize_pins[row(p)][2] = off[p]
        /\ \A j \in DOMAIN initialize_pins : j > row(p) => initialize_pins[j][1] # p
    BY DEF initialize_pins, off
  <2> HIDE DEF row
  <2> QED
    BY <2>1, AfterLast
<1>2. ASSUME NEW p \in Pin
      PROVE  after(titan_initialize_pins, levels)[p] = off[p]
  <2>1. /\ row(p) \in DOMAIN titan_initialize_pins /\ DOMAIN titan_initialize_pins \subseteq Nat
        /\ titan_initialize_pins[row(p)][1] = p
        /\ titan_initialize_pins[row(p)][2] = off[p]
        /\ \A j \in DOMAIN titan_initialize_pins : j > row(p) => titan_initialize_pins[j][1] # p
    BY DEF titan_initialize_pins, off
  <2> HIDE DEF row
  <2> QED
    BY <2>1, AfterLast
<1> QED
  BY <1>1, <1>2 DEF after, off

-----------------------------------------------------------------------------
(* Arithmetic of int.                                                      *)

LEMMA WrapType ==
    ASSUME NEW x \in Int
    PROVE  wrap(x) \in int
<1> DEFINE m == INT_MAX + 1
<1>1. m \in Nat /\ m > 0
  BY StartupAssumption
<1>2. ASSUME NEW a \in Int, NEW b \in Nat, b > 0
      PROVE  a % b \in 0..b - 1
  BY <1>2
<1>3. ((x + m) % (2 * m)) \in 0..2 * m - 1
  BY <1>1, <1>2
<1>4. wrap(x) = ((x + m) % (2 * m)) - m
  BY <1>1, StartupAssumption DEF wrap
<1> QED
  BY <1>1, <1>3, <1>4, StartupAssumption DEF int

(* A product that fits into an int is not changed. *)
LEMMA WrapExact ==
    ASSUME NEW x \in int
    PROVE  wrap(x) = x
<1> DEFINE m == INT_MAX + 1
<1>1. m \in Nat /\ m > 0 /\ x \in Int /\ 0 <= x + m /\ x + m < 2 * m
  BY StartupAssumption DEF int
<1>2. ASSUME NEW a \in Int, NEW b \in Nat, b > 0, 0 <= a, a < b
      PROVE  a % b = a
  BY <1>2
<1>3. (x + m) % (2 * m) = x + m
  BY <1>1, <1>2
<1>4. wrap(x) = ((x + m) % (2 * m)) - m
  BY <1>1, StartupAssumption DEF wrap
<1> QED
  BY <1>1, <1>3, <1>4

(* The conversion is exact for the times that fit. *)
LEMMA FitsExact ==
    ASSUME NEW ms \in Int, Fits(ms)
    PROVE  to_us(ms) = MS * ms
<1> DEFINE q == INT_MAX \div MS
<1>1. MS \in Nat /\ MS > 0 /\ INT_MAX \in Nat
  BY StartupAssumption
<1>2. ASSUME NEW a \in Nat, NEW b \in Nat, b > 0
      PROVE  a \div b \in Nat /\ b * (a \div b) <= a
  BY <1>2
<1>3. q \in Nat /\ MS * q <= INT_MAX
  BY <1>1, <1>2
<1> HIDE DEF q
<1>4. -q <= ms /\ ms <= q
  BY <1>3 DEF Fits, q
<1>5. ASSUME NEW b \in Nat, NEW x \in Int, NEW y \in Int, x <= y
      PROVE  b * x <= b * y
  BY <1>5
<1>6. MS * ms <= MS * q /\ MS * (-q) <= MS * ms
  BY <1>1, <1>3, <1>4, <1>5
<1>7. MS * (-q) = -(MS * q)
  BY <1>1, <1>3
<1>8. MS * ms \in Int /\ MS * q \in Int
  BY <1>1, <1>3
<1>9. MS * ms \in int
  BY <1>1, <1>3, <1>6, <1>7, <1>8 DEF int
<1> QED
  BY <1>9, WrapExact DEF to_us

-----------------------------------------------------------------------------
(* The invariant.                                                          *)

Ready == {"adcs", "test1", "test2", "running"}
PinsSet == {"spi", "atexit"} \cup Ready
HotflowChecked == {"port", "bcm", "pins"} \cup PinsSet
PreigniteChecked == {"hotflow"} \cup HotflowChecked
Converted == {"preignite"} \cup PreigniteChecked

(* What main has established by each stage, with the checks as the code    *)
(* makes them: the hotflow time in milliseconds.                           *)
TimesInv ==
    /\ pc \in Converted => /\ preignite_us = to_us(options["Preignite_ms"])
                           /\ hotflow_us = to_us(options["Hotflow_ms"])
    /\ pc \in PreigniteChecked => ~bad_preignite
    /\ pc \in HotflowChecked => ~bad_hotflow

PinsInv ==
    /\ pc \in PinsSet => pins = off
    /\ pc \in Ready => exit_fun = TRUE

(* The last reading is a whole record of a converter, a channel and what   *)
(* is measured there.                                                      *)
ReadingInv ==
    \/ reading = <<>>
    \/ \E pin \in SelectPin, channel \in Channel :
          reading = [pin |-> pin, channel |-> channel, value |-> signal[pin][channel]]

ConfigType ==
    /\ pc \in Stage /\ file \in File
    /\ options \in [Option -> Int]
    /\ preignite_us \in int /\ hotflow_us \in int

BoardType ==
    /\ pins \in [Pin -> Level]
    /\ exit_fun \in BOOLEAN
    /\ adc_cs_pin \in [0..2 -> SelectPin]

IInv == ConfigType /\ BoardType /\ TimesInv /\ PinsInv /\ ReadingInv

LEMMA OffType == off \in [Pin -> Level]
  BY DEF off, Level

LEMMA InitInv == Init => IInv
<1> SUFFICES ASSUME Init PROVE IInv
  OBVIOUS
<1>1. ConfigType
  BY StartupAssumption DEF Init, ConfigType, Stage, int
<1>2. pins \in [Pin -> Level] /\ exit_fun \in BOOLEAN
  BY StartupAssumption DEF Init
<1>3. adc_cs_pin \in [0..2 -> SelectPin]
  BY DEF Init, adc_block, SelectPin, SPI_CS_0, ADC_1_CS
<1>4. TimesInv /\ PinsInv /\ ReadingInv
  BY DEF Init, TimesInv, PinsInv, ReadingInv, Converted, PreigniteChecked, HotflowChecked,
         PinsSet, Ready
<1> QED
  BY <1>1, <1>2, <1>3, <1>4 DEF IInv, BoardType

(* A check goes on to the next stage only when its condition is false. *)
LEMMA ChecksInv ==
    ASSUME IInv, NEW stage, NEW next \in Stage, NEW bad \in BOOLEAN, checks(stage, bad, next),
           next \in Ready => stage \in Ready,
           next \in PinsSet => stage \in PinsSet,
           next \in HotflowChecked => stage \in HotflowChecked \/ ~bad_hotflow \/ bad,
           next \in PreigniteChecked => stage \in PreigniteChecked \/ ~bad_preignite \/ bad,
           next \in Converted => stage \in Converted
    PROVE  IInv'
<1>1. UNCHANGED <<file, options, preignite_us, hotflow_us, pins, exit_fun, adc_cs_pin, reading>>
  BY DEF checks, adcVars
<1>2. pc = stage /\ pc' \in {"returned", next} /\ (bad => pc' = "returned")
  BY DEF checks
<1>3. pc' \in Stage
  BY <1>2 DEF Stage
<1>4. ConfigType' /\ BoardType' /\ ReadingInv'
  BY <1>1, <1>3 DEF IInv, ConfigType, BoardType, ReadingInv
<1>5. "returned" \notin Converted \cup PreigniteChecked \cup HotflowChecked \cup PinsSet \cup Ready
  BY DEF Converted, PreigniteChecked, HotflowChecked, PinsSet, Ready
<1>6. PinsInv'
  BY <1>1, <1>2, <1>5 DEF IInv, PinsInv
<1>7. bad_preignite' = bad_preignite /\ bad_hotflow' = bad_hotflow
  BY <1>1 DEF bad_preignite, bad_hotflow
<1>8. (pc \in Converted) \/ ~(pc' \in Converted)
  BY <1>2, <1>5
<1>9. pc' \in Converted => /\ preignite_us' = to_us(options["Preignite_ms"])'
                           /\ hotflow_us' = to_us(options["Hotflow_ms"])'
  BY <1>1, <1>8 DEF IInv, TimesInv
<1>10. (pc' \in PreigniteChecked => ~bad_preignite) /\ (pc' \in HotflowChecked => ~bad_hotflow)
  BY <1>2, <1>5 DEF IInv, TimesInv
<1> QED
  BY <1>4, <1>6, <1>7, <1>9, <1>10 DEF IInv, TimesInv

(* A read leaves the configuration and the pins alone. *)
LEMMA ReadsInv ==
    ASSUME IInv, NEW pin \in SelectPin, NEW channel \in Channel, reads(pin, channel),
           pc \in Ready, pc' \in Ready
    PROVE  IInv'
<1>1. UNCHANGED <<file, options, preignite_us, hotflow_us, pins, exit_fun>>
  BY DEF reads
<1>2. /\ reading' = [pin |-> pin, channel |-> channel, value |-> signal[pin][channel]]
      /\ UNCHANGED adc_cs_pin
  BY ReadExact DEF reads
<1>3. ReadingInv'
  BY <1>2 DEF ReadingInv
<1>4. ConfigType' /\ BoardType'
  BY <1>1, <1>2 DEF IInv, ConfigType, BoardType, Ready, Stage
<1>5. PinsInv'
  BY <1>1 DEF IInv, PinsInv, PinsSet
<1>6. TimesInv'
  BY <1>1 DEF IInv, TimesInv, Converted, PreigniteChecked, HotflowChecked, PinsSet,
          bad_preignite, bad_hotflow
<1> QED
  BY <1>3, <1>4, <1>5, <1>6 DEF IInv

LEMMA NextInv == IInv /\ [Next]_vars => IInv'
<1> USE DEF IInv
<1> SUFFICES ASSUME IInv, [Next]_vars PROVE IInv'
  OBVIOUS
<1>1. CASE check_args
  <2>1. PICK missing \in BOOLEAN : checks("args", missing, "config")
    BY <1>1 DEF check_args
  <2> QED
    BY <2>1, ChecksInv DEF Stage, Converted, PreigniteChecked, HotflowChecked, PinsSet, Ready
<1>2. CASE init_config
  <2>1. UNCHANGED <<file, preignite_us, hotflow_us, pins, exit_fun, adc_cs_pin, reading>>
    BY <1>2 DEF init_config, adcVars
  <2>2. pc' \in {"terminated", "convert"}
    BY <1>2 DEF init_config
  <2>3. options' \in [Option -> Int]
    <3>1. CASE UNCHANGED options
      BY <3>1 DEF ConfigType
    <3>2. CASE /\ required \subseteq DOMAIN file
               /\ options' = [o \in Option |->
                                 IF o = "Port" THEN file[o] % (2 * (INT_MAX + 1))
                                 ELSE IF o \in DOMAIN file THEN file[o] ELSE default[o]]
      <4>1. \A o \in DOMAIN file : file[o] \in Int
        BY StartupAssumption DEF ConfigType
      <4>2. "Port" \in DOMAIN file
        BY <3>2 DEF required, Option
      <4>3. 2 * (INT_MAX + 1) \in Nat /\ 2 * (INT_MAX + 1) > 0
        BY StartupAssumption
      <4>4. file["Port"] % (2 * (INT_MAX + 1)) \in Int
        <5>1. ASSUME NEW a \in Int, NEW b \in Nat, b > 0 PROVE a % b \in Int
          BY <5>1
        <5> QED
          BY <4>1, <4>2, <4>3, <5>1
      <4>5. ASSUME NEW o \in Option \ DOMAIN file PROVE default[o] \in Int
        BY <3>2, <4>5 DEF Option, required, default
      <4> QED
        BY <3>2, <4>1, <4>4, <4>5
    <3> QED
      BY <1>2, <3>1, <3>2 DEF init_config
  <2>4. ConfigType'
    BY <2>1, <2>2, <2>3 DEF ConfigType, Stage
  <2>5. BoardType' /\ ReadingInv'
    BY <2>1 DEF BoardType, ReadingInv
  <2>6. TimesInv' /\ PinsInv'
    BY <2>2 DEF TimesInv, PinsInv, Converted, PreigniteChecked, HotflowChecked, PinsSet, Ready
  <2> QED
    BY <2>4, <2>5, <2>6
<1>3. CASE convert
  <2>1. /\ UNCHANGED <<file, options, pins, exit_fun, adc_cs_pin, reading>>
        /\ preignite_us' = to_us(options["Preignite_ms"])
        /\ hotflow_us' = to_us(options["Hotflow_ms"])
        /\ pc' = "preignite"
    BY <1>3 DEF convert, adcVars
  <2>2. MS * options["Preignite_ms"] \in Int /\ MS * options["Hotflow_ms"] \in Int
    BY StartupAssumption DEF ConfigType, Option
  <2>3. preignite_us' \in int /\ hotflow_us' \in int
    BY <2>1, <2>2, WrapType DEF to_us
  <2>4. ConfigType' /\ BoardType' /\ ReadingInv'
    BY <2>1, <2>3 DEF ConfigType, BoardType, ReadingInv, Stage
  <2>5. TimesInv'
    BY <2>1 DEF TimesInv, PreigniteChecked, HotflowChecked, PinsSet, Ready
  <2>6. PinsInv'
    BY <2>1 DEF PinsInv, PinsSet, Ready
  <2> QED
    BY <2>4, <2>5, <2>6
<1>4. CASE check_options
  <2> USE DEF Stage, Converted, PreigniteChecked, HotflowChecked, PinsSet, Ready
  <2>0. bad_preignite \in BOOLEAN /\ bad_hotflow \in BOOLEAN /\ bad_port \in BOOLEAN
    BY DEF bad_preignite, bad_hotflow, bad_port
  <2>1. CASE checks("preignite", bad_preignite, "hotflow")
    BY <2>0, <2>1, ChecksInv
  <2>2. CASE checks("hotflow", bad_hotflow, "port")
    BY <2>0, <2>2, ChecksInv
  <2>3. CASE checks("port", bad_port, "bcm")
    BY <2>0, <2>3, ChecksInv
  <2> QED
    BY <1>4, <2>1, <2>2, <2>3 DEF check_options
<1>5. CASE bcm_init
  <2>1. PICK fails \in BOOLEAN : checks("bcm", fails, "pins")
    BY <1>5 DEF bcm_init
  <2> QED
    BY <2>1, ChecksInv DEF Stage, Converted, PreigniteChecked, HotflowChecked, PinsSet, Ready
<1>6. CASE init_pins
  <2>1. UNCHANGED <<file, options, preignite_us, hotflow_us, exit_fun, adc_cs_pin, reading>>
    BY <1>6 DEF init_pins, adcVars
  <2>2. pc = "pins" /\ ((pc' = "spi" /\ pins' = off) \/ (pc' = "returned" /\ pins' = pins))
    <3>1. after(initialize_pins, pins) = off /\ after(titan_initialize_pins, pins) = off
      BY AllOff
    <3> QED
      BY <1>6, <3>1 DEF init_pins
  <2>3. BoardType' /\ PinsInv'
    BY <2>1, <2>2, OffType DEF BoardType, PinsInv, PinsSet, Ready
  <2>4. ConfigType' /\ ReadingInv'
    BY <2>1, <2>2 DEF ConfigType, ReadingInv, Stage
  <2>5. TimesInv'
    BY <2>1, <2>2 DEF TimesInv, Converted, PreigniteChecked, HotflowChecked, PinsSet, Ready,
            bad_preignite, bad_hotflow
  <2> QED
    BY <2>3, <2>4, <2>5
<1>7. CASE initialize_spi
  <2>1. PICK fails \in BOOLEAN : checks("spi", fails, "atexit")
    BY <1>7 DEF initialize_spi
  <2> QED
    BY <2>1, ChecksInv DEF Stage, Converted, PreigniteChecked, HotflowChecked, PinsSet, Ready
<1>8. CASE register_exit
  <2>1. UNCHANGED <<file, options, preignite_us, hotflow_us, pins, adc_cs_pin, reading>>
    BY <1>8 DEF register_exit, adcVars
  <2>2. pc = "atexit" /\ ((pc' = "adcs" /\ exit_fun' = TRUE) \/ (pc' = "returned" /\ exit_fun' = FALSE))
    BY <1>8 DEF register_exit
  <2>3. BoardType' /\ PinsInv'
    BY <2>1, <2>2 DEF BoardType, PinsInv, PinsSet, Ready
  <2>4. ConfigType' /\ ReadingInv'
    BY <2>1, <2>2 DEF ConfigType, ReadingInv, Stage
  <2>5. TimesInv'
    BY <2>1, <2>2 DEF TimesInv, Converted, PreigniteChecked, HotflowChecked, PinsSet, Ready,
            bad_preignite, bad_hotflow
  <2> QED
    BY <2>3, <2>4, <2>5
<1>9. CASE register_pin
  <2>1. UNCHANGED <<file, options, preignite_us, hotflow_us, pins, exit_fun, reading>>
    BY <1>9 DEF register_pin
  <2>2. pc = "adcs" /\ pc' = "test1"
    BY <1>9 DEF register_pin
  <2>3. adc_cs_pin' \in [0..2 -> SelectPin]
    BY <1>9 DEF register_pin, BoardType, SelectPin
  <2>4. BoardType' /\ PinsInv'
    BY <2>1, <2>2, <2>3 DEF BoardType, PinsInv, PinsSet, Ready
  <2>5. ConfigType' /\ ReadingInv'
    BY <2>1, <2>2 DEF ConfigType, ReadingInv, Stage
  <2>6. TimesInv'
    BY <2>1, <2>2 DEF TimesInv, Converted, PreigniteChecked, HotflowChecked, PinsSet, Ready,
            bad_preignite, bad_hotflow
  <2> QED
    BY <2>4, <2>5, <2>6
<1>10. CASE test_adcs
  <2>1. adc_cs_pin[2] \in SelectPin /\ ADC_2_CS \in SelectPin /\ 0 \in Channel
    BY DEF BoardType, SelectPin, Channel
  <2> QED
    BY <1>10, <2>1, ReadsInv DEF test_adcs, Ready
<1>11. CASE \E s \in DOMAIN adc_info : read_sensor(s)
  <2>1. PICK s \in DOMAIN adc_info : read_sensor(s)
    BY <1>11
  <2>2. adc_info[s][1] \in SelectPin /\ adc_info[s][2] \in Channel
    BY DEF adc_info, SelectPin, Channel
  <2> QED
    BY <2>1, <2>2, ReadsInv DEF read_sensor, Ready
<1>12. CASE UNCHANGED vars
  BY <1>12 DEF vars, adcVars, ConfigType, BoardType, TimesInv, PinsInv, ReadingInv,
          bad_preignite, bad_hotflow
<1> QED
  BY <1>1, <1>2, <1>3, <1>4, <1>5, <1>6, <1>7, <1>8, <1>9, <1>10, <1>11, <1>12 DEF Next, main

LEMMA AlwaysInv == Spec => []IInv
  BY InitInv, NextInv, PTL DEF Spec

-----------------------------------------------------------------------------
(* Results.                                                                *)

(* The times stay ints, every converter has one of the three select pins,  *)
(* and every reading is a 12 bit value of a channel.                       *)
THEOREM TypeCorrect == Spec => []TypeOK
<1>1. IInv => TypeOK
  <2> SUFFICES ASSUME IInv PROVE TypeOK
    OBVIOUS
  <2>1. reading = <<>> \/ reading \in [pin : SelectPin, channel : Channel, value : Value]
    <3>1. CASE reading = <<>>
      BY <3>1
    <3>2. ASSUME NEW pin \in SelectPin, NEW channel \in Channel,
                 reading = [pin |-> pin, channel |-> channel, value |-> signal[pin][channel]]
          PROVE  reading \in [pin : SelectPin, channel : Channel, value : Value]
      <4>1. signal[pin][channel] \in Value
        BY AdcAssumption
      <4> QED
        BY <3>2, <4>1
    <3> QED
      BY <3>1, <3>2 DEF IInv, ReadingInv
  <2> QED
    BY <2>1 DEF IInv, ConfigType, BoardType, TypeOK
<1> QED
  BY <1>1, AlwaysInv, PTL

(* Every configuration main accepts whose times fit into an int of         *)
(* microseconds is timed exactly, with no negative delay: main.cpp's       *)
(* checks and conversions, for every width of int and every limit.         *)
THEOREM TimesCorrect == Spec => []TimesExact
<1>1. IInv => TimesExact
  <2> SUFFICES ASSUME IInv, pc = "running",
                      Fits(options["Preignite_ms"]), Fits(options["Hotflow_ms"])
               PROVE  /\ preignite_us = MS * options["Preignite_ms"]
                      /\ preignite_us \in 0..PREIGNITE_MAX
                      /\ hotflow_us = MS * options["Hotflow_ms"] /\ hotflow_us >= 0
    BY DEF TimesExact
  <2>1. options["Preignite_ms"] \in Int /\ options["Hotflow_ms"] \in Int
    BY DEF IInv, ConfigType, Option
  <2>2. /\ preignite_us = MS * options["Preignite_ms"]
        /\ hotflow_us = MS * options["Hotflow_ms"]
    BY <2>1, FitsExact DEF IInv, TimesInv, Converted, PreigniteChecked, HotflowChecked, PinsSet, Ready
  <2>3. ~bad_preignite /\ ~bad_hotflow
    BY DEF IInv, TimesInv, PreigniteChecked, HotflowChecked, PinsSet, Ready
  <2>4. preignite_us \in 0..PREIGNITE_MAX
    BY <2>3, StartupAssumption DEF bad_preignite, IInv, ConfigType, int
  <2>5. ASSUME NEW a \in Nat, NEW b \in Nat PROVE a * b >= 0
    OBVIOUS
  <2>6. hotflow_us >= 0
    BY <2>1, <2>2, <2>3, <2>5, StartupAssumption DEF bad_hotflow
  <2> QED
    BY <2>2, <2>4, <2>6
<1> QED
  BY <1>1, AlwaysInv, PTL

(* Once the threads run every output is off, the exit handler is           *)
(* registered, and it brings any levels back to the same ones.             *)
THEOREM ExitCorrect == Spec => []ExitRestores
<1>1. IInv => ExitRestores
  <2> SUFFICES ASSUME IInv, pc = "running" PROVE
          /\ exit_fun
          /\ \A p \in OutputPin : pins[p] = IF p = GITVC_VALVE THEN "HIGH" ELSE "LOW"
          /\ \A levels \in Leftover : after(initialize_pins, levels) = pins
    BY DEF ExitRestores
  <2>1. exit_fun /\ pins = off
    BY DEF IInv, PinsInv, PinsSet, Ready
  <2>2. \A p \in OutputPin : off[p] = IF p = GITVC_VALVE THEN "HIGH" ELSE "LOW"
    BY DEF off, Pin, OutputPin, SelectPin, MAIN_VALVE, WATER_VALVE, GITVC_VALVE, IGN_START,
           ADC_0_CS, ADC_1_CS, ADC_2_CS
  <2> QED
    BY <2>1, <2>2, AllOff
<1> QED
  BY <1>1, AlwaysInv, PTL

(* Every reading is the value measured at the channel asked for.           *)
THEOREM ReadingCorrect == Spec => []ReadingExact
<1>1. IInv => ReadingExact
  BY DEF IInv, ReadingInv, ReadingExact
<1> QED
  BY <1>1, AlwaysInv, PTL

=============================================================================
