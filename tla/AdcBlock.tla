------------------------------ MODULE AdcBlock ------------------------------
(***************************************************************************)
(* adc_block: reading one channel of one of the MCP3208 converters over    *)
(* SPI.  Pins are numbers on the header, bytes are numbers, and plain char *)
(* is unsigned, as on the controller's ARM build.                          *)
(***************************************************************************)
EXTENDS Integers

CONSTANTS
    signal,     \* per converter (by select pin) and channel: what it measures
    Noise       \* the values of the reply's bits that carry no data

ADC_0_CS == 26
ADC_1_CS == 24
ADC_2_CS == 22
SelectPin == {ADC_0_CS, ADC_1_CS, ADC_2_CS}
Channel == 0..7
Value == 0..4095   \* what a converter of 12 bits can measure

ASSUME AdcAssumption ==
    /\ signal \in [SelectPin -> [Channel -> Value]]
    /\ Noise \subseteq (0..3) \X (0..3)

VARIABLES
    adc_cs_pin,  \* the select pin registered for each converter number
    reading      \* history: what the last read_item asked for and returned

adcVars == <<adc_cs_pin, reading>>

SPI_CS_0 == 24
SPI_CS_1 == 26

(* The constructor gives every converter the pin of chip select 0. *)
adc_block(num_adcs) == [k \in 0..num_adcs - 1 |-> SPI_CS_0]

(* The three bytes sent: start bit, single or differential, channel. *)
command(single_channel, channel) ==
    16 + (IF single_channel THEN 8 ELSE 0) + channel

(* Which chip select the transfer drives; "manual" pulls the pin itself. *)
chipSelect(pin) ==
    IF pin = SPI_CS_0 THEN "CS0" ELSE IF pin = SPI_CS_1 THEN "CS1" ELSE "manual"

(* The converters selected during the transfer.  Only one wire is pulled   *)
(* low; initialize_pins and the end of each manual read leave the manual   *)
(* pin high.                                                               *)
selected(pin) ==
    {p \in SelectPin : \/ p = SPI_CS_0 /\ chipSelect(pin) = "CS0"
                       \/ p = SPI_CS_1 /\ chipSelect(pin) = "CS1"
                       \/ p = pin /\ chipSelect(pin) = "manual"}

(* A converter's answer to a single-ended command: two undefined bits and  *)
(* the twelve bits of the value, then two undefined bits.                  *)
reply(p, cmd, noise) ==
    LET value == signal[p][cmd % 8] IN
    <<0, noise[1] * 64 + value \div 64, (value % 64) * 4 + noise[2]>>

(* Mutant: the shift of the command by two bits is not undone. *)
align_unshifted(readb) == <<readb[1], readb[2] % 16, readb[3]>>

(* Undo the shift: the low two bits of the middle byte go into the last.   *)
align(readb) ==
    <<readb[1], (readb[2] \div 4) % 16, (readb[3] \div 4 + (readb[2] % 4) * 64) % 256>>

(* The last two bytes as a little-endian uint16_t, then __bswap_16. *)
load(readb) == readb[2] + 256 * readb[3]
bswap_16(x) == (x % 256) * 256 + x \div 256

(* read_item(adc_info_t); the channel is a bit field of three bits. *)
read_item(pin, single_channel, channel) ==
    /\ \E p \in selected(pin), noise \in Noise :
          reading' = [pin |-> pin, channel |-> channel % 8,
                      value |-> bswap_16(load(align(reply(p,
                                    command(single_channel, channel % 8), noise))))]
    /\ UNCHANGED adc_cs_pin

=============================================================================
