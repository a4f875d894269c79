----------------------------- MODULE MCStartup ------------------------------
(* Instances of Startup for TLC.  The int is 16 bits wide and a            *)
(* millisecond has ten units, so that the products overflow in the same    *)
(* places as those of 32 bits and 1000: below the limit of the hotflow     *)
(* time and far above the limit of the preignition time.                   *)
EXTENDS Startup

(* Zero, the limits, the last values that fit, and products that wrap to a *)
(* small, a large and a negative number.                                   *)
Times == {-40000, -6553, -3277, -1, 0, 1, 7, 8, 3276, 3277, 6553, 6554, 20000, 22900, 22901}

Complete ==
    {[Port |-> p, engine_type |-> e, Preignite_ms |-> a, Hotflow_ms |-> b,
      Ignition_on |-> 1, Pressure_slope |-> 2, Pressure_yint |-> -3] :
        p \in {0, 1234}, e \in {0, 1, 2}, a \in Times, b \in Times}

(* One file without each of the options, and one that sets a bad bool. *)
Others ==
    LET f == [Port |-> -1, engine_type |-> 0, Preignite_ms |-> 7, Hotflow_ms |-> 90,
              Ignition_on |-> 0, Pressure_slope |-> 2, Pressure_yint |-> -3]
    IN  {[o \in Option \ {without} |-> f[o]] : without \in Option} \cup {[f EXCEPT !.Ignition_on = 2]}

Files == Complete \cup Others

(* Everything off, a burn cut short, everything high. *)
Levels ==
    {[p \in Pin |-> IF p \in SelectPin \cup {GITVC_VALVE} THEN "HIGH" ELSE "LOW"],
     [p \in Pin |-> IF p \in SelectPin \cup {MAIN_VALVE, IGN_START} THEN "HIGH" ELSE "LOW"],
     [p \in Pin |-> "HIGH"]}

(* Distinct values, among them every single bit and its complement. *)
Signals ==
    [p \in SelectPin |-> [c \in Channel |->
        LET k == c + 8 * ((p - 22) \div 2) IN
        IF k < 12 THEN 2^k ELSE 4095 - 2^(k - 12)]]

AllNoise == (0..3) \X (0..3)
=============================================================================
