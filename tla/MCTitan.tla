------------------------------ MODULE MCTitan -------------------------------
(* Instances of TitanVisitor for TLC. *)
EXTENDS TitanVisitor

Commands == {"set_valve", "unset_valve", "set_ignition", "unset_ignition", "ign_normal",
             "set_water", "unset_water", "leak_check", "fill", "fill_idle", "def", "other"}

(* Ignition twice, with an abort, a manual valve, one preset away from the *)
(* default, the default and an unknown byte.                               *)
OperatorBudget ==
    [c \in Commands |->
        IF c = "ign_normal" THEN 2
        ELSE IF c \in {"unset_ignition", "set_valve", "fill", "def", "other"} THEN 1 ELSE 0]

UnitDelay == [s \in Sensors |-> 1]
OneSensor == {"pt_comb"}
=============================================================================
