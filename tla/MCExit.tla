------------------------------- MODULE MCExit -------------------------------
(* An instance of ExitHandler for TLC: one ignition command. *)
EXTENDS ExitHandler

IgnitionBudget == [c \in {"ign_normal", "unset_ignition", "other"} |->
                      IF c = "ign_normal" THEN 1 ELSE 0]
UnitDelay == [s \in Sensors |-> 1]
OneSensor == {"pt_comb"}
OnePulse == <<1>>
=============================================================================
