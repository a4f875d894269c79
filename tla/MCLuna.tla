------------------------------- MODULE MCLuna -------------------------------
(* Instances of LunaVisitor for TLC.  A unit of time stands for the        *)
(* smallest delay of the instance.                                         *)
EXTENDS LunaVisitor

NoCommands == [c \in {"set_valve", "unset_valve", "set_ignition", "unset_ignition",
                      "ign_normal", "set_water", "unset_water", "set_gitvc",
                      "unset_gitvc", "other"} |-> 0]
UnitDelay == [s \in Sensors |-> 1]

(* Ignition twice, two unknown bytes, every other command once but for the *)
(* water valve's, which no property is about.                              *)
OperatorBudget ==
    [c \in DOMAIN NoCommands |->
        IF c \in {"ign_normal", "other"} THEN 2
        ELSE IF c \in {"set_water", "unset_water"} THEN 0 ELSE 1]

(* Ignition twice. *)
RestartBudget == [NoCommands EXCEPT !["ign_normal"] = 2]

(* One ignition, one abort. *)
AbortBudget == [NoCommands EXCEPT !["ign_normal"] = 1, !["unset_ignition"] = 1,
                                  !["other"] = 1]

OneSensor == {"pt_comb"}
OnePulse == <<1>>
TwoPulses == <<1, 1>>
=============================================================================
