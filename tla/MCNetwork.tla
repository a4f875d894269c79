----------------------------- MODULE MCNetwork ------------------------------
(* Instances of NetworkWorker for TLC. *)
EXTENDS NetworkWorker
=============================================================================
