------------------------------ MODULE MCQueue -------------------------------
(* An instance of SafeQueue for TLC. *)
EXTENDS SafeQueue
=============================================================================
