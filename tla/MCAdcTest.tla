----------------------------- MODULE MCAdcTest ------------------------------
(* An instance of ThreadedAdcTest for TLC. *)
EXTENDS ThreadedAdcTest
=============================================================================
