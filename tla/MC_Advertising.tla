-------------------------- MODULE MC_Advertising --------------------------
(* Instances of Advertising for TLC. *)
EXTENDS Advertising
=============================================================================
