------------------------------ MODULE MC_Awake ------------------------------
(* Awake with the bounds of MC_Awake.cfg. *)
EXTENDS Awake
=============================================================================
