---------------------------- MODULE MC_Unlocking ----------------------------
(* Instances of Unlocking for TLC: two phones one after the other.         *)
EXTENDS Unlocking
=============================================================================
