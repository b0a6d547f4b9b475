------------------------------ MODULE MC_Modem ------------------------------
(* Instances of Modem for TLC. *)
EXTENDS Modem
=============================================================================
