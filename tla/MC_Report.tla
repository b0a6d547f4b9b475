------------------------------ MODULE MC_Report -----------------------------
(* Instances of Report for TLC: two slots, a few events and power-ups.     *)
EXTENDS Report
=============================================================================
