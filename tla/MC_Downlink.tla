---------------------------- MODULE MC_Downlink ----------------------------
(* Instances of Downlink for TLC: one or two downlinks for one bike.       *)
EXTENDS Downlink
=============================================================================
