----------------------------- MODULE MC_Measure -----------------------------
(* An instance of Measure for TLC.                                         *)
EXTENDS Measure

\* One threshold between each two readings.
Thresholds == <<4, 3, 2>>
=============================================================================
