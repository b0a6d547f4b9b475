---------------------------- MODULE MC_StatePub ----------------------------
(* Instances of StatePub for TLC.                                          *)
EXTENDS StatePub
=============================================================================
