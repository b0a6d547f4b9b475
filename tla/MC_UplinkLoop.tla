--------------------------- MODULE MC_UplinkLoop ---------------------------
(* Instances of UplinkLoop for TLC: a queue of two slots. *)
EXTENDS UplinkLoop
=============================================================================
