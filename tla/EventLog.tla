------------------------------ MODULE EventLog ------------------------------
(***************************************************************************)
(* What the bike's event queue, the network and the server's table of      *)
(* events promise together: an event is made once, it is recorded at most  *)
(* once, what is recorded stays and keeps its place, and an event that is  *)
(* gone does not come back.                                                *)
(***************************************************************************)
EXTENDS Naturals, Sequences

CONSTANT Events

VARIABLES
  made, \* the events that happened
  log,  \* those recorded, in the order in which they were
  gone  \* those that will not be: overwritten, or lost with a memory

vars == <<made, log, gone>>

Recorded == {log[i] : i \in DOMAIN log}

Init == made = {} /\ log = <<>> /\ gone = {}

Make(e) ==
  /\ e \notin made
  /\ made' = made \cup {e}
  /\ UNCHANGED log

Record(e) ==
  /\ e \in made \ (Recorded \cup gone)
  /\ log' = Append(log, e)
  /\ UNCHANGED <<made, gone>>

Lose(lost) ==
  /\ lost \subseteq made' \ (Recorded \cup gone)
  /\ gone' = gone \cup lost

\* An event may overwrite another one when it is made.
Next ==
  \/ \E e \in Events : Make(e) /\ \E lost \in SUBSET made : Lose(lost)
  \/ \E e \in Events : Record(e)
  \/ UNCHANGED <<made, log>> /\ \E lost \in SUBSET made : Lose(lost)

Spec == Init /\ [][Next]_vars
=============================================================================
