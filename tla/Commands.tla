------------------------------ MODULE Commands ------------------------------
(***************************************************************************)
(* What the server's table of downlinks, the broker and the bike's         *)
(* handlers promise together: a command that was given is pending until    *)
(* the bike has had it, is settled once and for good, and the server goes  *)
(* by a command only once, when it is settled, and only if the bike has    *)
(* carried it out and saved it.                                            *)
(***************************************************************************)
EXTENDS Naturals

CONSTANT Ids \* of commands, none of which is 0

VARIABLES
  given,   \* the commands that were given
  had,     \* those the bike has had, once or more often
  saved,   \* those it has carried out and saved
  settled, \* those that will not be sent again
  owed,    \* the one the server is about to go by, 0 if none
  followed \* the one it goes by, 0 at first

vars == <<given, had, saved, settled, owed, followed>>

Init ==
  /\ given = {} /\ had = {} /\ saved = {} /\ settled = {}
  /\ owed = 0 /\ followed = 0

Give(n) ==
  /\ n \notin given
  /\ given' = given \cup {n}
  /\ UNCHANGED <<had, saved, settled, owed, followed>>

Have(n) ==
  /\ n \in given
  /\ had' = had \cup {n}
  /\ saved' \in {saved, saved \cup {n}}
  /\ UNCHANGED <<given, settled, owed, followed>>

Settle(n) ==
  /\ n \in had \ settled /\ owed = 0
  /\ settled' = settled \cup {n}
  /\ owed' \in {0} \cup ({n} \cap saved)
  /\ UNCHANGED <<given, had, saved, followed>>

Follow ==
  /\ owed # 0
  /\ followed' = owed /\ owed' = 0
  /\ UNCHANGED <<given, had, saved, settled>>

\* A server that stops goes by what it did before.
Forget ==
  /\ owed' = 0
  /\ UNCHANGED <<given, had, saved, settled, followed>>

Next ==
  \/ \E n \in Ids : Give(n) \/ Have(n) \/ Settle(n)
  \/ Follow \/ Forget

Spec == Init /\ [][Next]_vars
=============================================================================
