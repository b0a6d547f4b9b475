---------------------------- MODULE Modem_proofs ----------------------------
(***************************************************************************)
(* Proofs about Modem, for any number of attempts, messages, faults,       *)
(* downlinks and late answers.  As long as no answer came after its wait,  *)
(* no line was cut and no publish was begun inside another command's wait, *)
(* commands and answers are in step, and with them messages and power.     *)
(* Sessions keep their meaning whenever answers come and whatever is       *)
(* published in which wait: the ladder of reconnects leaves behind all the *)
(* lines of an earlier session.                                            *)
(***************************************************************************)
EXTENDS Modem, SequenceTheorems, TLAPS

-----------------------------------------------------------------------------
(***************************************************************************)
(* The inductive invariant: as long as every answer comes in its wait      *)
(***************************************************************************)

\* A session is believed in while publishing and while it is being ended.
ConnectedInv ==
  connected => \/ rung = "publish" /\ pc \in {"MPUBEX", "payload", "poll"}
               \/ rung = "disconnect" /\ pc \in {"MDISCONNECT", "CIPSHUT"}
               \/ pc \in Acks

\* An ack is published inside other waits, the outermost of which is not an ack's.
NestedInv ==
  /\ outer \in Seq(Waits) /\ spent \in BOOLEAN /\ over \in BOOLEAN
  /\ pc \in Acks <=> outer # <<>>
  /\ pc = "ack" /\ ~written => connected
  /\ \A i \in DOMAIN outer :
       IF i # Len(outer) THEN outer[i] \in Acks
       ELSE \/ rung = "publish" /\ outer[i] \in {"MPUBEX", "payload", "poll"}
            \/ rung = "disconnect" /\ outer[i] \in {"MDISCONNECT", "CIPSHUT"}

\* Every answer came in its wait, and in no other one.
Timely == lates = 0 /\ ~cut /\ ~crossed

\* The lines a command may be answered with: some information, then the line
\* that says it is done, or an error.
Before(c) ==
  CASE c = "CGREG" -> {"REGISTERED"}
    [] c \in {"SSLMIPSTART", "MCONNECT", "MSUB"} -> {"OK"}
    [] OTHER -> {}

Done(c) ==
  CASE c = "SSLMIPSTART" -> "CONNECT OK"
    [] c = "MCONNECT"    -> "CONNACK OK"
    [] c = "MSUB"        -> "SUBACK"
    [] c \in {"MPUBEX", "ack"} -> ">"
    [] c \in {"payload", "ackbytes"} -> "SEND OK"
    [] OTHER             -> "OK"

Ending(c) == {"ERROR", Done(c)}

\* The lines that are no answer.
Urc == Lost \cup {"+MSUB"}

Silent == \A i \in DOMAIN rx : rx[i] \in Urc

\* What a command that is done has left in the modem.
Effect(c) ==
  /\ c = "payload" => msg \in taken
  /\ c = "CPOWD" => power # "on"

\* Only the command that is waited for is under way, or its answer is; an ack is
\* published while polling, and its buffer is filled again for the next message.
InStep ==
  /\ pc \in Acks => outer = <<"poll">>
  /\ over => pc = "poll" \/ pc \in Acks
  /\ spent => pc = "poll"
  /\ ~written => Silent /\ (Works => tx = <<>>)
  /\ written =>
       /\ pc \in Cmd
       /\ Works => tx = <<>> \/ (tx = <<[cmd |-> pc, msg |-> IF over THEN 0 ELSE msg]>> /\ Silent)
       /\ \A i \in DOMAIN rx : rx[i] \in Urc \cup Before(pc) \cup Ending(pc)
       /\ \A i, j \in DOMAIN rx : i < j /\ rx[i] \in Ending(pc) => rx[j] \in Urc
       /\ \A i \in DOMAIN rx : rx[i] = Done(pc) => Effect(pc)

\* A modem with its prompt out has said so, or is about to get the payload.
PromptInv ==
  Works /\ prompt =>
    \/ pc \in {"MPUBEX", "ack"} /\ written /\ \E i \in DOMAIN rx : rx[i] = ">"
    \/ pc \in {"payload", "ackbytes"} /\ (~written \/ tx # <<>>)

\* Where the thread is tells whether the modem is on: the key never turns it on
\* when it is meant to turn it off.
PowerInv ==
  /\ pc \in {"idle", "power_on"} => power # "on"
  /\ pc \in {"CPOWD", "power_off_hard"} => power # "off"
  /\ pc \notin {"idle", "power_on", "CPOWD", "power_off_hard"} => power = "on"

TimelyInv ==
  /\ InStep /\ PromptInv /\ ~stale
  /\ claimed \subseteq taken
  /\ TimelyOff => PowerInv

ModemInv == TypeOK /\ ConnectedInv /\ NestedInv /\ (Timely => TimelyInv)

-----------------------------------------------------------------------------
(***************************************************************************)
(* The inductive invariant: sessions, whenever answers come                *)
(***************************************************************************)

\* The lines that will be read, if the modem does as it is told: those that are
\* there, and what the commands under way will be answered with.
Trail(r, t) ==
  [p \in 1 .. Len(r) + Len(t) |-> IF p <= Len(r) THEN r[p] ELSE Done(t[p - Len(r)].cmd)]

\* The positions of the lines of a session in a trail.
Marks(s) == {p \in DOMAIN s : s[p] \in SessionLine}

NeverThen(s, a, b) == \A p, q \in Marks(s) : p < q /\ s[p] = a => s[q] # b

\* No trail leads from a new connection to a subscription.
NoWhole(s) ==
  \A p, q, r \in Marks(s) :
    p < q /\ q < r /\ s[p] = "CONNECT OK" /\ s[q] = "CONNACK OK" => s[r] # "SUBACK"

\* Such a line is the answer to the command that is waited for, and the last one.
OwnLast(s, a, w) == \A p \in Marks(s) : s[p] = a => w /\ \A q \in Marks(s) : ~(p < q)

\* No other line of a session is under way.
Single(s, c, w) == (\A p \in Marks(s) : s[p] = Done(c)) /\ OwnLast(s, Done(c), w)

SessionCmd == {"SSLMIPSTART", "MCONNECT", "MSUB"}
Stages     == {"AT", "ATE0", "CGREG"} \cup Config \cup SessionCmd
Ladder     == {"connect", "level1", "level2", "level3"}

\* What may be under way at each rung: the ladder gives the modem a new session
\* after one reconnect, after the second, and by turning it off and on.
Chains(c, w, r, k, s) ==
  /\ k => Marks(s) = {}
  /\ r = "publish" => NeverThen(s, "CONNECT OK", "CONNACK OK")
  /\ r \in {"connect", "level3"} /\ c \in Stages => Single(s, c, w)
  /\ r = "level1" /\ c = "MSUB" => Single(s, c, w)
  /\ r = "level1" /\ c = "MCONNECT" => OwnLast(s, "CONNACK OK", w)
  /\ r = "level1" /\ c \notin {"MCONNECT", "MSUB"} => NeverThen(s, "CONNECT OK", "CONNACK OK")
  /\ r = "level2" /\ c = "MSUB" => OwnLast(s, "SUBACK", w)
  /\ r = "level2" /\ c = "MCONNECT" => NeverThen(s, "CONNACK OK", "SUBACK")
  /\ r = "level2" /\ c \notin {"MCONNECT", "MSUB"} => NoWhole(s)

\* Connecting and publishing have their rungs.
RungInv ==
  /\ pc \in Stages \cup {"power_on"} => rung \in Ladder
  /\ pc \in {"MPUBEX", "payload", "poll"} => rung = "publish"

\* The settings that have been written on the way to a session.
AskedFor ==
  (CASE pc = "MCONFIG" -> {"SSLCFG"}
     [] pc = "MQTTMODE" -> {"SSLCFG", "MCONFIG"}
     [] pc \in SessionCmd -> Config
     [] OTHER -> {}) \cup (IF written THEN {pc} \cap Config ELSE {})

Unread(line) == \E i \in DOMAIN rx : rx[i] = line

Loss == \E line \in Lost : Unread(line)

\* Each has been taken, or will be, or its refusal will be read.
AskedInv ==
  Works => \A c \in AskedFor :
             c \in cfg \/ Unread("ERROR") \/ \E k \in DOMAIN tx : tx[k].cmd = c

\* A subscription is answered by the modem that has them all.
SubInv ==
  pc = "MSUB" =>
    /\ \A k \in DOMAIN tx : tx[k].cmd = "MSUB" => k = Len(tx)
    /\ \A i \in DOMAIN rx : rx[i] = "SUBACK" =>
         /\ cfg = Config \/ \E j \in DOMAIN rx : j < i /\ rx[j] = "ERROR"
         /\ session = "subscribed" \/ \E j \in DOMAIN rx : i < j /\ rx[j] \in Lost
         /\ tx = <<>>

\* Messages are only for that modem.
PubInv ==
  /\ prompt \/ (\E k \in DOMAIN tx : tx[k].cmd \in {"MPUBEX", "ack"}) => cfg = Config
  /\ connected => cfg = Config
  /\ connected /\ rung = "publish" =>
       /\ \A k \in DOMAIN tx : tx[k].cmd \in {"MPUBEX", "payload"} \cup Acks
       /\ cut \/ deaf \/ session = "subscribed" \/ Loss

LateInv ==
  /\ Chains(pc, written, rung, connected, Trail(rx, tx))
  /\ AskedInv /\ SubInv /\ PubInv

\* However late the answers: except after the modem was turned on with lines of a
\* session left to read.
AnyTimeInv == RungInv /\ (~stale => LateInv)

USE DEF dialogue, modem, marks, bounds, history

-----------------------------------------------------------------------------
(***************************************************************************)
(* Where the thread goes                                                   *)
(***************************************************************************)

Place == Cmd \cup {"idle", "power_on", "power_off_hard", "poll"}

\* The places at which a message is taken up, or a connection given up.
Restart == {"MPUBEX", "poll", "MDISCONNECT", "CPOWD"}

\* The thread is well placed.
Placed ==
  /\ pc \in Place /\ written \in BOOLEAN /\ info \in BOOLEAN /\ retry \in BOOLEAN
  /\ connected \in BOOLEAN /\ rung \in Rung /\ tries \in 0 .. Tries
  /\ msg \in 1 .. Messages + 1

\* What moves have in common: nothing is written yet at the new place.
Moved == Placed' /\ written' = FALSE /\ ConnectedInv' /\ (connected' => connected)

LEMMA GotoMoves ==
  ASSUME NEW c, Goto(c) \/ Fill(c)
  PROVE  pc' = c /\ written' = FALSE /\ written' \in BOOLEAN /\ info' \in BOOLEAN
<1>1. pc' = c /\ written' = FALSE /\ info' = FALSE
  BY DEF Goto, Fill, Go
<1>2. written' \in BOOLEAN
  BY <1>1
<1>3. info' \in BOOLEAN
  BY <1>1
<1> QED
  BY <1>1, <1>2, <1>3

\* Only a downlink and the end of its ack change which waits are open.
Stays == UNCHANGED outer /\ spent' = FALSE /\ (over' = over \/ over' = FALSE)

LEMMA MovesStay ==
  ASSUME NEW ok,
         \/ \E c : Goto(c) \/ Fill(c)
         \/ \E n : Climb(n)
         \/ Leave \/ NextMessage \/ StageFails \/ PublishFails \/ StageDone \/ Proceed
         \/ Again \/ TearDown(ok)
  PROVE  Stays
<1>1. \A c : Goto(c) \/ Fill(c) => Stays
  BY DEF Goto, Fill, Go, Stays
<1>2. \A n : Climb(n) => Stays
  BY <1>1 DEF Climb
<1>3. Leave => Stays
  BY <1>1 DEF Leave
<1>4. NextMessage => Stays
  BY <1>1, <1>3 DEF NextMessage
<1>5. StageFails => Stays
  BY <1>2, <1>3, <1>4 DEF StageFails
<1>6. (PublishFails => Stays) /\ (StageDone => Stays) /\ (Proceed => Stays)
  BY <1>1, <1>2, <1>4 DEF PublishFails, StageDone, Proceed
<1>7. Again => Stays
  BY <1>1, <1>5 DEF Again
<1>8. TearDown(ok) => Stays
  BY <1>1 DEF TearDown
<1> QED
  BY <1>1, <1>2, <1>3, <1>4, <1>5, <1>6, <1>7, <1>8

LEMMA ClimbMoves ==
  ASSUME Placed, NEW n \in Rung, Climb(n)
  PROVE  Moved /\ pc' \in Restart /\ connected' = FALSE
<1>1. pc' \in {"MDISCONNECT", "CPOWD"} /\ written' = FALSE
      /\ written' \in BOOLEAN /\ info' \in BOOLEAN
  BY GotoMoves DEF Climb
<1>2. connected' = FALSE
  BY DEF Climb
<1>3. connected' \in BOOLEAN
  BY <1>2
<1>4. rung' \in Rung /\ tries' \in 0 .. Tries /\ UNCHANGED <<msg, retry>>
  BY ModemAssumption DEF Climb
<1> QED
  BY <1>1, <1>2, <1>3, <1>4 DEF Placed, Moved, Restart, Place, Cmd, ConnectedInv

LEMMA LeaveMoves ==
  ASSUME Placed, Leave
  PROVE  Moved /\ pc' \in Restart
<1>1. /\ pc' \in {"MDISCONNECT", "CPOWD"} /\ (connected => pc' = "MDISCONNECT")
      /\ written' = FALSE /\ written' \in BOOLEAN /\ info' \in BOOLEAN
  <2>1. CASE connected
    BY <2>1, GotoMoves DEF Leave
  <2>2. CASE ~connected
    BY <2>2, GotoMoves DEF Leave
  <2> QED
    BY <2>1, <2>2
<1>2. rung' = "disconnect" /\ UNCHANGED <<tries, msg, retry, connected>>
  BY DEF Leave
<1> QED
  BY <1>1, <1>2 DEF Placed, Moved, Restart, Place, Cmd, Rung, ConnectedInv

LEMMA NextMessageMoves ==
  ASSUME Placed, NextMessage
  PROVE  Moved /\ pc' \in Restart
<1>1. CASE msg > Messages /\ Leave
  BY <1>1, LeaveMoves
<1>2. CASE ~(msg > Messages /\ Leave)
  <2>1. pc' \in {"poll", "MPUBEX"} /\ written' = FALSE
        /\ written' \in BOOLEAN /\ info' \in BOOLEAN
    BY <1>2, GotoMoves DEF NextMessage
  <2>2. msg <= Messages /\ msg' = msg + 1
    BY <1>2 DEF NextMessage
  <2>3. msg' \in 1 .. Messages + 1
    BY <2>2, ModemAssumption DEF Placed
  <2>4. retry' = FALSE
    BY <1>2 DEF NextMessage
  <2>5. retry' \in BOOLEAN
    BY <2>4
  <2>6. rung' = "publish" /\ UNCHANGED <<tries, connected>>
    BY <1>2 DEF NextMessage
  <2> QED
    BY <2>1, <2>3, <2>5, <2>6 DEF Placed, Moved, Restart, Place, Cmd, Rung, ConnectedInv
<1> QED
  BY <1>1, <1>2

LEMMA StageFailsMoves ==
  ASSUME Placed, StageFails
  PROVE  Moved /\ pc' \in Restart
<1>1. {"level2", "level3"} \subseteq Rung
  BY DEF Rung
<1> QED
  BY <1>1, LeaveMoves, ClimbMoves, NextMessageMoves DEF StageFails

LEMMA PublishFailsMoves ==
  ASSUME Placed, PublishFails
  PROVE  Moved /\ pc' \in Restart
<1>1. "level1" \in Rung
  BY DEF Rung
<1> QED
  BY <1>1, ClimbMoves, NextMessageMoves DEF PublishFails

LEMMA StageDoneMoves ==
  ASSUME Placed, StageDone
  PROVE  /\ Placed' /\ written' = FALSE /\ ConnectedInv'
         /\ pc' = "MPUBEX" /\ rung' = "publish"
<1>1. pc' = "MPUBEX" /\ written' = FALSE /\ written' \in BOOLEAN /\ info' \in BOOLEAN
  BY GotoMoves DEF StageDone
<1>2. connected' = TRUE /\ rung' = "publish" /\ UNCHANGED <<tries, msg>>
  BY DEF StageDone
<1>3. connected' \in BOOLEAN
  BY <1>2
<1>4. retry' = (rung # "connect")
  BY DEF StageDone
<1>5. retry' \in BOOLEAN
  BY <1>4
<1> QED
  BY <1>1, <1>2, <1>3, <1>5 DEF Placed, Place, Cmd, Rung, ConnectedInv

\* The commands of a connection, and what follows each.
LEMMA ProceedMoves ==
  ASSUME Placed, Proceed, pc \in DOMAIN Follows
  PROVE  Placed' /\ written' = FALSE /\ pc' = Follows[pc] /\ connected' = connected
         /\ rung' = rung /\ pc' \in Cmd \ {"CPOWD"}
<1>1. pc' = Follows[pc] /\ written' = FALSE /\ written' \in BOOLEAN /\ info' \in BOOLEAN
  BY GotoMoves DEF Proceed
<1>2. tries' \in 0 .. Tries /\ UNCHANGED <<rung, msg, retry, connected>>
  BY ModemAssumption DEF Proceed
<1>3. Follows[pc] \in Cmd \ {"CPOWD"}
  BY DEF Follows, Cmd, Config, Acks
<1> QED
  BY <1>1, <1>2, <1>3 DEF Placed, Place

LEMMA TearDownMoves ==
  ASSUME Placed, ConnectedInv, NEW ok \in BOOLEAN, TearDown(ok)
  PROVE  /\ Placed' /\ ConnectedInv' /\ written' = FALSE /\ (connected' => connected)
         /\ rung' = rung
         /\ pc = "CPOWD" => pc' = "power_off_hard" \/ (pc' = "idle" /\ ok)
         /\ pc # "CPOWD" => pc' \in {"SSLCFG", "CIPSHUT", "CGREG", "CPOWD"}
<1>1. /\ UNCHANGED <<rung, tries, msg, retry>>
      /\ connected' = (connected /\ ~(pc = "CIPSHUT" /\ rung = "disconnect"))
  BY DEF TearDown
<1>2. connected' \in BOOLEAN
  BY <1>1, Zenon
<1>3. CASE pc = "MDISCONNECT"
  <2>1. /\ pc' = IF rung = "level1" THEN "SSLCFG" ELSE "CIPSHUT"
        /\ written' = FALSE /\ written' \in BOOLEAN /\ info' \in BOOLEAN
    <3>1. CASE rung = "level1"
      BY <1>3, <3>1, GotoMoves DEF TearDown
    <3>2. CASE rung # "level1"
      BY <1>3, <3>2, GotoMoves DEF TearDown
    <3> QED
      BY <3>1, <3>2
  <2> QED
    BY <1>1, <1>2, <1>3, <2>1 DEF Placed, Place, Cmd, Config, Acks, ConnectedInv
<1>4. CASE pc = "CIPSHUT"
  <2>1. /\ pc' = IF rung = "level2" THEN "CGREG" ELSE "CPOWD"
        /\ written' = FALSE /\ written' \in BOOLEAN /\ info' \in BOOLEAN
    <3>1. CASE rung = "level2"
      BY <1>4, <3>1, GotoMoves DEF TearDown
    <3>2. CASE rung # "level2"
      BY <1>4, <3>2, GotoMoves DEF TearDown
    <3> QED
      BY <3>1, <3>2
  <2> QED
    BY <1>1, <1>2, <1>4, <2>1 DEF Placed, Place, Cmd, Config, Acks, ConnectedInv
<1>5. CASE pc = "CPOWD"
  <2>1. /\ pc' = IF ok /\ rung = "disconnect" THEN "idle" ELSE "power_off_hard"
        /\ written' = FALSE /\ written' \in BOOLEAN /\ info' \in BOOLEAN
    <3>1. CASE ok /\ rung = "disconnect"
      BY <1>5, <3>1, GotoMoves DEF TearDown
    <3>2. CASE ~(ok /\ rung = "disconnect")
      BY <1>5, <3>2, GotoMoves DEF TearDown
    <3> QED
      BY <3>1, <3>2
  <2> QED
    BY <1>1, <1>2, <1>5, <2>1 DEF Placed, Place, Cmd, Config, Acks, ConnectedInv
<1> QED
  BY <1>3, <1>4, <1>5 DEF TearDown

LEMMA AgainMoves ==
  ASSUME Placed, ConnectedInv, pc \in {"AT", "CGREG"}, Again
  PROVE  Moved /\ pc' \in Restart \cup {pc}
<1>1. CASE tries <= 1 /\ StageFails
  BY <1>1, StageFailsMoves
<1>2. CASE ~(tries <= 1 /\ StageFails)
  <2>1. Goto(pc) /\ tries > 1 /\ tries' = tries - 1 /\ UNCHANGED <<rung, msg, retry, connected>>
    BY <1>2 DEF Again
  <2>2. pc' = pc /\ written' = FALSE /\ written' \in BOOLEAN /\ info' \in BOOLEAN
    BY <2>1, GotoMoves
  <2>3. tries' \in 0 .. Tries
    BY <2>1, ModemAssumption DEF Placed
  <2> QED
    BY <2>1, <2>2, <2>3 DEF Placed, Moved, ConnectedInv
<1> QED
  BY <1>1, <1>2

\* The wait around an ack's goes on.
LEMMA ResumeMoves ==
  ASSUME Placed, ConnectedInv, NestedInv, pc \in Acks, Resume
  PROVE  /\ Placed' /\ ConnectedInv' /\ NestedInv'
         /\ pc' \in Waits /\ (written' <=> pc' # "poll") /\ over' = over /\ rung' = rung
         /\ connected' = connected
         /\ pc' \in {"MPUBEX", "payload", "poll"} => rung = "publish"
         /\ pc' \in {"MDISCONNECT", "CIPSHUT"} => rung = "disconnect"
         /\ pc' = Head(outer) /\ outer' = Tail(outer) /\ outer # <<>>
<1>1. /\ pc' = Head(outer) /\ written' = (Head(outer) # "poll")
      /\ outer' = Tail(outer) /\ spent' = TRUE
      /\ UNCHANGED <<rung, tries, info, msg, retry, over, connected>>
  BY DEF Resume
<1>2. outer \in Seq(Waits) /\ outer # <<>>
  BY DEF NestedInv
<1>3. /\ Tail(outer) \in Seq(Waits) /\ Head(outer) \in Waits /\ Head(outer) = outer[1]
      /\ Len(outer) \in Nat /\ Len(outer) >= 1 /\ DOMAIN outer = 1 .. Len(outer)
      /\ Len(Tail(outer)) = Len(outer) - 1 /\ DOMAIN Tail(outer) = 1 .. Len(Tail(outer))
      /\ \A i \in 1 .. Len(Tail(outer)) : Tail(outer)[i] = outer[i + 1]
  BY <1>2, HeadTailProperties
<1>4. written' \in BOOLEAN /\ (written' <=> pc' # "poll")
  BY <1>1, Zenon
<1>5. spent' \in BOOLEAN
  BY <1>1
<1>6. Waits \subseteq Place
  BY DEF Waits, Place, Cmd, Acks
<1>7. Placed'
  BY <1>1, <1>3, <1>4, <1>6 DEF Placed
<1>8. IF 1 # Len(outer) THEN outer[1] \in Acks
      ELSE \/ rung = "publish" /\ outer[1] \in {"MPUBEX", "payload", "poll"}
           \/ rung = "disconnect" /\ outer[1] \in {"MDISCONNECT", "CIPSHUT"}
  BY <1>3 DEF NestedInv
<1>9. ConnectedInv'
  BY <1>1, <1>3, <1>8 DEF ConnectedInv
<1>10. pc' \in Acks <=> Len(outer) # 1
  BY <1>1, <1>3, <1>8 DEF Acks
<1>11. outer' # <<>> <=> Len(outer) # 1
  <2>1. outer' # <<>> <=> Len(Tail(outer)) # 0
    BY <1>1, <1>3, EmptySeq
  <2> QED
    BY <1>3, <2>1
<1>12. \A i \in DOMAIN Tail(outer) :
         IF i # Len(Tail(outer)) THEN Tail(outer)[i] \in Acks
         ELSE \/ rung = "publish" /\ Tail(outer)[i] \in {"MPUBEX", "payload", "poll"}
              \/ rung = "disconnect" /\ Tail(outer)[i] \in {"MDISCONNECT", "CIPSHUT"}
  <2> SUFFICES ASSUME NEW i \in DOMAIN Tail(outer)
               PROVE  IF i # Len(Tail(outer)) THEN Tail(outer)[i] \in Acks
         ELSE \/ rung = "publish" /\ Tail(outer)[i] \in {"MPUBEX", "payload", "poll"}
              \/ rung = "disconnect" /\ Tail(outer)[i] \in {"MDISCONNECT", "CIPSHUT"}
    OBVIOUS
  <2>1. /\ i + 1 \in DOMAIN outer /\ Tail(outer)[i] = outer[i + 1]
        /\ i + 1 = Len(outer) <=> i = Len(Tail(outer))
    BY <1>3
  <2> QED
    BY <2>1 DEF NestedInv
<1>13. pc' = "ack" => written'
  BY <1>4, Zenon
<1>14. over' \in BOOLEAN /\ outer' \in Seq(Waits)
  BY <1>1, <1>3 DEF NestedInv
<1>15. NestedInv'
  BY <1>1, <1>5, <1>10, <1>11, <1>12, <1>13, <1>14 DEF NestedInv
<1>16. /\ pc' \in {"MPUBEX", "payload", "poll"} => rung = "publish"
       /\ pc' \in {"MDISCONNECT", "CIPSHUT"} => rung = "disconnect"
  BY <1>1, <1>3, <1>8 DEF Acks
<1> QED
  BY <1>1, <1>2, <1>3, <1>4, <1>7, <1>9, <1>15, <1>16

\* An ack read in an ack's wait, or the command after it: they are all in the same one.
LEMMA AckProceeds ==
  ASSUME Placed, ConnectedInv, NestedInv, pc = "ack", Proceed
  PROVE  /\ Placed' /\ ConnectedInv' /\ NestedInv'
         /\ pc' = "ackbytes" /\ written' = FALSE /\ Stays
         /\ connected' = connected /\ rung' = rung
<1>1. "ack" \in DOMAIN Follows /\ Follows["ack"] = "ackbytes"
  BY DEF Follows
<1>2. Placed' /\ written' = FALSE /\ pc' = "ackbytes" /\ connected' = connected /\ rung' = rung
  BY <1>1, ProceedMoves
<1>3. Stays
  BY MovesStay
<1>4. spent' \in BOOLEAN
  BY <1>3 DEF Stays
<1>5. ConnectedInv' /\ NestedInv'
  BY <1>2, <1>3, <1>4 DEF ConnectedInv, NestedInv, Stays, Acks
<1> QED
  BY <1>2, <1>3, <1>5

\* A downlink that is acked opens an ack's wait inside the present one.
LEMMA DownlinkMoves ==
  ASSUME Placed, ConnectedInv, NestedInv, Downlink, UNCHANGED connected
  PROVE  /\ Placed' /\ ConnectedInv' /\ NestedInv' /\ (crossed => crossed')
         /\ \/ UNCHANGED <<dialogue, crossed>>
            \/ /\ connected /\ pc' = "ack" /\ written' = FALSE /\ spent' = FALSE
               /\ outer' = <<pc>> \o outer /\ (crossed' <=> crossed \/ pc # "poll")
               /\ UNCHANGED <<rung, tries, info, msg, retry, over>>
<1>1. CASE UNCHANGED <<dialogue, crossed>>
  BY <1>1 DEF Placed, ConnectedInv, NestedInv
<1>2. CASE /\ connected /\ pc' = "ack" /\ written' = FALSE /\ spent' = FALSE
           /\ outer' = <<pc>> \o outer /\ crossed' = (crossed \/ pc # "poll")
           /\ UNCHANGED <<rung, tries, info, msg, retry, over>>
  <2>1. written' \in BOOLEAN
    BY <1>2
  <2>2. spent' \in BOOLEAN
    BY <1>2
  <2>3. Placed'
    BY <1>2, <2>1 DEF Placed, Place, Cmd, Acks
  <2>4. \/ rung = "publish" /\ pc \in {"MPUBEX", "payload", "poll"}
        \/ rung = "disconnect" /\ pc \in {"MDISCONNECT", "CIPSHUT"}
        \/ pc \in Acks
    BY <1>2 DEF ConnectedInv
  <2>5. pc \in Waits /\ outer \in Seq(Waits)
    BY <2>4 DEF Waits, NestedInv
  <2>6. /\ outer' \in Seq(Waits) /\ Len(outer') = Len(outer) + 1 /\ Len(outer) \in Nat
        /\ DOMAIN outer' = 1 .. Len(outer) + 1 /\ DOMAIN outer = 1 .. Len(outer)
        /\ outer'[1] = pc
        /\ \A i \in 1 .. Len(outer) : outer'[i + 1] = outer[i]
    BY <1>2, <2>5
  <2>7. outer' # <<>>
    BY <2>6
  <2>8. pc \in Acks <=> Len(outer) # 0
    BY <2>5, EmptySeq DEF NestedInv
  <2>9. ASSUME NEW i \in DOMAIN outer'
        PROVE  IF i # Len(outer') THEN outer'[i] \in Acks
               ELSE \/ rung = "publish" /\ outer'[i] \in {"MPUBEX", "payload", "poll"}
                    \/ rung = "disconnect" /\ outer'[i] \in {"MDISCONNECT", "CIPSHUT"}
    <3>1. CASE i = 1
      <4>1. 1 = Len(outer') <=> Len(outer) = 0
        BY <2>6
      <4> QED
        BY <2>4, <2>6, <2>8, <3>1, <4>1 DEF Acks
    <3>2. CASE i # 1
      <4>1. /\ i - 1 \in DOMAIN outer /\ outer'[i] = outer[i - 1]
            /\ i = Len(outer') <=> i - 1 = Len(outer)
        <5>1. i - 1 \in 1 .. Len(outer) /\ (i - 1) + 1 = i
          BY <2>6, <3>2
        <5>2. outer'[(i - 1) + 1] = outer[i - 1]
          BY <2>6, <5>1
        <5> QED
          BY <2>6, <5>1, <5>2
      <4> QED
        BY <4>1 DEF NestedInv
    <3> QED
      BY <3>1, <3>2
  <2>10. over' \in BOOLEAN
    BY <1>2 DEF NestedInv
  <2>11. connected'
    BY <1>2
  <2>12. NestedInv'
    BY <1>2, <2>2, <2>6, <2>7, <2>9, <2>10, <2>11 DEF NestedInv, Acks
  <2>13. ConnectedInv'
    BY <1>2 DEF ConnectedInv, Acks
  <2> QED
    BY <1>2, <2>3, <2>12, <2>13, Zenon
<1> QED
  BY <1>1, <1>2 DEF Downlink

\* What follows a command, and what it takes to get there.
Ended(ok) ==
  /\ Placed' /\ ConnectedInv' /\ NestedInv' /\ (over' = over \/ over' = FALSE)
  /\ connected' => connected \/ (pc = "MSUB" /\ ok)
  /\ connected' /\ rung' = "publish" => rung = "publish" \/ (pc = "MSUB" /\ ok)
  /\ pc' \in {"MCONFIG", "MQTTMODE", "SSLMIPSTART", "MCONNECT", "MSUB"}
       => ok /\ pc \in DOMAIN Follows /\ pc' = Follows[pc]
  /\ pc' \in {"payload", "ackbytes"} =>
       written' \/ (ok /\ pc \in {"MPUBEX", "ack"} /\ pc' = Follows[pc])
  /\ pc = "MPUBEX" /\ ok => pc' = "payload"
  /\ pc = "ack" /\ ok => pc' = "ackbytes" /\ written' = FALSE /\ outer' = outer
  /\ pc = "CPOWD" => pc' = "power_off_hard" \/ (pc' = "idle" /\ ok)
  /\ pc # "CPOWD" => pc' \in Cmd \cup {"poll"}
  /\ pc \notin Acks => written' = FALSE /\ spent' = FALSE /\ pc' \notin Acks
  /\ pc \in Acks =>
       /\ rung' = rung /\ connected' = connected /\ pc' \in Waits
       /\ \/ Resume
          \/ pc = "ack" /\ ok /\ pc' = "ackbytes" /\ Stays /\ written' = FALSE

LEMMA EndsMoves ==
  ASSUME Placed, ConnectedInv, NestedInv, NEW ok \in BOOLEAN, Ends(ok)
  PROVE  Ended(ok)
<1>1. ASSUME pc \notin Acks, Stays, pc' \notin Acks
      PROVE  NestedInv' /\ spent' = FALSE /\ (over' = over \/ over' = FALSE)
  <2>1. spent' \in BOOLEAN
    BY <1>1 DEF Stays
  <2>2. outer = <<>> /\ outer' = <<>> /\ DOMAIN outer = {}
    BY <1>1 DEF NestedInv, Stays
  <2>3. (over' = over \/ over' = FALSE) /\ spent' = FALSE
    BY <1>1 DEF Stays
  <2> QED
    BY <1>1, <2>1, <2>2, <2>3 DEF NestedInv, Acks
<1>2. ASSUME Moved, Stays, pc' \in Restart \cup {"AT", "CGREG"}, pc # "CPOWD", pc \notin Acks,
             connected => rung = "publish", pc = "MPUBEX" => ~ok
      PROVE  Ended(ok)
  <2>1. pc' \notin Acks
    BY <1>2 DEF Restart, Acks
  <2> QED
    BY <1>1, <1>2, <2>1 DEF Moved, Restart, Cmd, Config, Ended, Acks
<1>3. ASSUME Proceed, pc \in DOMAIN Follows, ok \/ pc = "ATE0", pc \notin Acks,
             connected => rung = "publish"
      PROVE  Ended(ok)
  <2>1. /\ Placed' /\ written' = FALSE /\ pc' = Follows[pc] /\ connected' = connected
        /\ rung' = rung /\ pc' \in Cmd \ {"CPOWD"} /\ Stays
    BY <1>3, ProceedMoves, MovesStay
  <2>2. /\ pc # "CPOWD" /\ (pc = "ATE0" => pc' = "CGREG") /\ (pc' = "payload" <=> pc = "MPUBEX")
        /\ pc' \notin Acks
    BY <1>3, <2>1 DEF Follows, Acks
  <2>3. ConnectedInv'
    BY <1>3, <2>1, <2>2 DEF ConnectedInv, Follows
  <2> QED
    BY <1>1, <1>3, <2>1, <2>2, <2>3 DEF Ended, Acks
<1>4. DOMAIN Follows = {"AT", "ATE0", "CGREG", "SSLCFG", "MCONFIG", "MQTTMODE",
                        "SSLMIPSTART", "MCONNECT", "MPUBEX", "ack"}
  BY DEF Follows
<1>5. CASE pc \in {"MDISCONNECT", "CIPSHUT", "CPOWD"} /\ TearDown(ok)
  <2>1. /\ Placed' /\ ConnectedInv' /\ written' = FALSE /\ (connected' => connected)
        /\ rung' = rung /\ Stays
        /\ pc = "CPOWD" => pc' = "power_off_hard" \/ (pc' = "idle" /\ ok)
        /\ pc # "CPOWD" => pc' \in {"SSLCFG", "CIPSHUT", "CGREG", "CPOWD"}
    BY <1>5, TearDownMoves, MovesStay
  <2>2. pc \notin Acks /\ pc' \notin Acks
    BY <1>5, <2>1 DEF Acks
  <2> QED
    BY <1>1, <1>5, <2>1, <2>2 DEF Ended, ConnectedInv, Cmd, Config, Acks
<1>6. CASE pc \in Acks
  <2>1. CASE Resume /\ ~(pc = "ack" /\ ok)
    <3>1. /\ Placed' /\ ConnectedInv' /\ NestedInv' /\ over' = over /\ rung' = rung
          /\ connected' = connected /\ pc' \in Waits /\ (written' <=> pc' # "poll")
      BY <1>6, <2>1, ResumeMoves
    <3> QED
      BY <1>6, <2>1, <3>1 DEF Ended, Waits, Acks, Cmd
  <2>2. CASE pc = "ack" /\ ok /\ Proceed
    <3>1. /\ Placed' /\ ConnectedInv' /\ NestedInv'
          /\ pc' = "ackbytes" /\ written' = FALSE /\ Stays
          /\ connected' = connected /\ rung' = rung
      BY <2>2, AckProceeds
    <3> QED
      BY <1>6, <2>2, <3>1 DEF Ended, Waits, Acks, Cmd, Follows, Stays
  <2> QED
    BY <1>6, <2>1, <2>2 DEF Ends, Acks, Config
<1>7. CASE pc \notin {"MDISCONNECT", "CIPSHUT", "CPOWD"} \cup Acks
  <2>1. connected => rung = "publish"
    BY <1>7 DEF ConnectedInv
  <2>2. CASE pc = "ATE0" /\ Proceed
    BY <1>3, <1>4, <1>7, <2>1, <2>2
  <2>3. CASE pc \in {"AT", "CGREG"} /\ IF ok THEN Proceed ELSE Again
    BY <1>2, <1>3, <1>4, <1>7, <2>1, <2>3, AgainMoves, MovesStay
  <2>4. CASE pc \in Config \cup {"SSLMIPSTART", "MCONNECT"} /\ Stage(ok)
    <3>1. pc \in DOMAIN Follows
      BY <1>4, <2>4 DEF Config
    <3> QED
      BY <1>2, <1>3, <1>7, <2>1, <2>4, <3>1, StageFailsMoves, MovesStay DEF Stage
  <2>5. CASE pc = "MSUB" /\ IF ok THEN StageDone ELSE StageFails
    <3>1. CASE ok
      <4>1. /\ Placed' /\ written' = FALSE /\ ConnectedInv'
            /\ pc' = "MPUBEX" /\ rung' = "publish" /\ Stays
        BY <2>5, <3>1, StageDoneMoves, MovesStay
      <4>2. pc' \notin Acks
        BY <4>1 DEF Acks
      <4> QED
        BY <1>1, <1>7, <2>5, <3>1, <4>1, <4>2 DEF Ended, Cmd
    <3>2. CASE ~ok
      BY <1>2, <1>7, <2>1, <2>5, <3>2, StageFailsMoves, MovesStay
    <3> QED
      BY <3>1, <3>2
  <2>6. CASE pc = "MPUBEX" /\ IF ok THEN Proceed ELSE PublishFails
    BY <1>2, <1>3, <1>4, <1>7, <2>1, <2>6, PublishFailsMoves, MovesStay
  <2>7. CASE pc = "payload" /\ IF ok THEN NextMessage ELSE PublishFails
    BY <1>2, <1>7, <2>1, <2>7, PublishFailsMoves, NextMessageMoves, MovesStay
  <2> QED
    BY <1>7, <2>2, <2>3, <2>4, <2>5, <2>6, <2>7 DEF Ends, Acks
<1> QED
  BY <1>5, <1>6, <1>7 DEF Ends, Config, Acks

-----------------------------------------------------------------------------
(***************************************************************************)
(* Lines under way                                                         *)
(***************************************************************************)

LEMMA TakeOne ==
  ASSUME NEW S, NEW s \in Seq(S), s # <<>>
  PROVE  /\ Tail(s) \in Seq(S) /\ Head(s) \in S /\ Head(s) = s[1] /\ 1 \in DOMAIN s
         /\ \A i \in DOMAIN Tail(s) : i + 1 \in DOMAIN s /\ Tail(s)[i] = s[i + 1]
         /\ \A i \in DOMAIN s : i = 1 \/ (i - 1 \in DOMAIN Tail(s) /\ Tail(s)[i - 1] = s[i])
         /\ \A i \in DOMAIN s : i \in Nat /\ i >= 1
<1>1. /\ Tail(s) \in Seq(S) /\ Head(s) \in S /\ Head(s) = s[1]
      /\ Len(s) \in Nat /\ Len(s) >= 1 /\ DOMAIN s = 1 .. Len(s)
      /\ Len(Tail(s)) = Len(s) - 1 /\ DOMAIN Tail(s) = 1 .. Len(Tail(s))
      /\ \A i \in 1 .. Len(Tail(s)) : Tail(s)[i] = s[i + 1]
  BY HeadTailProperties
<1> QED
  BY <1>1

LEMMA SayOne ==
  ASSUME NEW S, NEW s \in Seq(S), NEW f \in S
  PROVE  /\ s \o <<f>> \in Seq(S)
         /\ DOMAIN s = 1 .. Len(s) /\ Len(s) \in Nat
         /\ DOMAIN (s \o <<f>>) = 1 .. Len(s) + 1
         /\ \A i \in DOMAIN s : (s \o <<f>>)[i] = s[i]
         /\ (s \o <<f>>)[Len(s) + 1] = f
OBVIOUS

LEMMA SayTwo ==
  ASSUME NEW S, NEW s \in Seq(S), NEW b \in S, NEW f \in S
  PROVE  /\ s \o <<b, f>> \in Seq(S)
         /\ DOMAIN s = 1 .. Len(s) /\ Len(s) \in Nat
         /\ DOMAIN (s \o <<b, f>>) = 1 .. Len(s) + 2
         /\ \A i \in DOMAIN s : (s \o <<b, f>>)[i] = s[i]
         /\ (s \o <<b, f>>)[Len(s) + 1] = b
         /\ (s \o <<b, f>>)[Len(s) + 2] = f
OBVIOUS

\* After a silence, what is heard is one line, or one and an end.
Heard(c, f) ==
  \/ rx' = rx \o <<f>>
  \/ \E b \in Before(c) : rx' = rx \o <<b, f>>

LEMMA HeardLines ==
  ASSUME NEW c \in Cmd, NEW f \in Line, rx \in Seq(Line), Heard(c, f)
  PROVE  /\ rx' \in Seq(Line)
         /\ \E n \in DOMAIN rx' : /\ rx'[n] = f
                                  /\ \A i \in DOMAIN rx' : i <= n
                                  /\ Silent => \A i \in DOMAIN rx' :
                                       i < n => rx'[i] \in Urc \cup Before(c)
<1>1. Before(c) \subseteq Line
  BY DEF Before, Line
<1>2. CASE rx' = rx \o <<f>>
  <2>1. /\ rx' \in Seq(Line) /\ DOMAIN rx = 1 .. Len(rx) /\ Len(rx) \in Nat
        /\ DOMAIN rx' = 1 .. Len(rx) + 1 /\ rx'[Len(rx) + 1] = f
        /\ \A i \in DOMAIN rx : rx'[i] = rx[i]
    BY <1>2, SayOne
  <2> QED
    BY <2>1 DEF Silent
<1>3. CASE \E b \in Before(c) : rx' = rx \o <<b, f>>
  <2>1. PICK b \in Before(c) : rx' = rx \o <<b, f>>
    BY <1>3
  <2>2. /\ rx' \in Seq(Line) /\ DOMAIN rx = 1 .. Len(rx) /\ Len(rx) \in Nat
        /\ DOMAIN rx' = 1 .. Len(rx) + 2
        /\ rx'[Len(rx) + 1] = b /\ rx'[Len(rx) + 2] = f
        /\ \A i \in DOMAIN rx : rx'[i] = rx[i]
    BY <1>1, <2>1, SayTwo
  <2>3. \A i \in DOMAIN rx' : i <= Len(rx) + 2
    BY <2>2
  <2>4. \A i \in DOMAIN rx' : i < Len(rx) + 2 => i = Len(rx) + 1 \/ i \in DOMAIN rx
    BY <2>2
  <2>5. Silent => \A i \in DOMAIN rx' :
                   i < Len(rx) + 2 => rx'[i] \in Urc \cup Before(c)
    BY <2>1, <2>2, <2>4 DEF Silent
  <2>6. Len(rx) + 2 \in DOMAIN rx' /\ DOMAIN rx \subseteq DOMAIN rx'
    BY <2>2
  <2>7. \E n \in DOMAIN rx' : /\ rx'[n] = f
                              /\ \A i \in DOMAIN rx' : i <= n
                              /\ Silent => \A i \in DOMAIN rx' :
                                   i < n => rx'[i] \in Urc \cup Before(c)
    BY <2>2, <2>3, <2>5, <2>6, Zenon
  <2> QED
    BY <2>2, <2>7
<1> QED
  BY <1>2, <1>3 DEF Heard

Sent == [cmd : Cmd, msg : 0 .. Messages + 1]

\* What the modem does with the command that is next, which it obeys ...
Obeyed(c, f) ==
  /\ Heard(c, f) /\ f \in Ending(c) /\ taken' = taken /\ ~prompt
  /\ cfg' \subseteq Config /\ cfg \subseteq cfg' /\ (c \in Config => c \in cfg')
  /\ power' = (IF c = "CPOWD" THEN "closing" ELSE power)
  /\ session' \in {"none", "tcp", "mqtt", "subscribed"}
  /\ c \in {"MPUBEX", "payload"} \cup Acks => session' = session
  /\ c = "MSUB" /\ f = "SUBACK" => session' = "subscribed"
  /\ c \in {"payload", "ackbytes"} => f = "ERROR"
  /\ prompt' \in BOOLEAN /\ (prompt' => c \in {"MPUBEX", "ack"} /\ f = ">")

\* ... or takes for the payload.
Swallowed(text, f) ==
  /\ prompt /\ prompt' = FALSE /\ UNCHANGED <<power, cfg, session>>
  /\ rx' = rx \o <<f>> /\ f \in {"SEND OK", "ERROR"}
  /\ taken' \subseteq taken \cup ({text.msg} \ {0}) /\ taken \subseteq taken'
  /\ f = "SEND OK" /\ text.cmd = "payload" /\ text.msg # 0 => text.msg \in taken'

LEMMA ConnectsEffect ==
  ASSUME NEW from, NEW to \in {"tcp", "mqtt", "subscribed"}, NEW line, Connects(from, to, line),
         session \in {"none", "tcp", "mqtt", "subscribed"}
  PROVE  /\ UNCHANGED <<power, cfg, prompt>>
         /\ session' \in {"none", "tcp", "mqtt", "subscribed"}
         /\ (rx' = rx \o <<"OK", line>> /\ session' = to) \/ rx' = rx \o <<"ERROR">>
BY DEF Connects, Says

LEMMA AnswerEffect ==
  ASSUME TypeOK, Answer
  PROVE  /\ Works /\ tx # <<>> /\ tx' = Tail(tx) /\ Head(tx) \in Sent
         /\ UNCHANGED <<dialogue, connected, hung, bounds, claimed>>
         /\ \E f \in Line : Swallowed(Head(tx), f) \/ Obeyed(Head(tx).cmd, f)
<1>1. /\ tx \in Seq(Sent) /\ cfg \subseteq Config /\ prompt \in BOOLEAN
      /\ session \in {"none", "tcp", "mqtt", "subscribed"}
  BY DEF TypeOK, Sent
<1>2. /\ Works /\ tx # <<>> /\ tx' = Tail(tx) /\ Head(tx) \in Sent
      /\ UNCHANGED <<dialogue, connected, hung, bounds, claimed>>
  BY <1>1, TakeOne DEF Answer
<1> DEFINE text == Head(tx)
           c == text.cmd
<1> HIDE DEF text
<1>3. CASE TakesPayload(text)
  <2>1. PICK f \in {"SEND OK", "ERROR"} :
          /\ f = IF session = "subscribed" THEN "SEND OK" ELSE "ERROR"
    BY Zenon
  <2>2. rx' = rx \o <<f>>
    BY <1>3, <2>1 DEF TakesPayload, Says
  <2>3. Swallowed(text, f)
    BY <1>3, <2>1, <2>2 DEF TakesPayload, Swallowed
  <2> QED
    BY <1>2, <2>3 DEF text, Line
<1>4. CASE Obeys(c) /\ UNCHANGED taken
  <2>1. c \in Cmd
    BY <1>2 DEF Sent, text
  <2> HIDE DEF c
  <2> USE DEF Obeyed, Heard, Ending, Acks
  <2>2. ~prompt /\ taken' = taken
    BY <1>4 DEF Obeys
  <2>3. CASE c \in {"AT", "ATE0"}
    <3>1. rx' = rx \o <<"OK">> /\ UNCHANGED <<power, cfg, session, prompt>>
      BY <1>4, <2>3 DEF Obeys, Says, Config
    <3>2. Obeyed(c, "OK")
      BY <1>1, <2>2, <2>3, <3>1 DEF Done, Config
    <3> QED
      BY <1>2, <3>2 DEF Line, c, text
  <2>4. CASE c = "CGREG"
    <3>1. rx' = rx \o <<"REGISTERED", "OK">> /\ UNCHANGED <<power, cfg, session, prompt>>
      BY <1>4, <2>4 DEF Obeys, Says, Config
    <3>2. Obeyed(c, "OK")
      BY <1>1, <2>2, <2>4, <3>1 DEF Done, Before, Config
    <3> QED
      BY <1>2, <3>2 DEF Line, c, text
  <2>5. CASE c \in Config
    <3>1. rx' = rx \o <<"OK">> /\ cfg' = cfg \cup {c} /\ UNCHANGED <<power, session, prompt>>
      BY <1>4, <2>5 DEF Obeys, Says, Config
    <3>2. Obeyed(c, "OK")
      BY <1>1, <2>2, <2>5, <3>1 DEF Done, Config
    <3> QED
      BY <1>2, <3>2 DEF Line, c, text
  <2>6. CASE c = "SSLMIPSTART"
    <3>1. Connects("none", "tcp", "CONNECT OK")
      BY <1>4, <2>6 DEF Obeys, Config
    <3>2. Obeyed(c, "CONNECT OK") \/ Obeyed(c, "ERROR")
      BY <1>1, <2>2, <2>6, <3>1, ConnectsEffect DEF Done, Before, Config
    <3> QED
      BY <1>2, <3>2 DEF Line, c, text
  <2>7. CASE c = "MCONNECT"
    <3>1. Connects("tcp", "mqtt", "CONNACK OK")
      BY <1>4, <2>7 DEF Obeys, Config
    <3>2. Obeyed(c, "CONNACK OK") \/ Obeyed(c, "ERROR")
      BY <1>1, <2>2, <2>7, <3>1, ConnectsEffect DEF Done, Before, Config
    <3> QED
      BY <1>2, <3>2 DEF Line, c, text
  <2>8. CASE c = "MSUB"
    <3>1. Connects("mqtt", "subscribed", "SUBACK")
      BY <1>4, <2>8 DEF Obeys, Config
    <3>2. Obeyed(c, "SUBACK") \/ Obeyed(c, "ERROR")
      BY <1>1, <2>2, <2>8, <3>1, ConnectsEffect DEF Done, Before, Config
    <3> QED
      BY <1>2, <3>2 DEF Line, c, text
  <2>9. CASE c \in {"MPUBEX", "ack"}
    <3>1. /\ prompt' = (session = "subscribed")
          /\ Says(IF session = "subscribed" THEN <<">">> ELSE <<"ERROR">>)
          /\ UNCHANGED <<power, cfg, session>>
      BY <1>4, <2>9 DEF Obeys, Config
    <3>2. prompt' \in BOOLEAN
      BY <3>1, Zenon
    <3>3. Obeyed(c, ">") \/ Obeyed(c, "ERROR")
      BY <1>1, <2>2, <2>9, <3>1, <3>2 DEF Says, Done, Config
    <3> QED
      BY <1>2, <3>3 DEF Line, c, text
  <2>10. CASE c \in {"payload", "ackbytes"}
    <3>1. rx' = rx \o <<"ERROR">> /\ UNCHANGED <<power, cfg, session, prompt>>
      BY <1>4, <2>10 DEF Obeys, Says, Config
    <3>2. Obeyed(c, "ERROR")
      BY <1>1, <2>2, <2>10, <3>1 DEF Config
    <3> QED
      BY <1>2, <3>2 DEF Line, c, text
  <2>11. CASE c \in {"MDISCONNECT", "CIPSHUT"}
    <3>1. rx' = rx \o <<"OK">> /\ session' = "none" /\ UNCHANGED <<power, cfg, prompt>>
      BY <1>4, <2>11 DEF Obeys, Says, Config
    <3>2. Obeyed(c, "OK")
      BY <1>1, <2>2, <2>11, <3>1 DEF Done, Config
    <3> QED
      BY <1>2, <3>2 DEF Line, c, text
  <2>12. CASE c = "CPOWD"
    <3>1. rx' = rx \o <<"OK">> /\ session' = "none" /\ power' = "closing"
          /\ UNCHANGED <<cfg, prompt>>
      BY <1>4, <2>12 DEF Obeys, Says, Config
    <3>2. Obeyed(c, "OK")
      BY <1>1, <2>2, <2>12, <3>1 DEF Done, Config
    <3> QED
      BY <1>2, <3>2 DEF Line, c, text
  <2> QED
    BY <2>1, <2>3, <2>4, <2>5, <2>6, <2>7, <2>8, <2>9, <2>10, <2>11, <2>12 DEF Cmd
<1> QED
  BY <1>2, <1>3, <1>4 DEF Answer, text

-----------------------------------------------------------------------------
(***************************************************************************)
(* Types, and where a session is believed in                               *)
(***************************************************************************)

\* The rest of the state is well typed.
Kept ==
  /\ power \in {"on", "closing", "off"} /\ hung \in BOOLEAN /\ prompt \in BOOLEAN
  /\ cfg \subseteq Config /\ session \in {"none", "tcp", "mqtt", "subscribed"}
  /\ tx \in Seq(Sent) /\ rx \in Seq(Line)
  /\ faults \in 0 .. MaxFault /\ lates \in 0 .. MaxLate /\ downs \in 0 .. MaxDown
  /\ cut \in BOOLEAN
  /\ claimed \subseteq 1 .. Messages + 1 /\ taken \subseteq 1 .. Messages + 1

Flags == stale \in BOOLEAN /\ crossed \in BOOLEAN /\ deaf \in BOOLEAN

LEMMA TwoParts ==
  /\ TypeOK => Placed /\ Kept /\ Flags
  /\ Placed /\ NestedInv /\ Kept /\ Flags => TypeOK
BY DEF TypeOK, Placed, NestedInv, Kept, Flags, Place, Sent

LEMMA FlagsTyped == Flags /\ [Next]_vars => Flags'
<1> SUFFICES ASSUME Flags, [Next]_vars
             PROVE  Flags'
  OBVIOUS
<1>1. stale' \in BOOLEAN
  <2>1. stale' = stale \/ stale' = (Range(rx) \cap SessionLine # {})
    BY DEF Next, Thread, NotConnected, Write, Read, Timeout, TimeoutCuts, Poll, BeginCycle,
           PowerKey, Answer, Refuse, LoseSession, PassDownlink, Hang, PowersDown, vars
  <2>2. (Range(rx) \cap SessionLine # {}) \in BOOLEAN
    BY Zenon
  <2> QED
    BY <2>1, <2>2, Zenon DEF Flags
<1>2. crossed' \in BOOLEAN
  <2>1. \/ crossed' = crossed \/ crossed' = (crossed \/ pc # "poll")
        \/ crossed' = (crossed \/ Head(rx) \in Lost)
    BY DEF Next, Thread, NotConnected, Write, Read, Downlink, Timeout, TimeoutCuts, Poll,
           BeginCycle, PowerKey, Answer, Refuse, LoseSession, PassDownlink, Hang, PowersDown, vars
  <2>2. (crossed \/ pc # "poll") \in BOOLEAN /\ (crossed \/ Head(rx) \in Lost) \in BOOLEAN
    BY Zenon
  <2> QED
    BY <2>1, <2>2, Zenon DEF Flags
<1>3. deaf' \in BOOLEAN
  <2>1. deaf' = deaf \/ deaf' = FALSE \/ deaf' = (deaf \/ Head(rx) \in Lost)
    BY DEF Next, Thread, NotConnected, Write, Read, Timeout, TimeoutCuts, Poll, BeginCycle,
           PowerKey, Answer, Refuse, LoseSession, PassDownlink, Hang, PowersDown, vars
  <2>2. (deaf \/ Head(rx) \in Lost) \in BOOLEAN /\ FALSE \in BOOLEAN
    BY Zenon
  <2> QED
    BY <2>1, <2>2, Zenon DEF Flags
<1> QED
  BY <1>1, <1>2, <1>3 DEF Flags

LEMMA CutLines ==
  ASSUME rx \in Seq(Line), rx # <<>>,
         \/ rx' = Tail(rx)
         \/ \E line \in {"OK", "ERROR"} : rx' = <<line>> \o Tail(rx)
  PROVE  rx' \in Seq(Line)
<1>1. Tail(rx) \in Seq(Line)
  BY TakeOne
<1>2. {"OK", "ERROR"} \subseteq Line
  BY DEF Line
<1>3. \A line \in {"OK", "ERROR"} : <<line>> \o Tail(rx) \in Seq(Line)
  BY <1>1, <1>2
<1> QED
  BY <1>1, <1>3

LEMMA RefuseEffect ==
  ASSUME TypeOK, Refuse
  PROVE  /\ Works /\ tx # <<>> /\ tx' = Tail(tx) /\ Head(tx) \in Sent
         /\ TimelyOff => Head(tx).cmd # "CPOWD"
         /\ \E f \in {"CLOSED", "ERROR", "OK"} :
              /\ Heard(Head(tx).cmd, f)
              /\ f = "OK" => Head(tx).cmd = "CGREG"
              /\ f = "CLOSED" => Head(tx).cmd = "SSLMIPSTART"
<1>1. /\ Works /\ tx # <<>> /\ tx' = Tail(tx)
      /\ TimelyOff => Head(tx).cmd # "CPOWD"
      /\ rx' = rx \o (CASE Head(tx).cmd = "CGREG" -> <<"OK">>
                       [] Head(tx).cmd = "SSLMIPSTART" -> <<"OK", "CLOSED">>
                       [] OTHER -> <<"ERROR">>)
  BY DEF Refuse, Says
<1>2. Head(tx) \in Sent
  BY <1>1, TakeOne DEF TypeOK, Sent
<1>3. CASE Head(tx).cmd = "CGREG"
  BY <1>1, <1>2, <1>3 DEF Heard
<1>4. CASE Head(tx).cmd = "SSLMIPSTART"
  <2>1. rx' = rx \o <<"OK", "CLOSED">> /\ "OK" \in Before(Head(tx).cmd)
    BY <1>1, <1>4 DEF Before
  <2> QED
    BY <1>1, <1>2, <2>1 DEF Heard
<1>5. CASE Head(tx).cmd \notin {"CGREG", "SSLMIPSTART"}
  <2>1. rx' = rx \o <<"ERROR">>
    BY <1>1, <1>5
  <2> QED
    BY <1>1, <1>2, <2>1 DEF Heard
<1> QED
  BY <1>3, <1>4, <1>5

\* Outside an ack no wait is open around the thread's.
LEMMA Unnested ==
  ASSUME NestedInv, pc \notin Acks, Stays, pc' \notin Acks
  PROVE  NestedInv'
<1>1. spent' \in BOOLEAN
  BY DEF Stays
<1>2. outer = <<>> /\ outer' = <<>> /\ (over' = over \/ over' = FALSE) /\ DOMAIN outer = {}
  BY DEF NestedInv, Stays
<1> QED
  BY <1>1, <1>2 DEF NestedInv, Acks

LEMMA StepTyped ==
  ASSUME TypeOK, ConnectedInv, NestedInv, [Next]_vars
  PROVE  TypeOK' /\ ConnectedInv' /\ NestedInv'
<1>1. Placed /\ Kept /\ Flags
  BY TwoParts
<1>2. /\ power \in {"on", "closing", "off"} /\ hung \in BOOLEAN /\ prompt \in BOOLEAN
      /\ cfg \subseteq Config /\ session \in {"none", "tcp", "mqtt", "subscribed"}
      /\ tx \in Seq(Sent) /\ rx \in Seq(Line)
      /\ faults \in 0 .. MaxFault /\ lates \in 0 .. MaxLate /\ downs \in 0 .. MaxDown
      /\ cut \in BOOLEAN
      /\ claimed \subseteq 1 .. Messages + 1 /\ taken \subseteq 1 .. Messages + 1
  BY <1>1 DEF Kept
<1>3. msg \in 1 .. Messages + 1 /\ (written \in BOOLEAN /\ pc \in Place)
  BY <1>1 DEF Placed
<1>4. \A ok \in BOOLEAN : Reports(ok) => claimed' \subseteq 1 .. Messages + 1
  BY <1>2, <1>3 DEF Reports
<1>5. TRUE \in BOOLEAN /\ FALSE \in BOOLEAN
  OBVIOUS
<1>6. (Placed' /\ NestedInv' /\ Kept') => TypeOK'
  <2>1. (Placed /\ NestedInv /\ Kept /\ Flags => TypeOK)'
    BY TwoParts, PTL
  <2> QED
    BY <1>1, <2>1, FlagsTyped
<1>7. ASSUME UNCHANGED <<dialogue, connected>>
      PROVE  Placed' /\ ConnectedInv' /\ NestedInv'
  BY <1>1, <1>7 DEF Placed, ConnectedInv, NestedInv
<1>8. ASSUME NEW ok \in BOOLEAN, Ends(ok)
      PROVE  Placed' /\ ConnectedInv' /\ NestedInv'
  BY <1>1, <1>8, EndsMoves DEF Ended
<1>9. CASE NotConnected
  <2>1. Ends(FALSE)
    BY <1>9 DEF NotConnected, Ends
  <2>2. Kept'
    BY <1>2, <1>9 DEF Kept, NotConnected
  <2> QED
    BY <1>5, <1>6, <1>8, <2>1, <2>2
<1>10. CASE Write
  <2>1. written' = TRUE /\ UNCHANGED <<pc, rung, tries, info, msg, retry, connected>> /\ pc \in Cmd
    BY <1>10 DEF Write
  <2>2. written' \in BOOLEAN
    BY <2>1
  <2>3. Placed'
    BY <1>1, <2>1, <2>2 DEF Placed
  <2>4. ConnectedInv' /\ NestedInv'
    <3>1. over' = (over \/ pc = "ack") /\ UNCHANGED <<outer, spent>>
      BY <1>10 DEF Write
    <3>2. over' \in BOOLEAN
      BY <3>1, Zenon
    <3> QED
      BY <2>1, <3>1, <3>2 DEF ConnectedInv, NestedInv
  <2>5. [cmd |-> pc, msg |-> IF over' THEN 0 ELSE msg] \in Sent
    <3>1. (IF over' THEN 0 ELSE msg) \in 0 .. Messages + 1
      BY <1>3, ModemAssumption
    <3> QED
      BY <2>1, <3>1 DEF Sent
  <2>6. tx' \in Seq(Sent)
    BY <1>2, <1>10, <2>5, AppendProperties DEF Write
  <2>7. Kept'
    BY <1>2, <1>10, <2>6 DEF Kept, Write
  <2> QED
    BY <1>6, <2>3, <2>4, <2>7
<1>11. CASE Read
  <2>1. /\ rx' = Tail(rx) /\ rx # <<>>
        /\ UNCHANGED <<power, hung, cfg, session, prompt, tx, faults, lates, downs, cut, taken>>
    BY <1>11 DEF Read
  <2>2. rx' \in Seq(Line)
    BY <1>2, <2>1, TakeOne
  <2>3. CASE connected' = FALSE /\ UNCHANGED <<dialogue, claimed>>
    <3>1. connected' \in BOOLEAN
      BY <2>3
    <3>2. Placed' /\ ConnectedInv' /\ NestedInv'
      <4>1. pc = "ack" /\ ~written => connected'
        BY <1>11 DEF Read
      <4> QED
        BY <1>1, <2>3, <3>1, <4>1 DEF Placed, ConnectedInv, NestedInv
    <3>3. Kept'
      BY <1>2, <2>1, <2>2, <2>3 DEF Kept
    <3> QED
      BY <1>6, <3>2, <3>3
  <2>4. CASE \E ok \in BOOLEAN : Ends(ok) /\ claimed' \subseteq 1 .. Messages + 1
    <3>1. Kept'
      BY <1>2, <2>1, <2>2, <2>4 DEF Kept
    <3> QED
      BY <1>6, <1>8, <2>4, <3>1
  <2>5. CASE /\ info' = (Head(rx) = "REGISTERED")
             /\ UNCHANGED <<pc, written, rung, tries, msg, retry, outer, spent, over>>
             /\ UNCHANGED <<connected, claimed>>
    <3>1. info' \in BOOLEAN
      BY <2>5, Zenon
    <3>2. Placed' /\ ConnectedInv' /\ NestedInv'
      BY <1>1, <2>5, <3>1 DEF Placed, ConnectedInv, NestedInv
    <3>3. Kept'
      BY <1>2, <2>1, <2>2, <2>5 DEF Kept
    <3> QED
      BY <1>6, <3>2, <3>3
  <2>6. ASSUME Ends(pc = "CGREG" => info /\ Head(rx) = "OK"), Reports(TRUE)
        PROVE  \E ok \in BOOLEAN : Ends(ok) /\ claimed' \subseteq 1 .. Messages + 1
    <3>1. (pc = "CGREG" => info /\ Head(rx) = "OK") \in BOOLEAN
      BY Zenon
    <3> QED
      BY <1>4, <1>5, <2>6, <3>1, Zenon
  <2>7. ASSUME Ends(FALSE), Reports(FALSE)
        PROVE  \E ok \in BOOLEAN : Ends(ok) /\ claimed' \subseteq 1 .. Messages + 1
    BY <1>4, <1>5, <2>7, Zenon
  <2>8. CASE Downlink /\ UNCHANGED <<connected, claimed>>
    <3>1. Placed' /\ ConnectedInv' /\ NestedInv'
      BY <1>1, <2>8, DownlinkMoves
    <3>2. Kept'
      BY <1>2, <2>1, <2>2, <2>8 DEF Kept
    <3> QED
      BY <1>6, <3>1, <3>2
  <2> QED
    BY <1>11, <2>3, <2>4, <2>5, <2>6, <2>7, <2>8 DEF Read
<1>12. CASE Timeout
  <2>1. lates' \in 0 .. MaxLate
    <3>1. lates' = lates \/ (lates < MaxLate /\ lates' = lates + 1)
      BY <1>12 DEF Timeout
    <3> QED
      BY <1>2, <3>1, ModemAssumption
  <2>2. /\ Ends(FALSE) /\ Reports(FALSE)
        /\ UNCHANGED <<power, hung, cfg, session, prompt, tx, rx, faults, downs, cut, taken>>
    BY <1>12 DEF Timeout
  <2>3. claimed' \subseteq 1 .. Messages + 1
    BY <1>4, <1>5, <2>2
  <2>4. Kept'
    BY <1>2, <2>1, <2>2, <2>3 DEF Kept
  <2> QED
    BY <1>5, <1>6, <1>8, <2>2, <2>4
<1>13. CASE TimeoutCuts
  <2>1. faults < MaxFault /\ faults' = faults + 1 /\ rx # <<>> /\ cut' = TRUE
        /\ \/ rx' = Tail(rx)
           \/ \E line \in {"OK", "ERROR"} : rx' = <<line>> \o Tail(rx)
    BY <1>13 DEF TimeoutCuts
  <2>2. faults' \in 0 .. MaxFault
    BY <1>2, <2>1, ModemAssumption
  <2>3. cut' \in BOOLEAN
    BY <2>1
  <2>4. rx' \in Seq(Line)
    BY <1>2, <2>1, CutLines
  <2>5. /\ Ends(FALSE) /\ Reports(FALSE)
        /\ UNCHANGED <<power, hung, cfg, session, prompt, tx, lates, downs, taken>>
    BY <1>13 DEF TimeoutCuts
  <2>6. claimed' \subseteq 1 .. Messages + 1
    BY <1>4, <1>5, <2>5
  <2>7. Kept'
    BY <1>2, <2>2, <2>3, <2>4, <2>5, <2>6 DEF Kept
  <2> QED
    BY <1>5, <1>6, <1>8, <2>5, <2>7
<1>14. CASE Poll
  <2>1. CASE rx # <<>> /\ rx' = Tail(rx) /\ connected' = (connected /\ Head(rx) \notin Lost)
             /\ UNCHANGED dialogue
    <3>1. connected' \in BOOLEAN
      BY <2>1, Zenon
    <3>2. rx' \in Seq(Line)
      BY <1>2, <2>1, TakeOne
    <3>3. Placed' /\ ConnectedInv' /\ NestedInv'
      BY <1>1, <1>14, <2>1, <3>1 DEF Placed, ConnectedInv, NestedInv, Poll
    <3>4. Kept'
      BY <1>2, <1>14, <3>2 DEF Kept, Poll
    <3> QED
      BY <1>6, <3>3, <3>4
  <2>2. CASE Fill("MPUBEX") /\ UNCHANGED <<rx, rung, tries, msg, retry, connected>>
    <3>1. pc' = "MPUBEX" /\ written' \in BOOLEAN /\ info' \in BOOLEAN /\ pc = "poll"
      BY <1>14, <2>2, GotoMoves DEF Poll
    <3>2. Placed' /\ ConnectedInv'
      BY <1>1, <2>2, <3>1 DEF Placed, ConnectedInv, Place, Cmd, Acks
    <3>3. Kept'
      BY <1>2, <1>14, <2>2 DEF Kept, Poll
    <3>4. Stays
      BY <1>5, <2>2, MovesStay
    <3>5. NestedInv'
      BY <3>1, <3>4, Unnested DEF Acks
    <3> QED
      BY <1>6, <3>2, <3>3, <3>5
  <2>3. CASE rx' = Tail(rx) /\ rx # <<>> /\ Downlink /\ UNCHANGED connected
    <3>1. Placed' /\ ConnectedInv' /\ NestedInv'
      BY <1>1, <2>3, DownlinkMoves
    <3>2. rx' \in Seq(Line)
      BY <1>2, <2>3, TakeOne
    <3>3. Kept'
      BY <1>2, <1>14, <2>3, <3>2 DEF Kept, Poll
    <3> QED
      BY <1>6, <3>1, <3>3
  <2> QED
    BY <1>14, <2>1, <2>2, <2>3 DEF Poll
<1>15. CASE BeginCycle
  <2>1. pc' = "power_on" /\ written' \in BOOLEAN /\ info' \in BOOLEAN
    BY <1>15, GotoMoves DEF BeginCycle
  <2>2. pc = "idle" /\ rung' = "connect" /\ msg' = 1 /\ retry' = FALSE /\ claimed' = {}
        /\ taken' = {} /\ UNCHANGED <<tries, connected>>
    BY <1>15 DEF BeginCycle
  <2>3. retry' \in BOOLEAN
    BY <2>2
  <2>4. msg' \in 1 .. Messages + 1
    BY <2>2, ModemAssumption
  <2>5. Placed' /\ ConnectedInv'
    BY <1>1, <2>1, <2>2, <2>3, <2>4 DEF Placed, ConnectedInv, Place, Rung, Acks
  <2>6. Kept'
    BY <1>2, <1>15, <2>2 DEF Kept, BeginCycle
  <2>7. Stays
    BY <1>5, <1>15, MovesStay DEF BeginCycle
  <2>8. NestedInv'
    BY <2>1, <2>2, <2>7, Unnested DEF Acks
  <2> QED
    BY <1>6, <2>5, <2>6, <2>8
<1>16. CASE PowerKey
  <2>1. pc' \in {"AT", "power_on", "idle"} /\ written' \in BOOLEAN /\ info' \in BOOLEAN
        /\ pc \in {"power_on", "power_off_hard"} /\ tries' \in 0 .. Tries
    <3>1. CASE pc = "power_on" /\ Goto("AT") /\ tries' = Tries
      <4>1. tries' \in 0 .. Tries
        BY <3>1, ModemAssumption
      <4> QED
        BY <3>1, <4>1, GotoMoves
    <3>2. CASE /\ pc = "power_off_hard" /\ UNCHANGED tries
               /\ Goto(IF rung = "level3" THEN "power_on" ELSE "idle")
      BY <1>1, <3>2, GotoMoves DEF Placed
    <3> QED
      BY <1>16, <3>1, <3>2 DEF PowerKey
  <2>2. /\ power' = (CASE power = "off" -> "on" [] power = "on" -> "off" [] OTHER -> power)
        /\ hung' = FALSE /\ cfg' = {} /\ session' = "none" /\ prompt' = FALSE /\ tx' = <<>>
        /\ UNCHANGED <<rung, msg, retry, connected, rx, faults, lates, downs, cut, history>>
    BY <1>16 DEF PowerKey
  <2>3. hung' \in BOOLEAN /\ prompt' \in BOOLEAN
    BY <2>2
  <2>4. power' \in {"on", "closing", "off"}
    BY <1>2, <2>2
  <2>5. Placed' /\ ConnectedInv'
    BY <1>1, <2>1, <2>2 DEF Placed, ConnectedInv, Place, Cmd, Acks
  <2>6. Kept'
    BY <1>2, <2>2, <2>3, <2>4 DEF Kept
  <2>7. Stays
    BY <1>5, <1>16, MovesStay DEF PowerKey
  <2>8. NestedInv'
    BY <2>1, <2>7, Unnested DEF Acks
  <2> QED
    BY <1>6, <2>5, <2>6, <2>8
<1>17. CASE Answer
  <2>1. /\ tx # <<>> /\ tx' = Tail(tx) /\ Head(tx) \in Sent
        /\ UNCHANGED <<dialogue, connected, hung, bounds, claimed>>
        /\ \E f \in Line : Swallowed(Head(tx), f) \/ Obeyed(Head(tx).cmd, f)
    BY <1>17, AnswerEffect
  <2>2. PICK f \in Line : Swallowed(Head(tx), f) \/ Obeyed(Head(tx).cmd, f)
    BY <2>1
  <2>3. tx' \in Seq(Sent) /\ Head(tx).cmd \in Cmd /\ Head(tx).msg \in 0 .. Messages + 1
    BY <1>2, <2>1, TakeOne DEF Sent
  <2>4. CASE Swallowed(Head(tx), f)
    <3>1. rx' \in Seq(Line) /\ UNCHANGED <<power, cfg, session>> /\ prompt' = FALSE
          /\ taken' \subseteq taken \cup ({Head(tx).msg} \ {0})
      BY <1>2, <2>4, SayOne DEF Swallowed
    <3>2. prompt' \in BOOLEAN
      BY <3>1
    <3>3. Kept'
      BY <1>2, <2>1, <2>3, <3>1, <3>2 DEF Kept
    <3> QED
      BY <1>6, <1>7, <2>1, <3>3
  <2>5. CASE Obeyed(Head(tx).cmd, f)
    <3>1. rx' \in Seq(Line)
      BY <1>2, <2>3, <2>5, HeardLines DEF Obeyed
    <3>2. /\ power' \in {"on", "closing", "off"} /\ cfg' \subseteq Config /\ prompt' \in BOOLEAN
          /\ session' \in {"none", "tcp", "mqtt", "subscribed"} /\ taken' = taken
      BY <1>2, <2>5 DEF Obeyed
    <3>3. Kept'
      BY <1>2, <2>1, <2>3, <3>1, <3>2 DEF Kept
    <3> QED
      BY <1>6, <1>7, <2>1, <3>3
  <2> QED
    BY <2>2, <2>4, <2>5
<1>18. CASE Refuse
  <2>1. /\ tx # <<>> /\ tx' = Tail(tx) /\ Head(tx) \in Sent
        /\ \E f \in {"CLOSED", "ERROR", "OK"} : Heard(Head(tx).cmd, f)
    BY <1>18, RefuseEffect
  <2>2. faults < MaxFault /\ faults' = faults + 1 /\ prompt' = FALSE
        /\ UNCHANGED <<dialogue, connected, power, hung, cfg, session, lates, downs, cut, history>>
    BY <1>18 DEF Refuse
  <2>3. faults' \in 0 .. MaxFault
    BY <1>2, <2>2, ModemAssumption
  <2>4. prompt' \in BOOLEAN
    BY <2>2
  <2>5. tx' \in Seq(Sent) /\ Head(tx).cmd \in Cmd /\ {"CLOSED", "ERROR", "OK"} \subseteq Line
    BY <1>2, <2>1, TakeOne DEF Sent, Line
  <2>6. rx' \in Seq(Line)
    BY <1>2, <2>1, <2>5, HeardLines
  <2>7. Kept'
    BY <1>2, <2>2, <2>3, <2>4, <2>5, <2>6 DEF Kept
  <2> QED
    BY <1>6, <1>7, <2>2, <2>7
<1>19. CASE LoseSession
  <2>1. faults < MaxFault /\ faults' = faults + 1 /\ session' = "none"
        /\ \E line \in Lost : rx' = rx \o <<line>>
        /\ UNCHANGED <<dialogue, connected, power, hung, cfg, prompt, tx, lates, downs, cut, history>>
    BY <1>19 DEF LoseSession, Says
  <2>2. faults' \in 0 .. MaxFault
    BY <1>2, <2>1, ModemAssumption
  <2>3. Lost \subseteq Line
    BY DEF Lost, Line
  <2>4. rx' \in Seq(Line)
    BY <1>2, <2>1, <2>3, SayOne
  <2>5. Kept'
    BY <1>2, <2>1, <2>2, <2>4 DEF Kept
  <2> QED
    BY <1>6, <1>7, <2>1, <2>5
<1>20. CASE Hang
  <2>1. faults < MaxFault /\ faults' = faults + 1 /\ hung' = TRUE
        /\ UNCHANGED <<dialogue, connected, power, cfg, session, prompt, tx, rx, lates, downs, cut, history>>
    BY <1>20 DEF Hang
  <2>2. faults' \in 0 .. MaxFault
    BY <1>2, <2>1, ModemAssumption
  <2>3. hung' \in BOOLEAN
    BY <2>1
  <2>4. Kept'
    BY <1>2, <2>1, <2>2, <2>3 DEF Kept
  <2> QED
    BY <1>6, <1>7, <2>1, <2>4
<1>21. CASE PowersDown
  <2>1. power' = "off" /\ tx' = <<>>
        /\ UNCHANGED <<dialogue, connected, hung, cfg, session, prompt, rx, bounds, history>>
    BY <1>21 DEF PowersDown
  <2>2. Kept'
    BY <1>2, <2>1 DEF Kept
  <2> QED
    BY <1>6, <1>7, <2>1, <2>2
<1>22. CASE UNCHANGED vars
  <2>1. Kept'
    BY <1>2, <1>22 DEF Kept, vars
  <2> QED
    BY <1>6, <1>7, <1>22, <2>1 DEF vars
<1>23. CASE PassDownlink
  <2>1. downs < MaxDown /\ downs' = downs + 1 /\ rx' = rx \o <<"+MSUB">>
        /\ UNCHANGED <<dialogue, connected, modem, tx, faults, lates, cut, history>>
    BY <1>23 DEF PassDownlink, Says
  <2>2. downs' \in 0 .. MaxDown
    BY <1>2, <2>1, ModemAssumption
  <2>3. "+MSUB" \in Line
    BY DEF Line
  <2>4. rx' \in Seq(Line)
    BY <1>2, <2>1, <2>3, SayOne
  <2>5. Kept'
    BY <1>2, <2>1, <2>2, <2>4 DEF Kept
  <2> QED
    BY <1>6, <1>7, <2>1, <2>5
<1> QED
  BY <1>9, <1>10, <1>11, <1>12, <1>13, <1>14, <1>15, <1>16, <1>17, <1>18, <1>19,
     <1>20, <1>21, <1>22, <1>23 DEF Next, Thread

-----------------------------------------------------------------------------
(***************************************************************************)
(* Commands and answers in step                                            *)
(***************************************************************************)

\* Which lines are which.
LEMMA LinesDiffer ==
  ASSUME NEW c \in Cmd
  PROVE  /\ Urc \cap Ending(c) = {} /\ Urc \cap Awaited(c) = {}
         /\ Before(c) \cap Ending(c) = {} /\ Before(c) \cap Awaited(c) = {}
         /\ Urc \cap Before(c) = {} /\ "ERROR" \notin Before(c)
         /\ Ending(c) \cap Awaited(c) \subseteq {Done(c)}
         /\ Done(c) \in Awaited(c) /\ Done(c) # "ERROR" /\ Done(c) \notin Urc
<1> USE DEF Urc, Lost
<1>1. CASE c = "SSLMIPSTART"
  BY <1>1 DEF Before, Ending, Done, Awaited
<1>2. CASE c = "MCONNECT"
  BY <1>2 DEF Before, Ending, Done, Awaited
<1>3. CASE c = "MSUB"
  BY <1>3 DEF Before, Ending, Done, Awaited
<1>4. CASE c \in {"MPUBEX", "ack"}
  <2>1. Done(c) = ">" /\ Awaited(c) = {">"} /\ Before(c) = {}
    BY <1>4 DEF Before, Done, Awaited
  <2> QED
    BY <2>1 DEF Ending
<1>5. CASE c \in {"payload", "ackbytes"}
  <2>1. Done(c) = "SEND OK" /\ Awaited(c) = {"SEND OK"} /\ Before(c) = {}
    BY <1>5 DEF Before, Done, Awaited
  <2> QED
    BY <2>1 DEF Ending
<1>6. CASE c \notin {"SSLMIPSTART", "MCONNECT", "MSUB", "MPUBEX", "ack", "payload", "ackbytes"}
  <2>1. Done(c) = "OK" /\ Awaited(c) = {"OK", "CONNECT OK", "CONNACK OK", "SEND OK"}
    BY <1>6 DEF Done, Awaited
  <2>2. Before(c) \subseteq {"REGISTERED"}
    BY <1>6 DEF Before
  <2> QED
    BY <2>1, <2>2 DEF Ending
<1> QED
  BY <1>1, <1>2, <1>3, <1>4, <1>5, <1>6

\* The thread goes on once the answer of its command has been read.
LEMMA EndsInStep ==
  ASSUME TypeOK, ConnectedInv, NestedInv, TimelyInv, NEW ok \in BOOLEAN, Ends(ok),
         written \/ (pc = "MPUBEX" /\ ~ok),
         UNCHANGED <<power, hung, prompt, tx, taken>>, ~stale',
         Silent', Works => tx = <<>>, claimed' \subseteq taken,
         ok => Effect(pc),
         pc \in {"MPUBEX", "ack"} /\ ~ok => \A i \in DOMAIN rx : rx[i] # ">"
  PROVE  TimelyInv'
<1>1. Ended(ok)
  BY EndsMoves, TwoParts
<1>2. InStep'
  <2>1. (Works => tx = <<>>)'
    BY DEF Works
  <2>2. CASE pc \notin Acks
    <3>1. /\ written' = FALSE /\ spent' = FALSE /\ pc' \notin Acks
          /\ over' = over \/ over' = FALSE
      BY <1>1, <2>2 DEF Ended
    <3>2. pc # "poll"
      BY DEF TimelyInv, InStep, Cmd, Config, Acks
    <3>3. ~over'
      BY <2>2, <3>1, <3>2 DEF TimelyInv, InStep
    <3> QED
      BY <2>1, <3>1, <3>3 DEF InStep
  <2>3. CASE pc \in Acks /\ Resume
    <3>1. outer = <<"poll">> /\ pc' = Head(outer) /\ written' = (Head(outer) # "poll")
      BY <2>3 DEF TimelyInv, InStep, Resume
    <3>2. Head(outer) = "poll"
      BY <3>1
    <3>3. pc' = "poll" /\ ~written'
      BY <3>1, <3>2, Zenon
    <3> QED
      BY <2>1, <3>3 DEF InStep, Acks
  <2>4. CASE pc' = "ackbytes" /\ Stays /\ written' = FALSE /\ pc \in Acks
    <3>1. outer' = <<"poll">> /\ spent' = FALSE
      BY <2>4 DEF TimelyInv, InStep, Stays
    <3> QED
      BY <2>1, <2>4, <3>1 DEF InStep, Acks
  <2> QED
    BY <1>1, <2>2, <2>3, <2>4 DEF Ended
<1>3. PromptInv'
  <2>1. ASSUME Works, prompt
        PROVE  pc' \in {"payload", "ackbytes"} /\ written' = FALSE
    <3>1. pc \in {"MPUBEX", "ack"} /\ \E i \in DOMAIN rx : rx[i] = ">"
      BY <2>1 DEF TimelyInv, PromptInv
    <3>2. ok
      BY <3>1
    <3> QED
      BY <1>1, <3>1, <3>2 DEF Ended, Acks
  <2>2. (Works' <=> Works) /\ prompt' = prompt
    BY DEF Works
  <2> QED
    BY <2>1, <2>2 DEF PromptInv
<1>4. TimelyOff => PowerInv'
  <2>1. ASSUME TimelyOff
        PROVE  PowerInv'
    <3>1. PowerInv /\ power' = power
      BY <2>1 DEF TimelyInv
    <3>2. CASE pc = "CPOWD"
      BY <1>1, <3>1, <3>2 DEF PowerInv, Ended, Effect
    <3>3. CASE pc # "CPOWD"
      <4>1. pc \notin {"idle", "power_on", "power_off_hard", "CPOWD"}
        BY <3>3 DEF Ends, Config, Acks
      <4>2. pc' \in Cmd \cup {"poll"} /\ power = "on"
        BY <1>1, <3>1, <3>3, <4>1 DEF Ended, PowerInv
      <4> QED
        BY <3>1, <4>2 DEF PowerInv, Cmd, Config, Acks
    <3> QED
      BY <3>2, <3>3
  <2> QED
    BY <2>1
<1>5. claimed' \subseteq taken'
  OBVIOUS
<1> QED
  BY <1>2, <1>3, <1>4, <1>5 DEF TimelyInv

\* A line is read that ends nothing.
LEMMA TailInStep ==
  ASSUME TypeOK, InStep, written, rx # <<>>, rx' = Tail(rx), Head(rx) \notin Ending(pc),
         UNCHANGED <<pc, written, msg, outer, spent, over, modem, tx, taken>>
  PROVE  InStep'
<1>1. rx \in Seq(Line) /\ pc \in Cmd
  BY DEF TypeOK, InStep
<1>2. /\ Head(rx) = rx[1] /\ 1 \in DOMAIN rx
      /\ \A i \in DOMAIN rx' : i + 1 \in DOMAIN rx /\ rx'[i] = rx[i + 1]
      /\ \A i \in DOMAIN rx : i = 1 \/ (i - 1 \in DOMAIN rx' /\ rx'[i - 1] = rx[i])
      /\ \A i \in DOMAIN rx : i \in Nat /\ i >= 1
  BY <1>1, TakeOne
<1>3. \A i \in DOMAIN rx' : i \in Int
  <2>1. rx' \in Seq(Line)
    BY <1>1, TakeOne
  <2> QED
    BY <2>1
<1>4. (Works' <=> Works) /\ UNCHANGED power
  BY DEF Works
<1>5. Silent => Silent'
  BY <1>2 DEF Silent
<1>6. \A i \in DOMAIN rx' : rx'[i] \in Urc \cup Before(pc) \cup Ending(pc)
  BY <1>2 DEF InStep
<1>7. \A i, j \in DOMAIN rx' : i < j /\ rx'[i] \in Ending(pc) => rx'[j] \in Urc
  <2>1. SUFFICES ASSUME NEW i \in DOMAIN rx', NEW j \in DOMAIN rx', i < j,
                        rx'[i] \in Ending(pc)
                 PROVE  rx'[j] \in Urc
    OBVIOUS
  <2>2. i + 1 < j + 1
    BY <1>3, <2>1
  <2> QED
    BY <1>2, <2>1, <2>2 DEF InStep
<1>8. \A i \in DOMAIN rx' : rx'[i] = Done(pc) => Effect(pc)
  BY <1>2 DEF InStep
<1>9. (Effect(pc) => Effect(pc)') /\ pc' = pc /\ written' = written
  BY DEF Effect
<1>10. Works => tx = <<>> \/ (tx = <<[cmd |-> pc, msg |-> IF over THEN 0 ELSE msg]>> /\ Silent)
  BY DEF InStep
<1> QED
  BY <1>1, <1>4, <1>5, <1>6, <1>7, <1>8, <1>9, <1>10 DEF InStep

\* The modem answers the one command under way.
LEMMA AnswersInStep ==
  ASSUME TypeOK, InStep, Works, tx # <<>>, tx' = Tail(tx),
         NEW f \in Line, Heard(Head(tx).cmd, f), f \in Urc \cup Ending(Head(tx).cmd),
         UNCHANGED dialogue,
         f = Done(pc) => Effect(pc)'
  PROVE  /\ InStep' /\ written /\ pc \in Cmd /\ Head(tx) = [cmd |-> pc, msg |-> IF over THEN 0 ELSE msg]
         /\ Silent /\ \E i \in DOMAIN rx' : rx'[i] = f
<1>1. written /\ pc \in Cmd /\ tx = <<[cmd |-> pc, msg |-> IF over THEN 0 ELSE msg]>> /\ Silent
  BY DEF InStep
<1>2. Head(tx) = [cmd |-> pc, msg |-> IF over THEN 0 ELSE msg] /\ tx' = <<>> /\ Head(tx).cmd = pc
  BY <1>1
<1>3. rx \in Seq(Line)
  BY DEF TypeOK
<1>4. /\ rx' \in Seq(Line)
      /\ \E n \in DOMAIN rx' : /\ rx'[n] = f
                               /\ \A i \in DOMAIN rx' : i <= n
                               /\ \A i \in DOMAIN rx' :
                                    i < n => rx'[i] \in Urc \cup Before(pc)
  BY <1>1, <1>2, <1>3, HeardLines
<1>5. PICK n \in DOMAIN rx' : /\ rx'[n] = f
                              /\ \A i \in DOMAIN rx' : i <= n
                              /\ \A i \in DOMAIN rx' :
                                   i < n => rx'[i] \in Urc \cup Before(pc)
  BY <1>4
<1>6. \A i \in DOMAIN rx' : i \in Nat
  BY <1>4
<1>7. \A i \in DOMAIN rx' : i < n \/ i = n
  BY <1>5, <1>6
<1>8. \A i \in DOMAIN rx' : rx'[i] \in Urc \cup Before(pc) \cup Ending(pc)
  BY <1>2, <1>5, <1>7
<1>9. \A i \in DOMAIN rx' : rx'[i] \in Ending(pc) => i = n
  BY <1>1, <1>5, <1>7, LinesDiffer
<1>10. \A i, j \in DOMAIN rx' : i < j /\ rx'[i] \in Ending(pc) => rx'[j] \in Urc
  <2>1. SUFFICES ASSUME NEW i \in DOMAIN rx', NEW j \in DOMAIN rx', i < j, rx'[i] \in Ending(pc)
                 PROVE  FALSE
    OBVIOUS
  <2>2. i = n /\ j <= n
    BY <1>5, <1>9, <2>1
  <2> QED
    BY <1>6, <2>1, <2>2
<1>11. \A i \in DOMAIN rx' : rx'[i] = Done(pc) => Effect(pc)'
  <2>1. Done(pc) \in Ending(pc)
    BY DEF Ending
  <2> QED
    BY <1>5, <1>9, <2>1
<1>12. pc' = pc /\ written' = written
  OBVIOUS
<1>13. InStep'
  BY <1>1, <1>2, <1>8, <1>10, <1>11, <1>12 DEF InStep
<1> QED
  BY <1>1, <1>2, <1>4, <1>5, <1>13

-----------------------------------------------------------------------------
(***************************************************************************)
(* The steps of the thread                                                 *)
(***************************************************************************)

LEMMA NotConnectedTimely ==
  ASSUME TypeOK, ConnectedInv, NestedInv, TimelyInv, NotConnected
  PROVE  TimelyInv'
<1>1. /\ pc = "MPUBEX" /\ ~written /\ Ends(FALSE)
      /\ UNCHANGED <<power, hung, prompt, stale, tx, rx, taken, claimed>>
  BY DEF NotConnected, Ends
<1>2. Silent /\ (Works => tx = <<>>) /\ claimed \subseteq taken /\ ~stale
  BY <1>1 DEF TimelyInv, InStep
<1>3. Silent' /\ \A i \in DOMAIN rx : rx[i] # ">"
  BY <1>1, <1>2 DEF Silent, Urc, Lost
<1>4. FALSE \in BOOLEAN
  OBVIOUS
<1> QED
  BY <1>1, <1>2, <1>3, <1>4, EndsInStep

LEMMA WriteTimely ==
  ASSUME TypeOK, ConnectedInv, NestedInv, TimelyInv, Write
  PROVE  TimelyInv'
<1>1. /\ pc \in Cmd /\ ~written /\ written' = TRUE
      /\ tx' = IF Works THEN Append(tx, [cmd |-> pc, msg |-> IF over' THEN 0 ELSE msg]) ELSE tx
      /\ over' = (over \/ pc = "ack")
      /\ UNCHANGED <<pc, rung, tries, info, msg, retry, outer, spent>>
      /\ UNCHANGED <<connected, modem, rx, bounds, history>>
  BY DEF Write
<1>2. Silent /\ (Works => tx = <<>>)
  BY <1>1 DEF TimelyInv, InStep
<1>3. Works => tx' = <<[cmd |-> pc, msg |-> IF over' THEN 0 ELSE msg]>>
  BY <1>1, <1>2
<1>4. \A i \in DOMAIN rx : rx[i] \in Urc /\ rx[i] \notin Ending(pc) /\ rx[i] # Done(pc)
  BY <1>1, <1>2, LinesDiffer DEF Silent
<1>5. (Works' <=> Works) /\ (Silent' <=> Silent)
  BY <1>1 DEF Works, Silent
<1>6. InStep'
  <2>1. over' => pc \in Acks
    <3>1. pc # "poll" /\ (over => pc = "poll" \/ pc \in Acks)
      BY <1>1 DEF TimelyInv, InStep, Cmd, Config, Acks
    <3> QED
      BY <1>1, <3>1, Zenon DEF Acks
  <2>2. (pc \in Acks => outer = <<"poll">>) /\ (spent => pc = "poll")
    BY DEF TimelyInv, InStep
  <2> QED
    BY <1>1, <1>2, <1>3, <1>4, <1>5, <2>1, <2>2 DEF InStep
<1>7. PromptInv'
  <2>1. ASSUME Works, prompt
        PROVE  pc \in {"payload", "ackbytes"} /\ tx' # <<>>
    BY <1>1, <1>3, <2>1 DEF TimelyInv, PromptInv
  <2> QED
    BY <1>1, <1>5, <2>1 DEF PromptInv
<1>8. ~stale' /\ (TimelyOff => PowerInv') /\ claimed' \subseteq taken'
  BY <1>1 DEF TimelyInv, PowerInv
<1> QED
  BY <1>6, <1>7, <1>8 DEF TimelyInv

\* What is left to read once the line that ends an answer has been.
LEMMA AfterEnding ==
  ASSUME TypeOK, InStep, written, rx # <<>>, rx' = Tail(rx), Head(rx) \in Ending(pc)
  PROVE  /\ Silent' /\ (Works => tx = <<>>)
         /\ \A i \in DOMAIN rx : i = 1 \/ rx[i] \in Urc
         /\ Head(rx) = Done(pc) => Effect(pc)
<1>1. rx \in Seq(Line) /\ pc \in Cmd
  BY DEF TypeOK, InStep
<1>2. /\ Head(rx) = rx[1] /\ 1 \in DOMAIN rx
      /\ \A i \in DOMAIN rx' : i + 1 \in DOMAIN rx /\ rx'[i] = rx[i + 1]
      /\ \A i \in DOMAIN rx : i = 1 \/ (i - 1 \in DOMAIN rx' /\ rx'[i - 1] = rx[i])
      /\ \A i \in DOMAIN rx : i \in Nat /\ i >= 1
  BY <1>1, TakeOne
<1>3. Head(rx) \notin Urc
  BY <1>1, LinesDiffer
<1>4. \A i \in DOMAIN rx : i = 1 \/ 1 < i
  BY <1>2
<1>5. \A i \in DOMAIN rx : i = 1 \/ rx[i] \in Urc
  BY <1>2, <1>4 DEF InStep
<1>6. \A i \in DOMAIN rx' : rx'[i] \in Urc
  <2>1. \A i \in DOMAIN rx' : i + 1 # 1
    <3>1. \A i \in DOMAIN rx' : i \in Nat /\ i >= 1
      <4>1. rx' \in Seq(Line)
        BY <1>1, TakeOne
      <4> QED
        BY <4>1
    <3> QED
      BY <3>1
  <2> QED
    BY <1>2, <1>5, <2>1
<1>7. Works => tx = <<>>
  BY <1>2, <1>3 DEF InStep, Silent
<1>8. Head(rx) = Done(pc) => Effect(pc)
  BY <1>2 DEF InStep
<1> QED
  BY <1>5, <1>6, <1>7, <1>8 DEF Silent

LEMMA ReadTimely ==
  ASSUME TypeOK, ConnectedInv, NestedInv, TimelyInv, Read, ~crossed'
  PROVE  TimelyInv'
<1>1. /\ written /\ rx # <<>> /\ rx' = Tail(rx)
      /\ UNCHANGED <<power, hung, cfg, session, prompt, tx, faults, lates, downs, cut, stale, taken>>
  BY DEF Read
<1>2. rx \in Seq(Line) /\ pc \in Cmd /\ InStep /\ claimed \subseteq taken /\ ~stale
  BY <1>1 DEF TypeOK, TimelyInv, InStep
<1>3. /\ Head(rx) = rx[1] /\ 1 \in DOMAIN rx
      /\ \A i \in DOMAIN rx : i = 1 \/ (i - 1 \in DOMAIN rx' /\ rx'[i - 1] = rx[i])
  BY <1>1, <1>2, TakeOne
<1>4. Head(rx) \in Urc \cup Before(pc) \cup Ending(pc)
  BY <1>1, <1>2, <1>3 DEF InStep
\* Lines that end nothing.
<1>5. ASSUME Head(rx) \notin Ending(pc), Head(rx) # ">" \/ pc \notin {"MPUBEX", "ack"},
             UNCHANGED <<pc, written, rung, tries, msg, retry, outer, spent, over, claimed>>
      PROVE  TimelyInv'
  <2>1. InStep'
    BY <1>1, <1>2, <1>5, TailInStep
  <2>2. PromptInv'
    <3>1. ASSUME pc \in {"MPUBEX", "ack"}, \E i \in DOMAIN rx : rx[i] = ">"
          PROVE  \E i \in DOMAIN rx' : rx'[i] = ">"
      BY <1>3, <1>5, <3>1
    <3>2. (Works' <=> Works) /\ prompt' = prompt /\ pc' = pc /\ written' = written /\ tx' = tx
      BY <1>1, <1>5 DEF Works
    <3> QED
      BY <3>1, <3>2 DEF TimelyInv, PromptInv
  <2>3. ~stale' /\ (TimelyOff => PowerInv') /\ claimed' \subseteq taken'
    BY <1>1, <1>5 DEF TimelyInv, PowerInv
  <2> QED
    BY <2>1, <2>2, <2>3 DEF TimelyInv
<1>6. CASE Head(rx) \in Urc /\ UNCHANGED <<dialogue, claimed>>
  <2>1. Head(rx) \notin Ending(pc) /\ Head(rx) # ">"
    BY <1>2, <1>6, LinesDiffer DEF Urc, Lost
  <2> QED
    BY <1>5, <1>6, <2>1
<1>7. CASE /\ Head(rx) \in Awaited(pc) /\ Reports(TRUE)
           /\ Ends(pc = "CGREG" => info /\ Head(rx) = "OK")
  <2> DEFINE ok == pc = "CGREG" => info /\ Head(rx) = "OK"
  <2>1. ok \in BOOLEAN
    BY Zenon
  <2>2. Head(rx) \in Ending(pc) /\ Head(rx) = Done(pc)
    BY <1>2, <1>4, <1>7, LinesDiffer
  <2>3. /\ Silent' /\ (Works => tx = <<>>) /\ Effect(pc)
    BY <1>1, <1>2, <2>2, AfterEnding
  <2>4. claimed' \subseteq taken
    BY <1>2, <1>7, <2>3 DEF Reports, Effect
  <2>5. pc \in {"MPUBEX", "ack"} => ok
    OBVIOUS
  <2>6. Ends(ok)
    BY <1>7
  <2> HIDE DEF ok
  <2> QED
    BY <1>1, <1>2, <2>1, <2>3, <2>4, <2>5, <2>6, EndsInStep
<1>8. CASE Head(rx) = "ERROR" /\ Ends(FALSE) /\ Reports(FALSE)
  <2>1. Head(rx) \in Ending(pc)
    BY <1>8 DEF Ending
  <2>2. /\ Silent' /\ (Works => tx = <<>>)
        /\ \A i \in DOMAIN rx : i = 1 \/ rx[i] \in Urc
    BY <1>1, <1>2, <2>1, AfterEnding
  <2>3. \A i \in DOMAIN rx : rx[i] # ">"
    BY <1>3, <1>8, <2>2 DEF Urc, Lost
  <2>4. claimed' \subseteq taken
    BY <1>2, <1>8 DEF Reports
  <2>5. FALSE \in BOOLEAN
    OBVIOUS
  <2> QED
    BY <1>1, <1>2, <1>8, <2>2, <2>3, <2>4, <2>5, EndsInStep
<1>9. CASE /\ Head(rx) \notin Awaited(pc) \cup {"ERROR"}
           /\ UNCHANGED <<pc, written, rung, tries, msg, retry, outer, spent, over, claimed>>
  <2>1. Head(rx) \notin Ending(pc) /\ (pc \in {"MPUBEX", "ack"} => Head(rx) # ">")
    BY <1>2, <1>9, LinesDiffer DEF Ending, Awaited
  <2> QED
    BY <1>5, <1>9, <2>1
\* A downlink that is acked, or a lost session taken for a refusal, would be crossed.
<1>10. CASE Head(rx) = "+MSUB" /\ Downlink /\ UNCHANGED <<connected, claimed, deaf>>
  <2>1. pc # "poll"
    BY <1>2 DEF Cmd, Config, Acks
  <2>2. UNCHANGED dialogue
    BY <1>10, <2>1 DEF Downlink
  <2> QED
    BY <1>6, <1>10, <2>2 DEF Urc
<1>11. CASE /\ Refused(Head(rx)) /\ Ends(FALSE) /\ Reports(FALSE)
            /\ crossed' = (crossed \/ Head(rx) \in Lost)
  <2>1. Head(rx) = "ERROR"
    BY <1>11 DEF Refused, Lost
  <2> QED
    BY <1>8, <1>11, <2>1
<1>12. CASE Head(rx) \in Lost /\ UNCHANGED <<dialogue, claimed>>
  BY <1>6, <1>12 DEF Urc
<1> QED
  BY <1>7, <1>9, <1>10, <1>11, <1>12 DEF Read

LEMMA TimeoutTimely ==
  ASSUME TypeOK, ConnectedInv, NestedInv, TimelyInv, Timeout, lates = 0, lates' = 0
  PROVE  TimelyInv'
<1>0. ~spent
  BY DEF Timeout, TimelyInv, InStep, Cmd, Config, Acks
<1>1. /\ written /\ rx = <<>> /\ Ends(FALSE) /\ Reports(FALSE)
      /\ UNCHANGED <<modem, tx, rx, faults, marks, taken>>
  BY <1>0 DEF Timeout
<1>2. Works => tx = <<>>
  BY <1>0 DEF Timeout
<1>3. claimed' \subseteq taken /\ ~stale'
  BY <1>1 DEF Reports, TimelyInv
<1>4. Silent' /\ (\A i \in DOMAIN rx : rx[i] # ">") /\ FALSE \in BOOLEAN
  BY <1>1 DEF Silent
<1> QED
  BY <1>1, <1>2, <1>3, <1>4, EndsInStep

LEMMA PollTimely ==
  ASSUME TypeOK, ConnectedInv, NestedInv, TimelyInv, Poll
  PROVE  TimelyInv'
<1>1. pc = "poll" /\ UNCHANGED <<modem, tx, faults, lates, cut, stale, history>>
  BY DEF Poll
<1>2. ~written /\ Silent /\ (Works => tx = <<>>) /\ ~(Works /\ prompt)
  BY <1>1 DEF TimelyInv, InStep, PromptInv, Cmd, Config, Acks
<1>3. rx \in Seq(Line) /\ (Works' <=> Works)
  BY <1>1 DEF TypeOK, Works
<1>4. CASE rx # <<>> /\ rx' = Tail(rx) /\ UNCHANGED dialogue
  <2>1. \A i \in DOMAIN rx' : rx'[i] \in Urc
    BY <1>2, <1>3, <1>4, TakeOne DEF Silent
  <2>2. InStep' /\ PromptInv'
    BY <1>1, <1>2, <1>3, <1>4, <2>1 DEF TimelyInv, InStep, Silent, PromptInv
  <2>3. ~stale' /\ (TimelyOff => PowerInv') /\ claimed' \subseteq taken'
    BY <1>1, <1>4 DEF TimelyInv, PowerInv
  <2> QED
    BY <2>2, <2>3 DEF TimelyInv
<1>5. CASE Fill("MPUBEX") /\ UNCHANGED <<rx, rung, tries, msg, retry, connected>>
  <2>1. pc' = "MPUBEX" /\ written' = FALSE /\ spent' = FALSE /\ over' = FALSE
    BY <1>5 DEF Fill, Go
  <2>2. InStep' /\ PromptInv'
    BY <1>1, <1>2, <1>3, <1>5, <2>1 DEF InStep, Silent, PromptInv, Acks
  <2>3. ~stale' /\ (TimelyOff => PowerInv') /\ claimed' \subseteq taken'
    BY <1>1, <1>5, <2>1 DEF TimelyInv, PowerInv
  <2> QED
    BY <2>2, <2>3 DEF TimelyInv
\* A downlink is acked inside the poll.
<1>6. CASE /\ rx # <<>> /\ rx' = Tail(rx)
           /\ pc' = "ack" /\ written' = FALSE /\ spent' = FALSE /\ outer' = <<pc>> \o outer
           /\ UNCHANGED <<rung, tries, info, msg, retry, over>>
  <2>1. \A i \in DOMAIN rx' : rx'[i] \in Urc
    BY <1>2, <1>3, <1>6, TakeOne DEF Silent
  <2>2. outer = <<>>
    BY <1>1 DEF NestedInv, Acks
  <2>3. outer' = <<"poll">>
    BY <1>1, <1>6, <2>2
  <2>4. InStep' /\ PromptInv'
    BY <1>1, <1>2, <1>3, <1>6, <2>1, <2>3 DEF InStep, Silent, PromptInv, Acks
  <2>5. ~stale' /\ (TimelyOff => PowerInv') /\ claimed' \subseteq taken'
    BY <1>1, <1>6 DEF TimelyInv, PowerInv
  <2> QED
    BY <2>4, <2>5 DEF TimelyInv
<1> QED
  BY <1>4, <1>5, <1>6 DEF Poll, Downlink

LEMMA BeginCycleTimely ==
  ASSUME TypeOK, ConnectedInv, NestedInv, TimelyInv, BeginCycle
  PROVE  TimelyInv'
<1>1. /\ pc = "idle" /\ rung' = "connect" /\ claimed' = {} /\ taken' = {}
      /\ UNCHANGED <<tries, connected, modem, tx, rx, faults, lates, cut, stale>>
  BY DEF BeginCycle
<1>2. pc' = "power_on" /\ written' = FALSE /\ spent' = FALSE /\ over' = FALSE
  BY DEF BeginCycle, Goto, Fill, Go
<1>3. ~written /\ Silent /\ (Works => tx = <<>>) /\ ~(Works /\ prompt)
  BY <1>1 DEF TimelyInv, InStep, PromptInv, Cmd, Config, Acks
<1>4. (Works' <=> Works) /\ Silent'
  BY <1>1, <1>3 DEF Works, Silent
<1>5. InStep' /\ PromptInv'
  BY <1>1, <1>2, <1>3, <1>4 DEF InStep, PromptInv, Acks
<1>6. ~stale' /\ (TimelyOff => PowerInv')
  BY <1>1, <1>2 DEF TimelyInv, PowerInv
<1> QED
  BY <1>1, <1>5, <1>6 DEF TimelyInv

LEMMA PowerKeyTimely ==
  ASSUME TypeOK, ConnectedInv, NestedInv, TimelyInv, PowerKey
  PROVE  TimelyInv'
<1>1. /\ power' = (CASE power = "off" -> "on" [] power = "on" -> "off" [] OTHER -> power)
      /\ hung' = FALSE /\ prompt' = FALSE /\ tx' = <<>>
      /\ UNCHANGED <<rung, msg, retry, rx, faults, lates, cut, history>>
  BY DEF PowerKey
<1>2. /\ written' = FALSE /\ spent' = FALSE /\ over' = over
      /\ \/ pc = "power_on" /\ power # "closing" /\ pc' = "AT"
         \/ pc = "power_off_hard" /\ pc' \in {"power_on", "idle"}
  <2>1. CASE pc = "power_on" /\ power # "closing" /\ Goto("AT")
    BY <2>1 DEF Goto, Fill, Go
  <2>2. CASE pc = "power_off_hard" /\ Goto(IF rung = "level3" THEN "power_on" ELSE "idle")
    BY <2>2 DEF Goto, Fill, Go
  <2> QED
    BY <2>1, <2>2 DEF PowerKey
<1>3. ~written /\ Silent /\ ~over
  BY <1>2 DEF TimelyInv, InStep, Cmd, Config, Acks
<1>4. Silent'
  BY <1>1, <1>3 DEF Silent
<1>5. InStep' /\ PromptInv'
  BY <1>1, <1>2, <1>3, <1>4 DEF InStep, PromptInv, Acks
\* What is left to read says of no session that it is there.
<1>6. ~stale'
  <2>1. Range(rx) \cap SessionLine = {}
    BY <1>3 DEF Silent, Urc, Lost, Range, SessionLine
  <2>2. stale' = stale \/ stale' = (Range(rx) \cap SessionLine # {})
    BY DEF PowerKey
  <2> QED
    BY <2>1, <2>2 DEF TimelyInv
<1>7. power \in {"on", "closing", "off"}
  BY DEF TypeOK
<1>8. TimelyOff => PowerInv'
  BY <1>1, <1>2, <1>7 DEF TimelyInv, PowerInv
<1>9. claimed' \subseteq taken'
  BY <1>1 DEF TimelyInv
<1> QED
  BY <1>5, <1>8, <1>9, <1>6 DEF TimelyInv

-----------------------------------------------------------------------------
(***************************************************************************)
(* The steps of the modem                                                  *)
(***************************************************************************)

LEMMA AnswerTimely ==
  ASSUME TypeOK, TimelyInv, Answer
  PROVE  TimelyInv'
<1>1. /\ Works /\ tx # <<>> /\ tx' = Tail(tx)
      /\ UNCHANGED <<dialogue, connected, hung, bounds, claimed>>
      /\ \E f \in Line : Swallowed(Head(tx), f) \/ Obeyed(Head(tx).cmd, f)
  BY AnswerEffect
<1>2. PICK f \in Line : Swallowed(Head(tx), f) \/ Obeyed(Head(tx).cmd, f)
  BY <1>1
<1>3. InStep /\ PromptInv /\ ~stale /\ claimed \subseteq taken
      /\ (TimelyOff => PowerInv) /\ rx \in Seq(Line)
  BY DEF TimelyInv, TypeOK
<1>4. written /\ pc \in Cmd /\ tx = <<[cmd |-> pc, msg |-> IF over THEN 0 ELSE msg]>> /\ Silent
  BY <1>1, <1>3 DEF InStep
<1>5. Head(tx).cmd = pc /\ Head(tx).msg = IF over THEN 0 ELSE msg
  BY <1>4
<1>6. CASE Swallowed(Head(tx), f)
  <2>1. prompt /\ prompt' = FALSE /\ UNCHANGED <<power, cfg, session>>
        /\ rx' = rx \o <<f>> /\ f \in {"SEND OK", "ERROR"} /\ taken \subseteq taken'
        /\ (f = "SEND OK" /\ pc = "payload" => msg \in taken')
    <3>1. pc = "payload" => Head(tx).msg = msg /\ msg # 0
      BY <1>3, <1>5 DEF InStep, TypeOK, Acks
    <3> QED
      BY <1>5, <1>6, <3>1 DEF Swallowed
  <2>2. pc \in {"payload", "ackbytes"}
    BY <1>1, <1>3, <1>4, <2>1 DEF PromptInv, Silent, Urc, Lost
  <2>3. Heard(pc, f) /\ f \in Ending(pc) /\ Done(pc) = "SEND OK"
    BY <2>1, <2>2 DEF Heard, Ending, Done
  <2>4. Effect(pc)' \/ f # Done(pc)
    BY <1>1, <2>1, <2>2, <2>3 DEF Effect, Config
  <2>5. InStep'
    BY <1>1, <1>3, <1>5, <2>2, <2>3, <2>4, AnswersInStep
  <2>6. ~stale' /\ PromptInv' /\ (TimelyOff => PowerInv')
    BY <1>1, <1>3, <2>1 DEF PromptInv, PowerInv
  <2>7. claimed' \subseteq taken'
    BY <1>1, <1>3, <2>1
  <2> QED
    BY <2>5, <2>6, <2>7 DEF TimelyInv
<1>7. CASE Obeyed(Head(tx).cmd, f)
  <2>1. Obeyed(pc, f)
    BY <1>5, <1>7
  <2>2. /\ Heard(pc, f) /\ f \in Ending(pc) /\ taken' = taken
        /\ power' = (IF pc = "CPOWD" THEN "closing" ELSE power)
        /\ (pc = "payload" => f = "ERROR")
        /\ (prompt' => pc \in {"MPUBEX", "ack"} /\ f = ">")
    BY <2>1 DEF Obeyed
  <2>3. f = Done(pc) => Effect(pc)'
    <3>1. f = Done(pc) => pc # "payload"
      BY <1>4, <2>2, LinesDiffer DEF Done
    <3> QED
      BY <1>1, <2>2, <3>1 DEF Effect
  <2>4. InStep' /\ \E i \in DOMAIN rx' : rx'[i] = f
    BY <1>1, <1>3, <1>5, <2>2, <2>3, AnswersInStep
  <2>5. PromptInv'
    BY <1>1, <1>4, <2>2, <2>4 DEF PromptInv
  <2>6. ~stale' /\ (TimelyOff => PowerInv') /\ claimed' \subseteq taken'
    BY <1>1, <1>3, <2>2 DEF PowerInv
  <2> QED
    BY <2>4, <2>5, <2>6 DEF TimelyInv
<1> QED
  BY <1>2, <1>6, <1>7

LEMMA RefuseTimely ==
  ASSUME TypeOK, TimelyInv, Refuse
  PROVE  TimelyInv'
<1>1. /\ Works /\ tx # <<>> /\ tx' = Tail(tx)
      /\ \E f \in {"CLOSED", "ERROR", "OK"} :
           Heard(Head(tx).cmd, f) /\ (f = "OK" => Head(tx).cmd = "CGREG")
  BY RefuseEffect
<1>2. PICK f \in {"CLOSED", "ERROR", "OK"} :
        Heard(Head(tx).cmd, f) /\ (f = "OK" => Head(tx).cmd = "CGREG")
  BY <1>1
<1>3. /\ prompt' = FALSE
      /\ UNCHANGED <<dialogue, power, hung, lates, cut, stale, history>>
  BY DEF Refuse
<1>4. InStep /\ ~stale /\ claimed \subseteq taken /\ (TimelyOff => PowerInv)
  BY DEF TimelyInv
<1>5. pc \in Cmd /\ Head(tx).cmd = pc
  BY <1>1, <1>4 DEF InStep
<1>6. f \in Line /\ f \in Urc \cup Ending(pc)
  BY <1>2, <1>5 DEF Line, Ending, Done, Urc, Lost
<1>7. f = Done(pc) => Effect(pc)'
  <2>1. f = Done(pc) => pc = "CGREG"
    BY <1>2, <1>5, LinesDiffer DEF Urc, Lost
  <2> QED
    BY <1>3, <2>1 DEF Effect, Config
<1>8. InStep'
  BY <1>1, <1>2, <1>3, <1>4, <1>5, <1>6, <1>7, AnswersInStep
<1>9. ~stale' /\ PromptInv' /\ (TimelyOff => PowerInv') /\ claimed' \subseteq taken'
  BY <1>3, <1>4 DEF PromptInv, PowerInv
<1> QED
  BY <1>8, <1>9 DEF TimelyInv

\* A line that is no answer comes.
LEMMA UrcTimely ==
  ASSUME TypeOK, TimelyInv, NEW line \in Urc, rx' = rx \o <<line>>,
         UNCHANGED <<dialogue, power, hung, prompt, tx, lates, cut, stale, history>>
  PROVE  TimelyInv'
<1>2. InStep /\ ~stale /\ PromptInv /\ claimed \subseteq taken /\ (TimelyOff => PowerInv)
      /\ rx \in Seq(Line)
  BY DEF TimelyInv, TypeOK
<1>3. line \in Line
  BY DEF Urc, Lost, Line
<1>4. /\ DOMAIN rx = 1 .. Len(rx) /\ Len(rx) \in Nat /\ DOMAIN rx' = 1 .. Len(rx) + 1
      /\ (\A i \in DOMAIN rx : rx'[i] = rx[i]) /\ rx'[Len(rx) + 1] = line
  BY <1>2, <1>3, SayOne
<1>5. /\ \A i \in DOMAIN rx' : i = Len(rx) + 1 \/ (i \in DOMAIN rx /\ i < Len(rx) + 1)
      /\ Len(rx) + 1 \in DOMAIN rx' /\ DOMAIN rx \subseteq DOMAIN rx'
  BY <1>4
<1>6. \A i \in DOMAIN rx' : rx'[i] \in Urc \/ (i \in DOMAIN rx /\ rx'[i] = rx[i])
  BY <1>4, <1>5
<1>7. (Works' <=> Works) /\ (Silent => Silent')
  BY <1>6 DEF Works, Silent
<1>8. ASSUME ~written
      PROVE  InStep'
  BY <1>2, <1>7, <1>8 DEF InStep
<1>9. ASSUME written
      PROVE  InStep'
  <2>1. pc \in Cmd /\ (Works => tx = <<>> \/ (tx = <<[cmd |-> pc, msg |-> IF over THEN 0 ELSE msg]>> /\ Silent))
    BY <1>2, <1>9 DEF InStep
  <2>2. \A i \in DOMAIN rx' : rx'[i] \in Urc \cup Before(pc) \cup Ending(pc)
    BY <1>2, <1>6, <1>9 DEF InStep
  <2>3. \A i, j \in DOMAIN rx' : i < j /\ rx'[i] \in Ending(pc) => rx'[j] \in Urc
    <3>1. SUFFICES ASSUME NEW i \in DOMAIN rx', NEW j \in DOMAIN rx', i < j,
                          rx'[i] \in Ending(pc)
                   PROVE  rx'[j] \in Urc
      OBVIOUS
    <3>2. i \in DOMAIN rx /\ rx'[i] = rx[i]
      BY <1>6, <2>1, <3>1, LinesDiffer
    <3> QED
      BY <1>2, <1>6, <1>9, <3>1, <3>2 DEF InStep
  <2>4. \A i \in DOMAIN rx' : rx'[i] = Done(pc) => Effect(pc)
    <3>1. Done(pc) \notin Urc
      BY <2>1, LinesDiffer
    <3> QED
      BY <1>2, <1>6, <1>9, <3>1 DEF InStep
  <2>5. /\ (Effect(pc) => Effect(pc)') /\ pc' = pc /\ written' = written /\ msg' = msg /\ tx' = tx
        /\ UNCHANGED <<outer, spent, over>>
    BY DEF Effect
  <2>6. /\ pc \in Acks => outer = <<"poll">>
        /\ over => pc = "poll" \/ pc \in Acks
        /\ spent => pc = "poll"
    BY <1>2 DEF InStep
  <2> QED
    BY <1>7, <1>9, <2>1, <2>2, <2>3, <2>4, <2>5, <2>6 DEF InStep
<1>10. ~stale' /\ (TimelyOff => PowerInv') /\ claimed' \subseteq taken'
  BY <1>2 DEF PowerInv
<1>11. PromptInv'
  <2>1. (\E i \in DOMAIN rx : rx[i] = ">") => \E i \in DOMAIN rx' : rx'[i] = ">"
    BY <1>4, <1>5
  <2> QED
    BY <1>2, <1>7, <2>1 DEF PromptInv
<1> QED
  BY <1>8, <1>9, <1>10, <1>11 DEF TimelyInv

LEMMA LoseSessionTimely ==
  ASSUME TypeOK, TimelyInv, LoseSession
  PROVE  TimelyInv'
<1>1. /\ \E line \in Urc : rx' = rx \o <<line>>
      /\ UNCHANGED <<dialogue, power, hung, prompt, tx, lates, cut, stale, history>>
  BY DEF LoseSession, Says, Urc
<1> QED
  BY <1>1, UrcTimely

LEMMA PassDownlinkTimely ==
  ASSUME TypeOK, TimelyInv, PassDownlink
  PROVE  TimelyInv'
<1>1. /\ rx' = rx \o <<"+MSUB">> /\ "+MSUB" \in Urc
      /\ UNCHANGED <<dialogue, power, hung, prompt, tx, lates, cut, stale, history>>
  BY DEF PassDownlink, Says, Urc
<1> QED
  BY <1>1, UrcTimely

LEMMA HangTimely ==
  ASSUME TypeOK, TimelyInv, Hang
  PROVE  TimelyInv'
<1>1. /\ Works /\ ~Works'
      /\ UNCHANGED <<dialogue, power, prompt, tx, rx, lates, cut, stale, history>>
  BY DEF Hang, Works
<1>2. InStep'
  <2>1. (Silent' <=> Silent) /\ (Effect(pc) => Effect(pc)')
    BY <1>1 DEF Silent, Effect
  <2> QED
    BY <1>1, <2>1 DEF TimelyInv, InStep
<1>3. PromptInv' /\ ~stale'
  BY <1>1 DEF TimelyInv, PromptInv
<1>4. (TimelyOff => PowerInv') /\ claimed' \subseteq taken'
  BY <1>1 DEF TimelyInv, PowerInv
<1> QED
  BY <1>2, <1>3, <1>4 DEF TimelyInv

LEMMA PowersDownTimely ==
  ASSUME TypeOK, TimelyInv, PowersDown
  PROVE  TimelyInv'
<1>1. /\ power = "closing" /\ power' = "off" /\ tx' = <<>>
      /\ (TimelyOff => pc \notin {"CPOWD", "power_off_hard"})
      /\ UNCHANGED <<dialogue, hung, prompt, rx, bounds, history>>
  BY DEF PowersDown
<1>2. ~Works'
  BY <1>1 DEF Works
<1>3. InStep'
  <2>1. (Silent' <=> Silent) /\ (Effect(pc) => Effect(pc)')
    BY <1>1 DEF Silent, Effect
  <2> QED
    BY <1>1, <1>2, <2>1 DEF TimelyInv, InStep
<1>4. PromptInv' /\ ~stale'
  BY <1>1, <1>2 DEF TimelyInv, PromptInv
<1>5. (TimelyOff => PowerInv') /\ claimed' \subseteq taken'
  BY <1>1 DEF TimelyInv, PowerInv
<1> QED
  BY <1>3, <1>4, <1>5 DEF TimelyInv

LEMMA StutterTimely ==
  ASSUME TimelyInv, UNCHANGED vars
  PROVE  TimelyInv'
<1>1. UNCHANGED <<pc, written, rung, tries, info, msg, retry, connected, power, hung, cfg,
                  session, prompt, tx, rx, faults, lates, cut, stale, claimed, taken, outer, spent, over>>
  BY DEF vars
<1>2. (Works' <=> Works) /\ (Silent' <=> Silent) /\ (Effect(pc)' <=> Effect(pc))
  BY <1>1 DEF Works, Silent, Effect
<1>3. InStep'
  BY <1>1, <1>2 DEF TimelyInv, InStep
<1>4. PromptInv' /\ ~stale'
  BY <1>1, <1>2 DEF TimelyInv, PromptInv
<1>5. (TimelyOff => PowerInv') /\ claimed' \subseteq taken'
  BY <1>1 DEF TimelyInv, PowerInv
<1> QED
  BY <1>3, <1>4, <1>5 DEF TimelyInv

-----------------------------------------------------------------------------
(***************************************************************************)
(* Lines of a session, however late                                        *)
(***************************************************************************)

\* One trail has the lines of a session of another, or fewer, in their order.
Fewer(t, s) ==
  \E f \in [Marks(t) -> Marks(s)] :
    /\ \A p \in Marks(t) : s[f[p]] = t[p]
    /\ \A p, q \in Marks(t) : p < q => f[p] < f[q]

LEMMA FewerChains ==
  ASSUME NEW c, NEW w \in BOOLEAN, NEW r, NEW k \in BOOLEAN, NEW s, NEW t,
         Chains(c, w, r, k, s), Fewer(t, s)
  PROVE  Chains(c, w, r, k, t)
<1>1. PICK f \in [Marks(t) -> Marks(s)] :
            /\ \A p \in Marks(t) : s[f[p]] = t[p]
            /\ \A p, q \in Marks(t) : p < q => f[p] < f[q]
  BY DEF Fewer
<1>2. \A p \in Marks(t) : f[p] \in Marks(s)
  BY <1>1
<1>3. \A a, b : NeverThen(s, a, b) => NeverThen(t, a, b)
  BY <1>1, <1>2 DEF NeverThen
<1>4. \A a : OwnLast(s, a, w) => OwnLast(t, a, w)
  BY <1>1, <1>2 DEF OwnLast
<1>5. ASSUME NoWhole(s)
      PROVE  NoWhole(t)
  <2> SUFFICES ASSUME NEW p \in Marks(t), NEW q \in Marks(t), NEW m \in Marks(t),
                      p < q, q < m, t[p] = "CONNECT OK", t[q] = "CONNACK OK"
               PROVE  t[m] # "SUBACK"
    BY DEF NoWhole
  <2>1. f[p] \in Marks(s) /\ f[q] \in Marks(s) /\ f[m] \in Marks(s)
    BY <1>2
  <2>2. f[p] < f[q] /\ f[q] < f[m]
    BY <1>1
  <2>3. s[f[p]] = t[p] /\ s[f[q]] = t[q] /\ s[f[m]] = t[m]
    BY <1>1
  <2> QED
    BY <1>5, <2>1, <2>2, <2>3 DEF NoWhole
<1>6. Single(s, c, w) => Single(t, c, w)
  BY <1>1, <1>2, <1>4 DEF Single
<1>7. Marks(s) = {} => Marks(t) = {}
  BY <1>2
<1> QED
  BY <1>3, <1>4, <1>5, <1>6, <1>7 DEF Chains

-----------------------------------------------------------------------------
\* The ways from a command, with its rung and what is believed of the session.
Gone(c, r) == pc' = c /\ rung' = r /\ written' = FALSE

\* An ack is through, or its bytes are next.
AckWay ==
  /\ pc \in Acks /\ pc' \in Waits /\ written' \in BOOLEAN
  /\ rung \in {"publish", "disconnect"} /\ rung' = rung /\ connected' = connected
  /\ pc' \in {"MPUBEX", "payload", "poll"} => rung = "publish"

Ways(ok) ==
  \/ AckWay
  \/ (connected' => connected)
     /\ \/ \E c \in {"MDISCONNECT", "CPOWD"} : Gone(c, "disconnect")
        \/ rung \in {"publish", "level3"} /\ (rung = "level3" => pc \in Stages)
           /\ \E c \in {"MPUBEX", "poll"} : Gone(c, "publish")
        \/ pc \in DOMAIN Follows /\ (ok \/ pc = "ATE0") /\ Gone(Follows[pc], rung)
        \/ pc \in {"AT", "CGREG"} /\ Gone(pc, rung)
        \/ /\ pc \in {"MDISCONNECT", "CIPSHUT", "CPOWD"}
           /\ \/ \E c \in {"CIPSHUT", "CPOWD", "idle", "power_off_hard"} : Gone(c, rung)
              \/ rung = "level1" /\ Gone("SSLCFG", rung)
              \/ rung = "level2" /\ Gone("CGREG", rung)
  \/ ~connected' /\ (\/ rung = "publish" /\ Gone("MDISCONNECT", "level1")
                     \/ rung = "level1" /\ Gone("MDISCONNECT", "level2")
                     \/ rung = "level2" /\ Gone("CPOWD", "level3"))
  \/ pc = "MSUB" /\ ok /\ Gone("MPUBEX", "publish")

LEMMA GoneBy ==
  ASSUME NEW c, Goto(c) \/ Fill(c), NEW r, rung' = r
  PROVE  Gone(c, r)
BY GotoMoves DEF Gone

LEMMA LeaveWays ==
  ASSUME Leave, NEW ok \in BOOLEAN
  PROVE  Ways(ok)
<1>1. CASE connected
  <2>1. Gone("MDISCONNECT", "disconnect") /\ (connected' => connected)
    BY <1>1, GoneBy DEF Leave
  <2> QED
    BY <2>1 DEF Ways
<1>2. CASE ~connected
  <2>1. Gone("CPOWD", "disconnect") /\ (connected' => connected)
    BY <1>2, GoneBy DEF Leave
  <2> QED
    BY <2>1 DEF Ways
<1> QED
  BY <1>1, <1>2

LEMMA NextMessageWays ==
  ASSUME NextMessage, rung \in {"publish", "level3"}, rung = "level3" => pc \in Stages,
         NEW ok \in BOOLEAN
  PROVE  Ways(ok)
<1>1. CASE msg > Messages /\ Leave
  BY <1>1, LeaveWays
<1>2. CASE ~(msg > Messages /\ Leave)
  <2>1. rung' = "publish" /\ UNCHANGED connected /\ (Fill("poll") \/ Fill("MPUBEX"))
    BY <1>2 DEF NextMessage
  <2>2. Gone("poll", "publish") \/ Gone("MPUBEX", "publish")
    BY <2>1, GoneBy
  <2> QED
    BY <2>1, <2>2 DEF Ways
<1> QED
  BY <1>1, <1>2

LEMMA StageFailsWays ==
  ASSUME StageFails, pc \in Stages, NEW ok \in BOOLEAN
  PROVE  Ways(ok)
<1>1. CASE rung = "connect" /\ Leave
  BY <1>1, LeaveWays
<1>2. CASE rung = "level1" /\ Climb("level2")
  <2>1. Gone("MDISCONNECT", "level2") /\ ~connected'
    BY <1>2, GoneBy DEF Climb
  <2> QED
    BY <1>2, <2>1 DEF Ways
<1>3. CASE rung = "level2" /\ Climb("level3")
  <2>1. Gone("CPOWD", "level3") /\ ~connected'
    BY <1>3, GoneBy DEF Climb
  <2> QED
    BY <1>3, <2>1 DEF Ways
<1>4. CASE rung = "level3" /\ NextMessage
  BY <1>4, NextMessageWays
<1> QED
  BY <1>1, <1>2, <1>3, <1>4 DEF StageFails

LEMMA PublishFailsWays ==
  ASSUME PublishFails, rung = "publish", NEW ok \in BOOLEAN
  PROVE  Ways(ok)
<1>1. CASE NextMessage
  BY <1>1, NextMessageWays
<1>2. CASE Climb("level1")
  <2>1. Gone("MDISCONNECT", "level1") /\ ~connected'
    BY <1>2, GoneBy DEF Climb
  <2> QED
    BY <2>1 DEF Ways
<1> QED
  BY <1>1, <1>2 DEF PublishFails

LEMMA TearDownWays ==
  ASSUME pc \in {"MDISCONNECT", "CIPSHUT", "CPOWD"}, NEW ok \in BOOLEAN, TearDown(ok),
         connected \in BOOLEAN
  PROVE  Ways(ok)
<1>1. rung' = rung /\ (connected' => connected)
  <2>1. connected' = (connected /\ ~(pc = "CIPSHUT" /\ rung = "disconnect"))
    BY DEF TearDown
  <2>2. connected' => connected
    BY <2>1, Zenon
  <2> QED
    BY <2>2 DEF TearDown
<1>2. CASE pc = "MDISCONNECT"
  <2>1. Goto("CIPSHUT") \/ (rung = "level1" /\ Goto("SSLCFG"))
    BY <1>2 DEF TearDown
  <2>2. Gone("CIPSHUT", rung) \/ (rung = "level1" /\ Gone("SSLCFG", rung))
    BY <1>1, <2>1, GoneBy
  <2> QED
    BY <1>1, <2>2 DEF Ways
<1>3. CASE pc = "CIPSHUT"
  <2>1. Goto("CPOWD") \/ (rung = "level2" /\ Goto("CGREG"))
    BY <1>3 DEF TearDown
  <2>2. Gone("CPOWD", rung) \/ (rung = "level2" /\ Gone("CGREG", rung))
    BY <1>1, <2>1, GoneBy
  <2> QED
    BY <1>1, <2>2 DEF Ways
<1>4. CASE pc = "CPOWD"
  <2>1. Goto("idle") \/ Goto("power_off_hard")
    BY <1>4 DEF TearDown
  <2>2. Gone("idle", rung) \/ Gone("power_off_hard", rung)
    BY <1>1, <2>1, GoneBy
  <2> QED
    BY <1>1, <2>2 DEF Ways
<1> QED
  BY <1>2, <1>3, <1>4

LEMMA AckWays ==
  ASSUME Placed, ConnectedInv, NestedInv, pc \in Acks, NEW ok \in BOOLEAN, Ends(ok)
  PROVE  Ways(ok)
<1>1. rung \in {"publish", "disconnect"}
  <2>1. outer \in Seq(Waits) /\ outer # <<>>
    BY DEF NestedInv
  <2>2. Len(outer) \in DOMAIN outer
    BY <2>1
  <2> QED
    BY <2>2 DEF NestedInv
<1>2. CASE Resume
  <2>1. /\ Placed' /\ pc' \in Waits /\ rung' = rung /\ connected' = connected
        /\ pc' \in {"MPUBEX", "payload", "poll"} => rung = "publish"
    BY <1>2, ResumeMoves
  <2>2. written' \in BOOLEAN
    BY <2>1 DEF Placed
  <2> QED
    BY <1>1, <2>1, <2>2 DEF Ways, AckWay
<1>3. CASE pc = "ack" /\ Proceed
  <2>1. /\ pc' = "ackbytes" /\ written' = FALSE /\ rung' = rung /\ connected' = connected
    BY <1>3, AckProceeds
  <2>2. written' \in BOOLEAN /\ pc' \in Waits
    BY <2>1 DEF Waits, Acks
  <2> QED
    BY <1>1, <2>1, <2>2 DEF Ways, AckWay
<1> QED
  BY <1>2, <1>3 DEF Ends, Acks, Config

LEMMA EndsWays ==
  ASSUME Placed, ConnectedInv, NestedInv, RungInv, NEW ok \in BOOLEAN, Ends(ok)
  PROVE  Ways(ok)
<1> USE DEF Placed
<1>1. DOMAIN Follows = {"AT", "ATE0", "CGREG", "SSLCFG", "MCONFIG", "MQTTMODE",
                        "SSLMIPSTART", "MCONNECT", "MPUBEX", "ack"}
  BY DEF Follows
<1>2. ASSUME Proceed, pc \in DOMAIN Follows, ok \/ pc = "ATE0"
      PROVE  Ways(ok)
  <2>1. Gone(Follows[pc], rung) /\ (connected' => connected)
    BY <1>2, GoneBy DEF Proceed
  <2> QED
    BY <1>2, <2>1 DEF Ways
<1>3. CASE pc \in {"MDISCONNECT", "CIPSHUT", "CPOWD"} /\ TearDown(ok)
  BY <1>3, TearDownWays
<1>4. CASE pc = "ATE0" /\ Proceed
  BY <1>1, <1>2, <1>4
<1>5. CASE pc \in {"AT", "CGREG"} /\ IF ok THEN Proceed ELSE Again
  <2>1. CASE ok
    BY <1>1, <1>2, <1>5, <2>1
  <2>2. CASE ~ok
    <3>1. CASE StageFails
      BY <1>5, <3>1, StageFailsWays DEF Stages
    <3>2. CASE ~StageFails
      <4>1. Goto(pc) /\ UNCHANGED <<rung, connected>>
        BY <1>5, <2>2, <3>2 DEF Again
      <4>2. Gone(pc, rung) /\ (connected' => connected)
        BY <4>1, GoneBy
      <4> QED
        BY <1>5, <4>2 DEF Ways
    <3> QED
      BY <3>1, <3>2
  <2> QED
    BY <2>1, <2>2
<1>6. CASE pc \in Config \cup {"SSLMIPSTART", "MCONNECT"} /\ Stage(ok)
  <2>1. CASE ok
    BY <1>1, <1>2, <1>6, <2>1 DEF Stage, Config
  <2>2. CASE ~ok
    BY <1>6, <2>2, StageFailsWays DEF Stage, Stages, SessionCmd
  <2> QED
    BY <2>1, <2>2
<1>7. CASE pc = "MSUB" /\ IF ok THEN StageDone ELSE StageFails
  <2>1. CASE ok
    <3>1. Gone("MPUBEX", "publish")
      BY <1>7, <2>1, GoneBy DEF StageDone
    <3> QED
      BY <1>7, <2>1, <3>1 DEF Ways
  <2>2. CASE ~ok
    BY <1>7, <2>2, StageFailsWays DEF Stages, SessionCmd
  <2> QED
    BY <2>1, <2>2
<1>8. CASE pc = "MPUBEX" /\ IF ok THEN Proceed ELSE PublishFails
  <2>1. CASE ok
    BY <1>1, <1>2, <1>8, <2>1
  <2>2. CASE ~ok
    BY <1>8, <2>2, PublishFailsWays DEF RungInv
  <2> QED
    BY <2>1, <2>2
<1>9. CASE pc = "payload" /\ IF ok THEN NextMessage ELSE PublishFails
  BY <1>9, PublishFailsWays, NextMessageWays DEF RungInv
<1>10. CASE pc \in Acks
  BY <1>10, AckWays
<1> QED
  BY <1>3, <1>4, <1>5, <1>6, <1>7, <1>8, <1>9, <1>10 DEF Ends, Acks

\* What comes of each way.
LEMMA WaysPlace ==
  ASSUME RungInv, NEW ok \in BOOLEAN, Ways(ok)
  PROVE  /\ RungInv' /\ written' \in BOOLEAN /\ (pc \notin Acks => written' = FALSE)
         /\ connected' => connected \/ (pc = "MSUB" /\ ok)
<1>1. DOMAIN Follows = {"AT", "ATE0", "CGREG", "SSLCFG", "MCONFIG", "MQTTMODE",
                        "SSLMIPSTART", "MCONNECT", "MPUBEX", "ack"}
  BY DEF Follows
<1>12. connected' => connected \/ (pc = "MSUB" /\ ok)
  BY DEF Ways, AckWay
<1>10. CASE AckWay
  BY <1>10, <1>12 DEF AckWay, RungInv, Waits, Acks, Stages, Config, SessionCmd
<1>11. TRUE /\ (written' = FALSE => written' \in BOOLEAN)
  OBVIOUS
<1> SUFFICES ASSUME ~AckWay PROVE RungInv' /\ written' = FALSE
  BY <1>10, <1>11, <1>12
<1> USE DEF RungInv, Gone, Stages, Config, SessionCmd, Ladder
<1>2. CASE \E c \in {"MDISCONNECT", "CPOWD"} : Gone(c, "disconnect")
  BY <1>2
<1>3. CASE rung \in {"publish", "level3"}
           /\ \E c \in {"MPUBEX", "poll"} : Gone(c, "publish")
  BY <1>3
<1>4. CASE \/ Gone("MDISCONNECT", "level1") \/ Gone("MDISCONNECT", "level2")
           \/ Gone("CPOWD", "level3")
  BY <1>4
<1>5. CASE pc = "MSUB" /\ ok /\ Gone("MPUBEX", "publish")
  BY <1>5
<1>6. CASE pc \in DOMAIN Follows /\ Gone(Follows[pc], rung)
  BY <1>1, <1>6 DEF Follows, Acks
<1>7. CASE pc \in {"AT", "CGREG"} /\ Gone(pc, rung)
  BY <1>7
<1>8. CASE pc \in {"MDISCONNECT", "CIPSHUT", "CPOWD"}
           /\ \/ \E c \in {"CIPSHUT", "CPOWD", "idle", "power_off_hard"} : Gone(c, rung)
              \/ rung = "level1" /\ Gone("SSLCFG", rung)
              \/ rung = "level2" /\ Gone("CGREG", rung)
  BY <1>8
<1> QED
  BY <1>2, <1>3, <1>4, <1>5, <1>6, <1>7, <1>8 DEF Ways

\* Which trails suit every place, and which conditions are weaker than others.
LEMMA NoMarks ==
  ASSUME NEW s, Marks(s) = {}, NEW c, NEW w, NEW r, NEW k
  PROVE  Chains(c, w, r, k, s)
BY DEF Chains, NeverThen, NoWhole, Single, OwnLast

LEMMA NoSessionCmd ==
  ASSUME NEW s, NEW c, c \notin SessionCmd, NEW w, Single(s, c, w)
  PROVE  Marks(s) = {}
<1>1. Done(c) \notin SessionLine
  BY DEF Done, SessionLine, SessionCmd
<1> QED
  BY <1>1 DEF Single, Marks

LEMMA Weaker ==
  ASSUME NEW s
  PROVE  /\ NeverThen(s, "CONNECT OK", "CONNACK OK") => NoWhole(s)
         /\ \A w \in BOOLEAN : OwnLast(s, "CONNACK OK", w) => NoWhole(s)
         /\ \A c, w : Single(s, c, w) => NoWhole(s) /\ NeverThen(s, "CONNECT OK", "CONNACK OK")
BY DEF NeverThen, NoWhole, OwnLast, Single

\* Where no line of a session was waited for and read, the lines under way suit
\* the rung that follows as well.
LEMMA WaysChains ==
  ASSUME RungInv, connected \in BOOLEAN, written \in BOOLEAN,
         NEW ok \in BOOLEAN, Ways(ok), pc \in SessionCmd => ~ok,
         NEW s, Chains(pc, written, rung, connected, s)
  PROVE  Chains(pc', written', rung', connected', s)
<1>1. DOMAIN Follows = {"AT", "ATE0", "CGREG", "SSLCFG", "MCONFIG", "MQTTMODE",
                        "SSLMIPSTART", "MCONNECT", "MPUBEX", "ack"}
  BY DEF Follows
<1>2. connected' => connected
  BY DEF Ways, AckWay, SessionCmd
<1>3. /\ connected' => Marks(s) = {}
      /\ rung = "publish" => NeverThen(s, "CONNECT OK", "CONNACK OK")
      /\ rung \in {"connect", "level3"} /\ pc \in Stages => Single(s, pc, written)
      /\ rung = "level1" /\ pc = "MSUB" => Single(s, pc, written)
      /\ rung = "level1" /\ pc = "MCONNECT" => OwnLast(s, "CONNACK OK", written)
      /\ rung = "level1" /\ pc \notin {"MCONNECT", "MSUB"}
           => NeverThen(s, "CONNECT OK", "CONNACK OK")
      /\ rung = "level2" /\ pc \notin {"MCONNECT", "MSUB"} => NoWhole(s)
  BY <1>2 DEF Chains
<1>4. CASE \E c \in {"MDISCONNECT", "CPOWD"} : Gone(c, "disconnect")
  BY <1>3, <1>4 DEF Gone, Chains
<1>5. CASE rung \in {"publish", "level3"} /\ (rung = "level3" => pc \in Stages)
           /\ \E c \in {"MPUBEX", "poll"} : Gone(c, "publish")
  <2>1. NeverThen(s, "CONNECT OK", "CONNACK OK")
    BY <1>3, <1>5, Weaker
  <2> QED
    BY <1>3, <1>5, <2>1 DEF Gone, Chains
<1>6. CASE rung = "publish" /\ Gone("MDISCONNECT", "level1")
  BY <1>3, <1>6 DEF Gone, Chains
<1>7. CASE ~connected' /\ rung = "level1" /\ Gone("MDISCONNECT", "level2")
  <2>1. NoWhole(s)
    BY <1>3, <1>7, Weaker
  <2> QED
    BY <1>7, <2>1 DEF Gone, Chains
<1>8. CASE ~connected' /\ Gone("CPOWD", "level3")
  BY <1>8 DEF Gone, Chains, Stages, Config, SessionCmd
<1>9. CASE /\ pc \in DOMAIN Follows /\ (ok \/ pc = "ATE0")
           /\ Gone(Follows[pc], rung)
  <2>1. pc \notin SessionCmd /\ Follows[pc] \notin {"MCONNECT", "MSUB"}
    BY <1>1, <1>9 DEF SessionCmd, Follows
  <2>2. rung \in {"connect", "level3"} /\ Follows[pc] \in Stages => pc \in Stages
    BY <1>1, <1>9 DEF Follows, Stages, Config, SessionCmd
  <2>3. rung \in {"connect", "level3"} /\ pc \in Stages => Marks(s) = {}
    BY <1>3, <2>1, NoSessionCmd
  <2>4. CASE Marks(s) = {}
    BY <2>4, NoMarks
  <2>5. CASE Marks(s) # {}
    BY <1>3, <1>9, <2>1, <2>2, <2>3, <2>5 DEF Gone, Chains, SessionCmd
  <2> QED
    BY <2>4, <2>5
<1>10. CASE pc \in {"AT", "CGREG"} /\ Gone(pc, rung)
  <2>1. pc \notin SessionCmd /\ pc \in Stages
    BY <1>10 DEF SessionCmd, Stages
  <2>2. rung \in {"connect", "level3"} => Marks(s) = {}
    BY <1>3, <2>1, NoSessionCmd
  <2>3. CASE Marks(s) = {}
    BY <2>3, NoMarks
  <2>4. CASE Marks(s) # {}
    BY <1>3, <1>10, <2>1, <2>2, <2>4 DEF Gone, Chains, SessionCmd
  <2> QED
    BY <2>3, <2>4
<1>11. CASE pc \in {"MDISCONNECT", "CIPSHUT", "CPOWD"}
           /\ \/ \E c \in {"CIPSHUT", "CPOWD", "idle", "power_off_hard"} : Gone(c, rung)
              \/ rung = "level1" /\ Gone("SSLCFG", rung)
              \/ rung = "level2" /\ Gone("CGREG", rung)
  BY <1>3, <1>11 DEF Gone, Chains, Stages, Config, SessionCmd
<1>12. ~(pc = "MSUB" /\ ok)
  BY DEF SessionCmd
<1>13. CASE AckWay
  BY <1>3, <1>13 DEF AckWay, Chains
<1> QED
  BY <1>4, <1>5, <1>6, <1>7, <1>8, <1>9, <1>10, <1>11, <1>12, <1>13 DEF Ways

\* Where such a line was, those behind it suit what follows.
LEMMA SessionChains ==
  ASSUME RungInv, pc \in SessionCmd, connected' => pc = "MSUB",
         NEW s, Chains(pc, written, rung, connected, s),
         1 \in Marks(s), s[1] = Done(pc),
         NEW t, NEW f \in [Marks(t) -> Marks(s)],
         \A p \in Marks(t) : s[f[p]] = t[p] /\ 1 < f[p],
         \A p, q \in Marks(t) : p < q => f[p] < f[q],
         Gone(IF pc = "MSUB" THEN "MPUBEX" ELSE Follows[pc], IF pc = "MSUB" THEN "publish" ELSE rung)
  PROVE  Chains(pc', written', rung', connected', t)
<1>1. rung \in Ladder /\ written' = FALSE
  BY DEF RungInv, Stages, Gone
<1>2. \A p \in Marks(t) : f[p] \in Marks(s) /\ s[f[p]] = t[p] /\ 1 < f[p]
  OBVIOUS
<1>3. \A a, w : s[1] = a /\ OwnLast(s, a, w) => Marks(t) = {}
  BY <1>2 DEF OwnLast
<1>4. \A a, b : s[1] = a /\ NeverThen(s, a, b) => \A p \in Marks(t) : t[p] # b
  BY <1>2 DEF NeverThen
<1>5. ASSUME s[1] = "CONNECT OK", NoWhole(s)
      PROVE  NeverThen(t, "CONNACK OK", "SUBACK")
  <2> SUFFICES ASSUME NEW p \in Marks(t), NEW q \in Marks(t), p < q, t[p] = "CONNACK OK"
               PROVE  t[q] # "SUBACK"
    BY DEF NeverThen
  <2>1. f[p] \in Marks(s) /\ f[q] \in Marks(s) /\ 1 < f[p]
    BY <1>2
  <2>2. f[p] < f[q] /\ s[f[p]] = t[p] /\ s[f[q]] = t[q]
    BY <1>2
  <2> QED
    BY <1>5, <2>1, <2>2 DEF NoWhole
<1>6. CASE Marks(t) = {}
  BY <1>6, NoMarks
<1>7. CASE Marks(t) # {}
  <2>1. ~(rung \in {"connect", "level3"}) /\ ~(rung = "level1" /\ pc = "MSUB")
    BY <1>3, <1>7 DEF Chains, Single, Stages
  <2>2. CASE pc = "SSLMIPSTART"
    <3>1. pc' = "MCONNECT" /\ rung' = rung
      BY <2>2 DEF Gone, Follows
    <3>2. s[1] = "CONNECT OK"
      BY <2>2 DEF Done
    <3>3. rung = "level1" => \A p \in Marks(t) : t[p] # "CONNACK OK"
      BY <1>4, <2>2, <3>2 DEF Chains
    <3>4. rung = "level2" => NeverThen(t, "CONNACK OK", "SUBACK")
      BY <1>5, <2>2, <3>2 DEF Chains
    <3> QED
      BY <1>1, <2>1, <2>2, <3>1, <3>3, <3>4 DEF Chains, OwnLast, Ladder
  <2>3. CASE pc = "MCONNECT"
    <3>1. pc' = "MSUB" /\ rung' = rung
      BY <2>3 DEF Gone, Follows
    <3>2. s[1] = "CONNACK OK"
      BY <2>3 DEF Done
    <3>3. rung # "level1"
      BY <1>3, <1>7, <2>3, <3>2 DEF Chains
    <3>4. rung = "level2" => \A p \in Marks(t) : t[p] # "SUBACK"
      BY <1>4, <2>3, <3>2 DEF Chains
    <3> QED
      BY <1>1, <2>1, <2>3, <3>1, <3>3, <3>4 DEF Chains, OwnLast, Ladder
  <2>4. CASE pc = "MSUB"
    BY <1>1, <1>3, <1>7, <2>1, <2>4 DEF Chains, Done, Ladder
  <2> QED
    BY <2>2, <2>3, <2>4 DEF SessionCmd
<1> QED
  BY <1>6, <1>7

\* A command is written.
LEMMA WrittenChains ==
  ASSUME NEW c, NEW r, c \in SessionCmd => r \in Ladder, NEW k \in BOOLEAN,
         NEW s, Chains(c, FALSE, r, k, s)
  PROVE  Chains(c, TRUE, r, k, s)
BY DEF Chains, Single, OwnLast

LEMMA AskedChains ==
  ASSUME NEW c \in SessionCmd, NEW r \in Ladder, NEW k, ~k,
         NEW n \in Nat, NEW s, DOMAIN s = 1 .. n, Chains(c, FALSE, r, k, s),
         NEW t, DOMAIN t = 1 .. n + 1, \A p \in 1 .. n : t[p] = s[p], t[n + 1] = Done(c)
  PROVE  Chains(c, TRUE, r, k, t)
<1>1. Done(c) \in SessionLine
  BY DEF SessionCmd, Done, SessionLine
<1>2. Marks(t) = Marks(s) \cup {n + 1}
  BY <1>1 DEF Marks
<1>3. \A p \in Marks(s) : p \in 1 .. n /\ p < n + 1 /\ t[p] = s[p] /\ ~(n + 1 < p)
  BY DEF Marks
<1>4. \A p, q \in Marks(t) : p < q => p \in Marks(s)
  BY <1>2, <1>3
<1>5. \A a : OwnLast(s, a, FALSE) => \A p \in Marks(s) : s[p] # a
  BY DEF OwnLast
<1>6. \A a : (\A p \in Marks(s) : s[p] # a) /\ t[n + 1] = a => OwnLast(t, a, TRUE)
  BY <1>2, <1>3 DEF OwnLast
<1>7. \A a, b : NeverThen(s, a, b) /\ t[n + 1] # b => NeverThen(t, a, b)
  BY <1>2, <1>3 DEF NeverThen
<1>8. Single(s, c, FALSE) => Single(t, c, TRUE)
  <2>1. Single(s, c, FALSE) => Marks(s) = {}
    BY <1>5 DEF Single
  <2> QED
    BY <1>2, <1>6, <2>1 DEF Single
<1>9. ASSUME NoWhole(s), t[n + 1] # "SUBACK"
      PROVE  NoWhole(t)
  <2> SUFFICES ASSUME NEW p \in Marks(t), NEW q \in Marks(t), NEW m \in Marks(t),
                      p < q, q < m, t[p] = "CONNECT OK", t[q] = "CONNACK OK"
               PROVE  t[m] # "SUBACK"
    BY DEF NoWhole
  <2>1. CASE m = n + 1
    BY <1>9, <2>1
  <2>2. CASE m # n + 1
    <3>1. m \in Marks(s) /\ q \in Marks(s) /\ p \in Marks(s)
      BY <1>2, <1>4, <2>2
    <3> QED
      BY <1>3, <1>9, <3>1 DEF NoWhole
  <2> QED
    BY <2>1, <2>2
<1>10. CASE c = "SSLMIPSTART"
  <2>1. t[n + 1] = "CONNECT OK"
    BY <1>10 DEF Done
  <2> QED
    BY <1>7, <1>8, <1>9, <1>10, <2>1 DEF Chains, Ladder
<1>11. CASE c = "MCONNECT"
  <2>1. t[n + 1] = "CONNACK OK"
    BY <1>11 DEF Done
  <2> QED
    BY <1>5, <1>6, <1>7, <1>8, <1>11, <2>1 DEF Chains, Ladder
<1>12. CASE c = "MSUB"
  <2>1. t[n + 1] = "SUBACK"
    BY <1>12 DEF Done
  <2> QED
    BY <1>5, <1>6, <1>7, <1>8, <1>12, <2>1 DEF Chains, Ladder
<1> QED
  BY <1>10, <1>11, <1>12 DEF SessionCmd

-----------------------------------------------------------------------------
LEMMA TrailShape ==
  ASSUME NEW r \in Seq(Line), NEW t \in Seq(Sent)
  PROVE  /\ Len(r) \in Nat /\ Len(t) \in Nat
         /\ DOMAIN r = 1 .. Len(r) /\ DOMAIN t = 1 .. Len(t)
         /\ DOMAIN Trail(r, t) = 1 .. Len(r) + Len(t)
         /\ \A p \in 1 .. Len(r) : Trail(r, t)[p] = r[p]
         /\ \A k \in 1 .. Len(t) : Trail(r, t)[Len(r) + k] = Done(t[k].cmd)
<1>1. Len(r) \in Nat /\ Len(t) \in Nat /\ DOMAIN r = 1 .. Len(r) /\ DOMAIN t = 1 .. Len(t)
  OBVIOUS
<1>2. \A p \in 1 .. Len(r) : Trail(r, t)[p] = r[p]
  BY <1>1 DEF Trail
<1>3. ASSUME NEW k \in 1 .. Len(t)
      PROVE  Trail(r, t)[Len(r) + k] = Done(t[k].cmd)
  <2>1. Len(r) + k \in 1 .. Len(r) + Len(t) /\ ~(Len(r) + k <= Len(r)) /\ Len(r) + k - Len(r) = k
    BY <1>1
  <2> QED
    BY <2>1 DEF Trail
<1> QED
  BY <1>1, <1>2, <1>3 DEF Trail

\* Lines are read, or cut.
LEMMA TakenTrail ==
  ASSUME NEW r \in Seq(Line), r # <<>>, NEW t \in Seq(Sent), NEW f,
         f = [p \in Marks(Trail(Tail(r), t)) |-> p + 1]
  PROVE  /\ 1 \in DOMAIN Trail(r, t) /\ Trail(r, t)[1] = Head(r)
         /\ f \in [Marks(Trail(Tail(r), t)) -> Marks(Trail(r, t))]
         /\ \A p \in Marks(Trail(Tail(r), t)) :
              Trail(r, t)[f[p]] = Trail(Tail(r), t)[p] /\ 1 < f[p]
         /\ \A p, q \in Marks(Trail(Tail(r), t)) : p < q => f[p] < f[q]
<1> DEFINE s == Trail(r, t)
           u == Trail(Tail(r), t)
<1>1. /\ Tail(r) \in Seq(Line) /\ Head(r) = r[1] /\ Len(Tail(r)) = Len(r) - 1 /\ Len(r) >= 1
      /\ \A i \in 1 .. Len(Tail(r)) : Tail(r)[i] = r[i + 1]
  BY HeadTailProperties
<1>2. /\ Len(r) \in Nat /\ Len(t) \in Nat
      /\ DOMAIN s = 1 .. Len(r) + Len(t)
      /\ \A p \in 1 .. Len(r) : s[p] = r[p]
      /\ \A k \in 1 .. Len(t) : s[Len(r) + k] = Done(t[k].cmd)
  BY TrailShape
<1>3. /\ DOMAIN u = 1 .. (Len(r) - 1) + Len(t)
      /\ \A p \in 1 .. Len(r) - 1 : u[p] = Tail(r)[p]
      /\ \A k \in 1 .. Len(t) : u[(Len(r) - 1) + k] = Done(t[k].cmd)
  <2> DEFINE v == Tail(r)
  <2>1. v \in Seq(Line) /\ Len(v) = Len(r) - 1
    BY <1>1
  <2> HIDE DEF v
  <2>2. /\ DOMAIN Trail(v, t) = 1 .. Len(v) + Len(t)
        /\ \A p \in 1 .. Len(v) : Trail(v, t)[p] = v[p]
        /\ \A k \in 1 .. Len(t) : Trail(v, t)[Len(v) + k] = Done(t[k].cmd)
    BY <2>1, TrailShape
  <2>3. /\ DOMAIN Trail(v, t) = 1 .. (Len(r) - 1) + Len(t)
        /\ \A p \in 1 .. Len(r) - 1 : Trail(v, t)[p] = v[p]
        /\ \A k \in 1 .. Len(t) : Trail(v, t)[(Len(r) - 1) + k] = Done(t[k].cmd)
    BY <2>1, <2>2
  <2> QED
    BY <2>3 DEF v
<1>4. ASSUME NEW p \in DOMAIN u
      PROVE  p + 1 \in DOMAIN s /\ s[p + 1] = u[p] /\ p \in Nat /\ p >= 1
  <2>1. p \in Nat /\ p >= 1 /\ p <= (Len(r) - 1) + Len(t)
    BY <1>2, <1>3
  <2>2. p + 1 \in DOMAIN s
    BY <1>2, <2>1
  <2>3. CASE p <= Len(r) - 1
    <3>1. p \in 1 .. Len(r) - 1 /\ p + 1 \in 1 .. Len(r)
      BY <1>2, <2>1, <2>3
    <3> QED
      BY <1>1, <1>2, <1>3, <2>1, <2>2, <3>1
  <2>4. CASE p > Len(r) - 1
    <3> DEFINE k == p - (Len(r) - 1)
    <3>1. k \in 1 .. Len(t) /\ (Len(r) - 1) + k = p /\ Len(r) + k = p + 1
      BY <1>2, <2>1, <2>4
    <3> HIDE DEF k
    <3> QED
      BY <1>2, <1>3, <2>1, <2>2, <3>1
  <2> QED
    BY <1>2, <2>1, <2>3, <2>4
<1>5. Marks(u) \subseteq DOMAIN u
  BY DEF Marks
<1>6. 1 \in DOMAIN s /\ s[1] = Head(r)
  BY <1>1, <1>2
<1> HIDE DEF s, u
<1>7. f = [p \in Marks(u) |-> p + 1]
  BY DEF u
<1>8. \A p \in Marks(u) : f[p] = p + 1
  BY <1>7
<1>9. \A p \in Marks(u) : f[p] \in Marks(s) /\ s[f[p]] = u[p] /\ 1 < f[p]
  BY <1>4, <1>5, <1>8 DEF Marks
<1>10. f \in [Marks(u) -> Marks(s)]
  BY <1>7, <1>8, <1>9
<1>11. \A p, q \in Marks(u) : p < q => f[p] < f[q]
  BY <1>4, <1>5, <1>8
<1> QED
  BY <1>6, <1>9, <1>10, <1>11 DEF s, u

\* Lines have moved: behind position m they were d positions earlier.
MovedLines(s, u, m, d) ==
  /\ m \in Nat /\ d \in {0, 1} /\ DOMAIN u \subseteq Nat
  /\ \A p \in DOMAIN u : p <= m => p \in DOMAIN s /\ s[p] = u[p]
  /\ \A p \in Marks(u) : p > m => p - d > m /\ p - d \in DOMAIN s /\ s[p - d] = u[p]

LEMMA MovedTrail ==
  ASSUME NEW s, NEW u, NEW m, NEW d, MovedLines(s, u, m, d)
  PROVE  Fewer(u, s)
<1> USE DEF MovedLines
<1> DEFINE f == [p \in Marks(u) |-> IF p <= m THEN p ELSE p - d]
<1>1. \A p \in Marks(u) : p \in DOMAIN u /\ p \in Nat /\ u[p] \in SessionLine
  BY DEF Marks
<1>2. \A p \in Marks(u) : /\ p <= m => f[p] = p
                          /\ p > m => f[p] = p - d
  BY <1>1
<1>3. \A p \in Marks(u) : f[p] \in DOMAIN s /\ s[f[p]] = u[p]
  BY <1>1, <1>2
<1>4. \A p \in Marks(u) : f[p] \in Marks(s)
  BY <1>1, <1>3 DEF Marks
<1>5. f \in [Marks(u) -> Marks(s)]
  BY <1>4
<1>6. \A p, q \in Marks(u) : p < q => f[p] < f[q]
  BY <1>1, <1>2
<1> HIDE DEF f
<1> QED
  BY <1>3, <1>5, <1>6 DEF Fewer

\* A command is answered.
LEMMA HeardTrail ==
  ASSUME NEW r \in Seq(Line), NEW v \in Seq(Line), NEW t \in Seq(Sent), t # <<>>,
         NEW f, f \in SessionLine => f = Done(Head(t).cmd),
         NEW n \in {1, 2}, Len(v) = Len(r) + n, \A i \in 1 .. Len(r) : v[i] = r[i],
         v[Len(r) + n] = f, n = 2 => v[Len(r) + 1] \notin SessionLine
  PROVE  Fewer(Trail(v, Tail(t)), Trail(r, t))
<1> DEFINE x == Tail(t)
           m == Len(r)
           s == Trail(r, t)
           u == Trail(v, x)
<1>1. /\ x \in Seq(Sent) /\ Head(t) = t[1] /\ Len(x) = Len(t) - 1 /\ Len(t) >= 1
      /\ \A i \in 1 .. Len(x) : x[i] = t[i + 1]
  BY HeadTailProperties
<1>2. /\ m \in Nat /\ Len(t) \in Nat
      /\ DOMAIN s = 1 .. m + Len(t)
      /\ \A p \in 1 .. m : s[p] = r[p]
      /\ \A k \in 1 .. Len(t) : s[m + k] = Done(t[k].cmd)
  BY TrailShape
<1> HIDE DEF x
<1>3. /\ Len(v) = m + n
      /\ DOMAIN u = 1 .. Len(v) + Len(x)
      /\ \A p \in 1 .. Len(v) : u[p] = v[p]
      /\ \A k \in 1 .. Len(x) : u[Len(v) + k] = Done(x[k].cmd)
  BY <1>1, TrailShape
<1> HIDE DEF m, s, u
<1>4. DOMAIN u \subseteq Nat
  BY <1>1, <1>2, <1>3
<1>5. \A p \in DOMAIN u : p <= m => p \in DOMAIN s /\ s[p] = u[p]
  <2>1. \A i \in 1 .. m : v[i] = r[i]
    BY DEF m
  <2> QED
    BY <1>1, <1>2, <1>3, <2>1
<1>6. ASSUME NEW p \in Marks(u), p > m
      PROVE  p - (n - 1) > m /\ p - (n - 1) \in DOMAIN s /\ s[p - (n - 1)] = u[p]
  <2>1. p \in Nat /\ p <= (m + n) + (Len(t) - 1) /\ u[p] \in SessionLine /\ p >= 1
    BY <1>1, <1>2, <1>3 DEF Marks
  <2>2. CASE p < m + n
    <3>1. n = 2 /\ p = m + 1
      BY <1>2, <1>6, <2>1, <2>2
    <3>2. u[p] = v[p] /\ v[p] \notin SessionLine
      BY <1>2, <1>3, <3>1 DEF m
    <3> QED
      BY <2>1, <3>2
  <2>3. CASE p = m + n
    <3>1. u[p] = f
      BY <1>2, <1>3, <2>1, <2>3 DEF m
    <3>2. s[m + 1] = Done(t[1].cmd) /\ m + 1 \in DOMAIN s
      BY <1>1, <1>2
    <3>3. p - (n - 1) = m + 1
      BY <1>2, <2>3
    <3> QED
      BY <1>1, <1>2, <2>1, <3>1, <3>2, <3>3
  <2>4. CASE p > m + n
    <3> DEFINE k == p - (m + n)
    <3>1. k \in Nat /\ k >= 1 /\ k <= Len(t) - 1 /\ p = (m + n) + k
          /\ p - (n - 1) = m + (k + 1)
      <4>1. CASE n = 1
        BY <1>2, <2>1, <2>4, <4>1
      <4>2. CASE n = 2
        BY <1>2, <2>1, <2>4, <4>2
      <4> QED
        BY <4>1, <4>2
    <3> HIDE DEF k
    <3>2. k \in 1 .. Len(x) /\ p = Len(v) + k /\ k + 1 \in 1 .. Len(t)
          /\ p - (n - 1) = m + (k + 1) /\ m + (k + 1) \in DOMAIN s /\ m + (k + 1) > m
      <4>1. k \in 1 .. Len(x)
        BY <1>1, <1>2, <3>1
      <4>2. p = Len(v) + k
        BY <1>3, <3>1
      <4>3. k + 1 \in 1 .. Len(t)
        BY <1>2, <3>1
      <4>4. m + (k + 1) \in 1 .. m + Len(t) /\ m + (k + 1) > m
        BY <1>2, <3>1
      <4> QED
        BY <1>2, <3>1, <4>1, <4>2, <4>3, <4>4
    <3>3. u[p] = Done(x[k].cmd) /\ x[k] = t[k + 1]
      BY <1>1, <1>3, <3>2
    <3> QED
      BY <1>2, <3>2, <3>3
  <2> QED
    BY <1>2, <2>1, <2>2, <2>3, <2>4
<1> DEFINE d == n - 1
<1>7. d \in {0, 1}
  OBVIOUS
<1>8. \A p \in Marks(u) : p > m => p - d > m /\ p - d \in DOMAIN s /\ s[p - d] = u[p]
  BY <1>6
<1> HIDE DEF d
<1>9. MovedLines(s, u, m, d)
  BY <1>2, <1>4, <1>5, <1>7, <1>8 DEF MovedLines
<1>10. Fewer(u, s)
  BY <1>9, MovedTrail
<1> QED
  BY <1>10 DEF u, s, x

\* A line that is not one of a session comes of itself.
LEMMA LostTrail ==
  ASSUME NEW r \in Seq(Line), NEW t \in Seq(Sent), NEW f \in Line, f \notin SessionLine
  PROVE  Fewer(Trail(r \o <<f>>, t), Trail(r, t))
<1> DEFINE m == Len(r)
           v == r \o <<f>>
           s == Trail(r, t)
           u == Trail(v, t)
<1>1. v \in Seq(Line) /\ Len(v) = m + 1 /\ v[m + 1] = f /\ \A i \in 1 .. m : v[i] = r[i]
  BY SayOne
<1>2. /\ m \in Nat /\ Len(t) \in Nat
      /\ DOMAIN s = 1 .. m + Len(t)
      /\ \A p \in 1 .. m : s[p] = r[p]
      /\ \A k \in 1 .. Len(t) : s[m + k] = Done(t[k].cmd)
  BY TrailShape
<1> HIDE DEF v
<1>3. /\ DOMAIN u = 1 .. Len(v) + Len(t)
      /\ \A p \in 1 .. Len(v) : u[p] = v[p]
      /\ \A k \in 1 .. Len(t) : u[Len(v) + k] = Done(t[k].cmd)
  BY <1>1, TrailShape
<1> HIDE DEF m, s, u
<1>4. ASSUME NEW p \in Marks(u), p > m
      PROVE  p - 1 > m /\ p - 1 \in DOMAIN s /\ s[p - 1] = u[p]
  <2>1. p \in Nat /\ p <= (m + 1) + Len(t) /\ u[p] \in SessionLine /\ p >= 1
    BY <1>1, <1>2, <1>3 DEF Marks
  <2>2. p # m + 1
    BY <1>1, <1>2, <1>3, <2>1
  <2> DEFINE k == p - (m + 1)
  <2>3. k \in Nat /\ k >= 1 /\ k <= Len(t) /\ p = (m + 1) + k /\ p - 1 = m + k
    BY <1>2, <1>4, <2>1, <2>2
  <2> HIDE DEF k
  <2>4. k \in 1 .. Len(t) /\ m + k \in 1 .. m + Len(t) /\ m + k > m
    BY <1>2, <2>3
  <2> QED
    BY <1>1, <1>2, <1>3, <2>3, <2>4
<1>5. \A p \in DOMAIN u : p <= m => p \in DOMAIN s /\ s[p] = u[p]
  BY <1>1, <1>2, <1>3
<1>6. DOMAIN u \subseteq Nat
  BY <1>1, <1>2, <1>3
<1>7. MovedLines(s, u, m, 1)
  BY <1>2, <1>4, <1>5, <1>6 DEF MovedLines
<1>8. Fewer(u, s)
  BY <1>7, MovedTrail
<1> QED
  BY <1>8 DEF u, s, v

\* The commands under way are lost.
LEMMA ClearedTrail ==
  ASSUME NEW r \in Seq(Line), NEW t \in Seq(Sent)
  PROVE  Fewer(Trail(r, <<>>), Trail(r, t))
<1> DEFINE s == Trail(r, t)
           u == Trail(r, <<>>)
<1>1. /\ Len(r) \in Nat /\ Len(t) \in Nat
      /\ DOMAIN s = 1 .. Len(r) + Len(t)
      /\ \A p \in 1 .. Len(r) : s[p] = r[p]
  BY TrailShape
<1>2. /\ DOMAIN u = 1 .. Len(r) + Len(<<>>)
      /\ \A p \in 1 .. Len(r) : u[p] = r[p]
  <2>1. <<>> \in Seq(Sent)
    OBVIOUS
  <2> QED
    BY <2>1, TrailShape
<1>3. Len(<<>>) = 0
  OBVIOUS
<1> HIDE DEF s, u
<1>4. DOMAIN u = 1 .. Len(r)
  BY <1>1, <1>2, <1>3
<1>5. DOMAIN u \subseteq Nat
  BY <1>1, <1>4
<1>6. \A p \in DOMAIN u : p <= Len(r) /\ p \in DOMAIN s /\ s[p] = u[p]
  BY <1>1, <1>2, <1>4
<1>7. \A p \in Marks(u) : ~(p > Len(r))
  BY <1>1, <1>4 DEF Marks
<1>8. MovedLines(s, u, Len(r), 0)
  BY <1>1, <1>5, <1>6, <1>7 DEF MovedLines
<1>9. Fewer(u, s)
  BY <1>8, MovedTrail
<1> QED
  BY <1>9 DEF u, s

\* The first line is read.
LEMMA TailTrail ==
  ASSUME NEW r \in Seq(Line), r # <<>>, NEW t \in Seq(Sent)
  PROVE  Fewer(Trail(Tail(r), t), Trail(r, t))
<1> DEFINE f == [p \in Marks(Trail(Tail(r), t)) |-> p + 1]
           s == Trail(r, t)
           u == Trail(Tail(r), t)
<1>1. /\ f \in [Marks(u) -> Marks(s)]
      /\ \A p \in Marks(u) : s[f[p]] = u[p]
      /\ \A p, q \in Marks(u) : p < q => f[p] < f[q]
  BY TakenTrail
<1> HIDE DEF f, s, u
<1>2. Fewer(u, s)
  BY <1>1 DEF Fewer
<1> QED
  BY <1>2 DEF s, u

\* The first line is cut.
LEMMA CutTrail ==
  ASSUME NEW r \in Seq(Line), r # <<>>, NEW t \in Seq(Sent), NEW h \in Line, h \notin SessionLine
  PROVE  /\ Fewer(Trail(Tail(r), t), Trail(r, t))
         /\ Fewer(Trail(<<h>> \o Tail(r), t), Trail(r, t))
<1>1. Fewer(Trail(Tail(r), t), Trail(r, t))
  BY TailTrail
<1>2. Fewer(Trail(<<h>> \o Tail(r), t), Trail(r, t))
  <2> DEFINE v == <<h>> \o Tail(r)
             s == Trail(r, t)
             u == Trail(v, t)
  <2>1. v \in Seq(Line) /\ Len(v) = Len(r) /\ v[1] = h
        /\ \A i \in 2 .. Len(r) : v[i] = r[i]
    <3>2. /\ Tail(r) \in Seq(Line) /\ Len(Tail(r)) = Len(r) - 1 /\ Len(r) \in Nat /\ Len(r) >= 1
          /\ \A i \in 1 .. Len(Tail(r)) : Tail(r)[i] = r[i + 1]
      BY HeadTailProperties
    <3> DEFINE x == Tail(r)
    <3>3. x \in Seq(Line) /\ Len(x) = Len(r) - 1 /\ \A i \in 1 .. Len(x) : x[i] = r[i + 1]
      BY <3>2
    <3> HIDE DEF x
    <3>4. /\ <<h>> \o x \in Seq(Line) /\ Len(<<h>> \o x) = 1 + Len(x)
          /\ (<<h>> \o x)[1] = h
          /\ \A i \in 2 .. 1 + Len(x) : (<<h>> \o x)[i] = x[i - 1]
      BY <3>3
    <3>5. \A i \in 2 .. Len(r) : i - 1 \in 1 .. Len(x) /\ (i - 1) + 1 = i
      BY <3>2, <3>3
    <3>6. \A i \in 2 .. Len(r) : (<<h>> \o x)[i] = r[i]
      BY <3>2, <3>3, <3>4, <3>5
    <3> QED
      BY <3>2, <3>3, <3>4, <3>6 DEF x
  <2>2. /\ Len(r) \in Nat /\ Len(t) \in Nat
        /\ DOMAIN s = 1 .. Len(r) + Len(t)
        /\ \A p \in 1 .. Len(r) : s[p] = r[p]
        /\ \A k \in 1 .. Len(t) : s[Len(r) + k] = Done(t[k].cmd)
    BY TrailShape
  <2> HIDE DEF v
  <2>3. /\ DOMAIN u = 1 .. Len(v) + Len(t)
        /\ \A p \in 1 .. Len(v) : u[p] = v[p]
        /\ \A k \in 1 .. Len(t) : u[Len(v) + k] = Done(t[k].cmd)
    BY <2>1, TrailShape
  <2> HIDE DEF s, u
  <2>4. ASSUME NEW p \in Marks(u)
        PROVE  p > 0 /\ p - 0 > 0 /\ p - 0 \in DOMAIN s /\ s[p - 0] = u[p]
    <3>1. p \in Nat /\ p >= 1 /\ p <= Len(r) + Len(t) /\ u[p] \in SessionLine /\ p - 0 = p
      BY <2>1, <2>2, <2>3 DEF Marks
    <3>2. p # 1
      <4>2. 1 <= Len(r) => u[1] = h
        BY <2>1, <2>2, <2>3
      <4>3. Len(r) >= 1
        BY HeadTailProperties
      <4> QED
        BY <2>2, <3>1, <4>2, <4>3
    <3>3. CASE p <= Len(r)
      BY <2>1, <2>2, <2>3, <3>1, <3>2, <3>3
    <3>4. CASE p > Len(r)
      <4> DEFINE k == p - Len(r)
      <4>1. k \in 1 .. Len(t) /\ p = Len(r) + k
        BY <2>2, <3>1, <3>4
      <4> HIDE DEF k
      <4> QED
        BY <2>1, <2>2, <2>3, <3>1, <4>1
    <3> QED
      BY <2>2, <3>1, <3>3, <3>4
  <2>5. DOMAIN u \subseteq Nat /\ \A p \in DOMAIN u : ~(p <= 0)
    BY <2>1, <2>2, <2>3
  <2>6. MovedLines(s, u, 0, 0)
    BY <2>4, <2>5 DEF MovedLines
  <2>7. Fewer(u, s)
    BY <2>6, MovedTrail
  <2> QED
    BY <2>7 DEF u, s, v
<1> QED
  BY <1>1, <1>2

\* A command is put behind the others.
LEMMA AskedTrail ==
  ASSUME NEW r \in Seq(Line), NEW t \in Seq(Sent), NEW x \in Sent
  PROVE  \E n \in Nat :
           /\ DOMAIN Trail(r, t) = 1 .. n
           /\ DOMAIN Trail(r, Append(t, x)) = 1 .. n + 1
           /\ \A p \in 1 .. n : Trail(r, Append(t, x))[p] = Trail(r, t)[p]
           /\ Trail(r, Append(t, x))[n + 1] = Done(x.cmd)
<1> DEFINE v == Append(t, x)
           s == Trail(r, t)
           u == Trail(r, v)
           n == Len(r) + Len(t)
<1>1. v \in Seq(Sent) /\ Len(v) = Len(t) + 1 /\ v[Len(t) + 1] = x
      /\ \A k \in 1 .. Len(t) : v[k] = t[k]
  BY AppendProperties
<1>2. /\ Len(r) \in Nat /\ Len(t) \in Nat
      /\ DOMAIN s = 1 .. Len(r) + Len(t)
      /\ \A p \in 1 .. Len(r) : s[p] = r[p]
      /\ \A k \in 1 .. Len(t) : s[Len(r) + k] = Done(t[k].cmd)
  BY TrailShape
<1> HIDE DEF v
<1>3. /\ DOMAIN u = 1 .. Len(r) + Len(v)
      /\ \A p \in 1 .. Len(r) : u[p] = r[p]
      /\ \A k \in 1 .. Len(v) : u[Len(r) + k] = Done(v[k].cmd)
  BY <1>1, TrailShape
<1> HIDE DEF s, u
<1>4. n \in Nat /\ DOMAIN s = 1 .. n /\ DOMAIN u = 1 .. n + 1
  BY <1>1, <1>2, <1>3
<1>5. u[n + 1] = Done(x.cmd)
  <2>1. Len(t) + 1 \in 1 .. Len(v) /\ Len(r) + (Len(t) + 1) = n + 1
    BY <1>1, <1>2
  <2> HIDE DEF n
  <2>2. u[Len(r) + (Len(t) + 1)] = Done(v[Len(t) + 1].cmd)
    BY <1>3, <2>1
  <2> QED
    BY <1>1, <2>1, <2>2
<1>6. ASSUME NEW p \in 1 .. n
      PROVE  u[p] = s[p]
  <2>1. CASE p <= Len(r)
    BY <1>2, <1>3, <2>1
  <2>2. CASE p > Len(r)
    <3> DEFINE k == p - Len(r)
    <3>1. k \in 1 .. Len(t) /\ k \in 1 .. Len(v) /\ p = Len(r) + k
      BY <1>1, <1>2, <2>2
    <3> HIDE DEF k
    <3> QED
      BY <1>1, <1>2, <1>3, <3>1
  <2> QED
    BY <1>2, <2>1, <2>2
<1> HIDE DEF n
<1> QED
  BY <1>4, <1>5, <1>6 DEF u, s, v

LEMMA WaysAsked ==
  ASSUME NEW ok \in BOOLEAN, Ways(ok), ok => written
  PROVE  /\ \A c \in AskedFor' : ok /\ c \in AskedFor
         /\ pc' = "MSUB" => pc = "MCONNECT" /\ ok
         /\ pc' = "MCONNECT" => pc = "SSLMIPSTART" /\ ok
<1>1. DOMAIN Follows = {"AT", "ATE0", "CGREG", "SSLCFG", "MCONFIG", "MQTTMODE",
                        "SSLMIPSTART", "MCONNECT", "MPUBEX", "ack"}
  BY DEF Follows
<1>6. CASE AckWay
  BY <1>6 DEF AckWay, AskedFor, Waits, Acks, Config, SessionCmd
<1> SUFFICES ASSUME ~AckWay
             PROVE  /\ \A c \in AskedFor' : ok /\ c \in AskedFor
                    /\ pc' = "MSUB" => pc = "MCONNECT" /\ ok
                    /\ pc' = "MCONNECT" => pc = "SSLMIPSTART" /\ ok
  BY <1>6
<1>2. written' = FALSE
  BY DEF Ways, Gone
<1>3. AskedFor' = (CASE pc' = "MCONFIG" -> {"SSLCFG"}
                     [] pc' = "MQTTMODE" -> {"SSLCFG", "MCONFIG"}
                     [] pc' \in SessionCmd -> Config
                     [] OTHER -> {})
  BY <1>2 DEF AskedFor
<1>4. CASE pc' \in {"MCONFIG", "MQTTMODE"} \cup SessionCmd
  <2>1. pc \in DOMAIN Follows /\ ok /\ pc' = Follows[pc]
    BY <1>1, <1>4 DEF Ways, Gone, Follows, SessionCmd
  <2>2. AskedFor' \subseteq AskedFor
    <3>1. CASE pc = "SSLCFG"
      BY <1>3, <2>1, <3>1 DEF AskedFor, Follows, SessionCmd, Config
    <3>2. CASE pc = "MCONFIG"
      BY <1>3, <2>1, <3>2 DEF AskedFor, Follows, SessionCmd, Config
    <3>3. CASE pc = "MQTTMODE"
      BY <1>3, <2>1, <3>3 DEF AskedFor, Follows, SessionCmd, Config
    <3>4. CASE pc \in {"SSLMIPSTART", "MCONNECT"}
      BY <1>3, <2>1, <3>4 DEF AskedFor, Follows, SessionCmd
    <3>5. pc \in {"SSLCFG", "MCONFIG", "MQTTMODE", "SSLMIPSTART", "MCONNECT"}
      BY <1>1, <1>4, <2>1 DEF Follows, SessionCmd
    <3> QED
      BY <3>1, <3>2, <3>3, <3>4, <3>5
  <2>3. /\ pc' = "MSUB" => pc = "MCONNECT"
        /\ pc' = "MCONNECT" => pc = "SSLMIPSTART"
    BY <1>1, <2>1 DEF Follows
  <2> QED
    BY <2>1, <2>2, <2>3
<1>5. CASE pc' \notin {"MCONFIG", "MQTTMODE"} \cup SessionCmd
  BY <1>3, <1>5 DEF SessionCmd
<1> QED
  BY <1>4, <1>5

\* A wait is over, and no line of a session was what it was for.
LEMMA EndsLate ==
  ASSUME TypeOK, ConnectedInv, NestedInv, RungInv, LateInv, NEW ok \in BOOLEAN, Ends(ok),
         ok => written, pc \in SessionCmd => ~ok,
         Fewer(Trail(rx', tx'), Trail(rx, tx)),
         UNCHANGED <<modem, tx>>, cut \/ deaf => cut' \/ deaf',
         ok /\ Unread("ERROR") => Unread("ERROR")',
         Loss => cut' \/ deaf' \/ Loss'
  PROVE  LateInv'
<1>1. /\ connected \in BOOLEAN /\ written \in BOOLEAN
      /\ Chains(pc, written, rung, connected, Trail(rx, tx))
      /\ AskedInv /\ PubInv
  BY DEF TypeOK, LateInv
<1>2. Ways(ok)
  BY <1>1, EndsWays, TwoParts
<1>3. RungInv' /\ (connected' => connected)
  BY <1>2, WaysPlace DEF SessionCmd
<1>4. Chains(pc', written', rung', connected', Trail(rx', tx'))
  <2>1. Chains(pc', written', rung', connected', Trail(rx, tx))
    BY <1>1, <1>2, WaysChains
  <2>2. connected' \in BOOLEAN /\ written' \in BOOLEAN
    <3>1. (Placed => connected \in BOOLEAN /\ written \in BOOLEAN)'
      BY DEF Placed
    <3>2. Placed'
      BY EndsMoves, TwoParts DEF Ended
    <3> QED
      BY <3>1, <3>2
  <2> QED
    BY <2>1, <2>2, FewerChains
<1>5. UNCHANGED <<power, hung, cfg, session, prompt, tx>>
  OBVIOUS
<1>6. AskedInv'
  <2>1. \A c \in AskedFor' : ok /\ c \in AskedFor
    BY <1>2, WaysAsked
  <2>2. Works' => Works
    BY <1>5 DEF Works
  <2>3. ASSUME Works', NEW c \in AskedFor'
        PROVE  c \in cfg' \/ Unread("ERROR")' \/ \E k \in DOMAIN tx' : tx'[k].cmd = c
    <3>1. ok /\ (c \in cfg \/ Unread("ERROR") \/ \E k \in DOMAIN tx : tx[k].cmd = c)
      BY <1>1, <2>1, <2>2, <2>3 DEF AskedInv
    <3>2. ok /\ Unread("ERROR") => Unread("ERROR")'
      OBVIOUS
    <3> QED
      BY <1>5, <3>1, <3>2
  <2> QED
    BY <2>3 DEF AskedInv
<1>7. SubInv'
  <2>1. pc' # "MSUB"
    BY <1>2, WaysAsked DEF SessionCmd
  <2> QED
    BY <2>1 DEF SubInv
<1>8. PubInv'
  <2>1. connected' /\ rung' = "publish" => rung = "publish"
    BY EndsMoves, TwoParts DEF Ended, SessionCmd
  <2>2. Loss => cut' \/ deaf' \/ Loss'
    OBVIOUS
  <2>3. prompt' \/ (\E k \in DOMAIN tx' : tx'[k].cmd \in {"MPUBEX", "ack"}) => cfg' = Config
    BY <1>5, <1>1 DEF PubInv
  <2>4. connected' => cfg' = Config
    BY <1>5, <1>1, <1>3 DEF PubInv
  <2>5. ASSUME connected' /\ rung' = "publish"
        PROVE  /\ \A k \in DOMAIN tx' : tx'[k].cmd \in {"MPUBEX", "payload"} \cup Acks
               /\ cut' \/ deaf' \/ session' = "subscribed" \/ Loss'
    <3>1. connected /\ rung = "publish"
      BY <1>3, <2>1, <2>5
    <3>2. /\ \A k \in DOMAIN tx : tx[k].cmd \in {"MPUBEX", "payload"} \cup Acks
          /\ cut \/ deaf \/ session = "subscribed" \/ Loss
      BY <1>1, <3>1 DEF PubInv
    <3>3. session' = session /\ tx' = tx
      BY <1>5
    <3>4. cut' \/ deaf' \/ session' = "subscribed" \/ Loss'
      BY <2>2, <3>2, <3>3, Zenon
    <3> QED
      BY <3>2, <3>3, <3>4
  <2> QED
    BY <2>3, <2>4, <2>5, Zenon DEF PubInv
<1> QED
  BY <1>3, <1>4, <1>6, <1>7, <1>8 DEF LateInv

LEMMA TailKeeps ==
  ASSUME rx \in Seq(Line), rx # <<>>, rx' = Tail(rx), NEW a, Head(rx) # a
  PROVE  Unread(a) => Unread(a)'
<1>1. /\ Head(rx) = rx[1]
      /\ \A i \in DOMAIN rx : i = 1 \/ (i - 1 \in DOMAIN Tail(rx) /\ Tail(rx)[i - 1] = rx[i])
  BY TakeOne
<1> QED
  BY <1>1 DEF Unread

LEMMA LossKeeps ==
  ASSUME rx \in Seq(Line), rx # <<>>, rx' = Tail(rx), Head(rx) \notin Lost
  PROVE  Loss => Loss'
<1>1. \A line \in Lost : Unread(line) => Unread(line)'
  <2> SUFFICES ASSUME NEW line \in Lost
               PROVE  Unread(line) => Unread(line)'
    OBVIOUS
  <2> QED
    BY TailKeeps
<1> QED
  BY <1>1 DEF Loss

\* The line that a command for a session waits for.
LEMMA SessionLate ==
  ASSUME TypeOK, ConnectedInv, NestedInv, RungInv, LateInv, pc \in SessionCmd, written,
         rx # <<>>, rx' = Tail(rx), Head(rx) = Done(pc), Ends(TRUE),
         UNCHANGED <<modem, tx, cut, deaf>>
  PROVE  LateInv'
<1> DEFINE s == Trail(rx, tx)
           t == Trail(Tail(rx), tx)
           f == [p \in Marks(t) |-> p + 1]
<1>1. /\ connected \in BOOLEAN /\ rx \in Seq(Line) /\ tx \in Seq(Sent)
      /\ Chains(pc, written, rung, connected, s)
      /\ AskedInv /\ SubInv /\ PubInv
  BY DEF TypeOK, LateInv, Sent
<1>2. UNCHANGED <<power, hung, cfg, session, prompt, tx, cut, deaf>>
  OBVIOUS
<1>3. TRUE \in BOOLEAN
  OBVIOUS
<1>4. Ways(TRUE)
  BY <1>1, <1>3, EndsWays, TwoParts
<1>5. /\ RungInv' /\ written' = FALSE
      /\ connected' => connected \/ pc = "MSUB"
  BY <1>3, <1>4, WaysPlace DEF SessionCmd, Acks
<1>6. ~connected
  BY DEF ConnectedInv, SessionCmd, Acks
<1>7. Gone(IF pc = "MSUB" THEN "MPUBEX" ELSE Follows[pc],
           IF pc = "MSUB" THEN "publish" ELSE rung)
  <2>1. CASE pc = "MSUB"
    <3>1. StageDone
      BY <2>1 DEF Ends, Config
    <3>2. Gone("MPUBEX", "publish")
      BY <3>1, GoneBy DEF StageDone
    <3> QED
      BY <2>1, <3>2
  <2>2. CASE pc # "MSUB"
    <3>1. Proceed
      BY <2>2 DEF Ends, Stage, Config, SessionCmd
    <3>2. Gone(Follows[pc], rung)
      BY <3>1, GoneBy DEF Proceed
    <3> QED
      BY <2>2, <3>2
  <2> QED
    BY <2>1, <2>2
<1>8. Done(pc) \in SessionLine
  BY DEF Done, SessionLine, SessionCmd
<1>9. /\ 1 \in Marks(s) /\ s[1] = Done(pc)
      /\ f \in [Marks(t) -> Marks(s)]
      /\ \A p \in Marks(t) : s[f[p]] = t[p] /\ 1 < f[p]
      /\ \A p, q \in Marks(t) : p < q => f[p] < f[q]
  BY <1>1, <1>8, TakenTrail DEF Marks
<1> HIDE DEF s, t, f
<1>10. Chains(pc', written', rung', connected', t)
  BY <1>1, <1>5, <1>6, <1>7, <1>9, SessionChains
<1>11. t = Trail(rx', tx')
  BY <1>2 DEF t
<1>12. AskedInv'
  <2>1. \A c \in AskedFor' : c \in AskedFor
    BY <1>3, <1>4, WaysAsked
  <2>2. Works' => Works
    BY <1>2 DEF Works
  <2>3. Head(rx) # "ERROR"
    BY DEF Done, SessionCmd
  <2>4. ASSUME Works', NEW c \in AskedFor'
        PROVE  c \in cfg' \/ Unread("ERROR")' \/ \E k \in DOMAIN tx' : tx'[k].cmd = c
    <3>1. c \in cfg \/ Unread("ERROR") \/ \E k \in DOMAIN tx : tx[k].cmd = c
      BY <1>1, <2>1, <2>2, <2>4 DEF AskedInv
    <3>2. Unread("ERROR") => Unread("ERROR")'
      BY <1>1, <2>3, TailKeeps
    <3> QED
      BY <1>2, <3>1, <3>2
  <2> QED
    BY <2>4 DEF AskedInv
<1>13. SubInv'
  <2> SUFFICES ASSUME pc' = "MSUB"
               PROVE  /\ \A k \in DOMAIN tx : tx[k].cmd # "MSUB"
                      /\ \A i \in DOMAIN Tail(rx) : Tail(rx)[i] # "SUBACK"
    BY <1>2 DEF SubInv
  <2>1. rung' \in {"connect", "level3", "level1", "level2"} /\ pc' \in Stages
    BY <1>5 DEF RungInv, Stages, SessionCmd, Ladder
  <2>2. \A p \in Marks(t) : t[p] # "SUBACK"
    <3>1. OwnLast(t, "SUBACK", FALSE)
      BY <1>5, <1>10, <2>1 DEF Chains, Single, Done
    <3> QED
      BY <3>1 DEF OwnLast
  <2>3. \A p \in DOMAIN t : t[p] # "SUBACK"
    BY <2>2 DEF Marks, SessionLine
  <2>4. Tail(rx) \in Seq(Line)
    BY <1>1, TakeOne
  <2> DEFINE r == Tail(rx)
  <2>5. r \in Seq(Line) /\ t = Trail(r, tx)
    BY <2>4 DEF t
  <2> HIDE DEF r
  <2>6. /\ Len(r) \in Nat /\ Len(tx) \in Nat
        /\ DOMAIN r = 1 .. Len(r) /\ DOMAIN tx = 1 .. Len(tx)
        /\ DOMAIN t = 1 .. Len(r) + Len(tx)
        /\ \A p \in 1 .. Len(r) : t[p] = r[p]
        /\ \A k \in 1 .. Len(tx) : t[Len(r) + k] = Done(tx[k].cmd)
    BY <1>1, <2>5, TrailShape
  <2>7. \A i \in DOMAIN r : r[i] # "SUBACK"
    BY <2>3, <2>6
  <2>8. ASSUME NEW k \in DOMAIN tx, tx[k].cmd = "MSUB"
        PROVE  FALSE
    <3>1. Len(r) + k \in DOMAIN t /\ t[Len(r) + k] = Done(tx[k].cmd)
      BY <2>6
    <3> QED
      BY <2>3, <2>8, <3>1 DEF Done
  <2> QED
    BY <2>7, <2>8 DEF r
<1>14. PubInv'
  <2>1. prompt' \/ (\E k \in DOMAIN tx' : tx'[k].cmd \in {"MPUBEX", "ack"}) => cfg' = Config
    BY <1>1, <1>2 DEF PubInv
  <2>2. CASE pc # "MSUB"
    BY <1>5, <1>6, <2>1, <2>2 DEF PubInv
  <2>3. CASE pc = "MSUB"
    <3>1. 1 \in DOMAIN rx /\ rx[1] = "SUBACK" /\ \A i \in DOMAIN rx : i \in Nat /\ i >= 1
      BY <1>1, <2>3, TakeOne DEF Done
    <3>2. /\ cfg = Config \/ \E j \in DOMAIN rx : j < 1 /\ rx[j] = "ERROR"
          /\ session = "subscribed" \/ \E j \in DOMAIN rx : 1 < j /\ rx[j] \in Lost
          /\ tx = <<>>
      BY <1>1, <2>3, <3>1 DEF SubInv
    <3>3. cfg = Config /\ tx = <<>> /\ (session = "subscribed" \/ Loss)
      BY <3>1, <3>2 DEF Unread, Loss
    <3>4. Loss => Loss'
      BY <1>1, <2>3, LossKeeps DEF Done, Lost
    <3>5. session' = "subscribed" \/ Loss'
      BY <1>2, <3>3, <3>4, Zenon
    <3>6. \A k \in DOMAIN tx' : tx'[k].cmd \in {"MPUBEX", "payload"} \cup Acks
      BY <1>2, <3>3
    <3>7. cfg' = Config
      BY <1>2, <3>3
    <3> QED
      BY <3>5, <3>6, <3>7, Zenon DEF PubInv
  <2> QED
    BY <2>2, <2>3
<1> QED
  BY <1>5, <1>10, <1>11, <1>12, <1>13, <1>14 DEF LateInv

\* A line is read in which nothing was waited for, or a downlink that is acked.
LEMMA StayLate ==
  ASSUME TypeOK, RungInv, LateInv, rx # <<>>, rx' = Tail(rx),
         \/ UNCHANGED <<pc, written>>
         \/ connected /\ pc' = "ack" /\ written' = FALSE,
         UNCHANGED <<rung, modem, tx, cut, deaf>>,
         connected' \in BOOLEAN, connected' => connected /\ Head(rx) \notin Lost,
         pc # "poll" => Head(rx) # "ERROR", pc = "MSUB" => Head(rx) # "SUBACK"
  PROVE  LateInv'
<1>1. /\ connected \in BOOLEAN /\ written \in BOOLEAN /\ rx \in Seq(Line) /\ tx \in Seq(Sent)
      /\ Chains(pc, written, rung, connected, Trail(rx, tx))
      /\ AskedInv /\ SubInv /\ PubInv
  BY DEF TypeOK, LateInv, Sent
<1>2. UNCHANGED <<rung, power, hung, cfg, session, prompt, tx, cut, deaf>>
  OBVIOUS
<1>3. Chains(pc', written', rung', connected', Trail(rx', tx'))
  <2> DEFINE s == Trail(rx, tx)
  <2>1. Chains(pc', written', rung, connected', s)
    <3>1. CASE UNCHANGED <<pc, written>>
      BY <1>1, <3>1 DEF Chains
    <3>2. CASE connected /\ pc' = "ack" /\ written' = FALSE
      <4>1. Marks(s) = {}
        BY <1>1, <3>2 DEF Chains
      <4> HIDE DEF s
      <4> QED
        BY <4>1, NoMarks
    <3> QED
      BY <3>1, <3>2
  <2>2. Fewer(Trail(rx', tx), s)
    BY <1>1, TailTrail
  <2>3. written' \in BOOLEAN
    <3>1. CASE UNCHANGED <<pc, written>>
      BY <1>1, <3>1
    <3>2. CASE written' = FALSE
      BY <3>2
    <3> QED
      BY <3>1, <3>2
  <2> HIDE DEF s
  <2>4. Chains(pc', written', rung, connected', Trail(rx', tx))
    BY <2>1, <2>2, <2>3, FewerChains
  <2> QED
    BY <1>2, <2>4
<1>4. PubInv'
  <2>1. prompt' \/ (\E k \in DOMAIN tx' : tx'[k].cmd \in {"MPUBEX", "ack"}) => cfg' = Config
    BY <1>1, <1>2 DEF PubInv
  <2>2. connected' => cfg' = Config
    BY <1>1, <1>2 DEF PubInv
  <2>3. ASSUME connected' /\ rung' = "publish"
        PROVE  /\ \A k \in DOMAIN tx' : tx'[k].cmd \in {"MPUBEX", "payload"} \cup Acks
               /\ cut' \/ deaf' \/ session' = "subscribed" \/ Loss'
    <3>1. connected /\ rung = "publish" /\ Head(rx) \notin Lost
      BY <1>2, <2>3
    <3>2. /\ \A k \in DOMAIN tx : tx[k].cmd \in {"MPUBEX", "payload"} \cup Acks
          /\ cut \/ deaf \/ session = "subscribed" \/ Loss
      BY <1>1, <3>1 DEF PubInv
    <3>3. Loss => Loss'
      BY <1>1, <3>1, LossKeeps
    <3>4. session' = session /\ tx' = tx /\ (cut => cut') /\ (deaf => deaf')
      <4>1. session' = session /\ tx' = tx
        BY <1>2
      <4>2. (cut => cut') /\ (deaf => deaf')
        BY <1>2
      <4> QED
        BY <4>1, <4>2
    <3>6. cut \/ deaf \/ session = "subscribed" \/ Loss
      BY <3>2
    <3>5. cut' \/ deaf' \/ session' = "subscribed" \/ Loss'
      BY <3>3, <3>4, <3>6, Zenon
    <3> QED
      BY <3>2, <3>4, <3>5
  <2> QED
    BY <2>1, <2>2, <2>3, Zenon DEF PubInv
<1>5. CASE pc' = "ack" /\ written' = FALSE
  <2>1. AskedFor' = {}
    BY <1>5 DEF AskedFor, SessionCmd, Config
  <2>2. AskedInv' /\ SubInv'
    BY <1>5, <2>1 DEF AskedInv, SubInv
  <2> QED
    BY <1>3, <1>4, <2>2 DEF LateInv
<1> SUFFICES ASSUME UNCHANGED <<pc, written>>
             PROVE  AskedInv' /\ SubInv'
  BY <1>3, <1>4, <1>5 DEF LateInv
<1>6. AskedInv'
  <2>1. AskedFor' = AskedFor /\ (Works' <=> Works)
    BY <1>2 DEF AskedFor, Works
  <2>2. pc = "poll" => AskedFor = {}
    BY DEF AskedFor, SessionCmd, Config
  <2>3. pc # "poll" /\ Unread("ERROR") => Unread("ERROR")'
    BY <1>1, TailKeeps
  <2> QED
    BY <1>1, <1>2, <2>1, <2>2, <2>3 DEF AskedInv
<1>7. SubInv'
  <2> SUFFICES ASSUME pc = "MSUB"
               PROVE  SubInv'
    BY <1>2 DEF SubInv
  <2>1. Head(rx) # "ERROR" /\ Head(rx) # "SUBACK"
    OBVIOUS
  <2>2. /\ Head(rx) = rx[1] /\ 1 \in DOMAIN rx
        /\ \A i \in DOMAIN Tail(rx) : i + 1 \in DOMAIN rx /\ Tail(rx)[i] = rx[i + 1]
        /\ \A i \in DOMAIN rx : i = 1 \/ (i - 1 \in DOMAIN Tail(rx) /\ Tail(rx)[i - 1] = rx[i])
        /\ \A i \in DOMAIN rx : i \in Nat /\ i >= 1
    BY <1>1, TakeOne
  <2>3. \A i \in DOMAIN Tail(rx) : i \in Nat
    <3>1. Tail(rx) \in Seq(Line)
      BY <1>1, TakeOne
    <3> QED
      BY <3>1, ElementOfSeq
  <2>4. ASSUME NEW i \in DOMAIN Tail(rx), Tail(rx)[i] = "SUBACK"
        PROVE  /\ cfg = Config \/ \E j \in DOMAIN Tail(rx) : j < i /\ Tail(rx)[j] = "ERROR"
               /\ session = "subscribed"
                    \/ \E j \in DOMAIN Tail(rx) : i < j /\ Tail(rx)[j] \in Lost
               /\ tx = <<>>
    <3>1. i + 1 \in DOMAIN rx /\ rx[i + 1] = "SUBACK" /\ i \in Nat
      BY <2>2, <2>3, <2>4
    <3>2. /\ cfg = Config \/ \E j \in DOMAIN rx : j < i + 1 /\ rx[j] = "ERROR"
          /\ session = "subscribed" \/ \E j \in DOMAIN rx : i + 1 < j /\ rx[j] \in Lost
          /\ tx = <<>>
      BY <1>1, <3>1 DEF SubInv
    <3>3. ASSUME NEW j \in DOMAIN rx, j < i + 1, rx[j] = "ERROR"
          PROVE  \E m \in DOMAIN Tail(rx) : m < i /\ Tail(rx)[m] = "ERROR"
      <4>1. j - 1 \in DOMAIN Tail(rx) /\ Tail(rx)[j - 1] = "ERROR" /\ j \in Nat
        BY <2>1, <2>2, <3>3
      <4>2. j - 1 < i
        BY <3>1, <3>3, <4>1
      <4> QED
        BY <4>1, <4>2
    <3>4. ASSUME NEW j \in DOMAIN rx, i + 1 < j, rx[j] \in Lost
          PROVE  \E m \in DOMAIN Tail(rx) : i < m /\ Tail(rx)[m] \in Lost
      <4>1. j \in Nat /\ j # 1
        BY <2>2, <3>1, <3>4
      <4>2. j - 1 \in DOMAIN Tail(rx) /\ Tail(rx)[j - 1] \in Lost
        BY <2>2, <3>4, <4>1
      <4>3. i < j - 1
        BY <3>1, <3>4, <4>1
      <4> QED
        BY <4>2, <4>3
    <3>5. cfg = Config \/ \E j \in DOMAIN Tail(rx) : j < i /\ Tail(rx)[j] = "ERROR"
      BY <3>2, <3>3
    <3>6. session = "subscribed" \/ \E j \in DOMAIN Tail(rx) : i < j /\ Tail(rx)[j] \in Lost
      BY <3>2, <3>4
    <3> QED
      BY <3>2, <3>5, <3>6
  <2>5. \A k \in DOMAIN tx : tx[k].cmd = "MSUB" => k = Len(tx)
    BY <1>1 DEF SubInv
  <2> QED
    BY <1>2, <2>4, <2>5 DEF SubInv
<1> QED
  BY <1>6, <1>7

-----------------------------------------------------------------------------
LEMMA FewerItself ==
  ASSUME NEW s
  PROVE  Fewer(s, s)
<1> DEFINE f == [p \in Marks(s) |-> p]
<1>1. f \in [Marks(s) -> Marks(s)]
  OBVIOUS
<1>2. \A p \in Marks(s) : s[f[p]] = s[p]
  OBVIOUS
<1>3. \A p, q \in Marks(s) : p < q => f[p] < f[q]
  OBVIOUS
<1> HIDE DEF f
<1> QED
  BY <1>1, <1>2, <1>3 DEF Fewer

LEMMA LossStays ==
  ASSUME rx' = rx
  PROVE  Loss => Loss'
BY DEF Loss, Unread

LEMMA NotConnectedLate ==
  ASSUME TypeOK, ConnectedInv, NestedInv, RungInv, LateInv, NotConnected
  PROVE  LateInv'
<1>1. Ends(FALSE) /\ UNCHANGED <<modem, tx, rx, cut, deaf>>
  BY DEF NotConnected, Ends
<1>2. FALSE \in BOOLEAN
  OBVIOUS
<1>3. Fewer(Trail(rx', tx'), Trail(rx, tx))
  BY <1>1, FewerItself
<1>4. Loss => Loss'
  BY <1>1, LossStays
<1>5. cut \/ deaf => cut' \/ deaf'
  BY <1>1, Zenon
<1>6. Loss => cut' \/ deaf' \/ Loss'
  BY <1>4, Zenon
<1> QED
  BY <1>1, <1>2, <1>3, <1>5, <1>6, EndsLate

LEMMA TimeoutLate ==
  ASSUME TypeOK, ConnectedInv, NestedInv, RungInv, LateInv, Timeout
  PROVE  LateInv'
<1>1. Ends(FALSE) /\ UNCHANGED <<modem, tx, rx, cut, deaf>>
  BY DEF Timeout
<1>2. FALSE \in BOOLEAN
  OBVIOUS
<1>3. Fewer(Trail(rx', tx'), Trail(rx, tx))
  BY <1>1, FewerItself
<1>4. Loss => Loss'
  BY <1>1, LossStays
<1>5. cut \/ deaf => cut' \/ deaf'
  BY <1>1, Zenon
<1>6. Loss => cut' \/ deaf' \/ Loss'
  BY <1>4, Zenon
<1> QED
  BY <1>1, <1>2, <1>3, <1>5, <1>6, EndsLate

LEMMA TimeoutCutsLate ==
  ASSUME TypeOK, ConnectedInv, NestedInv, RungInv, LateInv, TimeoutCuts
  PROVE  LateInv'
<1>1. /\ Ends(FALSE) /\ UNCHANGED <<modem, tx>> /\ cut' = TRUE /\ rx # <<>>
      /\ rx' = Tail(rx) \/ \E h \in {"OK", "ERROR"} : rx' = <<h>> \o Tail(rx)
  BY DEF TimeoutCuts
<1>2. FALSE \in BOOLEAN
  OBVIOUS
<1>3. Fewer(Trail(rx', tx'), Trail(rx, tx))
  <2>1. rx \in Seq(Line) /\ tx \in Seq(Sent)
    BY DEF TypeOK, Sent
  <2>2. \A h \in {"OK", "ERROR"} : h \in Line /\ h \notin SessionLine
    BY DEF Line, SessionLine
  <2>3. CASE rx' = Tail(rx)
    BY <1>1, <2>1, <2>3, TailTrail
  <2>4. CASE \E h \in {"OK", "ERROR"} : rx' = <<h>> \o Tail(rx)
    <3>1. PICK h \in {"OK", "ERROR"} : rx' = <<h>> \o Tail(rx)
      BY <2>4
    <3>2. h \in Line /\ h \notin SessionLine
      BY <2>2
    <3>3. Fewer(Trail(<<h>> \o Tail(rx), tx), Trail(rx, tx))
      BY <1>1, <2>1, <3>2, CutTrail
    <3> QED
      BY <1>1, <3>1, <3>3
  <2> QED
    BY <1>1, <2>3, <2>4
<1>4. cut'
  BY <1>1
<1> QED
  BY <1>1, <1>2, <1>3, <1>4, EndsLate

LEMMA DownlinkLate ==
  ASSUME TypeOK, ConnectedInv, NestedInv, RungInv, LateInv, rx # <<>>, rx' = Tail(rx),
         Head(rx) = "+MSUB", Downlink, UNCHANGED <<modem, tx, cut, deaf, connected>>
  PROVE  LateInv'
<1>1. \/ UNCHANGED <<pc, written, rung>>
      \/ connected /\ pc' = "ack" /\ written' = FALSE /\ rung' = rung
  BY DEF Downlink
<1>2. connected' \in BOOLEAN /\ rung' = rung
  BY <1>1 DEF TypeOK
<1>3. Head(rx) \notin Lost
  BY DEF Lost
<1>4. connected' => connected /\ Head(rx) \notin Lost
  BY <1>3
<1> QED
  BY <1>1, <1>2, <1>4, StayLate

LEMMA ReadLate ==
  ASSUME TypeOK, ConnectedInv, NestedInv, RungInv, LateInv, Read
  PROVE  LateInv'
<1> DEFINE line == Head(rx)
           ok == (pc = "CGREG" => info /\ line = "OK")
<1>1. /\ written /\ rx # <<>> /\ rx' = Tail(rx) /\ UNCHANGED <<modem, tx, cut>>
      /\ rx \in Seq(Line) /\ tx \in Seq(Sent) /\ connected \in BOOLEAN
  BY DEF Read, TypeOK, Sent
<1>2. Fewer(Trail(rx', tx'), Trail(rx, tx))
  <2>1. Fewer(Trail(rx', tx), Trail(rx, tx))
    BY <1>1, TailTrail
  <2> QED
    BY <1>1, <2>1
<1>3. CASE line \in Lost /\ connected' = FALSE /\ UNCHANGED <<dialogue, deaf>>
  <2>1. connected' \in BOOLEAN /\ ~connected'
    BY <1>3
  <2>2. line # "ERROR" /\ line # "SUBACK" /\ UNCHANGED <<pc, written, rung, deaf>>
    BY <1>3 DEF Lost
  <2> QED
    BY <1>1, <2>1, <2>2, StayLate
<1>4. CASE line \in Awaited(pc) /\ Ends(ok) /\ UNCHANGED deaf
  <2>1. line # "ERROR" /\ line \notin Lost /\ (pc \in SessionCmd => line = Done(pc))
    BY <1>4 DEF Awaited, SessionCmd, Done, Lost, Acks
  <2>2. CASE pc \in SessionCmd
    <3>1. ok <=> TRUE
      BY <2>2 DEF SessionCmd
    <3>2. Ends(TRUE)
      BY <1>4, <2>2 DEF SessionCmd
    <3> QED
      BY <1>1, <1>4, <2>1, <2>2, <3>2, SessionLate
  <2>3. CASE pc \notin SessionCmd
    <3>1. ok \in BOOLEAN
      BY Zenon
    <3>2. Unread("ERROR") => Unread("ERROR")'
      BY <1>1, <2>1, TailKeeps
    <3>3. Loss => Loss'
      BY <1>1, <2>1, LossKeeps
    <3>4. Loss => cut' \/ deaf' \/ Loss'
      BY <3>3, Zenon
    <3>5. cut \/ deaf => cut' \/ deaf'
      BY <1>1, <1>4, Zenon
    <3> HIDE DEF ok
    <3> QED
      BY <1>1, <1>2, <1>4, <2>3, <3>1, <3>2, <3>4, <3>5, EndsLate
  <2> QED
    BY <2>2, <2>3
<1>5. CASE Ends(FALSE) /\ deaf' = (deaf \/ line \in Lost)
  <2>1. line \notin Lost => (Loss => Loss')
    BY <1>1, LossKeeps
  <2>2. Loss => cut' \/ deaf' \/ Loss'
    BY <1>5, <2>1, Zenon
  <2>3. cut \/ deaf => cut' \/ deaf'
    BY <1>1, <1>5, Zenon
  <2>4. FALSE \in BOOLEAN
    OBVIOUS
  <2> QED
    BY <1>1, <1>2, <1>5, <2>2, <2>3, <2>4, EndsLate
<1>6. CASE line \notin Awaited(pc) \cup Lost \cup {"+MSUB", "ERROR"}
           /\ UNCHANGED <<pc, written, rung, connected, deaf>>
  <2>1. pc = "MSUB" => line # "SUBACK"
    BY <1>6 DEF Awaited
  <2>2. connected' \in BOOLEAN /\ (connected' => connected /\ line \notin Lost)
    BY <1>1, <1>6
  <2> QED
    BY <1>1, <1>6, <2>1, <2>2, StayLate
<1>7. CASE line = "+MSUB" /\ Downlink /\ UNCHANGED <<connected, deaf>>
  BY <1>1, <1>7, DownlinkLate
<1> QED
  BY <1>3, <1>4, <1>5, <1>6, <1>7 DEF Read

LEMMA PollLate ==
  ASSUME TypeOK, ConnectedInv, NestedInv, RungInv, LateInv, Poll
  PROVE  LateInv'
<1>1. pc = "poll" /\ UNCHANGED <<modem, tx, cut, deaf>> /\ connected \in BOOLEAN
      /\ rx \in Seq(Line) /\ tx \in Seq(Sent)
  BY DEF Poll, TypeOK, Sent
<1>2. CASE rx # <<>> /\ rx' = Tail(rx) /\ connected' = (connected /\ Head(rx) \notin Lost)
           /\ UNCHANGED dialogue
  <2>1. connected' \in BOOLEAN
    BY <1>2, Zenon
  <2>2. connected' => connected /\ Head(rx) \notin Lost
    BY <1>2, Zenon
  <2>3. UNCHANGED <<pc, written, rung>>
    BY <1>2
  <2> QED
    BY <1>1, <1>2, <2>1, <2>2, <2>3, StayLate
<1>3. CASE Fill("MPUBEX") /\ UNCHANGED <<rx, rung, tries, msg, retry, connected>>
  <2>1. pc' = "MPUBEX" /\ written' = FALSE /\ rung = "publish"
        /\ UNCHANGED <<rx, rung, connected, tx, power, hung, cfg, session, prompt, cut, deaf>>
    BY <1>1, <1>3, GotoMoves DEF RungInv
  <2>3. Chains(pc', written', rung', connected', Trail(rx', tx'))
    BY <2>1 DEF LateInv, Chains
  <2>4. AskedFor' = {}
    BY <2>1 DEF AskedFor, SessionCmd
  <2>5. AskedInv' /\ SubInv'
    BY <2>1, <2>4 DEF AskedInv, SubInv
  <2>6. PubInv'
    BY <2>1 DEF LateInv, PubInv, Loss, Unread
  <2> QED
    BY <2>3, <2>5, <2>6 DEF LateInv
<1>4. CASE rx # <<>> /\ rx' = Tail(rx) /\ Head(rx) = "+MSUB" /\ Downlink /\ UNCHANGED connected
  BY <1>1, <1>4, DownlinkLate
<1> QED
  BY <1>2, <1>3, <1>4 DEF Poll

-----------------------------------------------------------------------------
LEMMA WriteLate ==
  ASSUME TypeOK, ConnectedInv, NestedInv, RungInv, LateInv, Write
  PROVE  LateInv'
<1>1. /\ pc \in Cmd /\ written = FALSE /\ written' = TRUE
      /\ UNCHANGED <<pc, rung, connected, power, hung, cfg, session, prompt, rx, cut, deaf>>
      /\ pc \in {"MPUBEX", "ack"} => connected
      /\ tx' = IF Works THEN Append(tx, [cmd |-> pc, msg |-> IF over' THEN 0 ELSE msg]) ELSE tx
  BY DEF Write, TypeOK, NestedInv
<1>2. /\ rx \in Seq(Line) /\ tx \in Seq(Sent) /\ connected \in BOOLEAN
      /\ Chains(pc, FALSE, rung, connected, Trail(rx, tx))
      /\ AskedInv /\ SubInv /\ PubInv
  BY <1>1 DEF TypeOK, LateInv, Sent
<1>3. pc \in SessionCmd => rung \in Ladder /\ ~connected
  BY DEF RungInv, ConnectedInv, SessionCmd, Stages, Acks
<1>4. AskedFor' = AskedFor \cup ({pc} \cap Config)
  BY <1>1 DEF AskedFor
<1>5. Works' <=> Works
  BY <1>1 DEF Works
<1>6. CASE ~Works
  <2>1. tx' = tx
    BY <1>1, <1>6
  <2>2. Chains(pc, TRUE, rung, connected, Trail(rx, tx))
    BY <1>2, <1>3, WrittenChains
  <2>3. Chains(pc', written', rung', connected', Trail(rx', tx'))
    BY <1>1, <2>1, <2>2
  <2>4. AskedInv'
    BY <1>5, <1>6 DEF AskedInv
  <2>5. SubInv'
    BY <1>1, <1>2, <2>1 DEF SubInv
  <2>6. PubInv'
    BY <1>1, <1>2, <2>1 DEF PubInv, Loss, Unread
  <2> QED
    BY <2>3, <2>4, <2>5, <2>6 DEF LateInv
<1>7. CASE Works
  <2> DEFINE x == [cmd |-> pc, msg |-> IF over' THEN 0 ELSE msg]
  <2>1. x \in Sent /\ tx' = Append(tx, x) /\ x.cmd = pc
    <3>1. (IF over' THEN 0 ELSE msg) \in 0 .. Messages + 1
      BY ModemAssumption DEF TypeOK
    <3>2. tx' = Append(tx, x) /\ x.cmd = pc
      BY <1>1, <1>7
    <3> QED
      BY <1>1, <3>1, <3>2 DEF Sent
  <2> HIDE DEF x
  <2>2. PICK n \in Nat :
          /\ DOMAIN Trail(rx, tx) = 1 .. n
          /\ DOMAIN Trail(rx, tx') = 1 .. n + 1
          /\ \A p \in 1 .. n : Trail(rx, tx')[p] = Trail(rx, tx)[p]
          /\ Trail(rx, tx')[n + 1] = Done(pc)
    BY <1>2, <2>1, AskedTrail
  <2>3. Chains(pc, TRUE, rung, connected, Trail(rx, tx'))
    <3>1. CASE pc \in SessionCmd
      <4> DEFINE s == Trail(rx, tx)
                 t == Trail(rx, tx')
      <4>1. /\ DOMAIN s = 1 .. n /\ DOMAIN t = 1 .. n + 1
            /\ \A p \in 1 .. n : t[p] = s[p]
            /\ t[n + 1] = Done(pc)
            /\ Chains(pc, FALSE, rung, connected, s)
        BY <1>2, <2>2
      <4> HIDE DEF s, t
      <4>2. Chains(pc, TRUE, rung, connected, t)
        BY <1>3, <3>1, <4>1, AskedChains
      <4> QED
        BY <4>2 DEF t
    <3>2. CASE pc \notin SessionCmd
      <4> DEFINE s == Trail(rx, tx)
                 t == Trail(rx, tx')
      <4>1. /\ DOMAIN s = 1 .. n /\ DOMAIN t = 1 .. n + 1
            /\ \A p \in 1 .. n : t[p] = s[p]
            /\ t[n + 1] = Done(pc)
        BY <2>2
      <4>2. Done(pc) \notin SessionLine
        BY <3>2 DEF Done, SessionCmd, SessionLine
      <4>3. Chains(pc, TRUE, rung, connected, s)
        BY <1>2, <3>2, WrittenChains
      <4> HIDE DEF s, t
      <4>4. DOMAIN t \subseteq Nat /\ n \in Nat
        BY <4>1
      <4>5. ASSUME NEW p \in DOMAIN t, p <= n
            PROVE  p \in DOMAIN s /\ s[p] = t[p]
        BY <4>1, <4>5
      <4>6. \A p \in Marks(t) : ~(p > n)
        <5> SUFFICES ASSUME NEW p \in DOMAIN t, p > n, t[p] \in SessionLine
                     PROVE  FALSE
          BY DEF Marks
        <5>1. p = n + 1
          BY <4>1
        <5> QED
          BY <4>1, <4>2, <5>1
      <4>7. MovedLines(s, t, n, 0)
        BY <4>4, <4>5, <4>6 DEF MovedLines
      <4>8. Fewer(t, s)
        BY <4>7, MovedTrail
      <4>9. Chains(pc, TRUE, rung, connected, t)
        BY <1>2, <4>3, <4>8, FewerChains
      <4> QED
        BY <4>9 DEF t
    <3> QED
      BY <3>1, <3>2
  <2>4. Chains(pc', written', rung', connected', Trail(rx', tx'))
    BY <1>1, <2>3
  <2>5. /\ DOMAIN tx = 1 .. Len(tx) /\ Len(tx) \in Nat
        /\ DOMAIN tx' = 1 .. Len(tx) + 1 /\ Len(tx') = Len(tx) + 1
        /\ tx'[Len(tx) + 1] = x /\ \A k \in 1 .. Len(tx) : tx'[k] = tx[k]
    BY <1>2, <2>1, AppendProperties
  <2>6. Len(tx) + 1 \in DOMAIN tx' /\ \A k \in DOMAIN tx : k \in DOMAIN tx' /\ tx'[k] = tx[k]
    BY <2>5
  <2>7. \A k \in DOMAIN tx' : k \in DOMAIN tx \/ k = Len(tx) + 1
    BY <2>5
  <2>8. AskedInv'
    <3> SUFFICES ASSUME NEW c \in AskedFor'
                 PROVE  c \in cfg' \/ Unread("ERROR")' \/ \E k \in DOMAIN tx' : tx'[k].cmd = c
      BY DEF AskedInv
    <3>1. CASE c = pc
      BY <2>1, <2>5, <2>6, <3>1
    <3>2. CASE c # pc
      <4>1. c \in cfg \/ Unread("ERROR") \/ \E k \in DOMAIN tx : tx[k].cmd = c
        BY <1>2, <1>4, <1>7, <3>2 DEF AskedInv
      <4>2. Unread("ERROR") => Unread("ERROR")'
        BY <1>1 DEF Unread
      <4> QED
        BY <1>1, <2>6, <4>1, <4>2
    <3> QED
      BY <3>1, <3>2
  <2>9. SubInv'
    <3> SUFFICES ASSUME pc = "MSUB"
                 PROVE  SubInv'
      BY <1>1 DEF SubInv
    <3>1. \A p \in DOMAIN Trail(rx, tx) : Trail(rx, tx)[p] # "SUBACK"
      <4>1. OwnLast(Trail(rx, tx), "SUBACK", FALSE)
        BY <1>2, <1>3 DEF Chains, Single, Done, SessionCmd, Stages, Ladder
      <4> QED
        BY <4>1 DEF OwnLast, Marks, SessionLine
    <3>2. /\ DOMAIN rx = 1 .. Len(rx) /\ Len(rx) \in Nat
          /\ DOMAIN Trail(rx, tx) = 1 .. Len(rx) + Len(tx)
          /\ \A p \in 1 .. Len(rx) : Trail(rx, tx)[p] = rx[p]
          /\ \A k \in 1 .. Len(tx) : Trail(rx, tx)[Len(rx) + k] = Done(tx[k].cmd)
      BY <1>2, TrailShape
    <3>3. \A i \in DOMAIN rx : rx[i] # "SUBACK"
      BY <2>5, <3>1, <3>2
    <3>4. ASSUME NEW k \in DOMAIN tx, tx[k].cmd = "MSUB"
          PROVE  FALSE
      <4>1. Len(rx) + k \in DOMAIN Trail(rx, tx) /\ Trail(rx, tx)[Len(rx) + k] = Done(tx[k].cmd)
        BY <2>5, <3>2
      <4> QED
        BY <3>1, <3>4, <4>1 DEF Done
    <3>5. \A k \in DOMAIN tx' : tx'[k].cmd = "MSUB" => k = Len(tx')
      BY <2>5, <2>6, <2>7, <3>4
    <3> QED
      BY <1>1, <3>3, <3>5 DEF SubInv
  <2>10. PubInv'
    <3>1. \A k \in DOMAIN tx' : k \in DOMAIN tx \/ tx'[k].cmd = pc
      BY <2>1, <2>5, <2>7
    <3>2. prompt' \/ (\E k \in DOMAIN tx' : tx'[k].cmd \in {"MPUBEX", "ack"}) => cfg' = Config
      BY <1>1, <1>2, <2>6, <3>1 DEF PubInv
    <3>3. connected /\ rung = "publish" => pc \in {"MPUBEX", "payload"} \cup Acks
      BY <1>1 DEF ConnectedInv, Cmd, Config, Acks
    <3>4. connected' /\ rung' = "publish" =>
            \A k \in DOMAIN tx' : tx'[k].cmd \in {"MPUBEX", "payload"} \cup Acks
      BY <1>1, <1>2, <2>6, <3>1, <3>3 DEF PubInv
    <3>5. connected' /\ rung' = "publish" =>
            cut' \/ deaf' \/ session' = "subscribed" \/ Loss'
      BY <1>1, <1>2 DEF PubInv, Loss, Unread
    <3>6. connected' => cfg' = Config
      BY <1>1, <1>2 DEF PubInv
    <3> QED
      BY <3>2, <3>4, <3>5, <3>6, Zenon DEF PubInv
  <2> QED
    BY <2>4, <2>8, <2>9, <2>10 DEF LateInv
<1> QED
  BY <1>6, <1>7

LEMMA BeginCycleLate ==
  ASSUME TypeOK, ConnectedInv, RungInv, LateInv, BeginCycle
  PROVE  LateInv'
<1>1. /\ pc = "idle" /\ pc' = "power_on" /\ rung' = "connect" /\ written' = FALSE
      /\ UNCHANGED <<connected, power, hung, cfg, session, prompt, tx, rx, cut>>
  BY GotoMoves DEF BeginCycle
<1>2. ~connected
  BY <1>1 DEF ConnectedInv, Acks
<1>3. Chains(pc', written', rung', connected', Trail(rx', tx'))
  BY <1>1, <1>2 DEF Chains, Stages, Config, SessionCmd
<1>4. AskedFor' = {}
  BY <1>1 DEF AskedFor, SessionCmd
<1>5. AskedInv' /\ SubInv'
  BY <1>1, <1>4 DEF AskedInv, SubInv
<1>6. PubInv'
  BY <1>1, <1>2 DEF LateInv, PubInv
<1> QED
  BY <1>3, <1>5, <1>6 DEF LateInv

\* Nothing of a session that was before is under way when the modem has been
\* turned on, if no line was left.
LEMMA PowerKeyLate ==
  ASSUME TypeOK, ConnectedInv, RungInv, PowerKey
  PROVE  ~stale' => LateInv'
<1>1. /\ pc \in {"power_on", "power_off_hard"} /\ written' = FALSE
      /\ \/ pc' = "AT" /\ pc = "power_on"
         \/ pc' = "idle"
         \/ pc' = "power_on" /\ rung = "level3"
  <2>1. CASE pc = "power_on" /\ Goto("AT")
    BY <2>1, GotoMoves
  <2>2. CASE pc = "power_off_hard" /\ Goto(IF rung = "level3" THEN "power_on" ELSE "idle")
    <3>1. CASE rung = "level3"
      BY <2>2, <3>1, GotoMoves
    <3>2. CASE rung # "level3"
      BY <2>2, <3>2, GotoMoves
    <3> QED
      BY <3>1, <3>2
  <2> QED
    BY <2>1, <2>2 DEF PowerKey
<1>2. /\ cfg' = {} /\ session' = "none" /\ prompt' = FALSE /\ tx' = <<>>
       /\ UNCHANGED <<rung, connected, rx>>
  BY DEF PowerKey
<1>3. ~stale' => Range(rx) \cap SessionLine = {}
  BY Zenon DEF PowerKey
<1>4. ~connected
  BY <1>1 DEF ConnectedInv, Acks
<1>5. ASSUME ~stale'
      PROVE  LateInv'
  <2>1. \A i \in DOMAIN rx : rx[i] \notin SessionLine
    BY <1>3, <1>5 DEF Range
  <2>2. /\ DOMAIN rx = 1 .. Len(rx) /\ Len(rx) \in Nat
        /\ DOMAIN Trail(rx, <<>>) = 1 .. Len(rx) + Len(<<>>)
        /\ \A p \in 1 .. Len(rx) : Trail(rx, <<>>)[p] = rx[p]
    <3>1. <<>> \in Seq(Sent) /\ rx \in Seq(Line)
      BY DEF TypeOK
    <3> QED
      BY <3>1, TrailShape
  <2>3. Marks(Trail(rx, <<>>)) = {}
    <3>1. Len(<<>>) = 0
      OBVIOUS
    <3>2. DOMAIN Trail(rx, <<>>) = DOMAIN rx
      BY <2>2, <3>1
    <3> QED
      BY <2>1, <2>2, <3>2 DEF Marks
  <2>4. Chains(pc', written', rung', connected', Trail(rx', tx'))
    BY <1>1, <1>2, <2>3, NoMarks
  <2>5. AskedFor' = {} /\ pc' # "MSUB"
    BY <1>1 DEF AskedFor, SessionCmd
  <2>6. AskedInv' /\ SubInv'
    BY <2>5 DEF AskedInv, SubInv
  <2>7. PubInv'
    BY <1>2, <1>4 DEF PubInv
  <2> QED
    BY <2>4, <2>6, <2>7 DEF LateInv
<1> QED
  BY <1>5

LEMMA HeardShape ==
  ASSUME NEW c \in Cmd, NEW f \in Line, rx \in Seq(Line), Heard(c, f)
  PROVE  /\ rx' \in Seq(Line)
         /\ \E n \in {1, 2} :
              /\ Len(rx') = Len(rx) + n /\ \A i \in 1 .. Len(rx) : rx'[i] = rx[i]
              /\ rx'[Len(rx) + n] = f
              /\ n = 2 => rx'[Len(rx) + 1] \in Before(c)
<1>1. Before(c) \subseteq Line
  BY DEF Before, Line
<1>2. CASE rx' = rx \o <<f>>
  BY <1>2
<1>3. CASE \E b \in Before(c) : rx' = rx \o <<b, f>>
  <2>1. PICK b \in Before(c) : rx' = rx \o <<b, f>>
    BY <1>3
  <2>2. /\ rx' \in Seq(Line) /\ Len(rx') = Len(rx) + 2 /\ \A i \in 1 .. Len(rx) : rx'[i] = rx[i]
        /\ rx'[Len(rx) + 2] = f /\ rx'[Len(rx) + 1] = b
    BY <1>1, <2>1
  <2> QED
    BY <2>2
<1> QED
  BY <1>2, <1>3 DEF Heard

\* A command is answered, refused or taken for a payload.
LEMMA TakenLate ==
  ASSUME TypeOK, RungInv, LateInv, UNCHANGED <<dialogue, connected, cut, deaf>>, Works,
         tx # <<>>, tx' = Tail(tx), NEW c, c = Head(tx).cmd,
         NEW f \in Line, Heard(c, f), f \in SessionLine => f = Done(c),
         cfg \subseteq cfg', cfg' \subseteq Config,
         c \in Config => c \in cfg' \/ f = "ERROR" \/ cfg = Config,
         f = "SUBACK" => session' = "subscribed",
         c \in {"MPUBEX", "payload"} \cup Acks => session' = session,
         prompt' => prompt \/ c \in {"MPUBEX", "ack"}
  PROVE  LateInv'
<1>1. /\ rx \in Seq(Line) /\ tx \in Seq(Sent) /\ written \in BOOLEAN /\ connected \in BOOLEAN
      /\ Chains(pc, written, rung, connected, Trail(rx, tx))
      /\ AskedInv /\ SubInv /\ PubInv
  BY DEF TypeOK, LateInv, Sent
<1>2. UNCHANGED <<pc, written, rung, connected, cut, deaf>>
  OBVIOUS
<1>3. /\ Tail(tx) \in Seq(Sent) /\ Head(tx) \in Sent /\ Head(tx) = tx[1] /\ 1 \in DOMAIN tx
      /\ \A k \in DOMAIN Tail(tx) : k + 1 \in DOMAIN tx /\ Tail(tx)[k] = tx[k + 1]
      /\ \A k \in DOMAIN tx : k = 1 \/ (k - 1 \in DOMAIN Tail(tx) /\ Tail(tx)[k - 1] = tx[k])
  BY <1>1, TakeOne
<1>4. c \in Cmd
  BY <1>3 DEF Sent
<1>5. /\ rx' \in Seq(Line)
      /\ \E n \in {1, 2} :
           /\ Len(rx') = Len(rx) + n /\ \A i \in 1 .. Len(rx) : rx'[i] = rx[i]
           /\ rx'[Len(rx) + n] = f
           /\ n = 2 => rx'[Len(rx) + 1] \in Before(c)
  BY <1>1, <1>4, HeardShape
<1>6. PICK n \in {1, 2} :
           /\ Len(rx') = Len(rx) + n /\ \A i \in 1 .. Len(rx) : rx'[i] = rx[i]
           /\ rx'[Len(rx) + n] = f
           /\ n = 2 => rx'[Len(rx) + 1] \in Before(c)
  BY <1>5
<1>7. Before(c) \cap SessionLine = {} /\ "ERROR" \notin Before(c)
  BY DEF Before, SessionLine
<1>8. Fewer(Trail(rx', tx'), Trail(rx, tx))
  <2>1. n = 2 => rx'[Len(rx) + 1] \notin SessionLine
    BY <1>6, <1>7
  <2> DEFINE v == rx'
  <2>2. v \in Seq(Line) /\ Len(v) = Len(rx) + n /\ (\A i \in 1 .. Len(rx) : v[i] = rx[i])
        /\ v[Len(rx) + n] = f /\ (n = 2 => v[Len(rx) + 1] \notin SessionLine)
    BY <1>5, <1>6, <2>1
  <2> HIDE DEF v
  <2>3. Fewer(Trail(v, Tail(tx)), Trail(rx, tx))
    BY <1>1, <2>2, HeardTrail
  <2> QED
    BY <2>3 DEF v
<1>9. Chains(pc', written', rung', connected', Trail(rx', tx'))
  BY <1>1, <1>2, <1>8, FewerChains
<1>10. /\ Len(rx) \in Nat /\ DOMAIN rx = 1 .. Len(rx) /\ DOMAIN rx' = 1 .. Len(rx')
       /\ Len(tx) \in Nat /\ DOMAIN tx = 1 .. Len(tx)
       /\ Len(Tail(tx)) = Len(tx) - 1 /\ DOMAIN Tail(tx) = 1 .. Len(Tail(tx))
  BY <1>1, <1>3, <1>5, HeadTailProperties
<1>11. \A i \in DOMAIN rx : i \in DOMAIN rx' /\ rx'[i] = rx[i]
  BY <1>6, <1>10
<1>12. \A a : Unread(a) => Unread(a)'
  BY <1>11 DEF Unread
<1>13. AskedFor' = AskedFor /\ AskedFor \subseteq Config
  <2>1. AskedFor' = AskedFor
    BY <1>2 DEF AskedFor
  <2>2. AskedFor \subseteq Config
    BY DEF AskedFor, Config
  <2> QED
    BY <2>1, <2>2
<1>14. f = "ERROR" => Unread("ERROR")'
  BY <1>6, <1>10 DEF Unread
<1>15. AskedInv'
  <2> SUFFICES ASSUME NEW a \in AskedFor
               PROVE  a \in cfg' \/ Unread("ERROR")' \/ \E k \in DOMAIN tx' : tx'[k].cmd = a
    BY <1>13 DEF AskedInv
  <2>1. a \in cfg \/ Unread("ERROR") \/ \E k \in DOMAIN tx : tx[k].cmd = a
    BY <1>1 DEF AskedInv
  <2>2. CASE a \in cfg \/ Unread("ERROR")
    BY <1>12, <2>2
  <2>3. CASE \E k \in DOMAIN tx : tx[k].cmd = a
    <3>1. PICK k \in DOMAIN tx : tx[k].cmd = a
      BY <2>3
    <3>2. CASE k = 1
      <4>1. c = a /\ a \in Config
        BY <1>3, <1>13, <3>1, <3>2
      <4>2. a \in cfg' \/ f = "ERROR"
        BY <4>1
      <4> QED
        BY <1>14, <4>2
    <3>3. CASE k # 1
      <4>1. k - 1 \in DOMAIN Tail(tx) /\ Tail(tx)[k - 1] = tx[k]
        BY <1>3, <3>3
      <4> QED
        BY <3>1, <4>1
    <3> QED
      BY <3>2, <3>3
  <2> QED
    BY <2>1, <2>2, <2>3
<1>16. SubInv'
  <2> SUFFICES ASSUME pc = "MSUB"
               PROVE  SubInv'
    BY <1>2 DEF SubInv
  <2>1. \A k \in DOMAIN tx : tx[k].cmd = "MSUB" => k = Len(tx)
    BY <1>1 DEF SubInv
  <2>2. \A i \in DOMAIN rx : rx[i] # "SUBACK"
    BY <1>1 DEF SubInv
  <2>3. ASSUME NEW k \in DOMAIN tx', tx'[k].cmd = "MSUB"
        PROVE  k = Len(tx')
    <3>1. k + 1 \in DOMAIN tx /\ tx[k + 1].cmd = "MSUB"
      BY <1>3, <2>3
    <3>2. k + 1 = Len(tx)
      BY <2>1, <3>1
    <3>3. k \in Nat
      BY <1>10, <2>3
    <3> QED
      BY <1>10, <3>2, <3>3
  <2>4. ASSUME NEW i \in DOMAIN rx', rx'[i] = "SUBACK"
        PROVE  /\ cfg' = Config \/ \E j \in DOMAIN rx' : j < i /\ rx'[j] = "ERROR"
               /\ session' = "subscribed"
               /\ tx' = <<>>
    <3>1. i \notin DOMAIN rx
      BY <1>11, <2>2, <2>4
    <3>2. "SUBACK" \notin Before(c)
      BY DEF Before
    <3>3. i = Len(rx) + n
      <4>1. i \in Nat /\ i <= Len(rx) + n /\ i > Len(rx)
        BY <1>6, <1>10, <2>4, <3>1
      <4>2. i = Len(rx) + 1 \/ i = Len(rx) + n
        BY <1>10, <4>1
      <4>3. n = 2 => i # Len(rx) + 1
        BY <1>6, <2>4, <3>2
      <4> QED
        BY <4>2, <4>3
    <3>4. f = "SUBACK"
      BY <1>6, <2>4, <3>3
    <3>5. c = "MSUB"
      BY <1>4, <3>4 DEF Done, SessionLine
    <3>6. Len(tx) = 1
      BY <1>3, <2>1, <3>5
    <3>7. Len(Tail(tx)) = 0
      BY <1>10, <3>6
    <3>8. Tail(tx) = <<>>
      BY <1>3, <3>7, EmptySeq
    <3>9. CASE Unread("ERROR")
      <4>1. PICK j \in DOMAIN rx : rx[j] = "ERROR"
        BY <3>9 DEF Unread
      <4>2. j < i
        BY <1>10, <3>3
      <4> QED
        BY <1>11, <3>4, <3>8, <4>1, <4>2
    <3>10. CASE ~Unread("ERROR")
      <4>1. AskedFor = Config
        BY DEF AskedFor, SessionCmd
      <4>2. ASSUME NEW a \in Config
            PROVE  a \in cfg
        <5>1. a \in cfg \/ \E k \in DOMAIN tx : tx[k].cmd = a
          BY <1>1, <3>10, <4>1 DEF AskedInv
        <5>2. \A k \in DOMAIN tx : tx[k].cmd = "MSUB"
          BY <1>3, <1>10, <3>5, <3>6
        <5> QED
          BY <5>1, <5>2 DEF Config
      <4> QED
        BY <3>4, <3>8, <4>2
    <3> QED
      BY <3>9, <3>10
  <2> QED
    BY <2>3, <2>4 DEF SubInv
<1>17. PubInv'
  <2>1. \A k \in DOMAIN tx' : \E m \in DOMAIN tx : tx'[k] = tx[m]
    BY <1>3
  <2>2. prompt' \/ (\E k \in DOMAIN tx' : tx'[k].cmd \in {"MPUBEX", "ack"}) => cfg = Config
    <3>1. prompt \/ (\E k \in DOMAIN tx : tx[k].cmd \in {"MPUBEX", "ack"}) => cfg = Config
      BY <1>1 DEF PubInv
    <3>2. c \in {"MPUBEX", "ack"} => \E k \in DOMAIN tx : tx[k].cmd \in {"MPUBEX", "ack"}
      BY <1>3
    <3>3. (\E k \in DOMAIN tx' : tx'[k].cmd \in {"MPUBEX", "ack"}) => \E k \in DOMAIN tx : tx[k].cmd \in {"MPUBEX", "ack"}
      BY <2>1
    <3>4. prompt' => prompt \/ c \in {"MPUBEX", "ack"}
      OBVIOUS
    <3> QED
      BY <3>1, <3>2, <3>3, <3>4, Zenon
  <2>3. cfg = Config => cfg' = Config
    OBVIOUS
  <2>4. connected' => cfg = Config
    BY <1>1, <1>2 DEF PubInv
  <2>5. ASSUME connected' /\ rung' = "publish"
        PROVE  /\ \A k \in DOMAIN tx' : tx'[k].cmd \in {"MPUBEX", "payload"} \cup Acks
               /\ cut' \/ deaf' \/ session' = "subscribed" \/ Loss'
    <3>1. /\ \A k \in DOMAIN tx : tx[k].cmd \in {"MPUBEX", "payload"} \cup Acks
          /\ cut \/ deaf \/ session = "subscribed" \/ Loss
      BY <1>1, <1>2, <2>5 DEF PubInv
    <3>2. session' = session
      BY <1>3, <3>1
    <3>3. Loss => Loss'
      BY <1>12 DEF Loss
    <3>4. (cut => cut') /\ (deaf => deaf')
      BY <1>2
    <3>7. cut \/ deaf \/ session = "subscribed" \/ Loss
      BY <3>1
    <3>5. cut' \/ deaf' \/ session' = "subscribed" \/ Loss'
      BY <3>2, <3>3, <3>4, <3>7, Zenon
    <3>6. \A k \in DOMAIN tx' : tx'[k].cmd \in {"MPUBEX", "payload"} \cup Acks
      BY <2>1, <3>1
    <3> QED
      BY <3>5, <3>6
  <2> QED
    BY <2>2, <2>3, <2>4, <2>5, Zenon DEF PubInv
<1> QED
  BY <1>9, <1>15, <1>16, <1>17 DEF LateInv

LEMMA AnswerLate ==
  ASSUME TypeOK, RungInv, LateInv, Answer
  PROVE  LateInv'
<1>1. /\ Works /\ tx # <<>> /\ tx' = Tail(tx) /\ Head(tx) \in Sent
      /\ UNCHANGED <<dialogue, connected, cut, deaf>>
      /\ \E f \in Line : Swallowed(Head(tx), f) \/ Obeyed(Head(tx).cmd, f)
  BY AnswerEffect
<1>2. PICK f \in Line : Swallowed(Head(tx), f) \/ Obeyed(Head(tx).cmd, f)
  BY <1>1
<1> DEFINE c == Head(tx).cmd
<1>3. c \in Cmd
  BY <1>1 DEF Sent
<1>4. CASE Swallowed(Head(tx), f)
  <2>1. /\ Heard(c, f) /\ f \notin SessionLine /\ f # "SUBACK" /\ cfg' = cfg
        /\ session' = session /\ prompt' = FALSE
    BY <1>4 DEF Swallowed, Heard, SessionLine
  <2>2. cfg = Config /\ cfg \subseteq cfg' /\ cfg' \subseteq Config
    BY <1>4, <2>1 DEF Swallowed, LateInv, PubInv
  <2>3. ~prompt'
    BY <2>1
  <2> HIDE DEF c
  <2>4. c = Head(tx).cmd
    BY DEF c
  <2> QED
    BY <1>1, <2>1, <2>2, <2>3, <2>4, TakenLate
<1>5. CASE Obeyed(Head(tx).cmd, f)
  <2>1. /\ Heard(c, f) /\ f \in Ending(c) /\ cfg \subseteq cfg' /\ cfg' \subseteq Config
        /\ c \in Config => c \in cfg'
        /\ c \in {"MPUBEX", "payload"} \cup Acks => session' = session
        /\ c = "MSUB" /\ f = "SUBACK" => session' = "subscribed"
        /\ prompt' => c \in {"MPUBEX", "ack"}
    BY <1>5 DEF Obeyed
  <2>2. f \in SessionLine => f = Done(c)
    BY <2>1 DEF Ending, SessionLine
  <2>3. f = "SUBACK" => session' = "subscribed"
    BY <1>3, <2>1 DEF Ending, Done
  <2>4. c = Head(tx).cmd
    OBVIOUS
  <2> HIDE DEF c
  <2> QED
    BY <1>1, <2>1, <2>2, <2>3, <2>4, TakenLate
<1> QED
  BY <1>2, <1>4, <1>5

LEMMA RefuseLate ==
  ASSUME TypeOK, RungInv, LateInv, Refuse
  PROVE  LateInv'
<1>1. /\ Works /\ tx # <<>> /\ tx' = Tail(tx) /\ Head(tx) \in Sent
      /\ \E f \in {"CLOSED", "ERROR", "OK"} :
           /\ Heard(Head(tx).cmd, f)
           /\ f = "OK" => Head(tx).cmd = "CGREG"
           /\ f = "CLOSED" => Head(tx).cmd = "SSLMIPSTART"
  BY RefuseEffect
<1>2. PICK f \in {"CLOSED", "ERROR", "OK"} :
           /\ Heard(Head(tx).cmd, f)
           /\ f = "OK" => Head(tx).cmd = "CGREG"
           /\ f = "CLOSED" => Head(tx).cmd = "SSLMIPSTART"
  BY <1>1
<1>3. UNCHANGED <<dialogue, connected, cut, deaf, cfg, session>> /\ prompt' = FALSE /\ cfg \subseteq Config
  BY DEF Refuse, TypeOK
<1> DEFINE c == Head(tx).cmd
<1>4. /\ Heard(c, f) /\ f \in Line /\ f \notin SessionLine /\ f # "SUBACK"
      /\ c \in Config => f = "ERROR"
  BY <1>2 DEF SessionLine, Line, Config
<1>5. ~prompt' /\ cfg \subseteq cfg' /\ cfg' \subseteq Config /\ session' = session
  BY <1>3
<1>6. c = Head(tx).cmd
  OBVIOUS
<1> HIDE DEF c
<1> QED
  BY <1>1, <1>3, <1>4, <1>5, <1>6, TakenLate

\* A line comes of itself.
LEMMA UrcLate ==
  ASSUME TypeOK, RungInv, LateInv, NEW f \in Urc, rx' = rx \o <<f>>,
         UNCHANGED <<pc, written, rung, connected, power, hung, cfg, prompt, tx, cut, deaf>>,
         session' = session \/ f \in Lost
  PROVE  LateInv'
<1>1. UNCHANGED <<pc, written, rung, connected, power, hung, cfg, prompt, tx, cut, deaf>>
  OBVIOUS
<1>2. /\ rx \in Seq(Line) /\ tx \in Seq(Sent) /\ written \in BOOLEAN /\ connected \in BOOLEAN
      /\ Chains(pc, written, rung, connected, Trail(rx, tx))
      /\ AskedInv /\ SubInv /\ PubInv
  BY DEF TypeOK, LateInv, Sent
<1>3. f \in Line /\ f \notin SessionLine /\ f # "SUBACK"
  BY DEF Line, SessionLine, Urc, Lost
<1>4. Chains(pc', written', rung', connected', Trail(rx', tx'))
  <2>1. Fewer(Trail(rx', tx'), Trail(rx, tx))
    <3>1. Fewer(Trail(rx \o <<f>>, tx), Trail(rx, tx))
      BY <1>2, <1>3, LostTrail
    <3> QED
      BY <1>1, <3>1
  <2> QED
    BY <1>1, <1>2, <2>1, FewerChains
<1>5. /\ DOMAIN rx = 1 .. Len(rx) /\ Len(rx) \in Nat /\ DOMAIN rx' = 1 .. Len(rx) + 1
      /\ \A i \in DOMAIN rx : rx'[i] = rx[i]
      /\ rx'[Len(rx) + 1] = f
  BY <1>2, <1>3, SayOne
<1>6. /\ DOMAIN rx \subseteq DOMAIN rx' /\ Len(rx) + 1 \in DOMAIN rx'
      /\ \A i \in DOMAIN rx' : i = Len(rx) + 1 \/ i \in DOMAIN rx
      /\ \A i \in DOMAIN rx : i < Len(rx) + 1
  BY <1>5
<1>7. /\ \A a : Unread(a) => Unread(a)'
      /\ Unread(f)'
  BY <1>5, <1>6 DEF Unread
<1>11. (Loss => Loss') /\ (f \in Lost => Loss')
  BY <1>7 DEF Loss
<1>8. AskedInv'
  <2>1. AskedFor' = AskedFor /\ (Works' <=> Works)
    BY <1>1 DEF AskedFor, Works
  <2> QED
    BY <1>1, <1>2, <1>7, <2>1 DEF AskedInv
<1>9. SubInv'
  <2> SUFFICES ASSUME pc = "MSUB"
               PROVE  SubInv'
    BY <1>1 DEF SubInv
  <2>1. ASSUME NEW i \in DOMAIN rx', rx'[i] = "SUBACK"
        PROVE  /\ cfg' = Config \/ \E j \in DOMAIN rx' : j < i /\ rx'[j] = "ERROR"
               /\ session' = "subscribed" \/ \E j \in DOMAIN rx' : i < j /\ rx'[j] \in Lost
               /\ tx' = <<>>
    <3>1. i \in DOMAIN rx /\ rx[i] = "SUBACK" /\ i < Len(rx) + 1
      BY <1>3, <1>5, <1>6, <2>1
    <3>2. /\ cfg = Config \/ \E j \in DOMAIN rx : j < i /\ rx[j] = "ERROR"
          /\ session = "subscribed" \/ \E j \in DOMAIN rx : i < j /\ rx[j] \in Lost
          /\ tx = <<>>
      BY <1>2, <3>1 DEF SubInv
    <3>3. cfg' = Config \/ \E j \in DOMAIN rx' : j < i /\ rx'[j] = "ERROR"
      BY <1>1, <1>5, <1>6, <3>2
    <3>4. session' = "subscribed" \/ \E j \in DOMAIN rx' : i < j /\ rx'[j] \in Lost
      <4>1. CASE f \in Lost
        BY <1>5, <1>6, <3>1, <4>1
      <4>2. CASE session' = session
        BY <1>5, <1>6, <3>2, <4>2
      <4> QED
        BY <4>1, <4>2
    <3> QED
      BY <1>1, <3>2, <3>3, <3>4
  <2>2. \A k \in DOMAIN tx' : tx'[k].cmd = "MSUB" => k = Len(tx')
    BY <1>1, <1>2 DEF SubInv
  <2> QED
    BY <2>1, <2>2 DEF SubInv
<1>10. PubInv'
  <2>1. prompt' \/ (\E k \in DOMAIN tx' : tx'[k].cmd \in {"MPUBEX", "ack"}) => cfg' = Config
    BY <1>1, <1>2 DEF PubInv
  <2>2. connected' => cfg' = Config
    BY <1>1, <1>2 DEF PubInv
  <2>3. connected' /\ rung' = "publish" => \A k \in DOMAIN tx' : tx'[k].cmd \in {"MPUBEX", "payload"} \cup Acks
    BY <1>1, <1>2 DEF PubInv
  <2>4. connected' /\ rung' = "publish" => cut' \/ deaf' \/ session' = "subscribed" \/ Loss'
    <3>1. CASE f \in Lost
      BY <1>11, <3>1
    <3>2. CASE session' = session
      BY <1>1, <1>2, <1>11, <3>2 DEF PubInv
    <3> QED
      BY <3>1, <3>2
  <2> QED
    BY <2>1, <2>2, <2>3, <2>4, Zenon DEF PubInv
<1> QED
  BY <1>4, <1>8, <1>9, <1>10 DEF LateInv

LEMMA LoseSessionLate ==
  ASSUME TypeOK, RungInv, LateInv, LoseSession
  PROVE  LateInv'
<1>1. PICK f \in Lost : rx' = rx \o <<f>>
  BY DEF LoseSession, Says
<1>2. UNCHANGED <<pc, written, rung, connected, power, hung, cfg, prompt, tx, cut, deaf>>
  BY DEF LoseSession
<1> QED
  BY <1>1, <1>2, UrcLate DEF Urc

LEMMA PassDownlinkLate ==
  ASSUME TypeOK, RungInv, LateInv, PassDownlink
  PROVE  LateInv'
<1>1. rx' = rx \o <<"+MSUB">> /\ "+MSUB" \in Urc
  BY DEF PassDownlink, Says, Urc
<1>2. UNCHANGED <<pc, written, rung, connected, power, hung, cfg, session, prompt, tx, cut, deaf>>
  BY DEF PassDownlink
<1> QED
  BY <1>1, <1>2, UrcLate

LEMMA HangLate ==
  ASSUME TypeOK, RungInv, LateInv, Hang
  PROVE  LateInv'
<1>1. UNCHANGED <<pc, written, rung, connected, power, cfg, session, prompt, tx, rx, cut, deaf>>
      /\ hung' = TRUE
  BY DEF Hang
<1>2. ~Works'
  BY <1>1 DEF Works
<1>3. Chains(pc', written', rung', connected', Trail(rx', tx'))
  BY <1>1 DEF LateInv
<1>4. SubInv'
  BY <1>1 DEF LateInv, SubInv
<1>5. PubInv'
  BY <1>1 DEF LateInv, PubInv, Loss, Unread
<1> QED
  BY <1>2, <1>3, <1>4, <1>5 DEF LateInv, AskedInv

LEMMA PowersDownLate ==
  ASSUME TypeOK, RungInv, LateInv, PowersDown
  PROVE  LateInv'
<1>1. /\ UNCHANGED <<pc, written, rung, connected, cfg, session, prompt, rx, cut, deaf>>
      /\ power' = "off" /\ tx' = <<>>
  BY DEF PowersDown
<1>2. /\ rx \in Seq(Line) /\ tx \in Seq(Sent) /\ written \in BOOLEAN /\ connected \in BOOLEAN
      /\ Chains(pc, written, rung, connected, Trail(rx, tx))
      /\ SubInv /\ PubInv
  BY DEF TypeOK, LateInv, Sent
<1>3. ~Works'
  BY <1>1 DEF Works
<1>4. Chains(pc', written', rung', connected', Trail(rx', tx'))
  <2>1. Fewer(Trail(rx', tx'), Trail(rx, tx))
    <3>1. Fewer(Trail(rx, <<>>), Trail(rx, tx))
      BY <1>2, ClearedTrail
    <3> QED
      BY <1>1, <3>1
  <2> QED
    BY <1>1, <1>2, <2>1, FewerChains
<1>5. DOMAIN tx' = {}
  BY <1>1
<1>6. SubInv'
  BY <1>1, <1>2, <1>5 DEF SubInv
<1>7. PubInv'
  BY <1>1, <1>2, <1>5 DEF PubInv, Loss, Unread
<1> QED
  BY <1>3, <1>4, <1>6, <1>7 DEF LateInv, AskedInv

LEMMA StutterLate ==
  ASSUME RungInv, LateInv, UNCHANGED vars
  PROVE  LateInv'
<1>1. UNCHANGED <<pc, written, rung, connected, power, hung, cfg, session, prompt, tx, rx, cut, deaf>>
  BY DEF vars
<1>2. AskedFor' = AskedFor /\ (Works' <=> Works)
  BY <1>1 DEF AskedFor, Works
<1>3. Chains(pc', written', rung', connected', Trail(rx', tx'))
  BY <1>1 DEF LateInv
<1>4. SubInv'
  BY <1>1 DEF LateInv, SubInv
<1>5. PubInv' /\ AskedInv'
  BY <1>1, <1>2 DEF LateInv, PubInv, AskedInv, Loss, Unread
<1> QED
  BY <1>3, <1>4, <1>5 DEF LateInv

LEMMA StepRung ==
  ASSUME TypeOK, ConnectedInv, NestedInv, RungInv, [Next]_vars
  PROVE  RungInv'
<1>1. connected \in BOOLEAN /\ TRUE \in BOOLEAN /\ FALSE \in BOOLEAN
  BY DEF TypeOK
<1>2. ASSUME NEW ok \in BOOLEAN, Ends(ok)
      PROVE  RungInv'
  BY <1>1, <1>2, EndsWays, WaysPlace, TwoParts
<1>3. CASE UNCHANGED <<pc, rung>>
  BY <1>3 DEF RungInv
<1>13. CASE Downlink
  <2>1. UNCHANGED <<pc, rung>> \/ pc' = "ack"
    BY <1>13 DEF Downlink
  <2> QED
    BY <1>3, <2>1 DEF RungInv, Stages, Config, SessionCmd
<1>4. CASE NotConnected
  <2>1. Ends(FALSE)
    BY <1>4 DEF NotConnected, Ends
  <2> QED
    BY <1>1, <1>2, <2>1
<1>5. CASE Write
  BY <1>3, <1>5 DEF Write
<1>6. CASE Read
  <2>1. (pc = "CGREG" => info /\ Head(rx) = "OK") \in BOOLEAN
    BY Zenon
  <2>2. CASE Ends(pc = "CGREG" => info /\ Head(rx) = "OK")
    BY <1>2, <2>1, <2>2
  <2>3. CASE Ends(FALSE)
    BY <1>1, <1>2, <2>3
  <2> QED
    BY <1>3, <1>6, <1>13, <2>2, <2>3 DEF Read
<1>7. CASE Timeout \/ TimeoutCuts
  BY <1>1, <1>2, <1>7 DEF Timeout, TimeoutCuts
<1>8. CASE Poll
  <2>1. CASE Fill("MPUBEX") /\ UNCHANGED <<rx, rung, tries, msg, retry, connected>>
    <3>1. pc = "poll" /\ pc' = "MPUBEX" /\ rung' = rung
      BY <1>8, <2>1, GotoMoves DEF Poll
    <3> QED
      BY <3>1 DEF RungInv, Stages, Config, SessionCmd
  <2> QED
    BY <1>3, <1>8, <1>13, <2>1 DEF Poll
<1>9. CASE BeginCycle
  <2>1. pc' = "power_on" /\ rung' = "connect"
    BY <1>9, GotoMoves DEF BeginCycle
  <2> QED
    BY <2>1 DEF RungInv, Ladder
<1>10. CASE PowerKey
  <2>1. UNCHANGED rung
    BY <1>10 DEF PowerKey
  <2>2. CASE pc = "power_on" /\ Goto("AT")
    <3>1. pc' = "AT"
      BY <2>2, GotoMoves
    <3> QED
      BY <2>1, <2>2, <3>1 DEF RungInv, Stages
  <2>3. CASE pc = "power_off_hard" /\ Goto(IF rung = "level3" THEN "power_on" ELSE "idle")
    <3>1. pc' = "idle" \/ (pc' = "power_on" /\ rung = "level3")
      <4>1. CASE rung = "level3"
        BY <2>3, <4>1, GotoMoves
      <4>2. CASE rung # "level3"
        BY <2>3, <4>2, GotoMoves
      <4> QED
        BY <4>1, <4>2
    <3> QED
      BY <2>1, <3>1 DEF RungInv, Stages, Config, SessionCmd, Ladder
  <2> QED
    BY <1>10, <2>2, <2>3 DEF PowerKey
<1>11. CASE Answer \/ Refuse \/ LoseSession \/ PassDownlink \/ Hang \/ PowersDown
  BY <1>3, <1>11 DEF Answer, Refuse, LoseSession, PassDownlink, Hang, PowersDown
<1>12. CASE UNCHANGED vars
  BY <1>3, <1>12 DEF vars
<1> QED
  BY <1>4, <1>5, <1>6, <1>7, <1>8, <1>9, <1>10, <1>11, <1>12 DEF Next, Thread

LEMMA InitAnyTime == Init => AnyTimeInv
<1> SUFFICES ASSUME Init
             PROVE  RungInv /\ LateInv
  BY DEF AnyTimeInv
<1>1. /\ pc = "idle" /\ rung = "disconnect" /\ written = FALSE /\ connected = FALSE
      /\ prompt = FALSE /\ tx = <<>> /\ rx = <<>>
  BY DEF Init
<1>2. RungInv
  BY <1>1 DEF RungInv, Stages, Config, SessionCmd
<1>3. Chains(pc, written, rung, connected, Trail(rx, tx))
  BY <1>1 DEF Chains
<1>4. AskedFor = {}
  BY <1>1 DEF AskedFor, SessionCmd
<1>5. AskedInv /\ SubInv /\ PubInv
  BY <1>1, <1>4 DEF AskedInv, SubInv, PubInv
<1> QED
  BY <1>2, <1>3, <1>5 DEF LateInv

LEMMA StepAnyTime ==
  ASSUME TypeOK, ConnectedInv, NestedInv, AnyTimeInv, [Next]_vars
  PROVE  AnyTimeInv'
<1>1. CASE PowerKey
  BY <1>1, StepRung, PowerKeyLate DEF AnyTimeInv
<1>2. CASE ~PowerKey
  <2>1. RungInv /\ (~stale => LateInv) /\ RungInv'
    BY StepRung DEF AnyTimeInv
  <2>2. ~stale' => ~stale
    BY <1>2 DEF Next, Thread, NotConnected, Write, Read, Timeout, TimeoutCuts, Poll, BeginCycle,
           Answer, Refuse, LoseSession, PassDownlink, Hang, PowersDown, vars
  <2>3. LateInv => LateInv'
    BY <1>2, <2>1, NotConnectedLate, WriteLate, ReadLate, TimeoutLate, TimeoutCutsLate, PollLate,
       BeginCycleLate, AnswerLate, RefuseLate, LoseSessionLate,
       PassDownlinkLate, HangLate, PowersDownLate,
       StutterLate DEF Next, Thread
  <2> QED
    BY <2>1, <2>2, <2>3 DEF AnyTimeInv
<1> QED
  BY <1>1, <1>2

-----------------------------------------------------------------------------
(***************************************************************************)
(* The theorems                                                            *)
(***************************************************************************)

LEMMA InitModemInv == Init => ModemInv
<1> SUFFICES ASSUME Init
             PROVE  ModemInv
  OBVIOUS
<1> USE DEF Init
<1>1. /\ tx = <<>> /\ rx = <<>> /\ cfg = {} /\ claimed = {} /\ taken = {}
      /\ pc = "idle" /\ rung = "disconnect" /\ power = "off" /\ session = "none"
  OBVIOUS
<1>2. written = FALSE /\ info = FALSE /\ retry = FALSE /\ connected = FALSE
      /\ hung = FALSE /\ prompt = FALSE /\ cut = FALSE /\ stale = FALSE
      /\ crossed = FALSE /\ deaf = FALSE /\ spent = FALSE /\ over = FALSE
  OBVIOUS
<1>3. /\ written \in BOOLEAN /\ info \in BOOLEAN /\ retry \in BOOLEAN /\ connected \in BOOLEAN
      /\ hung \in BOOLEAN /\ prompt \in BOOLEAN /\ cut \in BOOLEAN /\ stale \in BOOLEAN
      /\ crossed \in BOOLEAN /\ deaf \in BOOLEAN /\ spent \in BOOLEAN /\ over \in BOOLEAN
  BY <1>2
<1>4. msg \in 1 .. Messages + 1 /\ faults \in 0 .. MaxFault /\ lates \in 0 .. MaxLate
      /\ downs \in 0 .. MaxDown
  BY ModemAssumption
<1>5. tries \in 0 .. Tries
  BY ModemAssumption
<1>6. Placed
  BY <1>1, <1>3, <1>4, <1>5 DEF Placed, Place, Rung
<1>7. Kept
  BY <1>1, <1>3, <1>4 DEF Kept
<1>8. ConnectedInv
  BY <1>2 DEF ConnectedInv
<1>11. NestedInv /\ Flags
  <2>1. outer = <<>> /\ outer \in Seq(Waits) /\ DOMAIN outer = {}
    OBVIOUS
  <2> QED
    BY <1>1, <1>3, <2>1 DEF NestedInv, Flags, Acks
<1>9. InStep /\ PromptInv
  BY <1>1, <1>2 DEF InStep, Silent, PromptInv, Acks
<1>10. PowerInv /\ claimed \subseteq taken
  BY <1>1 DEF PowerInv
<1> QED
  BY <1>2, <1>3, <1>6, <1>7, <1>8, <1>9, <1>10, <1>11, TwoParts DEF ModemInv, TimelyInv

LEMMA StepModemInv == ModemInv /\ [Next]_vars => ModemInv'
<1> SUFFICES ASSUME ModemInv, [Next]_vars
             PROVE  ModemInv'
  OBVIOUS
<1>1. TypeOK /\ ConnectedInv /\ NestedInv /\ (Timely => TimelyInv)
  BY DEF ModemInv
<1>2. TypeOK' /\ ConnectedInv' /\ NestedInv'
  BY <1>1, StepTyped
\* The counts only grow.
<1>3. Timely' => Timely /\ ~TimeoutCuts
  <2>1. ASSUME NEW a \in Nat, NEW b, b = a \/ b = a + 1, b = 0
        PROVE  a = 0
    BY <2>1
  <2>2. lates \in Nat
    BY <1>1, ModemAssumption DEF TypeOK
  <2>3. lates' = lates \/ lates' = lates + 1
    BY DEF Next, Thread, NotConnected, Write, Read, Timeout, TimeoutCuts, Poll, BeginCycle,
           PowerKey, Answer, Refuse, LoseSession, PassDownlink, Hang, PowersDown, vars
  <2>4. cut' = cut \/ cut' = TRUE
    BY DEF Next, Thread, NotConnected, Write, Read, Timeout, TimeoutCuts, Poll, BeginCycle,
           PowerKey, Answer, Refuse, LoseSession, PassDownlink, Hang, PowersDown, vars
  <2>7. crossed => crossed'
    <3>1. \/ crossed' = crossed \/ crossed' = (crossed \/ pc # "poll")
          \/ crossed' = (crossed \/ Head(rx) \in Lost)
      BY DEF Next, Thread, NotConnected, Write, Read, Downlink, Timeout, TimeoutCuts, Poll,
             BeginCycle, PowerKey, Answer, Refuse, LoseSession, PassDownlink, Hang, PowersDown,
             vars
    <3> QED
      BY <3>1, Zenon
  <2>5. TimeoutCuts => cut' = TRUE
    BY DEF TimeoutCuts
  <2>6. lates' = 0 => lates = 0
    BY <2>1, <2>2, <2>3
  <2> QED
    BY <2>4, <2>5, <2>6, <2>7 DEF Timely
<1>4. ASSUME Timely'
      PROVE  TimelyInv'
  <2>1. TimelyInv /\ ~TimeoutCuts /\ lates = 0 /\ lates' = 0 /\ ~crossed'
    BY <1>1, <1>3, <1>4 DEF Timely
  <2> QED
    BY <1>1, <2>1, NotConnectedTimely, WriteTimely, ReadTimely, TimeoutTimely, PollTimely,
       BeginCycleTimely, PowerKeyTimely, AnswerTimely, RefuseTimely, LoseSessionTimely,
       PassDownlinkTimely, HangTimely, PowersDownTimely, StutterTimely DEF Next, Thread
<1> QED
  BY <1>2, <1>4 DEF ModemInv

\* The invariant holds.
THEOREM ModemInvariant == Spec => []ModemInv
<1>1. QED
  BY InitModemInv, StepModemInv, PTL DEF Spec

\* The dialogue with the modem stays well typed, whatever the modem does and
\* whenever it answers.
THEOREM ModemTyped == Spec => []TypeOK
<1>1. ModemInv => TypeOK
  BY DEF ModemInv
<1> QED
  BY <1>1, ModemInvariant, PTL

\* A message that modem_publish reports as sent was taken by the modem with a
\* session, as long as no answer came after its wait and no publish was begun inside
\* another command's wait or given up before its answer (uplink.c:383-388).
THEOREM SentMeansTaken == Spec => []SentIsTaken
<1>1. ModemInv => SentIsTaken
  BY DEF ModemInv, TimelyInv, SentIsTaken, Timely
<1> QED
  BY <1>1, ModemInvariant, PTL

\* With a modem that obeys CPOWD in time, it is off between the cycles on the same
\* conditions: the power key never turns it on where it is pressed to turn it off
\* (modem.c:745-757, uplink.c:401).
THEOREM OffWhenTimely == Spec => [](TimelyOff => OffBetweenCycles)
<1>1. ModemInv => (TimelyOff => OffBetweenCycles)
  BY DEF ModemInv, TimelyInv, PowerInv, OffBetweenCycles, Timely
<1> QED
  BY <1>1, ModemInvariant, PTL

\* At each rung of the ladder of reconnects (modem.c:720-760) the lines of earlier
\* attempts that may still come are too few to be taken for a whole new session,
\* whenever answers come; so a session has what the modem was asked for.
THEOREM AnyTimeInvariant == Spec => []AnyTimeInv
<1>1. Init => AnyTimeInv
  BY InitAnyTime
<1>2. ModemInv /\ AnyTimeInv /\ [Next]_vars => AnyTimeInv'
  BY StepAnyTime DEF ModemInv, AnyTimeInv
<1> QED
  BY <1>1, <1>2, ModemInvariant, PTL DEF Spec

\* Messages go only to a broker that is verified: a session is believed in only
\* with every setting taken (modem.c:586-593), whenever answers come and whatever
\* is taken for an answer, except after the modem was turned on with lines of a
\* session left to read.
THEOREM SessionIsVerified == Spec => []SessionVerified
<1>1. AnyTimeInv => SessionVerified
  BY DEF AnyTimeInv, LateInv, PubInv, SessionVerified
<1> QED
  BY <1>1, AnyTimeInvariant, PTL

\* What the thread believes of the session is true or will be corrected by a
\* line that is there to read (modem.c:37-42), whenever answers come and whatever is
\* published in which wait, as long as no line was cut, and none of this cycle's was
\* taken for a refusal by the wait for a prompt; with the same exception.
THEOREM ConnectedMeansSession == Spec => []ConnectedIsTrue
<1>1. AnyTimeInv => ConnectedIsTrue
  BY DEF AnyTimeInv, LateInv, PubInv, ConnectedIsTrue, Publishing, Range, Loss, Unread
<1> QED
  BY <1>1, AnyTimeInvariant, PTL

\* As long as no answer came after its wait there is no exception (modem.c:586-593).
THEOREM VerifiedWhenTimely == Spec => [](Timely => SessionAlwaysVerified)
<1>1. ModemInv /\ AnyTimeInv => (Timely => SessionAlwaysVerified)
  BY DEF ModemInv, TimelyInv, AnyTimeInv, LateInv, PubInv, SessionAlwaysVerified
<1> QED
  BY <1>1, ModemInvariant, AnyTimeInvariant, PTL
=============================================================================
