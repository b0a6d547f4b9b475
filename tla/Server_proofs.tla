--------------------------- MODULE Server_proofs ---------------------------
(***************************************************************************)
(* Proofs about the server's two ways: from the bike to Home Assistant     *)
(* (StatePub), for any number of uplinks, losses and states under way, and *)
(* to the bike and back (Downlink, which implements Commands), for any     *)
(* number of downlinks, messages and restarts.                             *)
(***************************************************************************)
EXTENDS Downlink, StatePub, SequenceTheorems, NaturalsInduction, WellFoundedInduction, TLAPS

USE DEF tables, tasks, broker, hass

-----------------------------------------------------------------------------
(***************************************************************************)
(* Types                                                                   *)
(***************************************************************************)

LEMMA TimeIsNat == Time \subseteq Nat /\ 0 .. MaxUp \subseteq Nat
BY StatePubBounds DEF Time

LEMMA NoStateIsState == NoState \in State
<1>1. 0 \in Time /\ 0 \in 0 .. MaxUp
  BY StatePubBounds DEF Time
<1> QED
  BY <1>1 DEF NoState, State

LEMMA OutTyped ==
  ASSUME StateTypeOK
  PROVE  /\ \A s \in Out : s \in State
         /\ \A p \in Publisher : built[p] \in State
         /\ \A i \in DOMAIN net : net[i] \in State /\ net[i] \in Out
         /\ data \in Out /\ retained \in Out
BY DEF StateTypeOK, Out

LEMMA StateTyped ==
  ASSUME NEW s \in State
  PROVE  s.t \in Nat /\ s.ls \in Nat /\ s.row \in Nat /\ s.base \in Nat
BY TimeIsNat DEF State

Places == {"idle", "add", "clear", "build", "tables", "old", "publish"}

\* Only ingest moves.
OthersStay == \A q \in Publisher \ {"ingest"} : pc'[q] = pc[q]

LEMMA GotoTyped ==
  ASSUME StateTypeOK, NEW p \in Publisher, NEW place \in Places, Goto(p, place)
  PROVE  /\ pc' \in [Publisher -> Places] /\ pc'[p] = place
         /\ \A q \in Publisher : q # p => pc'[q] = pc[q]
BY DEF StateTypeOK, Goto, Places

\* The publisher has come to the end of publish_state.
LEMMA DoneTyped ==
  ASSUME StateTypeOK, NEW p \in Publisher, Done(p)
  PROVE  /\ pc' \in [Publisher -> Places] /\ pc'[p] = "idle"
         /\ \A q \in Publisher : q # p => pc'[q] = pc[q] /\ built'[q] = built[q]
         /\ built' \in [Publisher -> State]
         /\ built'[p] = NoState /\ force' \in BOOLEAN
<1>1. pc' \in [Publisher -> Places] /\ pc'[p] = "idle" /\ \A q \in Publisher : q # p => pc'[q] = pc[q]
  BY GotoTyped DEF Done, Places
<1>2. /\ built' \in [Publisher -> State] /\ built'[p] = NoState
      /\ \A q \in Publisher : q # p => built'[q] = built[q]
  BY NoStateIsState DEF Done, StateTypeOK
<1>3. force' \in BOOLEAN
  BY Zenon DEF Done
<1> QED
  BY <1>1, <1>2, <1>3

LEMMA TakeOne ==
  ASSUME NEW S, NEW s \in Seq(S), s # <<>>
  PROVE  /\ Tail(s) \in Seq(S) /\ Head(s) \in S /\ Head(s) = s[1] /\ 1 \in DOMAIN s
         /\ \A i \in DOMAIN Tail(s) : i \in Int /\ 1 < i + 1 /\ i + 1 \in DOMAIN s /\ Tail(s)[i] = s[i + 1]
<1>1. /\ Tail(s) \in Seq(S) /\ Head(s) \in S /\ Head(s) = s[1]
      /\ Len(s) \in Nat /\ Len(s) >= 1 /\ DOMAIN s = 1 .. Len(s)
      /\ Len(Tail(s)) = Len(s) - 1 /\ DOMAIN Tail(s) = 1 .. Len(Tail(s))
      /\ \A i \in 1 .. Len(Tail(s)) : Tail(s)[i] = s[i + 1]
  BY HeadTailProperties
<1> QED
  BY <1>1

LEMMA PutOne ==
  ASSUME NEW S, NEW s \in Seq(S), NEW e \in S
  PROVE  /\ Append(s, e) \in Seq(S)
         /\ \A i \in DOMAIN Append(s, e) :
              \/ i \in DOMAIN s /\ Append(s, e)[i] = s[i]
              \/ Append(s, e)[i] = e /\ \A j \in DOMAIN Append(s, e) : j <= i
BY AppendProperties

LEMMA InitTyped == StateInit => StateTypeOK /\ RowInv
<1> SUFFICES ASSUME StateInit
             PROVE  StateTypeOK /\ RowInv
  OBVIOUS
<1>1. pc = [p \in Publisher |-> "idle"] /\ built = [p \in Publisher |-> NoState]
  BY DEF StateInit
<1>2. pc \in [Publisher -> Places] /\ built \in [Publisher -> State]
  BY <1>1, NoStateIsState DEF Places
<1>3. /\ {now, last_seen} \subseteq Time /\ {row, ups} \subseteq 0 .. MaxUp /\ losses \in 0 .. MaxLoss
      /\ "ingest" \in Publisher /\ MaxUp \in Nat
  BY StatePubBounds DEF StateInit, Time, Publisher
<1>4. force \in BOOLEAN /\ linked \in BOOLEAN
  <2>1. force = TRUE /\ linked = FALSE
    BY DEF StateInit
  <2> QED
    BY <2>1
<1>5. net \in Seq(State) /\ {retained, data, state_json} \subseteq State /\ lwt \in {0, 1}
  BY NoStateIsState DEF StateInit
<1>6. row = 0 /\ ups = 0 /\ \A q \in Publisher : pc[q] = "idle"
  BY <1>1 DEF StateInit
<1> QED
  BY <1>2, <1>3, <1>4, <1>5, <1>6 DEF StateTypeOK, RowInv, Places

LEMMA StepTyped ==
  ASSUME StateTypeOK, RowInv, [StateNext]_stateVars
  PROVE  StateTypeOK' /\ RowInv'
<1>1. /\ now \in 0 .. MaxTime /\ last_seen \in 0 .. MaxTime /\ row \in 0 .. MaxUp
      /\ ups \in 0 .. MaxUp /\ losses \in 0 .. MaxLoss
      /\ MaxTime \in Nat /\ MaxUp \in Nat /\ MaxLoss \in Nat
  BY StatePubBounds DEF StateTypeOK, Time
<1>2. Time = 0 .. MaxTime /\ "ingest" \in Publisher
  BY DEF Time, Publisher
<1>3. /\ pc \in [Publisher -> Places] /\ built \in [Publisher -> State]
      /\ retained \in State /\ data \in State /\ state_json \in State /\ net \in Seq(State)
      /\ lwt \in {0, 1} /\ force \in BOOLEAN /\ linked \in BOOLEAN
  BY DEF StateTypeOK, Places
<1>4. \A q \in Publisher \ {"ingest"} : pc[q] \in {"idle", "tables", "old", "publish"}
  BY DEF RowInv
<1>5. CASE Touch
  <2>1. /\ ups < MaxUp /\ ups' = ups + 1 /\ last_seen' = now /\ pc["ingest"] = "idle"
        /\ UNCHANGED <<now, lwt, row, built, force, broker, hass>>
    BY <1>5 DEF Touch
  <2>2. /\ pc' \in [Publisher -> Places] /\ pc'["ingest"] \in {"add", "clear"}
        /\ OthersStay
    <3>1. PICK next \in {"add", "clear"} : Goto("ingest", next)
      BY <1>5 DEF Touch
    <3>2. next \in Places
      BY DEF Places
    <3> QED
      BY <1>2, <3>1, <3>2, GotoTyped DEF OthersStay
  <2>3. ups' \in 0 .. MaxUp /\ row + 1 <= ups'
    BY <1>1, <2>1 DEF RowInv
  <2>4. row' + (IF pc'["ingest"] = "add" THEN 1 ELSE 0) <= ups'
    BY <1>1, <2>1, <2>2, <2>3
  <2> QED
    BY <1>1, <1>2, <1>3, <1>4, <2>1, <2>2, <2>3, <2>4 DEF StateTypeOK, RowInv, Places, OthersStay
<1>6. CASE AddRow
  <2>1. /\ pc["ingest"] = "add" /\ row' \in {row, row + 1}
        /\ UNCHANGED <<now, last_seen, lwt, ups, built, force, broker, hass>>
    BY <1>6 DEF AddRow
  <2>2. pc' \in [Publisher -> Places] /\ pc'["ingest"] = "build" /\ OthersStay
    BY <1>2, <1>6, GotoTyped DEF AddRow, Places, OthersStay
  <2>3. row + 1 <= ups' /\ ups' \in 0 .. MaxUp /\ ups' = ups
    BY <1>1, <2>1 DEF RowInv
  <2>4. row' \in 0 .. MaxUp /\ row' <= ups'
    BY <1>1, <2>1, <2>3
  <2>5. row' + (IF pc'["ingest"] = "add" THEN 1 ELSE 0) <= ups'
    BY <2>2, <2>4
  <2>6. UNCHANGED <<now, last_seen, lwt, built, force, broker, hass>>
    BY <2>1
  <2> QED
    BY <1>1, <1>2, <1>3, <1>4, <2>2, <2>3, <2>4, <2>5, <2>6 DEF StateTypeOK, RowInv, Places, OthersStay
<1>7. CASE HelloClearsLwt
  <2>1. /\ pc["ingest"] = "clear" /\ lwt' = 0
        /\ UNCHANGED <<now, last_seen, row, ups, built, force, broker, hass>>
    BY <1>7 DEF HelloClearsLwt
  <2>2. pc' \in [Publisher -> Places] /\ pc'["ingest"] = "build" /\ OthersStay
    BY <1>2, <1>7, GotoTyped DEF HelloClearsLwt, Places, OthersStay
  <2> QED
    BY <1>1, <1>2, <1>3, <1>4, <2>1, <2>2 DEF StateTypeOK, RowInv, Places, OthersStay
<1>8. CASE OnLwt
  <2>1. /\ ups < MaxUp /\ ups' = ups + 1 /\ lwt' = 1 /\ pc["ingest"] = "idle"
        /\ UNCHANGED <<now, last_seen, row, built, force, broker, hass>>
    BY <1>8 DEF OnLwt
  <2>2. pc' \in [Publisher -> Places] /\ pc'["ingest"] = "build" /\ OthersStay
    BY <1>2, <1>8, GotoTyped DEF OnLwt, Places, OthersStay
  <2>3. ups' \in 0 .. MaxUp /\ row <= ups'
    BY <1>1, <2>1 DEF RowInv
  <2> QED
    BY <1>1, <1>2, <1>3, <1>4, <2>1, <2>2, <2>3 DEF StateTypeOK, RowInv, Places, OthersStay
\* A publisher goes from one place of publish_state to another.
<1>9. ASSUME NEW p \in Publisher, pc' \in [Publisher -> Places],
             pc'[p] \in {"idle", "tables", "old", "publish"},
             \A q \in Publisher : q # p => pc'[q] = pc[q],
             UNCHANGED <<now, tables>>, built' \in [Publisher -> State],
             force' \in BOOLEAN,
             {retained', data', state_json'} \subseteq State, net' \in Seq(State),
             UNCHANGED <<linked, losses>>
      PROVE  StateTypeOK' /\ RowInv'
  <2>1. row <= ups
    BY <1>1 DEF RowInv
  <2>2. row' + (IF pc'["ingest"] = "add" THEN 1 ELSE 0) <= ups'
    BY <1>1, <1>2, <1>9, <2>1 DEF RowInv
  <2>3. \A q \in Publisher \ {"ingest"} : pc'[q] \in {"idle", "tables", "old", "publish"}
    BY <1>2, <1>4, <1>9
  <2> QED
    BY <1>1, <1>2, <1>3, <1>9, <2>2, <2>3 DEF StateTypeOK, RowInv, Places
<1>10. ASSUME NEW p \in Publisher, PublishState(p)
       PROVE  StateTypeOK' /\ RowInv'
  <2>1. CASE ReadDevice(p)
    <3>1. [t |-> now, on |-> Online, ls |-> last_seen, lwt |-> lwt, row |-> 0, base |-> row] \in State
      <4>1. Online \in BOOLEAN
        BY Zenon DEF Online
      <4>2. 0 \in 0 .. MaxUp
        BY <1>1
      <4> QED
        BY <1>1, <1>2, <1>3, <4>1, <4>2 DEF State
    <3>2. built' \in [Publisher -> State]
      BY <1>3, <2>1, <3>1 DEF ReadDevice
    <3>3. /\ pc' \in [Publisher -> Places] /\ pc'[p] = "tables"
          /\ \A q \in Publisher : q # p => pc'[q] = pc[q]
      BY <2>1, GotoTyped DEF ReadDevice, Places
    <3>4. UNCHANGED <<now, tables, force, broker, hass>>
      BY <2>1 DEF ReadDevice
    <3> QED
      BY <1>3, <1>9, <3>2, <3>3, <3>4
  <2>2. CASE ReadTables(p)
    <3>1. built' \in [Publisher -> State]
      <4>1. [built[p] EXCEPT !.row = row] \in State
        BY <1>1, <1>3 DEF State
      <4>2. built' = [built EXCEPT ![p] = [built[p] EXCEPT !.row = row]]
        BY <2>2 DEF ReadTables
      <4> QED
        BY <1>3, <4>1, <4>2
    <3>2. /\ pc' \in [Publisher -> Places] /\ pc'[p] = "old"
          /\ \A q \in Publisher : q # p => pc'[q] = pc[q]
      BY <2>2, GotoTyped DEF ReadTables, Places
    <3>3. UNCHANGED <<now, tables, force, broker, hass>>
      BY <2>2 DEF ReadTables
    <3> QED
      BY <1>3, <1>9, <3>1, <3>2, <3>3
  <2>3. CASE ReadOld(p)
    <3>1. built' \in [Publisher -> State]
      BY <1>3, <2>3 DEF ReadOld
    <3>2. /\ pc' \in [Publisher -> Places] /\ pc'[p] = "publish"
          /\ \A q \in Publisher : q # p => pc'[q] = pc[q]
      BY <2>3, GotoTyped DEF ReadOld, Places
    <3>3. UNCHANGED <<now, tables, built, force, broker, hass>>
      BY <2>3 DEF ReadOld
    <3> QED
      BY <1>3, <1>9, <3>1, <3>2, <3>3
  <2>4. CASE PublishNothing(p)
    <3>1. Done(p) /\ UNCHANGED <<now, tables, broker, hass>>
      BY <2>4 DEF PublishNothing
    <3> QED
      BY <1>3, <1>9, <3>1, DoneTyped
  <2>5. CASE Publish(p)
    <3>1. /\ Done(p) /\ UNCHANGED <<now, tables, hass>>
          /\ retained' = built[p] /\ state_json' = built[p]
          /\ net' = IF linked THEN Append(net, built[p]) ELSE net
      BY <2>5 DEF Publish
    <3>2. built[p] \in State
      BY <1>3
    <3>3. net' \in Seq(State)
      BY <1>3, <3>1, <3>2, PutOne
    <3> QED
      BY <1>3, <1>9, <3>1, <3>2, <3>3, DoneTyped
  <2> QED
    BY <1>10, <2>1, <2>2, <2>3, <2>4, <2>5 DEF PublishState
<1>11. ASSUME UNCHANGED <<tables, tasks, retained, state_json>>, now' \in 0 .. MaxTime,
              net' \in Seq(State), data' \in State, linked' \in BOOLEAN, losses' \in 0 .. MaxLoss
       PROVE  StateTypeOK' /\ RowInv'
  BY <1>1, <1>2, <1>3, <1>11 DEF StateTypeOK, RowInv, Places
<1>12. CASE MessageReceived
  <2>1. /\ net # <<>> /\ net' = Tail(net)
        /\ data' = IF Head(net).t < data.t THEN data ELSE Head(net)
        /\ UNCHANGED <<now, tables, tasks, retained, state_json, linked, losses>>
    BY <1>12 DEF MessageReceived
  <2>2. net' \in Seq(State) /\ Head(net) \in State
    BY <1>3, <2>1, TakeOne
  <2> QED
    BY <1>1, <1>3, <1>11, <2>1, <2>2
<1>13. CASE Reconnect
  <2>1. /\ linked' = TRUE /\ net' = IF retained = NoState THEN <<>> ELSE <<retained>>
        /\ UNCHANGED <<now, tables, tasks, retained, state_json, data, losses>>
    BY <1>13 DEF Reconnect
  <2>2. net' \in Seq(State)
    BY <1>3, <2>1
  <2>3. linked' \in BOOLEAN
    BY <2>1
  <2> QED
    BY <1>1, <1>3, <1>11, <2>1, <2>2, <2>3
<1>14. Lose => losses' \in 0 .. MaxLoss
  BY <1>1 DEF Lose
<1>15. CASE ConnectionLost
  <2>1. /\ Lose /\ linked' = FALSE /\ net' = <<>> /\ data' \in {data, NoState}
        /\ UNCHANGED <<now, tables, tasks, retained, state_json>>
    BY <1>15 DEF ConnectionLost
  <2>2. net' \in Seq(State) /\ data' \in State
    BY <1>3, <2>1, NoStateIsState
  <2>3. linked' \in BOOLEAN
    BY <2>1
  <2> QED
    BY <1>1, <1>11, <1>14, <2>1, <2>2, <2>3
<1>16. CASE Restart
  <2>1. /\ Lose /\ pc' = [p \in Publisher |-> "idle"] /\ built' = [p \in Publisher |-> NoState]
        /\ force' = TRUE /\ retained' = NoState /\ net' = <<>> /\ linked' = FALSE
        /\ UNCHANGED <<now, tables, state_json, data>>
    BY <1>16 DEF Restart
  <2>2. /\ pc' \in [Publisher -> Places] /\ built' \in [Publisher -> State]
        /\ net' \in Seq(State) /\ retained' \in State
    BY <2>1, NoStateIsState DEF Places
  <2>3. force' \in BOOLEAN /\ linked' \in BOOLEAN
    BY <2>1
  <2>4. (\A q \in Publisher : pc'[q] = "idle") /\ row <= ups
    BY <1>1, <1>2, <2>1 DEF RowInv
  <2> QED
    BY <1>1, <1>2, <1>3, <1>14, <2>1, <2>2, <2>3, <2>4 DEF StateTypeOK, RowInv, Places
<1>17. CASE Clock
  <2>1. now' \in 0 .. MaxTime /\ UNCHANGED <<tables, tasks, broker, hass>>
    BY <1>1, <1>17 DEF Clock
  <2> QED
    BY <1>1, <1>3, <1>11, <2>1
<1>18. CASE UNCHANGED stateVars
  BY <1>1, <1>3, <1>11, <1>18 DEF stateVars
<1> QED
  BY <1>5, <1>6, <1>7, <1>8, <1>10, <1>12, <1>13, <1>15, <1>16, <1>17, <1>18
     DEF StateNext, Ingest

-----------------------------------------------------------------------------
(***************************************************************************)
(* The order of states                                                     *)
(***************************************************************************)

Ordered == BehindTables /\ OutInv /\ BuiltInv

\* The tables and the clock go on.
LEMMA TablesGoOn ==
  ASSUME StateTypeOK, StateTypeOK', Ordered,
         UNCHANGED <<built, data, retained, net>>,
         now <= now', last_seen <= last_seen', row <= row', last_seen' <= now',
         \A p \in Publisher : (Building(p)' <=> Building(p)) /\ (Whole(p)' <=> Whole(p))
  PROVE  Ordered'
<1>1. Out' = Out
  BY DEF Out
<1>2. {now, now', last_seen, last_seen', row, row'} \subseteq Nat
  BY TimeIsNat DEF StateTypeOK
<1>3. \A s \in Out \cup {built[p] : p \in Publisher} : s.t \in Nat /\ s.ls \in Nat /\ s.row \in Nat /\ s.base \in Nat
  BY OutTyped, StateTyped
<1>4. BehindTables'
  <2>1. SUFFICES ASSUME NEW s \in Out \cup {built[p] : p \in Publisher}
                 PROVE  s.t <= now' /\ s.ls <= last_seen' /\ s.base <= row'
    BY <1>1 DEF BehindTables
  <2>2. s.t <= now /\ s.ls <= last_seen /\ s.base <= row
    BY <2>1 DEF Ordered, BehindTables
  <2> QED
    BY <1>2, <1>3, <2>1, <2>2
<1>5. OutInv'
  BY DEF Ordered, OutInv, Supersedes
<1>6. BuiltInv'
  BY <1>1 DEF Ordered, BuiltInv
<1> QED
  BY <1>4, <1>5, <1>6 DEF Ordered

\* Nothing new leaves the server, and what is being built stays.
LEMMA OutShrinks ==
  ASSUME StateTypeOK, Ordered, UNCHANGED <<now, tables, pc, built>>, Out' \subseteq Out \cup {NoState}
  PROVE  BehindTables' /\ BuiltInv'
<1>1. \A s \in Out \cup {built[p] : p \in Publisher} : s.t \in Nat /\ s.ls \in Nat /\ s.row \in Nat /\ s.base \in Nat
  BY OutTyped, StateTyped
<1>2. {now, last_seen, row} \subseteq Nat
  BY TimeIsNat DEF StateTypeOK
<1>3. NoState.t = 0 /\ NoState.ls = 0 /\ NoState.row = 0 /\ NoState.base = 0
  BY DEF NoState
<1>4. BehindTables'
  <2>1. SUFFICES ASSUME NEW s \in Out \cup {NoState} \cup {built[p] : p \in Publisher}
                 PROVE  s.t <= now /\ s.ls <= last_seen /\ s.base <= row
    BY DEF Ordered, BehindTables
  <2> QED
    BY <1>2, <1>3 DEF Ordered, BehindTables
<1>5. BuiltInv'
  <2>1. \A p \in Publisher : (Building(p)' <=> Building(p)) /\ (Whole(p)' <=> Whole(p))
    BY DEF Building, Whole
  <2>2. ASSUME NEW p \in Publisher, Building(p), NEW s \in Out', s.t < built[p].t
        PROVE  s.ls <= built[p].ls /\ (Whole(p) => s.base <= built[p].row)
    BY <1>1, <1>3, <2>2 DEF Ordered, BuiltInv
  <2> QED
    BY <2>1, <2>2 DEF Ordered, BuiltInv
<1> QED
  BY <1>4, <1>5

\* Nothing leaves the server.
LEMMA OutStays ==
  ASSUME UNCHANGED <<data, retained, net>>
  PROVE  Out' = Out /\ (OutInv => OutInv')
BY DEF Out, OutInv, Supersedes

LEMMA InitOrdered == StateInit => Ordered
<1> SUFFICES ASSUME StateInit
             PROVE  Ordered
  OBVIOUS
<1>1. /\ now = 2 /\ last_seen \in {0, 1} /\ row = 0 /\ net = <<>> /\ data = NoState /\ retained = NoState
      /\ \A p \in Publisher : pc[p] = "idle" /\ built[p] = NoState
  BY DEF StateInit
<1>2. NoState.t = 0 /\ NoState.ls = 0 /\ NoState.row = 0 /\ NoState.base = 0
  BY DEF NoState
<1>3. \A s \in Out \cup {built[p] : p \in Publisher} : s = NoState
  BY <1>1 DEF Out
<1>4. BehindTables
  BY <1>1, <1>2, <1>3 DEF BehindTables
<1>5. OutInv
  BY <1>1, <1>2 DEF OutInv, Supersedes
<1>6. BuiltInv
  BY <1>1 DEF BuiltInv, Building, Whole
<1> QED
  BY <1>4, <1>5, <1>6 DEF Ordered

LEMMA ReadDeviceOrdered ==
  ASSUME StateTypeOK, StateTypeOK', Ordered, NEW p \in Publisher, ReadDevice(p)
  PROVE  Ordered'
<1>1. /\ UNCHANGED <<now, tables, force, broker, hass>>
      /\ built'[p].t = now /\ built'[p].ls = last_seen /\ built'[p].base = row
      /\ \A q \in Publisher : q # p => built'[q] = built[q]
  BY DEF ReadDevice, StateTypeOK
<1>2. pc'[p] = "tables" /\ \A q \in Publisher : q # p => pc'[q] = pc[q]
  BY GotoTyped DEF ReadDevice, Places
<1>3. Out' = Out /\ OutInv'
  BY <1>1, OutStays DEF Ordered
<1>4. \A s \in Out \cup {built[q] : q \in Publisher} : s.t \in Nat /\ s.ls \in Nat /\ s.row \in Nat /\ s.base \in Nat
  BY OutTyped, StateTyped
<1>5. {now, last_seen, row} \subseteq Nat /\ BehindTables
  BY TimeIsNat DEF StateTypeOK, Ordered
<1>6. Building(p)' /\ ~Whole(p)'
      /\ \A q \in Publisher : q # p => (Building(q)' <=> Building(q)) /\ (Whole(q)' <=> Whole(q))
  BY <1>2 DEF Building, Whole
<1>7. BehindTables'
  <2>1. SUFFICES ASSUME NEW s \in Out \cup {built'[q] : q \in Publisher}
                 PROVE  s.t <= now /\ s.ls <= last_seen /\ s.base <= row
    BY <1>1, <1>3, <1>5 DEF BehindTables
  <2>2. CASE s = built'[p]
    BY <1>1, <1>5, <2>2
  <2>3. CASE s \in Out \cup {built[q] : q \in Publisher}
    BY <1>5, <2>3 DEF BehindTables
  <2> QED
    BY <1>1, <2>1, <2>2, <2>3
<1>8. BuiltInv'
  <2>1. SUFFICES ASSUME NEW q \in Publisher, Building(q)'
                 PROVE  /\ \A s \in Out : s.t < built'[q].t =>
                             s.ls <= built'[q].ls /\ (Whole(q)' => s.base <= built'[q].row)
                        /\ \A r \in Publisher : Building(r)' /\ built'[r].t < built'[q].t =>
                             built'[r].ls <= built'[q].ls /\ (Whole(q)' => built'[r].base <= built'[q].row)
    BY <1>3 DEF BuiltInv
  <2>2. CASE q = p
    BY <1>1, <1>4, <1>5, <1>6, <2>2 DEF BehindTables
  <2>3. CASE q # p
    <3>1. ~(built'[p].t < built'[q].t)
      BY <1>1, <1>4, <1>5, <2>3 DEF BehindTables
    <3> QED
      BY <1>1, <1>6, <2>1, <2>3, <3>1 DEF Ordered, BuiltInv
  <2> QED
    BY <2>2, <2>3
<1> QED
  BY <1>3, <1>7, <1>8 DEF Ordered

LEMMA ReadTablesOrdered ==
  ASSUME StateTypeOK, StateTypeOK', Ordered, NEW p \in Publisher, ReadTables(p)
  PROVE  Ordered'
<1>1. /\ UNCHANGED <<now, tables, force, broker, hass>> /\ pc[p] = "tables"
      /\ built'[p].t = built[p].t /\ built'[p].ls = built[p].ls
      /\ built'[p].row = row /\ built'[p].base = built[p].base
      /\ \A q \in Publisher : q # p => built'[q] = built[q]
  <2>1. built' = [built EXCEPT ![p] = [built[p] EXCEPT !.row = row]]
    BY DEF ReadTables
  <2>2. built[p] \in State /\ built \in [Publisher -> State]
    BY DEF StateTypeOK
  <2>3. /\ [built[p] EXCEPT !.row = row].t = built[p].t
        /\ [built[p] EXCEPT !.row = row].ls = built[p].ls
        /\ [built[p] EXCEPT !.row = row].row = row
        /\ [built[p] EXCEPT !.row = row].base = built[p].base
    BY <2>2 DEF State
  <2> QED
    BY <2>1, <2>2, <2>3 DEF ReadTables
<1>2. pc'[p] = "old" /\ \A q \in Publisher : q # p => pc'[q] = pc[q]
  BY GotoTyped DEF ReadTables, Places
<1>3. Out' = Out /\ OutInv'
  BY <1>1, OutStays DEF Ordered
<1>4. \A s \in Out \cup {built[q] : q \in Publisher} : s.t \in Nat /\ s.ls \in Nat /\ s.row \in Nat /\ s.base \in Nat
  BY OutTyped, StateTyped
<1>5. {now, last_seen, row} \subseteq Nat /\ BehindTables /\ BuiltInv
  BY TimeIsNat DEF StateTypeOK, Ordered
<1>6. Building(p) /\ Whole(p)'
      /\ \A q \in Publisher : (Building(q)' <=> Building(q)) /\ (q # p => (Whole(q)' <=> Whole(q)))
  BY <1>1, <1>2 DEF Building, Whole
<1>7. BehindTables'
  <2>1. SUFFICES ASSUME NEW s \in Out \cup {built'[q] : q \in Publisher}
                 PROVE  s.t <= now /\ s.ls <= last_seen /\ s.base <= row
    BY <1>1, <1>3, <1>5 DEF BehindTables
  <2>2. CASE s = built'[p]
    BY <1>1, <1>5, <2>2 DEF BehindTables
  <2>3. CASE s \in Out \cup {built[q] : q \in Publisher}
    BY <1>5, <2>3 DEF BehindTables
  <2> QED
    BY <1>1, <2>1, <2>2, <2>3
<1>8. BuiltInv'
  <2>1. \A q \in Publisher : built'[q].t = built[q].t /\ built'[q].ls = built[q].ls /\ built'[q].base = built[q].base
    BY <1>1
  <2>2. SUFFICES ASSUME NEW q \in Publisher, Building(q)
                 PROVE  /\ \A s \in Out : s.t < built[q].t /\ Whole(q)' => s.base <= built'[q].row
                        /\ \A r \in Publisher :
                             Building(r) /\ built[r].t < built[q].t /\ Whole(q)' =>
                               built[r].base <= built'[q].row
    BY <1>3, <1>5, <1>6, <2>1 DEF BuiltInv
  <2>3. CASE q = p
    BY <1>1, <1>5, <2>3 DEF BehindTables
  <2>4. CASE q # p
    BY <1>1, <1>5, <1>6, <2>2, <2>4 DEF BuiltInv
  <2> QED
    BY <2>3, <2>4
<1> QED
  BY <1>3, <1>7, <1>8 DEF Ordered

LEMMA ReadOldOrdered ==
  ASSUME StateTypeOK, StateTypeOK', Ordered, NEW p \in Publisher, ReadOld(p)
  PROVE  Ordered'
<1>1. UNCHANGED <<now, tables, built, force, broker, hass>> /\ pc[p] = "old"
  BY DEF ReadOld
<1>2. pc'[p] = "publish" /\ \A q \in Publisher : q # p => pc'[q] = pc[q]
  BY GotoTyped DEF ReadOld, Places
<1>3. \A q \in Publisher : (Building(q)' <=> Building(q)) /\ (Whole(q)' <=> Whole(q))
  BY <1>1, <1>2 DEF Building, Whole
<1>4. now <= now /\ last_seen <= last_seen /\ row <= row /\ last_seen <= now
  <2>1. {now, last_seen, row} \subseteq Nat
    BY TimeIsNat DEF StateTypeOK
  <2> QED
    BY <2>1 DEF Ordered, BehindTables
<1> QED
  BY <1>1, <1>3, <1>4, TablesGoOn

\* A publisher that is done, and the state it may have published: it is what
\* it had built, and supersedes what is out.
LEMMA DoneOrdered ==
  ASSUME StateTypeOK, StateTypeOK', Ordered, NEW p \in Publisher, pc[p] \in {"old", "publish"}, Done(p),
         UNCHANGED <<now, tables, data>>,
         \/ UNCHANGED <<net, retained>>
         \/ retained' = built[p] /\ (net' = net \/ net' = Append(net, built[p]))
  PROVE  Ordered'
<1>1. /\ pc'[p] = "idle" /\ built'[p] = NoState
      /\ \A q \in Publisher : q # p => pc'[q] = pc[q] /\ built'[q] = built[q]
  BY DoneTyped
<1>2. \A s \in Out \cup {built[q] : q \in Publisher} : s.t \in Nat /\ s.ls \in Nat /\ s.row \in Nat /\ s.base \in Nat
  BY OutTyped, StateTyped
<1>3. {now, last_seen, row} \subseteq Nat /\ BehindTables /\ BuiltInv /\ OutInv
  BY TimeIsNat DEF StateTypeOK, Ordered
<1>4. NoState.t = 0 /\ NoState.ls = 0 /\ NoState.row = 0 /\ NoState.base = 0
  BY DEF NoState
<1>5. Building(p) /\ Whole(p) /\ ~Building(p)' /\ ~Whole(p)'
      /\ \A q \in Publisher : q # p => (Building(q)' <=> Building(q)) /\ (Whole(q)' <=> Whole(q))
  BY <1>1 DEF Building, Whole
<1>6. net \in Seq(State) /\ built[p] \in State
  BY DEF StateTypeOK
<1>7. \A i \in DOMAIN net' :
        \/ i \in DOMAIN net /\ net'[i] = net[i]
        \/ /\ net'[i] = built[p] /\ retained' = built[p]
           /\ \A j \in DOMAIN net' : ~(i < j)
  <2>1. CASE net' = net
    BY <2>1
  <2>2. CASE retained' = built[p] /\ net' = Append(net, built[p])
    <3>1. \A i \in DOMAIN net' : i \in Int
      BY <1>6, <2>2, PutOne
    <3>2. \A i \in DOMAIN net' :
            \/ i \in DOMAIN net /\ net'[i] = net[i]
            \/ net'[i] = built[p] /\ \A j \in DOMAIN net' : j <= i
      BY <1>6, <2>2, PutOne
    <3> QED
      BY <2>2, <3>1, <3>2
  <2> QED
    BY <2>1, <2>2
<1>8. retained' = retained \/ retained' = built[p]
  OBVIOUS
<1>9. Out' \subseteq Out \cup {built[p]}
  BY <1>7, <1>8 DEF Out
<1>10. \A s \in Out : Supersedes(built[p], s)
  BY <1>3, <1>5 DEF BuiltInv, Supersedes
<1>11. BehindTables'
  <2>1. \A q \in Publisher : built'[q] = NoState \/ built'[q] = built[q]
    BY <1>1
  <2>2. SUFFICES ASSUME NEW s \in Out \cup {NoState} \cup {built[q] : q \in Publisher}
                 PROVE  s.t <= now /\ s.ls <= last_seen /\ s.base <= row
    BY <1>3, <1>9, <2>1 DEF BehindTables
  <2> QED
    BY <1>3, <1>4 DEF BehindTables
<1>12. OutInv'
  <2>1. Supersedes(retained', data)
    BY <1>3, <1>8, <1>10 DEF OutInv, Out
  <2>2. \A i \in DOMAIN net' : Supersedes(net'[i], data)
    BY <1>3, <1>7, <1>10 DEF OutInv, Out
  <2>3. Supersedes(built[p], built[p])
    BY <1>2 DEF Supersedes
  <2>4. \A i \in DOMAIN net' : Supersedes(retained', net'[i])
    BY <1>3, <1>7, <1>8, <1>10, <2>3 DEF OutInv, Out
  <2>5. \A i, j \in DOMAIN net' : i < j => Supersedes(net'[j], net'[i])
    BY <1>3, <1>7, <1>10 DEF OutInv, Out
  <2> QED
    BY <2>1, <2>2, <2>4, <2>5 DEF OutInv, Supersedes
\* What the other publisher is building supersedes what this one had built.
<1>13. ASSUME NEW q \in Publisher, q # p, Building(q), built[p].t < built[q].t
       PROVE  built[p].ls <= built[q].ls /\ (Whole(q) => built[p].base <= built[q].row)
  BY <1>3, <1>5, <1>13 DEF BuiltInv
<1>14. BuiltInv'
  <2>1. SUFFICES ASSUME NEW q \in Publisher, q # p, Building(q)
                 PROVE  /\ \A s \in Out' : s.t < built[q].t =>
                             s.ls <= built[q].ls /\ (Whole(q) => s.base <= built[q].row)
                        /\ \A r \in Publisher : Building(r)' /\ built'[r].t < built[q].t =>
                             built'[r].ls <= built[q].ls /\ (Whole(q) => built'[r].base <= built[q].row)
    BY <1>1, <1>5 DEF BuiltInv
  <2>2. \A s \in Out' : s.t < built[q].t =>
          s.ls <= built[q].ls /\ (Whole(q) => s.base <= built[q].row)
    BY <1>3, <1>9, <1>13, <2>1 DEF BuiltInv
  <2>3. \A r \in Publisher : Building(r)' /\ built'[r].t < built[q].t =>
          built'[r].ls <= built[q].ls /\ (Whole(q) => built'[r].base <= built[q].row)
    BY <1>1, <1>3, <1>5, <2>1 DEF BuiltInv
  <2> QED
    BY <2>2, <2>3
<1> QED
  BY <1>11, <1>12, <1>14 DEF Ordered

LEMMA MessageReceivedOrdered ==
  ASSUME StateTypeOK, Ordered, MessageReceived
  PROVE  Ordered' /\ (data.t < data'.t => data'.row >= data.base /\ data'.ls >= data.ls)
<1>1. /\ net # <<>> /\ net' = Tail(net) /\ (data' = data \/ data' = Head(net))
      /\ UNCHANGED <<now, tables, tasks, retained, state_json, linked, losses>>
  BY DEF MessageReceived
<1>2. net \in Seq(State)
  BY DEF StateTypeOK
<1>3. /\ Head(net) = net[1] /\ 1 \in DOMAIN net
      /\ \A i \in DOMAIN net' : i \in Int /\ 1 < i + 1 /\ i + 1 \in DOMAIN net /\ net'[i] = net[i + 1]
  BY <1>1, <1>2, TakeOne
<1>4. Out' \subseteq Out
  BY <1>1, <1>3 DEF Out
<1>5. BehindTables' /\ BuiltInv'
  BY <1>1, <1>4, OutShrinks
<1>6. OutInv'
  <2>1. \A i, j \in DOMAIN net' : i < j => Supersedes(net'[j], net'[i])
    <3>1. SUFFICES ASSUME NEW i \in DOMAIN net', NEW j \in DOMAIN net', i < j
                   PROVE  Supersedes(net'[j], net'[i])
      OBVIOUS
    <3>2. i + 1 < j + 1
      BY <1>3, <3>1
    <3> QED
      BY <1>3, <3>1, <3>2 DEF Ordered, OutInv
  <2>2. \A i \in DOMAIN net' : Supersedes(net'[i], data') /\ Supersedes(retained, net'[i])
    BY <1>1, <1>3 DEF Ordered, OutInv
  <2>3. Supersedes(retained, data')
    BY <1>1, <1>3 DEF Ordered, OutInv
  <2> QED
    BY <1>1, <2>1, <2>2, <2>3 DEF OutInv, Supersedes
<1>7. data.t < data'.t => data.base <= data'.row /\ data.ls <= data'.ls
  <2>1. Supersedes(net[1], data)
    BY <1>3 DEF Ordered, OutInv
  <2>2. data.t \in Nat
    BY OutTyped, StateTyped
  <2> QED
    BY <1>1, <1>3, <2>1, <2>2 DEF Supersedes
<1>8. {data.row, data'.row, data.ls, data'.ls} \subseteq Nat
  <2>1. data \in State /\ net[1] \in State
    BY <1>3, OutTyped
  <2> QED
    BY <1>1, <1>3, <2>1, StateTyped
<1> QED
  BY <1>5, <1>6, <1>7, <1>8 DEF Ordered

LEMMA ReconnectOrdered ==
  ASSUME StateTypeOK, Ordered, Reconnect
  PROVE  Ordered' /\ data' = data
<1>1. /\ net' = <<>> \/ net' = <<retained>>
      /\ UNCHANGED <<now, tables, tasks, retained, state_json, data, losses>>
  BY DEF Reconnect
<1>2. \A i \in DOMAIN net' : i = 1 /\ net'[i] = retained
  BY <1>1
<1>3. Out' \subseteq Out
  BY <1>1, <1>2 DEF Out
<1>4. BehindTables' /\ BuiltInv'
  BY <1>1, <1>3, OutShrinks
<1>5. retained.t \in Nat /\ Supersedes(retained, data)
  BY OutTyped, StateTyped DEF Ordered, OutInv
<1>6. OutInv'
  BY <1>1, <1>2, <1>5 DEF OutInv, Supersedes
<1> QED
  BY <1>1, <1>4, <1>6 DEF Ordered

LEMMA DisconnectOrdered ==
  ASSUME StateTypeOK, Ordered, ConnectionLost
  PROVE  Ordered' /\ data' \in {data, NoState}
<1>1. /\ net' = <<>> /\ data' \in {data, NoState}
      /\ UNCHANGED <<now, tables, tasks, retained, state_json>>
  BY DEF ConnectionLost
<1>2. Out' \subseteq Out \cup {NoState}
  BY <1>1 DEF Out
<1>3. BehindTables' /\ BuiltInv'
  BY <1>1, <1>2, OutShrinks
<1>4. Supersedes(retained, data) /\ retained.row \in Nat /\ retained.ls \in Nat
  BY OutTyped, StateTyped DEF Ordered, OutInv
<1>5. Supersedes(retained, data')
  BY <1>1, <1>4 DEF Supersedes, NoState
<1>6. OutInv'
  BY <1>1, <1>5 DEF OutInv, Supersedes
<1> QED
  BY <1>1, <1>3, <1>6 DEF Ordered

LEMMA RestartOrdered ==
  ASSUME StateTypeOK, Ordered, Restart
  PROVE  Ordered' /\ data' = data
<1>1. /\ \A p \in Publisher : pc'[p] = "idle" /\ built'[p] = NoState
      /\ retained' = NoState /\ net' = <<>> /\ UNCHANGED <<now, tables, state_json, data>>
  BY DEF Restart
<1>2. NoState.t = 0 /\ NoState.ls = 0 /\ NoState.row = 0 /\ NoState.base = 0
  BY DEF NoState
<1>3. \A s \in Out' \cup {built'[p] : p \in Publisher} : s \in Out \cup {NoState}
  BY <1>1 DEF Out
<1>4. {now, last_seen, row} \subseteq Nat /\ data.t \in Nat
  BY TimeIsNat, OutTyped, StateTyped DEF StateTypeOK
<1>5. BehindTables'
  <2>1. SUFFICES ASSUME NEW s \in Out \cup {NoState}
                 PROVE  s.t <= now /\ s.ls <= last_seen /\ s.base <= row
    BY <1>1, <1>3 DEF Ordered, BehindTables
  <2> QED
    BY <1>2, <1>4 DEF Ordered, BehindTables
<1>6. OutInv'
  BY <1>1, <1>2, <1>4 DEF OutInv, Supersedes
<1>7. BuiltInv'
  BY <1>1 DEF BuiltInv, Building, Whole
<1> QED
  BY <1>1, <1>5, <1>6, <1>7 DEF Ordered

LEMMA StepOrdered ==
  ASSUME StateTypeOK, StateTypeOK', RowInv, Ordered, [StateNext]_stateVars
  PROVE  /\ Ordered'
         /\ data.t < data'.t => data'.row >= data.base /\ data'.ls >= data.ls
<1>1. {now, last_seen, row} \subseteq Nat /\ last_seen <= now /\ data.t \in Nat
  BY TimeIsNat, OutTyped, StateTyped DEF StateTypeOK, Ordered, BehindTables
<1>2. "ingest" \in Publisher /\ pc \in [Publisher -> Places]
  BY DEF Publisher, StateTypeOK, Places
<1>3. data' = data => (data.t < data'.t => data'.row >= data.base /\ data'.ls >= data.ls)
  BY <1>1
\* Steps of ingest before it builds a state.
<1>4. CASE Ingest
  <2>1. /\ UNCHANGED <<now, built, broker, hass>> /\ pc["ingest"] \in {"idle", "add", "clear"}
        /\ last_seen' \in {last_seen, now} /\ row' \in {row, row + 1}
    BY <1>4 DEF Ingest, Touch, AddRow, HelloClearsLwt, OnLwt
  <2>2. pc'["ingest"] \in {"add", "clear", "build"} /\ OthersStay
    <3>1. PICK place \in {"add", "clear", "build"} : Goto("ingest", place)
      BY <1>4 DEF Ingest, Touch, AddRow, HelloClearsLwt, OnLwt
    <3>2. place \in Places
      BY DEF Places
    <3> QED
      BY <1>2, <3>1, <3>2, GotoTyped DEF OthersStay
  <2>3. /\ \A p \in Publisher : (Building(p)' <=> Building(p)) /\ (Whole(p)' <=> Whole(p))
        /\ ~Building("ingest")
    BY <2>1, <2>2 DEF Building, Whole, OthersStay
  <2>4. now <= now' /\ last_seen <= last_seen' /\ row <= row' /\ last_seen' <= now'
    BY <1>1, <2>1
  <2> QED
    BY <1>3, <2>1, <2>3, <2>4, TablesGoOn
<1>5. ASSUME NEW p \in Publisher, PublishState(p)
      PROVE  Ordered' /\ data' = data
  <2>1. CASE ReadDevice(p) \/ ReadTables(p) \/ ReadOld(p)
    BY <2>1, ReadDeviceOrdered, ReadTablesOrdered, ReadOldOrdered DEF ReadDevice, ReadTables, ReadOld
  <2>2. CASE PublishNothing(p)
    <3>1. pc[p] = "old" /\ Done(p) /\ UNCHANGED <<now, tables, broker, hass>>
      BY <2>2 DEF PublishNothing
    <3> QED
      BY <3>1, DoneOrdered
  <2>3. CASE Publish(p)
    <3>1. /\ pc[p] = "publish" /\ Done(p) /\ UNCHANGED <<now, tables, hass>>
          /\ retained' = built[p] /\ (net' = net \/ net' = Append(net, built[p]))
      BY <2>3 DEF Publish
    <3> QED
      BY <3>1, DoneOrdered
  <2> QED
    BY <1>5, <2>1, <2>2, <2>3 DEF PublishState
<1>6. CASE MessageReceived
  BY <1>6, MessageReceivedOrdered
<1>7. CASE Reconnect \/ Restart
  BY <1>3, <1>7, ReconnectOrdered, RestartOrdered
<1>8. CASE ConnectionLost
  BY <1>1, <1>3, <1>8, DisconnectOrdered DEF NoState
<1>9. CASE Clock \/ UNCHANGED stateVars
  <2>1. UNCHANGED <<tables, tasks, broker, hass>> /\ (now' = now \/ now' = now + 1)
    BY <1>9 DEF Clock, stateVars
  <2>2. \A p \in Publisher : (Building(p)' <=> Building(p)) /\ (Whole(p)' <=> Whole(p))
    BY <2>1 DEF Building, Whole
  <2>3. now <= now' /\ last_seen <= last_seen' /\ row <= row' /\ last_seen' <= now'
    BY <1>1, <2>1
  <2> QED
    BY <1>3, <2>1, <2>2, <2>3, TablesGoOn
<1> QED
  BY <1>3, <1>4, <1>5, <1>6, <1>7, <1>8, <1>9 DEF StateNext

\* The invariant holds.
THEOREM StatePubInvariant == StateSpec => []StatePubInv
<1>1. StateInit => StatePubInv
  BY InitTyped, InitOrdered DEF StatePubInv, Ordered
<1>2. StatePubInv /\ [StateNext]_stateVars => StatePubInv'
  <2>1. SUFFICES ASSUME StatePubInv, [StateNext]_stateVars
                 PROVE  StatePubInv'
    OBVIOUS
  <2>2. StateTypeOK /\ RowInv /\ Ordered
    BY <2>1 DEF StatePubInv, Ordered
  <2>3. StateTypeOK' /\ RowInv'
    BY <2>1, <2>2, StepTyped
  <2>4. Ordered'
    BY <2>1, <2>2, <2>3, StepOrdered
  <2> QED
    BY <2>3, <2>4 DEF StatePubInv, Ordered
<1> QED
  BY <1>1, <1>2, PTL DEF StateSpec

\* The tables, what is built, retained, under way and shown stay well typed.
THEOREM StatesTyped == StateSpec => []StateTypeOK
<1>1. StatePubInv => StateTypeOK
  BY DEF StatePubInv
<1> QED
  BY <1>1, StatePubInvariant, PTL

\* A state with a later time never takes HA back to an earlier contact, nor
\* behind a row that was there when the state it replaces was begun, although
\* ingest, the tick and any number of HTTP requests read table by table without
\* a common lock (coordinator.py:102-108).
THEOREM NewerShown == StateSpec => LaterIsNewer
<1>1. StatePubInv /\ StatePubInv' /\ [StateNext]_stateVars =>
        [0 < data.t /\ data.t < data'.t => data'.row >= data.base /\ data'.ls >= data.ls]_stateVars
  <2>1. SUFFICES ASSUME StatePubInv, StatePubInv', [StateNext]_stateVars
                 PROVE  data.t < data'.t => data'.row >= data.base /\ data'.ls >= data.ls
    OBVIOUS
  <2> QED
    BY <2>1, StepOrdered DEF StatePubInv, Ordered
<1> QED
  BY <1>1, StatePubInvariant, PTL DEF StateSpec, LaterIsNewer

-----------------------------------------------------------------------------
(***************************************************************************)
(* Downlink: the server takes for done only what the bike has done, and    *)
(* forgets nothing the bike has not had.                                   *)
(***************************************************************************)

\* Behind FollowsOnlySaved and NotForgotten: an ack on its way tells the truth,
\* and only what the bike has had is acknowledged.
AckInv ==
  /\ created \in Nat
  /\ \A ack \in acks : ack.id \in received /\ (ack.ok => ack.id \in saved)
  /\ acked \subseteq received
  /\ FollowsOnlySaved
  /\ NotForgotten

\* Only downlinks that were created are in the table, about to be sent or on
\* their way.
CreatedInv ==
  /\ rows \subseteq 1 .. created
  /\ \A f \in Flusher : todo[f] \subseteq 1 .. created
  /\ channel \in Seq(1 .. created)

\* Who handles an ack that the server has to follow holds the lock, and so does
\* the flush that is not of an HTTP request.
LockInv ==
  /\ applying # 0 <=> lock = "ack"
  /\ phase[Locked] # "idle" => lock = "flush"

DownlinkInv == TypeOK /\ AckInv /\ CreatedInv /\ LockInv

\* At first there is nothing to acknowledge.
LEMMA InitAckInv == Init => AckInv
  BY DEF Init, AckInv, FollowsOnlySaved, NotForgotten

\* Every step of the server, the broker and the bike keeps the acks true.
LEMMA StepAckInv ==
  ASSUME AckInv, [Next]_vars
  PROVE  AckInv'
<1> USE DEF AckInv, FollowsOnlySaved, NotForgotten
<1>1. CASE Enqueue
  <2>1. created' = created + 1 /\ rows' = rows \cup {created + 1}
    BY <1>1 DEF Enqueue
  <2>2. 1 .. created' \subseteq 1 .. created \cup {created + 1}
    BY <2>1
  <2>3. UNCHANGED <<acked, applying, srv_val, acks, received, saved>>
    BY <1>1 DEF Enqueue, bike
  <2>4. created + 1 \notin acked \/ created + 1 \in received
    BY <2>3
  <2> QED
    BY <2>1, <2>2, <2>3, <2>4
<1>2. ASSUME UNCHANGED <<rows, created, acked, applying, srv_val, acks, received, saved>>
      PROVE  AckInv'
  BY <1>2
<1>3. CASE FlushLocked \/ (\E f \in Flusher : Flush(f))
  BY <1>2, <1>3 DEF FlushLocked, Flush, ReadPending, SendNext, FlushDone, bike
<1>4. ASSUME NEW ack \in acks, MarkAcked(ack)
      PROVE  AckInv'
  <2>1. UNCHANGED <<rows, created, srv_val, received, saved>> /\ acks' = acks \ {ack}
    BY <1>4 DEF MarkAcked, bike
  <2>2. CASE ack.id \in rows \ acked
    BY <1>4, <2>1, <2>2 DEF MarkAcked
  <2>3. CASE ack.id \notin rows \ acked
    BY <1>4, <2>1, <2>3 DEF MarkAcked
  <2> QED
    BY <2>2, <2>3
<1>5. CASE ApplyAcked
  BY <1>5 DEF ApplyAcked, bike
<1>6. ASSUME NEW id \in Id, Prune(id)
      PROVE  AckInv'
  BY <1>6 DEF Prune, bike
<1>7. CASE ServerRestart
  BY <1>7 DEF ServerRestart, bike
<1>8. CASE Connect \/ Subscribe \/ Hello \/ Disconnect
  BY <1>2, <1>8 DEF Connect, Subscribe, Hello, Disconnect, server, bike
<1>9. ASSUME NEW save \in BOOLEAN, NEW sent \in BOOLEAN, Receive(save, sent)
      PROVE  AckInv'
  <2>1. UNCHANGED <<rows, created, acked, applying, srv_val>>
    BY <1>9 DEF Receive, server
  <2>2. /\ received' = received \cup {Head(channel)}
        /\ saved' = IF save THEN saved \cup {Head(channel)} ELSE saved
        /\ acks' \subseteq acks \cup {[id |-> Head(channel), ok |-> save]}
    BY <1>9 DEF Receive
  <2> QED
    BY <2>1, <2>2
<1>10. CASE BikeRestart
  BY <1>2, <1>10 DEF BikeRestart, server
<1>11. CASE UNCHANGED vars
  BY <1>2, <1>11 DEF vars, server, bike
<1> QED
  BY <1>1, <1>3, <1>4, <1>5, <1>6, <1>7, <1>8, <1>9, <1>10, <1>11
     DEF Next, Server, Bike, Acknowledge

LEMMA MinIsIn ==
  ASSUME NEW S, S \subseteq Nat, S # {}
  PROVE  Min(S) \in S
<1> DEFINE R == OpToRel(<, Nat)
<1>1. \A x, y \in Nat : x < y => <<x, y>> \in R
  BY Zenon DEF OpToRel
<1>2. IsWellFoundedOn(R, Nat)
  BY NatLessThanWellFounded, Zenon
<1> HIDE DEF R
<1>3. PICK x \in S : \A y \in S : ~ (<<y, x>> \in R)
  BY <1>2, WFMin
<1>4. \A y \in S : ~ (y < x)
  BY <1>1, <1>3, Zenon
<1>5. \A y \in S : x <= y
  BY <1>4
<1> QED
  BY <1>5, Zenon DEF Min

LEMMA InitDownlink == Init => DownlinkInv
<1> SUFFICES ASSUME Init
             PROVE  DownlinkInv
  OBVIOUS
<1>1. phase \in [Flusher -> {"idle", "read", "send"}] /\ todo \in [Flusher -> SUBSET Id]
  BY DEF Init
<1>2. channel \in Seq(Id) /\ channel \in Seq(1 .. created)
  BY DEF Init
<1>3. TypeOK
  BY <1>1, <1>2, DownlinkAssumption DEF Init, TypeOK
<1>4. CreatedInv
  BY <1>2 DEF Init, CreatedInv
<1>5. LockInv
  BY DEF Init, LockInv, Locked, Flusher
<1> QED
  BY InitAckInv, <1>3, <1>4, <1>5 DEF DownlinkInv

\* What was created is named by a number up to MaxId.
LEMMA CreatedAreIds ==
  ASSUME TypeOK
  PROVE  /\ created \in Nat /\ MaxId \in Nat /\ MaxCrash \in Nat
         /\ 1 .. created \subseteq Id /\ 1 .. created \subseteq Nat
         /\ \A f \in Flusher : f \in Nat
BY DownlinkAssumption DEF TypeOK, Id, Flusher

\* A row is inserted.
LEMMA StepEnqueue ==
  ASSUME TypeOK, CreatedInv, LockInv, Enqueue
  PROVE  TypeOK' /\ CreatedInv' /\ LockInv'
<1>1. /\ created < MaxId /\ created' = created + 1 /\ rows' = rows \cup {created + 1}
      /\ phase' = [phase EXCEPT ![created + 1] = "read"]
      /\ UNCHANGED <<acked, todo, lock, wants, applying, srv_val, session, channel, acks,
                     ram, flash, received, saved, crashes>>
  BY DEF Enqueue, bike
<1>2. /\ created' \in 0 .. MaxId /\ created + 1 \in Id /\ 1 .. created \subseteq 1 .. created'
      /\ created + 1 \in 1 .. created' /\ created + 1 # Locked /\ Locked \in Flusher
  BY <1>1, CreatedAreIds DEF Id, Locked, Flusher
<1>3. channel' \in Seq(1 .. created')
  <2>1. channel \in Seq(1 .. created)
    BY DEF CreatedInv
  <2>2. channel \in Seq(1 .. created')
    BY <1>2, <2>1, SeqMonotonic
  <2> QED
    BY <1>1, <2>2
<1>4. TypeOK'
  <2>1. phase' \in [Flusher -> {"idle", "read", "send"}]
    BY <1>1, <1>2 DEF TypeOK
  <2> QED
    BY <1>1, <1>2, <2>1 DEF TypeOK
<1>5. CreatedInv'
  <2>1. rows' \subseteq 1 .. created'
    BY <1>1, <1>2, CreatedAreIds DEF CreatedInv
  <2>2. \A f \in Flusher : todo'[f] \subseteq 1 .. created'
    BY <1>1, <1>2 DEF CreatedInv
  <2> QED
    BY <1>3, <2>1, <2>2 DEF CreatedInv
<1>6. LockInv'
  BY <1>1, <1>2 DEF LockInv, TypeOK
<1> QED
  BY <1>4, <1>5, <1>6

\* A step of a flush.
LEMMA StepFlush ==
  ASSUME TypeOK, CreatedInv, LockInv, NEW f \in Flusher, Flush(f)
  PROVE  TypeOK' /\ CreatedInv' /\ LockInv'
<1> USE DEF bike
<1>1. /\ UNCHANGED <<rows, created, acked, wants, applying, srv_val, session, acks,
                     ram, flash, received, saved, crashes>>
  BY DEF Flush, ReadPending, SendNext, FlushDone
<1>2. 1 .. created \subseteq Id /\ 1 .. created \subseteq Nat
  BY CreatedAreIds
<1>3. /\ phase' \in [Flusher -> {"idle", "read", "send"}]
      /\ lock' \in {"free", "flush", "ack"}
  BY DEF TypeOK, Flush, ReadPending, SendNext, FlushDone
<1>4. todo' \in [Flusher -> SUBSET Id] /\ \A g \in Flusher : todo'[g] \subseteq 1 .. created
  <2>1. CASE ReadPending(f)
    <3>1. todo' = [todo EXCEPT ![f] = rows \ acked]
      BY <2>1 DEF ReadPending
    <3> QED
      BY <3>1, <1>2 DEF TypeOK, CreatedInv
  <2>2. CASE SendNext(f)
    <3>1. todo' = [todo EXCEPT ![f] = todo[f] \ {Min(todo[f])}]
      BY <2>2 DEF SendNext
    <3> QED
      BY <3>1 DEF TypeOK, CreatedInv
  <2>3. CASE FlushDone(f)
    BY <2>3 DEF FlushDone, TypeOK, CreatedInv
  <2> QED
    BY <2>1, <2>2, <2>3 DEF Flush
<1>5. channel' \in Seq(Id) /\ channel' \in Seq(1 .. created)
  <2>1. channel \in Seq(Id) /\ channel \in Seq(1 .. created)
    BY DEF TypeOK, CreatedInv
  <2>2. CASE SendNext(f)
    <3> DEFINE next == Min(todo[f])
    <3>1. todo[f] # {} /\ (channel' = channel \/ channel' = Append(channel, next))
      BY <2>2 DEF SendNext
    <3>2. todo[f] \subseteq 1 .. created /\ todo[f] \subseteq Nat
      BY <1>2 DEF CreatedInv
    <3>3. next \in todo[f]
      BY <3>1, <3>2, MinIsIn
    <3>4. next \in 1 .. created /\ next \in Id
      BY <1>2, <3>2, <3>3
    <3> HIDE DEF next
    <3> DEFINE upTo == 1 .. created
    <3>5. channel \in Seq(upTo) /\ next \in upTo
      BY <2>1, <3>4
    <3> HIDE DEF upTo
    <3>6. channel' \in Seq(upTo)
      BY <3>1, <3>5, AppendProperties
    <3>7. channel' \in Seq(Id)
      BY <2>1, <3>1, <3>4, AppendProperties
    <3> QED
      BY <3>6, <3>7 DEF upTo
  <2>3. CASE ReadPending(f) \/ FlushDone(f)
    BY <2>1, <2>3 DEF ReadPending, FlushDone
  <2> QED
    BY <2>2, <2>3 DEF Flush
<1>6. LockInv'
  <2>1. Locked \in Flusher
    BY DEF Locked, Flusher
  <2>2. CASE FlushDone(f)
    BY <2>1, <2>2 DEF FlushDone, LockInv, TypeOK
  <2>3. CASE ReadPending(f) \/ SendNext(f)
    BY <2>1, <2>3 DEF ReadPending, SendNext, LockInv, TypeOK
  <2> QED
    BY <2>2, <2>3 DEF Flush
<1> QED
  BY <1>1, <1>3, <1>4, <1>5, <1>6 DEF TypeOK, CreatedInv

\* A step of the server's lock, of an ack, of pruning or a restart.
LEMMA StepServer ==
  ASSUME TypeOK, CreatedInv, LockInv,
         FlushLocked \/ Acknowledge \/ (\E id \in Id : Prune(id)) \/ ServerRestart
  PROVE  TypeOK' /\ CreatedInv' /\ LockInv'
<1> USE DEF bike
<1>1. Locked \in Flusher /\ 0 \in 0 .. MaxId /\ Id \subseteq 0 .. MaxId
  BY DownlinkAssumption DEF Locked, Flusher, Id
<1>2. CASE FlushLocked
  BY <1>1, <1>2 DEF FlushLocked, TypeOK, CreatedInv, LockInv
<1>3. CASE \E ack \in acks : MarkAcked(ack)
  <2>1. PICK ack \in acks : MarkAcked(ack)
    BY <1>3
  <2>2. /\ lock = "free" /\ lock' = IF applying' # 0 THEN "ack" ELSE "free"
        /\ acks' \subseteq acks /\ ack.id \in Id
        /\ UNCHANGED <<rows, created, phase, todo, wants, srv_val, session, channel,
                       ram, flash, received, saved, crashes>>
    BY <2>1 DEF MarkAcked, TypeOK
  <2>3. /\ acked' \subseteq rows /\ applying' \in {0, ack.id, applying}
    BY <2>1 DEF MarkAcked, TypeOK
  <2>4. applying' \in 0 .. MaxId
    BY <1>1, <2>2, <2>3 DEF TypeOK
  <2>5. LockInv'
    BY <1>1, <2>2 DEF LockInv, TypeOK
  <2> QED
    BY <2>2, <2>3, <2>4, <2>5 DEF TypeOK, CreatedInv
<1>4. CASE ApplyAcked
  BY <1>1, <1>4 DEF ApplyAcked, TypeOK, CreatedInv, LockInv
<1>5. CASE \E id \in Id : Prune(id)
  BY <1>5 DEF Prune, TypeOK, CreatedInv, LockInv
<1>6. CASE ServerRestart
  <2>1. /\ crashes' \in 0 .. MaxCrash
    BY <1>6, DownlinkAssumption DEF ServerRestart, TypeOK
  <2>2. phase' \in [Flusher -> {"idle", "read", "send"}] /\ todo' \in [Flusher -> SUBSET Id]
    BY <1>6 DEF ServerRestart
  <2>3. channel' \in Seq(Id) /\ channel' \in Seq(1 .. created')
    BY <1>6 DEF ServerRestart
  <2>4. TypeOK'
    BY <1>1, <1>6, <2>1, <2>2, <2>3 DEF ServerRestart, TypeOK
  <2>5. CreatedInv'
    BY <1>6, <2>3 DEF ServerRestart, CreatedInv
  <2>6. LockInv'
    BY <1>1, <1>6 DEF ServerRestart, LockInv
  <2> QED
    BY <2>4, <2>5, <2>6
<1> QED
  BY <1>2, <1>3, <1>4, <1>5, <1>6 DEF Acknowledge

\* A step of the bike, or of its connection.
LEMMA StepBike ==
  ASSUME TypeOK, CreatedInv, LockInv, Bike
  PROVE  TypeOK' /\ CreatedInv' /\ LockInv'
<1> USE DEF server, bike
<1>1. CASE Connect \/ Subscribe \/ Hello
  BY <1>1 DEF Connect, Subscribe, Hello, TypeOK, CreatedInv, LockInv
<1>2. CASE Disconnect
  <2>1. channel' \in Seq(Id) /\ channel' \in Seq(1 .. created')
    BY <1>2 DEF Disconnect
  <2> QED
    BY <1>2, <2>1 DEF Disconnect, TypeOK, CreatedInv, LockInv
<1>3. ASSUME NEW save \in BOOLEAN, NEW sent \in BOOLEAN, Receive(save, sent)
      PROVE  TypeOK' /\ CreatedInv' /\ LockInv'
  <2>1. /\ channel # <<>> /\ channel' = Tail(channel)
        /\ UNCHANGED <<rows, created, acked, phase, todo, lock, wants, applying, srv_val,
                       session, crashes>>
        /\ ram' = Head(channel) /\ flash' \in {flash, Head(channel)}
        /\ received' = received \cup {Head(channel)}
        /\ saved' \in {saved, saved \cup {Head(channel)}}
        /\ acks' \in {acks, acks \cup {[id |-> Head(channel), ok |-> save]}}
    BY <1>3 DEF Receive
  <2>2. channel \in Seq(Id) /\ channel \in Seq(1 .. created)
    BY DEF TypeOK, CreatedInv
  <2>3. Tail(channel) \in Seq(Id) /\ Head(channel) \in Id
    BY <2>1, <2>2, HeadTailProperties
  <2> DEFINE upTo == 1 .. created
  <2>4. channel \in Seq(upTo)
    BY <2>2
  <2> HIDE DEF upTo
  <2>5. Tail(channel) \in Seq(upTo)
    BY <2>1, <2>4, HeadTailProperties
  <2>6. channel' \in Seq(1 .. created')
    BY <2>1, <2>5 DEF upTo
  <2>7. CreatedInv' /\ LockInv'
    BY <2>1, <2>6 DEF CreatedInv, LockInv
  <2>8. Head(channel) \in 0 .. MaxId
    BY <2>3 DEF Id
  <2>9. TypeOK'
    BY <2>1, <2>3, <2>8 DEF TypeOK
  <2> QED
    BY <2>7, <2>9
<1>4. CASE BikeRestart
  <2>1. crashes' \in 0 .. MaxCrash
    BY <1>4, DownlinkAssumption DEF BikeRestart, TypeOK
  <2>2. channel' \in Seq(Id) /\ channel' \in Seq(1 .. created')
    BY <1>4 DEF BikeRestart
  <2> QED
    BY <1>4, <2>1, <2>2 DEF BikeRestart, TypeOK, CreatedInv, LockInv
<1> QED
  BY <1>1, <1>2, <1>3, <1>4 DEF Bike

\* The invariant holds.
THEOREM DownlinkInvariant == Spec => []DownlinkInv
<1>1. DownlinkInv /\ [Next]_vars => DownlinkInv'
  <2>1. SUFFICES ASSUME DownlinkInv, [Next]_vars
                 PROVE  TypeOK' /\ CreatedInv' /\ LockInv'
    BY StepAckInv DEF DownlinkInv
  <2>2. TypeOK /\ CreatedInv /\ LockInv
    BY <2>1 DEF DownlinkInv
  <2>3. CASE Server
    BY <2>2, <2>3, StepEnqueue, StepFlush, StepServer DEF Server
  <2>4. CASE Bike
    BY <2>2, <2>4, StepBike
  <2>5. CASE UNCHANGED vars
    BY <2>2, <2>5 DEF vars, server, bike, TypeOK, CreatedInv, LockInv
  <2> QED
    BY <2>1, <2>3, <2>4, <2>5 DEF Next
<1> QED
  BY InitDownlink, <1>1, PTL DEF Spec

\* The tables, what is under way and the bike stay well typed.
THEOREM DownlinkTyped == Spec => []TypeOK
<1>1. DownlinkInv => TypeOK
  BY DEF DownlinkInv
<1> QED
  BY <1>1, DownlinkInvariant, PTL

\* The server follows only what the bike has saved, whatever fails, is lost,
\* repeated or restarted.
THEOREM FollowsSaved == Spec => []FollowsOnlySaved
<1>1. DownlinkInv => FollowsOnlySaved
  BY DEF DownlinkInv, AckInv
<1> QED
  BY <1>1, DownlinkInvariant, PTL

\* A downlink the bike has not had is pending, for any number of downlinks.
THEOREM Remembered == Spec => []NotForgotten
<1>1. DownlinkInv => NotForgotten
  BY DEF DownlinkInv, AckInv
<1> QED
  BY <1>1, DownlinkInvariant, PTL

-----------------------------------------------------------------------------
(***************************************************************************)
(* The server and the bike together are Commands.                          *)
(***************************************************************************)

\* What is settled.
Settled == (1 .. created) \ (rows \ acked)

\* A row is inserted: a command is given.
LEMMA EnqueueGives ==
  ASSUME DownlinkInv, Enqueue
  PROVE  C!Next
<1>1. /\ created < MaxId /\ created' = created + 1 /\ rows' = rows \cup {created + 1}
      /\ UNCHANGED <<acked, received, saved, applying, srv_val>>
  BY DEF Enqueue, bike
<1>2. created \in Nat /\ MaxId \in Nat
  BY CreatedAreIds DEF DownlinkInv
<1>3. /\ created + 1 \in Id /\ created + 1 \notin 1 .. created
      /\ 1 .. created' = 1 .. created \cup {created + 1}
  BY <1>1, <1>2 DEF Id
<1>4. created + 1 \notin acked
  BY <1>3 DEF DownlinkInv, TypeOK, CreatedInv
<1>5. Settled' = Settled
  BY <1>1, <1>3, <1>4 DEF Settled
<1>6. C!Give(created + 1)
  BY <1>1, <1>3, <1>5 DEF C!Give, Settled
<1> QED
  BY <1>3, <1>6 DEF C!Next

\* An ack of a row that waits for one settles it, once; any other changes
\* nothing.
LEMMA MarkAckedSettles ==
  ASSUME DownlinkInv, NEW ack \in acks, MarkAcked(ack)
  PROVE  C!Next \/ UNCHANGED C!vars
<1>1. /\ lock = "free" /\ UNCHANGED <<rows, created, srv_val, received, saved>>
  BY DEF MarkAcked, bike
<1>2. CASE ack.id \in rows \ acked
  <2>1. acked' = acked \cup {ack.id} /\ applying' = IF ack.ok THEN ack.id ELSE 0
    BY <1>2 DEF MarkAcked
  <2>2. /\ ack.id \in Id /\ ack.id \in 1 .. created /\ ack.id \in received
        /\ ack.ok => ack.id \in saved
    BY <1>2 DEF DownlinkInv, TypeOK, AckInv, CreatedInv
  <2>3. applying = 0
    BY <1>1 DEF DownlinkInv, LockInv
  <2>4. Settled' = Settled \cup {ack.id} /\ ack.id \notin Settled
    BY <1>1, <1>2, <2>1, <2>2 DEF Settled
  <2>5. applying' \in {0} \cup ({ack.id} \cap saved)
    BY <2>1, <2>2
  <2>6. C!Settle(ack.id)
    BY <1>1, <2>2, <2>3, <2>4, <2>5 DEF C!Settle, Settled
  <2> QED
    BY <2>2, <2>6 DEF C!Next
<1>3. CASE ack.id \notin rows \ acked
  BY <1>1, <1>3 DEF MarkAcked, C!vars
<1> QED
  BY <1>2, <1>3

\* The server follows the command it owes.
LEMMA ApplyAckedFollows ==
  ASSUME DownlinkInv, ApplyAcked
  PROVE  C!Next
<1>1. /\ lock = "ack" /\ srv_val' = applying /\ applying' = 0
      /\ UNCHANGED <<rows, created, acked, received, saved>>
  BY DEF ApplyAcked, bike
<1>2. applying # 0
  BY <1>1 DEF DownlinkInv, LockInv
<1>3. C!Follow
  BY <1>1, <1>2 DEF C!Follow
<1> QED
  BY <1>3 DEF C!Next

\* The bike has a command, for the first time or again.
LEMMA ReceiveHas ==
  ASSUME DownlinkInv, NEW save \in BOOLEAN, NEW sent \in BOOLEAN, Receive(save, sent)
  PROVE  C!Next
<1> DEFINE id == Head(channel)
<1>1. /\ channel # <<>> /\ received' = received \cup {id}
      /\ saved' = IF save THEN saved \cup {id} ELSE saved
      /\ UNCHANGED <<rows, created, acked, applying, srv_val>>
  BY DEF Receive, server
<1> DEFINE upTo == 1 .. created
<1>2. channel \in Seq(upTo)
  BY DEF DownlinkInv, CreatedInv
<1> HIDE DEF upTo
<1>3. id \in upTo
  BY <1>1, <1>2, HeadTailProperties
<1>4. id \in 1 .. created /\ id \in Id
  BY <1>3, CreatedAreIds DEF upTo, DownlinkInv
<1> HIDE DEF id
<1>5. C!Have(id)
  BY <1>1, <1>4 DEF C!Have
<1> QED
  BY <1>4, <1>5 DEF C!Next

\* Every step is one of Commands's, or none.
LEMMA StepCommands ==
  ASSUME DownlinkInv, [Next]_vars
  PROVE  [C!Next]_(C!vars)
<1>1. CASE FlushLocked \/ (\E f \in Flusher : Flush(f))
  BY <1>1 DEF FlushLocked, Flush, ReadPending, SendNext, FlushDone, bike, C!vars
<1>2. ASSUME NEW id \in Id, Prune(id)
      PROVE  UNCHANGED C!vars
  <2>1. /\ id \in acked /\ rows' = rows \ {id} /\ acked' = acked \ {id}
        /\ UNCHANGED <<created, received, saved, applying, srv_val>>
    BY <1>2 DEF Prune, bike
  <2>2. rows' \ acked' = rows \ acked
    BY <2>1
  <2> QED
    BY <2>1, <2>2 DEF C!vars
<1>3. CASE ServerRestart
  <2>1. C!Forget
    BY <1>3 DEF ServerRestart, bike, C!Forget
  <2> QED
    BY <2>1 DEF C!Next
<1>4. CASE Connect \/ Subscribe \/ Hello \/ Disconnect \/ BikeRestart
  BY <1>4 DEF Connect, Subscribe, Hello, Disconnect, BikeRestart, server, bike, C!vars
<1>5. CASE UNCHANGED vars
  BY <1>5 DEF vars, server, bike, C!vars
<1> QED
  BY <1>1, <1>2, <1>3, <1>4, <1>5, EnqueueGives, MarkAckedSettles, ApplyAckedFollows, ReceiveHas
     DEF Next, Server, Bike, Acknowledge

\* The server's table, the broker and the bike implement Commands: for any
\* number of downlinks, messages under way and restarts, with flushes that
\* interleave and acks that repeat, a command is settled once and for good, and
\* the server goes by it once, only if it was saved.
THEOREM DownlinkRefines == Spec => Implements
<1>1. Init => C!Init
  BY DEF Init, C!Init
<1>2. DownlinkInv /\ [Next]_vars => [C!Next]_(C!vars)
  BY StepCommands
<1> QED
  BY DownlinkInvariant, <1>1, <1>2, PTL DEF Spec, Implements, C!Spec
=============================================================================
