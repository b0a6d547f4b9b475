------------------------------ MODULE StatePub ------------------------------
(***************************************************************************)
(* How a bike's state reaches Home Assistant: service.py's ingest and      *)
(* publish_state, derive.py, the broker's retained message and HA's        *)
(* coordinator.                                                            *)
(*                                                                         *)
(* publish_state builds a state from several reads of the store, compares  *)
(* it with the one published last and publishes it if it differs.  Ingest  *)
(* does so after each uplink, holding the device's lock.  The tick does so *)
(* every 30 seconds, since nothing else notices that a bike fell silent,   *)
(* start once by force, and every HTTP request for a state (/devices,      *)
(* /state, /api/state) once more, any number at a time; these hold no lock.*)
(*                                                                         *)
(* A step ends where the code awaits the store, whose thread serves the    *)
(* requests in order; the broker's calls are taken not to suspend, so a    *)
(* state is saved in the order in which it is published.  Abstracted: an   *)
(* uplink's row is a number, the history tables are one and read at once,  *)
(* hello stands for what it does to lwt, and the server's clock does not   *)
(* run backwards.                                                          *)
(***************************************************************************)
EXTENDS Naturals, Sequences

CONSTANTS
  Requests, \* HTTP requests for a state, as many as run at a time
  OFFLINE,  \* offline_after: silence after which a bike is offline
  MaxTime,  \* bound on the clock
  MaxUp,    \* bound on uplinks and last wills
  MaxNet,   \* bound on states under way to HA
  MaxLoss   \* bound on restarts of HA and the server, lost connections

ASSUME StatePubBounds ==
  /\ {OFFLINE, MaxUp, MaxNet, MaxLoss} \subseteq Nat /\ MaxTime \in Nat /\ MaxTime >= 2
  /\ Requests \cap {"ingest", "tick"} = {}

VARIABLES
  now,       \* the server's clock; 0 stands for never
  last_seen, lwt, \* dev_state
  state_json,     \* dev_state: the state published last
  row,       \* the newest row of the history tables
  ups,       \* uplinks and last wills so far
  pc,        \* where each publisher is
  built,     \* the state each publisher is building
  force,     \* the server is still in start, which publishes by force
  retained,  \* the broker's retained message
  net,       \* states under way to HA
  linked,    \* HA is connected and subscribed
  data,      \* the coordinator's data
  losses

tables == <<last_seen, lwt, row, ups>>
tasks  == <<pc, built, force>>
broker == <<retained, net, state_json>>
hass   == <<linked, data, losses>>
stateVars   == <<now, tables, tasks, broker, hass>>

Publisher == {"ingest", "tick"} \cup Requests
Time      == 0 .. MaxTime

\* A state, and, for the properties only, the newest row there was when its
\* reads began (base).
State   == [t : Time, on : BOOLEAN, ls : Time, lwt : {0, 1}, row : 0 .. MaxUp, base : 0 .. MaxUp]
NoState == [t |-> 0, on |-> FALSE, ls |-> 0, lwt |-> 0, row |-> 0, base |-> 0]

StateTypeOK ==
  /\ {now, last_seen} \subseteq Time /\ lwt \in {0, 1}
  /\ {row, ups} \subseteq 0 .. MaxUp
  /\ pc \in [Publisher -> {"idle", "add", "clear", "build", "tables", "old", "publish"}]
  /\ built \in [Publisher -> State] /\ force \in BOOLEAN
  /\ {retained, data, state_json} \subseteq State /\ net \in Seq(State)
  /\ linked \in BOOLEAN /\ losses \in 0 .. MaxLoss

\* The bike is new, or an earlier process saw it at 1, and then its last will.
StateInit ==
  /\ now = 2
  /\ last_seen \in {0, 1} /\ lwt = last_seen /\ row = 0 /\ ups = 0
  /\ pc = [p \in Publisher |-> "idle"]
  /\ built = [p \in Publisher |-> NoState]
  /\ force = TRUE
  /\ retained = NoState /\ net = <<>> /\ state_json = NoState
  /\ linked = FALSE /\ data = NoState /\ losses = 0

Goto(p, place) == pc' = [pc EXCEPT ![p] = place]

-----------------------------------------------------------------------------
(***************************************************************************)
(* ingest, up to publish_state; it holds the device's lock to its end      *)
(***************************************************************************)

\* touch: last_seen is the time the uplink came in.  A row or, after a hello,
\* the end of a last will follows.
Touch ==
  /\ pc["ingest"] = "idle"
  /\ ups < MaxUp /\ ups' = ups + 1
  /\ last_seen' = now
  /\ \E next \in {"add", "clear"} : Goto("ingest", next)
  /\ UNCHANGED <<now, lwt, row, built, force, broker, hass>>

\* add_loc, add_tele, add_event; one that came before (UNIQUE) adds nothing.
AddRow ==
  /\ pc["ingest"] = "add"
  /\ row' \in {row, row + 1}
  /\ Goto("ingest", "build")
  /\ UNCHANGED <<now, last_seen, lwt, ups, built, force, broker, hass>>

HelloClearsLwt ==
  /\ pc["ingest"] = "clear"
  /\ lwt' = 0
  /\ Goto("ingest", "build")
  /\ UNCHANGED <<now, last_seen, row, ups, built, force, broker, hass>>

\* _on_lwt leaves last_seen alone.
OnLwt ==
  /\ pc["ingest"] = "idle"
  /\ ups < MaxUp /\ ups' = ups + 1
  /\ lwt' = 1
  /\ Goto("ingest", "build")
  /\ UNCHANGED <<now, last_seen, row, built, force, broker, hass>>

-----------------------------------------------------------------------------
(***************************************************************************)
(* publish_state                                                           *)
(***************************************************************************)

Online == last_seen # 0 /\ now <= last_seen + OFFLINE

\* build_state: the time, and then dev_state.  The HTTP server comes up after
\* start (__main__.py).
ReadDevice(p) ==
  /\ p \in Requests => ~force
  /\ pc[p] = IF p = "ingest" THEN "build" ELSE "idle"
  /\ built' = [built EXCEPT ![p] =
       [t |-> now, on |-> Online, ls |-> last_seen, lwt |-> lwt, row |-> 0, base |-> row]]
  /\ Goto(p, "tables")
  /\ UNCHANGED <<now, tables, force, broker, hass>>

\* last_loc, last_tele and the events of derive_mode and derive_locked.
ReadTables(p) ==
  /\ pc[p] = "tables"
  /\ built' = [built EXCEPT ![p].row = row]
  /\ Goto(p, "old")
  /\ UNCHANGED <<now, tables, force, broker, hass>>

\* state_changed: all but the time is compared.
Same(s, u) == [s EXCEPT !.t = 0, !.base = 0] = [u EXCEPT !.t = 0, !.base = 0]

StateChanged(s, u) == s = NoState \/ ~Same(s, u)

Done(p) ==
  /\ Goto(p, "idle")
  /\ built' = [built EXCEPT ![p] = NoState]
  /\ force' = (force /\ p # "tick")

\* dev_state again, for the state published last: publish_state goes on if it is
\* another one ...
ReadOld(p) ==
  /\ pc[p] = "old"
  /\ (force /\ p = "tick") \/ StateChanged(state_json, built[p])
  /\ Goto(p, "publish")
  /\ UNCHANGED <<now, tables, built, force, broker, hass>>

\* ... and returns if it is not.
PublishNothing(p) ==
  /\ pc[p] = "old"
  /\ ~(force /\ p = "tick") /\ ~StateChanged(state_json, built[p])
  /\ Done(p)
  /\ UNCHANGED <<now, tables, broker, hass>>

\* Variant: the state is broadcast and not retained.
PublishUnretained(p) ==
  /\ pc[p] = "publish"
  /\ Len(net) < MaxNet
  /\ net' = IF linked THEN Append(net, built[p]) ELSE net
  /\ state_json' = built[p]
  /\ Done(p)
  /\ UNCHANGED <<now, tables, retained, hass>>

\* Variant: t is the time of the publish.
PublishStampsLate(p) ==
  /\ pc[p] = "publish"
  /\ Len(net) < MaxNet
  /\ net' = IF linked THEN Append(net, [built[p] EXCEPT !.t = now]) ELSE net
  /\ retained' = [built[p] EXCEPT !.t = now] /\ state_json' = retained'
  /\ Done(p)
  /\ UNCHANGED <<now, tables, hass>>

\* The state is broadcast, retained and remembered.
Publish(p) ==
  /\ pc[p] = "publish"
  /\ Len(net) < MaxNet
  /\ net' = IF linked THEN Append(net, built[p]) ELSE net
  /\ retained' = built[p]
  /\ state_json' = built[p]
  /\ Done(p)
  /\ UNCHANGED <<now, tables, hass>>

PublishState(p) ==
  ReadDevice(p) \/ ReadTables(p) \/ ReadOld(p) \/ PublishNothing(p) \/ Publish(p)

Ingest == Touch \/ AddRow \/ HelloClearsLwt \/ OnLwt

-----------------------------------------------------------------------------
(***************************************************************************)
(* Home Assistant                                                          *)
(***************************************************************************)

\* _message_received: a state older than the current one is dropped.
MessageReceived ==
  /\ linked /\ net # <<>> /\ net' = Tail(net)
  /\ data' = IF Head(net).t < data.t THEN data ELSE Head(net)
  /\ UNCHANGED <<now, tables, tasks, retained, state_json, linked, losses>>

\* HA subscribes, for the first time or again: the broker sends what it retains.
Reconnect ==
  /\ ~linked /\ linked' = TRUE
  /\ net' = IF retained = NoState THEN <<>> ELSE <<retained>>
  /\ UNCHANGED <<now, tables, tasks, retained, state_json, data, losses>>

Lose == losses < MaxLoss /\ losses' = losses + 1

\* The connection is lost; HA keeps its data unless it restarts, too.
ConnectionLost ==
  /\ Lose
  /\ linked /\ linked' = FALSE /\ net' = <<>>
  /\ data' \in {data, NoState}
  /\ UNCHANGED <<now, tables, tasks, retained, state_json>>

\* Variant: the state is not published again after a restart.
RestartWithoutForce ==
  /\ Lose
  /\ pc' = [p \in Publisher |-> "idle"]
  /\ built' = [p \in Publisher |-> NoState]
  /\ retained' = NoState
  /\ net' = <<>> /\ linked' = FALSE
  /\ UNCHANGED <<now, tables, force, state_json, data>>

\* The server's process restarts: what is retained is in memory only.
Restart ==
  /\ Lose
  /\ pc' = [p \in Publisher |-> "idle"]
  /\ built' = [p \in Publisher |-> NoState]
  /\ force' = TRUE
  /\ retained' = NoState
  /\ net' = <<>> /\ linked' = FALSE
  /\ UNCHANGED <<now, tables, state_json, data>>

Clock ==
  /\ now < MaxTime /\ now' = now + 1
  /\ UNCHANGED <<tables, tasks, broker, hass>>

-----------------------------------------------------------------------------
StateNext ==
  \/ Ingest \/ (\E p \in Publisher : PublishState(p))
  \/ MessageReceived \/ Reconnect \/ ConnectionLost \/ Restart \/ Clock

StateSpec == StateInit /\ [][StateNext]_stateVars

\* The tick comes again and again, ingest goes on, HA reconnects and takes what
\* it is sent; no request need ever come, or come to its end.
FairStateSpec ==
  /\ StateSpec
  /\ WF_stateVars(PublishState("tick"))
  /\ WF_stateVars(AddRow \/ HelloClearsLwt \/ PublishState("ingest"))
  /\ WF_stateVars(Reconnect) /\ WF_stateVars(MessageReceived)

-----------------------------------------------------------------------------
(***************************************************************************)
(* Properties                                                              *)
(***************************************************************************)

Truth == [t |-> now, on |-> Online, ls |-> last_seen, lwt |-> lwt, row |-> row, base |-> row]

\* No HTTP request is served between the touch and the row of an uplink.
NoneBetween == \A p \in Requests : pc["ingest"] = "add" => pc[p] = "idle"

\* In the end HA shows what the tables say, a bike that fell silent as
\* offline, whatever crossed: reads of the tick that span an ingest, requests,
\* a state dropped as older, restarts of HA and of the server.  It rests on
\* last_seen being part of the state, and on the forced publish of start; and
\* on NoneBetween, see AlwaysShown.
ShownInTheEnd == []NoneBetween => <>[](linked /\ Same(data, Truth))

\* In the end HA shows what the tables say.  Not so: a request that reads the
\* tables before an uplink's row is added may publish a state with a later time
\* than the tick's, which has the row.  HA drops the tick's (coordinator.py:105),
\* the server remembers it as published (service.py:325) and has nothing to
\* publish until something else changes.
AlwaysShown == <>[](linked /\ Same(data, Truth))

\* A state with a later time never takes HA back to an earlier contact, nor
\* behind a row that was there when the state it replaces was begun, whatever
\* publishers run at the same time: what the coordinator's guard is worth
\* (coordinator.py:102-108).
LaterIsNewer ==
  [][0 < data.t /\ data.t < data'.t
       => data'.row >= data.base /\ data'.ls >= data.ls]_stateVars

\* A state with a later time never takes HA back to an earlier row.  With two
\* publishers that hold no lock it may: the one with the later time has read
\* the tables first (api.py:70, api.py:77, web.py:136).
LaterHasMore == [][0 < data.t /\ data.t < data'.t => data'.row >= data.row]_stateVars

\* HA never goes back from a row it has shown: times have a resolution of one
\* second, so within a second this is up to the order in which the tick's and
\* ingest's reads are served (coordinator.py:102-108).
NeverBack == [][data'.t # 0 => data'.row >= data.row]_stateVars

-----------------------------------------------------------------------------
(***************************************************************************)
(* Inductive invariant                                                     *)
(***************************************************************************)

\* A row is added for an uplink that has been counted; only ingest adds rows.
RowInv ==
  /\ row + (IF pc["ingest"] = "add" THEN 1 ELSE 0) <= ups
  /\ \A p \in Publisher \ {"ingest"} : pc[p] \in {"idle", "tables", "old", "publish"}

\* A state with a later time has the rows there were before the other's reads.
Supersedes(u, s) == s.t < u.t => s.base <= u.row /\ s.ls <= u.ls

\* The states that have left the server, and those being built.
Out         == {data, retained} \cup {net[i] : i \in DOMAIN net}
Building(p) == pc[p] \in {"tables", "old", "publish"}
Whole(p)    == pc[p] \in {"old", "publish"}

\* Nothing says more than the tables do.
BehindTables ==
  /\ last_seen <= now
  /\ \A s \in Out \cup {built[p] : p \in Publisher} :
       s.t <= now /\ s.ls <= last_seen /\ s.base <= row

\* Each state out is superseded by those that reach HA after it ...
OutInv ==
  /\ \A i, j \in DOMAIN net : i < j => Supersedes(net[j], net[i])
  /\ \A i \in DOMAIN net : Supersedes(net[i], data) /\ Supersedes(retained, net[i])
  /\ Supersedes(retained, data)

\* ... and by those that are being built, as far as they are, as these are by
\* one another: who reads the tables has all the rows that were there before.
BuiltInv ==
  \A p \in Publisher : Building(p) =>
    /\ \A s \in Out : s.t < built[p].t =>
         s.ls <= built[p].ls /\ (Whole(p) => s.base <= built[p].row)
    /\ \A q \in Publisher : Building(q) /\ built[q].t < built[p].t =>
         built[q].ls <= built[p].ls /\ (Whole(p) => built[q].base <= built[p].row)

StatePubInv == StateTypeOK /\ RowInv /\ BehindTables /\ OutInv /\ BuiltInv
=============================================================================
