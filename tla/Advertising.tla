---------------------------- MODULE Advertising ----------------------------
(***************************************************************************)
(* Whether the bike advertises: ble_unlock_start, ble_unlock_stop and      *)
(* on_recycled of ble_unlock.c, called by three threads without a lock.    *)
(*                                                                         *)
(* The accelerometer's thread starts advertising when the bike moves, the  *)
(* uplink thread stops it when the bike has stood still for five minutes,  *)
(* and the thread that gives back the last reference to a connection       *)
(* starts it again.  bt_le_adv_start and bt_le_adv_stop are external: a    *)
(* call takes effect at one instant between its start and its return, and  *)
(* the caller's next statement comes after it.                             *)
(***************************************************************************)
EXTENDS Naturals

CONSTANTS
  AdvFails,  \* BOOLEAN: the controller may refuse a start or a stop for its own
             \* reasons
  MaxLink,   \* bound on connections
  MaxMove    \* bound on changes from still to moving

VARIABLES
  moving,   \* motion_current() is MOVING (Motion)
  active,   \* ble_unlock.c's active
  adv,      \* the controller advertises
  link,     \* the one connection object: free, connected, not yet given back
  sensor, uplink, recycler, \* where the three threads are
  links, moves,             \* counts for the bounds
  stray     \* history: on_recycled has left advertising behind that active does
            \* not tell of

vars == <<moving, active, adv, link, sensor, uplink, recycler, links, moves, stray>>

TypeOK ==
  /\ moving \in BOOLEAN /\ active \in BOOLEAN /\ adv \in BOOLEAN
  /\ link \in {"free", "up", "closing"} /\ (adv => link = "free")
  /\ sensor \in {"idle", "called", "start", "started"}
  /\ uplink \in {"idle", "stop", "failed"}
  /\ recycler \in {"idle", "start", "failed"}
  /\ links \in 0 .. MaxLink /\ moves \in 0 .. MaxMove
  /\ stray \in BOOLEAN

\* main has started advertising.
Init ==
  /\ moving = FALSE
  /\ active = TRUE /\ adv = TRUE
  /\ link = "free"
  /\ sensor = "idle" /\ uplink = "idle" /\ recycler = "idle"
  /\ links = 0 /\ moves = 0 /\ stray = FALSE

-----------------------------------------------------------------------------
(***************************************************************************)
(* bt_le_adv_start and bt_le_adv_stop                                      *)
(***************************************************************************)

\* Starting needs a free connection object and no advertising under way.
AdvStartOk == ~adv /\ link = "free" /\ adv' = TRUE
AdvStartFails == (adv \/ link # "free" \/ AdvFails) /\ UNCHANGED adv

AdvStopOk    == adv' = FALSE
AdvStopFails == AdvFails /\ adv /\ UNCHANGED adv

-----------------------------------------------------------------------------
(***************************************************************************)
(* The accelerometer's thread: on_motion                                   *)
(***************************************************************************)

\* set_state; on_motion then queues its event, which may take a while.
Moves ==
  /\ ~moving /\ moves < MaxMove /\ sensor = "idle"
  /\ moving' = TRUE /\ moves' = moves + 1
  /\ sensor' = "called"
  /\ UNCHANGED <<active, adv, link, uplink, recycler, links, stray>>

\* ble_unlock_start: nothing to do when active.
StartCheck ==
  /\ sensor = "called"
  /\ sensor' = IF active THEN "idle" ELSE "start"
  /\ UNCHANGED <<moving, active, adv, link, uplink, recycler, links, moves, stray>>

Start ==
  /\ sensor = "start"
  /\ \/ AdvStartOk /\ sensor' = "started"
     \/ AdvStartFails /\ sensor' = "idle"
  /\ UNCHANGED <<moving, active, link, uplink, recycler, links, moves, stray>>

StartReturns ==
  /\ sensor = "started" /\ sensor' = "idle"
  /\ active' = TRUE /\ stray' = FALSE
  /\ UNCHANGED <<moving, adv, link, uplink, recycler, links, moves>>

\* still_work's verdict, seconds after the movement; on_motion may have waited
\* as long to queue its event.
StandsStill ==
  /\ moving /\ moving' = FALSE
  /\ UNCHANGED <<active, adv, link, sensor, uplink, recycler, links, moves, stray>>

-----------------------------------------------------------------------------
(***************************************************************************)
(* The uplink thread, after a cycle                                        *)
(***************************************************************************)

\* Still for five minutes, in which a start has come back: ble_unlock_stop, up
\* to the point where it waits for the controller.  With no advertising to stop
\* it does not wait: the uplink thread has the higher priority and is through
\* with it at once.
StopBegins ==
  /\ uplink = "idle" /\ sensor \in {"idle", "called"}
  /\ ~moving /\ active
  /\ active' = FALSE
  /\ uplink' = IF adv THEN "stop" ELSE "idle"
  /\ UNCHANGED <<moving, adv, link, sensor, recycler, links, moves, stray>>

Stop ==
  /\ uplink = "stop"
  /\ \/ AdvStopOk /\ uplink' = "idle" /\ stray' = FALSE
     \/ AdvStopFails /\ uplink' = "failed" /\ UNCHANGED stray
  /\ UNCHANGED <<moving, active, link, sensor, recycler, links, moves>>

\* Variant: a failed stop is not taken back.
StopFailedForgotten ==
  /\ uplink = "failed" /\ uplink' = "idle"
  /\ UNCHANGED <<moving, active, adv, link, sensor, recycler, links, moves, stray>>

StopFailed ==
  /\ uplink = "failed" /\ uplink' = "idle"
  /\ active' = TRUE /\ stray' = FALSE
  /\ UNCHANGED <<moving, adv, link, sensor, recycler, links, moves>>

-----------------------------------------------------------------------------
(***************************************************************************)
(* Connections                                                             *)
(***************************************************************************)

\* A phone connects, which ends the advertising.
Connected ==
  /\ adv /\ link = "free" /\ links < MaxLink
  /\ adv' = FALSE /\ stray' = FALSE
  /\ link' = "up" /\ links' = links + 1
  /\ UNCHANGED <<moving, active, sensor, uplink, recycler, moves>>

\* A connection outlasts a start or a stop that is under way.
Disconnected ==
  /\ sensor \in {"idle", "called"} /\ uplink = "idle" /\ recycler = "idle"
  /\ link = "up" /\ link' = "closing"
  /\ UNCHANGED <<moving, active, adv, sensor, uplink, recycler, links, moves, stray>>

\* The last reference is given back; on_recycled looks at active.
Recycled ==
  /\ link = "closing" /\ link' = "free"
  /\ recycler = "idle"
  /\ recycler' = IF active THEN "start" ELSE "idle"
  /\ UNCHANGED <<moving, active, adv, sensor, uplink, links, moves, stray>>

RecycledStart ==
  /\ recycler = "start"
  /\ \/ AdvStartOk /\ recycler' = "idle" /\ stray' = ~active
     \/ AdvStartFails /\ recycler' = "failed" /\ UNCHANGED stray
  /\ UNCHANGED <<moving, active, link, sensor, uplink, links, moves>>

\* Variant: a failed restart leaves active set.
RecycledFailedActive ==
  /\ recycler = "failed" /\ recycler' = "idle"
  /\ UNCHANGED <<moving, active, adv, link, sensor, uplink, links, moves, stray>>

RecycledFailed ==
  /\ recycler = "failed" /\ recycler' = "idle"
  /\ active' = FALSE /\ stray' = adv
  /\ UNCHANGED <<moving, adv, link, sensor, uplink, links, moves>>

-----------------------------------------------------------------------------
Sensor   == StartCheck \/ Start \/ StartReturns
Uplink   == StopBegins \/ Stop \/ StopFailed
Recycler == RecycledStart \/ RecycledFailed

Next ==
  \/ Moves \/ StandsStill \/ Sensor \/ Uplink
  \/ Connected \/ Disconnected \/ Recycled \/ Recycler

Spec == Init /\ [][Next]_vars

-----------------------------------------------------------------------------
(***************************************************************************)
(* Properties                                                              *)
(***************************************************************************)

Quiet == sensor = "idle" /\ uplink = "idle" /\ recycler = "idle"

\* Once the three threads are through, active is never a lie: a bike that
\* thinks it advertises does, or is connected and will again.  A start that
\* failed leaves active off, so that the next movement tries again
\* (ble_unlock.c:314-318, 357-366).
ActiveIsTrue == Quiet /\ active => adv \/ link # "free"

\* A bike that moves can be found by its owner's phone: "动了就把广播打开 ——
\* 用户可能正要开锁" (main.c:91-92).
FoundWhenMoving == Quiet /\ moving => adv \/ link # "free"

\* A connection's end does not start advertising again after it was stopped:
\* "静止后是主动关的，不能被一次断开唤回来" (ble_unlock.c:306).
ClosedStaysClosed ==
  [][recycler = "start" /\ ~adv /\ adv' /\ recycler' = "idle" => active]_vars

-----------------------------------------------------------------------------
(***************************************************************************)
(* Inductive invariant                                                     *)
(***************************************************************************)

\* Behind ActiveIsTrue: an active bike that does not advertise is about to start
\* again after a connection.  Whoever is about to set active (StartReturns,
\* StopFailed) has advertising that only a connection can have ended, and that
\* connection outlasts them.
ActiveInv ==
  /\ adv => link = "free"
  /\ uplink \in {"stop", "failed"} \/ sensor = "started" => adv \/ link = "up"
  /\ uplink = "stop" => ~active /\ sensor # "started"
  /\ active /\ link = "free" /\ ~adv => recycler \in {"start", "failed"}
=============================================================================
