------------------------------- MODULE Awake -------------------------------
(***************************************************************************)
(* Motion and Advertising together: how the verdicts about movement lead   *)
(* to a bike that can be found, or cannot.                                 *)
(*                                                                         *)
(* Advertising's moving is Motion's state.  on_motion, the callback of     *)
(* set_state, queues its event (Motion) and then starts the advertising    *)
(* (Advertising) on the accelerometer's thread, which takes no other       *)
(* interrupt meanwhile.  The uplink thread flushes the events (Motion) and *)
(* after the cycle looks at the state and stops the advertising            *)
(* (Advertising).  Both run when the system work queue is idle or waits.   *)
(***************************************************************************)
EXTENDS Motion

CONSTANTS
  AdvFails,  \* the controller may refuse a start or a stop
  MaxLink    \* bound on connections

ASSUME AwakeAssumption == AdvFails \in BOOLEAN /\ MaxLink \in Nat

VARIABLES
  active, adv, link, sensor, uplink, recycler, links, moves, stray,
  low \* uplink_batt_level() is 2 or more

advertising == <<active, adv, link, sensor, uplink, recycler, links, moves, stray>>

A == INSTANCE Advertising WITH moving <- state = "MOVING", MaxMove <- MaxShake

AwakeTypeOK == TypeOK /\ A!TypeOK /\ low \in BOOLEAN

AwakeInit == Init /\ A!Init /\ low = FALSE

\* trigger_handler begins when the last one is through with its callback.
SensorTrigger == Trigger /\ sensor = "idle" /\ UNCHANGED <<advertising, low>>

\* set_state: MOVING from another state goes on to on_motion.
SensorSetState ==
  /\ SetState("sensor") /\ UNCHANGED low
  /\ \/ A!Moves
     \/ state = "MOVING" /\ UNCHANGED advertising

SysworkqSetState ==
  /\ SetState("sysworkq") /\ UNCHANGED low
  /\ \/ A!StandsStill
     \/ state # "MOVING" /\ UNCHANGED advertising

\* on_motion starts the advertising when its event is queued.
SensorStart ==
  /\ pc["sensor"] = "idle" /\ ~Preempted
  /\ UNCHANGED <<vars, low>> /\ A!Sensor

\* The idle check of uplink_thread_fn: MOTION_STILL, not merely not moving.  With
\* the battery low only a cycle that was asked for comes to it (main.c:251-256).
IdleCheck ==
  /\ ~flushing /\ ~Preempted
  /\ uplink = "idle" => state = "STILL"
  /\ UNCHANGED <<vars, low>> /\ A!Uplink

Flushes ==
  /\ uplink = "idle"
  /\ FlushBegins \/ FlushEnds
  /\ UNCHANGED <<advertising, low>>

\* What concerns the movement only, and what concerns the radio only.
Still ==
  /\ TriggerLost \/ NoteActivity \/ Expire \/ StillWork \/ SenseWork \/ SenseWorkDone
     \/ \E t \in Thread : Report(t)
  /\ UNCHANGED <<advertising, low>>

Radio ==
  /\ UNCHANGED <<vars, low>>
  /\ A!Connected \/ A!Disconnected \/ A!Recycled \/ A!Recycler

\* A cycle has measured the battery.
Battery ==
  /\ uplink = "idle" /\ low' = ~low
  /\ UNCHANGED <<vars, advertising>>

AwakeNext ==
  \/ SensorTrigger \/ SensorSetState \/ SysworkqSetState
  \/ SensorStart \/ IdleCheck \/ Flushes \/ Still \/ Radio \/ Battery

AwakeVars == <<vars, advertising, low>>

AwakeSpec == AwakeInit /\ [][AwakeNext]_AwakeVars

\* The threads below the system work queue run in between its work items.
SensorThread == SensorSetState \/ SensorStart \/ (Report("sensor") /\ Still)
WorkItem == SysworkqSetState \/ (Still /\ (Report("sysworkq") \/ SenseWorkDone))

\* Timeouts expire, threads run, flushes end, a bike whose battery is not low
\* comes to the idle check, and a controller that is asked to stop again and again
\* does.
AwakeFairSpec ==
  /\ AwakeSpec
  /\ WF_AwakeVars(Expire /\ Still)
  /\ WF_AwakeVars(WorkItem) /\ SF_AwakeVars(StillWork /\ Still)
  /\ SF_AwakeVars(SensorThread)
  /\ WF_AwakeVars(FlushEnds /\ Flushes)
  /\ SF_AwakeVars((uplink = "idle" => ~low) /\ IdleCheck)
  /\ SF_AwakeVars(uplink = "stop" /\ uplink' = "idle" /\ IdleCheck)
  /\ WF_AwakeVars(Radio /\ A!Recycler)

-----------------------------------------------------------------------------
(***************************************************************************)
(* Properties                                                              *)
(***************************************************************************)

\* Advertising's promise, with movements as Motion finds them: once the threads
\* are through, a bike that thinks it advertises does, or is connected
\* (ble_unlock.c:314-318, 357-366).
ActiveIsTrue == A!ActiveIsTrue

\* A bike that is left alone cannot be found any more, however movements,
\* flushes, connections, starts and stops came before: it "不可被发现"
\* (main.c:42-46).  It takes a sensor, a battery that is not low for good
\* (main.c:251-256), and no restart after a connection that crossed a stop: see
\* ClosedStaysClosed of Advertising.
UnseenInTheEnd == fitted = "ready" /\ <>[]~low => <>[](~adv \/ stray)

\* "BLE 开锁不依赖它" (motion.c:174): a bike without the trigger, which nothing can
\* make advertise again, does not stop.
FoundWithoutTrigger == fitted = "deaf" /\ A!Quiet => adv \/ link # "free"
=============================================================================
