------------------------------- MODULE Motion -------------------------------
(***************************************************************************)
(* motion.c with on_motion of main.c: how the bike decides that it moves   *)
(* or stands still, and how the verdicts become events.                    *)
(*                                                                         *)
(* The accelerometer driver's thread says MOVING, the system work queue's  *)
(* timeout says STILL.  A change of state is made under state_lock; the    *)
(* callback runs after it is released and queues the event, waiting for    *)
(* ev_lock while the uplink thread flushes (UplinkLoop), which may take    *)
(* longer than STILL_AFTER.  The system work queue has the higher priority *)
(* (a cooperative thread): the others run when it is idle or waits.  It    *)
(* also runs lock.c's sense_work, which queues an event of its own.        *)
(***************************************************************************)
EXTENDS Naturals

CONSTANTS
  MaxShake,  \* bound on movements of the bike
  MaxFlush   \* bound on flushes of the event queue

ASSUME MotionBounds == MaxShake \in Nat /\ MaxFlush \in Nat

VARIABLES
  fitted,    \* how motion_init ended: "ready"; "deaf", it returned an error before
             \* the interrupt was set up; "absent", the sensor does not answer
  state,     \* motion.c's state
  timer,     \* still_work's timeout is pending
  queued,    \* how often still_work is on the system work queue
  pc,        \* where the two threads are
  flushing,  \* flush_events holds ev_lock
  reported,  \* the event queued last
  shakes, flushes, \* counts for the bounds
  shaken     \* history: the bike moved after the pending or expired timeout
             \* was started

vars == <<fitted, state, timer, queued, pc, flushing, reported, shakes, flushes, shaken>>

Thread == {"sensor", "sysworkq"}
Says   == [sensor |-> "MOVING", sysworkq |-> "STILL"]

TypeOK ==
  /\ fitted \in {"ready", "deaf", "absent"}
  /\ state \in {"UNKNOWN", "MOVING", "STILL"}
  /\ timer \in BOOLEAN /\ queued \in {0, 1}
  /\ pc \in [Thread -> {"idle", "set", "call", "other"}]
  /\ flushing \in BOOLEAN
  /\ reported \in {"none", "MOVING", "STILL"}
  /\ shakes \in 0 .. MaxShake /\ flushes \in 0 .. MaxFlush
  /\ shaken \in BOOLEAN

\* motion_init: the timeout is started at once, or the bike goes on without the
\* trigger and without a timeout.
Init ==
  /\ fitted \in {"ready", "deaf", "absent"}
  /\ state = "UNKNOWN"
  /\ timer = (fitted = "ready") /\ queued = 0
  /\ pc = [t \in Thread |-> "idle"]
  /\ flushing = FALSE
  /\ reported = "none"
  /\ shakes = 0 /\ flushes = 0
  /\ shaken = FALSE

\* k_work_reschedule(&still_work, STILL_AFTER).  A work item that is on the
\* queue already, or running, stays so.
Reschedule ==
  /\ timer' = TRUE
  /\ UNCHANGED queued

\* The verdict of an expired timeout is still under way.
VerdictComing == queued = 1 \/ pc["sysworkq"] = "set"

\* The system work queue is ready to run.
Preempted ==
  \/ queued = 1 /\ pc["sysworkq"] = "idle"
  \/ pc["sysworkq"] = "set"
  \/ pc["sysworkq"] \in {"call", "other"} /\ ~flushing

\* Variant: the timeout is put off by movements of a moving bike only.
TriggerWhenMoving ==
  /\ fitted = "ready"
  /\ pc["sensor"] = "idle" /\ ~Preempted
  /\ shakes < MaxShake /\ shakes' = shakes + 1
  /\ IF state = "MOVING" THEN Reschedule ELSE UNCHANGED <<timer, queued>>
  /\ shaken' = VerdictComing
  /\ pc' = [pc EXCEPT !["sensor"] = "set"]
  /\ UNCHANGED <<fitted, state, flushing, reported, flushes>>

\* trigger_handler up to set_state.
Trigger ==
  /\ fitted = "ready"
  /\ pc["sensor"] = "idle" /\ ~Preempted
  /\ shakes < MaxShake /\ shakes' = shakes + 1
  /\ Reschedule
  /\ shaken' = VerdictComing
  /\ pc' = [pc EXCEPT !["sensor"] = "set"]
  /\ UNCHANGED <<fitted, state, flushing, reported, flushes>>

\* The driver's thread waits for ev_lock with the last movement: the interrupt
\* of this one is lost (motion.c:84).
TriggerLost ==
  /\ pc["sensor"] = "call" /\ flushing
  /\ shakes < MaxShake /\ shakes' = shakes + 1
  /\ shaken' = TRUE
  /\ UNCHANGED <<fitted, state, timer, queued, pc, flushing, reported, flushes>>

\* Variant: the timeout is cancelled and not started again.
NoteActivityCancels ==
  /\ ~Preempted
  /\ shakes < MaxShake /\ shakes' = shakes + 1
  /\ timer' = FALSE
  /\ shaken' = VerdictComing
  /\ UNCHANGED <<fitted, state, queued, pc, flushing, reported, flushes>>

\* motion_note_activity, from the unlock work queue: someone is at the bike.
NoteActivity ==
  /\ ~Preempted
  /\ shakes < MaxShake /\ shakes' = shakes + 1
  /\ Reschedule
  /\ shaken' = VerdictComing
  /\ UNCHANGED <<fitted, state, pc, flushing, reported, flushes>>

\* The timeout expires.  STILL_AFTER is at least five seconds: that cannot pass
\* inside trigger_handler unless it waits for ev_lock.
Expire ==
  /\ timer
  /\ pc["sensor"] = "idle" \/ (pc["sensor"] = "call" /\ flushing)
  /\ timer' = FALSE /\ queued' = 1
  /\ UNCHANGED <<fitted, state, pc, flushing, reported, shakes, flushes, shaken>>

\* still_work_fn.  Without a sensor motion_init returns before it gives
\* still_work its handler: the system work queue gets no further.
StillWork ==
  /\ fitted # "absent"
  /\ queued > 0 /\ pc["sysworkq"] = "idle"
  /\ queued' = queued - 1
  /\ pc' = [pc EXCEPT !["sysworkq"] = "set"]
  /\ UNCHANGED <<fitted, state, timer, flushing, reported, shakes, flushes, shaken>>

\* lock.c's sense_work: its event waits for ev_lock like the others.
SenseWork ==
  /\ pc["sysworkq"] = "idle"
  /\ pc' = [pc EXCEPT !["sysworkq"] = "other"]
  /\ UNCHANGED <<fitted, state, timer, queued, flushing, reported, shakes, flushes, shaken>>

SenseWorkDone ==
  /\ pc["sysworkq"] = "other" /\ ~flushing
  /\ pc' = [pc EXCEPT !["sysworkq"] = "idle"]
  /\ UNCHANGED <<fitted, state, timer, queued, flushing, reported, shakes, flushes, shaken>>

\* set_state up to the release of state_lock.
SetState(t) ==
  /\ pc[t] = "set"
  /\ t = "sensor" => ~Preempted
  /\ state' = Says[t]
  /\ pc' = [pc EXCEPT ![t] = IF state # Says[t] THEN "call" ELSE "idle"]
  /\ UNCHANGED <<fitted, timer, queued, flushing, reported, shakes, flushes, shaken>>

\* The rest of it: on_motion queues the event when ev_lock is free.
Report(t) ==
  /\ pc[t] = "call" /\ ~flushing
  /\ t = "sensor" => ~Preempted
  /\ reported' = Says[t]
  /\ pc' = [pc EXCEPT ![t] = "idle"]
  /\ UNCHANGED <<fitted, state, timer, queued, flushing, shakes, flushes, shaken>>

\* The uplink thread takes ev_lock to flush the events and gives it back.
FlushBegins ==
  /\ ~flushing /\ flushes < MaxFlush
  /\ ~Preempted
  /\ flushing' = TRUE /\ flushes' = flushes + 1
  /\ UNCHANGED <<fitted, state, timer, queued, pc, reported, shakes, shaken>>

FlushEnds ==
  /\ flushing /\ flushing' = FALSE
  /\ UNCHANGED <<fitted, state, timer, queued, pc, reported, shakes, flushes, shaken>>

Next ==
  \/ Trigger \/ TriggerLost \/ NoteActivity
  \/ Expire \/ StillWork \/ SenseWork \/ SenseWorkDone
  \/ \E t \in Thread : SetState(t) \/ Report(t)
  \/ FlushBegins \/ FlushEnds

Spec == Init /\ [][Next]_vars

-----------------------------------------------------------------------------
(***************************************************************************)
(* Properties                                                              *)
(***************************************************************************)

\* A moving bike has a verdict of stillness coming: its timeout is pending, or
\* has expired and is on its way (motion.c:35-37, 123-126).
StillComing == state = "MOVING" => timer \/ VerdictComing

\* A bike that is left alone is found to stand still, and that is the verdict
\* it stays with, so that advertising can end (motion.c:217-219, main.c:49-53).
StandsStillInTheEnd == fitted = "ready" => <>[](state = "STILL")

\* When both threads are through, the event queued last is the state the bike
\* is in: state and callback are "一致的一组" (motion.c:43-45).
ReportsInOrder ==
  (\A t \in Thread : pc[t] = "idle") => reported = state \/ state = "UNKNOWN"

\* "传感器挂了整机还能用" (motion.c:174): the system work queue never has to run an
\* item that was not initialised.
WorksWithoutSensor == ~(fitted = "absent" /\ queued = 1 /\ pc["sysworkq"] = "idle")

\* The bike is not found to stand still while it moves: every movement puts
\* the verdict off, or "第一次超时就会在骑行中途误判静止" (motion.c:35-37).
NoStillWhileMoving ==
  [][state # "STILL" /\ state' = "STILL" => ~shaken]_vars

-----------------------------------------------------------------------------
(***************************************************************************)
(* Inductive invariant                                                     *)
(***************************************************************************)

\* Behind StillComing: the driver's thread has started the timeout before it
\* says MOVING.
ComingInv ==
  /\ StillComing
  /\ pc \in [Thread -> {"idle", "set", "call", "other"}]
  /\ pc["sensor"] = "set" => timer
=============================================================================
