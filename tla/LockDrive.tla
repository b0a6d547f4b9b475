----------------------------- MODULE LockDrive -----------------------------
(***************************************************************************)
(* The lock's drive: lock.c, and the threads its pulse depends on.         *)
(*                                                                         *)
(* lock_unlock switches the drive on and schedules release_work, which     *)
(* switches it off PULSE later.  release_work and sense_work are items of  *)
(* the system work queue, and so are motion.c's still_work and nvstore.c's *)
(* counter_work: one thread, first come, first served.  The callbacks of   *)
(* sense_work and still_work queue an event, for which they wait while the *)
(* uplink thread holds ev_lock in flush_events, and which may write flash  *)
(* for its number, as counter_work does; meanwhile nothing behind them in  *)
(* the queue runs.                                                         *)
(*                                                                         *)
(* Time passes in ticks, and only when every thread that can run has run:  *)
(* what takes microseconds is done within a tick, what waits for ev_lock   *)
(* or writes flash may take any number of them.                            *)
(***************************************************************************)
EXTENDS Naturals, Sequences

CONSTANTS
  PULSE,   \* PULSE_MS, in ticks
  MaxOther \* bound on remote commands, timeouts of still_work and counter_work,
           \* and flash writes for the numbers of events

ASSUME DriveBounds == PULSE \in Nat \ {0} /\ MaxOther \in Nat

VARIABLES
  drive,    \* the drive signal
  timer,    \* release_work: ticks until its timeout, 0 when it has none
  sysq,     \* the system work queue
  handler,  \* what the work queue's thread waits for or does: to report the
            \* position sense_work_fn has read, to report stillness, or "save": a
            \* flash write, its own or that of another holder of its lock
  reported, \* the position of the last lock_state event
  open,     \* the lock's position, as the switch shows it
  flushing, \* flush_events holds ev_lock
  call,     \* what each thread has left to do in lock_unlock or lock_lock
  others,   \* how many of these there were so far
  age,      \* ticks the drive has been on since the last lock_unlock
  jammed    \* history: has a gpio_pin_set_dt failed?

queue == <<sysq, handler, reported>>
dvars == <<drive, timer, queue, open, flushing, others, call, age, jammed>>

Thread   == {"unlock", "uplink"}
Position == {"open", "closed"}
Item     == {"release", "sense", "still", "counter"}

DriveTypeOK ==
  /\ drive \in BOOLEAN /\ timer \in 0 .. PULSE
  /\ sysq \in Seq(Item) /\ Len(sysq) <= 4
  /\ open \in Position /\ reported \in Position
  /\ handler \in Position \cup {"none", "still", "save"}
  /\ others \in 0 .. MaxOther
  /\ flushing \in BOOLEAN
  /\ call \in [Thread -> {"none", "drive", "schedule", "cancel", "release"}]
  /\ age \in 0 .. PULSE + 1 /\ jammed \in BOOLEAN

\* lock_init: not driven; the lock is closed and was reported so.
DriveInit ==
  /\ drive = FALSE /\ timer = 0
  /\ sysq = <<>> /\ handler = "none" /\ others = 0
  /\ open = "closed" /\ reported = "closed"
  /\ flushing = FALSE
  /\ call = [t \in Thread |-> "none"]
  /\ age = 0 /\ jammed = FALSE

-----------------------------------------------------------------------------
(***************************************************************************)
(* lock_unlock and lock_lock, on the threads that call them                *)
(***************************************************************************)

Goes(t, left) == call' = [call EXCEPT ![t] = left]

\* gpio_pin_set_dt, when it works and when it returns an error.
Set(on) == drive' = on /\ UNCHANGED jammed
SetFails == UNCHANGED drive /\ jammed' = TRUE

\* Variant: the end of the pulse is scheduled before the pulse begins.
LockUnlockSchedulesFirst(t) ==
  /\ \/ /\ call[t] = "drive" /\ timer' = PULSE
        /\ Goes(t, "schedule")
        /\ UNCHANGED <<drive, age, jammed>>
     \/ /\ call[t] = "schedule" /\ Set(TRUE)
        /\ Goes(t, "none")
        /\ age' = 0 /\ UNCHANGED timer
  /\ UNCHANGED <<queue, open, flushing, others>>

\* lock_unlock: the drive goes on and then its end is scheduled anew, or the
\* call returns the error.
LockUnlock(t) ==
  /\ \/ /\ call[t] = "drive" /\ Set(TRUE)
        /\ Goes(t, "schedule")
        /\ age' = 0 /\ UNCHANGED timer
     \/ /\ call[t] = "drive" /\ SetFails
        /\ Goes(t, "none")
        /\ UNCHANGED <<timer, age>>
     \/ /\ call[t] = "schedule" /\ timer' = PULSE
        /\ Goes(t, "none")
        /\ UNCHANGED <<drive, age, jammed>>
  /\ UNCHANGED <<queue, open, flushing, others>>

\* k_work_cancel_delayable, of what is in the queue: at most one of each item is.
Withdraw(item) ==
  \/ \E i \in DOMAIN sysq :
       /\ sysq[i] = item
       /\ sysq' = SubSeq(sysq, 1, i - 1) \o SubSeq(sysq, i + 1, Len(sysq))
  \/ UNCHANGED sysq /\ \A i \in DOMAIN sysq : sysq[i] # item

\* lock_lock: the end of a pulse is cancelled, queued or not, and the drive
\* goes off.
LockLock(t) ==
  /\ \/ /\ call[t] = "cancel"
        /\ timer' = 0 /\ Withdraw("release")
        /\ Goes(t, "release")
        /\ UNCHANGED <<drive, age, jammed>>
     \/ /\ call[t] = "release" /\ (Set(FALSE) \/ SetFails)
        /\ Goes(t, "none")
        /\ UNCHANGED <<timer, sysq, age>>
  /\ UNCHANGED <<handler, reported, open, flushing, others>>

-----------------------------------------------------------------------------
(***************************************************************************)
(* The uplink thread                                                       *)
(***************************************************************************)

Other == others < MaxOther /\ others' = others + 1

\* handle_cmd, inside a publish of the flush or outside of it: CMD_UNLOCK and
\* CMD_LOCK, in a build that allows remote unlocking.  The event and the ack do
\* not touch the drive.
RemoteCommand ==
  /\ call["uplink"] = "none"
  /\ Other
  /\ \E first \in {"drive", "cancel"} : Goes("uplink", first)
  /\ UNCHANGED <<drive, timer, queue, open, flushing, age, jammed>>

\* flush_events takes ev_lock and gives it back.
FlushBegins ==
  /\ ~flushing /\ call["uplink"] = "none"
  /\ flushing' = TRUE
  /\ UNCHANGED <<drive, timer, queue, open, others, call, age, jammed>>

FlushEnds ==
  /\ flushing /\ call["uplink"] = "none"
  /\ flushing' = FALSE
  /\ UNCHANGED <<drive, timer, queue, open, others, call, age, jammed>>

-----------------------------------------------------------------------------
(***************************************************************************)
(* The lock, its interrupts and the system work queue                      *)
(***************************************************************************)

\* k_work_submit, and k_work_schedule's timeout: an item is not queued twice.
Queued(item) == IF \E i \in DOMAIN sysq : sysq[i] = item THEN sysq ELSE Append(sysq, item)

\* Variant: an edge is ignored while the last one is being reported.
EdgeWhenIdle ==
  /\ open' = IF drive THEN "open" ELSE "closed"
  /\ open' # open
  /\ sysq' = IF handler \in Position THEN sysq ELSE Queued("sense")
  /\ UNCHANGED <<drive, timer, handler, reported, flushing, others, call, age, jammed>>

\* A driven lock opens, one that is not driven falls or is turned shut; the
\* edge's interrupt submits sense_work.
Edge ==
  /\ open' = IF drive THEN "open" ELSE "closed"
  /\ open' # open
  /\ sysq' = Queued("sense")
  /\ UNCHANGED <<drive, timer, handler, reported, flushing, others, call, age, jammed>>

\* still_work (Motion) and counter_work (KeyStore) time out.
OtherTimesOut ==
  /\ Other
  /\ \E item \in {"still", "counter"} : sysq' = Queued(item)
  /\ UNCHANGED <<drive, timer, handler, reported, open, flushing, call, age, jammed>>

TakeItem(item) ==
  /\ handler = "none"
  /\ sysq # <<>> /\ Head(sysq) = item
  /\ sysq' = Tail(sysq)

\* release_work_fn
Release ==
  /\ TakeItem("release")
  /\ Set(FALSE) \/ SetFails
  /\ UNCHANGED <<timer, handler, reported, open, flushing, others, call, age>>

\* The other items: sense_work_fn reads the position; still_work_fn calls
\* on_motion if the bike was not still; counter_work_fn writes if a counter is
\* dirty.
RunOther ==
  /\ \/ TakeItem("sense") /\ handler' = open
     \/ TakeItem("still") /\ handler' \in {"none", "still"}
     \/ TakeItem("counter") /\ handler' \in {"none", "save"}
  /\ UNCHANGED <<drive, timer, reported, open, flushing, others, call, age, jammed>>

\* on_lock_state and on_motion have ev_lock and queue the event.  Its number may
\* take a write to flash with ev_lock held, as that of another thread's event may
\* just before: nobody sees the event until then.
EventQueues ==
  /\ handler \in Position \cup {"still"} /\ ~flushing
  /\ reported' = IF handler \in Position THEN handler ELSE reported
  /\ \/ handler' = "none" /\ UNCHANGED others
     \/ handler' = "save" /\ Other
  /\ UNCHANGED <<drive, timer, sysq, open, flushing, call, age, jammed>>

\* The write to flash returns, with or without an error.
SaveEnds ==
  /\ handler = "save" /\ handler' = "none"
  /\ UNCHANGED <<drive, timer, sysq, reported, open, flushing, others, call, age, jammed>>

SysworkqRuns == Release \/ RunOther \/ EventQueues \/ SaveEnds

Settled ==
  /\ \A t \in Thread : call[t] = "none"
  /\ handler = "none" => sysq = <<>>
  /\ handler \in Position \cup {"still"} => flushing

\* Time passes; the timeout of release_work puts it into the queue.
Tick ==
  /\ Settled
  /\ drive \/ timer > 0
  /\ timer' = IF timer > 0 THEN timer - 1 ELSE 0
  /\ sysq' = IF timer = 1 THEN Queued("release") ELSE sysq
  /\ age' = IF drive /\ age <= PULSE THEN age + 1 ELSE age
  /\ UNCHANGED <<drive, handler, reported, open, flushing, others, call, jammed>>

-----------------------------------------------------------------------------
Calls == \E t \in Thread : LockUnlock(t) \/ LockLock(t)

DriveNext ==
  \/ Calls \/ RemoteCommand \/ FlushBegins \/ FlushEnds
  \/ Edge \/ OtherTimesOut \/ SysworkqRuns \/ Tick

\* Threads run, time passes, a write to flash returns, and a flush ends (Modem):
\* then ev_lock goes to the thread that waits for it, which no later flush can
\* take from it.
DriveFairness ==
  /\ WF_dvars(Calls) /\ WF_dvars(FlushEnds) /\ WF_dvars(Tick)
  /\ WF_dvars(Release \/ RunOther \/ SaveEnds) /\ SF_dvars(EventQueues)

-----------------------------------------------------------------------------
(***************************************************************************)
(* Properties                                                              *)
(***************************************************************************)

\* Whoever switched the drive on, and however calls of two threads cross, it
\* stays on beyond PULSE only while another item of the system work queue waits for
\* the end of a flush or of a write to flash: nothing else delays release_work, and
\* nothing leaves the drive on without it (lock.c:35-44).
OverrunOnlyBehindOthers ==
  [][~jammed /\ age' > age /\ age' > PULSE
       => handler = "save" \/ (handler # "none" /\ flushing)]_dvars

\* A position is read before the wait for ev_lock and reported after it; still
\* the last report is true once the queue has no further sense_work: an edge
\* in the meantime queues it again (lock.c:56-64).
PositionReported ==
  handler \notin Position /\ (\A i \in DOMAIN sysq : sysq[i] # "sense") => reported = open

\* The drive is on for PULSE and no longer (lock.c:13-15).
PulseBounded == drive /\ ~jammed => age <= PULSE
=============================================================================
