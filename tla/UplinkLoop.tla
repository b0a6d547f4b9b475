----------------------------- MODULE UplinkLoop -----------------------------
(***************************************************************************)
(* The uplink thread of main.c and uplink.c: the reporting loop, the event *)
(* queue the other threads fill, the battery levels and System OFF.        *)
(*                                                                         *)
(* A cycle connects the modem, says hello, reads the battery, publishes    *)
(* the queued events one by one holding ev_lock, polls for downlinks and   *)
(* disconnects.  The loop then looks at the battery level and at how long  *)
(* the bike has stood still, and waits for its period or for now_sem.      *)
(* Downlinks arrive as URCs inside any publish or poll, on this thread.    *)
(*                                                                         *)
(* Abstracted: locations and telemetry as messages of their own, time (the *)
(* period may elapse at any moment, IDLE_AFTER_STILL_MS is the flag idle), *)
(* and the modem, which may fail whenever it is used.  Sequence numbers    *)
(* count the events only (see SeqNo).                                      *)
(***************************************************************************)
EXTENDS Naturals, FiniteSets

CONSTANTS
  EVENT_QUEUE_SIZE,
  Levels,        \* the battery levels the battery may fall to
  RemoteUnlock,  \* CONFIG_EBIKE_ALLOW_REMOTE_UNLOCK
  Callbacks,     \* the events other threads queue, "other" standing for those
                 \* that nobody is told of at once
  MaxEvent,      \* bound on events queued by other threads
  MaxQ,          \* bound on events queued by anyone
  MaxReset       \* bound on reboots and wake-ups

ASSUME LoopAssumption ==
  /\ EVENT_QUEUE_SIZE \in Nat \ {0}
  /\ Levels \subseteq 0 .. 3 /\ 0 \in Levels
  /\ RemoteUnlock \in BOOLEAN
  /\ Callbacks \subseteq {"motion", "unlock_deny", "other"}
  /\ MaxEvent \in Nat /\ MaxQ \in Nat /\ MaxReset \in Nat

VARIABLES
  pc,          \* where the uplink thread is
  booting,     \* the cycle under way is the one before the loop
  volt,        \* the level the battery is at
  batt_level,  \* the level the firmware remembers
  now_sem,     \* the semaphore that ends the wait
  asked,       \* history: who outside the loop gave now_sem since it was last taken
  cause,       \* history: whether an unlock_deny asked for the cycle under way
  ev_queue,    \* the slots
  next_q,      \* the next event's sequence number
  at, sending, \* flush_events: the slot it is at and the event it publishes
  msg_buf,     \* what the buffers msg_buf and hexbuf hold while it does: that
               \* event, or the ack of a downlink that came meanwhile (nobody
               \* reads them otherwise)
  telling,     \* callers of queue_event that have yet to give now_sem
  bt, active,  \* the Bluetooth stack is enabled; the bike advertises
  idle,        \* it has stood still for longer than IDLE_AFTER_STILL_MS
  events,      \* events queued by other threads, for the bound
  resets,      \* reboots and wake-ups, for the bound
  delivered, dropped, lost, \* history: what became of an event
  exposed      \* history: the events queued before uplink_init, put into the
               \* slot whose event is being published, or published while a
               \* downlink was acknowledged

asks     == <<asked, cause>>
queue    == <<ev_queue, next_q, dropped, exposed>>
radio    == <<bt, active>>
bounds   == <<events, resets>>
fate     == <<delivered, lost>>
flushing == <<at, sending, msg_buf>>
vars     == <<pc, booting, volt, batt_level, now_sem, asks, queue, flushing,
              telling, radio, idle, bounds, fate>>

Slot    == 1 .. EVENT_QUEUE_SIZE
Kind    == {"boot", "motion", "unlock_deny", "lowbatt", "other"}
Event   == [q : 1 .. MaxQ, ev : Kind]
NoEvent == [q |-> 0, ev |-> "none"]
Phase   == {"init", "boot", "wait", "connect", "hello", "tele", "flush", "poll",
            "after", "arm", "idle", "off"}
Caller  == {"motion or locate", "unlock_deny"}

LoopTypeOK ==
  /\ pc \in Phase /\ booting \in BOOLEAN
  /\ volt \in Levels /\ batt_level \in 0 .. 3
  /\ now_sem \in {0, 1} /\ asked \subseteq Caller
  /\ cause \subseteq {"unlock_deny"} /\ msg_buf \in {"ours", "ack"}
  /\ telling \subseteq {"motion", "unlock_deny"}
  /\ bt \in BOOLEAN /\ active \in BOOLEAN /\ idle \in BOOLEAN
  /\ events \in 0 .. MaxEvent /\ resets \in 0 .. MaxReset

QueueTypeOK ==
  /\ ev_queue \in [Slot -> Event \cup {NoEvent}]
  /\ next_q \in 1 .. MaxQ + 1
  /\ at \in 1 .. EVENT_QUEUE_SIZE + 1 /\ sending \in Event \cup {NoEvent}
  /\ sending # NoEvent => pc = "flush" /\ at \in Slot
  /\ delivered \subseteq 1 .. MaxQ /\ dropped \subseteq 1 .. MaxQ /\ lost \subseteq 1 .. MaxQ
  /\ exposed \subseteq 1 .. MaxQ

TypeOK == LoopTypeOK /\ QueueTypeOK

Queued == {ev_queue[i].q : i \in Slot} \ {0}

\* Memory as it is before main runs uplink_init, the battery at some level.
\* Bluetooth was enabled and advertising started before it.
Init ==
  /\ pc = "init" /\ booting = TRUE
  /\ volt \in Levels /\ batt_level = 0
  /\ now_sem = 0 /\ asked = {} /\ cause = {}
  /\ ev_queue = [i \in Slot |-> NoEvent] /\ next_q = 1 /\ dropped = {} /\ exposed = {}
  /\ at = 1 /\ sending = NoEvent /\ msg_buf = "ours"
  /\ telling = {}
  /\ bt = TRUE /\ active = TRUE /\ idle = FALSE
  /\ events = 0 /\ resets = 0
  /\ delivered = {} /\ lost = {}

-----------------------------------------------------------------------------
(***************************************************************************)
(* uplink_queue_event and its callers                                      *)
(***************************************************************************)

\* Variant: a full queue overwrites the newest event.
SlotForNewDropsNewest ==
  LET unused == {i \in Slot : ev_queue[i] = NoEvent}
  IN  IF unused # {}
      THEN CHOOSE i \in unused : \A j \in unused : i <= j
      ELSE CHOOSE i \in Slot : \A j \in Slot : ev_queue[i].q >= ev_queue[j].q

\* The slot a new event takes: the first unused one, or when all are used the
\* one with the smallest q.
SlotForNew ==
  LET unused == {i \in Slot : ev_queue[i] = NoEvent}
  IN  IF unused # {}
      THEN CHOOSE i \in unused : \A j \in unused : i <= j
      ELSE CHOOSE i \in Slot : \A j \in Slot : ev_queue[i].q <= ev_queue[j].q

Queue(ev) ==
  /\ next_q <= MaxQ
  /\ ev_queue' = [ev_queue EXCEPT ![SlotForNew] = [q |-> next_q, ev |-> ev]]
  /\ next_q' = next_q + 1
  /\ dropped' = dropped \cup ({ev_queue[SlotForNew].q} \ {0})
  /\ exposed' = exposed \cup ({sending.q} \ {0}) \cup
       IF pc = "init" \/ (sending # NoEvent /\ SlotForNew = at) THEN {next_q} ELSE {}

\* uplink_request_now.  Before uplink_init the semaphore's limit is 0.
Give(by) ==
  /\ now_sem' = IF pc = "init" THEN 0 ELSE 1
  /\ asked' = asked \cup ({by} \cap Caller) /\ UNCHANGED cause

\* on_motion, on_unlock_result and on_lock_state, up to the end of
\* queue_event: they wait while flush_events holds ev_lock.  Unless the event
\* is one of those that are told at once, that is all.  Only motion ends the
\* verdict that the bike stands still: motion_note_activity, for an unlock, puts
\* off the next verdict but not last_still_ms.
QueueEvent(ev) ==
  /\ pc \notin {"flush", "off"}
  /\ events < MaxEvent
  /\ ev \notin telling
  /\ Queue(ev)
  /\ telling' = telling \cup ({ev} \cap {"motion", "unlock_deny"})
  /\ idle' = (idle /\ ev # "motion")
  /\ events' = events + 1
  /\ UNCHANGED <<pc, booting, volt, batt_level, now_sem, asks, flushing,
                 radio, resets, fate>>

\* The rest of it.  on_motion starts advertising, which fails on a stack that
\* has been disabled, and asks; queue_event asks for an unlock_deny.
TellNow(by) ==
  /\ pc # "off"
  /\ by \in telling
  /\ telling' = telling \ {by}
  /\ active' = IF by = "motion" THEN active \/ bt ELSE active
  /\ Give(IF by = "motion" THEN "motion or locate" ELSE by)
  /\ UNCHANGED <<pc, booting, volt, batt_level, queue, flushing, bt, idle,
                 bounds, fate>>

\* The bike has stood still for long enough.
StandsStill ==
  /\ pc # "off"
  /\ idle' = TRUE
  /\ UNCHANGED <<pc, booting, volt, batt_level, now_sem, asks, queue,
                 flushing, telling, radio, bounds, fate>>

BatteryFalls ==
  /\ \E l \in Levels : l > volt /\ volt' = l
  /\ UNCHANGED <<pc, booting, batt_level, now_sem, asks, queue, flushing,
                 telling, radio, idle, bounds, fate>>

-----------------------------------------------------------------------------
(***************************************************************************)
(* Downlinks, inside a publish or a poll                                   *)
(***************************************************************************)

InModem == pc \in {"hello", "poll"} \/ (pc = "flush" /\ sending # NoEvent)

\* ack_downlink encodes into msg_buf, and modem_publish into hexbuf, whatever
\* they held.
AckDownlink == msg_buf' = IF sending # NoEvent THEN "ack" ELSE msg_buf

\* Commands and keys that are acknowledged and have no effect on this loop.
HandleAcked ==
  /\ InModem
  /\ AckDownlink
  /\ exposed' = exposed \cup ({sending.q} \ {0})
  /\ UNCHANGED <<pc, booting, volt, batt_level, now_sem, asks, ev_queue,
                 next_q, dropped, at, sending, telling, radio, idle, bounds,
                 fate>>

HandleLocate ==
  /\ InModem
  /\ AckDownlink
  /\ exposed' = exposed \cup ({sending.q} \ {0})
  /\ Give("motion or locate")
  /\ UNCHANGED <<pc, booting, volt, batt_level, ev_queue, next_q, dropped, at,
                 sending, telling, radio, idle, bounds, fate>>

\* A remote unlock queues its event on this very thread: ev_lock is reentrant.
HandleRemoteUnlock ==
  /\ RemoteUnlock /\ InModem
  /\ AckDownlink
  /\ Queue("other")
  /\ UNCHANGED <<pc, booting, volt, batt_level, now_sem, asks, at, sending,
                 telling, radio, idle, bounds, fate>>

\* What was in memory is gone; the firmware starts again.
Restart ==
  /\ resets < MaxReset /\ resets' = resets + 1
  /\ lost' = lost \cup Queued
  /\ ev_queue' = [i \in Slot |-> NoEvent]
  /\ pc' = "init" /\ booting' = TRUE
  /\ batt_level' = 0 /\ now_sem' = 0 /\ asked' = {} /\ cause' = {}
  /\ at' = 1 /\ sending' = NoEvent /\ msg_buf' = "ours" /\ telling' = {}
  /\ bt' = TRUE /\ active' = TRUE /\ idle' = FALSE
  /\ UNCHANGED <<volt, next_q, dropped, exposed, events, delivered>>

HandleReboot == InModem /\ Restart

\* System OFF ends with a motion interrupt and a full reset.
Wake == pc = "off" /\ Restart

-----------------------------------------------------------------------------
(***************************************************************************)
(* The uplink thread                                                       *)
(***************************************************************************)

\* uplink_init clears the queue and makes the semaphore.
UplinkInit ==
  /\ pc = "init" /\ pc' = "boot"
  /\ ev_queue' = [i \in Slot |-> NoEvent]
  /\ now_sem' = 0 /\ asked' = {} /\ cause' = {}
  /\ UNCHANGED <<booting, volt, batt_level, next_q, dropped, exposed,
                 flushing, telling, radio, idle, bounds, fate>>

\* The thread's first step.
BootEvent ==
  /\ pc = "boot" /\ pc' = "connect"
  /\ Queue("boot")
  /\ UNCHANGED <<booting, volt, batt_level, now_sem, asks, flushing, telling,
                 radio, idle, bounds, fate>>

\* The wait ends: asked for, or the period is over and the battery allows it.
\* At level 2 and above the period's end only starts the next wait.
Begin ==
  /\ pc = "wait"
  /\ \/ now_sem = 1
     \/ now_sem = 0 /\ batt_level < 2
  /\ pc' = "connect" /\ booting' = FALSE
  /\ now_sem' = 0 /\ asked' = {} /\ cause' = asked \cap {"unlock_deny"}
  /\ UNCHANGED <<volt, batt_level, queue, flushing, telling, radio, idle,
                 bounds, fate>>

\* uplink_cycle up to its early return: nothing is read or sent.
Connect(ok) ==
  /\ pc = "connect"
  /\ pc' = IF ok THEN "hello" ELSE "after"
  /\ UNCHANGED <<booting, volt, batt_level, now_sem, asks, queue, flushing,
                 telling, radio, idle, bounds, fate>>

\* Hello and the position: sent or not, the cycle goes on.
Hello ==
  /\ pc = "hello" /\ pc' = "tele"
  /\ UNCHANGED <<booting, volt, batt_level, now_sem, asks, queue, flushing,
                 telling, radio, idle, bounds, fate>>

\* The battery is read, a low level is queued as an event (which asks for
\* another cycle) and remembered.  A failed reading counts as level 0.
Telemetry(lvl) ==
  /\ pc = "tele" /\ pc' = "flush"
  /\ lvl \in {volt, 0}
  /\ IF lvl > 0 THEN Queue("lowbatt") /\ Give("lowbatt")
                ELSE UNCHANGED <<queue, now_sem, asks>>
  /\ batt_level' = lvl
  /\ at' = 1
  /\ UNCHANGED <<booting, volt, sending, msg_buf, telling, radio, idle,
                 bounds, fate>>

\* Variant: the flush ends at the first unused slot.
BeginPublishBreaks ==
  /\ pc = "flush" /\ sending = NoEvent /\ at \in Slot
  /\ IF ev_queue[at] = NoEvent
     THEN at' = EVENT_QUEUE_SIZE + 1 /\ UNCHANGED <<sending, msg_buf>>
     ELSE sending' = ev_queue[at] /\ msg_buf' = "ours" /\ UNCHANGED at
  /\ UNCHANGED <<pc, booting, volt, batt_level, now_sem, asks, queue, telling,
                 radio, idle, bounds, fate>>

\* flush_events: the next used slot is encoded and handed to publish_retry ...
BeginPublish ==
  /\ pc = "flush" /\ sending = NoEvent /\ at \in Slot
  /\ IF ev_queue[at] = NoEvent
     THEN at' = at + 1 /\ UNCHANGED <<sending, msg_buf>>
     ELSE sending' = ev_queue[at] /\ msg_buf' = "ours" /\ UNCHANGED at
  /\ UNCHANGED <<pc, booting, volt, batt_level, now_sem, asks, queue, telling,
                 radio, idle, bounds, fate>>

\* What went out is the event, unless an ack was encoded over it.
Delivers ==
  \/ delivered' = delivered \cup {sending.q}
  \/ msg_buf = "ack" /\ UNCHANGED delivered

\* Variant: the slot is not freed.
PublishOkKeepsSlot ==
  /\ pc = "flush" /\ sending # NoEvent
  /\ Delivers
  /\ sending' = NoEvent /\ msg_buf' = "ours" /\ at' = at + 1
  /\ UNCHANGED <<pc, booting, volt, batt_level, now_sem, asks, queue, telling,
                 radio, idle, bounds, lost>>

\* ... which says it was sent, and the slot is free ...
PublishOk ==
  /\ pc = "flush" /\ sending # NoEvent
  /\ Delivers
  /\ ev_queue' = [ev_queue EXCEPT ![at] = NoEvent]
  /\ sending' = NoEvent /\ msg_buf' = "ours" /\ at' = at + 1
  /\ UNCHANGED <<pc, booting, volt, batt_level, now_sem, asks, next_q,
                 dropped, exposed, telling, radio, idle, bounds, lost>>

\* Variant: the slot is freed whatever came of the publish.
PublishFailsFreesSlot ==
  /\ pc = "flush" /\ sending # NoEvent
  /\ ev_queue' = [ev_queue EXCEPT ![at] = NoEvent]
  /\ sending' = NoEvent /\ msg_buf' = "ours" /\ at' = at + 1
  /\ UNCHANGED <<pc, booting, volt, batt_level, now_sem, asks, next_q,
                 dropped, exposed, telling, radio, idle, bounds, fate>>

\* ... or fails, and it stays for the next cycle.
PublishFails ==
  /\ pc = "flush" /\ sending # NoEvent
  /\ sending' = NoEvent /\ msg_buf' = "ours" /\ at' = at + 1
  /\ UNCHANGED <<pc, booting, volt, batt_level, now_sem, asks, queue, telling,
                 radio, idle, bounds, fate>>

FlushDone ==
  /\ pc = "flush" /\ sending = NoEvent /\ at \notin Slot
  /\ pc' = "poll" /\ at' = 1
  /\ UNCHANGED <<booting, volt, batt_level, now_sem, asks, queue, sending,
                 msg_buf, telling, radio, idle, bounds, fate>>

\* modem_poll, the last will, modem_disconnect.
Poll ==
  /\ pc = "poll" /\ pc' = "after"
  /\ UNCHANGED <<booting, volt, batt_level, now_sem, asks, queue, flushing,
                 telling, radio, idle, bounds, fate>>

\* Back from uplink_cycle.  The one before the loop goes straight to the wait;
\* at level 3 System OFF begins with ble_unlock_shutdown.
AfterCycle ==
  /\ pc = "after"
  /\ pc' = IF booting THEN "wait" ELSE IF batt_level >= 3 THEN "arm" ELSE "idle"
  /\ IF pc' = "arm" THEN bt' = FALSE /\ active' = FALSE ELSE UNCHANGED radio
  /\ UNCHANGED <<booting, volt, batt_level, now_sem, asks, queue, flushing,
                 telling, idle, bounds, fate>>

\* enter_system_off: the wake-up is armed and the power goes off, or arming
\* fails and the loop goes on.
Arm(ok) ==
  /\ pc = "arm"
  /\ pc' = IF ok THEN "off" ELSE "idle"
  /\ UNCHANGED <<booting, volt, batt_level, now_sem, asks, queue, flushing,
                 telling, radio, idle, bounds, fate>>

\* Advertising ends when the bike has stood still for long enough.
IdleCheck ==
  /\ pc = "idle" /\ pc' = "wait"
  /\ cause' = {}
  /\ active' = (active /\ ~idle)
  /\ UNCHANGED <<booting, volt, batt_level, now_sem, asked, queue, flushing,
                 telling, bt, idle, bounds, fate>>

-----------------------------------------------------------------------------
Loop ==
  \/ UplinkInit \/ BootEvent \/ Begin
  \/ (\E ok \in BOOLEAN : Connect(ok)) \/ Hello
  \/ (\E lvl \in 0 .. 3 : Telemetry(lvl))
  \/ BeginPublish \/ PublishOk \/ PublishFails \/ FlushDone
  \/ Poll \/ AfterCycle \/ (\E ok \in BOOLEAN : Arm(ok)) \/ IdleCheck

Others ==
  \/ (\E ev \in Callbacks : QueueEvent(ev))
  \/ (\E by \in {"motion", "unlock_deny"} : TellNow(by))
  \/ StandsStill \/ BatteryFalls

Downlink == HandleAcked \/ HandleLocate \/ HandleRemoteUnlock \/ HandleReboot

Next == Loop \/ Others \/ Downlink \/ Wake

Spec == Init /\ [][Next]_vars

\* Threads run, the wait's timeout elapses, and a modem tried again and again
\* works in the end.
FairSpec ==
  /\ Spec
  /\ WF_vars(Loop)
  /\ \A by \in {"motion", "unlock_deny"} : WF_vars(TellNow(by))
  /\ SF_vars(Connect(TRUE)) /\ SF_vars(PublishOk)

\* The same with a network that never has to come back.
OfflineSpec == Spec /\ WF_vars(Loop)

-----------------------------------------------------------------------------
(***************************************************************************)
(* Properties                                                              *)
(***************************************************************************)

\* An event that was queued is still queued, was delivered, was overwritten by
\* a newer one when the queue was full, or was in memory when the firmware
\* restarted (uplink.c:121-123, 331-332, 386-388).  Only three kinds can
\* disappear otherwise: those queued before uplink_init clears the queue, those
\* a remote unlock puts into the slot whose event is being published, and those
\* during whose publish a downlink is acknowledged.
EventsKept ==
  \A q \in (1 .. next_q - 1) \ exposed :
    q \in Queued \cup delivered \cup dropped \cup lost

\* Nothing else takes an event out of the queue: "发不出去就留着下一轮再试"
\* (uplink.c:386), also when a downlink comes in between: "k_mutex 可重入，所以
\* publish 本身没事" (uplink.c:151-152).
EventsAllKept ==
  \A q \in 1 .. next_q - 1 : q \in Queued \cup delivered \cup dropped \cup lost

\* Overwriting drops the oldest: whatever was overwritten is older than
\* everything still queued (uplink.c:331-332).
DropsOldest == \A d \in dropped, q \in Queued : d < q

\* An event is not delivered again once its slot was freed, and no two slots
\* hold the same one: the server sees a repeated (dev, q) only for a publish
\* that was reported failed (uplink.c:384-388).
DeliveredOnce ==
  /\ delivered \cap Queued = {}
  /\ \A i, j \in Slot : i # j /\ ev_queue[i] # NoEvent => ev_queue[i].q # ev_queue[j].q

AlertWaiting ==
  \E i \in Slot : /\ ev_queue[i].ev \in {"motion", "unlock_deny"}
                  /\ ev_queue[i].q \notin exposed

\* Alerts get out: motion and a refused unlock do not stay queued, unless they
\* are of the three kinds above (main.c:94-95, uplink.c:354-357); by EventsKept
\* they are delivered, overwritten by newer events, or lost in a restart.  But
\* at level 2 and 3 a cycle that failed is not tried again by itself, and the
\* power may go off.  The bound MaxQ may leave no number for a boot event.
AlertsSent ==
  AlertWaiting ~> \/ ~AlertWaiting \/ pc = "off"
                  \/ pc = "wait" /\ now_sem = 0 /\ batt_level >= 2
                  \/ pc = "boot" /\ next_q > MaxQ

\* From level 2 on a cycle begins only because someone outside the loop asked
\* for it: "停周期上报，只保留离线开锁和运动触发" (main.c:252).
PeriodicStops ==
  [][pc = "wait" /\ pc' = "connect" /\ batt_level >= 2
       => asked # {}]_vars

\* Unlocking over BLE is there at every battery level while the firmware runs
\* (uplink.c:114-115, main.c:268-269).
UnlockStaysAvailable == pc = "wait" => bt

\* Someone trying to unlock keeps the bike advertising: a cycle asked for by a
\* refused unlock does not end by switching advertising off, "被拒更可能是有人
\* 在试，广播反而不该关" (main.c:104-106).
ActivityKeepsAdvertising ==
  [][pc = "idle" /\ active /\ ~active' => "unlock_deny" \notin cause]_vars

\* A bike that stands still long enough stops advertising (main.c:42-46).
AdvertisingEnds == idle ~> (~idle \/ ~active \/ pc = "off")
=============================================================================
