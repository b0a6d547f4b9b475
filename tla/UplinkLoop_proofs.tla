------------------------- MODULE UplinkLoop_proofs -------------------------
(***************************************************************************)
(* Proofs about UplinkLoop, for every length of the event queue and every  *)
(* bound: the queue loses nothing but what it says it loses, drops the     *)
(* oldest, and delivers nothing twice.                                     *)
(***************************************************************************)
EXTENDS UplinkLoop, WellFoundedInduction, TLAPS

-----------------------------------------------------------------------------
(***************************************************************************)
(* Inductive invariants                                                    *)
(***************************************************************************)

\* Behind EventsKept: all that uplink_init can clear was queued before it, the
\* slot that will be freed still holds the event that was sent, or one that a
\* remote unlock put there meanwhile, and an event is encoded over only by an
\* ack.
KeptInv ==
  /\ QueueTypeOK
  /\ EventsKept
  /\ pc = "init" => Queued \subseteq exposed
  /\ sending # NoEvent =>
       /\ ev_queue[at] = sending \/ ev_queue[at].q \in exposed
       /\ msg_buf = "ack" => sending.q \in exposed

\* Behind DropsOldest and DeliveredOnce: all numbers in use are below next_q,
\* and no slot but the one that will be freed can hold the event being sent.
OrderInv ==
  /\ QueueTypeOK
  /\ DropsOldest /\ DeliveredOnce
  /\ \A q \in Queued \cup delivered \cup dropped : q < next_q
  /\ sending # NoEvent =>
       /\ \A i \in Slot \ {at} : ev_queue[i].q # sending.q
       /\ sending.q < next_q

-----------------------------------------------------------------------------
(***************************************************************************)
(* The slot for a new event                                                *)
(***************************************************************************)

\* A set of numbers that is not empty has a smallest one.
LEMMA Smallest ==
  ASSUME NEW T, T \subseteq Nat, T # {}
  PROVE  \E x \in T : \A y \in T : x <= y
<1> DEFINE R == OpToRel(<, Nat)
<1>1. \A x, y \in Nat : x < y => <<x, y>> \in R
  BY Zenon DEF OpToRel
<1>2. IsWellFoundedOn(R, Nat)
  BY NatLessThanWellFounded, Zenon
<1> HIDE DEF R
<1>3. PICK x \in T : \A y \in T : ~ (<<y, x>> \in R)
  BY <1>2, WFMin
<1>4. \A y \in T : ~ (y < x)
  BY <1>1, <1>3, Zenon
<1> QED
  BY <1>4

\* What a slot holds, and its number.
LEMMA SlotNumber ==
  ASSUME QueueTypeOK, NEW i \in Slot
  PROVE  /\ ev_queue[i] \in Event \cup {NoEvent}
         /\ ev_queue[i].q \in Nat
         /\ ev_queue[i] # NoEvent <=> ev_queue[i].q # 0
         /\ {ev_queue[i].q} \ {0} \subseteq 1 .. MaxQ
<1>1. ev_queue[i] \in Event \cup {NoEvent}
  BY DEF QueueTypeOK
<1>2. CASE ev_queue[i] = NoEvent
  BY <1>2 DEF NoEvent
<1>3. CASE ev_queue[i] \in Event
  <2>1. ev_queue[i].q \in 1 .. MaxQ
    BY <1>3 DEF Event
  <2>2. NoEvent.q = 0
    BY DEF NoEvent
  <2>3. ev_queue[i].q \in Nat /\ ev_queue[i].q # 0
    BY <2>1, LoopAssumption
  <2> QED
    BY <1>1, <2>1, <2>2, <2>3
<1> QED
  BY <1>1, <1>2, <1>3

\* The event being sent, and its number.
LEMMA SendingNumber ==
  ASSUME QueueTypeOK
  PROVE  /\ {sending.q} \ {0} \subseteq 1 .. MaxQ
         /\ sending # NoEvent => sending.q \in {sending.q} \ {0}
<1>1. CASE sending = NoEvent
  BY <1>1 DEF NoEvent
<1>2. CASE sending \in Event
  <2>1. sending.q \in 1 .. MaxQ
    BY <1>2 DEF Event
  <2>2. sending.q # 0
    BY <2>1, LoopAssumption
  <2> QED
    BY <2>1, <2>2
<1> QED
  BY <1>1, <1>2 DEF QueueTypeOK

\* The slot queue_event takes exists, and when it is in use it holds the oldest
\* event of all.
LEMMA SlotForNewIsOldest ==
  ASSUME QueueTypeOK
  PROVE  /\ SlotForNew \in Slot
         /\ ev_queue[SlotForNew] # NoEvent =>
              \A j \in Slot : ev_queue[SlotForNew].q <= ev_queue[j].q
<1> DEFINE unused == {i \in Slot : ev_queue[i] = NoEvent}
<1>0. Slot \subseteq Nat /\ Slot # {}
  BY LoopAssumption DEF Slot
<1>1. CASE unused # {}
  <2>1. \E i \in unused : \A j \in unused : i <= j
    BY <1>0, <1>1, Smallest
  <2>2. SlotForNew \in unused
    BY <1>1, <2>1, Zenon DEF SlotForNew
  <2> QED
    BY <2>2
<1>2. CASE unused = {}
  <2> DEFINE qs == {ev_queue[i].q : i \in Slot}
  <2>1. qs \subseteq Nat /\ qs # {}
    BY <1>0, SlotNumber
  <2>2. PICK x \in qs : \A y \in qs : x <= y
    BY <2>1, Smallest
  <2>3. \E i \in Slot : \A j \in Slot : ev_queue[i].q <= ev_queue[j].q
    BY <2>2
  <2>4. SlotForNew = CHOOSE i \in Slot : \A j \in Slot : ev_queue[i].q <= ev_queue[j].q
    BY <1>2, Zenon DEF SlotForNew
  <2> HIDE DEF qs
  <2> QED
    BY <2>3, <2>4
<1> QED
  BY <1>1, <1>2

\* What queueing an event does to the slots, in terms of some slot s.
LEMMA QueueEffect ==
  ASSUME QueueTypeOK, NEW ev \in Kind, Queue(ev)
  PROVE  \E s \in Slot :
           /\ ev_queue' = [ev_queue EXCEPT ![s] = [q |-> next_q, ev |-> ev]]
           /\ ev_queue[s] # NoEvent => \A j \in Slot : ev_queue[s].q <= ev_queue[j].q
           /\ dropped' = dropped \cup ({ev_queue[s].q} \ {0})
           /\ next_q \in 1 .. MaxQ /\ next_q' = next_q + 1
           /\ exposed \cup ({sending.q} \ {0}) \subseteq exposed'
           /\ exposed' \subseteq exposed \cup ({sending.q} \ {0}) \cup {next_q}
           /\ pc = "init" \/ (sending # NoEvent /\ s = at) => next_q \in exposed'
<1>1. next_q \in 1 .. MaxQ
  BY LoopAssumption DEF Queue, QueueTypeOK
<1> QED
  BY <1>1, SlotForNewIsOldest DEF Queue

\* Queueing an event keeps the queue well typed.
LEMMA QueueType ==
  ASSUME QueueTypeOK, NEW ev \in Kind, Queue(ev)
  PROVE  /\ ev_queue' \in [Slot -> Event \cup {NoEvent}]
         /\ next_q' \in 1 .. MaxQ + 1
         /\ dropped' \subseteq 1 .. MaxQ /\ exposed' \subseteq 1 .. MaxQ
<1> PICK s \in Slot :
       /\ ev_queue' = [ev_queue EXCEPT ![s] = [q |-> next_q, ev |-> ev]]
       /\ dropped' = dropped \cup ({ev_queue[s].q} \ {0})
       /\ next_q \in 1 .. MaxQ /\ next_q' = next_q + 1
       /\ exposed' \subseteq exposed \cup ({sending.q} \ {0}) \cup {next_q}
  BY QueueEffect
<1>1. [q |-> next_q, ev |-> ev] \in Event
  BY DEF Event
<1>2. ev_queue' \in [Slot -> Event \cup {NoEvent}]
  BY <1>1 DEF QueueTypeOK
<1>3. next_q' \in 1 .. MaxQ + 1
  BY LoopAssumption
<1>4. dropped' \subseteq 1 .. MaxQ /\ exposed' \subseteq 1 .. MaxQ
  BY SlotNumber, SendingNumber DEF QueueTypeOK
<1> QED
  BY <1>2, <1>3, <1>4

-----------------------------------------------------------------------------
(***************************************************************************)
(* Type correctness                                                        *)
(***************************************************************************)

\* Before uplink_init every slot is empty.
LEMMA InitQueueTypeOK == Init => QueueTypeOK
<1> SUFFICES ASSUME Init PROVE QueueTypeOK
  OBVIOUS
<1>1. ev_queue \in [Slot -> Event \cup {NoEvent}]
  BY DEF Init
<1>2. sending = NoEvent /\ delivered = {} /\ dropped = {} /\ lost = {} /\ exposed = {}
  BY DEF Init
<1>3. next_q \in 1 .. MaxQ + 1 /\ at \in 1 .. EVENT_QUEUE_SIZE + 1
  BY LoopAssumption DEF Init
<1> QED
  BY <1>1, <1>2, <1>3 DEF QueueTypeOK

\* The actions that do nothing to the queue, but for flush_events' position.
LEMMA StepsBesidesTheQueue ==
  ASSUME QueueTypeOK,
         \/ \E by \in {"motion", "unlock_deny"} : TellNow(by)
         \/ StandsStill \/ BatteryFalls
         \/ Begin \/ (\E ok \in BOOLEAN : Connect(ok) \/ Arm(ok))
         \/ Hello \/ Poll \/ AfterCycle \/ IdleCheck
         \/ UNCHANGED vars
  PROVE  /\ UNCHANGED <<queue, flushing, fate>>
         /\ pc' = "init" => pc = "init"
         /\ pc = "flush" => pc' = "flush"
<1> USE DEF vars, asks, queue, flushing, radio, bounds, fate
<1>1. CASE \E by \in {"motion", "unlock_deny"} : TellNow(by)
  BY <1>1 DEF TellNow
<1>2. CASE StandsStill \/ BatteryFalls
  BY <1>2 DEF StandsStill, BatteryFalls
<1>3. CASE Begin \/ (\E ok \in BOOLEAN : Connect(ok) \/ Arm(ok))
  BY <1>3 DEF Begin, Connect, Arm
<1>4. CASE Hello \/ Poll \/ AfterCycle \/ IdleCheck
  BY <1>4 DEF Hello, Poll, AfterCycle, IdleCheck
<1>5. CASE UNCHANGED vars
  BY <1>5
<1> QED
  BY <1>1, <1>2, <1>3, <1>4, <1>5

\* The downlinks that only are acknowledged, or ask for another cycle.
LEMMA StepsThatAcknowledge ==
  ASSUME HandleAcked \/ HandleLocate
  PROVE  /\ UNCHANGED <<ev_queue, next_q, dropped, at, sending, fate, pc>>
         /\ exposed' = exposed \cup ({sending.q} \ {0})
BY DEF HandleAcked, HandleLocate

\* The actions that put an event in the queue.
LEMMA StepsThatQueue ==
  ASSUME \/ \E ev \in Callbacks : QueueEvent(ev)
         \/ HandleRemoteUnlock \/ BootEvent
         \/ \E lvl \in 0 .. 3 : lvl > 0 /\ Telemetry(lvl)
  PROVE  /\ \E ev \in Kind : Queue(ev)
         /\ UNCHANGED <<sending, fate>>
         /\ UNCHANGED at \/ (pc = "tele" /\ at' = 1)
         /\ pc' = "init" => pc = "init"
         /\ pc = "flush" => pc' = "flush"
<1> USE DEF Kind, asks, queue, flushing, radio, bounds, fate
<1>1. CASE \E ev \in Callbacks : QueueEvent(ev)
  BY <1>1, LoopAssumption DEF QueueEvent
<1>2. CASE HandleRemoteUnlock
  BY <1>2 DEF HandleRemoteUnlock, InModem
<1>3. CASE BootEvent
  BY <1>3 DEF BootEvent
<1>4. CASE \E lvl \in 0 .. 3 : lvl > 0 /\ Telemetry(lvl)
  BY <1>4 DEF Telemetry
<1> QED
  BY <1>1, <1>2, <1>3, <1>4

\* Every step is one of these.
LEMMA StepCases ==
  ASSUME [Next]_vars
  PROVE  \/ \/ \E by \in {"motion", "unlock_deny"} : TellNow(by)
            \/ StandsStill \/ BatteryFalls
            \/ Begin \/ (\E ok \in BOOLEAN : Connect(ok) \/ Arm(ok))
            \/ Hello \/ Poll \/ AfterCycle \/ IdleCheck
            \/ UNCHANGED vars
         \/ \/ \E ev \in Callbacks : QueueEvent(ev)
            \/ HandleRemoteUnlock \/ BootEvent
            \/ \E lvl \in 0 .. 3 : lvl > 0 /\ Telemetry(lvl)
         \/ HandleAcked \/ HandleLocate
         \/ Telemetry(0)
         \/ Restart \/ UplinkInit
         \/ BeginPublish \/ PublishOk \/ PublishFails \/ FlushDone
<1>1. \A lvl \in 0 .. 3 : lvl > 0 \/ lvl = 0
  OBVIOUS
<1> QED
  BY <1>1 DEF Next, Loop, Others, Downlink, HandleReboot, Wake

\* Every step of every thread keeps the queue well typed.
LEMMA StepQueueTypeOK ==
  ASSUME QueueTypeOK, [Next]_vars
  PROVE  QueueTypeOK'
<1> USE LoopAssumption DEF queue, flushing, fate, Slot
<1>1. CASE /\ UNCHANGED <<queue, flushing, fate>>
           /\ pc = "flush" => pc' = "flush"
  BY <1>1 DEF QueueTypeOK
<1>2. CASE /\ \E ev \in Kind : Queue(ev)
           /\ UNCHANGED <<sending, fate>>
           /\ UNCHANGED at \/ (pc = "tele" /\ at' = 1)
           /\ pc = "flush" => pc' = "flush"
  <2>1. ev_queue' \in [Slot -> Event \cup {NoEvent}]
    BY <1>2, QueueType
  <2>2. /\ next_q' \in 1 .. MaxQ + 1
        /\ dropped' \subseteq 1 .. MaxQ /\ exposed' \subseteq 1 .. MaxQ
    BY <1>2, QueueType
  <2>3. at' \in 1 .. EVENT_QUEUE_SIZE + 1
    BY <1>2 DEF QueueTypeOK
  <2>4. sending' # NoEvent => pc' = "flush" /\ at' \in Slot
    BY <1>2 DEF QueueTypeOK
  <2> QED
    BY <1>2, <2>1, <2>2, <2>3, <2>4 DEF QueueTypeOK
<1>3. CASE Telemetry(0)
  <2>1. UNCHANGED <<queue, sending, fate>> /\ at' = 1 /\ pc = "tele"
    BY <1>3 DEF Telemetry
  <2>2. sending = NoEvent
    BY <2>1 DEF QueueTypeOK
  <2>3. at' \in 1 .. EVENT_QUEUE_SIZE + 1
    BY <2>1
  <2> QED
    BY <2>1, <2>2, <2>3 DEF QueueTypeOK
<1>4. CASE Restart
  <2>1. Queued \subseteq 1 .. MaxQ
    BY SlotNumber DEF Queued
  <2> QED
    BY <1>4, <2>1 DEF Restart, QueueTypeOK
<1>5. CASE UplinkInit
  BY <1>5 DEF UplinkInit, QueueTypeOK
<1>6. CASE BeginPublish
  <2>1. at' \in 1 .. EVENT_QUEUE_SIZE + 1
    BY <1>6 DEF BeginPublish, QueueTypeOK
  <2>2. sending' \in Event \cup {NoEvent}
    BY <1>6 DEF BeginPublish, QueueTypeOK
  <2>3. sending' # NoEvent => pc' = "flush" /\ at' \in Slot
    BY <1>6 DEF BeginPublish
  <2> QED
    BY <1>6, <2>1, <2>2, <2>3 DEF BeginPublish, QueueTypeOK
<1>7. CASE PublishOk
  <2>1. sending \in Event /\ at \in Slot
    BY <1>7 DEF PublishOk, QueueTypeOK
  <2>2. sending.q \in 1 .. MaxQ
    BY <2>1 DEF Event
  <2>3. at' \in 1 .. EVENT_QUEUE_SIZE + 1
    BY <1>7, <2>1 DEF PublishOk
  <2>4. ev_queue' \in [Slot -> Event \cup {NoEvent}]
    BY <1>7 DEF PublishOk, QueueTypeOK
  <2>5. delivered' \subseteq 1 .. MaxQ
    BY <1>7, <2>2 DEF PublishOk, Delivers, QueueTypeOK
  <2> QED
    BY <1>7, <2>3, <2>4, <2>5 DEF PublishOk, QueueTypeOK
<1>8. CASE PublishFails \/ FlushDone
  <2>1. UNCHANGED <<queue, fate>> /\ sending' = NoEvent
    BY <1>8 DEF PublishFails, FlushDone
  <2>2. at' \in 1 .. EVENT_QUEUE_SIZE + 1
    <3>1. at' = 1 \/ (at \in Slot /\ at' = at + 1)
      BY <1>8 DEF PublishFails, FlushDone, QueueTypeOK
    <3> QED
      BY <3>1
  <2> QED
    BY <2>1, <2>2 DEF QueueTypeOK
<1>9. CASE HandleAcked \/ HandleLocate
  <2>1. /\ UNCHANGED <<ev_queue, next_q, dropped, at, sending, fate, pc>>
        /\ exposed' = exposed \cup ({sending.q} \ {0})
    BY <1>9, StepsThatAcknowledge
  <2>2. exposed' \subseteq 1 .. MaxQ
    BY <2>1, SendingNumber DEF QueueTypeOK
  <2> QED
    BY <2>1, <2>2 DEF QueueTypeOK
<1> QED
  BY <1>1, <1>2, <1>3, <1>4, <1>5, <1>6, <1>7, <1>8, <1>9, StepCases,
     StepsBesidesTheQueue, StepsThatQueue

-----------------------------------------------------------------------------
(***************************************************************************)
(* Nothing disappears                                                      *)
(***************************************************************************)

\* At first no event has a number yet.
LEMMA InitKeptInv == Init => KeptInv
<1> SUFFICES ASSUME Init PROVE KeptInv
  OBVIOUS
<1>1. QueueTypeOK
  BY InitQueueTypeOK
<1>2. next_q = 1 /\ sending = NoEvent /\ \A i \in Slot : ev_queue[i] = NoEvent
  BY DEF Init
<1>3. Queued = {}
  BY <1>2 DEF Queued, NoEvent
<1>4. EventsKept
  BY <1>2 DEF EventsKept
<1> QED
  BY <1>1, <1>2, <1>3, <1>4 DEF KeptInv

\* A step that queues an event keeps all the others or counts the one it
\* overwrites as dropped, and is exposed where the event sent is overwritten.
LEMMA QueueKeeps ==
  ASSUME KeptInv, NEW ev \in Kind, Queue(ev), UNCHANGED <<sending, fate>>,
         sending # NoEvent => UNCHANGED at
  PROVE  /\ EventsKept'
         /\ pc = "init" => Queued' \subseteq exposed'
         /\ sending # NoEvent =>
              /\ ev_queue'[at] = sending \/ ev_queue'[at].q \in exposed'
              /\ sending.q \in exposed'
<1> USE DEF KeptInv
<1> PICK s \in Slot :
       /\ ev_queue' = [ev_queue EXCEPT ![s] = [q |-> next_q, ev |-> ev]]
       /\ dropped' = dropped \cup ({ev_queue[s].q} \ {0})
       /\ next_q \in 1 .. MaxQ /\ next_q' = next_q + 1
       /\ exposed \cup ({sending.q} \ {0}) \subseteq exposed'
       /\ pc = "init" \/ (sending # NoEvent /\ s = at) => next_q \in exposed'
  BY QueueEffect
<1>1. /\ \A i \in Slot : i # s => ev_queue'[i] = ev_queue[i]
      /\ ev_queue'[s].q = next_q
  BY DEF QueueTypeOK
<1>2. EventsKept'
  <2> SUFFICES ASSUME NEW q \in (1 .. next_q' - 1) \ exposed'
               PROVE  q \in Queued' \cup delivered' \cup dropped' \cup lost'
    BY DEF EventsKept
  <2>1. CASE q = next_q
    BY <1>1, <2>1 DEF Queued
  <2>2. CASE q # next_q /\ q \in Queued
    <3>1. PICK i \in Slot : ev_queue[i].q = q
      BY <2>2 DEF Queued
    <3>2. CASE i = s
      BY <3>1, <3>2
    <3>3. CASE i # s
      BY <1>1, <3>1, <3>3 DEF Queued
    <3> QED
      BY <3>2, <3>3
  <2>3. CASE q # next_q /\ q \notin Queued
    <3>1. q \in (1 .. next_q - 1) \ exposed
      BY <2>3
    <3> QED
      BY <2>3, <3>1 DEF EventsKept, fate
  <2> QED
    BY <2>1, <2>2, <2>3
<1>3. ASSUME pc = "init", NEW i \in Slot, ev_queue'[i].q # 0
      PROVE  ev_queue'[i].q \in exposed'
  <2>1. CASE i = s
    BY <1>1, <1>3, <2>1
  <2>2. CASE i # s
    BY <1>1, <1>3, <2>2 DEF Queued
  <2> QED
    BY <2>1, <2>2
<1>4. ASSUME sending # NoEvent
      PROVE  /\ ev_queue'[at] = sending \/ ev_queue'[at].q \in exposed'
             /\ sending.q \in exposed'
  <2>1. at \in Slot
    BY <1>4 DEF QueueTypeOK
  <2>2. sending.q \in exposed'
    BY <1>4, SendingNumber
  <2> QED
    BY <1>1, <1>4, <2>1, <2>2
<1> QED
  BY <1>2, <1>3, <1>4 DEF Queued

\* Every step keeps every event that was not exposed.
LEMMA StepKeptInv ==
  ASSUME KeptInv, [Next]_vars
  PROVE  KeptInv'
<1> USE DEF KeptInv
<1>0. QueueTypeOK'
  BY StepQueueTypeOK
<1>1. CASE /\ UNCHANGED <<queue, flushing, fate>>
           /\ pc' = "init" => pc = "init"
  BY <1>0, <1>1 DEF queue, flushing, fate, EventsKept, Queued
<1>2. CASE /\ \E ev \in Kind : Queue(ev)
           /\ UNCHANGED <<sending, fate>>
           /\ UNCHANGED at \/ (pc = "tele" /\ at' = 1)
           /\ pc' = "init" => pc = "init"
  <2>1. sending # NoEvent => UNCHANGED at
    BY <1>2 DEF QueueTypeOK
  <2> QED
    BY <1>0, <1>2, <2>1, QueueKeeps
<1>3. CASE Telemetry(0)
  <2>1. UNCHANGED <<queue, sending, fate>> /\ pc = "tele" /\ pc' = "flush"
    BY <1>3 DEF Telemetry
  <2>2. sending = NoEvent
    BY <2>1 DEF QueueTypeOK
  <2> QED
    BY <1>0, <2>1, <2>2 DEF queue, fate, EventsKept, Queued
<1>4. CASE Restart
  <2>1. Queued' = {}
    BY <1>4 DEF Restart, Queued, NoEvent
  <2>2. EventsKept'
    BY <1>4 DEF Restart, EventsKept
  <2> QED
    BY <1>0, <1>4, <2>1, <2>2 DEF Restart
<1>5. CASE UplinkInit
  <2>1. Queued \subseteq exposed /\ pc' = "boot" /\ sending' = NoEvent
    BY <1>5 DEF UplinkInit, QueueTypeOK, flushing
  <2>2. EventsKept'
    BY <1>5, <2>1 DEF UplinkInit, EventsKept, fate
  <2> QED
    BY <1>0, <2>1, <2>2
<1>6. CASE BeginPublish
  BY <1>0, <1>6 DEF BeginPublish, queue, fate, EventsKept, Queued
<1>7. CASE PublishOk
  <2>1. at \in Slot /\ pc = "flush" /\ sending # NoEvent
    BY <1>7 DEF PublishOk, QueueTypeOK
  <2>2. ASSUME NEW q \in Queued, q \notin exposed PROVE q \in Queued' \cup delivered'
    <3>1. PICK i \in Slot : ev_queue[i].q = q /\ q # 0
      BY <2>2 DEF Queued
    <3>2. CASE i = at
      <4>1. sending.q = q /\ msg_buf # "ack"
        BY <2>1, <2>2, <3>1, <3>2
      <4> QED
        BY <1>7, <4>1 DEF PublishOk, Delivers
    <3>3. CASE i # at
      <4>1. ev_queue'[i].q = q
        BY <1>7, <3>1, <3>3 DEF PublishOk, QueueTypeOK
      <4> QED
        BY <3>1, <4>1 DEF Queued
    <3> QED
      BY <3>2, <3>3
  <2>3. EventsKept'
    BY <1>7, <2>2 DEF PublishOk, Delivers, EventsKept
  <2>4. pc' = "flush" /\ sending' = NoEvent
    BY <1>7, <2>1 DEF PublishOk
  <2> QED
    BY <1>0, <2>3, <2>4
<1>8. CASE PublishFails \/ FlushDone
  <2>1. UNCHANGED <<queue, fate>> /\ sending' = NoEvent /\ pc' # "init"
    BY <1>8 DEF PublishFails, FlushDone
  <2> QED
    BY <1>0, <2>1 DEF queue, fate, EventsKept, Queued
<1>9. CASE HandleAcked \/ HandleLocate
  <2>1. /\ UNCHANGED <<ev_queue, next_q, dropped, at, sending, fate, pc>>
        /\ exposed' = exposed \cup ({sending.q} \ {0})
    BY <1>9, StepsThatAcknowledge
  <2>2. EventsKept'
    BY <2>1 DEF EventsKept, Queued, fate
  <2>3. sending # NoEvent => sending.q \in exposed'
    BY <2>1, SendingNumber
  <2> QED
    BY <1>0, <2>1, <2>2, <2>3 DEF Queued
<1> QED
  BY <1>1, <1>2, <1>3, <1>4, <1>5, <1>6, <1>7, <1>8, <1>9, StepCases,
     StepsBesidesTheQueue, StepsThatQueue

\* An event that was queued is queued, delivered, overwritten by a newer one,
\* or went with the memory at a restart, unless it was queued before
\* uplink_init, put into the slot whose event was being published, or published
\* while a downlink was acknowledged.
THEOREM Kept == Spec => []EventsKept
<1>1. KeptInv /\ [Next]_vars => KeptInv'
  BY StepKeptInv
<1>2. KeptInv => EventsKept
  BY DEF KeptInv
<1> QED
  BY InitKeptInv, <1>1, <1>2, PTL DEF Spec

-----------------------------------------------------------------------------
(***************************************************************************)
(* The oldest goes first, and nothing twice                                *)
(***************************************************************************)

\* At first nothing is queued, delivered or dropped.
LEMMA InitOrderInv == Init => OrderInv
<1> SUFFICES ASSUME Init PROVE OrderInv
  OBVIOUS
<1>1. sending = NoEvent /\ delivered = {} /\ dropped = {}
  BY DEF Init
<1>2. \A i \in Slot : ev_queue[i] = NoEvent
  BY DEF Init
<1>3. Queued = {}
  BY <1>2 DEF Queued, NoEvent
<1> QED
  BY <1>1, <1>2, <1>3, InitQueueTypeOK DEF OrderInv, DropsOldest, DeliveredOnce

\* An event that is queued is the newest, and the one it overwrites is the
\* oldest.
LEMMA QueueOrders ==
  ASSUME OrderInv, NEW ev \in Kind, Queue(ev), UNCHANGED <<sending, fate>>,
         sending # NoEvent => UNCHANGED at, QueueTypeOK'
  PROVE  OrderInv'
<1> USE DEF OrderInv, fate
<1> PICK s \in Slot :
       /\ ev_queue' = [ev_queue EXCEPT ![s] = [q |-> next_q, ev |-> ev]]
       /\ ev_queue[s] # NoEvent => \A j \in Slot : ev_queue[s].q <= ev_queue[j].q
       /\ dropped' = dropped \cup ({ev_queue[s].q} \ {0})
       /\ next_q \in 1 .. MaxQ /\ next_q' = next_q + 1
  BY QueueEffect
<1>1. /\ ev_queue'[s].q = next_q
      /\ \A i \in Slot \ {s} : ev_queue'[i] = ev_queue[i]
  BY DEF QueueTypeOK
<1>2. \A i \in Slot : ev_queue[i].q \in Nat /\ ev_queue[i].q < next_q
  BY SlotNumber DEF Queued, QueueTypeOK
<1>3. delivered \subseteq Nat /\ dropped \subseteq Nat
  BY DEF QueueTypeOK
<1>4. Queued' \subseteq (Queued \ {ev_queue[s].q}) \cup {next_q}
  <2> SUFFICES ASSUME NEW i \in Slot, ev_queue'[i].q # 0, i # s
               PROVE  ev_queue'[i].q \in Queued \ {ev_queue[s].q}
    BY <1>1 DEF Queued
  <2>1. ev_queue[i].q = ev_queue'[i].q /\ ev_queue[i] # NoEvent
    BY <1>1 DEF NoEvent
  <2>2. ev_queue[s] = NoEvent \/ ev_queue[i].q # ev_queue[s].q
    BY <2>1 DEF DeliveredOnce
  <2> QED
    BY <2>1, <2>2 DEF Queued, NoEvent
<1>5. \A q \in (Queued \cup delivered \cup dropped)' : q < next_q'
  <2>1. \A q \in Queued' : q < next_q'
    BY <1>4, <1>2 DEF Queued
  <2>2. \A q \in delivered' : q < next_q'
    <3> SUFFICES ASSUME NEW q \in delivered PROVE q < next_q + 1
      OBVIOUS
    <3>1. q \in Nat /\ q < next_q
      BY <1>3
    <3> QED
      BY <3>1
  <2>3. \A q \in dropped' : q < next_q'
    BY <1>2, <1>3
  <2> QED
    BY <2>1, <2>2, <2>3
<1>6. DropsOldest'
  <2> SUFFICES ASSUME NEW d \in dropped', NEW q \in Queued' PROVE d < q
    BY DEF DropsOldest
  <2>1. CASE q = next_q
    BY <1>2, <2>1
  <2>2. CASE q \in Queued \ {ev_queue[s].q} /\ d \in dropped
    BY <2>2 DEF DropsOldest
  <2>3. CASE q \in Queued \ {ev_queue[s].q} /\ d = ev_queue[s].q /\ d # 0
    <3>1. PICK j \in Slot : ev_queue[j].q = q
      BY <2>3 DEF Queued
    <3>2. ev_queue[s].q <= ev_queue[j].q
      BY <2>3 DEF NoEvent
    <3> QED
      BY <1>2, <2>3, <3>1, <3>2
  <2> QED
    BY <1>4, <2>1, <2>2, <2>3
<1>7. DeliveredOnce'
  <2>1. (delivered \cap Queued)' = {}
    <3>1. next_q \notin delivered
      BY <1>3
    <3> QED
      BY <1>4, <3>1 DEF DeliveredOnce
  <2>2. ASSUME NEW i \in Slot, NEW j \in Slot, i # j, ev_queue'[i] # NoEvent
        PROVE  ev_queue'[i].q # ev_queue'[j].q
    <3>1. CASE i = s \/ j = s
      BY <1>1, <1>2, <2>2, <3>1
    <3>2. CASE i # s /\ j # s
      BY <1>1, <2>2, <3>2 DEF DeliveredOnce
    <3> QED
      BY <3>1, <3>2
  <2> QED
    BY <2>1, <2>2 DEF DeliveredOnce
<1>8. sending' # NoEvent => /\ \A i \in Slot \ {at'} : ev_queue'[i].q # sending'.q
                            /\ sending'.q < next_q'
  <2> SUFFICES ASSUME sending # NoEvent
               PROVE  /\ \A i \in Slot \ {at} : ev_queue'[i].q # sending.q
                      /\ sending.q < next_q'
    OBVIOUS
  <2>1. sending.q \in Nat
    BY DEF QueueTypeOK, Event
  <2> QED
    BY <1>1, <2>1
<1> QED
  BY <1>5, <1>6, <1>7, <1>8

\* Every step keeps the order of the numbers.
LEMMA StepOrderInv ==
  ASSUME OrderInv, [Next]_vars
  PROVE  OrderInv'
<1> USE DEF OrderInv
<1>0. QueueTypeOK'
  BY StepQueueTypeOK
<1>1. ASSUME UNCHANGED <<ev_queue, next_q, dropped, delivered>>,
             \/ UNCHANGED <<at, sending>>
             \/ sending' = NoEvent
      PROVE  OrderInv'
  BY <1>0, <1>1 DEF DropsOldest, DeliveredOnce, Queued
<1>2. ASSUME ev_queue' = [i \in Slot |-> NoEvent],
             UNCHANGED <<next_q, dropped, delivered>>, sending' = NoEvent
      PROVE  OrderInv'
  <2>1. Queued' = {}
    BY <1>2 DEF Queued, NoEvent
  <2> QED
    BY <1>0, <1>2, <2>1 DEF DropsOldest, DeliveredOnce
<1>3. CASE /\ \E ev \in Kind : Queue(ev)
           /\ UNCHANGED <<sending, fate>>
           /\ UNCHANGED at \/ (pc = "tele" /\ at' = 1)
  <2>1. sending # NoEvent => UNCHANGED at
    BY <1>3 DEF QueueTypeOK
  <2> QED
    BY <1>0, <1>3, <2>1, QueueOrders
<1>4. CASE Telemetry(0)
  <2>1. UNCHANGED <<queue, sending, fate>> /\ pc = "tele"
    BY <1>4 DEF Telemetry
  <2>2. sending' = NoEvent
    BY <2>1 DEF QueueTypeOK
  <2> QED
    BY <1>1, <2>1, <2>2 DEF queue, fate
<1>5. CASE Restart
  BY <1>2, <1>5 DEF Restart
<1>6. CASE UplinkInit
  <2>1. sending = NoEvent
    BY <1>6 DEF UplinkInit, QueueTypeOK
  <2> QED
    BY <1>2, <1>6, <2>1 DEF UplinkInit, fate, flushing
<1>7. CASE BeginPublish
  <2>1. UNCHANGED <<ev_queue, next_q, dropped, delivered>> /\ at \in Slot
    BY <1>7 DEF BeginPublish, queue, fate
  <2>2. CASE ev_queue[at] = NoEvent
    BY <1>1, <1>7, <2>1, <2>2 DEF BeginPublish
  <2>3. CASE ev_queue[at] # NoEvent
    <3>1. UNCHANGED at /\ sending' = ev_queue[at]
      BY <1>7, <2>3 DEF BeginPublish
    <3>2. ev_queue[at].q \in Queued
      BY <2>1, <2>3, SlotNumber DEF Queued
    <3>3. \A i \in Slot \ {at} : ev_queue[i].q # ev_queue[at].q
      BY <2>1, <2>3 DEF DeliveredOnce
    <3> QED
      BY <1>0, <2>1, <3>1, <3>2, <3>3 DEF DropsOldest, DeliveredOnce, Queued
  <2> QED
    BY <2>2, <2>3
<1>8. CASE PublishOk
  <2>1. at \in Slot /\ sending \in Event
    BY <1>8 DEF PublishOk, QueueTypeOK
  <2>2. /\ sending' = NoEvent /\ UNCHANGED <<next_q, dropped>>
        /\ delivered' \subseteq delivered \cup {sending.q}
        /\ ev_queue'[at] = NoEvent
        /\ \A i \in Slot \ {at} : ev_queue'[i] = ev_queue[i]
    BY <1>8, <2>1 DEF PublishOk, Delivers, QueueTypeOK
  <2>3. Queued' \subseteq Queued \ {sending.q}
    <3> SUFFICES ASSUME NEW i \in Slot, ev_queue'[i].q # 0
                 PROVE  ev_queue'[i].q \in Queued \ {sending.q}
      BY DEF Queued
    <3>1. i # at
      BY <2>2 DEF NoEvent
    <3> QED
      BY <1>8, <2>2, <3>1 DEF Queued, PublishOk
  <2>4. DropsOldest'
    BY <2>2, <2>3 DEF DropsOldest
  <2>5. DeliveredOnce'
    <3>1. (delivered \cap Queued)' = {}
      BY <2>2, <2>3 DEF DeliveredOnce
    <3>2. ASSUME NEW i \in Slot, NEW j \in Slot, i # j, ev_queue'[i] # NoEvent
          PROVE  ev_queue'[i].q # ev_queue'[j].q
      <4>1. i # at /\ ev_queue'[i] = ev_queue[i]
        BY <2>2, <3>2
      <4>2. CASE j = at
        BY <2>2, <3>2, <4>1, <4>2, SlotNumber DEF NoEvent
      <4>3. CASE j # at
        BY <2>2, <3>2, <4>1, <4>3 DEF DeliveredOnce
      <4> QED
        BY <4>2, <4>3
    <3> QED
      BY <3>1, <3>2 DEF DeliveredOnce
  <2>6. \A q \in (Queued \cup delivered \cup dropped)' : q < next_q'
    BY <1>8, <2>2, <2>3 DEF PublishOk
  <2> QED
    BY <1>0, <2>2, <2>4, <2>5, <2>6
<1>9. CASE PublishFails \/ FlushDone
  <2>1. UNCHANGED <<queue, fate>> /\ sending' = NoEvent
    BY <1>9 DEF PublishFails, FlushDone
  <2> QED
    BY <1>1, <2>1 DEF queue, fate
<1>10. CASE UNCHANGED <<queue, flushing, fate>>
  BY <1>1, <1>10 DEF queue, flushing, fate
<1>11. CASE HandleAcked \/ HandleLocate
  BY <1>1, <1>11, StepsThatAcknowledge DEF fate
<1> QED
  BY <1>3, <1>4, <1>5, <1>6, <1>7, <1>8, <1>9, <1>10, <1>11, StepCases,
     StepsBesidesTheQueue, StepsThatQueue

\* Whatever the queue drops is older than everything it keeps, and what was
\* delivered leaves it for good, also when events are queued from inside a
\* publish or before uplink_init.
THEOREM Order == Spec => [](DropsOldest /\ DeliveredOnce)
<1>1. OrderInv /\ [Next]_vars => OrderInv'
  BY StepOrderInv
<1>2. OrderInv => DropsOldest /\ DeliveredOnce
  BY DEF OrderInv
<1> QED
  BY InitOrderInv, <1>1, <1>2, PTL DEF Spec

\* An event is freed once it was delivered and is not sent again from another
\* slot (flush_events).
THEOREM NotTwice == Spec => []DeliveredOnce
BY Order, PTL

-----------------------------------------------------------------------------
(***************************************************************************)
(* The rest of the state                                                   *)
(***************************************************************************)

\* Memory before uplink_init is well typed.
LEMMA InitLoopTypeOK == Init => LoopTypeOK
<1> SUFFICES ASSUME Init PROVE LoopTypeOK
  OBVIOUS
<1>1. booting \in BOOLEAN /\ bt \in BOOLEAN /\ active \in BOOLEAN /\ idle \in BOOLEAN
  BY Zenon DEF Init
<1>2. pc \in Phase /\ volt \in Levels /\ batt_level \in 0 .. 3 /\ now_sem \in {0, 1}
  BY DEF Init, Phase
<1>3. asked \subseteq Caller /\ cause \subseteq {"unlock_deny"} /\ msg_buf \in {"ours", "ack"}
  BY DEF Init
<1>4. telling \subseteq {"motion", "unlock_deny"}
  BY DEF Init
<1>5. events \in 0 .. MaxEvent /\ resets \in 0 .. MaxReset
  BY LoopAssumption DEF Init
<1> QED
  BY <1>1, <1>2, <1>3, <1>4, <1>5 DEF LoopTypeOK

\* Every step of every thread keeps the types.
LEMMA StepLoopTypeOK ==
  ASSUME LoopTypeOK, [Next]_vars
  PROVE  LoopTypeOK'
<1> USE DEF asks, queue, flushing, radio, bounds, Phase, Caller
<1> DEFINE Flags == /\ booting \in BOOLEAN /\ bt \in BOOLEAN
                    /\ active \in BOOLEAN /\ idle \in BOOLEAN
           Asks  == /\ now_sem \in {0, 1} /\ asked \subseteq Caller
                    /\ cause \subseteq {"unlock_deny"}
                    /\ telling \subseteq {"motion", "unlock_deny"}
           Rest  == /\ msg_buf \in {"ours", "ack"}
                    /\ pc \in Phase /\ volt \in Levels /\ batt_level \in 0 .. 3
                    /\ events \in 0 .. MaxEvent /\ resets \in 0 .. MaxReset
<1>0. Flags /\ Asks /\ Rest
  BY DEF LoopTypeOK
<1> HIDE DEF Flags, Asks, Rest
<1> SUFFICES Flags' /\ Asks' /\ Rest'
  BY DEF Flags, Asks, Rest, LoopTypeOK
<1>1. ASSUME NEW ev \in Callbacks, QueueEvent(ev)
      PROVE  Flags' /\ Asks' /\ Rest'
  <2>1. Flags'
    BY <1>0, <1>1, Zenon DEF Flags, QueueEvent
  <2>2. Asks'
    BY <1>0, <1>1 DEF Asks, QueueEvent
  <2>3. Rest'
    BY <1>0, <1>1, LoopAssumption DEF Rest, QueueEvent
  <2> QED
    BY <2>1, <2>2, <2>3
<1>2. ASSUME NEW by \in {"motion", "unlock_deny"}, TellNow(by)
      PROVE  Flags' /\ Asks' /\ Rest'
  <2>1. Flags'
    <3>1. active' \in BOOLEAN
      BY <1>0, <1>2, Zenon DEF Flags, TellNow
    <3> QED
      BY <1>0, <1>2, <3>1, Zenon DEF Flags, TellNow
  <2>2. Asks'
    <3>1. now_sem' \in {0, 1}
      BY <1>0, <1>2 DEF Asks, TellNow, Give
    <3>2. asked' \subseteq Caller
      BY <1>0, <1>2 DEF Asks, TellNow, Give
    <3>3. cause' \subseteq {"unlock_deny"} /\ telling' \subseteq {"motion", "unlock_deny"}
      BY <1>0, <1>2 DEF Asks, TellNow, Give
    <3> QED
      BY <3>1, <3>2, <3>3 DEF Asks
  <2>3. Rest'
    BY <1>0, <1>2 DEF Rest, TellNow
  <2> QED
    BY <2>1, <2>2, <2>3
<1>3. CASE StandsStill \/ BatteryFalls
  <2>1. Flags'
    BY <1>0, <1>3, Zenon DEF Flags, StandsStill, BatteryFalls
  <2>2. Asks'
    BY <1>0, <1>3 DEF Asks, StandsStill, BatteryFalls
  <2>3. Rest'
    BY <1>0, <1>3 DEF Rest, StandsStill, BatteryFalls
  <2> QED
    BY <2>1, <2>2, <2>3
<1>4. CASE HandleAcked \/ HandleLocate \/ HandleRemoteUnlock
  <2>1. Flags'
    BY <1>0, <1>4, Zenon DEF Flags, HandleAcked, HandleLocate, HandleRemoteUnlock
  <2>2. Asks'
    <3>1. now_sem' \in {0, 1}
      BY <1>0, <1>4 DEF Asks, HandleAcked, HandleLocate, HandleRemoteUnlock, Give
    <3>2. asked' \subseteq Caller
      BY <1>0, <1>4 DEF Asks, HandleAcked, HandleLocate, HandleRemoteUnlock, Give
    <3>3. cause' \subseteq {"unlock_deny"} /\ telling' \subseteq {"motion", "unlock_deny"}
      BY <1>0, <1>4 DEF Asks, HandleAcked, HandleLocate, HandleRemoteUnlock, Give
    <3> QED
      BY <3>1, <3>2, <3>3 DEF Asks
  <2>3. Rest'
    BY <1>0, <1>4 DEF Rest, AckDownlink, HandleAcked, HandleLocate,
                      HandleRemoteUnlock
  <2> QED
    BY <2>1, <2>2, <2>3
<1>5. CASE Restart \/ UplinkInit
  <2>1. Flags'
    BY <1>0, <1>5, Zenon DEF Flags, Restart, UplinkInit
  <2>2. Asks'
    <3>1. now_sem' \in {0, 1}
      BY <1>0, <1>5 DEF Asks, Restart, UplinkInit
    <3>2. asked' \subseteq Caller
      BY <1>0, <1>5 DEF Asks, Restart, UplinkInit
    <3>3. cause' \subseteq {"unlock_deny"} /\ telling' \subseteq {"motion", "unlock_deny"}
      BY <1>0, <1>5 DEF Asks, Restart, UplinkInit
    <3> QED
      BY <3>1, <3>2, <3>3 DEF Asks
  <2>3. Rest'
    BY <1>0, <1>5, LoopAssumption DEF Rest, Restart, UplinkInit
  <2> QED
    BY <2>1, <2>2, <2>3
<1>6. CASE BootEvent \/ Begin
  <2>1. Flags'
    BY <1>0, <1>6, Zenon DEF Flags, BootEvent, Begin
  <2>2. Asks'
    <3>1. now_sem' \in {0, 1}
      BY <1>0, <1>6 DEF Asks, BootEvent, Begin
    <3>2. asked' \subseteq Caller
      BY <1>0, <1>6 DEF Asks, BootEvent, Begin
    <3>3. cause' \subseteq {"unlock_deny"} /\ telling' \subseteq {"motion", "unlock_deny"}
      BY <1>0, <1>6 DEF Asks, BootEvent, Begin
    <3> QED
      BY <3>1, <3>2, <3>3 DEF Asks
  <2>3. Rest'
    BY <1>0, <1>6 DEF Rest, BootEvent, Begin
  <2> QED
    BY <2>1, <2>2, <2>3
<1>7. CASE \E ok \in BOOLEAN : Connect(ok) \/ Arm(ok)
  <2>1. Flags'
    BY <1>0, <1>7, Zenon DEF Flags, Connect, Arm
  <2>2. Asks'
    BY <1>0, <1>7 DEF Asks, Connect, Arm
  <2>3. Rest'
    BY <1>0, <1>7 DEF Rest, Connect, Arm
  <2> QED
    BY <2>1, <2>2, <2>3
<1>8. CASE Hello \/ Poll \/ AfterCycle
  <2>1. Flags'
    BY <1>0, <1>8, Zenon DEF Flags, Hello, Poll, AfterCycle
  <2>2. Asks'
    BY <1>0, <1>8 DEF Asks, Hello, Poll, AfterCycle
  <2>3. Rest'
    BY <1>0, <1>8 DEF Rest, Hello, Poll, AfterCycle
  <2> QED
    BY <2>1, <2>2, <2>3
<1>9. CASE IdleCheck
  <2>1. Flags'
    BY <1>0, <1>9, Zenon DEF Flags, IdleCheck
  <2>2. Asks'
    BY <1>0, <1>9 DEF Asks, IdleCheck
  <2>3. Rest'
    BY <1>0, <1>9 DEF Rest, IdleCheck
  <2> QED
    BY <2>1, <2>2, <2>3
<1>10. ASSUME NEW lvl \in 0 .. 3, Telemetry(lvl)
       PROVE  Flags' /\ Asks' /\ Rest'
  <2>1. Flags'
    BY <1>0, <1>10, Zenon DEF Flags, Telemetry
  <2>2. Asks'
    <3>1. now_sem' \in {0, 1}
      BY <1>0, <1>10 DEF Asks, Telemetry, Give
    <3>2. asked' \subseteq Caller
      BY <1>0, <1>10 DEF Asks, Telemetry, Give
    <3>3. cause' \subseteq {"unlock_deny"} /\ telling' \subseteq {"motion", "unlock_deny"}
      BY <1>0, <1>10 DEF Asks, Telemetry, Give
    <3> QED
      BY <3>1, <3>2, <3>3 DEF Asks
  <2>3. Rest'
    BY <1>0, <1>10 DEF Rest, Telemetry
  <2> QED
    BY <2>1, <2>2, <2>3
<1>11. CASE BeginPublish \/ PublishOk \/ PublishFails \/ FlushDone
  <2>1. Flags'
    BY <1>0, <1>11, Zenon DEF Flags, BeginPublish, PublishOk, PublishFails, FlushDone
  <2>2. Asks'
    BY <1>0, <1>11 DEF Asks, BeginPublish, PublishOk, PublishFails, FlushDone
  <2>3. Rest'
    BY <1>0, <1>11 DEF Rest, BeginPublish, PublishOk, PublishFails, FlushDone
  <2> QED
    BY <2>1, <2>2, <2>3
<1>12. CASE UNCHANGED vars
  <2>1. Flags'
    BY <1>0, <1>12, Zenon DEF Flags, vars
  <2>2. Asks'
    BY <1>0, <1>12 DEF Asks, vars
  <2>3. Rest'
    BY <1>0, <1>12 DEF Rest, vars
  <2> QED
    BY <2>1, <2>2, <2>3
<1> QED
  BY <1>1, <1>2, <1>3, <1>4, <1>5, <1>6, <1>7, <1>8, <1>9, <1>10, <1>11, <1>12
     DEF Next, Loop, Others, Downlink, HandleReboot, Wake

\* Every reachable state is well typed, whatever is configured.
THEOREM Typed == Spec => []TypeOK
<1>1. Init => TypeOK
  BY InitQueueTypeOK, InitLoopTypeOK DEF TypeOK
<1>2. TypeOK /\ [Next]_vars => TypeOK'
  BY StepQueueTypeOK, StepLoopTypeOK DEF TypeOK
<1> QED
  BY <1>1, <1>2, PTL DEF Spec
=============================================================================
