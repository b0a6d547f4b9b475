--------------------------- MODULE Report_proofs ---------------------------
(***************************************************************************)
(* Proofs about SeqNo and Report, for every batch size, every length of    *)
(* the queue and every number of events, faults and power cuts: a q is     *)
(* never reused, bike and server together are an EventLog, the server      *)
(* ignores only what it has, and as long as nothing was missed or crossed  *)
(* its table is in the order of the events.                                *)
(***************************************************************************)
EXTENDS Report, WellFoundedInduction, SequenceTheorems, TLAPS

-----------------------------------------------------------------------------
(***************************************************************************)
(* Inductive invariants: numbers                                           *)
(***************************************************************************)

\* The number a call in progress is about to return.
InCall == IF pc = "raise" THEN {q_next - 1} ELSE {}

\* Within one boot, with or without flash errors: q_next is above everything
\* given out in this boot and above the number of a call in progress.
BootInv ==
  /\ TypeOK
  /\ NeverRepeatedInBoot
  /\ pc = "raise" => q_next > 0
  /\ pc \in {"off", "save_q", "save_boot"} => session = {}
  /\ \A v \in session : v < q_next /\ v \notin InCall

\* While flash has not failed: RAM's idea of the ceiling is what flash holds
\* except between raising it and writing it, and q_next is above everything
\* ever given out and not above the persisted ceiling.
Reserved ==
  /\ pc # "off" => \A v \in issued : v < q_next /\ v \notin InCall
  /\ pc \in {"save_q", "raise"} => q_next <= flash.q /\ q_ceiling = q_next + BATCH
  /\ pc \in {"save_boot", "idle"} => q_next < flash.q /\ q_ceiling = flash.q
  /\ pc = "save_boot" => boot_count = flash.boot + 1
  /\ pc \in {"save_q", "idle", "raise"} => boot_count = flash.boot

IInv ==
  /\ BootInv
  /\ NeverReused /\ BootsDistinct /\ FlashAhead
  /\ ~failed => Reserved

-----------------------------------------------------------------------------
(***************************************************************************)
(* Inductive invariants: events                                            *)
(***************************************************************************)

\* Where there is an event, in RAM, on its way or in the table.
Filled == {i \in Slot : ev_queue[i] # NoEvent}
Copies == {ev_queue[i] : i \in Filled} \cup ({sending} \ {NoEvent})
            \cup {net[i] : i \in DOMAIN net} \cup {event[i] : i \in DOMAIN event}

\* A publish belongs to the slot the flush is at, and a downlink to a publish:
\* an event that waits for its number is queued outside of a flush, or inside
\* a publish after its ack.
FlushInv ==
  /\ waiting => pc = "raise" /\ (at = 0 \/ dn = "acked") /\ events < MaxEvent
  /\ dn # "none" => sending # NoEvent
  /\ sending # NoEvent => at \in Slot

\* All copies of an event bear one number, which was given out; while flash has
\* not failed it is no other event's.
CopyInv ==
  /\ \A c \in Copies : c.id \in 1 .. events /\ c.q \in issued
  /\ \A c, d \in Copies : c.id = d.id \/ (~failed /\ c.q = d.q) => c = d

\* While nothing was missed or crossed, the slots fill from the first on and are
\* emptied from the first on; behind the flush only the first slot is taken,
\* by an event queued inside one of its publishes ...
SlotsInv ==
  /\ \A i \in Slot : /\ i < at /\ i \in Filled => i = 1
                     /\ i \in Filled => \A j \in Slot : at <= j /\ j <= i => j \in Filled
  /\ sending # NoEvent => at \in Filled /\ sending = ev_queue[at]

\* ... so that the queue, the network and the table hold the events in one line
\* from the newest to the oldest, the queue in the order in which it is sent.
OrderInv ==
  /\ SlotsInv
  /\ \A i, j \in Filled : at <= i /\ (i < j \/ j < at) => ev_queue[i].id < ev_queue[j].id
  /\ \A i \in DOMAIN net : \A j \in Filled : net[i].id < ev_queue[j].id
  /\ \A i \in DOMAIN event : \A j \in Filled : event[i].id < ev_queue[j].id
  /\ \A i \in DOMAIN event : \A j \in DOMAIN net : event[i].id <= net[j].id
  /\ \A i, j \in DOMAIN net : i < j => net[i].id <= net[j].id
  /\ Ordered

ReportInv ==
  /\ ReportTypeOK
  /\ IInv
  /\ FlushInv
  /\ CopyInv
  /\ ~missed /\ ~crossed => OrderInv

-----------------------------------------------------------------------------
(***************************************************************************)
(* SeqNo: as long as flash has not failed q and the boot count are never   *)
(* reused; q is unique within a boot even when it has.                     *)
(***************************************************************************)

USE BatchAssumption

\* Before the first power-up nothing was given out.
LEMMA InitBootInv == Init => BootInv
<1> SUFFICES ASSUME Init PROVE BootInv
  OBVIOUS
<1>1. reused \in BOOLEAN /\ recounted \in BOOLEAN /\ repeated \in BOOLEAN
      /\ failed \in BOOLEAN /\ ~repeated
  BY Zenon DEF Init
<1>2. pc \in Stage /\ q_next \in Nat /\ q_ceiling \in Nat /\ boot_count \in Nat
  BY DEF Init, Stage
<1>3. flash \in [q : Nat, boot : Nat]
  BY DEF Init
<1>4. issued \subseteq Nat /\ session = {} /\ boots \subseteq Nat /\ pc = "off"
  BY DEF Init
<1>5. TypeOK
  BY <1>1, <1>2, <1>3, <1>4 DEF TypeOK
<1> QED
  BY <1>1, <1>4, <1>5 DEF BootInv, NeverRepeatedInBoot

\* An erased flash is ahead of nothing.
LEMMA InitIInv == Init => IInv
<1> SUFFICES ASSUME Init PROVE IInv
  OBVIOUS
<1>1. ~reused /\ ~recounted
  BY Zenon DEF Init
<1>2. FlashAhead /\ Reserved
  BY DEF Init, FlashAhead, Reserved
<1> QED
  BY <1>1, <1>2, InitBootInv DEF IInv, NeverReused, BootsDistinct

\* Every step keeps q_next above what this boot gave out, also when flash fails.
LEMMA StepBootInv ==
  ASSUME BootInv, [Next]_vars
  PROVE  BootInv'
<1> USE DEF BootInv, TypeOK, NeverRepeatedInBoot, InCall, Stage, nvs, ram, hist
<1>1. flash' \in [q : Nat, boot : Nat] /\ failed' \in BOOLEAN
  <2>1. ASSUME NEW f \in {"q", "boot"}, NEW v \in Nat, Save(f, v)
        PROVE  flash' \in [q : Nat, boot : Nat] /\ failed' \in BOOLEAN
    <3>1. flash' \in [q : Nat, boot : Nat]
      BY <2>1 DEF Save
    <3>2. failed' \in BOOLEAN
      BY <2>1, Zenon DEF Save
    <3> QED
      BY <3>1, <3>2
  <2>2. CASE InitSaveQ \/ RaiseSave
    BY <2>1, <2>2 DEF InitSaveQ, RaiseSave
  <2>3. CASE InitSaveBoot
    BY <2>1, <2>3 DEF InitSaveBoot
  <2>4. CASE InitFail
    <3>1. failed' \in BOOLEAN
      BY <2>4, Zenon DEF InitFail
    <3> QED
      BY <2>4, <3>1 DEF InitFail
  <2>5. CASE UNCHANGED nvs
    BY <2>5
  <2> QED
    BY <2>2, <2>3, <2>4, <2>5 DEF Next, vars, InitLoad, NextQ, NextQRaise, PowerLoss
<1>2. CASE InitLoad
  BY <1>1, <1>2 DEF InitLoad
<1>3. CASE InitSaveQ
  BY <1>1, <1>3 DEF InitSaveQ
<1>4. CASE InitSaveBoot
  BY <1>1, <1>4 DEF InitSaveBoot, BootDone
<1>5. CASE InitFail
  BY <1>1, <1>5 DEF InitFail, BootDone
<1>6. CASE NextQ
  BY <1>1, <1>6 DEF NextQ, Issue
<1>7. CASE NextQRaise
  BY <1>1, <1>7 DEF NextQRaise
<1>8. CASE RaiseSave
  BY <1>1, <1>8 DEF RaiseSave, Issue
<1>9. CASE PowerLoss
  BY <1>1, <1>9 DEF PowerLoss
<1>10. CASE UNCHANGED vars
  BY <1>10 DEF vars
<1> QED
  BY <1>2, <1>3, <1>4, <1>5, <1>6, <1>7, <1>8, <1>9, <1>10 DEF Next

\* A step that ends with no failure behind it, a power cut at any moment
\* included, keeps flash ahead of what is given out.
LEMMA StepReserved ==
  ASSUME IInv, [Next]_vars, ~failed'
  PROVE  Reserved' /\ FlashAhead' /\ ~reused' /\ ~recounted'
<1> USE DEF IInv, BootInv, TypeOK, NeverReused, BootsDistinct, FlashAhead,
      Reserved, InCall, Stage, nvs, ram, hist, Save
<1>1. CASE InitLoad
  BY <1>1 DEF InitLoad
<1>2. CASE InitSaveQ
  BY <1>2 DEF InitSaveQ
<1>3. CASE InitSaveBoot
  BY <1>3 DEF InitSaveBoot, BootDone
<1>4. CASE NextQ
  BY <1>4 DEF NextQ, Issue
<1>5. CASE NextQRaise
  BY <1>5 DEF NextQRaise
<1>6. CASE RaiseSave
  BY <1>6 DEF RaiseSave, Issue
<1>7. CASE PowerLoss
  BY <1>7 DEF PowerLoss
<1>8. CASE InitFail
  BY <1>8 DEF InitFail
<1>9. CASE UNCHANGED vars
  BY <1>9 DEF vars
<1> QED
  BY <1>1, <1>2, <1>3, <1>4, <1>5, <1>6, <1>7, <1>8, <1>9 DEF Next

\* Every step, a power cut at any moment and a failing flash included, keeps
\* the invariant.
LEMMA StepIInv ==
  ASSUME IInv, [Next]_vars
  PROVE  IInv'
<1>1. BootInv'
  BY StepBootInv DEF IInv
<1>2. CASE failed'
  BY <1>1, <1>2 DEF IInv, NeverReused, BootsDistinct, FlashAhead
<1>3. CASE ~failed'
  BY <1>1, <1>3, StepReserved DEF IInv, NeverReused, BootsDistinct
<1> QED
  BY <1>2, <1>3

\* As long as flash has not failed, no q and no boot count is ever given out
\* twice, whenever power is cut.
THEOREM Unique == Spec => [](NeverReused /\ BootsDistinct)
<1>1. IInv /\ [Next]_vars => IInv'
  BY StepIInv
<1>2. IInv => NeverReused /\ BootsDistinct
  BY DEF IInv
<1> QED
  BY InitIInv, <1>1, <1>2, PTL DEF Spec

\* As long as flash has not failed, what was given out always lies below what
\* flash remembers.
THEOREM Ahead == Spec => []FlashAhead
<1>1. IInv /\ [Next]_vars => IInv'
  BY StepIInv
<1>2. IInv => FlashAhead
  BY DEF IInv
<1> QED
  BY InitIInv, <1>1, <1>2, PTL DEF Spec

\* Whatever flash reads and writes fail, no q repeats within one boot.
THEOREM UniqueInBoot == Spec => []NeverRepeatedInBoot
<1>1. BootInv /\ [Next]_vars => BootInv'
  BY StepBootInv
<1>2. BootInv => NeverRepeatedInBoot
  BY DEF BootInv
<1> QED
  BY InitBootInv, <1>1, <1>2, PTL DEF Spec

\* Every reachable state is well typed, whatever fails.
THEOREM Typed == Spec => []TypeOK
<1>1. BootInv /\ [Next]_vars => BootInv'
  BY StepBootInv
<1>2. BootInv => TypeOK
  BY DEF BootInv
<1> QED
  BY InitBootInv, <1>1, <1>2, PTL DEF Spec

HIDE BatchAssumption

-----------------------------------------------------------------------------
(***************************************************************************)
(* Sequences                                                               *)
(***************************************************************************)

\* What a message more does to the network or the table.
LEMMA AppendOne ==
  ASSUME NEW S, NEW s \in Seq(S), NEW e \in S
  PROVE  /\ Append(s, e) \in Seq(S)
         /\ DOMAIN s = 1 .. Len(s) /\ Len(s) \in Nat
         /\ DOMAIN Append(s, e) = 1 .. Len(s) + 1
         /\ \A i \in DOMAIN s : Append(s, e)[i] = s[i]
         /\ Append(s, e)[Len(s) + 1] = e
OBVIOUS

\* What a message more that is sent twice does to the network.
LEMMA AppendTwo ==
  ASSUME NEW S, NEW s \in Seq(S), NEW e \in S
  PROVE  /\ s \o <<e, e>> \in Seq(S)
         /\ DOMAIN s = 1 .. Len(s) /\ Len(s) \in Nat
         /\ DOMAIN (s \o <<e, e>>) = 1 .. Len(s) + 2
         /\ \A i \in DOMAIN s : (s \o <<e, e>>)[i] = s[i]
         /\ (s \o <<e, e>>)[Len(s) + 1] = e /\ (s \o <<e, e>>)[Len(s) + 2] = e
OBVIOUS

\* What the message that is taken leaves.
LEMMA TakeFirst ==
  ASSUME NEW S, NEW s \in Seq(S), s # <<>>
  PROVE  /\ Tail(s) \in Seq(S) /\ Head(s) \in S /\ Head(s) = s[1] /\ 1 \in DOMAIN s
         /\ DOMAIN s = 1 .. Len(s) /\ Len(s) \in Nat \ {0}
         /\ DOMAIN Tail(s) = 1 .. Len(s) - 1
         /\ \A i \in DOMAIN Tail(s) : Tail(s)[i] = s[i + 1] /\ i + 1 \in DOMAIN s
OBVIOUS

-----------------------------------------------------------------------------
(***************************************************************************)
(* The slot for a new event                                                *)
(***************************************************************************)

\* A set of numbers that is not empty has a smallest one.
LEMMA Least ==
  ASSUME NEW T, T \subseteq Nat, T # {}
  PROVE  \E x \in T : \A y \in T : x <= y
<1> DEFINE R == OpToRel(<, Nat)
<1>1. \A x, y \in Nat : x < y => <<x, y>> \in R
  BY Zenon DEF OpToRel
<1>2. IsWellFoundedOn(R, Nat)
  BY NatLessThanWellFounded, Zenon
<1> HIDE DEF R
<1>3. PICK x \in T : \A y \in T : ~ (<<y, x>> \in R)
  BY <1>2, WFMin
<1>4. \A y \in T : ~ (y < x)
  BY <1>1, <1>3, Zenon
<1> QED
  BY <1>4

\* There is a slot for every event, and it is a free one unless all are used;
\* then all before it are used.
LEMMA SlotForNewIsFree ==
  ASSUME ReportTypeOK
  PROVE  /\ SlotForNew \in Slot
         /\ ~Full => /\ ev_queue[SlotForNew] = NoEvent
                     /\ \A j \in Slot : j < SlotForNew => j \in Filled
<1> DEFINE unused == {i \in Slot : ev_queue[i] = NoEvent}
<1>0. Slot \subseteq Nat /\ Slot # {}
  BY ReportBounds DEF Slot
<1>1. CASE ~Full
  <2>1. unused \subseteq Nat /\ unused # {}
    BY <1>0, <1>1 DEF Full
  <2>2. \E i \in unused : \A j \in unused : i <= j
    BY <2>1, Least
  <2>3. SlotForNew \in unused /\ \A j \in unused : SlotForNew <= j
    <3>1. SlotForNew = CHOOSE i \in Slot : ev_queue[i] = NoEvent
                         /\ \A j \in Slot : ev_queue[j] = NoEvent => i <= j
      BY <1>1 DEF SlotForNew
    <3> QED
      BY <2>2, <3>1
  <2> QED
    BY <1>0, <2>3 DEF Filled
<1>2. CASE Full
  <2> DEFINE qs == {ev_queue[i].q : i \in Slot}
  <2>1. qs \subseteq Nat /\ qs # {}
    <3>1. \A i \in Slot : ev_queue[i].q \in Nat
      BY DEF ReportTypeOK
    <3> QED
      BY <1>0, <3>1
  <2>2. PICK x \in qs : \A y \in qs : x <= y
    BY <2>1, Least
  <2>3. \E i \in Slot : \A j \in Slot : ev_queue[i].q <= ev_queue[j].q
    BY <2>2
  <2>4. SlotForNew = CHOOSE i \in Slot : \A j \in Slot : ev_queue[i].q <= ev_queue[j].q
    BY <1>2 DEF SlotForNew
  <2> QED
    BY <1>2, <2>3, <2>4
<1> QED
  BY <1>1, <1>2

-----------------------------------------------------------------------------
(***************************************************************************)
(* Sequence numbers                                                        *)
(***************************************************************************)

\* For the sequence numbers every step is one of SeqNo's, or none.
LEMMA StepSeqNo ==
  ASSUME [ReportNext]_rvars
  PROVE  [Next]_vars
<1>1. CASE Boot
  BY <1>1 DEF Boot, Next
<1>2. CASE QueueEvent \/ QueueEventWaits \/ QueueEventDone
  BY <1>2 DEF QueueEvent, QueueEventWaits, QueueEventDone, Next
<1>3. CASE OtherMessage \/ OtherMessageDone
  BY <1>3 DEF OtherMessage, OtherMessageDone, Next
<1>4. CASE FlushBegins \/ FlushGoesOn
  BY <1>4 DEF FlushGoesOn, FlushBegins, SkipSlot, PublishBegins, Publish,
    PublishSendsAck, PublishFails
<1>5. CASE BikeOff
  BY <1>5 DEF BikeOff, Next
<1>6. CASE AddEvent \/ ServerRestart
  BY <1>6 DEF AddEvent, ServerRestart
<1>7. CASE UNCHANGED rvars
  BY <1>7 DEF rvars
<1> QED
  BY <1>1, <1>2, <1>3, <1>4, <1>5, <1>6, <1>7 DEF ReportNext

\* A number stays given out, and a failure is not forgotten.
LEMMA GivenOutForGood ==
  ASSUME [Next]_vars
  PROVE  issued \subseteq issued' /\ (failed => failed')
<1> USE DEF nvs, hist, Save
<1>1. CASE InitLoad \/ InitSaveQ
  BY <1>1 DEF InitLoad, InitSaveQ
<1>2. CASE InitSaveBoot \/ InitFail
  BY <1>2 DEF InitSaveBoot, InitFail, BootDone
<1>3. CASE NextQ \/ NextQRaise \/ RaiseSave
  BY <1>3 DEF NextQ, NextQRaise, RaiseSave, Issue
<1>4. CASE PowerLoss
  BY <1>4 DEF PowerLoss
<1>5. CASE UNCHANGED vars
  BY <1>5 DEF vars
<1> QED
  BY <1>1, <1>2, <1>3, <1>4, <1>5 DEF Next

\* The event of a call of queue_event gets a number of its own and a slot.
LEMMA GetsNumber ==
  ASSUME ReportTypeOK, IInv, FlushInv, QueueEvent \/ QueueEventDone
  PROVE  \E q \in Nat :
           /\ Fill(q)
           /\ q \in issued' /\ (~failed' => q \notin issued)
           /\ events' = events + 1 /\ events < MaxEvent
           /\ waiting' = FALSE /\ (at = 0 \/ sending # NoEvent)
           /\ UNCHANGED <<at, sending, server>>
<1>1. PICK q \in Nat :
        /\ Fill(q) /\ Issue(q) /\ (NextQ \/ RaiseSave)
        /\ events' = events + 1 /\ events < MaxEvent
        /\ waiting' = FALSE /\ (at = 0 \/ sending # NoEvent)
        /\ UNCHANGED <<at, sending, server>>
  <2>1. CASE QueueEvent
    <3>1. /\ Fill(q_next) /\ Issue(q_next) /\ NextQ
          /\ events' = events + 1 /\ events < MaxEvent
          /\ (at = 0 \/ sending # NoEvent)
          /\ UNCHANGED <<at, sending, server>>
      BY <2>1 DEF QueueEvent, NextQ, MayQueue, FlushInv
    <3>2. waiting' = FALSE
      BY <2>1 DEF QueueEvent, MayQueue, ReportTypeOK
    <3>3. q_next \in Nat
      BY DEF IInv, BootInv, TypeOK
    <3> QED
      BY <3>1, <3>2, <3>3
  <2>2. CASE QueueEventDone
    <3>1. /\ Fill(q_next - 1) /\ Issue(q_next - 1) /\ RaiseSave
          /\ events' = events + 1 /\ waiting /\ waiting' = FALSE
          /\ UNCHANGED <<at, sending, server>>
      BY <2>2 DEF QueueEventDone, RaiseSave
    <3>2. q_next - 1 \in Nat
      BY <2>2 DEF QueueEventDone, RaiseSave, IInv, BootInv, TypeOK
    <3>3. (at = 0 \/ sending # NoEvent) /\ events < MaxEvent
      BY <3>1 DEF FlushInv
    <3> QED
      BY <3>1, <3>2, <3>3
  <2> QED
    BY <2>1, <2>2
<1>2. [Next]_vars
  BY <1>1 DEF Next
<1>3. IInv'
  BY <1>2, StepIInv
<1>4. ~failed' => ~reused'
  BY <1>3 DEF IInv, NeverReused
<1>5. q \in issued' /\ (reused' <=> (reused \/ q \in issued))
  <2>1. q \in issued'
    BY <1>1 DEF Issue
  <2>2. reused' = (reused \/ q \in issued)
    BY <1>1 DEF Issue
  <2> QED
    BY <2>1, <2>2, Zenon
<1> QED
  BY <1>1, <1>4, <1>5

\* The actions that leave the events where they are.
Besides ==
  \/ Boot \/ QueueEventWaits \/ OtherMessage \/ OtherMessageDone
  \/ FlushBegins \/ SkipSlot \/ UNCHANGED rvars

\* They move the flush at most.
LEMMA StepsBesidesTheEvents ==
  ASSUME ReportTypeOK, FlushInv, Besides
  PROVE  /\ UNCHANGED <<ev_queue, sending, server, events, past>>
         /\ waiting' \in BOOLEAN
         /\ \/ at' = at
            \/ at = 0 /\ at' = 1 /\ sending = NoEvent
            \/ at \in Slot \ Filled /\ sending = NoEvent /\ NextSlot
<1> USE DEF bike, flush, server, counts, past, ReportTypeOK, Filled
<1>1. CASE Boot
  BY <1>1 DEF Boot
<1>2. CASE QueueEventWaits
  BY <1>2 DEF QueueEventWaits
<1>3. CASE OtherMessage \/ OtherMessageDone
  BY <1>3 DEF OtherMessage, OtherMessageDone
<1>4. CASE FlushBegins
  <2>1. at = 0 /\ sending = NoEvent
    BY <1>4, ReportBounds DEF FlushBegins, FlushInv, Slot
  <2> QED
    BY <1>4, <2>1 DEF FlushBegins
<1>5. CASE SkipSlot
  BY <1>5 DEF SkipSlot
<1>6. CASE UNCHANGED rvars
  BY <1>6 DEF rvars
<1> QED
  BY <1>1, <1>2, <1>3, <1>4, <1>5, <1>6 DEF Besides

\* What the actions that end a publish do, in one formula.
PublishSteps ==
  /\ sending # NoEvent /\ pc = "idle" /\ at \in Slot
  /\ sending' = NoEvent /\ dn' = "none" /\ NextSlot
  /\ ev_queue' \in {ev_queue, [ev_queue EXCEPT ![at] = NoEvent]}
  /\ net' \in {net, Append(net, sending), net \o <<sending, sending>>}
  /\ lost' \subseteq lost \cup {ev_queue[at].id, sending.id}
  /\ UNCHANGED <<waiting, event, events>>

\* They do.
LEMMA PublishIs ==
  ASSUME FlushInv, Publish \/ PublishSendsAck \/ PublishFails
  PROVE  PublishSteps
<1> USE DEF PublishSteps, PublishEnds, FlushInv
<1>1. CASE Publish
  BY <1>1 DEF Publish, FreeSlot
<1>2. CASE PublishSendsAck
  BY <1>2 DEF PublishSendsAck, server, counts
<1>3. CASE PublishFails
  BY <1>3 DEF PublishFails
<1> QED
  BY <1>1, <1>2, <1>3

\* Every step is one of these.
LEMMA StepCases ==
  ASSUME [ReportNext]_rvars
  PROVE  \/ Besides
         \/ QueueEvent \/ QueueEventDone
         \/ PublishBegins \/ Publish \/ PublishSendsAck \/ PublishFails
         \/ BikeOff \/ AddEvent \/ ServerRestart
BY DEF ReportNext, FlushGoesOn, Besides

\* Every step keeps a publish at its slot and a downlink in its publish.
LEMMA StepFlushInv ==
  ASSUME ReportTypeOK, FlushInv, [ReportNext]_rvars
  PROVE  FlushInv'
<1> USE DEF FlushInv, InPublish
<1>1. CASE Boot
  BY <1>1 DEF Boot, bike, flush, InitLoad, InitSaveQ, InitSaveBoot, InitFail
<1>2. CASE QueueEvent \/ QueueEventDone
  BY <1>2 DEF QueueEvent, QueueEventDone, Fill, MayQueue, Slot
<1>3. CASE QueueEventWaits
  BY <1>3 DEF QueueEventWaits, NextQRaise, MayQueue, flush, counts
<1>4. CASE OtherMessage \/ OtherMessageDone
  BY <1>4 DEF OtherMessage, OtherMessageDone, MaySend
<1>5. CASE FlushBegins \/ SkipSlot
  BY <1>5, ReportBounds DEF FlushBegins, SkipSlot, vars, ram, counts, Slot
<1>6. CASE PublishBegins
  BY <1>6 DEF PublishBegins, vars, ram, counts
<1>7. CASE Publish \/ PublishSendsAck \/ PublishFails
  <2>1. PublishSteps
    BY <1>7, PublishIs
  <2>2. ~waiting
    BY <2>1 DEF PublishSteps
  <2> QED
    BY <2>1, <2>2 DEF PublishSteps
<1>8. CASE BikeOff
  BY <1>8 DEF BikeOff
<1>9. CASE AddEvent \/ ServerRestart
  BY <1>9 DEF AddEvent, ServerRestart, bike, flush, vars, ram, counts
<1>10. CASE UNCHANGED rvars
  BY <1>10 DEF rvars, bike, flush, vars, ram, counts
<1> QED
  BY <1>1, <1>2, <1>3, <1>4, <1>5, <1>6, <1>7, <1>8, <1>9, <1>10, StepCases DEF Besides

-----------------------------------------------------------------------------
(***************************************************************************)
(* Types                                                                   *)
(***************************************************************************)

\* What a slot holds is nothing, or an event that may be sent.
LEMMA SlotHolds ==
  ASSUME ReportTypeOK, CopyInv, NEW i \in Slot, ev_queue[i] # NoEvent
  PROVE  ev_queue[i] \in [id : 1 .. MaxEvent, q : Nat]
<1>1. ev_queue[i].id \in 1 .. events
  BY DEF CopyInv, Copies, Filled
<1>2. ev_queue[i] \in [id : 0 .. MaxEvent, q : Nat]
  BY DEF ReportTypeOK
<1>3. ev_queue[i].id \in 1 .. MaxEvent
  BY <1>1, ReportBounds DEF ReportTypeOK
<1> QED
  BY <1>2, <1>3

\* So does a publish.
LEMMA SendingHolds ==
  ASSUME ReportTypeOK, CopyInv, sending # NoEvent
  PROVE  sending \in [id : 1 .. MaxEvent, q : Nat]
<1>1. sending.id \in 1 .. events
  BY DEF CopyInv, Copies
<1>2. sending \in [id : 0 .. MaxEvent, q : Nat]
  BY DEF ReportTypeOK
<1>3. sending.id \in 1 .. MaxEvent
  BY <1>1, ReportBounds DEF ReportTypeOK
<1> QED
  BY <1>2, <1>3

\* Faults are counted up to their bound.
LEMMA StepFaults ==
  ASSUME ReportTypeOK, [ReportNext]_rvars
  PROVE  faults' \in 0 .. MaxFault
<1> USE DEF ReportTypeOK, Fault, FaultIfUnwritten, counts
<1>1. Fault => faults' \in 0 .. MaxFault
  BY ReportBounds
<1>2. CASE Boot \/ OtherMessage \/ OtherMessageDone
  BY <1>1, <1>2 DEF Boot, OtherMessage, OtherMessageDone
<1>3. CASE QueueEvent \/ QueueEventWaits \/ QueueEventDone
  BY <1>1, <1>3 DEF QueueEvent, QueueEventWaits, QueueEventDone
<1>4. CASE FlushBegins \/ FlushGoesOn
  BY <1>1, <1>4 DEF FlushGoesOn, FlushBegins, SkipSlot, PublishBegins, Publish,
    PublishSendsAck, PublishFails
<1>5. CASE BikeOff \/ AddEvent \/ ServerRestart
  BY <1>1, <1>5 DEF BikeOff, AddEvent, ServerRestart
<1>6. CASE UNCHANGED rvars
  BY <1>6 DEF rvars
<1> QED
  BY <1>2, <1>3, <1>4, <1>5, <1>6 DEF ReportNext

\* What downlinks did to a publish is one of three things.
LEMMA StepDn ==
  ASSUME ReportTypeOK, [ReportNext]_rvars
  PROVE  dn' \in {"none", "acked", "queued"}
<1>1. CASE UNCHANGED dn
  BY <1>1 DEF ReportTypeOK
<1>2. CASE InPublish("acked") \/ InPublish("queued")
  BY <1>2 DEF InPublish, ReportTypeOK
<1>3. CASE dn' = "none"
  BY <1>3
<1> QED
  BY <1>1, <1>2, <1>3 DEF ReportNext, FlushGoesOn, Boot, QueueEvent, QueueEventDone,
    QueueEventWaits, Fill, OtherMessage, OtherMessageDone, FlushBegins, SkipSlot,
    PublishBegins, Publish, PublishSendsAck, PublishFails, PublishEnds, BikeOff,
    AddEvent, ServerRestart, bike, flush, rvars

\* The histories are of their types, too.
LEMMA StepPast ==
  ASSUME ReportTypeOK, IInv, FlushInv, CopyInv, [ReportNext]_rvars
  PROVE  /\ missed' \in BOOLEAN /\ crossed' \in BOOLEAN
         /\ lost' \subseteq 0 .. MaxEvent
<1>0. missed \in BOOLEAN /\ crossed \in BOOLEAN /\ lost \subseteq 0 .. MaxEvent
  BY Zenon DEF ReportTypeOK
<1>1. \A i \in Slot : ev_queue[i].id \in 0 .. MaxEvent
  BY DEF ReportTypeOK
<1>2. sending.id \in 0 .. MaxEvent
  BY DEF ReportTypeOK
<1>3. CASE Besides
  <2>1. UNCHANGED past
    BY <1>3, StepsBesidesTheEvents
  <2> QED
    BY <1>0, <2>1, Zenon DEF past
<1>4. CASE QueueEvent \/ QueueEventDone
  <2>1. PICK q \in Nat : Fill(q)
    BY <1>4, GetsNumber
  <2>2. missed' \in BOOLEAN
    BY <2>1, Zenon DEF Fill
  <2>3. crossed' \in BOOLEAN
    BY <2>1, Zenon DEF Fill
  <2>4. lost' \in {lost, lost \cup {ev_queue[SlotForNew].id}}
    BY <2>1 DEF Fill
  <2>5. lost' \subseteq 0 .. MaxEvent
    BY <1>0, <1>1, <2>4, SlotForNewIsFree
  <2> QED
    BY <2>2, <2>3, <2>5
<1>5. CASE PublishBegins
  <2>1. UNCHANGED past
    BY <1>5 DEF PublishBegins
  <2> QED
    BY <1>0, <2>1, Zenon DEF past
<1>6. CASE Publish \/ PublishSendsAck \/ PublishFails
  <2>1. lost' \subseteq 0 .. MaxEvent
    BY <1>0, <1>1, <1>2, <1>6, PublishIs DEF PublishSteps
  <2>2. (missed' = TRUE \/ missed' = missed) /\ crossed' = crossed
    BY <1>6 DEF Publish, PublishSendsAck, PublishFails
  <2>3. missed' \in BOOLEAN /\ crossed' \in BOOLEAN
    BY <1>0, <2>2, Zenon
  <2> QED
    BY <2>1, <2>3
<1>7. CASE BikeOff
  <2>1. lost' = lost \cup Queued \cup ({sending.id} \ {0}) /\ UNCHANGED <<missed, crossed>>
    BY <1>7 DEF BikeOff
  <2>2. lost' \subseteq 0 .. MaxEvent
    BY <1>0, <1>1, <1>2, <2>1 DEF Queued
  <2>3. missed' \in BOOLEAN /\ crossed' \in BOOLEAN
    BY <1>0, <2>1, Zenon
  <2> QED
    BY <2>2, <2>3
<1>8. CASE AddEvent
  <2>1. UNCHANGED past
    BY <1>8 DEF AddEvent
  <2> QED
    BY <1>0, <2>1, Zenon DEF past
<1>9. CASE ServerRestart
  <2>1. lost' = lost \cup Ids(net) /\ UNCHANGED <<missed, crossed>>
    BY <1>9 DEF ServerRestart
  <2>2. \A i \in DOMAIN net : net[i].id \in 0 .. MaxEvent
    <3>1. net \in Seq([id : 1 .. MaxEvent, q : Nat])
      BY DEF ReportTypeOK
    <3>2. \A i \in DOMAIN net : net[i] \in [id : 1 .. MaxEvent, q : Nat]
      BY <3>1, ElementOfSeq, LenProperties
    <3> QED
      BY <3>2, ReportBounds
  <2>3. lost' \subseteq 0 .. MaxEvent
    BY <1>0, <2>1, <2>2 DEF Ids
  <2>4. missed' \in BOOLEAN /\ crossed' \in BOOLEAN
    BY <1>0, <2>1, Zenon
  <2> QED
    BY <2>3, <2>4
<1> QED
  BY <1>3, <1>4, <1>5, <1>6, <1>7, <1>8, <1>9, StepCases

\* What filling a slot does, in terms of some slot s.
LEMMA FillEffect ==
  ASSUME ReportTypeOK, NEW q \in Nat, Fill(q), events' = events + 1
  PROVE  \E s \in Slot :
           /\ ev_queue' = [ev_queue EXCEPT ![s] = [id |-> events + 1, q |-> q]]
           /\ ~missed' => /\ ~missed /\ s \notin Filled
                          /\ \A j \in Slot : j < s => j \in Filled
           /\ ~crossed' => ~crossed /\ \A j \in Slot : j < at => j \notin Filled
<1>1. ~missed' => ~missed /\ ~Full
  <2>1. missed' = (missed \/ Full)
    BY DEF Fill
  <2> QED
    BY <2>1, Zenon
<1>2. ev_queue' = [ev_queue EXCEPT ![SlotForNew] = [id |-> events + 1, q |-> q]]
  BY DEF Fill
<1>3. ~crossed' => ~crossed /\ \A j \in Slot : j < at => j \notin Filled
  <2> DEFINE some == \E i \in Slot : i < at /\ ev_queue[i] # NoEvent
  <2>1. crossed' = (crossed \/ some)
    BY DEF Fill
  <2> HIDE DEF some
  <2>2. ~crossed' => ~crossed /\ ~some
    BY <2>1, Zenon
  <2> QED
    BY <2>2 DEF some, Filled
<1> QED
  BY <1>1, <1>2, <1>3, SlotForNewIsFree DEF Filled

\* Every step keeps the types.
LEMMA StepTypes ==
  ASSUME ReportTypeOK, IInv, FlushInv, CopyInv, [ReportNext]_rvars
  PROVE  ReportTypeOK'
<1> DEFINE Ev == [id : 1 .. MaxEvent, q : Nat]
<1> DEFINE Cell == [id : 0 .. MaxEvent, q : Nat]
<1>1. /\ TypeOK' /\ faults' \in 0 .. MaxFault
      /\ dn' \in {"none", "acked", "queued"}
      /\ missed' \in BOOLEAN /\ crossed' \in BOOLEAN /\ lost' \subseteq 0 .. MaxEvent
  <2>1. IInv'
    BY StepSeqNo, StepIInv
  <2> QED
    BY <2>1, StepFaults, StepDn, StepPast DEF IInv, BootInv
<1>2. NoEvent \in Cell
  BY ReportBounds DEF NoEvent
<1>3. at \in Slot /\ NextSlot => at' \in 0 .. EVENT_QUEUE_SIZE
  BY ReportBounds DEF NextSlot, Slot
<1>4. CASE Besides
  <2>1. /\ UNCHANGED <<ev_queue, sending, net, event, events>>
        /\ waiting' \in BOOLEAN
        /\ at' = at \/ (at = 0 /\ at' = 1) \/ (at \in Slot /\ NextSlot)
    BY <1>4, StepsBesidesTheEvents DEF server
  <2>2. at' \in 0 .. EVENT_QUEUE_SIZE
    BY <1>3, <2>1, ReportBounds DEF ReportTypeOK
  <2> QED
    BY <1>1, <2>1, <2>2 DEF ReportTypeOK
<1>5. CASE QueueEvent \/ QueueEventDone
  <2>1. PICK q \in Nat :
          /\ Fill(q) /\ events' = events + 1 /\ events < MaxEvent
          /\ waiting' = FALSE /\ UNCHANGED <<at, sending, net, event>>
    BY <1>5, GetsNumber DEF server
  <2>2. PICK s \in Slot :
          ev_queue' = [ev_queue EXCEPT ![s] = [id |-> events + 1, q |-> q]]
    BY <2>1, FillEffect
  <2>3. events' \in 0 .. MaxEvent
    BY <2>1, ReportBounds DEF ReportTypeOK
  <2>4. ev_queue' \in [Slot -> Cell]
    BY <2>1, <2>2, <2>3 DEF ReportTypeOK
  <2> QED
    BY <1>1, <2>1, <2>3, <2>4 DEF ReportTypeOK
<1>6. CASE PublishBegins
  <2>1. /\ at \in Slot /\ sending' = ev_queue[at]
        /\ UNCHANGED <<ev_queue, waiting, at, net, event, events>>
    BY <1>6 DEF PublishBegins, server, counts
  <2>2. sending' \in Cell
    BY <2>1 DEF ReportTypeOK
  <2> QED
    BY <1>1, <2>1, <2>2 DEF ReportTypeOK
<1>7. CASE Publish \/ PublishSendsAck \/ PublishFails
  <2>1. /\ at \in Slot /\ sending # NoEvent /\ NextSlot /\ sending' = NoEvent
        /\ ev_queue' \in {ev_queue, [ev_queue EXCEPT ![at] = NoEvent]}
        /\ net' \in {net, Append(net, sending), net \o <<sending, sending>>}
        /\ UNCHANGED <<waiting, event, events>>
    BY <1>7, PublishIs DEF PublishSteps
  <2>2. sending \in Ev
    BY <2>1, SendingHolds
  <2>3. net' \in Seq(Ev)
    <3>1. net \in Seq(Ev)
      BY DEF ReportTypeOK
    <3>2. Append(net, sending) \in Seq(Ev) /\ net \o <<sending, sending>> \in Seq(Ev)
      BY <2>2, <3>1, AppendOne, AppendTwo
    <3> QED
      BY <2>1, <3>1, <3>2
  <2>4. ev_queue' \in [Slot -> Cell]
    BY <1>2, <2>1 DEF ReportTypeOK
  <2> QED
    BY <1>1, <1>2, <1>3, <2>1, <2>3, <2>4 DEF ReportTypeOK
<1>8. CASE BikeOff
  <2>1. ev_queue' \in [Slot -> Cell]
    BY <1>2, <1>8 DEF BikeOff
  <2>2. /\ waiting' = FALSE /\ at' = 0 /\ sending' = NoEvent
        /\ UNCHANGED <<net, event, events>>
    BY <1>8 DEF BikeOff, server, counts
  <2>3. at' \in 0 .. EVENT_QUEUE_SIZE
    BY <2>2, ReportBounds
  <2> QED
    BY <1>1, <1>2, <2>1, <2>2, <2>3 DEF ReportTypeOK
<1>9. CASE AddEvent
  <2>1. net' \in Seq(Ev) /\ event' \in Seq(Ev)
    BY <1>9, TakeFirst, AppendOne DEF AddEvent, ReportTypeOK
  <2> QED
    BY <1>1, <1>9, <2>1 DEF AddEvent, ReportTypeOK, bike, flush, counts
<1>10. CASE ServerRestart
  BY <1>1, <1>10 DEF ServerRestart, ReportTypeOK, bike, flush
<1> QED
  BY <1>4, <1>5, <1>6, <1>7, <1>8, <1>9, <1>10, StepCases

-----------------------------------------------------------------------------
(***************************************************************************)
(* The copies of an event                                                  *)
(***************************************************************************)

\* Only a call of queue_event makes a copy that is of no event that has one.
LEMMA StepCopies ==
  ASSUME ReportTypeOK, FlushInv, CopyInv, [ReportNext]_rvars,
         ~(QueueEvent \/ QueueEventDone)
  PROVE  Copies' \subseteq Copies /\ UNCHANGED events
<1> USE DEF Copies, Filled
<1>1. CASE Besides
  BY <1>1, StepsBesidesTheEvents DEF server
<1>2. CASE PublishBegins
  BY <1>2 DEF PublishBegins, server, counts
<1>3. CASE Publish \/ PublishSendsAck \/ PublishFails
  <2>1. /\ at \in Slot /\ sending # NoEvent /\ sending' = NoEvent
        /\ ev_queue' \in {ev_queue, [ev_queue EXCEPT ![at] = NoEvent]}
        /\ net' \in {net, Append(net, sending), net \o <<sending, sending>>}
        /\ UNCHANGED <<event, events>>
    BY <1>3, PublishIs DEF PublishSteps
  <2>2. sending \in [id : 1 .. MaxEvent, q : Nat]
    BY <2>1, SendingHolds
  <2>3. {net'[i] : i \in DOMAIN net'} \subseteq {net[i] : i \in DOMAIN net} \cup {sending}
    <3>1. CASE net' = Append(net, sending)
      BY <3>1, <2>2, AppendOne DEF ReportTypeOK
    <3>2. CASE net' = net \o <<sending, sending>>
      <4>1. net \in Seq([id : 1 .. MaxEvent, q : Nat])
        BY DEF ReportTypeOK
      <4> DEFINE two == net \o <<sending, sending>>
      <4>2. /\ DOMAIN two = 1 .. Len(net) + 2 /\ DOMAIN net = 1 .. Len(net)
            /\ Len(net) \in Nat /\ \A i \in DOMAIN net : two[i] = net[i]
            /\ two[Len(net) + 1] = sending /\ two[Len(net) + 2] = sending
        BY <2>2, <4>1, AppendTwo
      <4> HIDE DEF two
      <4>3. \A i \in DOMAIN two : two[i] = sending \/ i \in DOMAIN net
        BY <4>2
      <4> QED
        BY <3>2, <4>2, <4>3 DEF two
    <3> QED
      BY <2>1, <3>1, <3>2
  <2>4. \A i \in Slot : ev_queue'[i] # NoEvent => ev_queue'[i] = ev_queue[i]
    BY <2>1 DEF ReportTypeOK
  <2> QED
    BY <2>1, <2>3, <2>4
<1>4. CASE BikeOff
  BY <1>4 DEF BikeOff, server, counts
<1>5. CASE AddEvent
  <2>1. /\ net # <<>> /\ net' = Tail(net)
        /\ event' \in {event, Append(event, Head(net))}
        /\ UNCHANGED <<ev_queue, sending, events>>
    BY <1>5 DEF AddEvent, bike, flush, counts
  <2>2. /\ {net'[i] : i \in DOMAIN net'} \subseteq {net[i] : i \in DOMAIN net}
        /\ Head(net) \in {net[i] : i \in DOMAIN net}
    BY <2>1, TakeFirst DEF ReportTypeOK
  <2>3. {event'[i] : i \in DOMAIN event'} \subseteq {event[i] : i \in DOMAIN event} \cup {Head(net)}
    <3>1. CASE event' = Append(event, Head(net))
      <4>1. /\ event \in Seq([id : 1 .. MaxEvent, q : Nat])
            /\ Head(net) \in [id : 1 .. MaxEvent, q : Nat]
        BY <2>1, TakeFirst DEF ReportTypeOK
      <4> QED
        BY <3>1, <4>1, AppendOne
    <3> QED
      BY <2>1, <3>1
  <2> QED
    BY <2>1, <2>2, <2>3
<1>6. CASE ServerRestart
  BY <1>6 DEF ServerRestart, bike, flush
<1> QED
  BY <1>1, <1>2, <1>3, <1>4, <1>5, <1>6, StepCases

\* Every step gives all copies of an event one number, no other event's.
LEMMA StepCopyInv ==
  ASSUME ReportTypeOK, IInv, FlushInv, CopyInv, [ReportNext]_rvars
  PROVE  CopyInv'
<1>1. issued \subseteq issued' /\ (failed => failed')
  BY StepSeqNo, GivenOutForGood
<1>2. CASE ~(QueueEvent \/ QueueEventDone)
  <2>1. Copies' \subseteq Copies /\ UNCHANGED events
    BY <1>2, StepCopies
  <2> QED
    BY <1>1, <2>1 DEF CopyInv
<1>3. CASE QueueEvent \/ QueueEventDone
  <2>1. PICK q \in Nat :
          /\ Fill(q) /\ q \in issued' /\ (~failed' => q \notin issued)
          /\ events' = events + 1
          /\ UNCHANGED <<sending, net, event>>
    BY <1>3, GetsNumber DEF server
  <2>2. PICK s \in Slot :
          ev_queue' = [ev_queue EXCEPT ![s] = [id |-> events + 1, q |-> q]]
    BY <2>1, FillEffect
  <2> DEFINE new == [id |-> events + 1, q |-> q]
  <2>3. Copies' \subseteq Copies \cup {new}
    BY <2>1, <2>2 DEF Copies, Filled, ReportTypeOK
  <2>4. \A c \in Copies : c.id \in 1 .. events /\ c.id # new.id /\ c.q \in issued
    BY DEF CopyInv, ReportTypeOK
  <2>5. \A c \in Copies : ~failed' => c.q # new.q
    BY <2>1, <2>4
  <2>6. events \in Nat /\ new.id \in 1 .. events' /\ new.q \in issued'
    BY <2>1, ReportBounds DEF ReportTypeOK
  <2>7. \A c \in Copies' : c.id \in 1 .. events' /\ c.q \in issued'
    <3>1. 1 .. events \subseteq 1 .. events'
      BY <2>1, <2>6
    <3> QED
      BY <1>1, <2>3, <2>4, <2>6, <3>1
  <2>8. \A c, d \in Copies' : c.id = d.id \/ (~failed' /\ c.q = d.q) => c = d
    BY <1>1, <2>3, <2>4, <2>5 DEF CopyInv
  <2> QED
    BY <2>1, <2>7, <2>8 DEF CopyInv
<1> QED
  BY <1>2, <1>3

\* Before the first power-up there is no event.
LEMMA InitReport ==
  ASSUME ReportInit
  PROVE  ReportTypeOK /\ IInv /\ FlushInv /\ CopyInv /\ OrderInv
<1> USE ReportBounds
<1>1. IInv /\ TypeOK
  BY InitIInv DEF ReportInit, IInv, BootInv
<1>2. /\ ev_queue = [i \in Slot |-> NoEvent] /\ at = 0
      /\ net = <<>> /\ event = <<>> /\ events = 0 /\ faults = 0
      /\ waiting = FALSE /\ sending = NoEvent /\ dn = "none" /\ lost = {}
  BY DEF ReportInit
<1>3. missed \in BOOLEAN /\ crossed \in BOOLEAN
  BY Zenon DEF ReportInit
<1>4. ev_queue \in [Slot -> [id : 0 .. MaxEvent, q : Nat]]
  BY <1>2 DEF NoEvent
<1>5. at \in 0 .. EVENT_QUEUE_SIZE /\ events \in 0 .. MaxEvent /\ faults \in 0 .. MaxFault
  BY <1>2
<1>6. ReportTypeOK
  <2>1. waiting \in BOOLEAN
    BY <1>2, Zenon
  <2>2. net \in Seq([id : 1 .. MaxEvent, q : Nat]) /\ event \in Seq([id : 1 .. MaxEvent, q : Nat])
    BY <1>2
  <2>3. sending \in [id : 0 .. MaxEvent, q : Nat]
    BY <1>2 DEF NoEvent
  <2> QED
    BY <1>1, <1>2, <1>3, <1>4, <1>5, <2>1, <2>2, <2>3 DEF ReportTypeOK
<1>7. Filled = {} /\ DOMAIN net = {} /\ DOMAIN event = {}
  BY <1>2 DEF Filled
<1>8. Copies = {}
  BY <1>2, <1>7 DEF Copies
<1>9. CopyInv /\ FlushInv
  BY <1>2, <1>8 DEF CopyInv, FlushInv
<1>10. OrderInv
  BY <1>2, <1>7 DEF OrderInv, SlotsInv, Ordered, Slot
<1> QED
  BY <1>1, <1>6, <1>9, <1>10

-----------------------------------------------------------------------------
(***************************************************************************)
(* The bike and the server are an EventLog                                 *)
(***************************************************************************)

\* Gone are the events of which there is no copy.
LEMMA GoneIs == ReportTypeOK /\ CopyInv => Gone = 1 .. events \ {c.id : c \in Copies}
<1> SUFFICES ASSUME ReportTypeOK, CopyInv
             PROVE  Gone = 1 .. events \ {c.id : c \in Copies}
  OBVIOUS
<1>1. \A i \in Slot : i \in Filled => ev_queue[i].id \in 1 .. events
  BY DEF CopyInv, Copies
<1>2. \A i \in Slot : i \notin Filled => ev_queue[i].id = 0
  BY DEF Filled, NoEvent
<1>3. Queued = {ev_queue[i].id : i \in Filled}
  BY <1>1, <1>2 DEF Queued, Filled
<1>4. 1 .. events \cap {sending.id} = 1 .. events \cap {c.id : c \in {sending} \ {NoEvent}}
  BY DEF NoEvent
<1> QED
  BY <1>3, <1>4 DEF Gone, Ids, Copies

\* What is recorded, in EventLog's words.
LEMMA RecordedIs == Log!Recorded = Ids(event)
BY DEF Log!Recorded, Ids

\* A step that records nothing may make one event and lose others.
LEMMA MakesOrLoses ==
  ASSUME ReportTypeOK, CopyInv, ReportTypeOK', CopyInv', UNCHANGED event,
         \/ UNCHANGED events /\ Copies' \subseteq Copies
         \/ /\ events' = events + 1
            /\ \E c \in Copies' : c.id = events + 1 /\ Copies' \subseteq Copies \cup {c}
  PROVE  Log!Next
<1> DEFINE newly == Gone' \ Gone
<1>0. events \in Nat /\ events' \in 0 .. MaxEvent
  BY ReportBounds DEF ReportTypeOK
<1>1. /\ Gone = 1 .. events \ {c.id : c \in Copies}
      /\ Gone' = 1 .. events' \ {c.id : c \in Copies'}
      /\ Gone' \cap Ids(event) = {}
  <2>1. (ReportTypeOK /\ CopyInv => Gone = 1 .. events \ {c.id : c \in Copies})'
    BY GoneIs, PTL
  <2> QED
    BY <2>1, GoneIs DEF Gone, Ids
<1>2. Gone \subseteq Gone'
  <2>1. CASE UNCHANGED events /\ Copies' \subseteq Copies
    BY <1>1, <2>1
  <2>2. CASE /\ events' = events + 1
             /\ \E c \in Copies' : c.id = events + 1 /\ Copies' \subseteq Copies \cup {c}
    BY <1>0, <1>1, <2>2
  <2> QED
    BY <2>1, <2>2
<1>3. /\ newly \subseteq (1 .. events)' \ (Log!Recorded \cup Gone)
      /\ Gone' = Gone \cup newly
  BY <1>1, <1>2, RecordedIs
<1>4. Log!Lose(newly)
  BY <1>3 DEF Log!Lose
<1>5. UNCHANGED [i \in DOMAIN event |-> event[i].id]
  OBVIOUS
<1>6. CASE UNCHANGED events
  <2>1. newly \in SUBSET (1 .. events)
    BY <1>1, <1>6
  <2> QED
    BY <1>4, <1>5, <1>6, <2>1 DEF Log!Next
<1>7. CASE events' = events + 1 /\ \E c \in Copies' : c.id = events + 1
  <2>1. newly \in SUBSET (1 .. events)
    BY <1>0, <1>1, <1>7
  <2>2. /\ events + 1 \in 1 .. MaxEvent /\ events + 1 \notin 1 .. events
        /\ 1 .. events' = (1 .. events) \cup {events + 1}
    BY <1>0, <1>7
  <2>3. Log!Make(events + 1)
    BY <1>5, <2>2 DEF Log!Make
  <2> QED
    BY <1>4, <2>1, <2>2, <2>3 DEF Log!Next
<1> QED
  BY <1>6, <1>7

\* The row the server adds is of an event it does not have yet.
LEMMA Records ==
  ASSUME ReportTypeOK, CopyInv, ReportTypeOK', CopyInv', AddEvent, event' # event
  PROVE  Log!Next
<1> DEFINE m == Head(net)
<1>1. /\ net # <<>> /\ net' = Tail(net) /\ event' = Append(event, m)
      /\ ~ \E i \in DOMAIN event : event[i].q = m.q
      /\ UNCHANGED <<ev_queue, sending, events>>
  BY DEF AddEvent, bike, flush, counts
<1>2. /\ m \in [id : 1 .. MaxEvent, q : Nat] /\ m = net[1]
      /\ DOMAIN net = 1 .. Len(net) /\ Len(net) \in Nat \ {0}
      /\ DOMAIN net' = 1 .. Len(net) - 1
      /\ \A i \in DOMAIN net' : net'[i] = net[i + 1] /\ i + 1 \in DOMAIN net
  BY <1>1, TakeFirst DEF ReportTypeOK
<1> HIDE DEF m
<1>3. /\ DOMAIN event = 1 .. Len(event) /\ Len(event) \in Nat
      /\ DOMAIN event' = 1 .. Len(event) + 1
      /\ \A i \in DOMAIN event : event'[i] = event[i]
      /\ event'[Len(event) + 1] = m
  <2>1. event \in Seq([id : 1 .. MaxEvent, q : Nat])
    BY DEF ReportTypeOK
  <2> QED
    BY <1>1, <1>2, <2>1, AppendOne
<1>4. m \in Copies
  BY <1>2 DEF Copies
<1>5. m.id \in 1 .. events /\ m.id \in 1 .. MaxEvent
  BY <1>2, <1>4 DEF CopyInv
<1>6. m.id \notin Ids(event)
  <2>1. \A i \in DOMAIN event : event[i] \in Copies
    BY DEF Copies
  <2> QED
    BY <1>1, <1>4, <2>1 DEF Ids, CopyInv
<1>7. Copies' = Copies
  <2>1. {event'[i] : i \in DOMAIN event'} = {event[i] : i \in DOMAIN event} \cup {m}
    BY <1>3
  <2>2. {net[i] : i \in DOMAIN net} = {net'[i] : i \in DOMAIN net'} \cup {m}
    <3>1. \A i \in DOMAIN net : i = 1 \/ (i - 1 \in DOMAIN net' /\ net'[i - 1] = net[i])
      BY <1>2
    <3> QED
      BY <1>2, <3>1
  <2> QED
    BY <1>1, <2>1, <2>2 DEF Copies, Filled
<1>8. Gone' = Gone /\ m.id \notin Gone
  <2>1. /\ Gone = 1 .. events \ {c.id : c \in Copies}
        /\ Gone' = 1 .. events' \ {c.id : c \in Copies'}
    <3>1. (ReportTypeOK /\ CopyInv => Gone = 1 .. events \ {c.id : c \in Copies})'
      BY GoneIs, PTL
    <3> QED
      BY <3>1, GoneIs
  <2> QED
    BY <1>1, <1>4, <1>7, <2>1
<1>9. [i \in DOMAIN event |-> event[i].id]' = Append([i \in DOMAIN event |-> event[i].id], m.id)
  <2> DEFINE log == [i \in DOMAIN event |-> event[i].id]
  <2>1. log \in Seq(1 .. MaxEvent) /\ Len(log) = Len(event)
    <3>1. \A i \in DOMAIN event : event[i].id \in 1 .. MaxEvent
      <4>1. event \in Seq([id : 1 .. MaxEvent, q : Nat])
        BY DEF ReportTypeOK
      <4>2. \A i \in DOMAIN event : event[i] \in [id : 1 .. MaxEvent, q : Nat]
        BY <1>3, <4>1, ElementOfSeq
      <4> QED
        BY <4>2
    <3> QED
      BY <1>3, <3>1
  <2>2. /\ DOMAIN Append(log, m.id) = 1 .. Len(event) + 1
        /\ \A i \in DOMAIN event : Append(log, m.id)[i] = event[i].id
        /\ Append(log, m.id)[Len(event) + 1] = m.id
    BY <1>3, <1>5, <2>1, AppendOne
  <2>3. Append(log, m.id) \in Seq(1 .. MaxEvent)
    BY <1>5, <2>1, AppendOne
  <2> HIDE DEF log
  <2>4. \A i \in DOMAIN event' : event'[i].id = Append(log, m.id)[i]
    BY <1>3, <2>2
  <2>5. Append(log, m.id) = [i \in DOMAIN event' |-> Append(log, m.id)[i]]
    BY <1>3, <2>2, <2>3
  <2> QED
    BY <2>4, <2>5 DEF log
<1>10. PICK e \in 1 .. MaxEvent : e = m.id
  BY <1>5
<1>11. Log!Record(e)
  BY <1>1, <1>5, <1>6, <1>8, <1>9, <1>10, RecordedIs DEF Log!Record
<1> QED
  BY <1>11 DEF Log!Next

\* Every step is one of EventLog's, or none.
LEMMA StepLog ==
  ASSUME ReportTypeOK, IInv, FlushInv, CopyInv, [ReportNext]_rvars
  PROVE  [Log!Next]_(Log!vars)
<1>1. ReportTypeOK' /\ CopyInv'
  BY StepTypes, StepCopyInv
<1>2. CASE QueueEvent \/ QueueEventDone
  <2>1. PICK q \in Nat :
          Fill(q) /\ events' = events + 1 /\ UNCHANGED <<sending, net, event>>
    BY <1>2, GetsNumber DEF server
  <2>2. PICK s \in Slot :
          ev_queue' = [ev_queue EXCEPT ![s] = [id |-> events + 1, q |-> q]]
    BY <2>1, FillEffect
  <2> DEFINE new == [id |-> events + 1, q |-> q]
  <2>3. Copies' \subseteq Copies \cup {new}
    BY <2>1, <2>2 DEF Copies, Filled, ReportTypeOK
  <2>4. new \in Copies' /\ new.id = events + 1
    <3>1. ev_queue'[s] = new /\ new # NoEvent
      BY <2>2 DEF ReportTypeOK, NoEvent
    <3> QED
      BY <3>1 DEF Copies, Filled
  <2> HIDE DEF new
  <2> QED
    BY <1>1, <2>1, <2>3, <2>4, MakesOrLoses
<1>3. CASE AddEvent /\ event' # event
  BY <1>1, <1>3, Records
<1>4. CASE ~(QueueEvent \/ QueueEventDone) /\ ~(AddEvent /\ event' # event)
  <2>1. Copies' \subseteq Copies /\ UNCHANGED events
    BY <1>4, StepCopies
  <2>2. UNCHANGED event
    BY <1>4 DEF ReportNext, FlushGoesOn, Boot, QueueEventWaits, OtherMessage,
      OtherMessageDone, FlushBegins, SkipSlot, PublishBegins, Publish, PublishSendsAck,
      PublishFails, BikeOff, ServerRestart, server, rvars
  <2> QED
    BY <1>1, <2>1, <2>2, MakesOrLoses
<1> QED
  BY <1>2, <1>3, <1>4

\* At first the log is empty.
LEMMA InitLog ==
  ASSUME ReportInit
  PROVE  Log!Init
<1>1. events = 0 /\ event = <<>>
  BY DEF ReportInit
<1>2. 1 .. events = {} /\ [i \in DOMAIN event |-> event[i].id] = <<>>
  BY <1>1
<1>3. Gone = {}
  BY <1>2 DEF Gone
<1> QED
  BY <1>2, <1>3 DEF Log!Init

-----------------------------------------------------------------------------
(***************************************************************************)
(* The order of the table                                                  *)
(***************************************************************************)

\* What the conjuncts of OrderInv say is about numbers.
LEMMA Numbers ==
  ReportTypeOK /\ CopyInv =>
    /\ events \in Nat /\ at \in Nat /\ Slot \subseteq Nat
    /\ \A i \in Filled : i \in Slot /\ ev_queue[i] \in Copies
    /\ \A i \in DOMAIN net : net[i] \in Copies
    /\ \A i \in DOMAIN event : event[i] \in Copies
    /\ \A c \in Copies : c.id \in Nat /\ c.id <= events
<1> SUFFICES ASSUME ReportTypeOK, CopyInv
             PROVE  /\ events \in Nat /\ at \in Nat /\ Slot \subseteq Nat
                    /\ \A i \in Filled : i \in Slot /\ ev_queue[i] \in Copies
                    /\ \A i \in DOMAIN net : net[i] \in Copies
                    /\ \A i \in DOMAIN event : event[i] \in Copies
                    /\ \A c \in Copies : c.id \in Nat /\ c.id <= events
  OBVIOUS
<1>1. events \in Nat /\ at \in Nat /\ Slot \subseteq Nat
  BY ReportBounds DEF ReportTypeOK, Slot
<1>2. \A c \in Copies : c.id \in Nat /\ c.id <= events
  BY <1>1 DEF CopyInv
<1> QED
  BY <1>1, <1>2 DEF Filled, Copies

\* What is missed or crossed is so for good.
LEMMA MissedForGood ==
  ASSUME [ReportNext]_rvars, ~missed', ~crossed'
  PROVE  ~missed /\ ~crossed /\ ~PublishFails
<1>1. CASE QueueEvent \/ QueueEventDone
  <2> DEFINE some == \E i \in Slot : i < at /\ ev_queue[i] # NoEvent
  <2>1. missed' = (missed \/ Full) /\ crossed' = (crossed \/ some)
    BY <1>1 DEF QueueEvent, QueueEventDone, Fill
  <2>2. ~PublishFails
    BY <1>1 DEF PublishFails, QueueEvent, QueueEventDone
  <2> HIDE DEF some
  <2> QED
    BY <2>1, <2>2, Zenon
<1>2. CASE PublishFails
  BY <1>2, Zenon DEF PublishFails
<1>3. CASE UNCHANGED <<missed, crossed>> /\ ~PublishFails
  BY <1>3, Zenon
<1> QED
  BY <1>1, <1>2, <1>3 DEF ReportNext, FlushGoesOn, Boot, QueueEventWaits, OtherMessage,
    OtherMessageDone, FlushBegins, SkipSlot, PublishBegins, Publish, PublishSendsAck,
    BikeOff, AddEvent, ServerRestart, past, rvars

\* A new event goes behind all others.
LEMMA QueueOrders ==
  ASSUME ReportTypeOK, IInv, FlushInv, CopyInv, OrderInv, QueueEvent \/ QueueEventDone,
         ~missed', ~crossed'
  PROVE  OrderInv'
<1>1. PICK q \in Nat :
        /\ Fill(q) /\ events' = events + 1 /\ (at = 0 \/ sending # NoEvent)
        /\ UNCHANGED <<at, sending, net, event>>
  BY GetsNumber DEF server
<1>2. PICK s \in Slot :
        /\ ev_queue' = [ev_queue EXCEPT ![s] = [id |-> events + 1, q |-> q]]
        /\ s \notin Filled /\ \A j \in Slot : j < s => j \in Filled
        /\ \A j \in Slot : j < at => j \notin Filled
  BY <1>1, FillEffect
<1>3. /\ Filled' = Filled \cup {s}
      /\ ev_queue'[s].id = events + 1
      /\ \A i \in Filled : ev_queue'[i] = ev_queue[i] /\ i # s
  <2>1. [id |-> events + 1, q |-> q] # NoEvent
    BY DEF ReportTypeOK, NoEvent
  <2> QED
    BY <1>2, <2>1 DEF Filled, ReportTypeOK
<1>4. 1 \in Slot /\ \A i \in Slot : 1 <= i
  BY ReportBounds DEF Slot
<1>5. \/ s < at /\ s = 1
      \/ at <= s /\ \A i \in Filled : i < s
  <2>1. CASE s < at
    BY <1>2, <1>4, <2>1, Numbers
  <2>2. CASE at <= s
    <3> SUFFICES ASSUME NEW i \in Filled PROVE i < s
      BY <2>2
    <3>1. \A j \in Slot : at <= j /\ j <= i => j \in Filled
      BY Numbers DEF OrderInv, SlotsInv
    <3> QED
      BY <1>2, <2>2, <3>1, Numbers
  <2> QED
    BY <2>1, <2>2, Numbers
<1>6. SlotsInv'
  <2>1. sending # NoEvent => at \in Filled' /\ sending = ev_queue'[at]
    BY <1>3 DEF SlotsInv, OrderInv
  <2>2. \A i \in Slot : i < at /\ i \in Filled' => i = 1
    BY <1>2, <1>3, <1>5, Numbers
  <2>3. \A i \in Slot : i \in Filled' => \A j \in Slot : at <= j /\ j <= i => j \in Filled'
    <3> SUFFICES ASSUME NEW i \in Filled', NEW j \in Slot, at <= j, j <= i
                 PROVE  j \in Filled'
      OBVIOUS
    <3>1. CASE i \in Filled
      BY <1>3, <3>1, Numbers DEF SlotsInv, OrderInv
    <3>2. CASE i = s
      BY <1>2, <1>3, <3>2, Numbers
    <3> QED
      BY <1>3, <3>1, <3>2
  <2> QED
    BY <1>1, <2>1, <2>2, <2>3 DEF SlotsInv
<1>7. \A c \in Copies : c.id < events + 1
  BY Numbers
<1>8. \A i, j \in Filled' : at <= i /\ (i < j \/ j < at) => ev_queue'[i].id < ev_queue'[j].id
  <2> SUFFICES ASSUME NEW i \in Filled', NEW j \in Filled', at <= i, i < j \/ j < at
               PROVE  ev_queue'[i].id < ev_queue'[j].id
    OBVIOUS
  <2>1. CASE i \in Filled /\ j \in Filled
    BY <1>3, <2>1 DEF OrderInv
  <2>2. CASE i \in Filled /\ j = s
    BY <1>3, <1>7, <2>2, Numbers
  <2>3. CASE i = s /\ j \in Filled
    <3>1. ~(j < at)
      BY <1>2, <2>3, Numbers
    <3> QED
      BY <1>5, <2>3, <3>1, Numbers
  <2>4. CASE i = s /\ j = s
    BY <1>2, <2>4, Numbers
  <2> QED
    BY <1>3, <2>1, <2>2, <2>3, <2>4
<1>9. /\ \A i \in DOMAIN net : \A j \in Filled' : net[i].id < ev_queue'[j].id
      /\ \A i \in DOMAIN event : \A j \in Filled' : event[i].id < ev_queue'[j].id
  BY <1>3, <1>7, Numbers DEF OrderInv
<1>10. UNCHANGED <<at, net, event>>
  BY <1>1
<1> QED
  BY <1>6, <1>8, <1>9, <1>10 DEF OrderInv, Ordered

\* The event of the slot the flush is at is the one that is sent.
LEMMA BeginsInLine ==
  ASSUME OrderInv, PublishBegins
  PROVE  OrderInv'
<1>1. /\ at \in Filled /\ sending' = ev_queue[at]
      /\ UNCHANGED <<ev_queue, at, net, event>>
  BY DEF PublishBegins, Filled, server
<1>2. Filled' = Filled
  BY <1>1 DEF Filled
<1> QED
  BY <1>1, <1>2 DEF OrderInv, SlotsInv, Ordered

\* The event that is sent is the oldest of the queue.
LEMMA PublishOrders ==
  ASSUME ReportTypeOK, FlushInv, CopyInv, OrderInv, Publish \/ PublishSendsAck
  PROVE  OrderInv'
<1>1. /\ sending # NoEvent /\ at \in Filled /\ ev_queue' = [ev_queue EXCEPT ![at] = NoEvent]
      /\ net' \in {net, Append(net, ev_queue[at]), net \o <<ev_queue[at], ev_queue[at]>>}
      /\ NextSlot /\ sending' = NoEvent /\ UNCHANGED event
  <2>1. PublishSteps /\ ev_queue' = [ev_queue EXCEPT ![at] = NoEvent]
    BY PublishIs DEF Publish, PublishSendsAck, FreeSlot
  <2>2. /\ sending # NoEvent /\ NextSlot /\ sending' = NoEvent /\ UNCHANGED event
        /\ net' \in {net, Append(net, sending), net \o <<sending, sending>>}
    BY <2>1 DEF PublishSteps
  <2>3. at \in Filled /\ sending = ev_queue[at]
    BY <2>2 DEF OrderInv, SlotsInv
  <2> QED
    BY <2>1, <2>2, <2>3
<1>2. Filled' = Filled \ {at} /\ \A i \in Filled' : ev_queue'[i] = ev_queue[i]
  BY <1>1 DEF Filled, ReportTypeOK
<1>3. \A i \in Filled' : ev_queue[at].id < ev_queue'[i].id
  BY <1>1, <1>2, Numbers DEF OrderInv
<1>4. \A i \in Filled' : i < at => i = 1
  BY <1>2, Numbers DEF OrderInv, SlotsInv
<1>5. \A i \in Filled' : at < i => \A j \in Slot : at < j /\ j <= i => j \in Filled'
  BY <1>2, Numbers DEF OrderInv, SlotsInv
<1>6. at \in Slot /\ Slot = 1 .. EVENT_QUEUE_SIZE /\ EVENT_QUEUE_SIZE \in Nat
  BY <1>1, ReportBounds, Numbers DEF Slot
<1>7. \/ at' = at + 1
      \/ at' = 0 /\ at = EVENT_QUEUE_SIZE
  <2>1. CASE at < EVENT_QUEUE_SIZE
    BY <1>1, <2>1 DEF NextSlot
  <2>2. CASE at = EVENT_QUEUE_SIZE
    BY <1>1, <1>6, <2>2 DEF NextSlot
  <2> QED
    BY <1>6, <2>1, <2>2
<1>8. SlotsInv'
  <2>1. \A i \in Filled' : i \in Slot /\ i # at
    BY <1>2, Numbers
  <2>2. \A i \in Filled' : i < at' => i = 1
    BY <1>4, <1>6, <1>7, <2>1
  <2>3. \A i \in Filled' : \A j \in Slot : at' <= j /\ j <= i => j \in Filled'
    <3>1. CASE at' = at + 1
      BY <1>5, <1>6, <2>1, <3>1
    <3>2. CASE at' = 0 /\ at = EVENT_QUEUE_SIZE
      <4>1. \A i \in Filled' : i = 1
        BY <1>4, <1>6, <2>1, <3>2
      <4> QED
        BY <1>6, <4>1
    <3> QED
      BY <1>7, <3>1, <3>2
  <2> QED
    BY <1>1, <2>2, <2>3 DEF SlotsInv
<1>9. \A i, j \in Filled' : at' <= i /\ (i < j \/ j < at') => ev_queue'[i].id < ev_queue'[j].id
  <2> SUFFICES ASSUME NEW i \in Filled', NEW j \in Filled', at' <= i, i < j \/ j < at'
               PROVE  ev_queue'[i].id < ev_queue'[j].id
    OBVIOUS
  <2>1. i \in Slot /\ j \in Slot /\ i \in Filled /\ j \in Filled /\ i # at /\ j # at
    BY <1>2, Numbers
  <2>2. CASE at' = at + 1
    BY <1>2, <1>6, <2>1, <2>2 DEF OrderInv
  <2>3. CASE at' = 0 /\ at = EVENT_QUEUE_SIZE
    BY <1>4, <1>6, <2>1, <2>3
  <2> QED
    BY <1>7, <2>2, <2>3
<1>10. /\ DOMAIN net = 1 .. Len(net) /\ Len(net) \in Nat
      /\ \E n \in Nat : DOMAIN net' = 1 .. n
      /\ \A i \in DOMAIN net' : IF i \in DOMAIN net THEN net'[i] = net[i] ELSE net'[i] = ev_queue[at]
  <2>1. net \in Seq([id : 1 .. MaxEvent, q : Nat])
    BY DEF ReportTypeOK
  <2>2. ev_queue[at] \in [id : 1 .. MaxEvent, q : Nat]
    BY <1>1, SlotHolds DEF Filled
  <2>5. CASE net' = net
    BY <2>1, <2>5
  <2>3. CASE net' = Append(net, ev_queue[at])
    <3>1. Len(net) + 1 \in Nat
      BY <2>1
    <3> QED
      BY <2>1, <2>2, <2>3, <3>1, AppendOne
  <2>4. CASE net' = net \o <<ev_queue[at], ev_queue[at]>>
    <3> DEFINE two == net \o <<ev_queue[at], ev_queue[at]>>
    <3>1. /\ DOMAIN two = 1 .. Len(net) + 2 /\ DOMAIN net = 1 .. Len(net)
          /\ Len(net) \in Nat /\ \A i \in DOMAIN net : two[i] = net[i]
          /\ two[Len(net) + 1] = ev_queue[at] /\ two[Len(net) + 2] = ev_queue[at]
      BY <2>1, <2>2, AppendTwo
    <3> HIDE DEF two
    <3>2. /\ Len(net) + 2 \in Nat
          /\ \A i \in DOMAIN two : IF i \in DOMAIN net THEN two[i] = net[i]
                                   ELSE two[i] = ev_queue[at]
      BY <3>1
    <3> QED
      BY <2>4, <3>1, <3>2 DEF two
  <2> QED
    BY <1>1, <2>3, <2>4, <2>5
<1>11. /\ \A i \in DOMAIN net' : \A j \in Filled' : net'[i].id < ev_queue'[j].id
      /\ \A i \in DOMAIN event : \A j \in Filled' : event[i].id < ev_queue'[j].id
  BY <1>2, <1>3, <1>10 DEF OrderInv
<1>12. \A i \in DOMAIN event : \A j \in DOMAIN net' : event[i].id <= net'[j].id
  BY <1>1, <1>10, Numbers DEF OrderInv
<1>13. \A i, j \in DOMAIN net' : i < j => net'[i].id <= net'[j].id
  <2> SUFFICES ASSUME NEW i \in DOMAIN net', NEW j \in DOMAIN net', i < j
               PROVE  net'[i].id <= net'[j].id
    OBVIOUS
  <2>1. CASE j \in DOMAIN net
    <3>1. i \in DOMAIN net
      BY <1>10, <2>1
    <3> QED
      BY <1>10, <2>1, <3>1 DEF OrderInv
  <2>2. CASE j \notin DOMAIN net
    BY <1>1, <1>10, <2>2, Numbers DEF OrderInv
  <2> QED
    BY <2>1, <2>2
<1>14. Ordered'
  BY <1>1 DEF OrderInv, Ordered
<1> QED
  BY <1>1, <1>8, <1>9, <1>11, <1>12, <1>13, <1>14 DEF OrderInv

\* The row that is added is of the newest event of the table.
LEMMA AddOrders ==
  ASSUME ReportTypeOK, CopyInv, OrderInv, AddEvent
  PROVE  OrderInv'
<1> DEFINE m == Head(net)
<1>1. /\ net # <<>> /\ net' = Tail(net)
      /\ event' = event \/ (event' = Append(event, m) /\ \A i \in DOMAIN event : event[i].q # m.q)
      /\ UNCHANGED <<ev_queue, at, sending>>
  BY DEF AddEvent, bike, flush
<1>2. /\ m = net[1] /\ m \in [id : 1 .. MaxEvent, q : Nat]
      /\ DOMAIN net = 1 .. Len(net) /\ Len(net) \in Nat \ {0} /\ 1 \in DOMAIN net
      /\ DOMAIN net' = 1 .. Len(net) - 1
      /\ \A i \in DOMAIN net' : net'[i] = net[i + 1] /\ i + 1 \in DOMAIN net
  <2>1. net \in Seq([id : 1 .. MaxEvent, q : Nat])
    BY DEF ReportTypeOK
  <2> QED
    BY <1>1, <2>1, TakeFirst
<1> HIDE DEF m
<1>3. /\ DOMAIN event = 1 .. Len(event) /\ Len(event) \in Nat
      /\ event' # event => /\ DOMAIN event' = 1 .. Len(event) + 1
                           /\ \A i \in DOMAIN event : event'[i] = event[i]
                           /\ event'[Len(event) + 1] = m
                           /\ \A i \in DOMAIN event : event[i].q # m.q
  <2>1. event \in Seq([id : 1 .. MaxEvent, q : Nat])
    BY DEF ReportTypeOK
  <2>2. CASE event' = event
    BY <2>1, <2>2
  <2>3. CASE event' = Append(event, m) /\ \A i \in DOMAIN event : event[i].q # m.q
    BY <1>2, <2>1, <2>3, AppendOne
  <2> QED
    BY <1>1, <2>2, <2>3
<1>4. /\ \A i \in DOMAIN event : event[i].id \in Nat /\ event[i].id <= m.id
      /\ m.id \in Nat
  BY <1>2, Numbers DEF OrderInv
<1>5. event' # event => \A i \in DOMAIN event : event[i].id < m.id
  <2> SUFFICES ASSUME event' # event, NEW i \in DOMAIN event
               PROVE  event[i].id < m.id
    OBVIOUS
  <2>1. event[i] \in Copies /\ m \in Copies /\ event[i].q # m.q
    BY <1>2, <1>3, Numbers
  <2>2. event[i].id # m.id
    BY <2>1 DEF CopyInv
  <2> QED
    BY <1>4, <2>2
<1>6. SlotsInv' /\ Filled' = Filled
  BY <1>1 DEF OrderInv, SlotsInv, Filled
<1>7. \A i, j \in DOMAIN net' : i < j => net'[i].id <= net'[j].id
  BY <1>2 DEF OrderInv
<1>8. \A j \in DOMAIN net' : m.id <= net'[j].id
  BY <1>2 DEF OrderInv
<1>9. \A i \in DOMAIN net' : \A j \in Filled : net'[i].id < ev_queue[j].id
  BY <1>2 DEF OrderInv
<1>10. \A j \in Filled : m.id < ev_queue[j].id
  BY <1>2 DEF OrderInv
<1>11. \A i \in DOMAIN event : \A j \in DOMAIN net' : event[i].id <= net'[j].id
  BY <1>2 DEF OrderInv
<1>12. \A i \in DOMAIN event' : i \notin DOMAIN event => event'[i] = m /\ i = Len(event) + 1
  BY <1>3
<1>13. \A i \in DOMAIN event : event'[i] = event[i]
  BY <1>3
<1>14. \A i \in DOMAIN event' : \A j \in Filled : event'[i].id < ev_queue[j].id
  BY <1>10, <1>12, <1>13 DEF OrderInv
<1>15. \A i \in DOMAIN event' : \A j \in DOMAIN net' : event'[i].id <= net'[j].id
  BY <1>8, <1>11, <1>12, <1>13
<1>16. \A i, j \in DOMAIN event' : i < j => event'[i].id < event'[j].id
  <2> SUFFICES ASSUME NEW i \in DOMAIN event', NEW j \in DOMAIN event', i < j
               PROVE  event'[i].id < event'[j].id
    OBVIOUS
  <2>1. CASE j \in DOMAIN event
    <3>1. i \in DOMAIN event
      BY <1>3, <2>1
    <3> QED
      BY <1>13, <2>1, <3>1 DEF OrderInv, Ordered
  <2>2. CASE j \notin DOMAIN event
    <3>1. event' # event /\ event'[j] = m /\ i \in DOMAIN event
      BY <1>3, <1>12, <2>2
    <3> QED
      BY <1>5, <1>13, <3>1
  <2> QED
    BY <2>1, <2>2
<1> QED
  BY <1>1, <1>6, <1>7, <1>9, <1>14, <1>15, <1>16 DEF OrderInv, Ordered

\* As long as nothing is missed or crossed every step keeps the line.
LEMMA StepOrderInv ==
  ASSUME ReportTypeOK, IInv, FlushInv, CopyInv, ~missed /\ ~crossed => OrderInv,
         [ReportNext]_rvars, ~missed', ~crossed'
  PROVE  OrderInv'
<1>1. OrderInv /\ ~PublishFails
  BY MissedForGood
<1>2. CASE Besides
  <2>1. /\ UNCHANGED <<ev_queue, sending, net, event>>
        /\ \/ at' = at
           \/ at = 0 /\ at' = 1 /\ sending = NoEvent
           \/ at \in Slot \ Filled /\ sending = NoEvent /\ NextSlot
    BY <1>2, StepsBesidesTheEvents DEF server
  <2>2. Filled' = Filled
    BY <2>1 DEF Filled
  <2>3. /\ SlotsInv'
        /\ \A i, j \in Filled : at' <= i /\ (i < j \/ j < at') => ev_queue[i].id < ev_queue[j].id
    <3>1. Slot = 1 .. EVENT_QUEUE_SIZE /\ EVENT_QUEUE_SIZE \in Nat /\ Filled \subseteq Slot
      BY ReportBounds DEF Slot, Filled
    <3>2. CASE at' = at
      BY <1>1, <2>1, <2>2, <3>2 DEF OrderInv, SlotsInv
    <3>3. CASE at = 0 /\ at' = 1 /\ sending = NoEvent
      BY <1>1, <2>1, <2>2, <3>1, <3>3 DEF OrderInv, SlotsInv
    <3>4. CASE at \in Slot \ Filled /\ sending = NoEvent /\ NextSlot
      <4>1. \A i \in Filled : i < at /\ i = 1
        BY <1>1, <3>1, <3>4 DEF OrderInv, SlotsInv
      <4>2. at' = at + 1 \/ at' = 0
        BY <3>4 DEF NextSlot
      <4>3. \A i \in Filled : i < at' => i = 1
        BY <4>1
      <4>4. \A i \in Filled : \A j \in Slot : at' <= j /\ j <= i => j = i
        BY <3>1, <3>4, <4>1, <4>2
      <4>5. SlotsInv'
        BY <2>1, <2>2, <3>4, <4>3, <4>4 DEF SlotsInv
      <4>6. \A i, j \in Filled : ~(i < j) /\ (at' <= i => ~(j < at'))
        BY <3>1, <3>4, <4>1, <4>2
      <4> QED
        BY <4>5, <4>6
    <3> QED
      BY <2>1, <3>2, <3>3, <3>4
  <2> QED
    BY <1>1, <2>1, <2>2, <2>3 DEF OrderInv, Ordered
<1>3. CASE QueueEvent \/ QueueEventDone
  BY <1>1, <1>3, QueueOrders
<1>4. CASE PublishBegins
  BY <1>1, <1>4, BeginsInLine
<1>5. CASE Publish \/ PublishSendsAck
  BY <1>1, <1>5, PublishOrders
<1>6. CASE BikeOff
  <2>1. Filled' = {} /\ at' = 0 /\ sending' = NoEvent /\ UNCHANGED <<net, event>>
    BY <1>6 DEF BikeOff, Filled, server
  <2> QED
    BY <1>1, <2>1 DEF OrderInv, SlotsInv, Ordered
<1>7. CASE AddEvent
  BY <1>1, <1>7, AddOrders
<1>8. CASE ServerRestart
  <2>1. UNCHANGED <<ev_queue, at, sending, event>> /\ DOMAIN net' = {}
    BY <1>8 DEF ServerRestart, bike, flush
  <2>2. Filled' = Filled
    BY <2>1 DEF Filled
  <2> QED
    BY <1>1, <2>1, <2>2 DEF OrderInv, SlotsInv, Ordered
<1> QED
  BY <1>1, <1>2, <1>3, <1>4, <1>5, <1>6, <1>7, <1>8, StepCases

-----------------------------------------------------------------------------
(***************************************************************************)
(* The ways in which events are lost                                       *)
(***************************************************************************)

\* The events in a slot, on their way or in the table.  That a publish was
\* called with is in a slot as well, unless a newer one has taken it.
Alive == {ev_queue[i].id : i \in Filled} \cup Ids(net) \cup Ids(event)

\* What is there before a step is there after it, or is lost by name.
LEMMA StepAlive ==
  ASSUME ReportTypeOK, IInv, FlushInv, CopyInv, [ReportNext]_rvars, ~failed'
  PROVE  Alive \subseteq Alive' \cup lost' /\ lost \subseteq lost'
<1> USE DEF Alive, Filled, Ids
<1>0. ~failed
  BY StepSeqNo, GivenOutForGood
<1>1. CASE Besides
  BY <1>1, StepsBesidesTheEvents DEF server, past
<1>2. CASE QueueEvent \/ QueueEventDone
  <2>1. PICK q \in Nat :
          Fill(q) /\ events' = events + 1 /\ UNCHANGED <<sending, net, event>>
    BY <1>2, GetsNumber DEF server
  <2> DEFINE s == SlotForNew
  <2>2. /\ ev_queue' = [ev_queue EXCEPT ![s] = [id |-> events + 1, q |-> q]]
        /\ lost' = IF Full THEN lost \cup {ev_queue[s].id} ELSE lost
        /\ s \in Slot /\ (~Full => ev_queue[s] = NoEvent)
    BY <2>1, SlotForNewIsFree DEF Fill
  <2> HIDE DEF s
  <2>3. \A i \in Slot : i # s => ev_queue'[i] = ev_queue[i]
    BY <2>2 DEF ReportTypeOK
  <2>4. \A i \in Filled : ev_queue[i].id \in Alive' \cup lost'
    BY <2>2, <2>3
  <2> QED
    BY <2>1, <2>2, <2>4
<1>3. CASE PublishBegins
  BY <1>3 DEF PublishBegins, server, past
<1>4. CASE Publish
  <2>1. PublishSteps /\ FreeSlot /\ net' \in {Append(net, sending), net \o <<sending, sending>>}
    BY <1>4, PublishIs DEF Publish
  <2>2. /\ net \in Seq([id : 1 .. MaxEvent, q : Nat])
        /\ sending \in [id : 1 .. MaxEvent, q : Nat]
    BY <2>1, SendingHolds DEF PublishSteps, ReportTypeOK
  <2>3. /\ \E i \in DOMAIN net' : net'[i] = sending
        /\ \A i \in DOMAIN net : i \in DOMAIN net' /\ net'[i] = net[i]
    <3>1. CASE net' = Append(net, sending)
      <4>1. Len(net) + 1 \in DOMAIN net' /\ net'[Len(net) + 1] = sending
        BY <2>2, <3>1, AppendOne
      <4> QED
        BY <2>2, <3>1, <4>1, AppendOne
    <3>2. CASE net' = net \o <<sending, sending>>
      <4> DEFINE two == net \o <<sending, sending>>
                 n == Len(net)
      <4>1. /\ DOMAIN two = 1 .. n + 2 /\ DOMAIN net = 1 .. n /\ n \in Nat
            /\ \A i \in DOMAIN net : two[i] = net[i]
            /\ two[n + 1] = sending
        BY <2>2, AppendTwo
      <4> HIDE DEF two, n
      <4>2. n + 1 \in DOMAIN two /\ \A i \in DOMAIN net : i \in DOMAIN two
        BY <4>1
      <4>3. net' = two
        BY <3>2 DEF two
      <4> QED
        BY <4>1, <4>2, <4>3
    <3> QED
      BY <2>1, <3>1, <3>2
  <2>4. \A i \in Slot : i # at => ev_queue'[i] = ev_queue[i]
    BY <2>1 DEF FreeSlot, ReportTypeOK
  <2>5. sending.id \in Alive'
    BY <2>3
  <2>6. \A i \in Filled : ev_queue[i].id \in Alive' \cup lost'
    BY <2>1, <2>4, <2>5 DEF FreeSlot
  <2>7. \A i \in DOMAIN net : net[i].id \in Alive'
    BY <2>3
  <2>8. \A i \in DOMAIN event : event[i].id \in Alive'
    BY <2>1 DEF PublishSteps
  <2> QED
    BY <2>1, <2>5, <2>6, <2>7, <2>8 DEF FreeSlot
<1>5. CASE PublishSendsAck
  <2>1. /\ ev_queue' = [ev_queue EXCEPT ![at] = NoEvent]
        /\ lost' = lost \cup {ev_queue[at].id, sending.id}
        /\ UNCHANGED <<net, event>>
    BY <1>5 DEF PublishSendsAck, server
  <2>2. \A i \in Slot : i # at => ev_queue'[i] = ev_queue[i]
    BY <2>1 DEF ReportTypeOK
  <2> QED
    BY <2>1, <2>2
<1>6. CASE PublishFails
  <2>1. /\ sending # NoEvent /\ sending' = NoEvent /\ at \in Slot
        /\ net' \in {net, Append(net, sending)}
        /\ UNCHANGED <<ev_queue, event, lost>>
    BY <1>6 DEF PublishFails, PublishEnds, FlushInv
  <2>2. /\ net \in Seq([id : 1 .. MaxEvent, q : Nat])
        /\ sending \in [id : 1 .. MaxEvent, q : Nat]
    BY <2>1, SendingHolds DEF ReportTypeOK
  <2>3. \A i \in DOMAIN net : i \in DOMAIN net' /\ net'[i] = net[i]
    <3>1. CASE net' = net
      BY <3>1
    <3>2. CASE net' = Append(net, sending)
      BY <2>2, <3>2, AppendOne
    <3> QED
      BY <2>1, <3>1, <3>2
  <2> QED
    BY <2>1, <2>3
<1>7. CASE BikeOff
  <2>1. lost' = lost \cup Queued \cup ({sending.id} \ {0}) /\ UNCHANGED <<net, event>>
    BY <1>7 DEF BikeOff, server
  <2>2. \A i \in Filled : ev_queue[i].id \in Queued
    <3>1. \A i \in Filled : ev_queue[i].id # 0
      BY DEF CopyInv, Copies
    <3> QED
      BY <3>1 DEF Queued
  <2> QED
    BY <2>1, <2>2
<1>8. CASE AddEvent
  <2> DEFINE m == Head(net)
  <2>1. /\ net # <<>> /\ net' = Tail(net)
        /\ event' = IF \E i \in DOMAIN event : event[i].q = m.q
                    THEN event ELSE Append(event, m)
        /\ UNCHANGED <<ev_queue, sending, lost>>
    BY <1>8 DEF AddEvent, bike, flush, past
  <2>2. net \in Seq([id : 1 .. MaxEvent, q : Nat]) /\ event \in Seq([id : 1 .. MaxEvent, q : Nat])
    BY DEF ReportTypeOK
  <2>3. /\ m \in [id : 1 .. MaxEvent, q : Nat] /\ m = net[1] /\ 1 \in DOMAIN net
        /\ DOMAIN net = 1 .. Len(net) /\ Len(net) \in Nat
        /\ DOMAIN net' = 1 .. Len(net) - 1
        /\ \A i \in DOMAIN net' : net'[i] = net[i + 1]
    BY <2>1, <2>2, TakeFirst
  <2> HIDE DEF m
  <2>4. \A i \in DOMAIN event : event[i].id \in Ids(event')
    <3>1. CASE event' = Append(event, m)
      <4>1. \A i \in DOMAIN event : i \in DOMAIN event' /\ event'[i] = event[i]
        BY <2>2, <2>3, <3>1, AppendOne
      <4> QED
        BY <4>1
    <3>2. CASE event' = event
      BY <3>2
    <3> QED
      BY <2>1, <3>1, <3>2
  <2>5. m.id \in Ids(event')
    <3>1. CASE \E i \in DOMAIN event : event[i].q = m.q
      <4>1. PICK i \in DOMAIN event : event[i].q = m.q
        BY <3>1
      <4>2. event[i] = m
        BY <1>0, <2>3, <4>1 DEF CopyInv, Copies
      <4> QED
        BY <2>4, <4>1, <4>2
    <3>2. CASE event' = Append(event, m)
      <4>1. event'[Len(event) + 1] = m /\ Len(event) + 1 \in DOMAIN event'
        BY <2>2, <2>3, <3>2, AppendOne
      <4> QED
        BY <4>1
    <3> QED
      BY <2>1, <3>1, <3>2
  <2>6. \A i \in DOMAIN net : i = 1 \/ (i - 1 \in DOMAIN net' /\ net'[i - 1] = net[i])
    BY <2>3
  <2>7. \A i \in DOMAIN net : net[i].id \in Ids(net') \cup Ids(event')
    BY <2>3, <2>5, <2>6
  <2>8. \A i \in Filled : i \in Filled' /\ ev_queue'[i] = ev_queue[i]
    BY <2>1
  <2>9. \A i \in Filled : ev_queue[i].id \in Alive'
    BY <2>8
  <2>10. Ids(net') \subseteq Alive' /\ Ids(event') \subseteq Alive'
    BY DEF Ids
  <2>11. Ids(net) \subseteq Alive' /\ Ids(event) \subseteq Alive'
    BY <2>4, <2>7, <2>10
  <2>12. lost \subseteq lost'
    BY <2>1
  <2> HIDE DEF Filled, Ids
  <2> QED
    BY <2>9, <2>11, <2>12
<1>9. CASE ServerRestart
  BY <1>9 DEF ServerRestart, bike, flush, Ids
<1> QED
  BY <1>1, <1>2, <1>3, <1>4, <1>5, <1>6, <1>7, <1>8, <1>9, StepCases

-----------------------------------------------------------------------------
(***************************************************************************)
(* Theorems                                                                *)
(***************************************************************************)

\* The invariant holds throughout.
LEMMA Always == ReportSpec => []ReportInv
<1>1. ReportInit => ReportInv
  BY InitReport DEF ReportInv
<1>2. ReportInv /\ [ReportNext]_rvars => ReportInv'
  <2> SUFFICES ASSUME ReportInv, [ReportNext]_rvars
               PROVE  ReportInv'
    OBVIOUS
  <2>1. IInv'
    BY StepSeqNo, StepIInv DEF ReportInv
  <2> QED
    BY <2>1, StepTypes, StepFlushInv, StepCopyInv, StepOrderInv DEF ReportInv
<1> QED
  BY <1>1, <1>2, PTL DEF ReportSpec

\* Every reachable state is well typed.
THEOREM ReportTyped == ReportSpec => []ReportTypeOK
<1>1. ReportInv => ReportTypeOK
  BY DEF ReportInv
<1> QED
  BY Always, <1>1, PTL

\* In the whole system, too, no number is given out twice as long as flash has
\* not failed, and never twice within one boot.
THEOREM OneNumberEach == ReportSpec => [](NeverReused /\ NeverRepeatedInBoot)
<1>1. ReportInv => NeverReused /\ NeverRepeatedInBoot
  BY DEF ReportInv, IInv, BootInv
<1> QED
  BY Always, <1>1, PTL

\* Bike, network and server together make every event once, record it at most
\* once and bring back nothing that is gone, whatever fails.
THEOREM Refines == ReportSpec => Implements
<1>1. ReportInit => Log!Init
  BY InitLog
<1>2. ReportInv /\ [ReportNext]_rvars => [Log!Next]_(Log!vars)
  BY StepLog DEF ReportInv
<1> QED
  BY Always, <1>1, <1>2, PTL DEF ReportSpec, Implements, Log!Spec

\* As long as flash has not failed, the server ignores only what it has.
THEOREM IgnoresOnlyWhatItHas == ReportSpec => NothingSwallowed
<1> DEFINE Stored == ~failed /\ net # <<>> /\ net' = Tail(net) /\ UNCHANGED faults
                       => Head(net).id \in Ids(event')
<1>1. ReportInv /\ [ReportNext]_rvars => [Stored]_rvars
  <2> SUFFICES ASSUME ReportInv, [ReportNext]_rvars, ~failed,
                      net # <<>>, net' = Tail(net), UNCHANGED faults
               PROVE  Head(net).id \in Ids(event')
    OBVIOUS
  <2> DEFINE m == Head(net)
  <2>1. /\ m \in [id : 1 .. MaxEvent, q : Nat] /\ m = net[1] /\ 1 \in DOMAIN net
        /\ Len(net) \in Nat \ {0} /\ Len(Tail(net)) = Len(net) - 1
    <3>1. net \in Seq([id : 1 .. MaxEvent, q : Nat])
      BY DEF ReportInv, ReportTypeOK
    <3>2. /\ m \in [id : 1 .. MaxEvent, q : Nat] /\ m = net[1] /\ 1 \in DOMAIN net
          /\ Len(net) \in Nat \ {0}
      BY <3>1, TakeFirst
    <3>3. Len(Tail(net)) = Len(net) - 1
      BY <3>1, HeadTailProperties
    <3> QED
      BY <3>2, <3>3
  <2>2. AddEvent
    <3>1. net' # net
      <4> DEFINE n == Len(net)
                 t == Len(Tail(net))
      <4>1. n \in Nat /\ t = n - 1
        BY <2>1
      <4> HIDE DEF n, t
      <4>2. t # n
        BY <4>1
      <4> QED
        BY <4>2, Zenon DEF n, t
    <3>2. ~(Publish \/ PublishSendsAck \/ PublishFails)
      <4>1. SUFFICES ASSUME Publish \/ PublishSendsAck \/ PublishFails PROVE FALSE
        OBVIOUS
      <4>0. /\ sending # NoEvent
            /\ net' \in {net, Append(net, sending), net \o <<sending, sending>>}
        BY <4>1, PublishIs DEF PublishSteps, ReportInv
      <4>2. sending \in [id : 1 .. MaxEvent, q : Nat]
        BY <4>0, SendingHolds DEF ReportInv
      <4>3. net \in Seq([id : 1 .. MaxEvent, q : Nat])
        BY DEF ReportInv, ReportTypeOK
      <4>4. Len(net') >= Len(net)
        BY <4>0, <4>2, <4>3
      <4> QED
        BY <2>1, <4>4
    <3>3. ~ServerRestart
      BY DEF ServerRestart, Fault, ReportInv, ReportTypeOK
    <3> QED
      BY <3>1, <3>2, <3>3 DEF ReportNext, FlushGoesOn, Boot, QueueEvent, QueueEventWaits,
        QueueEventDone, OtherMessage, OtherMessageDone, FlushBegins, SkipSlot,
        PublishBegins, BikeOff, server, rvars
  <2>3. CASE \E i \in DOMAIN event : event[i].q = m.q
    <3>1. PICK i \in DOMAIN event : event[i].q = m.q
      BY <2>3
    <3>2. event[i] \in Copies /\ m \in Copies
      BY <2>1 DEF Copies
    <3>3. event[i] = m
      BY <3>1, <3>2 DEF ReportInv, CopyInv
    <3> QED
      BY <2>2, <2>3, <3>3 DEF AddEvent, Ids
  <2>4. CASE ~ \E i \in DOMAIN event : event[i].q = m.q
    <3>1. event \in Seq([id : 1 .. MaxEvent, q : Nat])
      BY DEF ReportInv, ReportTypeOK
    <3>2. event' = Append(event, m)
      BY <2>2, <2>4 DEF AddEvent
    <3>3. event'[Len(event) + 1] = m /\ Len(event) + 1 \in DOMAIN event'
      BY <2>1, <3>1, <3>2, AppendOne
    <3> QED
      BY <3>3 DEF Ids
  <2> QED
    BY <2>3, <2>4
<1> QED
  BY Always, <1>1, PTL DEF ReportSpec, NothingSwallowed

\* As long as no publish failed, the queue was never full and no flush took in
\* a second event while one waited behind it, the table is in the order of the
\* events: with remote unlocks queued inside publishes, acks sent in place of
\* events, and power and the server's process lost at any time.
THEOREM TableInOrder == ReportSpec => []InOrder
<1>1. ReportInv => InOrder
  BY DEF ReportInv, OrderInv, InOrder
<1> QED
  BY Always, <1>1, PTL

\* Every event is queued, on its way, in the table or lost in one of the ways
\* that Arrives names, as long as flash has not failed.
THEOREM LossesHaveNames == ReportSpec => []LossesNamed
<1> DEFINE Accounted == ~failed => 1 .. events \subseteq Alive \cup lost
<1>1. ReportInit => Accounted
  BY DEF ReportInit
<1>2. ReportInv /\ ReportInv' /\ [ReportNext]_rvars /\ Accounted => Accounted'
  <2> SUFFICES ASSUME ReportInv, ReportInv', [ReportNext]_rvars, Accounted, ~failed'
               PROVE  1 .. events' \subseteq Alive' \cup lost'
    OBVIOUS
  <2>1. ~failed
    BY StepSeqNo, GivenOutForGood
  <2>2. Alive \subseteq Alive' \cup lost' /\ lost \subseteq lost'
    BY StepAlive DEF ReportInv
  <2>3. events \in Nat
    BY ReportBounds DEF ReportInv, ReportTypeOK
  <2>4. CASE UNCHANGED events
    BY <2>1, <2>2, <2>4
  <2>5. CASE QueueEvent \/ QueueEventDone
    <3>1. PICK q \in Nat : Fill(q) /\ events' = events + 1
      BY <2>5, GetsNumber DEF ReportInv
    <3>2. PICK s \in Slot :
            ev_queue' = [ev_queue EXCEPT ![s] = [id |-> events + 1, q |-> q]]
      BY <3>1, FillEffect DEF ReportInv
    <3>3. ev_queue'[s].id = events + 1 /\ ev_queue'[s] # NoEvent
      BY <2>3, <3>2 DEF ReportInv, ReportTypeOK, NoEvent
    <3>4. events + 1 \in Alive'
      BY <3>3 DEF Alive, Filled
    <3>5. 1 .. events' \subseteq 1 .. events \cup {events + 1}
      BY <2>3, <3>1
    <3> QED
      BY <2>1, <2>2, <3>4, <3>5
  <2> QED
    BY <2>4, <2>5, StepCopies DEF ReportInv
<1>3. ReportInv /\ Accounted => LossesNamed
  <2> SUFFICES ASSUME ReportInv, Accounted, ~failed PROVE Gone \subseteq lost
    BY DEF LossesNamed
  <2>1. \A i \in Filled : ev_queue[i].id \in Queued
    <3>1. \A i \in Filled : ev_queue[i].id # 0
      BY DEF ReportInv, CopyInv, Copies
    <3> QED
      BY <3>1 DEF Queued, Filled
  <2> QED
    BY <2>1 DEF Gone, Alive
<1> HIDE DEF Accounted
<1> QED
  BY Always, <1>1, <1>2, <1>3, PTL DEF ReportSpec
=============================================================================
