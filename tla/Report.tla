------------------------------- MODULE Report -------------------------------
(***************************************************************************)
(* The way of an event from the bike to the server's table: nvstore's      *)
(* sequence numbers (SeqNo), the queue of uplink.c, publishes that fail or *)
(* only seem to, and the server, which tells messages apart by (dev, q).   *)
(*                                                                         *)
(* An event keeps the q it got when it was queued, so sending it again is  *)
(* harmless: the server ignores a q it has.  That makes q the identity of  *)
(* an event: were it given out twice, the second event would be ignored.   *)
(*                                                                         *)
(* Abstracted: what becomes of the hello, the locations, the telemetry and *)
(* the acks, which take their numbers from the same counter and have       *)
(* tables of their own; of the downlinks all but what they do inside a     *)
(* publish of the flush: an ack, and the event of a remote unlock; the     *)
(* server's clock, which does not run backwards.                           *)
(***************************************************************************)
EXTENDS SeqNo, Sequences, FiniteSets

CONSTANTS
  EVENT_QUEUE_SIZE,
  MaxEvent, \* bound on events
  MaxOther, \* bound on numbers other messages take
  MaxFault  \* bound on flash errors, publishes that fail or repeat and restarts
            \* of the server, taken together

ASSUME ReportBounds ==
  /\ EVENT_QUEUE_SIZE \in Nat \ {0}
  /\ {MaxEvent, MaxOther, MaxFault} \subseteq Nat

VARIABLES
  ev_queue, \* the slots: the event in each and its q
  waiting,  \* a call of queue_event waits for nvstore_next_q to write flash
  at,       \* flush_events: the slot it is at, 0 when it does not run
  sending,  \* the event that publish_retry was called with, NoEvent otherwise
  dn,       \* what downlinks did in this publish: nothing, an ack, an event
  net,      \* messages the broker took and the server has yet to store
  event,    \* the server's table, in the order of its ids
  events,   \* how many events happened so far; they are numbered
  faults,   \* how many faults there were
  missed,   \* history: a publish failed, or the queue was full
  crossed,  \* history: a flush had an event behind it and took in another one
  lost      \* history: the events lost for a reason Arrives names

flush  == <<at, sending, dn>>
bike   == <<ev_queue, waiting, flush>>
server == <<net, event>>
counts == <<events, faults>>
past   == <<missed, crossed, lost>>
rvars  == <<vars, bike, server, counts, past>>

Slot    == 1 .. EVENT_QUEUE_SIZE
NoEvent == [id |-> 0, q |-> 0]
Ids(s)  == {s[i].id : i \in DOMAIN s}
Queued  == {ev_queue[i].id : i \in Slot} \ {0}

ReportTypeOK ==
  /\ TypeOK
  /\ ev_queue \in [Slot -> [id : 0 .. MaxEvent, q : Nat]]
  /\ waiting \in BOOLEAN /\ at \in 0 .. EVENT_QUEUE_SIZE
  /\ sending \in [id : 0 .. MaxEvent, q : Nat]
  /\ dn \in {"none", "acked", "queued"}
  /\ net \in Seq([id : 1 .. MaxEvent, q : Nat])
  /\ event \in Seq([id : 1 .. MaxEvent, q : Nat])
  /\ events \in 0 .. MaxEvent
  /\ faults \in 0 .. MaxFault
  /\ missed \in BOOLEAN /\ crossed \in BOOLEAN
  /\ lost \subseteq 0 .. MaxEvent

ReportInit ==
  /\ Init
  /\ ev_queue = [i \in Slot |-> NoEvent]
  /\ waiting = FALSE /\ at = 0 /\ sending = NoEvent /\ dn = "none"
  /\ net = <<>> /\ event = <<>>
  /\ events = 0 /\ faults = 0
  /\ missed = FALSE /\ crossed = FALSE /\ lost = {}

-----------------------------------------------------------------------------
(***************************************************************************)
(* The bike                                                                *)
(***************************************************************************)

Fault == faults < MaxFault /\ faults' = faults + 1

\* A step that writes flash is a fault unless it succeeds.
FaultIfUnwritten == IF failed' /\ UNCHANGED flash THEN Fault ELSE UNCHANGED faults

\* nvstore_init; uplink_init clears the queue before the first event.
Boot ==
  /\ \/ InitLoad /\ UNCHANGED faults
     \/ (InitSaveQ \/ InitSaveBoot \/ InitFail) /\ FaultIfUnwritten
  /\ UNCHANGED <<bike, server, events, past>>

Full == \A i \in Slot : ev_queue[i] # NoEvent

\* Variant: the last free slot is taken.
SlotForNewLast ==
  IF Full THEN CHOOSE i \in Slot : \A j \in Slot : ev_queue[i].q <= ev_queue[j].q
          ELSE CHOOSE i \in Slot : ev_queue[i] = NoEvent
                 /\ \A j \in Slot : ev_queue[j] = NoEvent => j <= i

\* The first free slot, or that of the oldest event.
SlotForNew ==
  IF Full THEN CHOOSE i \in Slot : \A j \in Slot : ev_queue[i].q <= ev_queue[j].q
          ELSE CHOOSE i \in Slot : ev_queue[i] = NoEvent
                 /\ \A j \in Slot : ev_queue[j] = NoEvent => i <= j

\* A downlink is handled inside the publish that it comes in (UplinkLoop): that
\* of a remote unlock sends its ack and then queues its event, in a lock that
\* the flush's own thread may take again.
InPublish(done) == dn' = IF sending = NoEvent THEN dn ELSE done
MayQueue == ~waiting /\ (at = 0 \/ dn = "acked") /\ events < MaxEvent
MaySend  == ~waiting /\ (at = 0 \/ sending # NoEvent)

\* The event of the call that has just got q.
Fill(q) ==
  /\ ev_queue' = [ev_queue EXCEPT ![SlotForNew] = [id |-> events', q |-> q]]
  /\ missed' = (missed \/ Full)
  /\ crossed' = (crossed \/ \E i \in Slot : i < at /\ ev_queue[i] # NoEvent)
  /\ lost' = IF Full THEN lost \cup {ev_queue[SlotForNew].id} ELSE lost
  /\ InPublish("queued")

\* uplink_queue_event, holding ev_lock: the number is at hand ...
QueueEvent ==
  /\ MayQueue
  /\ NextQ
  /\ events' = events + 1
  /\ Fill(q_next)
  /\ UNCHANGED <<waiting, at, sending, server, faults>>

\* ... or flash has to be written first, and the event is only then in a slot.
QueueEventWaits ==
  /\ MayQueue
  /\ NextQRaise
  /\ waiting' = TRUE
  /\ UNCHANGED <<ev_queue, flush, server, counts, past>>

QueueEventDone ==
  /\ waiting
  /\ RaiseSave
  /\ waiting' = FALSE
  /\ events' = events + 1
  /\ Fill(q_next - 1)
  /\ FaultIfUnwritten
  /\ UNCHANGED <<at, sending, server>>

\* hello, a location, telemetry or an ack takes a number, too; inside a flush
\* only an ack does.
OtherMessage ==
  /\ MaySend
  /\ Cardinality(issued) < events + MaxOther
  /\ \/ NextQ /\ InPublish("acked")
     \/ NextQRaise /\ UNCHANGED dn
  /\ UNCHANGED <<ev_queue, waiting, at, sending, server, counts, past>>

OtherMessageDone ==
  /\ ~waiting
  /\ RaiseSave /\ FaultIfUnwritten
  /\ InPublish("acked")
  /\ UNCHANGED <<ev_queue, waiting, at, sending, server, events, past>>

\* flush_events takes ev_lock.
FlushBegins ==
  /\ pc = "idle" /\ at = 0
  /\ at' = 1
  /\ UNCHANGED <<vars, ev_queue, waiting, sending, dn, server, counts, past>>

NextSlot == at' = IF at < EVENT_QUEUE_SIZE THEN at + 1 ELSE 0

SkipSlot ==
  /\ at \in Slot /\ ev_queue[at] = NoEvent /\ sending = NoEvent
  /\ NextSlot
  /\ UNCHANGED <<vars, ev_queue, waiting, sending, dn, server, counts, past>>

\* The event is written to msg_buf and publish_retry called with it.
PublishBegins ==
  /\ at \in Slot /\ ev_queue[at] # NoEvent /\ sending = NoEvent
  /\ sending' = ev_queue[at]
  /\ UNCHANGED <<vars, ev_queue, waiting, at, dn, server, counts, past>>

\* It returns when the handlers of the downlinks are through.
PublishEnds ==
  /\ sending # NoEvent /\ pc = "idle"
  /\ sending' = NoEvent /\ dn' = "none"
  /\ NextSlot

\* Variant: an event that is sent again gets a number of its own.
PublishRenumbers ==
  /\ sending # NoEvent
  /\ NextQ
  /\ net' = Append(net, [sending EXCEPT !.q = q_next])
  /\ ev_queue' = [ev_queue EXCEPT ![at] = NoEvent]
  /\ sending' = NoEvent /\ dn' = "none" /\ NextSlot
  /\ UNCHANGED <<waiting, event, counts, past>>

\* The slot is freed, with the event that is in it now: one queued inside the
\* publish may have overwritten the one that was sent.
FreeSlot ==
  /\ ev_queue' = [ev_queue EXCEPT ![at] = NoEvent]
  /\ lost' = lost \cup ({ev_queue[at].id} \ {sending.id})

\* publish_retry says it was sent, and so it was, once or, after a reconnect,
\* twice ...
Publish ==
  /\ PublishEnds /\ FreeSlot
  /\ \/ net' = Append(net, sending) /\ UNCHANGED faults
     \/ /\ Fault
        /\ net' = net \o <<sending, sending>>
  /\ UNCHANGED <<vars, waiting, event, events, missed, crossed>>

\* ... or it was an ack that went out in its place: ack_downlink writes to
\* msg_buf, and modem_publish takes the ack's prompt and result for its own.
PublishSendsAck ==
  /\ dn # "none"
  /\ PublishEnds
  /\ ev_queue' = [ev_queue EXCEPT ![at] = NoEvent]
  /\ lost' = lost \cup {ev_queue[at].id, sending.id}
  /\ UNCHANGED <<vars, waiting, server, counts, missed, crossed>>

\* Variant: the slot is freed whatever publish_retry says.
PublishFailsFrees ==
  /\ PublishEnds
  /\ Fault
  /\ net' \in {net, Append(net, sending)}
  /\ missed' = TRUE
  /\ ev_queue' = [ev_queue EXCEPT ![at] = NoEvent]
  /\ UNCHANGED <<vars, waiting, event, events, crossed, lost>>

\* It says it was not, whether the broker got it or not: the event stays in
\* its slot, and the flush goes on with the next one.
PublishFails ==
  /\ PublishEnds
  /\ Fault
  /\ net' \in {net, Append(net, sending)}
  /\ missed' = TRUE
  /\ UNCHANGED <<vars, ev_queue, waiting, event, events, crossed, lost>>

\* Power cut, sys_reboot or System OFF: the queue is in RAM.
BikeOff ==
  /\ PowerLoss
  /\ ev_queue' = [i \in Slot |-> NoEvent]
  /\ waiting' = FALSE /\ at' = 0 /\ sending' = NoEvent /\ dn' = "none"
  /\ lost' = lost \cup Queued \cup ({sending.id} \ {0})
  /\ UNCHANGED <<server, counts, missed, crossed>>

-----------------------------------------------------------------------------
(***************************************************************************)
(* The server                                                              *)
(***************************************************************************)

\* Variant: INSERT without UNIQUE(dev, q).
AddEventTwice ==
  /\ net # <<>> /\ net' = Tail(net)
  /\ event' = Append(event, Head(net))
  /\ UNCHANGED <<vars, bike, counts, past>>

\* add_event, under the device's lock: INSERT OR IGNORE with UNIQUE(dev, q).
AddEvent ==
  /\ net # <<>> /\ net' = Tail(net)
  /\ event' = IF \E i \in DOMAIN event : event[i].q = Head(net).q
              THEN event ELSE Append(event, Head(net))
  /\ UNCHANGED <<vars, bike, counts, past>>

\* The server stops: what it has not stored is in no other memory.
ServerRestart ==
  /\ Fault
  /\ net # <<>> /\ net' = <<>>
  /\ lost' = lost \cup Ids(net)
  /\ UNCHANGED <<vars, bike, event, events, missed, crossed>>

-----------------------------------------------------------------------------
FlushGoesOn ==
  SkipSlot \/ PublishBegins \/ Publish \/ PublishSendsAck \/ PublishFails

ReportNext ==
  \/ Boot \/ QueueEvent \/ QueueEventWaits \/ QueueEventDone
  \/ OtherMessage \/ OtherMessageDone
  \/ FlushBegins \/ FlushGoesOn \/ BikeOff
  \/ AddEvent \/ ServerRestart

ReportSpec == ReportInit /\ [][ReportNext]_rvars

\* modem_publish returns (Modem), so that a flush that has begun comes to its
\* end; a flash write returns, and the server stores what it receives.  That
\* another flush begins is not promised: see Arrives.
ReportFairSpec ==
  /\ ReportSpec
  /\ WF_rvars(FlushGoesOn) /\ WF_rvars(QueueEventDone \/ OtherMessageDone)
  /\ WF_rvars(AddEvent)

-----------------------------------------------------------------------------
(***************************************************************************)
(* Properties                                                              *)
(***************************************************************************)

\* The events that are neither queued nor being sent nor on their way nor
\* stored.
Gone == 1 .. events \ (Queued \cup {sending.id} \cup Ids(net) \cup Ids(event))

\* The bike and the server together are an EventLog.
Log == INSTANCE EventLog WITH
  Events <- 1 .. MaxEvent,
  made   <- 1 .. events,
  log    <- [i \in DOMAIN event |-> event[i].id],
  gone   <- Gone

\* What is sent again, after a failure that was none, a reconnect or a restart
\* of either side, is recorded once, and a freed or lost event never comes
\* back (uplink.c:386-387, store.py:63-72).
Implements == Log!Spec

\* The server ignores only what it has: an event that arrives for the first
\* time is stored, however often the bike's power was cut before.  It rests on
\* nvstore_init and nvstore_next_q reserving the numbers in time.
NothingSwallowed ==
  [][~failed /\ net # <<>> /\ net' = Tail(net) /\ UNCHANGED faults
       => Head(net).id \in Ids(event')]_rvars

Ordered == \A i, j \in DOMAIN event : i < j => event[i].id < event[j].id

\* As long as no publish failed, the queue was never full and no flush took in
\* a second event while the first one waited behind it, the table holds the
\* events in the order in which they happened, which derive_mode and
\* derive_locked take for granted: they read the last row (uplink.c:323-329
\* fills the first free slot, flush_events sends in the order of the slots, and
\* the event of a remote unlock may be queued in the midst of that).
InOrder == ~missed /\ ~crossed => Ordered

\* Not so without the last of these: two remote unlocks inside one publish put
\* one event into a slot that the flush has passed and the next one into a slot
\* that it has yet to reach.
OrderedUnlessMissed == ~missed => Ordered

\* The last row is the newest event the server has, whatever failed on the
\* way: derive.py:56 decides by "the latest motion or still event".
LastRowIsNewest ==
  \A i \in DOMAIN event : event[i].id <= event[Len(event)].id

\* The safety half of Arrives: no event is gone for any other reason.
LossesNamed == ~failed => Gone \subseteq lost

\* As long as cycles keep coming, in which queued events are flushed, an event
\* in the queue is stored in the end, unless it is lost in one of these ways:
\* a full queue gives its slot to a newer event, it is in such a slot when the
\* flush frees it for the event that was there before, power or the server's
\* process is lost, or an ack goes out in its place; or flash failed, and the
\* number of the event was another one's before.  Below battery level 2
\* main.c:251-256 lets cycles come; from there on only an alert does.
Arrives ==
  []<>(at # 0) =>
    \A e \in 1 .. MaxEvent :
      e \in Queued ~> e \in Ids(event) \cup lost \/ failed
=============================================================================
