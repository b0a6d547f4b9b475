------------------------------ MODULE Downlink ------------------------------
(***************************************************************************)
(* How a command or a key gets from the server to the bike: the table      *)
(* pending_downlink and flush_downlinks of the server (store.py,           *)
(* service.py), the broker in between, the bike's handlers (uplink.c) and  *)
(* the way back of the ack.                                                *)
(*                                                                         *)
(* Every downlink here writes one register of the bike, as an interval     *)
(* command or a key for one user does: downlink n writes n.  The server    *)
(* follows an acknowledged interval in srv_val.                            *)
(*                                                                         *)
(* The server is one asyncio process: an action is the code between two    *)
(* awaits.  Flushes run for the HTTP requests without a lock; those for a  *)
(* CLIENT_CONNECTED and a hello, and the handling of acks, hold the bike's *)
(* lock.  The broker hands a message only to a session that has            *)
(* subscribed, and forgets it with the session.                            *)
(***************************************************************************)
EXTENDS Naturals, Sequences, FiniteSetsExt

CONSTANTS
  MaxId,      \* bound on downlinks
  MaxChannel, \* bound on messages on their way to the bike
  SaveFails,  \* writing the bike's flash may fail
  MaxCrash    \* bound on restarts of the server and of the bike

ASSUME DownlinkAssumption == MaxId \in Nat /\ MaxChannel \in Nat \ {0} /\ SaveFails \in BOOLEAN /\ MaxCrash \in Nat

VARIABLES
  rows,       \* downlinks in pending_downlink, acked or not
  created,    \* how many were ever inserted
  acked,      \* rows with acked=1
  phase, todo,\* flush_downlinks: where each flush is and the rows it has left
  lock,       \* who holds the bike's lock
  wants,      \* flushes that wait for it
  applying,   \* the downlink _apply_acked_cmd is about to follow
  srv_val,    \* meta interval:<dev> and DeviceConfig.report_interval
  session,    \* the bike's MQTT session
  channel,    \* messages on their way to the bike
  acks,       \* acks on their way to the server
  ram, flash, \* the bike's register
  received,   \* history: downlinks the bike has had
  saved,      \* history: downlinks the bike has carried out and saved
  crashes     \* restarts, for the bound

server == <<rows, created, acked, phase, todo, lock, wants, applying, srv_val>>
bike   == <<ram, flash, received, saved>>
vars   == <<server, session, channel, acks, bike, crashes>>

Id      == 1 .. MaxId
\* One flush per HTTP request, and the one that holds the lock.
Flusher == Id \cup {0}
Locked  == 0

TypeOK ==
  /\ rows \subseteq Id /\ created \in 0 .. MaxId
  /\ acked \subseteq rows
  /\ phase \in [Flusher -> {"idle", "read", "send"}]
  /\ todo \in [Flusher -> SUBSET Id]
  /\ lock \in {"free", "flush", "ack"}
  /\ wants \subseteq {"online", "hello"}
  /\ applying \in 0 .. MaxId /\ srv_val \in 0 .. MaxId
  /\ session \in {"none", "connected", "subscribed", "greeted"}
  /\ channel \in Seq(Id)
  /\ acks \subseteq [id : Id, ok : BOOLEAN]
  /\ ram \in 0 .. MaxId /\ flash \in 0 .. MaxId
  /\ received \subseteq Id /\ saved \subseteq Id
  /\ crashes \in 0 .. MaxCrash

Init ==
  /\ rows = {} /\ created = 0 /\ acked = {}
  /\ phase = [f \in Flusher |-> "idle"] /\ todo = [f \in Flusher |-> {}]
  /\ lock = "free" /\ wants = {}
  /\ applying = 0 /\ srv_val = 0
  /\ session = "none" /\ channel = <<>> /\ acks = {}
  /\ ram = 0 /\ flash = 0 /\ received = {} /\ saved = {}
  /\ crashes = 0

-----------------------------------------------------------------------------
(***************************************************************************)
(* The server                                                              *)
(***************************************************************************)

\* enqueue_cmd, enqueue_secret: the row is inserted; the flush comes next.
Enqueue ==
  /\ created < MaxId
  /\ created' = created + 1
  /\ rows' = rows \cup {created + 1}
  /\ phase' = [phase EXCEPT ![created + 1] = "read"]
  /\ UNCHANGED <<acked, todo, lock, wants, applying, srv_val, session, channel,
                 acks, bike, crashes>>

\* on_device_online or _on_up(hello) gets the lock.
FlushLocked ==
  /\ lock = "free" /\ lock' = "flush"
  /\ \E w \in wants : wants' = wants \ {w}
  /\ phase' = [phase EXCEPT ![Locked] = "read"]
  /\ UNCHANGED <<rows, created, acked, todo, applying, srv_val, session, channel,
                 acks, bike, crashes>>

\* pending_downlinks: what is not acknowledged; the oldest goes first.
ReadPending(f) ==
  /\ phase[f] = "read"
  /\ phase' = [phase EXCEPT ![f] = "send"]
  /\ todo' = [todo EXCEPT ![f] = rows \ acked]
  /\ UNCHANGED <<rows, created, acked, lock, wants, applying, srv_val, session,
                 channel, acks, bike, crashes>>

\* Variant: what was sent counts as done.
SendNextMarksDone(f) ==
  /\ phase[f] = "send" /\ todo[f] # {}
  /\ todo' = [todo EXCEPT ![f] = @ \ {Min(@)}]
  /\ IF session \in {"subscribed", "greeted"}
     THEN Len(channel) < MaxChannel /\ channel' = Append(channel, Min(todo[f]))
     ELSE UNCHANGED channel
  /\ acked' = acked \cup ({Min(todo[f])} \cap rows)
  /\ UNCHANGED <<rows, created, phase, lock, wants, applying, srv_val, session,
                 acks, bike, crashes>>

\* One message is handed to the broker, acknowledged meanwhile or not.
SendNext(f) ==
  /\ phase[f] = "send" /\ todo[f] # {}
  /\ todo' = [todo EXCEPT ![f] = @ \ {Min(@)}]
  /\ IF session \in {"subscribed", "greeted"}
     THEN Len(channel) < MaxChannel /\ channel' = Append(channel, Min(todo[f]))
     ELSE UNCHANGED channel
  /\ UNCHANGED <<rows, created, acked, phase, lock, wants, applying, srv_val,
                 session, acks, bike, crashes>>

FlushDone(f) ==
  /\ phase[f] = "send" /\ todo[f] = {}
  /\ phase' = [phase EXCEPT ![f] = "idle"]
  /\ lock' = IF f = Locked THEN "free" ELSE lock
  /\ UNCHANGED <<rows, created, acked, todo, wants, applying, srv_val, session,
                 channel, acks, bike, crashes>>

\* Variant: the server follows a refused command too.
MarkAckedIgnoresOk(ack) ==
  /\ lock = "free" /\ ack \in acks
  /\ acks' = acks \ {ack}
  /\ IF ack.id \in rows \ acked
     THEN acked' = acked \cup {ack.id} /\ applying' = ack.id
     ELSE UNCHANGED <<acked, applying>>
  /\ lock' = IF applying' # 0 THEN "ack" ELSE "free"
  /\ UNCHANGED <<rows, created, phase, todo, wants, srv_val, session, channel,
                 bike, crashes>>

\* _on_up(ack): mark_acked.  A second ack of the same row changes nothing.
MarkAcked(ack) ==
  /\ lock = "free" /\ ack \in acks
  /\ acks' = acks \ {ack}
  /\ IF ack.id \in rows \ acked
     THEN /\ acked' = acked \cup {ack.id}
          /\ applying' = IF ack.ok THEN ack.id ELSE 0
     ELSE UNCHANGED <<acked, applying>>
  /\ lock' = IF applying' # 0 THEN "ack" ELSE "free"
  /\ UNCHANGED <<rows, created, phase, todo, wants, srv_val, session, channel,
                 bike, crashes>>

\* _apply_acked_cmd: the server follows what the bike acknowledged.
ApplyAcked ==
  /\ lock = "ack" /\ lock' = "free"
  /\ srv_val' = applying /\ applying' = 0
  /\ UNCHANGED <<rows, created, acked, phase, todo, wants, session, channel, acks,
                 bike, crashes>>

\* prune_downlinks: an acknowledged row past its retention goes.
Prune(id) ==
  /\ id \in acked
  /\ rows' = rows \ {id} /\ acked' = acked \ {id}
  /\ UNCHANGED <<created, phase, todo, lock, wants, applying, srv_val, session,
                 channel, acks, bike, crashes>>

\* The process dies and starts again: the tables are kept, the tasks, the
\* broker and what was on its way are not.
ServerRestart ==
  /\ crashes < MaxCrash /\ crashes' = crashes + 1
  /\ phase' = [f \in Flusher |-> "idle"] /\ todo' = [f \in Flusher |-> {}]
  /\ lock' = "free" /\ wants' = {} /\ applying' = 0
  /\ session' = "none" /\ channel' = <<>> /\ acks' = {}
  /\ UNCHANGED <<rows, created, acked, srv_val, bike>>

-----------------------------------------------------------------------------
(***************************************************************************)
(* The bike                                                                *)
(***************************************************************************)

\* CONNECT; the broker tells the server, which wants to flush.
Connect ==
  /\ session = "none" /\ session' = "connected"
  /\ wants' = wants \cup {"online"}
  /\ UNCHANGED <<rows, created, acked, phase, todo, lock, applying, srv_val,
                 channel, acks, bike, crashes>>

Subscribe ==
  /\ session = "connected" /\ session' = "subscribed"
  /\ UNCHANGED <<server, channel, acks, bike, crashes>>

\* Variant: only CLIENT_CONNECTED makes the server flush.
HelloUnheard ==
  /\ session = "subscribed" /\ session' = "greeted"
  /\ UNCHANGED <<server, channel, acks, bike, crashes>>

\* The hello of the cycle reaches the server.
Hello ==
  /\ session = "subscribed" /\ session' = "greeted"
  /\ wants' = wants \cup {"hello"}
  /\ UNCHANGED <<rows, created, acked, phase, todo, lock, applying, srv_val,
                 channel, acks, bike, crashes>>

\* The cycle is over, or the connection broke.
Disconnect ==
  /\ session # "none" /\ session' = "none"
  /\ channel' = <<>>
  /\ UNCHANGED <<server, acks, bike, crashes>>

\* handle_cmd or handle_secret: carried out in memory, saved, acknowledged by
\* how the save went; the ack may fail to get out.
Receive(save, sent) ==
  /\ channel # <<>> /\ channel' = Tail(channel)
  /\ save \/ SaveFails
  /\ LET id == Head(channel) IN
     /\ ram' = id
     /\ received' = received \cup {id}
     /\ flash' = IF save THEN id ELSE flash
     /\ saved' = IF save THEN saved \cup {id} ELSE saved
     /\ acks' = IF sent THEN acks \cup {[id |-> id, ok |-> save]} ELSE acks
  /\ UNCHANGED <<server, session, crashes>>

BikeRestart ==
  /\ crashes < MaxCrash /\ crashes' = crashes + 1
  /\ ram' = flash
  /\ session' = "none" /\ channel' = <<>>
  /\ UNCHANGED <<server, acks, flash, received, saved>>

-----------------------------------------------------------------------------
Flush(f)  == ReadPending(f) \/ SendNext(f) \/ FlushDone(f)
Acknowledge == (\E ack \in acks : MarkAcked(ack)) \/ ApplyAcked

Server ==
  \/ Enqueue \/ FlushLocked \/ (\E f \in Flusher : Flush(f))
  \/ Acknowledge \/ (\E id \in Id : Prune(id))
  \/ ServerRestart

Bike ==
  \/ Connect \/ Subscribe \/ Hello \/ Disconnect
  \/ (\E save, sent \in BOOLEAN : Receive(save, sent))
  \/ BikeRestart

Next == Server \/ Bike

Spec == Init /\ [][Next]_vars

\* The bike has said hello and what the server had for it has come through.
CycleThrough ==
  /\ session = "greeted" /\ channel = <<>>
  /\ wants = {} /\ lock = "free"

\* The server's tasks run.  The bike connects, cycle after cycle, subscribes,
\* says hello, receives and acknowledges.  The connection may break for as long
\* as it likes, not for ever: there is a time from which cycles last until the
\* flush their hello asked for has come through (the bike listens for
\* seconds, a flush is milliseconds).
FairSpec ==
  /\ Spec
  /\ \A f \in Flusher : WF_vars(Flush(f))
  /\ SF_vars(FlushLocked) /\ SF_vars(\E ack \in acks : MarkAcked(ack))
  /\ WF_vars(ApplyAcked)
  /\ WF_vars(Connect) /\ WF_vars(CycleThrough /\ Disconnect)
  /\ WF_vars(Subscribe) /\ WF_vars(Hello)
  /\ SF_vars(\E save \in BOOLEAN : Receive(save, TRUE))
  /\ <>[][Disconnect => CycleThrough]_vars

-----------------------------------------------------------------------------
(***************************************************************************)
(* Properties                                                              *)
(***************************************************************************)

\* What the server takes for done was done: an interval it follows, or is
\* about to, was saved by the bike, whatever was lost, repeated or restarted
\* (service.py:205-208).
FollowsOnlySaved == {srv_val, applying} \ {0} \subseteq saved

\* A downlink the bike has never had stays pending: it is not acknowledged, and
\* its row does not go, whatever is lost or restarted (store.py:312-318,
\* service.py:293: it may be the one key that still opens the bike).
NotForgotten == (1 .. created) \ received \subseteq rows \ acked

\* The server and the bike together are Commands.
C == INSTANCE Commands WITH
  Ids      <- Id,
  given    <- 1 .. created,
  had      <- received,
  settled  <- (1 .. created) \ (rows \ acked),
  owed     <- applying,
  followed <- srv_val

\* A command that is sent again, acknowledged again or acknowledged over a
\* connection that is gone is settled once, does not become pending again, and is
\* followed once, and only if it was saved (store.py:256-265, service.py:182-200).
Implements == C!Spec

\* Every downlink is acknowledged in the end, across lost messages, lost acks,
\* broken connections and restarts of either side.
AckedInTheEnd ==
  \A id \in Id : id \in rows ~> id \notin rows \ acked

Quiet ==
  /\ channel = <<>> /\ acks = {} /\ wants = {} /\ lock = "free"
  /\ \A f \in Flusher : phase[f] = "idle"
  /\ rows \subseteq acked

\* When all is acknowledged and nothing is on its way, the bike is where the
\* newest downlink put it: "连续两次密钥轮换必须按序到达，否则设备会停在旧密钥上"
\* (service.py:292, store.py:236).
NewestWins == Quiet => ram = created

\* And the server knows: the threshold for offline follows the period the bike
\* uses (service.py:203-208, MQTT-CONTRACT.md 4.2).
ServerFollows == Quiet => srv_val = ram
=============================================================================
