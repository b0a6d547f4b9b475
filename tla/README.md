# A TLA+ model of the bike tracker

This directory models the firmware of the tracker (`firmware/nrf52840/src`), the
server (`server/ebike_server`) and what passes between them. The modules are
translated from the code; its comments, tests and documents in `docs/` are used
for what the code *promises*. Paths below are relative to the repository;
`nvstore.c`, `uplink.c` and so on are the firmware's files, `service.py` and
`store.py` the server's.

* [The system](#the-system): components, their state, how they interact, what is hard
* [The modules](#the-modules): what each models, what it abstracts, what its run shows
* [Runs and bounds](#runs-and-bounds), [Fairness](#fairness)
* [Proofs](#proofs)
* [Where the code disagrees with its own documents](#where-the-code-disagrees-with-its-own-documents)
* [Not modelled](#not-modelled), [Plan](#plan)

## The system

A bike carries an nRF52840 with a 4G modem, a GNSS receiver, an accelerometer,
an electromagnetic lock and BLE. It reports over MQTT, receives commands and
keys from the server, and lets a phone unlock it over BLE without the network.
The server embeds the MQTT broker, stores what bikes report, derives a state,
publishes it to Home Assistant and offers an HTTP API and a web panel.

| component | state it keeps | operations | what makes it correct |
|---|---|---|---|
| `nvstore.c` | in flash: ceiling of q, boot counter, users with keys and counters, kid, interval; copies in RAM | `nvstore_init`, `nvstore_next_q`, `nvstore_save_users`, `nvstore_queue_counter`, `nvstore_flush`, `nvstore_set_report_interval` | a q is never given out twice; what was acknowledged survives a power loss; granted counters get to flash |
| `unlock.c` | users[], key_set_id; selected, nonce | set/del/wipe of keys, SELECT, GET CHALLENGE, UNLOCK | a challenge is used once; a counter never goes back; a removed key opens nothing |
| `ble_unlock.c` | pending APDU, busy, notify_enabled, active | GATT write, connect, disconnect, recycled, start/stop/shutdown | dialogues do not mix; the channel never jams; `active` says whether the bike advertises |
| `motion.c` | state, timeout | trigger, timeout, `motion_note_activity` | a bike left alone becomes still; a moving one has that verdict coming |
| `uplink.c`, `main.c` | event queue, now_sem, battery level, message buffer | queue an event, cycle, downlink handlers, System OFF | no event disappears silently; alerts get out; a low battery silences the periodic reports |
| `lock.c` | drive pin, release work, sense work | unlock, lock, sense | the coil's pulse ends; the last position gets reported |
| `modem.c` | AT receive buffer, MQTT session, clock | connect, publish, poll, reconnect ladder | replies are matched to commands; a retry ends |
| `gnss.c`, `battery.c` | NMEA ring, the receiver's supply; the divider's switch | fix; read | a position is the receiver's latest; the supplies go off; a measurement ends |
| `service.py`, `store.py` | tables (loc, tele, event, pending_downlink, meta, device fields), per-device locks | ingest, enqueue, flush, ack, tick, prune | downlinks reach the bike in order, are never forgotten; duplicates are dropped by (dev, q) |
| `derive.py`, `geo.py` | none | state from the tables | the last state published is the one the tables give |
| `broker.py` | sessions, ACL | connect, receive | a bike speaks for itself only |
| `websession.py`, `web.py`, `api.py` | sessions, failed logins | login, check; requests enqueue commands and, without the device's lock, publish the state | a request publishes nothing that hides what is newer |
| Home Assistant coordinator | last state | message | older states are dropped |

Threads of the firmware: the system work queue (cooperative: timeouts of
`motion.c`, `lock.c` and `nvstore.c`), the uplink thread (priority 5), the
unlock work queue (6), the accelerometer driver's own thread (10), the main
thread, and the Bluetooth stack's. They meet in `ev_lock` (event queue),
`state_lock` (motion), nvstore's mutex, `at_lock` (modem), and in `users[]`,
`active` and `now_sem`, which have no lock. The server is one asyncio process
with one lock per device, which some paths take and others do not.

```
 accelerometer ── motion.c ──┐                     ┌── HTTP requests
 phone ─ ble_unlock.c ─ unlock.c ─ main.c          │
 lock.c ─────────────────────┤   callbacks         │
                             v                     v
            event queue (uplink.c) ── modem ── broker ── service.py ── store.py
                  ^        │                       │
                  │        └ downlinks, acks ──────┘── state ── Home Assistant
              nvstore.c (q, users, counters)
```

What is hard here, and hardly reached by tests, is listed with its lines in
`PROJECT.json` under `hazards`. The kinds that matter most: power cuts between two flash
writes; three threads changing one table without a lock; downlinks handled
*inside* a publish on the same thread and with the same buffers; `ev_lock` held for
minutes while other threads want to queue an event; flushes of the server that
interleave at every await; acks, messages and connections that get lost; a state
read table by table while the tables change.

## The modules

`X.tla` is a component, `MC_X.tla` its instances for TLC (with `MC_X*.cfg`),
`X_proofs.tla` its theorems (`Server_proofs` has those of `StatePub` and
`Downlink`, `Report_proofs` and `Awake_proofs` those of `SeqNo` and `Motion`, too);
`EventLog` and `Commands` are abstract specifications without code of their own. Each definition's source lines are in
`PROJECT.json` under `map`. In every module a comment `Variant:` marks an
operator that no specification uses: a plausible bug put in place of the
definition after it, for which the named property fails.

### SeqNo: sequence numbers and the boot counter

`nvstore_init` and `nvstore_next_q`, each `settings_save_one` a step of its own,
with a power cut before and after each. `flash` holds the two persisted numbers.
A flash write takes effect or fails; the code carries on, and so does the model
(`failed` remembers it). `InitFail` is nvstore_init's early return, after which
`main` runs on with q = 0.

`NeverReused`, `BootsDistinct` and `FlashAhead` hold while flash has not failed,
`NeverRepeatedInBoot` even when it has. Checked as a part of `Report`. The
numbers of a 32-bit counter are Nat here: a bike that sends a message per second
needs 136 years to wrap.

### EventLog and Report: an event's way to the server's table

`EventLog` is the promise: events are made, a made event is recorded at most
once, and those that are neither recorded nor under way are gone for good.
`Report` extends `SeqNo` with the queue of `uplink.c`, `flush_events`, a broker
that delivers what it took, and `add_event` with its `UNIQUE(dev, q)`. A number
that needs a flash write makes `uplink_queue_event` wait inside `ev_lock`
(`QueueEventWaits`, `QueueEventDone`). A publish succeeds, is repeated after a
reconnect, or fails with the message taken or not; power is cut; the server
restarts with messages unstored. Inside a publish of the flush (`sending`) a downlink
may send an ack and, after a remote unlock, queue an event (uplink.c:218-227), into any free
slot or over the event that is being sent. A publish into which an ack came may return 0
with only the ack sent (`PublishSendsAck`); `UplinkLoop` has the buffers behind that.

`Log == INSTANCE EventLog WITH ...` is the refinement: `made` is what was queued,
`log` the rows, `gone` the events that are in no slot, in no publish, on no wire and in no
row. Shown: `Implements` (`Log!Spec`), `NothingSwallowed` (the server ignores only what
it has, which is where SeqNo's reservation matters), `InOrder` (rows are in the order
of the events, which `derive.py` takes for granted, as long as no publish failed, the
queue was not full and no flush took in a second event while a first one waited in a slot
it had passed), `NeverReused` and `NeverRepeatedInBoot` of SeqNo and, with
fairness, `Arrives`: as long as flushes keep coming and flash works, a queued event is
stored or `lost` in one of five ways: a full queue gave its slot away; it was in a slot that
was freed for the event it had replaced; power was lost; the server's process was
lost; an ack went out in its place. `lost` is a history variable that only the
actions of these five write, so that an event that disappears in any other way (the mutant
frees the slot of a failed publish) violates it; the safety half, `LossesNamed`, is
proved. Without `InOrder`'s conditions the last row is not the newest event, and two
remote unlocks inside one publish change places: `MC_Report_order.cfg`.

### KeyStore: keys and counters

`users[]` and `kid` (unlock.c), the copy and the dirty flag (nvstore.c), the two
flash records. The uplink thread sets, deletes and wipes and then saves (copy,
table, kid: three steps); the unlock work queue looks up, verifies, checks the
counter and queues it (four steps, because it can be preempted at each); the
system work queue writes counters later; power is lost between any two steps; a
write or the load at boot may fail. A key is named by its kid, a MAC by the key
it was made with.

Shown: an ack tells the truth about flash (`AckedKeySurvives`); no unlock is
granted against what the server believes (`GrantsHonourAcks`); granted counters
rise (`GrantRises`) and reach flash, by a timer that is running (`CounterDurable`); the kid
in flash stands for keys that were stored (`KidHonest`). The history variables
`acked`, `expect`, `last` and `held` record what the server knows, what it knew
when handle_unlock looked the user up, the last granted counter and the keys
that were in flash.

The conditions in these properties are limits of the code, not of the model:
after a boot that could not read the table the next save overwrites it;
a failed write leaves the dirty flag without a timer until the next cycle's
flush; a failed write of the kid leaves a new table with an old kid.

### UnlockSession: the dialogue over BLE

The GATT callbacks submit to one work queue, on which APDUs and session resets
run in order; an item already queued is not queued again. `Connect` needs the
only connection object to be free (`CONFIG_BT_MAX_CONN=1`), which is what
`SessionOfOneConnection` rests on: a pending APDU keeps its connection alive, so
a new connection's reset cannot overtake it. `NonceOnce` completes it.
`StopAdvertising` may reset the session at any moment, also when
`ble_unlock_stop` would return early. Checked as a part of `Unlocking`.

### LockDrive: the pulse and the position

`lock.c` with what it shares: `lock_unlock` and `lock_lock` come from the unlock
work queue and, for a remote command, from the uplink thread, and are two steps
each (drive, then schedule; cancel, then release). `release_work` and `sense_work`
are items of the one system work queue (`sysq`), and so are `motion.c`'s
`still_work` and `nvstore.c`'s `counter_work` (`OtherTimesOut`). `sense_work` reads the
position and then waits in `on_lock_state` for `ev_lock` (`flushing`), as `still_work`
does in `on_motion`; each may then write flash for the number of its event, and
`counter_work` writes flash (`handler` says what the queue's thread is at); everything
behind waits, too. What these items do otherwise is in Motion and KeyStore. `age`
counts the ticks the drive has been on. GPIO writes may fail (`jammed`); the lock
opens when driven and closes when not. The position switch is taken to work and the
lock to be closed at power-on (`lock_is_open`'s error path is not modelled).

### Unlocking: from the phone to the lock

`Unlocking` extends `UnlockSession` and `LockDrive`: `on_unlock_result` waits for
`ev_lock` to queue its event and then drives the lock (`Verify`, `EventQueued`,
`ResultReturns`), while phones come and go.

Shown: `SessionOfOneConnection`, `NonceOnce`, `DrivenByItsAnswer` (the unlock
work queue drives the lock only for the answer that was accepted, whatever
reset or challenge was queued meanwhile), `PositionReported` (when nothing is
under way, the position reported last is the lock's), `OverrunOnlyBehindOthers`
(the pulse outlasts its length only behind another item of the work queue that waits
for the end of a flush or for flash) and, with fairness,
`ComesToRest`: again and again no APDU is pending, busy is clear and the drive is
off. That a flush does hold the drive on is the finding `coil_held`.

### Motion: moving and still

The driver's thread (`Trigger`, then `SetState`, then `Report`) and the system
work queue (`Expire`, `StillWork`, ...) with priorities: `Preempted` says when
the work queue would run first. `flushing` is the uplink thread holding
`ev_lock`, during which both wait in their callback; an interrupt that comes
while the driver's thread waits is lost. `motion_init` may fail (`fitted`): the
bike then goes on without the trigger ("deaf"), or, when the sensor does not answer,
with a `still_work` that was never initialised ("absent"): `StillWork` cannot run
then, and the work queue that gets to it stops there.

Checked as a part of `Awake`.

### Advertising: start, stop, recycled

Three threads and the flag `active`, without a lock; the controller may refuse.
`bt_le_adv_start` and `bt_le_adv_stop` are external and take effect at one
instant. `StopBegins` stands for the idle check after a cycle. `stray` is a history
variable: advertising that `on_recycled` has left behind and `active` does not tell
of. Checked as a part of `Awake`.

### Awake: Motion and Advertising together

`Awake` extends `Motion` and instantiates `Advertising` with Motion's state for
its `moving`, so that movements, the waits for `ev_lock`, the idle check and the
radio run as one system: `SensorSetState` and `SysworkqSetState` are a change of
state and what follows it in `on_motion`, one step of both modules. `low` is the
battery at level 2 or above, where the loop need not come to the idle check
(main.c:251-256).

Shown: `StillComing`, `ActiveIsTrue` and, with fairness and a sensor that
`motion_init` could set up, `StandsStillInTheEnd` and `UnseenInTheEnd`: a bike left alone
is found to stand still and stops advertising, whatever threads were where when it was
left and whatever connections there were, if its battery is not low for good.
Advertising that `on_recycled` restarts after a stop is left out, in that very state
and no longer (`stray`): `active` is clear, and nothing ends it
(`MC_Advertising_claims.cfg`). With the battery low for good `AdvertisingEnds` of
`MC_UplinkLoop_adv.cfg` is the counterexample. Without a sensor the bike does not do
what motion.c:174 says of it: `MC_Awake_claims.cfg` has an unlock after which
`still_work` runs without a handler, and one after which a bike without the trigger
stops advertising, never to start again.

### Modem: the AT dialogue and the ladder of reconnects

`modem.c` with `uplink_cycle` and `publish_retry` around it. `pc` is the command
the uplink thread is at, `rung` what it is part of: the first connection, a level
of `modem_reconnect`, a publish, `modem_disconnect`. `Write` and `Read` are
`at_cmd_expect` and the two waits of `modem_publish`; `Ends` says where each
command leads. The modem is external: it takes commands in order (`tx`), and its
lines (`rx`) are read by whoever reads next, because nothing in the code ties an
answer to a command. It may refuse, answer after the wait (`Timeout` with the
command still in `tx`), have a line cut by the end of a wait (`TimeoutCuts`), lose
its session, pass on a downlink or hang.

Every wait reads every line. A downlink read in one (`Downlink`) has its ack published
there and then, whatever the thread was waiting for: `outer` holds the waits that are
open around an ack's own, `Resume` goes back to the innermost, which may find its time
used up (`spent`). The ack is encoded into the buffers of the publish it interrupts
(`over`): the bytes sent as that message's, and those `publish_retry` sends again, are
the ack's. And the wait for a prompt looks for ERROR before it looks for a lost session
(`Refused`), so that a TCP ERROR read there is a refused publish and `connected` stays
set. The history variables `crossed` (a publish was begun inside another command's
wait, or given up before its answer came) and `deaf` (this cycle, a TCP ERROR was read
as a refusal) record the two.

Abstracted: time (a wait is over when nothing comes, or before it came), the
three SSLCFG commands as one, commands whose result nobody looks at as ATE0,
messages as equal, acks as the same one. `PowerKey` turns the modem on when it is off and off when it
is on, as `power_on` and `power_off_hard` use it; `TimelyOff` says that the modem
obeys CPOWD within the wait and is still shutting down when the key is pressed
after it.

Shown: `SentIsTaken` and `OffBetweenCycles` as long as no answer is late and nothing
is `crossed`: an ack published while polling does no harm, one inside the wait of a
publish does (`SentInTimeIsTaken` in `MC_Modem_claims.cfg`; `UplinkLoop` shows the event
that is lost by it). `SessionVerified` (a shifted OK never lets a session through
whose settings were not all taken) however many answers are late and wherever
downlinks are acked; `ConnectedIsTrue`, too, unless the line that says so was cut or
read as a refusal (`NoticedWhereverRead` in `MC_Modem_claims.cfg`). With
fairness, `CycleEnds` and `Recovers`. The two about sessions have one exception, which
the history variable `stale` records: `power_on` does not empty the receive
ring, so that lines of a session that one cycle leaves unread are read in the next,
each cycle can push them further, and with about eight late answers and three
other faults the lines of earlier cycles answer a whole connection
(`SessionAlwaysVerified` in `MC_Modem_claims.cfg`). Emptied there, the ring would
never hold such lines, and both would hold without exception. `Recovers` needs the attempts of `power_on` to outnumber the
lines that are left over from before: each attempt reads one of them away. With
30 attempts in the code and 5 in the instance, both do; with 2 a shift by two
lines would be permanent.

### UplinkLoop: the reporting loop and the event queue

One action per stretch of `uplink_thread_fn` and `uplink_cycle`; the other
threads queue events when `ev_lock` is free and then tell the loop (`now_sem`).
Downlinks come inside any publish or poll on the loop's own thread: a remote
unlock queues an event while the flush has the queue half-way, and every
acknowledged downlink overwrites the buffers of the event being published
(`msg_buf`). Battery level, System OFF, a failed arming, reboot and wake-up are
there, so is memory before `uplink_init`.

Abstracted: positions and telemetry as messages (they are sent or not and
nothing depends on it; `Measure` has what is measured), time, the modem. An event that cannot be encoded is
dropped by `flush_events` (uplink.c:378-381); with at most 48 bytes of detail in a
buffer of several hundred this cannot happen, and it is left out. `Callbacks`
says which of the callbacks' events an instance has.

Shown: an event's whole fate (`EventsKept`), `DropsOldest`, `DeliveredOnce`,
and, with fairness, `AlertsSent`. `exposed` collects the three kinds of events the code
can lose otherwise: one whose bytes an ack overwrites (`reentrant_publish`), one a
remote unlock puts into the slot being published, and one queued before
`uplink_init` clears the queue (lock, motion and BLE are started before it,
main.c:325-356). `AlertsSent` lets the wait's period elapse; an alert that waits
at level 2 or above with `now_sem` taken waits for the next movement, and the
property says so.

### Measure: position, battery, telemetry

`gnss_fix`, `uart_isr`, `battery_read_mv` and the part of `uplink_cycle` that sends
what they find. A sentence is a head and a tail; each may come damaged, and the
ring counts pieces. `take_line` takes from the ring until the end of a line and,
if there is none, loses what it took (`ReadNothing`): a sentence that is still
coming in when the one before is read is lost. A position is the number of the
sentence it is from. Switches and samples may fail; the receiver may fall silent.

Shown: `FixHonest` (a reported position was heard in this measurement, is the
last one and was not taken back; the speed is of this measurement, too),
`NoneLeftBehind` (the thread does not go to sleep on a whole sentence, although
`line_sem` counts to one and a full ring drops bytes), `RailsOff` (the receiver and
the divider are off unless a switch failed) and, with fairness, `MeasureEnds`.

### Downlink: from the server to the bike and back

The table `pending_downlink`, the flushes (one per HTTP request, and one under
the device's lock for CLIENT_CONNECTED and hello), the broker's session, the
bike's handlers and the acks. An action of the server is the code between two
awaits. Messages and acks are lost with the connection; server and bike restart.
Every downlink writes one register, as an interval command or a key for one user
does; a key and an interval differ only in that the server follows the interval.
A retried ack or a refused command are there (`Receive(save, sent)`).
`created` is a wall-clock time in seconds in the code, with rowid as the second
key: rows are taken to be in the order they were inserted, which a clock that is
set back would break.

`Commands` is the promise: a command that was given is pending until the bike
has had it, is settled once and for good, and the server goes by it once, when it
is settled, and only if the bike saved it. `C == INSTANCE Commands WITH ...` maps it:
`given` is what was inserted, `settled` what is acknowledged or pruned, `owed` what
`_apply_acked_cmd` is about to follow. Flushes, sessions and pruning are stutters; a
restart of the server is `Forget`. The abstract actions have guards that the code
nowhere states (`Settle` takes only a command the bike has had, and none while
another is owed), which is what the refinement shows.

Shown: `NotForgotten`, `Implements` (`C!Spec`) and, with fairness, `AckedInTheEnd`.
`FollowsOnlySaved` is a part of `Implements` and proved by itself.

### StatePub: from the tables to Home Assistant

`publish_state` by its publishers: `ingest`, after each uplink and with the
device's lock; and without it the `tick`, every 30 seconds and by force at `start`,
and every HTTP request for a state (`/devices`, `/state`, `/api/state`; `Requests`, any
number at a time). A step ends where the code awaits the store: the device's row and
the time, the history tables, the row again for the state published last, with which
the new one is compared, then broadcast, retaining and saving, which do not suspend
before the save is handed to the store's thread. What is retained is in the broker's
memory. The coordinator drops a state with an earlier `t`; HA keeps its data when the
connection is lost and loses it when it restarts. `base`, the newest row there was when
a state was begun, is there for the properties only.

Shown: `ShownInTheEnd` (when uplinks end, HA shows what the tables say, a silent
bike as offline), unless a request was served between the touch and the row of an
uplink: then the request's state may have a later time than the tick's, which has the
row; HA drops the tick's, the server remembers it as published and stays silent until
something changes (`AlwaysShown`). `LaterIsNewer`: a state with a later time never has
an earlier contact, nor lacks a row that was there when the state it replaces was begun,
which is what is left of what the coordinator's guard is there for: rows added between
the reads of two publishers may be in the earlier one only (`LaterHasMore`). `t` is
taken before the reads, and would not do if it were taken at the publish. Times are
whole seconds: within one second HA may go back for a moment (`NeverBack`).
`MC_StatePub_back.cfg` has the three counterexamples.

## Runs and bounds

| run | instance | states | shows |
|---|---|---|---|
| report | batch 2, 2 power-ups, numbers up to 4, queue of 2, 3 events, 1 other message, 2 faults | 780 000 | a cut before and after each reservation, with events queued, published and under way; a failed publish followed by a full queue; a remote unlock inside a publish, its event behind the flush, ahead of it or over the event being sent |
| keystore | 2 users, 2 slots, kids 1..2, counters 0..1, 3 commands, 1 power loss, writes and loads may fail, symmetric users | 1.3 M | replacing, deleting and reusing a slot while a verification is under way; a full table (`Refuse`); run with counters 0..2 too |
| unlock | 2 connections, 2 nonces, 4 APDUs, pulse of 1 tick, 1 of: remote command, `still_work`, `counter_work`, flash write | 739 000 | a reconnect with an APDU pending or an accepted answer waiting for `ev_lock`; two threads at the drive; an edge at each place of the pulse; run with 1 connection, 2 APDUs, a pulse of 2 ticks and 3 others, too |
| awake | 3 movements, 2 flushes, 2 connections, refusals, `motion_init` with each outcome, a battery that is low on and off | 291 000 | a movement during each of: idle, expired timeout, verdict, both waiting for `ev_lock`; every pair of start, stop and restart in progress |
| modem | 5 attempts, a message and lwt, 2 faults, 1 late answer, 2 downlinks | 913 000 | a fault or a late answer at each command of a cycle and of the ladder, and another inside the recovery from it; a downlink in each wait of a session, and one inside the ack of another; deadlock checked |
| downlink | 1 downlink, 2 messages under way, 2 restarts, saves may fail | 37 000 | loss of message and ack, redelivery, restart of either side; deadlock checked (`Implements` was also tried with two downlinks, 10 million states without an error) |
| uplink | queue of 2, levels 0 and 3, movements, low batteries, remote unlock on, 3 numbers, 1 restart | 630 000 | a full queue, overwriting the event under way, System OFF and wake-up, boot, an alert during each stage of a cycle |
| measure | ring of 3 pieces, 3 sentences, 2 cycles, readings of 0 and 1 | 1.2 M | a ring that overflows at each piece, sentences left from the first measurement, each failure of a switch or sample |
| statepub | offline after 1 s of silence, two clock values after a bike's earlier life, 1 uplink or last will, 1 request at a time, 1 state under way, 1 loss | 920 000 | the tick's and a request's reads around each step of an ingest, a restart or a reconnect at each of them; the bike goes offline |
| coil_held, reentrant_publish, new_user_counter | as small as the counterexample allows | | see below |

The runs leave the type invariants out: they were checked once on the instances,
and are proved for every module. The
inductive invariants of the proofs were checked on the same instances before they
were proved.

Each bound is a `Max...` constant in a guard. `CHECK_DEADLOCK FALSE` is set where
a bound, or System OFF, may stop the system. In downlink and modem
something can always happen, and deadlock is checked.

One downlink is enough for the safety properties of `Downlink` only because the
theorems below hold for any number; the order of two is the question of
`MC_Downlink_order.cfg`.

## Fairness

* `Report`: a flush that has begun comes to its end (each publish returns: `CycleEnds`
  of `Modem`), a flash write returns, the server stores what it receives. That flushes
  keep coming is not assumed, main.c does not promise it at battery level 2: it is the
  premise of `Arrives`. Publishes may fail `MaxFault` times, not for ever.
* `Unlocking`: threads and the system work queue run, time passes, a write to flash
  returns, a flush ends. Strong fairness for what waits for `ev_lock` (`EventQueued`,
  and `EventQueues` in `LockDrive`): the mutex hands over to a waiting thread when a flush ends, but flushes
  come again and again.
* `Awake`: timeouts expire, threads run, a flush ends, a loop whose battery is below
  level 2 comes to the idle check, since no periodic cycle is skipped then; none is
  assumed of a battery at level 2 or above. A controller that is asked
  to stop again and again does so once. Strong fairness for the
  steps that may be preempted again and again, since bounded movements and
  flushes cannot preempt them for ever.
* `Modem`: the uplink thread runs (waits end); a modem that works answers, and one
  that was told to shut down does. Nothing is assumed of one that hangs.
* `UplinkLoop.FairSpec`: threads run, the wait's timeout elapses; a modem tried again and again
  connects and publishes in the end. `OfflineSpec` leaves the last part out.
* `Measure.FairSpec`: the uplink thread runs and the deadline passes; nothing is
  assumed of the receiver, and a line may end the wait each time.
* `StatePub.FairStateSpec`: the tick comes again, ingest goes on, HA reconnects and takes
  what it is sent. Requests need not come, nor come to an end.
* `Downlink.FairSpec`: the server's tasks run, the bike connects cycle after
  cycle, and from some time on a cycle lasts until the flush its hello asked for
  has come through: the bike listens for five seconds (uplink.c:502), a flush
  takes milliseconds. Before that time connections may break as they like.

## Proofs

Checked by TLAPS for all values of the constants under the modules' `ASSUME`s
(types of the constants; batch and queue size positive):

| module | theorem | statement |
|---|---|---|
| `Report_proofs` | `Unique`, `Ahead`, `UniqueInBoot`, `Typed` | SeqNo's `Spec => [](NeverReused /\ BootsDistinct)`, `[]FlashAhead`, `[]NeverRepeatedInBoot`, `[]TypeOK` |
| | `Refines` | `ReportSpec => Implements`: Report implements EventLog |
| | `IgnoresOnlyWhatItHas`, `TableInOrder`, `LossesHaveNames` | `ReportSpec => NothingSwallowed`, `[]InOrder`, `[]LossesNamed` |
| | `OneNumberEach`, `ReportTyped` | `ReportSpec => [](NeverReused /\ NeverRepeatedInBoot)`, `[]ReportTypeOK` |
| `KeyStore_proofs` | `AcksAreDurable`, `GrantsAreByAckedKey`, `GrantedCountersRise`, `GrantsAreDurable`, `KidIsHonest`, `KeyStoreTyped` | `Spec => []AckedKeySurvives`, `GrantsHonourAcks`, `GrantRises`, `[]CounterDurable`, `[]KidHonest`, `[]TypeOK` |
| `Unlocking_proofs` | `OneConnection`, `AnsweredOnce`, `DrivenByAnswer`, `LastReportIsTrue`, `PulseEndsInTime`, `UnlockTyped` | `UnlockingSpec => []SessionOfOneConnection`, `NonceOnce`, `[]DrivenByItsAnswer`, `[]PositionReported`, `OverrunOnlyBehindOthers`, `[]UnlockingTypeOK` |
| | `JoinedDialogue`, `JoinedDrive` | `UnlockingSpec => Spec`, `DriveSpec`: Unlocking implements UnlockSession, and LockDrive with a caller |
| `Awake_proofs` | `Coming`, `MotionTyped` | Motion's `Spec => []StillComing`, `[]TypeOK` |
| | `JoinedParts` | `AwakeSpec => Spec /\ A!Spec`: Awake implements Motion and Advertising |
| | `AwakeComing`, `ActiveTells`, `AwakeTyped` | `AwakeSpec => []StillComing`, `[]ActiveIsTrue`, `[]AwakeTypeOK` |
| `Modem_proofs` | `SentMeansTaken`, `OffWhenTimely` | `Spec => []SentIsTaken`, `[](TimelyOff => OffBetweenCycles)` |
| | `SessionIsVerified`, `ConnectedMeansSession` | `Spec => []SessionVerified`, `[]ConnectedIsTrue` |
| | `VerifiedWhenTimely`, `ModemTyped` | `Spec => [](Timely => SessionAlwaysVerified)`, `[]TypeOK` |
| `UplinkLoop_proofs` | `Kept`, `Order`, `NotTwice`, `Typed` | `Spec => []EventsKept`, `[](DropsOldest /\ DeliveredOnce)`, `[]DeliveredOnce`, `[]TypeOK` |
| `Measure_proofs` | `PositionsAreHonest`, `NoLineLeftBehind`, `PowerIsOff`, `Typed` | `Spec => []FixHonest`, `[]NoneLeftBehind`, `[]RailsOff`, `[]TypeOK` |
| `Server_proofs` | `NewerShown`, `StatesTyped` | StatePub's `StateSpec => LaterIsNewer`, `[]StateTypeOK` |
| | `DownlinkRefines` | Downlink's `Spec => Implements`: Downlink implements Commands |
| | `FollowsSaved`, `Remembered`, `DownlinkTyped` | Downlink's `Spec => []FollowsOnlySaved`, `[]NotForgotten`, `[]TypeOK` |

Each inductive invariant is at the head of its proof module, under that heading, or among
the properties of its module where it is short; TLC checked each as an invariant
of its run's instance, or of a smaller one, before it was proved. In each
proof module the order is: the invariant, facts about operators, the initial states, one lemma
for each action or for each group of actions with one effect, the step, the theorems.

*SeqNo.* `NeverReused` is not inductive: nothing in it relates what was issued to
where the next boot starts. `IInv` adds two parts. `BootInv` holds even with flash errors: `q_next`
is above everything issued in this boot, and the number of a call in progress is
not among it. `Reserved` holds while flash has not failed: at each place of the code,
what flash and RAM know about the ceiling. In "raise" and "save_q" RAM is ahead of flash, and
`q_next <= flash.q` is what makes a power cut there harmless.

*Report.* It extends SeqNo's `IInv`, which every step of Report keeps because it is
a step of SeqNo or leaves it alone. `CopyInv` is about all the places an event can be in
at once: every copy bears one number that was given out, and while flash works
no other event bears it. From it follow both the refinement (a row that is added
is an event that was made and is in no other row) and `NothingSwallowed`.
`InOrder` says nothing about what is still under way, so `OrderInv` puts queue,
network and table in one line, and `SlotsInv` says why a flush from the first
slot on sends the oldest first: while nothing was missed or crossed the used slots from the
flush's on have no gap, and of those it has passed only the first may be used, by the
newest event. `FlushInv` keeps a publish at its slot and an event that waits for its number
inside the publish in which its ack was sent.

*KeyStore.* The properties speak of flash at one moment; the invariant follows the
three copies of the table. `AckInv` says that table, copy and flash hold what the
server believes, and how far a command under way has got in each. `KidInv` keeps
the key generation behind the table it describes at each of the three steps of a save.
`ExpectInv` covers the unlock work queue, which has looked a user up and may
find another key or user in the slot: `GrantsHonourAcks` holds because the MAC is
verified with the key that is in the slot then. `LastInv` relates the counters
of table and copy to the last one granted, `DurableInv` copy, flash, dirty flag
and timer. `SlotInv`, one slot per user, makes "the user's key" a function.

*UnlockSession, LockDrive, Unlocking.* `SessionOfOneConnection` rests on a chain the
code nowhere states: an APDU in hand is the only one (`busy`), it keeps its
connection object, there is one object, hence no connection can come before it is
answered, and the reset of the next one is behind it in the queue (`ApduInv`,
`DialogueInv`). `ResultInv` says what `on_unlock_result` may rely on after it has waited
for `ev_lock`. `PositionInv` and `PulseInv` account for the one work queue: unless
the switch is to be read again its position is reported or in hand; a drive that
is on has its end in a thread's hand, queued, or on a timer that is short enough.

*Motion, Advertising, Awake.* `ComingInv` adds that the driver's thread has started
the timeout before it says MOVING: the order of the last two statements of
`trigger_handler`. `ActiveInv` covers the windows between a call of the radio and
the assignment to `active` after it, for three threads: who is about to set `active` has
advertising that only a connection can have ended. `JoinedParts` shows that the
composition adds no behaviour to its parts, so that `ComingInv` carries over.

*Modem.* `NestedInv` says which waits may be open around the thread's: acks inside acks,
and at the outermost a publish, a poll or a command of `modem_disconnect`. Then two
invariants. With an answer that came after its wait, or a publish begun inside another
command's, little can be said about what an answer means; `Timely` says that there was
neither. Then commands and answers are in step (`InStep`): only the command waited for
is under way, or its answer is, at most one line of which ends it, and that line means
that the modem has done it (`Effect`); an ack is published inside the poll alone, so that
the buffers are filled again before a message of the cycle is sent. `PromptInv` adds
that a prompt is out only where the payload comes next, `PowerInv` that the place of the
thread tells whether the modem is on. There is a lemma per action, and `EndsInStep` for
the step after an answer or a wait, which all commands share.

Whenever answers come, `AnyTimeInv` holds. A session is believed in after three lines:
CONNECT OK, CONNACK OK and SUBACK. `Trail` is the lines that will be read if the modem
does as it is told, those in the ring followed by the answers to the commands under
way, and `Chains` says which lines of a session may be in it at each rung of
`modem_reconnect`: none but the one waited for while connecting after the power was
turned on, no CONNACK OK behind a CONNECT OK at the first rung, not all three in
order at the second, so that each rung has its own session's lines at the end of
what it reads. Every step either reads the trail from the front, drops a part of it or
adds a command at its end (`Fewer`, and the lemmas named `...Trail`), and every way
from one command to another (`Ways`) leads to a rung that allows as much.
`AskedInv` then ties the lines to the settings: each setting that was asked for is
taken, under way, or its refusal is still to be read, in front of any SUBACK
that was asked for after it (`SubInv`); and messages and acks are under way only to a
modem that has them all, and while publishing the session that is believed in is there
or its loss is still to be read, unless that line was cut or read as a refusal
(`PubInv`). A modem that is turned on has no settings any more, which is why
lines of a session must not be in the ring then. With `ModemInv`, which has no such
lines as long as nothing is late, the exception goes away (`VerifiedWhenTimely`).

*UplinkLoop.* Two inductive invariants over the same type invariant
(`QueueTypeOK`). `KeptInv` says about a publish under way that the slot that will
be freed still holds the event that was sent, or one a remote unlock put there.
`OrderInv` says that all numbers in use are below `next_q` and that no other slot
holds the event being sent. `SlotForNewIsOldest` shows that the slot chosen when
all are used holds the smallest number, from the existence of a smallest element
(`Smallest`); `QueueEffect` turns `Queue` into what it changes, so that the five actions
that queue an event share one argument (`QueueKeeps`, `QueueOrders`); `StepCases` splits Next into the few
ways a step touches the queue. `Typed` needs the control part too
(`LoopTypeOK`), which is proved action by action.

*Measure.* `FixInv`: whatever a measurement works with, on the line, in the ring or in the
position so far, is of sentences it was on for; what is left in the ring from the
measurement before is thrown away when it begins. `OwedInv`: the sentence owed is at
the front of the ring, whole, and the semaphore is up or the thread is reading.

*StatePub.* `LaterIsNewer` is about two states HA has; the invariant orders all of
them. `Supersedes` relates a state to one with a later time. `OutInv` has it along
the way from the coordinator's data over the network to what is retained, `BuiltInv`
for the states being built as far as they have been read: whoever reads the tables has
every row that was there when another state was begun. `Requests` is any set of
publishers, which makes no difference to the argument.

*Downlink.* `AckInv`: an ack on its way tells the truth about the bike, and only
what the bike has had is acknowledged. With it, that the server follows only
what was saved, and that a row leaves only after it was received, are inductive
together. For the refinement two parts come to it. `CreatedInv`: what is in the
table, about to be sent or on its way was created (the oldest of a non-empty set is
in it: `MinIsIn`). `LockInv`: a command is owed exactly while the handler of its ack
holds the device's lock, so no second ack is settled before the first is followed.
That lock is all the argument needs of the server's scheduling: the flushes of
requests, which hold none, are free to interleave.

Only model-checked:

* All liveness properties. They rest on fairness and ENABLED, which are out of the
  prover's reach.
* The findings and the further configurations, which are counterexamples.

## Where the code disagrees with its own documents

Three runs expect a violation and are findings in `PROJECT.json`:

* `coil_held`: the end of the lock's pulse is queued behind a work item that
  waits for `ev_lock`; a flush of minutes keeps the coil on (lock.c:13-15, 40-41).
* `reentrant_publish`: an ack sent inside a publish overwrites the event being
  published; the slot is freed all the same (uplink.c:151-152, 386).
* `new_user_counter`: a new user on a reused slot starts at the former user's
  counter, where unlock.c:88 says it is 0.

Further configurations, each with a counterexample to something a comment says,
for which the list of runs has no room. `tlc -config <cfg> <module>` shows it; where a
configuration has several properties TLC stops at the first, which is then to be
taken out to see the next, and where it has a comment on its constants, that is the
other case:

| configuration | property | statement | what happens |
|---|---|---|---|
| `MC_KeyStore_race.cfg` | `SlotStaysOwn` | ble_unlock.c:96: only the unlock work queue accesses unlock's state | handle_secret on the uplink thread changes the slot between lookup and verification. No wrong grant follows (`GrantsHonourAcks`), but the counter may be written to another user's slot |
| `MC_UplinkLoop_claims.cfg` | `PeriodicStops` | main.c:252, at level 2 the periodic reports stop | each cycle's low-battery event asks for the next cycle (uplink.c:490-495, 355-357) |
| `MC_UplinkLoop_claims.cfg` | `UnlockStaysAvailable` | main.c:253 and 268-269: unlocking stays, the loop goes on | after a failed arming Bluetooth stays disabled |
| `MC_UplinkLoop_adv.cfg` | `AdvertisingEnds` | main.c:42-53 | at level 2 the `continue` (main.c:256) skips the idle check; with no connection it is never reached |
| `MC_UplinkLoop_claims.cfg` | `ActivityKeepsAdvertising` | main.c:104-106 | a refused unlock asks for a cycle, at whose end a still bike stops advertising: `motion_note_activity` puts off the next verdict, not `last_still_ms` |
| `MC_Awake_claims.cfg` | `ReportsInOrder` | motion.c:43-45 | the callbacks run after the lock is released, and their events may come in the other order |
| `MC_Awake_claims.cfg` | `NoStillWhileMoving` | motion.c:35-37 | a verdict already queued is not withdrawn by a movement |
| `MC_Awake_claims.cfg` | `WorksWithoutSensor` | motion.c:174, the bike works without the sensor | motion_init has returned at line 177; an unlock's motion_note_activity schedules still_work, which has no handler |
| `MC_Awake_claims.cfg` | `FoundWithoutTrigger` | motion.c:174, unlocking does not depend on the sensor | sensor_trigger_set has failed; an unlock's motion_note_activity leads to STILL, the idle check stops the advertising, and only a movement would start it again |
| `MC_Advertising_claims.cfg` | `FoundWhenMoving` | main.c:91 | a stop that is under way when the bike moves wins |
| `MC_Advertising_claims.cfg` | `ClosedStaysClosed` | ble_unlock.c:307 | on_recycled has seen `active` before the stop clears it |
| `MC_Modem_claims.cfg` | `SentInTimeIsTaken` | uplink.c:150-152, the lock is reentrant and the publish therefore all right | a downlink is read in the wait for a prompt: its ack takes the prompt, the buffers and the OK, and the publish around it counts as sent |
| `MC_Modem_claims.cfg` | `NoticedWhereverRead` | modem.c:212, a lost session clears `connected`, and the layer above reconnects | a TCP ERROR read in the wait for a prompt is taken for a refused publish (modem.c:831-836, before consume_urc): `connected` stays set, and `publish_retry` does not reconnect |
| `MC_Modem_claims.cfg` | `SentIsAlwaysTaken` | uplink.c:383-388 | a prompt later than 2 s: the next AT+MPUBEX is taken as the payload, its SEND OK counts for a message that was never sent |
| `MC_Modem_claims.cfg` | `SessionAlwaysVerified` | modem.c:586-593, rather no connection than one that is not verified | with many late answers the lines of earlier cycles, which nothing discards when the modem is turned on, answer a whole connection: `connected` is set before the modem has done anything |
| `MC_Modem_inverted.cfg` | `OffInTheEnd` | uplink.c:401, modem.c:452-456 | CPOWD obeyed after the wait, and the PWRKEY pulse that follows turns the modem on again; from then on each cycle's first pulse turns it off and the last one on |
| `MC_Downlink_order.cfg` | `NewestWins` | service.py:292, store.py:236: keys must arrive in order | two flushes interleave (service.py:274-287 takes no lock), the bike ends up on the older of two downlinks. With one flush at a time, too: the older one, or its ack, is lost, the newer one is acknowledged, and the next flush sends the older one alone (store.py:239-240) |
| `MC_Report_order.cfg` | `LastRowIsNewest` | derive.py:56, the latest event decides | an event whose publish failed is stored behind the newer ones of the same flush; in a full queue a new event takes the slot of the oldest and is sent before the others |
| `MC_Report_order.cfg` | `OrderedUnlessMissed` | as above | two remote unlocks inside the publish of the second slot: the first one's event takes slot 1, which the flush has passed, the second one's slot 3, which is sent first. No publish failed, the queue was not full |
| `MC_StatePub_back.cfg` | `NeverBack` | coordinator.py:102-103, what is older is dropped | two states of the same second cross: the older one is published last, until the next tick |
| `MC_StatePub_back.cfg` | `LaterHasMore` | as above, else the car on the map goes back | of two publishers without the lock, an HTTP request and the tick, the one with the later time has read the tables first |
| `MC_StatePub_back.cfg` | `AlwaysShown` | service.py:87-91, the tick is there so that HA does not stay behind | HA drops the tick's state, which has the new row, for a request's with a later time and the old row; the tick's is remembered as published, and nothing is published until the bike reports again or goes offline |
| `MC_Downlink_follows.cfg` | `ServerFollows` | service.py:203-208 | a restart between mark_acked and _apply_acked_cmd |
| `MC_Downlink_follows.cfg` | `ServerFollows` | as above | the bike changes the interval in RAM, the save fails, the command is refused |

`SeqNo` shows one more by its conditions: after a failed write of the ceiling,
q is reused after a power loss, which nvstore.c:163-165 accepts.

Not expressed as a run: hello's kid is stored by the server and not compared
with the keys it has given out (service.py:181-182, docs/MQTT-CONTRACT.md:224);
a failed battery reading is sent as 0.0 V (uplink.c:467) and shown as an empty
battery by the server, while battery_low_level takes it for no low battery, and the
comment at uplink.c:470-479 warns of just such a made-up number for the temperature.

## Not modelled

* `modem.c`'s clock, its ring buffer and the parsing of downlinks, the thresholds
  and scaling of the accelerometer: device I/O and sequential parsing.
* The conversions of `derive.py` and `geo.py` (mode, fence, charge, GCJ-02): functions of
  the rows without state, one number in `StatePub`.
* Retention of tracks, batches of locations and the web sessions' limits on the
  server: sequential code within one lock or one request.
* `proto.c`, `contract.py`, `config.py`, `certs.py`, `web_assets.py`, the Home
  Assistant entities, and what is left of `api.py` and `web.py` (their commands are in
  `Downlink`, their requests for a state in `StatePub`): formatting, parsing, files and
  presentation.
* Cryptography: a MAC verifies or not.

## Plan

Done: SeqNo, EventLog, Report, KeyStore, UnlockSession, LockDrive, Unlocking,
Motion, Advertising, Awake, Modem, UplinkLoop, Measure, Downlink with Commands,
StatePub, and the theorems above, which state every safety property of the passing
runs, the type invariant of every module and every refinement. What is left:

1. The order of downlinks in `Commands`. Flushes that take the device's lock would
   not be enough for `NewestWins` (see above); what the server would have to hold back
   is a question to the code first.
2. The limits of the web sessions and the retention of tracks, if they come to be
   shared between tasks.

The number of runs is kept to one per question; new modules take the place of
findings that have been dealt with.
