------------------------------ MODULE KeyStore ------------------------------
(***************************************************************************)
(* The users' unlock keys and counters: unlock.c's table users[], the copy *)
(* nvstore.c keeps of it, and what is in flash.                            *)
(*                                                                         *)
(* Three threads work on it.  The uplink thread executes dn/secret         *)
(* (handle_secret -> unlock_set_secret, unlock_del_secret,                 *)
(* unlock_wipe_secrets -> nvstore_save_users) and flushes; the unlock work *)
(* queue verifies UNLOCK commands (handle_unlock) and queues the new       *)
(* counter; the system work queue writes queued counters five seconds      *)
(* later (counter_work_fn).  users[] has no lock; the copy, the dirty flag *)
(* and the flash writes are under nvstore's mutex.                         *)
(*                                                                         *)
(* The uplink thread (priority 5) preempts the unlock work queue (6) and   *)
(* gives way only when it blocks, on the mutex or in a flash write, so its *)
(* changes to users[] are one step; handle_unlock can be preempted         *)
(* anywhere and is one step per access to shared state.                    *)
(***************************************************************************)
EXTENDS Naturals, FiniteSets

CONSTANTS
  Uid,         \* user ids the server provisions
  NoUid,       \* uid 0, which marks an empty slot
  MAX_USERS,   \* slots in users[]
  MaxKid,      \* bound on key generations; a key is named by its kid
  MaxCounter,  \* bound on the counters phones send
  Faults,      \* which flash operations may fail: "write", "load"
  MaxOps,      \* bound on dn/secret commands executed
  MaxCrash     \* bound on power losses

ASSUME UidAssumption == NoUid \notin Uid /\ MAX_USERS \in Nat \ {0}
ASSUME KeyStoreBounds ==
  /\ MaxKid \in Nat /\ MaxCounter \in Nat /\ MaxOps \in Nat /\ MaxCrash \in Nat
  /\ Faults \subseteq {"write", "load"}

Slot   == 1 .. MAX_USERS
NoKey  == 0
Kid    == 0 .. MaxKid
Counter == 0 .. MaxCounter

\* One slot, struct user_key.
UserKey == [uid : Uid \cup {NoUid}, secret : Kid, counter : Counter, valid : BOOLEAN]
NoUser  == [uid |-> NoUid, secret |-> NoKey, counter |-> 0, valid |-> FALSE]
Table   == [Slot -> UserKey]
NoUsers == [s \in Slot |-> NoUser]

VARIABLES
  users,   \* unlock.c: users[]
  kid,     \* unlock.c: key_set_id
  mirror,  \* nvstore.c: user_mirror[]
  pkid,    \* nvstore.c: p.kid
  dirty,   \* nvstore.c: counter_dirty
  timer,   \* is counter_work scheduled?
  flash,   \* the two records "ebike/users" and "ebike/kid"
  dn,      \* the uplink thread in handle_secret: where it is, for whom
  un,      \* the unlock work queue in handle_unlock: where it is, with what
  ops, crashes, \* counts for the bounds
  acked,   \* history: per user what the last acknowledged command left
  expect,  \* history: acked for un.uid when handle_unlock looked it up
  last,    \* history: per user the last counter granted on its own slot
  held,    \* history: the keys that have been in flash
  faults   \* history: which flash operations have failed

store == <<users, kid, mirror, pkid, dirty, timer>>
nvs   == <<flash, held, faults>>
hist  == <<acked, expect, last>>
vars  == <<store, nvs, dn, un, ops, crashes, hist>>

\* What the server may conclude about a user from the acks it got: the key
\* the device holds (NoKey: none), or nothing.
Unknown == MaxKid + 1
Belief  == {Unknown} \cup Kid

DnIdle == [pc |-> "idle", about |-> {}, key |-> NoKey]
UnIdle == [pc |-> "idle", slot |-> 1, uid |-> NoUid, key |-> NoKey, ctr |-> 0]

TypeOK ==
  /\ users \in Table /\ mirror \in Table
  /\ kid \in Kid /\ pkid \in Kid
  /\ dirty \in BOOLEAN /\ timer \in BOOLEAN
  /\ flash \in [users : Table, kid : Kid]
  /\ dn \in [pc : {"idle", "lock", "users", "kid"}, about : SUBSET Uid, key : Kid]
  /\ un \in [pc : {"idle", "verify", "check", "queue", "done"}, slot : Slot,
             uid : Uid \cup {NoUid}, key : Kid, ctr : Counter]
  /\ ops \in Nat /\ crashes \in Nat
  /\ acked \in [Uid -> Belief] /\ expect \in Belief /\ last \in [Uid -> Counter]
  /\ held \subseteq Kid /\ faults \subseteq Faults

Init ==
  /\ users = NoUsers /\ mirror = NoUsers
  /\ kid = 0 /\ pkid = 0
  /\ dirty = FALSE /\ timer = FALSE
  /\ flash = [users |-> NoUsers, kid |-> 0]
  /\ dn = DnIdle /\ un = UnIdle
  /\ ops = 0 /\ crashes = 0
  /\ acked = [u \in Uid |-> NoKey] /\ expect = Unknown
  /\ last = [u \in Uid |-> 0] /\ held = {NoKey} /\ faults = {}

-----------------------------------------------------------------------------
(***************************************************************************)
(* The table                                                               *)
(***************************************************************************)

\* The slots a user holds; find_user takes the first.
SlotsOf(t, u) == {s \in Slot : t[s].valid /\ t[s].uid = u}
Free(t)       == {s \in Slot : ~t[s].valid}
First(S)      == CHOOSE s \in S : \A r \in S : s <= r

\* Variant: a key for a known user takes a free slot when there is one.
SetInFree(t, u, k) ==
  LET s == First(IF Free(t) # {} THEN Free(t) ELSE SlotsOf(t, u))
  IN  [t EXCEPT ![s].uid = u, ![s].secret = k, ![s].valid = TRUE]

\* unlock_set_secret: the user's own slot, else the first free one.  The
\* counter of the slot stays.
SetIn(t, u, k) ==
  LET s == First(IF SlotsOf(t, u) # {} THEN SlotsOf(t, u) ELSE Free(t))
  IN  [t EXCEPT ![s].uid = u, ![s].secret = k, ![s].valid = TRUE]

\* Removing a user wipes the key and the uid and leaves the counter.
Cleared(slot) == [slot EXCEPT !.uid = NoUid, !.secret = NoKey, !.valid = FALSE]
DelIn(t, u)   == LET s == First(SlotsOf(t, u)) IN [t EXCEPT ![s] = Cleared(@)]
WipeIn(t)     == [s \in Slot |-> Cleared(t[s])]

\* nvstore_queue_counter: the user's first slot in the copy, if it has one.
CounterIn(t, u, c) ==
  IF SlotsOf(t, u) = {} THEN t ELSE [t EXCEPT ![First(SlotsOf(t, u))].counter = c]

\* The key of a user in a table, NoKey when it has none.
KeyOf(t, u) == IF SlotsOf(t, u) = {} THEN NoKey ELSE t[First(SlotsOf(t, u))].secret

-----------------------------------------------------------------------------
(***************************************************************************)
(* The uplink thread: dn/secret                                            *)
(***************************************************************************)

\* Between the change and the ack the server knows nothing about these users,
\* and neither does a verification that is under way.
Begin(about, k) ==
  /\ dn' = [pc |-> "lock", about |-> about, key |-> k]
  /\ acked' = [u \in Uid |-> IF u \in about THEN Unknown ELSE acked[u]]
  /\ expect' = IF un.uid \in about THEN Unknown ELSE expect
  /\ ops' = ops + 1

\* The command is acknowledged: ok tells the server what the device now holds.
Finish(ok) ==
  /\ dn' = DnIdle
  /\ acked' = [u \in Uid |-> IF ok /\ u \in dn.about THEN dn.key ELSE acked[u]]

SetSecret(u, k) ==
  /\ dn.pc = "idle" /\ ops < MaxOps
  /\ SlotsOf(users, u) # {} \/ Free(users) # {}
  /\ users' = SetIn(users, u, k)
  /\ kid' = k
  /\ Begin({u}, k)
  /\ last' = IF SlotsOf(users, u) = {} THEN [last EXCEPT ![u] = 0] ELSE last
  /\ UNCHANGED <<mirror, pkid, dirty, timer, nvs, un, crashes>>

DelSecret(u) ==
  /\ dn.pc = "idle" /\ ops < MaxOps
  /\ SlotsOf(users, u) # {}
  /\ users' = DelIn(users, u)
  /\ Begin({u}, NoKey)
  /\ UNCHANGED <<kid, mirror, pkid, dirty, timer, nvs, un, crashes, last>>

WipeSecrets ==
  /\ dn.pc = "idle" /\ ops < MaxOps
  /\ users' = WipeIn(users)
  /\ Begin(Uid, NoKey)
  /\ UNCHANGED <<kid, mirror, pkid, dirty, timer, nvs, un, crashes, last>>

\* set with every slot taken, del of an unknown user: acknowledged as failed,
\* nothing is changed.
Refuse(u, op) ==
  /\ dn.pc = "idle" /\ ops < MaxOps
  /\ SlotsOf(users, u) = {}
  /\ op = "set" => Free(users) = {}
  /\ acked' = [acked EXCEPT ![u] = Unknown]
  /\ ops' = ops + 1
  /\ UNCHANGED <<store, nvs, dn, un, crashes, expect, last>>

\* nvstore_save_users holds nvstore's mutex from the copy to the last write.
Locked == dn.pc \in {"users", "kid"}

\* Variant: the kid is written before the table.
SaveCopyKidFirst ==
  /\ dn.pc = "lock"
  /\ mirror' = users
  /\ pkid' = kid
  /\ flash' = [flash EXCEPT !.kid = kid]
  /\ dn' = [dn EXCEPT !.pc = "users"]
  /\ UNCHANGED <<users, kid, dirty, timer, held, faults, un, ops, crashes, hist>>

SaveCopy ==
  /\ dn.pc = "lock"
  /\ mirror' = users
  /\ pkid' = kid
  /\ dn' = [dn EXCEPT !.pc = "users"]
  /\ UNCHANGED <<users, kid, dirty, timer, nvs, un, ops, crashes, hist>>

\* save_users_locked: one record with all slots is written, or nothing is.
WriteUsers ==
  /\ flash' = [flash EXCEPT !.users = mirror]
  /\ dirty' = FALSE
  /\ held' = held \cup {mirror[s].secret : s \in Slot}
  /\ UNCHANGED faults

Fault(f) == f \in Faults /\ faults' = faults \cup {f}

WriteUsersFails == Fault("write") /\ UNCHANGED <<flash, held, dirty>>

\* Variant: the result of the write is ignored.
SaveUsersUnchecked ==
  /\ dn.pc = "users"
  /\ WriteUsers \/ WriteUsersFails
  /\ dn' = [dn EXCEPT !.pc = "kid"]
  /\ UNCHANGED <<users, kid, mirror, pkid, timer, un, ops, crashes, acked, expect, last>>

SaveUsers ==
  /\ dn.pc = "users"
  /\ \/ /\ WriteUsers
        /\ dn' = [dn EXCEPT !.pc = "kid"]
        /\ UNCHANGED acked
     \/ /\ WriteUsersFails
        /\ Finish(FALSE)
  /\ UNCHANGED <<users, kid, mirror, pkid, timer, un, ops, crashes, expect, last>>

SaveKid ==
  /\ dn.pc = "kid"
  /\ \/ /\ flash' = [flash EXCEPT !.kid = pkid]
        /\ Finish(TRUE)
        /\ UNCHANGED faults
     \/ Fault("write") /\ UNCHANGED flash /\ Finish(FALSE)
  /\ UNCHANGED <<store, held, un, ops, crashes, expect, last>>

\* nvstore_flush, at the end of each cycle and before a reboot or System OFF.
\* The work item is cancelled, then its function is called directly.
WriteCounters ==
  IF dirty THEN WriteUsers \/ WriteUsersFails
           ELSE UNCHANGED <<nvs, dirty>>

Flush ==
  /\ dn.pc = "idle"
  /\ timer' = FALSE
  /\ WriteCounters
  /\ UNCHANGED <<users, kid, mirror, pkid, dn, un, ops, crashes, acked, expect, last>>

-----------------------------------------------------------------------------
(***************************************************************************)
(* The system work queue                                                   *)
(***************************************************************************)

CounterWork ==
  /\ timer /\ ~Locked
  /\ timer' = FALSE
  /\ WriteCounters
  /\ UNCHANGED <<users, kid, mirror, pkid, dn, un, ops, crashes, acked, expect, last>>

-----------------------------------------------------------------------------
(***************************************************************************)
(* The unlock work queue: handle_unlock from find_user on.  A command      *)
(* carries a uid, a counter and a MAC made with some key; the session      *)
(* checks before it are in UnlockSession.                                  *)
(***************************************************************************)

Lookup(u, k, c) ==
  /\ un.pc = "idle"
  /\ SlotsOf(users, u) # {}
  /\ un' = [pc |-> "verify", slot |-> First(SlotsOf(users, u)), uid |-> u,
            key |-> k, ctr |-> c]
  /\ expect' = acked[u]
  /\ UNCHANGED <<store, nvs, dn, ops, crashes, acked, last>>

\* Leave handle_unlock; what the callback does with the outcome is in main.
Leave == un' = UnIdle /\ expect' = Unknown

LookupFails(u) ==
  /\ un.pc = "idle"
  /\ SlotsOf(users, u) = {}
  /\ Leave
  /\ UNCHANGED <<store, nvs, dn, ops, crashes, acked, last>>

\* crypto_hmac_verify reads the key once, when it imports it.  A MAC made with
\* NoKey stands for one that verifies under no key.
VerifyMac ==
  /\ un.pc = "verify"
  /\ IF un.key # NoKey /\ un.key = users[un.slot].secret
     THEN un' = [un EXCEPT !.pc = "check"] /\ UNCHANGED expect
     ELSE Leave
  /\ UNCHANGED <<store, nvs, dn, ops, crashes, acked, last>>

\* Is the looked-up slot still the user's?
Own == users[un.slot].valid /\ users[un.slot].uid = un.uid

\* Variant: the counter last used is good once more.
CheckCounterNotStrict ==
  /\ un.pc = "check"
  /\ IF un.ctr >= users[un.slot].counter
     THEN /\ users' = [users EXCEPT ![un.slot].counter = un.ctr]
          /\ un' = [un EXCEPT !.pc = "queue"]
          /\ last' = IF Own THEN [last EXCEPT ![un.uid] = un.ctr] ELSE last
          /\ UNCHANGED expect
     ELSE Leave /\ UNCHANGED <<users, last>>
  /\ UNCHANGED <<kid, mirror, pkid, dirty, timer, nvs, dn, ops, crashes, acked>>

\* The counter must exceed the slot's and replaces it: the command is granted.
CheckCounter ==
  /\ un.pc = "check"
  /\ IF un.ctr > users[un.slot].counter
     THEN /\ users' = [users EXCEPT ![un.slot].counter = un.ctr]
          /\ un' = [un EXCEPT !.pc = "queue"]
          /\ last' = IF Own THEN [last EXCEPT ![un.uid] = un.ctr] ELSE last
          /\ UNCHANGED expect
     ELSE Leave /\ UNCHANGED <<users, last>>
  /\ UNCHANGED <<kid, mirror, pkid, dirty, timer, nvs, dn, ops, crashes, acked>>

\* Variant: the copy is not marked dirty.
QueueCounterClean ==
  /\ un.pc = "queue" /\ ~Locked
  /\ mirror' = CounterIn(mirror, un.uid, un.ctr)
  /\ timer' = TRUE
  /\ Leave
  /\ UNCHANGED <<users, kid, pkid, dirty, nvs, dn, ops, crashes, acked, last>>

\* Variant: the work item is not rescheduled.
QueueCounterUntimed ==
  /\ un.pc = "queue" /\ ~Locked
  /\ mirror' = CounterIn(mirror, un.uid, un.ctr)
  /\ dirty' = (dirty \/ SlotsOf(mirror, un.uid) # {})
  /\ Leave
  /\ UNCHANGED <<users, kid, pkid, timer, nvs, dn, ops, crashes, acked, last>>

\* nvstore_queue_counter, which needs the mutex; the work item is rescheduled
\* whether or not the user was found.
QueueCounter ==
  /\ un.pc = "queue" /\ ~Locked
  /\ mirror' = CounterIn(mirror, un.uid, un.ctr)
  /\ dirty' = (dirty \/ SlotsOf(mirror, un.uid) # {})
  /\ timer' = TRUE
  /\ Leave
  /\ UNCHANGED <<users, kid, pkid, nvs, dn, ops, crashes, acked, last>>

-----------------------------------------------------------------------------
\* The counter of a user in a table, 0 when it has none.
CounterOf(t, u) == IF SlotsOf(t, u) = {} THEN 0 ELSE t[First(SlotsOf(t, u))].counter

\* Power loss and reboot: nvstore_init and unlock_init read the flash; what
\* cannot be read stays empty.  A command in progress is never acknowledged.
Reboot ==
  /\ crashes < MaxCrash
  /\ \E t \in {flash.users, NoUsers}, k \in {flash.kid, 0} :
       /\ users' = t /\ mirror' = t
       /\ kid' = k /\ pkid' = k
       /\ last' = [u \in Uid |-> CounterOf(t, u)]
       /\ IF t = flash.users /\ k = flash.kid THEN UNCHANGED faults
                                            ELSE Fault("load")
  /\ dirty' = FALSE /\ timer' = FALSE
  /\ dn' = DnIdle /\ un' = UnIdle /\ expect' = Unknown
  /\ crashes' = crashes + 1
  /\ UNCHANGED <<flash, held, ops, acked>>

UplinkThread ==
  \/ \E u \in Uid, k \in Kid \ {NoKey} : SetSecret(u, k)
  \/ \E u \in Uid : DelSecret(u)
  \/ WipeSecrets
  \/ \E u \in Uid, op \in {"set", "del"} : Refuse(u, op)
  \/ SaveCopy \/ SaveUsers \/ SaveKid
  \/ Flush

UnlockQueue ==
  \/ \E u \in Uid, k \in Kid, c \in Counter : Lookup(u, k, c)
  \/ \E u \in Uid : LookupFails(u)
  \/ VerifyMac \/ CheckCounter \/ QueueCounter

Next == UplinkThread \/ UnlockQueue \/ CounterWork \/ Reboot

Spec == Init /\ [][Next]_vars

-----------------------------------------------------------------------------
(***************************************************************************)
(* Properties                                                              *)
(***************************************************************************)

\* What a dn/secret ack tells the server is true of the flash: a user whose
\* last command was acknowledged as done has exactly that key, or no key,
\* after any later power loss, whatever else was written since, failed writes
\* and counter updates included (handle_secret acknowledges after
\* nvstore_save_users).  A boot that cannot read the table is the exception:
\* the next save writes the empty one over it.
AckedKeySurvives ==
  "load" \notin faults =>
    \A u \in Uid : acked[u] # Unknown => KeyOf(flash.users, u) = acked[u]

\* An unlock is granted only to the key the server believes the user to have,
\* unless a command about that user was under way since the lookup: a deleted
\* or replaced key opens nothing once its removal has been acknowledged, not
\* even after power losses (handle_unlock against handle_secret).
Granted == un.pc = "check" /\ un'.pc = "queue"

GrantsHonourAcks == [][Granted => expect \in {Unknown, un.key}]_vars

\* A user's granted counters rise strictly, through key replacements and
\* through power losses that lose no queued counter (handle_unlock).
GrantRises == [][Granted /\ Own => un.ctr > last[un.uid]]_vars

\* No granted counter is forgotten: unless it is still being queued or a write
\* is owed whose timer runs, flash holds at least the last granted counter of
\* every stored user, for every interleaving of granting, saving keys, flushing
\* and writing counters, as long as flash has not failed (nvstore_save_users
\* clears counter_dirty, counter_work_fn writes the copy, nvstore_flush cancels
\* the work item first and writes after it).
Stored(u) == SlotsOf(users, u) # {} /\ SlotsOf(flash.users, u) # {}
Queued(u) == (dirty /\ timer) \/ (un.pc = "queue" /\ un.uid = u)

CounterDurable ==
  faults = {} =>
    \A u \in Uid : Stored(u) /\ ~Queued(u) => CounterOf(flash.users, u) >= last[u]

\* The key generation reported after a reboot was completely stored before, as
\* long as no write has failed: the kid is written after the table it describes
\* (nvstore_save_users).
KidHonest == "write" \notin faults => flash.kid \in held

\* unlock.c:88 on the slot of a new user: its counter is 0 already.
NewUserCounterZero ==
  [][\A s \in Slot : ~users[s].valid /\ users'[s].valid /\ crashes' = crashes
                       => users'[s].counter = 0]_vars

\* ble_unlock.c:96: unlock's state is only accessed by the unlock work queue,
\* so the slot handle_unlock looked up stays its user's until it is done.
SlotStaysOwn == un.pc \in {"verify", "check"} => Own
=============================================================================
