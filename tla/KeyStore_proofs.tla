--------------------------- MODULE KeyStore_proofs ---------------------------
(***************************************************************************)
(* Proofs about KeyStore, for any users, slots, keys and counters and any  *)
(* number of commands and power losses, whichever flash operations fail.   *)
(***************************************************************************)
EXTENDS KeyStore, WellFoundedInduction, TLAPS

-----------------------------------------------------------------------------
(***************************************************************************)
(* Inductive invariants                                                    *)
(***************************************************************************)

In(t, u)   == SlotsOf(t, u) # {}
Secrets(t) == {t[s].secret : s \in Slot}

\* No user has two slots.
OneSlot(t) ==
  \A s, r \in Slot : t[s].valid /\ t[r].valid /\ t[s].uid = t[r].uid => s = r

SlotInv ==
  /\ OneSlot(users) /\ OneSlot(mirror) /\ OneSlot(flash.users)
  /\ un.pc # "idle" => un.uid \in Uid

\* The generation on its way to flash comes behind the table it describes.
KidInv ==
  NoKey \in held /\
  ("write" \notin faults =>
     /\ flash.kid \in held
     /\ dn.pc = "idle" => kid \in held
     /\ dn.pc = "lock" => kid \in held \cup Secrets(users)
     /\ dn.pc = "users" => pkid = kid /\ pkid \in held \cup Secrets(mirror)
     /\ dn.pc = "kid" => pkid = kid /\ pkid \in held)

\* What the server believes is so in the table, its copy and flash: always if
\* the user is there, and the user is there if every boot could read flash.
Believed(t, u) ==
  acked[u] # Unknown =>
    /\ In(t, u) => KeyOf(t, u) = acked[u]
    /\ "load" \notin faults => KeyOf(t, u) = acked[u]

\* The command under way, and how far it has got: what it is about to
\* acknowledge is in the table, then in the copy, then in flash.
UnderWay(u) ==
  dn.pc # "idle" /\ u \in dn.about =>
    /\ KeyOf(users, u) = dn.key
    /\ dn.pc \in {"users", "kid"} => KeyOf(mirror, u) = dn.key
    /\ dn.pc = "kid" => KeyOf(flash.users, u) = dn.key

AckOf(u) ==
  /\ Believed(users, u) /\ Believed(mirror, u) /\ Believed(flash.users, u)
  /\ UnderWay(u)

AckInv == \A u \in Uid : AckOf(u)

\* As long as no command was about the user since, a verification is made with
\* the key the server believes in.
ExpectInv ==
  expect # Unknown =>
    /\ un.pc = "verify" => Own /\ users[un.slot].secret = expect
    /\ un.pc = "check" => un.key = expect

\* The table's counter of a user is at least the last one granted, and so is
\* the copy's unless the counter is still to be queued.
LastInv ==
  /\ \A u \in Uid : In(users, u) =>
       /\ CounterOf(users, u) >= last[u]
       /\ In(mirror, u) /\ ~(un.pc = "queue" /\ un.uid = u)
            => CounterOf(mirror, u) >= last[u]
  /\ un.pc \in {"verify", "check"} /\ In(users, un.uid) => Own \/ last[un.uid] = 0
  /\ un.pc = "queue" /\ In(users, un.uid) => last[un.uid] <= un.ctr

\* A copy that differs from flash is being saved, or owed with the timer on.
DurableInv ==
  /\ CounterDurable
  /\ faults = {} =>
       /\ dirty => timer
       /\ ~dirty /\ dn.pc # "users" => flash.users = mirror

KeyStoreInv ==
  TypeOK /\ SlotInv /\ KidInv /\ AckInv /\ ExpectInv /\ LastInv /\ DurableInv

-----------------------------------------------------------------------------
(***************************************************************************)
(* The table                                                               *)
(***************************************************************************)

\* A set of slots that is not empty has a first one.
LEMMA FirstIn ==
  ASSUME NEW S, S \subseteq Slot, S # {}
  PROVE  First(S) \in S
<1> DEFINE R == OpToRel(<, Nat)
<1>1. S \subseteq Nat
  BY DEF Slot
<1>2. \A x, y \in Nat : x < y => <<x, y>> \in R
  BY Zenon DEF OpToRel
<1>3. IsWellFoundedOn(R, Nat)
  BY NatLessThanWellFounded, Zenon
<1> HIDE DEF R
<1>4. PICK x \in S : \A y \in S : ~ (<<y, x>> \in R)
  BY <1>1, <1>3, WFMin
<1>5. \A y \in S : ~ (y < x)
  BY <1>1, <1>2, <1>4, Zenon
<1>6. \A y \in S : x <= y
  BY <1>1, <1>5
<1> QED
  BY <1>6 DEF First

\* Where no user has two slots, the slot a user has is the only one and the
\* first, and tells the key and the counter.
LEMMA TheSlot ==
  ASSUME NEW t \in Table, OneSlot(t), NEW s \in Slot, t[s].valid
  PROVE  /\ In(t, t[s].uid) /\ First(SlotsOf(t, t[s].uid)) = s
         /\ KeyOf(t, t[s].uid) = t[s].secret
         /\ CounterOf(t, t[s].uid) = t[s].counter
<1> DEFINE u == t[s].uid
<1>1. SlotsOf(t, u) = {s}
  BY DEF SlotsOf, OneSlot
<1>2. First(SlotsOf(t, u)) \in {s}
  BY <1>1, FirstIn DEF SlotsOf
<1> QED
  BY <1>1, <1>2 DEF In, KeyOf, CounterOf

\* A user that is there has a slot.
LEMMA HasSlot ==
  ASSUME NEW t, NEW u, In(t, u)
  PROVE  LET s == First(SlotsOf(t, u)) IN s \in Slot /\ t[s].valid /\ t[s].uid = u
<1>1. First(SlotsOf(t, u)) \in SlotsOf(t, u)
  BY FirstIn DEF In, SlotsOf
<1> QED
  BY <1>1 DEF SlotsOf

\* Tables that agree on the slots of a user agree on its key and its counter.
LEMMA SameUser ==
  ASSUME NEW t, NEW r, NEW u,
         \A s \in Slot : t[s].valid /\ t[s].uid = u <=> r[s].valid /\ r[s].uid = u
  PROVE  /\ In(r, u) <=> In(t, u)
         /\ (\A s \in Slot : t[s].valid /\ t[s].uid = u => r[s].secret = t[s].secret)
              => KeyOf(r, u) = KeyOf(t, u)
         /\ (\A s \in Slot : t[s].valid /\ t[s].uid = u => r[s].counter = t[s].counter)
              => CounterOf(r, u) = CounterOf(t, u)
<1>1. SlotsOf(r, u) = SlotsOf(t, u)
  BY DEF SlotsOf
<1>2. CASE In(t, u)
  BY <1>1, <1>2, HasSlot DEF In, KeyOf, CounterOf
<1>3. CASE ~In(t, u)
  BY <1>1, <1>3 DEF In, KeyOf, CounterOf
<1> QED
  BY <1>2, <1>3

\* The keys and counters of users are keys and counters.
LEMMA KeyType ==
  ASSUME NEW t \in Table, NEW u
  PROVE  KeyOf(t, u) \in Kid /\ CounterOf(t, u) \in Counter
<1>1. NoKey \in Kid /\ 0 \in Counter
  BY KeyStoreBounds DEF NoKey, Kid, Counter
<1>2. CASE In(t, u)
  <2>1. First(SlotsOf(t, u)) \in Slot
    BY <1>2, HasSlot
  <2>2. t[First(SlotsOf(t, u))] \in UserKey
    BY <2>1 DEF Table
  <2> QED
    BY <1>1, <2>2 DEF KeyOf, CounterOf, UserKey
<1>3. CASE ~In(t, u)
  BY <1>1, <1>3 DEF In, KeyOf, CounterOf
<1> QED
  BY <1>2, <1>3

\* What a key set for a user leaves of the table.
LEMMA SetInEffect ==
  ASSUME NEW t \in Table, OneSlot(t), NEW u \in Uid, NEW k \in Kid,
         In(t, u) \/ Free(t) # {}
  PROVE  LET r == SetIn(t, u, k)
         IN  /\ r \in Table /\ OneSlot(r) /\ k \in Secrets(r)
             /\ KeyOf(r, u) = k
             /\ In(t, u) => CounterOf(r, u) = CounterOf(t, u)
             /\ \A s \in Slot : t[s].valid /\ t[s].uid = u => r[s].valid /\ r[s].uid = u
             /\ \A s \in Slot : t[s].valid /\ t[s].uid # u => r[s] = t[s]
             /\ \A v \in Uid \ {u} : /\ In(r, v) <=> In(t, v)
                                     /\ KeyOf(r, v) = KeyOf(t, v)
                                     /\ CounterOf(r, v) = CounterOf(t, v)
<1> DEFINE n == First(IF SlotsOf(t, u) # {} THEN SlotsOf(t, u) ELSE Free(t))
           r == SetIn(t, u, k)
<1>1. n \in Slot /\ ((t[n].valid /\ t[n].uid = u) \/ (~In(t, u) /\ ~t[n].valid))
  <2>1. CASE In(t, u)
    BY <2>1, HasSlot DEF In
  <2>2. CASE ~In(t, u)
    <3>1. First(Free(t)) \in Free(t)
      BY <2>2, FirstIn DEF Free
    <3> QED
      BY <2>2, <3>1 DEF In, Free
  <2> QED
    BY <2>1, <2>2
<1>2. r = [t EXCEPT ![n].uid = u, ![n].secret = k, ![n].valid = TRUE]
  BY DEF SetIn
<1> HIDE DEF n, r
<1>3. \A s \in Slot : t[s] \in UserKey /\ t \in [Slot -> UserKey]
  BY DEF Table
<1>4. r \in Table
  BY <1>1, <1>2, <1>3 DEF Table, UserKey
<1>5. /\ r[n].uid = u /\ r[n].secret = k /\ r[n].valid /\ r[n].counter = t[n].counter
      /\ \A s \in Slot \ {n} : r[s] = t[s]
  BY <1>1, <1>2, <1>3 DEF UserKey
<1>6. ASSUME NEW s \in Slot, t[s].valid, t[s].uid = u PROVE s = n
  BY <1>1, <1>6 DEF OneSlot, In, SlotsOf
<1>7. OneSlot(r)
  <2> SUFFICES ASSUME NEW s \in Slot, NEW q \in Slot, r[s].valid, r[q].valid,
                      r[s].uid = r[q].uid
               PROVE  s = q
    BY DEF OneSlot
  <2>1. CASE s # n /\ q # n
    BY <1>5, <2>1 DEF OneSlot
  <2>2. CASE s = n \/ q = n
    BY <1>5, <1>6, <2>2
  <2> QED
    BY <2>1, <2>2
<1>8. KeyOf(r, u) = k /\ CounterOf(r, u) = t[n].counter
  BY <1>1, <1>4, <1>5, <1>7, TheSlot
<1>9. k \in Secrets(r)
  BY <1>1, <1>5 DEF Secrets
<1>10. ASSUME In(t, u) PROVE CounterOf(r, u) = CounterOf(t, u)
  BY <1>1, <1>8, <1>10, TheSlot
<1>11. ASSUME NEW v \in Uid \ {u}
       PROVE  /\ In(r, v) <=> In(t, v)
              /\ KeyOf(r, v) = KeyOf(t, v)
              /\ CounterOf(r, v) = CounterOf(t, v)
  <2>1. \A s \in Slot : /\ t[s].valid /\ t[s].uid = v <=> r[s].valid /\ r[s].uid = v
                        /\ t[s].valid /\ t[s].uid = v => r[s] = t[s]
    BY <1>1, <1>5
  <2> QED
    BY <2>1, SameUser
<1>12. \A s \in Slot : t[s].valid /\ t[s].uid = u => r[s].valid /\ r[s].uid = u
  BY <1>5, <1>6
<1>13. \A s \in Slot : t[s].valid /\ t[s].uid # u => r[s] = t[s]
  BY <1>1, <1>5
<1> QED
  BY <1>4, <1>7, <1>8, <1>9, <1>10, <1>11, <1>12, <1>13 DEF r

\* What a slot cleared leaves of it.
LEMMA ClearedType ==
  ASSUME NEW k \in UserKey
  PROVE  Cleared(k) \in UserKey /\ ~Cleared(k).valid
<1>1. NoKey \in Kid /\ FALSE \in BOOLEAN
  BY KeyStoreBounds DEF NoKey, Kid
<1>2. Cleared(k) \in UserKey
  BY <1>1 DEF Cleared, UserKey
<1>3. ~Cleared(k).valid
  BY DEF Cleared, UserKey
<1> QED
  BY <1>2, <1>3

\* What a user removed leaves of the table.
LEMMA DelInEffect ==
  ASSUME NEW t \in Table, OneSlot(t), NEW u \in Uid, In(t, u)
  PROVE  LET r == DelIn(t, u)
         IN  /\ r \in Table /\ OneSlot(r) /\ ~In(r, u)
             /\ \A s \in Slot : t[s].valid /\ t[s].uid # u => r[s] = t[s]
             /\ \A v \in Uid \ {u} : /\ In(r, v) <=> In(t, v)
                                     /\ KeyOf(r, v) = KeyOf(t, v)
                                     /\ CounterOf(r, v) = CounterOf(t, v)
<1> DEFINE n == First(SlotsOf(t, u))
           r == DelIn(t, u)
<1>1. n \in Slot /\ t[n].valid /\ t[n].uid = u
  BY HasSlot
<1>2. r = [t EXCEPT ![n] = Cleared(@)]
  BY DEF DelIn
<1> HIDE DEF n, r
<1>3. t \in [Slot -> UserKey] /\ \A s \in Slot : t[s] \in UserKey
  BY DEF Table
<1>4. r[n] = Cleared(t[n]) /\ \A s \in Slot \ {n} : r[s] = t[s]
  BY <1>1, <1>2, <1>3
<1>5. Cleared(t[n]) \in UserKey /\ ~r[n].valid
  BY <1>1, <1>3, <1>4, ClearedType
<1>6. r \in Table
  BY <1>1, <1>2, <1>3, <1>5 DEF Table
<1>7. OneSlot(r)
  BY <1>4, <1>5 DEF OneSlot
<1>8. ~In(r, u)
  BY <1>1, <1>4, <1>5 DEF In, SlotsOf, OneSlot
<1>9. ASSUME NEW v \in Uid \ {u}
      PROVE  /\ In(r, v) <=> In(t, v)
             /\ KeyOf(r, v) = KeyOf(t, v)
             /\ CounterOf(r, v) = CounterOf(t, v)
  <2>1. \A s \in Slot : /\ t[s].valid /\ t[s].uid = v <=> r[s].valid /\ r[s].uid = v
                        /\ t[s].valid /\ t[s].uid = v => r[s] = t[s]
    BY <1>1, <1>4, <1>5
  <2> QED
    BY <2>1, SameUser
<1>10. \A s \in Slot : t[s].valid /\ t[s].uid # u => r[s] = t[s]
  BY <1>1, <1>4
<1> QED
  BY <1>6, <1>7, <1>8, <1>9, <1>10 DEF r

\* A wipe leaves no user.
LEMMA WipeInEffect ==
  ASSUME NEW t \in Table
  PROVE  /\ WipeIn(t) \in Table /\ OneSlot(WipeIn(t))
         /\ \A u : ~In(WipeIn(t), u)
<1>1. \A s \in Slot : t[s] \in UserKey
  BY DEF Table
<1>2. WipeIn(t) \in Table /\ \A s \in Slot : ~WipeIn(t)[s].valid
  BY <1>1, ClearedType DEF WipeIn, Table
<1> QED
  BY <1>2 DEF OneSlot, In, SlotsOf

\* A new counter in slot n, and no other change.
NewCounter(t, r, n, c) ==
  /\ r[n].counter = c
  /\ \A s \in Slot : /\ r[s].valid = t[s].valid /\ r[s].uid = t[s].uid
                     /\ r[s].secret = t[s].secret
                     /\ s # n => r[s].counter = t[s].counter

\* That is what the assignment does.
LEMMA CounterFields ==
  ASSUME NEW t \in Table, NEW n \in Slot, NEW c \in Counter
  PROVE  LET r == [t EXCEPT ![n].counter = c]
         IN  r \in Table /\ NewCounter(t, r, n, c)
<1>1. t \in [Slot -> UserKey] /\ \A s \in Slot : t[s] \in UserKey
  BY DEF Table
<1> QED
  BY <1>1 DEF Table, UserKey, NewCounter

\* It is a new counter for the slot's user and leaves the others as they are.
LEMMA CounterEffect ==
  ASSUME NEW t \in Table, OneSlot(t), NEW n \in Slot, NEW c \in Counter,
         NEW r \in Table, NewCounter(t, r, n, c)
  PROVE  /\ OneSlot(r) /\ Secrets(r) = Secrets(t)
         /\ \A v : /\ In(r, v) <=> In(t, v)
                   /\ KeyOf(r, v) = KeyOf(t, v)
                   /\ t[n].valid /\ t[n].uid = v => CounterOf(r, v) = c
                   /\ ~(t[n].valid /\ t[n].uid = v) => CounterOf(r, v) = CounterOf(t, v)
<1>1. \A s \in Slot : /\ r[s].valid = t[s].valid /\ r[s].uid = t[s].uid
                      /\ r[s].secret = t[s].secret
                      /\ s # n => r[s].counter = t[s].counter
  BY DEF NewCounter
<1>2. OneSlot(r)
  BY <1>1 DEF OneSlot
<1>3. Secrets(r) = Secrets(t)
  BY <1>1 DEF Secrets
<1>4. ASSUME NEW v
      PROVE  /\ In(r, v) <=> In(t, v)
             /\ KeyOf(r, v) = KeyOf(t, v)
             /\ t[n].valid /\ t[n].uid = v => CounterOf(r, v) = c
             /\ ~(t[n].valid /\ t[n].uid = v) => CounterOf(r, v) = CounterOf(t, v)
  <2>1. \A s \in Slot : t[s].valid /\ t[s].uid = v <=> r[s].valid /\ r[s].uid = v
    BY <1>1
  <2>2. (In(r, v) <=> In(t, v)) /\ KeyOf(r, v) = KeyOf(t, v)
    BY <1>1, <2>1, SameUser
  <2>3. CASE t[n].valid /\ t[n].uid = v
    <3>1. r[n].valid /\ r[n].uid = v /\ r[n].counter = c
      BY <1>1, <2>3 DEF NewCounter
    <3>2. CounterOf(r, v) = c
      BY <1>2, <3>1, TheSlot
    <3> QED
      BY <2>2, <2>3, <3>2
  <2>4. CASE ~(t[n].valid /\ t[n].uid = v)
    <3>1. \A s \in Slot : t[s].valid /\ t[s].uid = v => r[s].counter = t[s].counter
      BY <1>1, <2>4
    <3>2. CounterOf(r, v) = CounterOf(t, v)
      BY <2>1, <3>1, SameUser
    <3> QED
      BY <2>2, <2>4, <3>2
  <2> QED
    BY <2>3, <2>4
<1> QED
  BY <1>2, <1>3, <1>4

\* So it is with a queued counter in the copy.
LEMMA CounterInEffect ==
  ASSUME NEW t \in Table, OneSlot(t), NEW u, NEW c \in Counter
  PROVE  LET r == CounterIn(t, u, c)
         IN  /\ r \in Table /\ OneSlot(r) /\ Secrets(r) = Secrets(t)
             /\ ~In(t, u) => r = t
             /\ \A v : /\ In(r, v) <=> In(t, v)
                       /\ KeyOf(r, v) = KeyOf(t, v)
                       /\ In(t, u) /\ u = v => CounterOf(r, v) = c
                       /\ ~(In(t, u) /\ u = v) => CounterOf(r, v) = CounterOf(t, v)
<1>1. CASE In(t, u)
  <2> DEFINE n == First(SlotsOf(t, u))
             r == CounterIn(t, u, c)
  <2>1. n \in Slot /\ t[n].valid /\ t[n].uid = u
    BY <1>1, HasSlot
  <2>2. r = [t EXCEPT ![n].counter = c]
    BY <1>1 DEF CounterIn, In
  <2> HIDE DEF n, r
  <2>3. r \in Table /\ NewCounter(t, r, n, c)
    BY <2>1, <2>2, CounterFields
  <2>4. /\ OneSlot(r) /\ Secrets(r) = Secrets(t)
        /\ \A v : /\ In(r, v) <=> In(t, v)
                  /\ KeyOf(r, v) = KeyOf(t, v)
                  /\ t[n].valid /\ t[n].uid = v => CounterOf(r, v) = c
                  /\ ~(t[n].valid /\ t[n].uid = v) => CounterOf(r, v) = CounterOf(t, v)
    BY <2>1, <2>3, CounterEffect
  <2> QED
    BY <1>1, <2>1, <2>3, <2>4 DEF r
<1>2. CASE ~In(t, u)
  BY <1>2 DEF CounterIn, In
<1> QED
  BY <1>1, <1>2

-----------------------------------------------------------------------------
(***************************************************************************)
(* The steps                                                               *)
(***************************************************************************)

USE DEF store, nvs, hist

\* The commands of dn/secret that change the table.
Changes == \/ \E u \in Uid, k \in Kid \ {NoKey} : SetSecret(u, k)
           \/ \E u \in Uid : DelSecret(u)
           \/ WipeSecrets

\* Every step is one of these.
LEMMA Steps ==
  ASSUME [Next]_vars
  PROVE  \/ Changes \/ (\E u \in Uid, op \in {"set", "del"} : Refuse(u, op))
         \/ SaveCopy \/ SaveUsers \/ SaveKid \/ Flush \/ CounterWork
         \/ (\E u \in Uid, k \in Kid, c \in Counter : Lookup(u, k, c))
         \/ (\E u \in Uid : LookupFails(u))
         \/ VerifyMac \/ CheckCounter \/ QueueCounter \/ Reboot \/ UNCHANGED vars
BY DEF Next, UplinkThread, UnlockQueue, Changes

\* A command changes the users it is about and no other.
Change(about, k) ==
  /\ dn.pc = "idle" /\ dn' = [pc |-> "lock", about |-> about, key |-> k]
  /\ acked' = [u \in Uid |-> IF u \in about THEN Unknown ELSE acked[u]]
  /\ expect' = IF un.uid \in about THEN Unknown ELSE expect
  /\ users' \in Table /\ OneSlot(users')
  /\ kid' \in Kid /\ (kid' = kid \/ kid' \in Secrets(users'))
  /\ last' \in [Uid -> Counter]
  /\ ops' = ops + 1
  /\ UNCHANGED <<mirror, pkid, dirty, timer, flash, held, faults, un, crashes>>

NewFor(about, k) ==
  \A u \in about :
    /\ KeyOf(users', u) = k
    /\ In(users', u) =>
         \/ last'[u] = 0
         \/ /\ last'[u] = last[u] /\ In(users, u)
            /\ CounterOf(users', u) = CounterOf(users, u)
            /\ \A s \in Slot : users[s].valid /\ users[s].uid = u
                                 => users'[s].valid /\ users'[s].uid = u

SameForOthers(about) ==
  /\ \A u \in Uid \ about : /\ In(users', u) <=> In(users, u)
                            /\ KeyOf(users', u) = KeyOf(users, u)
                            /\ CounterOf(users', u) = CounterOf(users, u)
                            /\ last'[u] = last[u]
  /\ \A s \in Slot : users[s].valid /\ users[s].uid \in Uid \ about => users'[s] = users[s]

LEMMA ChangeEffect ==
  ASSUME TypeOK, SlotInv, Changes
  PROVE  \E about \in SUBSET Uid, k \in Kid :
           Change(about, k) /\ NewFor(about, k) /\ SameForOthers(about)
<1>1. users \in Table /\ OneSlot(users) /\ kid \in Kid /\ last \in [Uid -> Counter]
  BY DEF TypeOK, SlotInv
<1>2. 0 \in Counter /\ NoKey \in Kid
  BY KeyStoreBounds DEF Counter, NoKey, Kid
<1> DEFINE T == users'
<1>3. ASSUME NEW u \in Uid, NEW k \in Kid, SetSecret(u, k)
      PROVE  Change({u}, k) /\ NewFor({u}, k) /\ SameForOthers({u})
  <2>1. In(users, u) \/ Free(users) # {}
    BY <1>3 DEF SetSecret, In
  <2>2. T = SetIn(users, u, k)
    BY <1>3 DEF SetSecret
  <2> HIDE DEF T
  <2>3. /\ T \in Table /\ OneSlot(T) /\ k \in Secrets(T)
        /\ KeyOf(T, u) = k
        /\ In(users, u) => CounterOf(T, u) = CounterOf(users, u)
        /\ \A s \in Slot : users[s].valid /\ users[s].uid = u => T[s].valid /\ T[s].uid = u
        /\ \A s \in Slot : users[s].valid /\ users[s].uid # u => T[s] = users[s]
        /\ \A v \in Uid \ {u} : /\ In(T, v) <=> In(users, v)
                                /\ KeyOf(T, v) = KeyOf(users, v)
                                /\ CounterOf(T, v) = CounterOf(users, v)
    BY <1>1, <2>1, <2>2, SetInEffect
  <2>4. /\ last' \in [Uid -> Counter]
        /\ \A v \in Uid \ {u} : last'[v] = last[v]
        /\ last'[u] = 0 \/ (In(users, u) /\ last'[u] = last[u])
    BY <1>1, <1>2, <1>3 DEF SetSecret, In
  <2>5. /\ dn.pc = "idle" /\ kid' = k /\ Begin({u}, k)
        /\ UNCHANGED <<mirror, pkid, dirty, timer, flash, held, faults, un, crashes>>
    BY <1>3 DEF SetSecret
  <2>6. Change({u}, k)
    BY <2>3, <2>4, <2>5 DEF Change, Begin, T
  <2>7. NewFor({u}, k)
    BY <2>3, <2>4 DEF NewFor, T
  <2>8. SameForOthers({u})
    BY <2>3, <2>4 DEF SameForOthers, T
  <2> QED
    BY <2>6, <2>7, <2>8
<1>4. ASSUME NEW u \in Uid, DelSecret(u)
      PROVE  Change({u}, NoKey) /\ NewFor({u}, NoKey) /\ SameForOthers({u})
  <2>1. In(users, u) /\ T = DelIn(users, u)
    BY <1>4 DEF DelSecret, In
  <2> HIDE DEF T
  <2>2. /\ T \in Table /\ OneSlot(T) /\ ~In(T, u)
        /\ \A s \in Slot : users[s].valid /\ users[s].uid # u => T[s] = users[s]
        /\ \A v \in Uid \ {u} : /\ In(T, v) <=> In(users, v)
                                /\ KeyOf(T, v) = KeyOf(users, v)
                                /\ CounterOf(T, v) = CounterOf(users, v)
    BY <1>1, <2>1, DelInEffect
  <2>3. KeyOf(T, u) = NoKey
    BY <2>2 DEF KeyOf, In
  <2>4. /\ dn.pc = "idle" /\ Begin({u}, NoKey)
        /\ UNCHANGED <<kid, mirror, pkid, dirty, timer, flash, held, faults, un, crashes, last>>
    BY <1>4 DEF DelSecret
  <2>5. Change({u}, NoKey)
    BY <1>1, <2>2, <2>4 DEF Change, Begin, T
  <2>6. NewFor({u}, NoKey)
    BY <2>2, <2>3 DEF NewFor, T
  <2>7. SameForOthers({u})
    BY <2>2, <2>4 DEF SameForOthers, T
  <2> QED
    BY <2>5, <2>6, <2>7
<1>5. ASSUME WipeSecrets
      PROVE  Change(Uid, NoKey) /\ NewFor(Uid, NoKey) /\ SameForOthers(Uid)
  <2>1. T = WipeIn(users)
    BY <1>5 DEF WipeSecrets
  <2> HIDE DEF T
  <2>2. T \in Table /\ OneSlot(T) /\ \A u : ~In(T, u)
    BY <1>1, <2>1, WipeInEffect
  <2>3. \A u : KeyOf(T, u) = NoKey
    BY <2>2 DEF KeyOf, In
  <2>4. /\ dn.pc = "idle" /\ Begin(Uid, NoKey)
        /\ UNCHANGED <<kid, mirror, pkid, dirty, timer, flash, held, faults, un, crashes, last>>
    BY <1>5 DEF WipeSecrets
  <2>5. Change(Uid, NoKey)
    BY <1>1, <2>2, <2>4 DEF Change, Begin, T
  <2>6. NewFor(Uid, NoKey)
    BY <2>2, <2>3 DEF NewFor, T
  <2>7. SameForOthers(Uid)
    BY DEF SameForOthers
  <2> QED
    BY <2>5, <2>6, <2>7
<1>6. \A u \in Uid : {u} \in SUBSET Uid
  OBVIOUS
<1> QED
  BY <1>2, <1>3, <1>4, <1>5, <1>6 DEF Changes

\* A grant is a new counter in the slot that was looked up.
LEMMA CheckEffect ==
  ASSUME TypeOK, SlotInv, CheckCounter
  PROVE  /\ un.pc = "check" /\ users' \in Table
         /\ \/ /\ users' = users /\ last' = last /\ un' = UnIdle /\ expect' = Unknown
            \/ /\ NewCounter(users, users', un.slot, un.ctr)
               /\ un.ctr > users[un.slot].counter
               /\ un' = [un EXCEPT !.pc = "queue"]
               /\ last' = IF Own THEN [last EXCEPT ![un.uid] = un.ctr] ELSE last
               /\ expect' = expect
         /\ UNCHANGED <<kid, mirror, pkid, dirty, timer, flash, held, faults, dn, ops,
                        crashes, acked>>
<1>1. users \in Table /\ un.slot \in Slot /\ un.ctr \in Counter
  BY DEF TypeOK
<1>2. CASE un.ctr > users[un.slot].counter
  <2> DEFINE T == users'
  <2>1. T = [users EXCEPT ![un.slot].counter = un.ctr]
    BY <1>2 DEF CheckCounter
  <2> HIDE DEF T
  <2>2. T \in Table /\ NewCounter(users, T, un.slot, un.ctr)
    BY <1>1, <2>1, CounterFields
  <2> QED
    BY <1>2, <2>2 DEF CheckCounter, T
<1>3. CASE ~(un.ctr > users[un.slot].counter)
  BY <1>1, <1>3 DEF CheckCounter, Leave
<1> QED
  BY <1>2, <1>3

\* What a reboot finds.
Found(t, k) ==
  /\ t \in {flash.users, NoUsers} /\ k \in {flash.kid, 0}
  /\ users' = t /\ mirror' = t /\ kid' = k /\ pkid' = k
  /\ last' = [u \in Uid |-> CounterOf(t, u)]
  /\ \/ t = flash.users /\ k = flash.kid /\ faults' = faults
     \/ "load" \in Faults /\ faults' = faults \cup {"load"}
  /\ dirty' = FALSE /\ timer' = FALSE
  /\ dn' = DnIdle /\ un' = UnIdle /\ expect' = Unknown
  /\ crashes' = crashes + 1
  /\ UNCHANGED <<flash, held, ops, acked>>

LEMMA RebootEffect ==
  ASSUME TypeOK, SlotInv, Reboot
  PROVE  \E t \in Table, k \in Kid :
           /\ Found(t, k) /\ OneSlot(t)
           /\ t # flash.users => \A u : ~In(t, u) /\ KeyOf(t, u) = NoKey
<1>1. NoUsers \in Table /\ OneSlot(NoUsers) /\ \A u : ~In(NoUsers, u)
  <2>1. NoUser \in UserKey
    BY KeyStoreBounds DEF NoUser, UserKey, Kid, Counter, NoKey
  <2>2. NoUsers \in Table
    BY <2>1 DEF NoUsers, Table
  <2>3. \A s \in Slot : ~NoUsers[s].valid
    BY DEF NoUsers, NoUser
  <2> QED
    BY <2>2, <2>3 DEF OneSlot, In, SlotsOf
<1>2. \A u : KeyOf(NoUsers, u) = NoKey
  BY <1>1 DEF KeyOf, In
<1>3. flash.users \in Table /\ flash.kid \in Kid /\ 0 \in Kid /\ OneSlot(flash.users)
  BY KeyStoreBounds DEF TypeOK, SlotInv, Kid
<1>4. PICK t \in {flash.users, NoUsers}, k \in {flash.kid, 0} : Found(t, k)
  BY DEF Reboot, Fault, Found
<1> QED
  BY <1>1, <1>2, <1>3, <1>4

\* A table written to flash is the copy; one not written is a failure.
LEMMA WriteEffect ==
  ASSUME WriteUsers \/ WriteUsersFails
  PROVE  \/ /\ flash' = [flash EXCEPT !.users = mirror] /\ dirty' = FALSE
            /\ held' = held \cup Secrets(mirror) /\ faults' = faults
         \/ /\ UNCHANGED <<flash, held, dirty>>
            /\ "write" \in Faults /\ faults' = faults \cup {"write"}
BY DEF WriteUsers, WriteUsersFails, Fault, Secrets

\* Finishing a command tells the server what it was about.
LEMMA FinishType ==
  ASSUME TypeOK, NEW ok \in BOOLEAN, Finish(ok)
  PROVE  dn' = DnIdle /\ acked' \in [Uid -> Belief]
<1>1. acked \in [Uid -> Belief] /\ dn.key \in Belief
  BY DEF TypeOK, Belief
<1> QED
  BY <1>1 DEF Finish

\* What is written keeps its type.
LEMMA WriteType ==
  ASSUME TypeOK, WriteUsers \/ WriteUsersFails \/ UNCHANGED <<flash, held, faults, dirty>>
  PROVE  /\ flash' \in [users : Table, kid : Kid] /\ held' \subseteq Kid
         /\ faults' \subseteq Faults /\ dirty' \in BOOLEAN
<1>1. /\ flash \in [users : Table, kid : Kid] /\ held \subseteq Kid
      /\ faults \subseteq Faults /\ dirty \in BOOLEAN /\ mirror \in Table
  BY DEF TypeOK
<1>2. Secrets(mirror) \subseteq Kid
  BY <1>1 DEF Secrets, Table, UserKey
<1>3. CASE UNCHANGED <<flash, held, faults, dirty>>
  BY <1>1, <1>3
<1>4. CASE WriteUsers \/ WriteUsersFails
  <2>1. CASE /\ flash' = [flash EXCEPT !.users = mirror] /\ dirty' = FALSE
             /\ held' = held \cup Secrets(mirror) /\ faults' = faults
    <3>1. dirty' \in BOOLEAN
      BY <2>1
    <3>2. flash' \in [users : Table, kid : Kid]
      BY <1>1, <2>1
    <3> QED
      BY <1>1, <1>2, <2>1, <3>1, <3>2
  <2>2. CASE /\ UNCHANGED <<flash, held, dirty>>
             /\ "write" \in Faults /\ faults' = faults \cup {"write"}
    BY <1>1, <2>2
  <2> QED
    BY <1>4, <2>1, <2>2, WriteEffect
<1> QED
  BY <1>3, <1>4

\* Every step keeps the types.
LEMMA StepTypeOK ==
  ASSUME TypeOK, SlotInv, [Next]_vars
  PROVE  TypeOK'
<1>1. /\ users \in Table /\ mirror \in Table /\ kid \in Kid /\ pkid \in Kid
      /\ dirty \in BOOLEAN /\ timer \in BOOLEAN
      /\ flash \in [users : Table, kid : Kid]
      /\ ops \in Nat /\ crashes \in Nat
      /\ acked \in [Uid -> Belief] /\ expect \in Belief /\ last \in [Uid -> Counter]
      /\ held \subseteq Kid /\ faults \subseteq Faults
  BY DEF TypeOK
<1> DEFINE Dn == [pc : {"idle", "lock", "users", "kid"}, about : SUBSET Uid, key : Kid]
           Un == [pc : {"idle", "verify", "check", "queue", "done"}, slot : Slot,
                  uid : Uid \cup {NoUid}, key : Kid, ctr : Counter]
<1>2. dn \in Dn /\ un \in Un
  BY DEF TypeOK
<1>3. /\ 0 \in Kid /\ 0 \in Counter /\ 1 \in Slot /\ Unknown \in Belief /\ Kid \subseteq Belief
      /\ NoKey \in Kid
  BY UidAssumption, KeyStoreBounds DEF Kid, Counter, Slot, Belief, NoKey
<1>4. DnIdle \in Dn /\ UnIdle \in Un
  BY <1>3 DEF DnIdle, UnIdle
<1> HIDE DEF Dn, Un
<1>5. CASE Changes
  <2>1. PICK about \in SUBSET Uid, k \in Kid : Change(about, k)
    BY <1>5, ChangeEffect
  <2>2. dn' \in Dn
    BY <2>1 DEF Change, Dn
  <2>3. acked' \in [Uid -> Belief] /\ expect' \in Belief
    BY <1>1, <1>3, <2>1 DEF Change
  <2>4. ops' \in Nat
    BY <1>1, <2>1 DEF Change
  <2>5. UNCHANGED <<mirror, pkid, dirty, timer, flash, held, faults, un, crashes>>
        /\ users' \in Table /\ kid' \in Kid /\ last' \in [Uid -> Counter]
    BY <2>1 DEF Change
  <2> QED
    BY <1>1, <1>2, <2>2, <2>3, <2>4, <2>5 DEF TypeOK, Dn, Un
<1>6. CASE \E u \in Uid, op \in {"set", "del"} : Refuse(u, op)
  <2>1. acked' \in [Uid -> Belief] /\ ops' \in Nat
    BY <1>1, <1>3, <1>6 DEF Refuse
  <2>2. UNCHANGED <<store, nvs, dn, un, crashes, expect, last>>
    BY <1>6 DEF Refuse
  <2> QED
    BY <1>1, <1>2, <2>1, <2>2 DEF TypeOK, Dn, Un
<1>7. CASE SaveCopy
  <2>1. dn' \in Dn
    BY <1>2, <1>7 DEF SaveCopy, Dn
  <2>2. mirror' \in Table /\ pkid' \in Kid
    BY <1>1, <1>7 DEF SaveCopy
  <2>3. UNCHANGED <<users, kid, dirty, timer, nvs, un, ops, crashes, hist>>
    BY <1>7 DEF SaveCopy
  <2> QED
    BY <1>1, <1>2, <2>1, <2>2, <2>3 DEF TypeOK, Dn, Un
<1>8. CASE SaveUsers
  <2>1. dn' \in Dn /\ acked' \in [Uid -> Belief]
    <3>1. CASE dn' = [dn EXCEPT !.pc = "kid"] /\ UNCHANGED acked
      BY <1>1, <1>2, <3>1 DEF Dn
    <3>2. CASE Finish(FALSE)
      BY <1>4, <3>2, FinishType
    <3> QED
      BY <1>8, <3>1, <3>2 DEF SaveUsers
  <2>2. WriteUsers \/ WriteUsersFails
    BY <1>8 DEF SaveUsers
  <2>3. UNCHANGED <<users, kid, mirror, pkid, timer, un, ops, crashes, expect, last>>
    BY <1>8 DEF SaveUsers
  <2> QED
    BY <1>1, <1>2, <2>1, <2>2, <2>3, WriteType DEF TypeOK, Dn, Un
<1>9. CASE SaveKid
  <2>1. dn' \in Dn /\ acked' \in [Uid -> Belief]
    BY <1>4, <1>9, FinishType DEF SaveKid
  <2>2. flash' \in [users : Table, kid : Kid]
    BY <1>1, <1>9 DEF SaveKid
  <2>3. faults' \subseteq Faults
    BY <1>1, <1>9 DEF SaveKid, Fault
  <2>4. UNCHANGED <<store, held, un, ops, crashes, expect, last>>
    BY <1>9 DEF SaveKid
  <2> QED
    BY <1>1, <1>2, <2>1, <2>2, <2>3, <2>4 DEF TypeOK, Dn, Un
<1>10. CASE Flush \/ CounterWork
  <2>1. WriteUsers \/ WriteUsersFails \/ UNCHANGED <<flash, held, faults, dirty>>
    BY <1>10 DEF Flush, CounterWork, WriteCounters
  <2>2. UNCHANGED <<users, kid, mirror, pkid, dn, un, ops, crashes, acked, expect, last>>
    BY <1>10 DEF Flush, CounterWork
  <2>3. timer' = FALSE
    BY <1>10 DEF Flush, CounterWork
  <2>4. timer' \in BOOLEAN
    BY <2>3
  <2> QED
    BY <1>1, <1>2, <2>1, <2>2, <2>4, WriteType DEF TypeOK, Dn, Un
<1>11. CASE \E u \in Uid, k \in Kid, c \in Counter : Lookup(u, k, c)
  <2>1. PICK u \in Uid, k \in Kid, c \in Counter : Lookup(u, k, c)
    BY <1>11
  <2>2. First(SlotsOf(users, u)) \in Slot
    BY <2>1, HasSlot DEF Lookup, In
  <2>3. un' \in Un
    BY <2>1, <2>2 DEF Lookup, Un
  <2>4. expect' \in Belief /\ UNCHANGED <<store, nvs, dn, ops, crashes, acked, last>>
    BY <1>1, <2>1 DEF Lookup
  <2> QED
    BY <1>1, <1>2, <2>3, <2>4 DEF TypeOK, Dn, Un
<1>12. CASE (\E u \in Uid : LookupFails(u)) \/ VerifyMac
  <2>1. un' \in Un
    BY <1>2, <1>4, <1>12 DEF LookupFails, VerifyMac, Leave, Un
  <2>2. expect' \in Belief /\ UNCHANGED <<store, nvs, dn, ops, crashes, acked, last>>
    BY <1>1, <1>3, <1>12 DEF LookupFails, VerifyMac, Leave
  <2> QED
    BY <1>1, <1>2, <2>1, <2>2 DEF TypeOK, Dn, Un
<1>13. CASE CheckCounter
  <2>1. users' \in Table /\ UNCHANGED <<kid, mirror, pkid, dirty, timer, flash, held, faults,
                                        dn, ops, crashes, acked>>
    BY <1>13, CheckEffect
  <2>2. un' \in Un
    BY <1>2, <1>4, <1>13, CheckEffect DEF Un
  <2>3. last' \in [Uid -> Counter]
    <3>1. un.ctr \in Counter
      BY <1>2 DEF Un
    <3> QED
      BY <1>1, <1>13, <3>1, CheckEffect
  <2>4. expect' \in Belief
    BY <1>1, <1>3, <1>13, CheckEffect
  <2> QED
    BY <1>1, <1>2, <2>1, <2>2, <2>3, <2>4 DEF TypeOK, Dn, Un
<1>14. CASE QueueCounter
  <2>1. mirror' \in Table
    <3>1. un.ctr \in Counter /\ OneSlot(mirror)
      BY <1>2 DEF Un, SlotInv
    <3> QED
      BY <1>1, <1>14, <3>1, CounterInEffect DEF QueueCounter
  <2>2. dirty' = (dirty \/ SlotsOf(mirror, un.uid) # {}) /\ timer' = TRUE
    BY <1>14 DEF QueueCounter
  <2>3. dirty' \in BOOLEAN /\ timer' \in BOOLEAN
    BY <2>2, Zenon
  <2>4. un' \in Un /\ expect' \in Belief
    BY <1>3, <1>4, <1>14 DEF QueueCounter, Leave
  <2>5. UNCHANGED <<users, kid, pkid, nvs, dn, ops, crashes, acked, last>>
    BY <1>14 DEF QueueCounter
  <2> QED
    BY <1>1, <1>2, <2>1, <2>3, <2>4, <2>5 DEF TypeOK, Dn, Un
<1>15. CASE Reboot
  <2>1. PICK t \in Table, k \in Kid : Found(t, k)
    BY <1>15, RebootEffect
  <2>2. users' \in Table /\ mirror' \in Table /\ kid' \in Kid /\ pkid' \in Kid
    BY <2>1 DEF Found
  <2>3. last' \in [Uid -> Counter]
    BY <2>1, KeyType DEF Found
  <2>4. faults' \subseteq Faults
    BY <1>1, <2>1 DEF Found
  <2>5. dirty' = FALSE /\ timer' = FALSE
    BY <2>1 DEF Found
  <2>6. dirty' \in BOOLEAN /\ timer' \in BOOLEAN
    BY <2>5, Zenon
  <2>7. dn' \in Dn /\ un' \in Un /\ expect' \in Belief
    BY <1>3, <1>4, <2>1 DEF Found
  <2>8. crashes' \in Nat /\ UNCHANGED <<flash, held, ops, acked>>
    BY <1>1, <2>1 DEF Found
  <2> QED
    BY <1>1, <2>2, <2>3, <2>4, <2>6, <2>7, <2>8 DEF TypeOK, Dn, Un
<1>16. CASE UNCHANGED vars
  <2>1. UNCHANGED <<store, nvs, dn, un, ops, crashes, hist>>
    BY <1>16 DEF vars
  <2> QED
    BY <1>1, <1>2, <2>1 DEF TypeOK, Dn, Un
<1> QED
  BY <1>5, <1>6, <1>7, <1>8, <1>9, <1>10, <1>11, <1>12, <1>13, <1>14, <1>15, <1>16, Steps

\* Every step keeps every user to one slot.
LEMMA StepSlotInv ==
  ASSUME TypeOK, SlotInv, [Next]_vars
  PROVE  SlotInv'
<1>1. /\ OneSlot(users) /\ OneSlot(mirror) /\ OneSlot(flash.users)
      /\ un.pc # "idle" => un.uid \in Uid
      /\ users \in Table /\ mirror \in Table /\ un.slot \in Slot /\ un.ctr \in Counter
      /\ flash \in [users : Table, kid : Kid]
  BY DEF SlotInv, TypeOK
<1>2. CASE Changes
  <2>1. OneSlot(users') /\ UNCHANGED <<mirror, flash, un>>
    BY <1>2, ChangeEffect DEF Change
  <2> QED
    BY <1>1, <2>1 DEF SlotInv, OneSlot
<1>3. CASE (\E u \in Uid, op \in {"set", "del"} : Refuse(u, op)) \/ UNCHANGED vars
  <2>1. UNCHANGED <<users, mirror, flash, un>>
    BY <1>3 DEF Refuse, vars
  <2> QED
    BY <1>1, <2>1 DEF SlotInv, OneSlot
<1>4. CASE SaveCopy
  <2>1. mirror' = users /\ UNCHANGED <<users, flash, un>>
    BY <1>4 DEF SaveCopy
  <2> QED
    BY <1>1, <2>1 DEF SlotInv, OneSlot
<1>5. CASE SaveUsers \/ SaveKid \/ Flush \/ CounterWork
  <2>1. UNCHANGED <<users, mirror, un>>
    BY <1>5 DEF SaveUsers, SaveKid, Flush, CounterWork
  <2>2. flash'.users \in {flash.users, mirror}
    BY <1>1, <1>5, WriteEffect DEF SaveUsers, SaveKid, Flush, CounterWork, WriteCounters
  <2> QED
    BY <1>1, <2>1, <2>2 DEF SlotInv, OneSlot
<1>6. CASE \/ \E u \in Uid, k \in Kid, c \in Counter : Lookup(u, k, c)
           \/ \E u \in Uid : LookupFails(u)
           \/ VerifyMac
  <2>1. UNCHANGED <<users, mirror, flash>>
    BY <1>6 DEF Lookup, LookupFails, VerifyMac
  <2>2. un'.pc # "idle" => un'.uid \in Uid
    BY <1>1, <1>6 DEF Lookup, LookupFails, VerifyMac, Leave, UnIdle, TypeOK
  <2> QED
    BY <1>1, <2>1, <2>2 DEF SlotInv, OneSlot
<1>7. CASE CheckCounter
  <2>1. OneSlot(users')
    <3>1. CASE users' = users
      BY <1>1, <3>1
    <3>2. CASE NewCounter(users, users', un.slot, un.ctr)
      <4>1. users' \in Table
        BY <1>7, CheckEffect
      <4> QED
        BY <1>1, <3>2, <4>1, CounterEffect
    <3> QED
      BY <1>7, <3>1, <3>2, CheckEffect
  <2>2. un'.pc # "idle" => un'.uid \in Uid
    BY <1>1, <1>7, CheckEffect DEF UnIdle, TypeOK
  <2>3. UNCHANGED <<mirror, flash>>
    BY <1>7, CheckEffect
  <2> QED
    BY <1>1, <2>1, <2>2, <2>3 DEF SlotInv, OneSlot
<1>8. CASE QueueCounter
  <2>1. OneSlot(mirror')
    BY <1>1, <1>8, CounterInEffect DEF QueueCounter
  <2>2. un'.pc = "idle" /\ UNCHANGED <<users, flash>>
    BY <1>8 DEF QueueCounter, Leave, UnIdle
  <2> QED
    BY <1>1, <2>1, <2>2 DEF SlotInv, OneSlot
<1>9. CASE Reboot
  <2>1. PICK t \in Table, k \in Kid : Found(t, k) /\ OneSlot(t)
    BY <1>9, RebootEffect
  <2>2. users' = t /\ mirror' = t /\ flash' = flash /\ un'.pc = "idle"
    BY <2>1 DEF Found, UnIdle
  <2> QED
    BY <1>1, <2>1, <2>2 DEF SlotInv, OneSlot
<1> QED
  BY <1>2, <1>3, <1>4, <1>5, <1>6, <1>7, <1>8, <1>9, Steps

\* What a step does to flash: nothing, or the copy is written, or the kid is.
LEMMA FlashStep ==
  ASSUME TypeOK, SaveUsers \/ SaveKid \/ Flush \/ CounterWork
  PROVE  \/ /\ flash'.users = mirror /\ flash'.kid = flash.kid
            /\ held' = held \cup Secrets(mirror) /\ faults' = faults /\ dirty' = FALSE
            /\ ~SaveKid
         \/ /\ UNCHANGED <<flash, held, dirty>> /\ "write" \in faults'
            /\ \A f \in {"load", "write"} : f \in faults' => f \in faults \/ f = "write"
         \/ SaveKid /\ flash'.users = flash.users /\ flash'.kid = pkid
            /\ UNCHANGED <<held, faults, dirty>>
         \/ UNCHANGED <<flash, held, faults, dirty>> /\ ~dirty /\ (Flush \/ CounterWork)
<1>1. flash \in [users : Table, kid : Kid]
  BY DEF TypeOK
<1>2. CASE SaveKid
  BY <1>1, <1>2 DEF SaveKid, Fault
<1>3. CASE SaveUsers
  BY <1>1, <1>3, WriteEffect DEF SaveUsers, SaveKid
<1>4. CASE Flush \/ CounterWork
  <2>1. CASE dirty
    <3>1. ~SaveKid
      BY <1>4 DEF Flush, CounterWork, SaveKid, Locked
    <3> QED
      BY <1>1, <1>4, <2>1, <3>1, WriteEffect DEF Flush, CounterWork, WriteCounters
  <2>2. CASE ~dirty
    BY <1>4, <2>2 DEF Flush, CounterWork, WriteCounters
  <2> QED
    BY <2>1, <2>2
<1> QED
  BY <1>2, <1>3, <1>4

\* Every step keeps the generation behind its table.
LEMMA StepKidInv ==
  ASSUME TypeOK, SlotInv, KidInv, [Next]_vars
  PROVE  KidInv'
<1>1. CASE Changes
  <2>1. PICK about \in SUBSET Uid, k \in Kid : Change(about, k)
    BY <1>1, ChangeEffect
  <2>2. /\ dn.pc = "idle" /\ dn'.pc = "lock" /\ (kid' = kid \/ kid' \in Secrets(users'))
        /\ UNCHANGED <<flash, held, faults>>
    BY <2>1 DEF Change
  <2>3. kid' \in held' \cup Secrets(users') \/ "write" \in faults
    BY <2>2 DEF KidInv
  <2> QED
    BY <2>2, <2>3 DEF KidInv, Secrets
<1>2. CASE \/ \E u \in Uid, op \in {"set", "del"} : Refuse(u, op)
           \/ \E u \in Uid, k \in Kid, c \in Counter : Lookup(u, k, c)
           \/ \E u \in Uid : LookupFails(u)
           \/ VerifyMac \/ UNCHANGED vars
  <2>1. UNCHANGED <<users, kid, mirror, pkid, flash, held, faults, dn>>
    BY <1>2 DEF Refuse, Lookup, LookupFails, VerifyMac, vars
  <2> QED
    BY <2>1 DEF KidInv, Secrets
<1>3. CASE SaveCopy
  <2>1. dn.pc = "lock" /\ dn'.pc = "users"
    BY <1>3 DEF SaveCopy, TypeOK
  <2>2. /\ mirror' = users /\ pkid' = kid
        /\ UNCHANGED <<users, kid, flash, held, faults>>
    BY <1>3 DEF SaveCopy
  <2> QED
    BY <2>1, <2>2 DEF KidInv, Secrets
<1>4. CASE SaveUsers \/ SaveKid \/ Flush \/ CounterWork
  <2>1. UNCHANGED <<users, kid, mirror, pkid>>
    BY <1>4 DEF SaveUsers, SaveKid, Flush, CounterWork
  <2>2. \/ SaveUsers /\ dn.pc = "users" /\ dn'.pc \in {"kid", "idle"}
           /\ (dn'.pc = "idle" => "write" \in faults')
        \/ SaveKid /\ dn.pc = "kid" /\ dn'.pc = "idle"
        \/ (Flush \/ CounterWork) /\ dn'.pc = dn.pc /\ dn.pc \in {"idle", "lock"}
    <3>1. CASE SaveUsers
      BY <3>1 DEF SaveUsers, WriteUsersFails, Fault, Finish, DnIdle, TypeOK
    <3>2. CASE SaveKid
      BY <3>2 DEF SaveKid, Finish, DnIdle
    <3>3. CASE Flush \/ CounterWork
      BY <3>3 DEF Flush, CounterWork, Locked, TypeOK
    <3> QED
      BY <1>4, <3>1, <3>2, <3>3
  <2>3. held \subseteq held' /\ ("write" \notin faults' => "write" \notin faults)
    BY <1>4, FlashStep
  <2>4. CASE "write" \in faults'
    BY <2>3, <2>4 DEF KidInv
  <2>5. CASE "write" \notin faults'
    <3>1. SaveUsers => held' = held \cup Secrets(mirror)
      BY <2>5, FlashStep DEF SaveUsers, SaveKid, Flush, CounterWork, Locked
    <3>2. flash'.kid = flash.kid \/ (SaveKid /\ flash'.kid = pkid)
      BY <1>4, FlashStep
    <3>3. flash'.kid \in held' /\ NoKey \in held'
      <4>1. NoKey \in held /\ flash.kid \in held /\ (dn.pc = "kid" => pkid \in held)
        BY <2>3, <2>5 DEF KidInv
      <4>2. SaveKid => dn.pc = "kid"
        BY DEF SaveKid
      <4> QED
        BY <2>3, <3>2, <4>1, <4>2
    <3>4. dn'.pc = "idle" => kid' \in held'
      BY <2>1, <2>2, <2>3, <2>5 DEF KidInv
    <3>5. dn'.pc = "lock" => kid' \in held' \cup Secrets(users')
      BY <2>1, <2>2, <2>3, <2>5 DEF KidInv, Secrets
    <3>6. dn'.pc = "kid" => pkid' = kid' /\ pkid' \in held'
      BY <2>1, <2>2, <2>3, <2>5, <3>1 DEF KidInv
    <3>7. dn'.pc # "users"
      BY <2>2
    <3> QED
      BY <3>3, <3>4, <3>5, <3>6, <3>7 DEF KidInv
  <2> QED
    BY <2>4, <2>5
<1>5. CASE CheckCounter
  <2>1. Secrets(users') = Secrets(users)
    <3>1. CASE NewCounter(users, users', un.slot, un.ctr)
      BY <1>5, <3>1, CheckEffect, CounterEffect DEF TypeOK, SlotInv
    <3> QED
      BY <1>5, <3>1, CheckEffect
  <2>2. UNCHANGED <<kid, mirror, pkid, flash, held, faults, dn>>
    BY <1>5, CheckEffect
  <2>3. Secrets(mirror') = Secrets(mirror)
    BY <2>2 DEF Secrets
  <2> QED
    BY <2>1, <2>2, <2>3 DEF KidInv
<1>6. CASE QueueCounter
  <2>1. UNCHANGED <<users, kid, pkid, flash, held, faults, dn>> /\ dn.pc \notin {"users", "kid"}
    BY <1>6 DEF QueueCounter, Locked
  <2> QED
    BY <2>1 DEF KidInv, Secrets
<1>7. CASE Reboot
  <2>1. PICK t \in Table, k \in Kid : Found(t, k)
    BY <1>7, RebootEffect
  <2>2. /\ kid' \in {flash.kid, 0} /\ dn'.pc = "idle" /\ UNCHANGED <<flash, held>>
        /\ ("write" \notin faults' => "write" \notin faults)
    BY <2>1 DEF Found, DnIdle
  <2> QED
    BY <2>2 DEF KidInv, NoKey
<1> QED
  BY <1>1, <1>2, <1>3, <1>4, <1>5, <1>6, <1>7, Steps

\* A table with the users and keys of another.
Same(t, r, u) == (In(r, u) <=> In(t, u)) /\ KeyOf(r, u) = KeyOf(t, u)

\* New counters leave it so.
LEMMA CountersSame ==
  ASSUME TypeOK, SlotInv, CheckCounter \/ QueueCounter, NEW u
  PROVE  Same(users, users', u) /\ Same(mirror, mirror', u)
<1>1. /\ users \in Table /\ OneSlot(users) /\ mirror \in Table /\ OneSlot(mirror)
      /\ un.slot \in Slot /\ un.ctr \in Counter
  BY DEF TypeOK, SlotInv
<1>2. CASE CheckCounter
  <2>1. mirror' = mirror /\ users' \in Table
    BY <1>2, CheckEffect
  <2>2. CASE users' = users
    BY <2>1, <2>2 DEF Same
  <2>3. CASE NewCounter(users, users', un.slot, un.ctr)
    BY <1>1, <2>1, <2>3, CounterEffect DEF Same
  <2> QED
    BY <1>2, <2>2, <2>3, CheckEffect
<1>3. CASE QueueCounter
  BY <1>1, <1>3, CounterInEffect DEF QueueCounter, Same
<1> QED
  BY <1>2, <1>3

\* Every step keeps the beliefs true.
LEMMA StepAckInv ==
  ASSUME TypeOK, SlotInv, AckInv, [Next]_vars
  PROVE  AckInv'
<1> SUFFICES ASSUME NEW u \in Uid PROVE AckOf(u)'
  BY DEF AckInv
<1>1. AckOf(u) /\ acked \in [Uid -> Belief]
  BY DEF AckInv, TypeOK
<1>2. CASE Changes
  <2>1. PICK about \in SUBSET Uid, k \in Kid :
          Change(about, k) /\ NewFor(about, k) /\ SameForOthers(about)
    BY <1>2, ChangeEffect
  <2>2. /\ dn' = [pc |-> "lock", about |-> about, key |-> k]
        /\ acked'[u] = IF u \in about THEN Unknown ELSE acked[u]
        /\ UNCHANGED <<mirror, flash, faults>>
    BY <2>1 DEF Change
  <2>3. CASE u \in about
    <3>1. KeyOf(users', u) = k
      BY <2>1, <2>3 DEF NewFor
    <3> QED
      BY <2>2, <2>3, <3>1 DEF AckOf, Believed, UnderWay
  <2>4. CASE u \notin about
    <3>1. Same(users, users', u)
      BY <2>1, <2>4 DEF SameForOthers, Same
    <3> QED
      BY <1>1, <2>2, <2>4, <3>1 DEF AckOf, Believed, UnderWay, Same
  <2> QED
    BY <2>3, <2>4
<1>3. CASE \/ \E v \in Uid, op \in {"set", "del"} : Refuse(v, op)
           \/ \E v \in Uid, k \in Kid, c \in Counter : Lookup(v, k, c)
           \/ \E v \in Uid : LookupFails(v)
           \/ VerifyMac \/ CheckCounter \/ QueueCounter \/ UNCHANGED vars
  <2>1. Same(users, users', u) /\ Same(mirror, mirror', u)
    <3>1. CASE CheckCounter \/ QueueCounter
      BY <3>1, CountersSame
    <3>2. CASE ~(CheckCounter \/ QueueCounter)
      BY <1>3, <3>2 DEF Refuse, Lookup, LookupFails, VerifyMac, vars, Same
    <3> QED
      BY <3>1, <3>2
  <2>2. UNCHANGED <<flash, faults, dn>>
    BY <1>3, CheckEffect DEF Refuse, Lookup, LookupFails, VerifyMac, QueueCounter, vars
  <2>3. acked'[u] \in {acked[u], Unknown}
    BY <1>1, <1>3, CheckEffect DEF Refuse, Lookup, LookupFails, VerifyMac, QueueCounter, vars
  <2> QED
    BY <1>1, <2>1, <2>2, <2>3 DEF AckOf, Believed, UnderWay, Same
<1>4. CASE SaveCopy
  <2>1. dn.pc = "lock" /\ dn' = [dn EXCEPT !.pc = "users"]
    BY <1>4 DEF SaveCopy
  <2>2. dn'.pc = "users" /\ dn'.about = dn.about /\ dn'.key = dn.key
    BY <2>1 DEF TypeOK
  <2>3. mirror' = users /\ UNCHANGED <<users, flash, faults, acked>>
    BY <1>4 DEF SaveCopy
  <2> QED
    BY <1>1, <2>1, <2>2, <2>3 DEF AckOf, Believed, UnderWay
<1>5. CASE SaveUsers \/ SaveKid \/ Flush \/ CounterWork
  <2>1. UNCHANGED <<users, mirror>>
    BY <1>5 DEF SaveUsers, SaveKid, Flush, CounterWork
  <2>2. flash'.users \in {flash.users, mirror} /\ ("load" \in faults' <=> "load" \in faults)
    <3>1. CASE SaveKid
      <4>1. flash'.users = flash.users
        BY <3>1 DEF SaveKid, TypeOK
      <4> QED
        BY <3>1, <4>1 DEF SaveKid, Fault
    <3>2. CASE ~SaveKid
      <4>1. \/ faults' = faults
            \/ faults' = faults \cup {"write"}
        BY <1>5, <3>2, WriteEffect DEF SaveUsers, Flush, CounterWork, WriteCounters
      <4> QED
        BY <1>5, <3>2, <4>1, FlashStep
    <3> QED
      BY <3>1, <3>2
  <2>3. CASE dn' = dn /\ acked' = acked /\ dn.pc \in {"idle", "lock"}
    BY <1>1, <2>1, <2>2, <2>3 DEF AckOf, Believed, UnderWay
  <2>4. CASE SaveUsers /\ dn' = [dn EXCEPT !.pc = "kid"] /\ flash'.users = mirror
    <3>1. dn.pc = "users" /\ acked' = acked
      BY <2>4 DEF SaveUsers, Finish, DnIdle, TypeOK
    <3>2. dn'.pc = "kid" /\ dn'.about = dn.about /\ dn'.key = dn.key
      BY <2>4 DEF TypeOK
    <3> QED
      BY <1>1, <2>1, <2>2, <2>4, <3>1, <3>2 DEF AckOf, Believed, UnderWay
  <2>5. CASE dn' = DnIdle /\ acked'[u] = acked[u]
    BY <1>1, <2>1, <2>2, <2>5 DEF AckOf, Believed, UnderWay, DnIdle
  <2>6. CASE SaveKid /\ dn' = DnIdle /\ u \in dn.about /\ acked'[u] = dn.key
    <3>1. dn.pc = "kid" /\ flash'.users = flash.users
      BY <2>6 DEF SaveKid, TypeOK
    <3> QED
      BY <1>1, <2>1, <2>6, <3>1 DEF AckOf, Believed, UnderWay, DnIdle
  <2>7. CASE SaveUsers
    <3>1. CASE WriteUsers /\ dn' = [dn EXCEPT !.pc = "kid"]
      BY <2>4, <2>7, <3>1 DEF WriteUsers, TypeOK
    <3>2. CASE Finish(FALSE)
      BY <1>1, <2>5, <3>2 DEF Finish
    <3> QED
      BY <2>7, <3>1, <3>2 DEF SaveUsers
  <2>8. CASE SaveKid
    BY <1>1, <2>5, <2>6, <2>8 DEF SaveKid, Finish
  <2>9. CASE Flush \/ CounterWork
    BY <2>3, <2>9 DEF Flush, CounterWork, Locked, TypeOK
  <2> QED
    BY <1>5, <2>7, <2>8, <2>9
<1>6. CASE Reboot
  <2>1. PICK t \in Table, k \in Kid :
          /\ Found(t, k)
          /\ t # flash.users => \A v : ~In(t, v) /\ KeyOf(t, v) = NoKey
    BY <1>6, RebootEffect
  <2>2. /\ users' = t /\ mirror' = t /\ dn' = DnIdle /\ UNCHANGED <<flash, acked>>
        /\ t # flash.users => "load" \in faults'
        /\ "load" \notin faults' => "load" \notin faults
    BY <2>1 DEF Found
  <2> QED
    BY <1>1, <2>1, <2>2 DEF AckOf, Believed, UnderWay, DnIdle
<1> QED
  BY <1>2, <1>3, <1>4, <1>5, <1>6, Steps

\* The steps of the uplink thread and the system work queue that touch neither
\* users[] nor a verification.
Background == \/ \E u \in Uid, op \in {"set", "del"} : Refuse(u, op)
              \/ SaveCopy \/ SaveUsers \/ SaveKid \/ Flush \/ CounterWork

LEMMA BackgroundEffect ==
  ASSUME Background
  PROVE  UNCHANGED <<users, kid, un, expect, last>>
BY DEF Background, Refuse, SaveCopy, SaveUsers, SaveKid, Flush, CounterWork

\* Every step keeps a verification with the believed key.
LEMMA StepExpectInv ==
  ASSUME TypeOK, SlotInv, AckInv, ExpectInv, [Next]_vars
  PROVE  ExpectInv'
<1> SUFFICES ASSUME expect' # Unknown
             PROVE  /\ un'.pc = "verify" => Own' /\ users'[un'.slot].secret = expect'
                    /\ un'.pc = "check" => un'.key = expect'
  BY DEF ExpectInv
<1>1. CASE Changes
  <2>1. PICK about \in SUBSET Uid, k \in Kid : Change(about, k) /\ SameForOthers(about)
    BY <1>1, ChangeEffect
  <2>2. expect' = expect /\ un' = un /\ un.uid \notin about
    BY <2>1 DEF Change
  <2>3. CASE un.pc = "verify"
    <3>1. Own /\ users[un.slot].secret = expect /\ un.slot \in Slot /\ un.uid \in Uid
      BY <2>2, <2>3 DEF ExpectInv, SlotInv, TypeOK
    <3>2. users'[un.slot] = users[un.slot]
      BY <2>1, <2>2, <3>1 DEF SameForOthers, Own
    <3> QED
      BY <2>2, <2>3, <3>1, <3>2 DEF Own
  <2>4. CASE un.pc # "verify"
    BY <2>2, <2>4 DEF ExpectInv
  <2> QED
    BY <2>3, <2>4
<1>2. CASE Background \/ UNCHANGED vars
  <2>1. UNCHANGED <<users, un, expect>>
    BY <1>2, BackgroundEffect DEF vars
  <2> QED
    BY <2>1 DEF ExpectInv, Own
<1>3. CASE \E u \in Uid, k \in Kid, c \in Counter : Lookup(u, k, c)
  <2>1. PICK u \in Uid, k \in Kid, c \in Counter : Lookup(u, k, c)
    BY <1>3
  <2> DEFINE s == First(SlotsOf(users, u))
  <2>2. In(users, u) /\ s \in Slot /\ users[s].valid /\ users[s].uid = u
    BY <2>1, HasSlot DEF Lookup, In
  <2>3. users[s].secret = KeyOf(users, u)
    BY <2>2 DEF KeyOf, In
  <2>4. expect' = acked[u] /\ users' = users
    BY <2>1 DEF Lookup
  <2>5. un'.pc = "verify" /\ un'.slot = s /\ un'.uid = u
    BY <2>1 DEF Lookup
  <2>6. KeyOf(users, u) = acked[u]
    BY <2>2, <2>4 DEF AckInv, AckOf, Believed
  <2> QED
    BY <2>2, <2>3, <2>4, <2>5, <2>6 DEF Own
<1>4. CASE (\E u \in Uid : LookupFails(u)) \/ QueueCounter \/ Reboot
  BY <1>4 DEF LookupFails, QueueCounter, Reboot, Leave
<1>5. CASE VerifyMac
  BY <1>5 DEF VerifyMac, Leave, ExpectInv, TypeOK
<1>6. CASE CheckCounter
  BY <1>6, CheckEffect DEF TypeOK
<1> QED
  BY <1>1, <1>2, <1>3, <1>4, <1>5, <1>6, Steps DEF Background

\* Every step keeps the counters at or above the last one granted.
LEMMA StepLastInv ==
  ASSUME TypeOK, SlotInv, LastInv, [Next]_vars
  PROVE  LastInv'
<1>1. /\ users \in Table /\ OneSlot(users) /\ mirror \in Table /\ OneSlot(mirror)
      /\ un.slot \in Slot /\ un.ctr \in Counter /\ last \in [Uid -> Counter]
      /\ Counter \subseteq Nat /\ 0 \in Counter
  BY KeyStoreBounds DEF TypeOK, SlotInv, Counter
<1>2. CASE Changes
  <2>1. PICK about \in SUBSET Uid, k \in Kid :
          Change(about, k) /\ NewFor(about, k) /\ SameForOthers(about)
    BY <1>2, ChangeEffect
  <2>2. UNCHANGED <<mirror, un>>
    BY <2>1 DEF Change
  <2>3. ASSUME NEW u \in Uid, In(users', u)
        PROVE  last'[u] = 0 \/ (/\ last'[u] = last[u] /\ In(users, u)
                                /\ CounterOf(users', u) = CounterOf(users, u))
    BY <2>1, <2>3 DEF NewFor, SameForOthers
  <2>4. ASSUME NEW u \in Uid, In(users', u)
        PROVE  /\ CounterOf(users', u) >= last'[u]
               /\ In(mirror', u) /\ ~(un'.pc = "queue" /\ un'.uid = u)
                    => CounterOf(mirror', u) >= last'[u]
    <3>1. CounterOf(users', u) \in Nat /\ CounterOf(mirror, u) \in Nat
      BY <1>1, <2>1, KeyType DEF Change
    <3> QED
      BY <2>2, <2>3, <2>4, <3>1 DEF LastInv
  <2>5. ASSUME un.pc \in {"verify", "check"}, In(users', un.uid)
        PROVE  Own' \/ last'[un.uid] = 0
    <3>1. un.uid \in Uid
      BY <2>5 DEF SlotInv
    <3>2. CASE last'[un.uid] # 0
      <4>1. In(users, un.uid) /\ last'[un.uid] = last[un.uid]
        BY <2>3, <2>5, <3>1, <3>2
      <4>2. Own
        BY <2>5, <3>2, <4>1 DEF LastInv
      <4>3. users'[un.slot].valid /\ users'[un.slot].uid = un.uid
        BY <1>1, <2>1, <2>5, <3>1, <3>2, <4>2 DEF NewFor, SameForOthers, Own
      <4> QED
        BY <2>2, <4>3 DEF Own
    <3> QED
      BY <3>2
  <2>6. ASSUME un.pc = "queue", In(users', un.uid)
        PROVE  last'[un.uid] <= un.ctr
    <3>1. un.uid \in Uid
      BY <2>6 DEF SlotInv
    <3>2. un.ctr \in Nat
      BY <1>1
    <3>3. In(users, un.uid) => last[un.uid] <= un.ctr
      BY <2>6 DEF LastInv
    <3> QED
      BY <2>3, <2>6, <3>1, <3>2, <3>3
  <2> QED
    BY <2>2, <2>4, <2>5, <2>6 DEF LastInv
<1>3. CASE Background \/ (\E u \in Uid : LookupFails(u)) \/ VerifyMac \/ UNCHANGED vars
  <2>1. UNCHANGED <<users, last>> /\ mirror' \in {mirror, users}
    BY <1>3, BackgroundEffect
       DEF Background, Refuse, SaveCopy, SaveUsers, SaveKid, Flush, CounterWork, LookupFails,
           VerifyMac, vars
  <2>2. \/ un' = un
        \/ un.pc = "idle" /\ un'.pc = "idle"
        \/ /\ un.pc = "verify" /\ un'.pc \in {"check", "idle"}
           /\ un'.pc = "check" => un'.slot = un.slot /\ un'.uid = un.uid
    BY <1>3, BackgroundEffect DEF LookupFails, VerifyMac, Leave, UnIdle, vars, TypeOK
  <2>3. ASSUME NEW u \in Uid, In(users', u)
        PROVE  /\ CounterOf(users', u) >= last'[u]
               /\ In(mirror', u) /\ ~(un'.pc = "queue" /\ un'.uid = u)
                    => CounterOf(mirror', u) >= last'[u]
    BY <2>1, <2>2, <2>3 DEF LastInv
  <2>4. un'.pc \in {"verify", "check"} /\ In(users', un'.uid) => Own' \/ last'[un'.uid] = 0
    BY <2>1, <2>2 DEF LastInv, Own
  <2>5. un'.pc = "queue" /\ In(users', un'.uid) => last'[un'.uid] <= un'.ctr
    BY <2>1, <2>2 DEF LastInv
  <2> QED
    BY <2>3, <2>4, <2>5 DEF LastInv
<1>4. CASE \E u \in Uid, k \in Kid, c \in Counter : Lookup(u, k, c)
  <2>1. PICK u \in Uid, k \in Kid, c \in Counter : Lookup(u, k, c)
    BY <1>4
  <2> DEFINE s == First(SlotsOf(users, u))
  <2>2. s \in Slot /\ users[s].valid /\ users[s].uid = u
    BY <2>1, HasSlot DEF Lookup, In
  <2>3. un'.pc = "verify" /\ un'.slot = s /\ un'.uid = u /\ un.pc = "idle"
        /\ UNCHANGED <<users, mirror, last>>
    BY <2>1 DEF Lookup
  <2>4. Own'
    BY <2>2, <2>3 DEF Own
  <2> QED
    BY <2>3, <2>4 DEF LastInv
<1>5. CASE CheckCounter
  <2>1. mirror' = mirror /\ users' \in Table /\ un.pc = "check" /\ un.uid \in Uid
    BY <1>5, CheckEffect DEF SlotInv
  <2>2. CASE users' = users /\ last' = last /\ un' = UnIdle
    BY <2>1, <2>2 DEF LastInv, UnIdle
  <2>3. CASE /\ NewCounter(users, users', un.slot, un.ctr)
             /\ un.ctr > users[un.slot].counter
             /\ un' = [un EXCEPT !.pc = "queue"]
             /\ last' = IF Own THEN [last EXCEPT ![un.uid] = un.ctr] ELSE last
    <3>1. un'.pc = "queue" /\ un'.uid = un.uid /\ un'.ctr = un.ctr
      BY <2>3 DEF TypeOK
    <3>2. \A v : /\ In(users', v) <=> In(users, v)
                 /\ users[un.slot].valid /\ users[un.slot].uid = v
                      => CounterOf(users', v) = un.ctr
                 /\ ~(users[un.slot].valid /\ users[un.slot].uid = v)
                      => CounterOf(users', v) = CounterOf(users, v)
      BY <1>1, <2>1, <2>3, CounterEffect
    <3>3. ASSUME NEW u \in Uid, In(users', u)
          PROVE  /\ CounterOf(users', u) >= last'[u]
                 /\ In(mirror', u) /\ ~(un'.pc = "queue" /\ un'.uid = u)
                      => CounterOf(mirror', u) >= last'[u]
      <4>1. In(users, u) /\ CounterOf(users, u) >= last[u]
            /\ (In(mirror, u) => CounterOf(mirror, u) >= last[u])
        BY <2>1, <3>2, <3>3 DEF LastInv
      <4>2. CASE Own /\ u = un.uid
        <5>1. last'[u] = un.ctr /\ CounterOf(users', u) = un.ctr
          BY <1>1, <2>1, <2>3, <3>2, <4>2 DEF Own
        <5>2. un.ctr \in Nat
          BY <1>1
        <5> QED
          BY <3>1, <4>2, <5>1, <5>2
      <4>3. CASE ~(Own /\ u = un.uid)
        <5>1. last'[u] = last[u]
          BY <1>1, <2>1, <2>3, <4>3
        <5>2. CASE users[un.slot].valid /\ users[un.slot].uid = u
          <6>1. CounterOf(users', u) = un.ctr /\ CounterOf(users, u) = users[un.slot].counter
            BY <1>1, <3>2, <5>2, TheSlot
          <6>2. users[un.slot].counter \in Nat /\ last[u] \in Nat /\ un.ctr \in Nat
            BY <1>1 DEF Table, UserKey
          <6>3. un.ctr >= last[u]
            BY <2>3, <4>1, <6>1, <6>2
          <6> QED
            BY <2>1, <4>1, <5>1, <6>1, <6>3
        <5>3. CASE ~(users[un.slot].valid /\ users[un.slot].uid = u)
          BY <2>1, <3>2, <4>1, <5>1, <5>3
        <5> QED
          BY <5>2, <5>3
      <4> QED
        BY <4>2, <4>3
    <3>4. ASSUME In(users', un.uid) PROVE last'[un.uid] <= un.ctr
      <4>1. CASE Own
        BY <1>1, <2>1, <2>3, <4>1
      <4>2. CASE ~Own
        <5>1. last[un.uid] = 0
          BY <2>1, <3>2, <3>4, <4>2 DEF LastInv
        <5> QED
          BY <1>1, <2>3, <4>2, <5>1
      <4> QED
        BY <4>1, <4>2
    <3> QED
      BY <3>1, <3>3, <3>4 DEF LastInv
  <2> QED
    BY <1>5, <2>2, <2>3, CheckEffect
<1>6. CASE QueueCounter
  <2>1. un.pc = "queue" /\ un' = UnIdle /\ un'.pc = "idle"
    BY <1>6 DEF QueueCounter, Leave, UnIdle
  <2>2. UNCHANGED <<users, last>> /\ mirror' = CounterIn(mirror, un.uid, un.ctr)
    BY <1>6 DEF QueueCounter
  <2>3. ASSUME NEW u \in Uid, In(users', u)
        PROVE  /\ CounterOf(users', u) >= last'[u]
               /\ In(mirror', u) => CounterOf(mirror', u) >= last'[u]
    <3>1. CounterOf(users, u) >= last[u]
      BY <2>2, <2>3 DEF LastInv
    <3>2. ASSUME In(mirror', u) PROVE CounterOf(mirror', u) >= last[u]
      <4>1. In(mirror, u)
            /\ (un.uid = u => CounterOf(mirror', u) = un.ctr)
            /\ (un.uid # u => CounterOf(mirror', u) = CounterOf(mirror, u))
        <5> DEFINE r == CounterIn(mirror, un.uid, un.ctr)
        <5>1. /\ In(r, u) <=> In(mirror, u)
              /\ In(mirror, un.uid) /\ un.uid = u => CounterOf(r, u) = un.ctr
              /\ ~(In(mirror, un.uid) /\ un.uid = u) => CounterOf(r, u) = CounterOf(mirror, u)
          BY <1>1, CounterInEffect
        <5> QED
          BY <2>2, <3>2, <5>1
      <4>2. un.uid = u => un.ctr >= last[u]
        BY <1>1, <2>1, <2>2, <2>3 DEF LastInv
      <4> QED
        BY <2>2, <2>3, <4>1, <4>2 DEF LastInv
    <3> QED
      BY <2>2, <3>1, <3>2
  <2> QED
    BY <2>1, <2>3 DEF LastInv
<1>7. CASE Reboot
  <2>1. PICK t \in Table, k \in Kid : Found(t, k)
    BY <1>7, RebootEffect
  <2>2. /\ users' = t /\ mirror' = t /\ un'.pc = "idle"
        /\ last' = [u \in Uid |-> CounterOf(t, u)]
    BY <2>1 DEF Found, UnIdle
  <2>3. \A u \in Uid : last'[u] = CounterOf(t, u) /\ CounterOf(t, u) \in Nat
    BY <1>1, <2>2, KeyType
  <2> QED
    BY <2>2, <2>3 DEF LastInv
<1> QED
  BY <1>2, <1>3, <1>4, <1>5, <1>6, <1>7, Steps DEF Background

\* Flash keeps up: the second part of DurableInv, and that in between saves
\* the first follows from it.
KeepsUp ==
  faults = {} =>
    /\ dirty => timer
    /\ ~dirty /\ dn.pc # "users" => flash.users = mirror

LEMMA DurableByCopy ==
  LastInv /\ KeepsUp /\ dn.pc # "users" => CounterDurable
<1> SUFFICES ASSUME LastInv, KeepsUp, dn.pc # "users", faults = {},
                    NEW u \in Uid, Stored(u), ~Queued(u)
             PROVE  CounterOf(flash.users, u) >= last[u]
  BY DEF CounterDurable
<1>1. flash.users = mirror
  BY DEF KeepsUp, Queued
<1>2. In(users, u) /\ In(mirror, u)
  BY <1>1 DEF Stored, In
<1> QED
  BY <1>1, <1>2 DEF LastInv, Queued

LEMMA StepKeepsUp ==
  ASSUME TypeOK, SlotInv, KeepsUp, [Next]_vars
  PROVE  KeepsUp'
<1>1. CASE Changes
  <2>1. PICK about \in SUBSET Uid, k \in Kid : Change(about, k)
    BY <1>1, ChangeEffect
  <2>2. dn.pc = "idle" /\ UNCHANGED <<mirror, flash, dirty, timer, faults>>
    BY <2>1 DEF Change
  <2> QED
    BY <2>2 DEF KeepsUp
<1>2. CASE \/ \E u \in Uid, op \in {"set", "del"} : Refuse(u, op)
           \/ \E u \in Uid, k \in Kid, c \in Counter : Lookup(u, k, c)
           \/ \E u \in Uid : LookupFails(u)
           \/ VerifyMac \/ CheckCounter \/ UNCHANGED vars
  <2>1. UNCHANGED <<mirror, flash, dirty, timer, faults, dn>>
    BY <1>2, CheckEffect DEF Refuse, Lookup, LookupFails, VerifyMac, vars
  <2> QED
    BY <2>1 DEF KeepsUp
<1>3. CASE SaveCopy
  <2>1. dn'.pc = "users" /\ UNCHANGED <<dirty, timer, faults>>
    BY <1>3 DEF SaveCopy, TypeOK
  <2> QED
    BY <2>1 DEF KeepsUp
<1>4. CASE SaveUsers \/ SaveKid \/ Flush \/ CounterWork
  <2>1. mirror' = mirror
    BY <1>4 DEF SaveUsers, SaveKid, Flush, CounterWork
  <2>2. \/ /\ flash'.users = mirror /\ dirty' = FALSE
        \/ "write" \in faults'
        \/ SaveKid /\ flash'.users = flash.users /\ UNCHANGED <<faults, dirty>>
        \/ UNCHANGED <<flash, faults, dirty>> /\ ~dirty /\ (Flush \/ CounterWork)
    BY <1>4, FlashStep
  <2>3. SaveKid => dn.pc = "kid" /\ timer' = timer
    BY DEF SaveKid
  <2>4. Flush \/ CounterWork => dn.pc # "users" /\ dn' = dn
    BY DEF Flush, CounterWork, Locked
  <2> QED
    BY <2>1, <2>2, <2>3, <2>4 DEF KeepsUp
<1>5. CASE QueueCounter
  <2>1. timer' = TRUE /\ UNCHANGED <<flash, faults, dn>>
    BY <1>5 DEF QueueCounter
  <2>2. mirror' = mirror \/ dirty'
    <3>1. CASE In(mirror, un.uid)
      BY <1>5, <3>1 DEF QueueCounter, In
    <3>2. CASE ~In(mirror, un.uid)
      BY <1>5, <3>2, CounterInEffect DEF QueueCounter, TypeOK, SlotInv
    <3> QED
      BY <3>1, <3>2
  <2>3. dirty => dirty'
    BY <1>5 DEF QueueCounter
  <2> QED
    BY <2>1, <2>2, <2>3 DEF KeepsUp
<1>6. CASE Reboot
  <2>1. PICK t \in Table, k \in Kid : Found(t, k)
    BY <1>6, RebootEffect
  <2> QED
    BY <2>1 DEF Found, KeepsUp
<1> QED
  BY <1>1, <1>2, <1>3, <1>4, <1>5, <1>6, Steps

\* Every step keeps the granted counters in flash or on their way to it.
LEMMA StepDurableInv ==
  ASSUME TypeOK, SlotInv, LastInv, LastInv', DurableInv, [Next]_vars
  PROVE  DurableInv'
<1>1. CounterDurable /\ KeepsUp
  BY DEF DurableInv, KeepsUp
<1>2. KeepsUp'
  BY <1>1, StepKeepsUp
<1>3. CASE dn'.pc # "users"
  <2>1. (LastInv /\ KeepsUp /\ dn.pc # "users" => CounterDurable)'
    BY DurableByCopy, PTL
  <2> QED
    BY <1>2, <1>3, <2>1 DEF DurableInv, KeepsUp
<1>4. CASE dn'.pc = "users"
  <2> SUFFICES ASSUME faults' = {}, NEW u \in Uid, Stored(u)', ~Queued(u)'
               PROVE  CounterOf(flash'.users, u) >= last'[u]
    BY <1>2 DEF DurableInv, KeepsUp, CounterDurable
  <2>1. CASE SaveCopy
    <3>1. UNCHANGED <<users, dirty, timer, flash, faults, un, last>>
      BY <2>1 DEF SaveCopy
    <3> QED
      BY <1>1, <3>1 DEF CounterDurable, Stored, Queued
  <2>2. CASE \/ \E v \in Uid, k \in Kid, c \in Counter : Lookup(v, k, c)
             \/ \E v \in Uid : LookupFails(v)
             \/ VerifyMac \/ UNCHANGED vars
    <3>1. UNCHANGED <<users, dirty, timer, flash, faults, last>>
      BY <2>2 DEF Lookup, LookupFails, VerifyMac, vars
    <3>2. un.pc = "queue" => un' = un
      BY <2>2 DEF Lookup, LookupFails, VerifyMac, vars
    <3> QED
      BY <1>1, <3>1, <3>2 DEF CounterDurable, Stored, Queued
  <2>3. CASE CheckCounter
    <3>1. UNCHANGED <<dirty, timer, flash, faults>> /\ un.pc = "check"
      BY <2>3, CheckEffect
    <3>2. In(users, u)
      BY <2>3, CountersSame DEF Same, Stored, In
    <3>3. last'[u] = last[u]
      BY <2>3, CheckEffect DEF Queued, TypeOK
    <3> QED
      BY <1>1, <3>1, <3>2, <3>3 DEF CounterDurable, Stored, Queued, In
  <2>4. ~(SaveUsers \/ SaveKid \/ Flush \/ CounterWork)
    BY <1>4 DEF SaveUsers, SaveKid, Flush, CounterWork, Finish, DnIdle, Locked, TypeOK
  <2>5. ~(Changes \/ (\E v \in Uid, op \in {"set", "del"} : Refuse(v, op)))
    <3>1. ~(\E v \in Uid, op \in {"set", "del"} : Refuse(v, op))
      BY <1>4 DEF Refuse
    <3>2. ~Changes
      BY <1>4, ChangeEffect DEF Change
    <3> QED
      BY <3>1, <3>2
  <2>6. ~(QueueCounter \/ Reboot)
    BY <1>4 DEF QueueCounter, Locked, Reboot, DnIdle
  <2> QED
    BY <2>1, <2>2, <2>3, <2>4, <2>5, <2>6, Steps
<1> QED
  BY <1>3, <1>4

-----------------------------------------------------------------------------
(***************************************************************************)
(* The invariant, and what follows from it                                 *)
(***************************************************************************)

LEMMA InitKeyStoreInv ==
  ASSUME Init
  PROVE  KeyStoreInv
<1>1. /\ users = NoUsers /\ mirror = NoUsers /\ flash.users = NoUsers /\ flash.kid = 0
      /\ flash = [users |-> NoUsers, kid |-> 0] /\ kid = 0 /\ pkid = 0
      /\ dirty = FALSE /\ timer = FALSE /\ dn = DnIdle /\ un = UnIdle
      /\ ops = 0 /\ crashes = 0 /\ held = {NoKey} /\ faults = {} /\ expect = Unknown
      /\ acked = [u \in Uid |-> NoKey] /\ last = [u \in Uid |-> 0]
  BY DEF Init
<1>2. /\ 0 \in Kid /\ 0 \in Counter /\ 1 \in Slot /\ NoKey \in Kid /\ Unknown \in Belief
  BY UidAssumption, KeyStoreBounds DEF Kid, Counter, Slot, Belief, NoKey
<1>3. NoUsers \in Table /\ \A s \in Slot : ~NoUsers[s].valid
  <2>1. NoUser \in UserKey
    BY <1>2 DEF NoUser, UserKey
  <2> QED
    BY <2>1 DEF NoUsers, NoUser, Table
<1>4. OneSlot(NoUsers) /\ \A u : ~In(NoUsers, u)
  BY <1>3 DEF OneSlot, In, SlotsOf
<1>5. \A u : KeyOf(NoUsers, u) = NoKey
  BY <1>4 DEF KeyOf, In
<1>6. TypeOK
  <2>1. flash \in [users : Table, kid : Kid]
    BY <1>1, <1>2, <1>3
  <2>2. dn \in [pc : {"idle", "lock", "users", "kid"}, about : SUBSET Uid, key : Kid]
    BY <1>1, <1>2 DEF DnIdle
  <2>3. un \in [pc : {"idle", "verify", "check", "queue", "done"}, slot : Slot,
                uid : Uid \cup {NoUid}, key : Kid, ctr : Counter]
    BY <1>1, <1>2 DEF UnIdle
  <2>4. dirty \in BOOLEAN /\ timer \in BOOLEAN
    BY <1>1
  <2>5. acked \in [Uid -> Belief] /\ last \in [Uid -> Counter]
    BY <1>1, <1>2 DEF Belief
  <2> QED
    BY <1>1, <1>2, <1>3, <2>1, <2>2, <2>3, <2>4, <2>5 DEF TypeOK
<1>7. SlotInv
  BY <1>1, <1>4 DEF SlotInv, UnIdle
<1>8. KidInv
  BY <1>1 DEF KidInv, NoKey, DnIdle
<1>9. AckInv
  <2>1. dn.pc = "idle"
    BY <1>1 DEF DnIdle
  <2> QED
    BY <1>1, <1>4, <1>5, <2>1 DEF AckInv, AckOf, Believed, UnderWay
<1>10. ExpectInv
  BY <1>1 DEF ExpectInv
<1>11. LastInv
  BY <1>1, <1>4 DEF LastInv, UnIdle
<1>12. DurableInv
  BY <1>1, <1>4 DEF DurableInv, CounterDurable, Stored, In
<1> QED
  BY <1>6, <1>7, <1>8, <1>9, <1>10, <1>11, <1>12 DEF KeyStoreInv

\* The inductive invariant: one slot per user, the generation behind its table,
\* beliefs that hold in all three copies of the table, verifications with the
\* believed key, counters at or above the last granted, and flash catching up.
THEOREM KeyStoreInvariant ==
  Spec => []KeyStoreInv
<1>1. KeyStoreInv /\ [Next]_vars => KeyStoreInv'
  BY StepTypeOK, StepSlotInv, StepKidInv, StepAckInv, StepExpectInv, StepLastInv,
     StepDurableInv DEF KeyStoreInv
<1> QED
  BY <1>1, InitKeyStoreInv, PTL DEF Spec

\* The table, its copy, flash and the threads working on them are always well
\* formed (unlock.c, nvstore.c).
THEOREM KeyStoreTyped ==
  Spec => []TypeOK
<1>1. KeyStoreInv => TypeOK
  BY DEF KeyStoreInv
<1> QED
  BY <1>1, KeyStoreInvariant, PTL

\* The key generation in flash has been stored with its table, as long as no
\* write failed (nvstore_save_users writes it last).
THEOREM KidIsHonest ==
  Spec => []KidHonest
<1>1. KeyStoreInv => KidHonest
  BY DEF KeyStoreInv, KidInv, KidHonest
<1> QED
  BY <1>1, KeyStoreInvariant, PTL

\* What a dn/secret command acknowledged is in flash from then on, through
\* power losses, counter updates and failed writes (handle_secret).
THEOREM AcksAreDurable ==
  Spec => []AckedKeySurvives
<1>1. KeyStoreInv => AckedKeySurvives
  BY DEF KeyStoreInv, AckInv, AckOf, Believed, AckedKeySurvives
<1> QED
  BY <1>1, KeyStoreInvariant, PTL

\* No granted counter is forgotten by flash that works, unless its write is
\* still owed (nvstore_queue_counter, counter_work_fn, nvstore_flush).
THEOREM GrantsAreDurable ==
  Spec => []CounterDurable
<1>1. KeyStoreInv => CounterDurable
  BY DEF KeyStoreInv, DurableInv
<1> QED
  BY <1>1, KeyStoreInvariant, PTL

\* A grant is a step of CheckCounter.
LEMMA GrantStep ==
  ASSUME TypeOK, SlotInv, [Next]_vars, Granted
  PROVE  CheckCounter /\ un.ctr > users[un.slot].counter
<1>1. un.pc = "check" /\ un'.pc = "queue"
  BY DEF Granted
<1>2. ~(Changes \/ Background \/ UNCHANGED vars)
  <2>1. ~Changes
    BY <1>1, ChangeEffect DEF Change
  <2>2. ~Background
    BY <1>1, BackgroundEffect
  <2> QED
    BY <1>1, <2>1, <2>2 DEF vars
<1>3. ~(\E u \in Uid, k \in Kid, c \in Counter : Lookup(u, k, c))
  BY <1>1 DEF Lookup
<1>4. ~((\E u \in Uid : LookupFails(u)) \/ VerifyMac \/ QueueCounter \/ Reboot)
  <2>1. UnIdle.pc = "idle"
    BY DEF UnIdle
  <2>2. ~((\E u \in Uid : LookupFails(u)) \/ QueueCounter \/ Reboot)
    BY <1>1, <2>1 DEF LookupFails, QueueCounter, Reboot, Leave
  <2>3. ~VerifyMac
    BY <1>1 DEF VerifyMac
  <2> QED
    BY <2>2, <2>3
<1>5. CheckCounter
  BY <1>2, <1>3, <1>4, Steps DEF Background
<1> QED
  BY <1>1, <1>5, CheckEffect DEF UnIdle

\* An unlock is granted only to the key the acknowledged commands left the
\* user, if none was under way since the lookup (handle_unlock, handle_secret).
THEOREM GrantsAreByAckedKey ==
  Spec => GrantsHonourAcks
<1>1. KeyStoreInv /\ [Next]_vars => [Granted => expect \in {Unknown, un.key}]_vars
  <2> SUFFICES ASSUME KeyStoreInv, Granted
               PROVE  expect \in {Unknown, un.key}
    OBVIOUS
  <2> QED
    BY DEF KeyStoreInv, ExpectInv, Granted
<1> QED
  BY <1>1, KeyStoreInvariant, PTL DEF Spec, GrantsHonourAcks

\* A user's granted counters rise strictly while its slot is its own, through
\* new keys and power losses (handle_unlock's comparison).
THEOREM GrantedCountersRise ==
  Spec => GrantRises
<1>1. KeyStoreInv /\ [Next]_vars => [Granted /\ Own => un.ctr > last[un.uid]]_vars
  <2> SUFFICES ASSUME KeyStoreInv, [Next]_vars, Granted, Own
               PROVE  un.ctr > last[un.uid]
    OBVIOUS
  <2>1. TypeOK /\ SlotInv /\ LastInv
    BY DEF KeyStoreInv
  <2>2. /\ users \in Table /\ OneSlot(users) /\ un.slot \in Slot /\ un.uid \in Uid
        /\ un.ctr \in Nat /\ last[un.uid] \in Nat /\ users[un.slot].counter \in Nat
    <3>1. /\ users \in Table /\ OneSlot(users) /\ un.slot \in Slot /\ un.uid \in Uid
          /\ un.ctr \in Counter /\ last \in [Uid -> Counter]
      BY <2>1 DEF TypeOK, SlotInv, Granted
    <3> QED
      BY <3>1 DEF Table, UserKey, Counter
  <2>3. un.ctr > users[un.slot].counter
    BY <2>1, GrantStep
  <2>4. In(users, un.uid) /\ CounterOf(users, un.uid) = users[un.slot].counter
    BY <2>2, TheSlot DEF Own
  <2>5. CounterOf(users, un.uid) >= last[un.uid]
    BY <2>1, <2>2, <2>4 DEF LastInv
  <2> QED
    BY <2>2, <2>3, <2>4, <2>5
<1> QED
  BY <1>1, KeyStoreInvariant, PTL DEF Spec, GrantRises
=============================================================================
