-------------------------- MODULE Unlocking_proofs --------------------------
(***************************************************************************)
(* Proofs about Unlocking, and with it UnlockSession and LockDrive, for    *)
(* any number of connections, challenges, APDUs and commands and every     *)
(* length of the pulse.                                                    *)
(***************************************************************************)
EXTENDS Unlocking, SequenceTheorems, TLAPS

-----------------------------------------------------------------------------
(***************************************************************************)
(* Inductive invariants                                                    *)
(***************************************************************************)

Has(q, item) == \E i \in DOMAIN q : q[i] = item
Once(q)      == \A i, j \in DOMAIN q : q[i] = q[j] => i = j

\* Whatever is selected or challenged is so by connection c.
SessionOf(c) ==
  /\ selected => selectedBy = c
  /\ nonce_valid => issuedTo[cur_nonce] = c

\* One APDU is in hand at a time, and it holds the connection object until it
\* is answered.
ApduInv ==
  /\ Has(workq, "apdu") \/ stage # "none" => busy
  /\ Has(workq, "apdu") => stage = "none"
  /\ Has(workq, "apdu") \/ stage \in {"callback", "answer"} => pending.conn # NoConn
  /\ pending.conn # NoConn => conn \in {NoConn, pending.conn}

\* The session is the current connection's, or a reset is on its way; a
\* challenge that is pending has not been answered.
DialogueInv ==
  /\ conn # NoConn /\ ~Has(workq, "reset") => SessionOf(conn)
  /\ workq # <<>> /\ Head(workq) = "apdu" => SessionOf(pending.conn)
  /\ stage = "callback" => ~nonce_valid /\ issuedTo[cur_nonce] = pending.conn
  /\ nonce_valid => cur_nonce \in 1 .. nonces /\ cur_nonce \notin verified
  /\ verified \subseteq 1 .. nonces

\* The callback has the outcome of the answer in hand.
ResultInv ==
  /\ result # "none" => stage = "callback"
  /\ granted => result \in {"wait", "queued"} /\ pending.apdu.nonce = cur_nonce
  /\ call["unlock"] # "none" => granted /\ result = "queued"

\* Unless the switch is to be read again, its position is reported or about
\* to be.
PositionInv ==
  ~Has(sysq, "sense") => open = IF handler \in Position THEN handler ELSE reported

\* A drive that is on has its end scheduled in time, queued, or in some
\* thread's hand.
PulseInv ==
  /\ \A t \in Thread : call[t] = "schedule" => age = 0
  /\ drive /\ ~jammed =>
       \/ \E t \in Thread : call[t] \in {"schedule", "release"}
       \/ Has(sysq, "release")
       \/ timer > 0 /\ age + timer <= PULSE

UnlockingInv ==
  /\ UnlockingTypeOK /\ Once(workq) /\ Once(sysq)
  /\ ApduInv /\ DialogueInv /\ ResultInv
  /\ PositionInv /\ PulseInv

-----------------------------------------------------------------------------
(***************************************************************************)
(* Work queues                                                             *)
(***************************************************************************)

\* A queue in which nothing is twice holds at most as many items as there are.
LEMMA QueueLength ==
  ASSUME NEW a, NEW b, NEW q \in Seq({a, b}), Once(q)
  PROVE  Len(q) <= 2
<1> SUFFICES ASSUME Len(q) >= 3 PROVE FALSE
  BY LenProperties
<1>1. {1, 2, 3} \subseteq DOMAIN q /\ DOMAIN q = 1 .. Len(q)
  BY LenProperties
<1>2. q[1] \in {a, b} /\ q[2] \in {a, b} /\ q[3] \in {a, b}
  BY <1>1, ElementOfSeq
<1> QED
  BY <1>1, <1>2 DEF Once

\* The same of the system work queue, which has four.
LEMMA SysqLength ==
  ASSUME NEW q \in Seq(Item), Once(q)
  PROVE  Len(q) <= 4
<1> SUFFICES ASSUME Len(q) >= 5 PROVE FALSE
  BY LenProperties
<1>1. {1, 2, 3, 4, 5} \subseteq DOMAIN q /\ DOMAIN q = 1 .. Len(q)
  BY LenProperties
<1>2. /\ q[1] \in Item /\ q[2] \in Item /\ q[3] \in Item
      /\ q[4] \in Item /\ q[5] \in Item
  BY <1>1, ElementOfSeq
<1>3. \A i, j \in {1, 2, 3, 4, 5} : q[i] = q[j] => i = j
  BY <1>1 DEF Once
<1>4. /\ q[1] # q[2] /\ q[1] # q[3] /\ q[1] # q[4] /\ q[1] # q[5]
      /\ q[2] # q[3] /\ q[2] # q[4] /\ q[2] # q[5]
      /\ q[3] # q[4] /\ q[3] # q[5] /\ q[4] # q[5]
  BY <1>3
<1> QED
  BY <1>2, <1>4 DEF Item

\* k_work_submit_to_queue: an item that is queued already is not queued again.
LEMMA Submitted ==
  ASSUME NEW S, NEW q \in Seq(S), Once(q), NEW x \in S, NEW r,
         \/ Has(q, x) /\ r = q
         \/ ~Has(q, x) /\ r = Append(q, x)
  PROVE  /\ r \in Seq(S) /\ Once(r)
         /\ \A y : Has(r, y) <=> Has(q, y) \/ y = x
         /\ q # <<>> => r # <<>> /\ Head(r) = Head(q)
         /\ q = <<>> => r # <<>> /\ Head(r) = x
<1>1. CASE Has(q, x)
  <2>1. r = q /\ q # <<>>
    BY <1>1 DEF Has
  <2> QED
    BY <1>1, <2>1
<1>2. CASE ~Has(q, x)
  <2>1. r = Append(q, x)
    BY <1>2
  <2>2. /\ Len(q) \in Nat /\ DOMAIN q = 1 .. Len(q)
        /\ r \in Seq(S) /\ Len(r) = Len(q) + 1 /\ DOMAIN r = 1 .. Len(q) + 1
        /\ \A i \in 1 .. Len(q) : r[i] = q[i]
        /\ r[Len(q) + 1] = x
    BY <2>1, AppendProperties, LenProperties
  <2>3. \A y : Has(r, y) <=> Has(q, y) \/ y = x
    BY <2>2 DEF Has
  <2>4. Once(r)
    <3> SUFFICES ASSUME NEW i \in 1 .. Len(q) + 1, NEW j \in 1 .. Len(q) + 1, r[i] = r[j]
                 PROVE  i = j
      BY <2>2 DEF Once
    <3>1. CASE i \in 1 .. Len(q) /\ j \in 1 .. Len(q)
      BY <2>2, <3>1 DEF Once
    <3>2. CASE i = Len(q) + 1 \/ j = Len(q) + 1
      BY <1>2, <2>2, <3>2 DEF Has
    <3> QED
      BY <2>2, <3>1, <3>2
  <2>5. r # <<>> /\ Head(r) = r[1]
    BY <2>2
  <2>6. q = <<>> => Len(q) = 0
    OBVIOUS
  <2>7. q # <<>> => Len(q) >= 1 /\ Head(q) = q[1]
    BY <2>2, EmptySeq
  <2> QED
    BY <2>2, <2>3, <2>4, <2>5, <2>6, <2>7
<1> QED
  BY <1>1, <1>2

\* What is taken from the head of a queue is not in it any longer.
LEMMA Taken ==
  ASSUME NEW S, NEW q \in Seq(S), Once(q), q # <<>>
  PROVE  /\ Tail(q) \in Seq(S) /\ Once(Tail(q))
         /\ \A y : Has(q, y) <=> Has(Tail(q), y) \/ y = Head(q)
         /\ ~Has(Tail(q), Head(q))
         /\ Tail(q) # <<>> => Has(Tail(q), Head(Tail(q)))
<1> DEFINE r == Tail(q)
<1>1. /\ Len(q) \in Nat /\ Len(q) >= 1 /\ DOMAIN q = 1 .. Len(q) /\ Head(q) = q[1]
      /\ r \in Seq(S) /\ Len(r) = Len(q) - 1 /\ DOMAIN r = 1 .. Len(q) - 1
      /\ \A i \in 1 .. Len(q) - 1 : r[i] = q[i + 1]
  BY HeadTailProperties, EmptySeq, LenProperties
<1> HIDE DEF r
<1>2. \A y : Has(q, y) <=> Has(r, y) \/ y = Head(q)
  <2> SUFFICES ASSUME NEW y PROVE Has(q, y) <=> Has(r, y) \/ y = Head(q)
    OBVIOUS
  <2>1. ASSUME Has(q, y), y # q[1] PROVE Has(r, y)
    <3>1. PICK i \in 1 .. Len(q) : q[i] = y
      BY <1>1, <2>1 DEF Has
    <3>2. i - 1 \in 1 .. Len(q) - 1 /\ i = (i - 1) + 1
      BY <1>1, <2>1, <3>1
    <3>3. r[i - 1] = q[i]
      BY <1>1, <3>2
    <3> QED
      BY <1>1, <3>1, <3>2, <3>3 DEF Has
  <2>2. ASSUME Has(r, y) PROVE Has(q, y)
    <3>1. PICK i \in 1 .. Len(q) - 1 : r[i] = y
      BY <1>1, <2>2 DEF Has
    <3>2. i + 1 \in DOMAIN q /\ q[i + 1] = y
      BY <1>1, <3>1
    <3> QED
      BY <3>2 DEF Has
  <2>3. Has(q, q[1])
    BY <1>1 DEF Has
  <2> QED
    BY <1>1, <2>1, <2>2, <2>3
<1>3. Once(r)
  <2> SUFFICES ASSUME NEW i \in 1 .. Len(q) - 1, NEW j \in 1 .. Len(q) - 1, r[i] = r[j]
               PROVE  i = j
    BY <1>1 DEF Once
  <2>1. i + 1 \in DOMAIN q /\ j + 1 \in DOMAIN q /\ q[i + 1] = q[j + 1]
    BY <1>1
  <2>2. i + 1 = j + 1
    BY <2>1 DEF Once
  <2> QED
    BY <2>2
<1>4. ~Has(r, Head(q))
  <2> SUFFICES ASSUME NEW i \in 1 .. Len(q) - 1, r[i] = q[1] PROVE FALSE
    BY <1>1 DEF Has
  <2>1. i + 1 \in DOMAIN q /\ 1 \in DOMAIN q /\ q[i + 1] = q[1]
    BY <1>1
  <2>2. i + 1 = 1
    BY <2>1 DEF Once
  <2> QED
    BY <2>2
<1>5. r # <<>> => Has(r, Head(r))
  BY <1>1, EmptySeq DEF Has
<1> QED
  BY <1>1, <1>2, <1>3, <1>4, <1>5 DEF r

\* k_work_cancel_delayable takes its item out and leaves the others.
LEMMA Withdrawn ==
  ASSUME NEW S, NEW q \in Seq(S), Once(q), NEW k \in DOMAIN q
  PROVE  LET r == SubSeq(q, 1, k - 1) \o SubSeq(q, k + 1, Len(q))
         IN  /\ r \in Seq(S) /\ Once(r)
             /\ \A y : Has(r, y) <=> Has(q, y) /\ y # q[k]
<1> DEFINE a == SubSeq(q, 1, k - 1)
           b == SubSeq(q, k + 1, Len(q))
           r == a \o b
           n == Len(q)
<1>1. n \in Nat /\ DOMAIN q = 1 .. n /\ k \in 1 .. n
  BY LenProperties
<1>2. a \in Seq(S) /\ Len(a) = k - 1 /\ \A i \in 1 .. k - 1 : a[i] = q[i]
  <2> DEFINE m == k - 1
  <2>1. m \in Int /\ \A i \in 1 .. m : q[i] \in S
    BY <1>1, ElementOfSeq
  <2> HIDE DEF m
  <2>2. /\ SubSeq(q, 1, m) \in Seq(S)
        /\ Len(SubSeq(q, 1, m)) = IF 1 <= m THEN m - 1 + 1 ELSE 0
        /\ \A i \in 1 .. m - 1 + 1 : SubSeq(q, 1, m)[i] = q[1 + i - 1]
    BY <2>1, SubSeqProperties
  <2> DEFINE l == Len(SubSeq(q, 1, m))
  <2>3. l = IF 1 <= m THEN m - 1 + 1 ELSE 0
    BY <2>2
  <2> HIDE DEF l
  <2>4. m = k - 1 /\ l = k - 1
    BY <1>1, <2>3 DEF m
  <2>5. \A i \in 1 .. k - 1 : SubSeq(q, 1, m)[i] = q[i]
    BY <1>1, <2>2, <2>4
  <2> QED
    BY <2>2, <2>4, <2>5 DEF l, m
<1>3. b \in Seq(S) /\ Len(b) = n - k /\ \A i \in 1 .. n - k : b[i] = q[i + k]
  <2> DEFINE m == k + 1
  <2>1. m \in Int /\ n \in Int /\ \A i \in m .. n : q[i] \in S
    BY <1>1, ElementOfSeq
  <2> HIDE DEF m, n
  <2>2. /\ SubSeq(q, m, n) \in Seq(S)
        /\ Len(SubSeq(q, m, n)) = IF m <= n THEN n - m + 1 ELSE 0
        /\ \A i \in 1 .. n - m + 1 : SubSeq(q, m, n)[i] = q[m + i - 1]
    BY <2>1, SubSeqProperties
  <2> DEFINE l == Len(SubSeq(q, m, n))
  <2>3. l = IF m <= n THEN n - m + 1 ELSE 0
    BY <2>2
  <2> HIDE DEF l
  <2>4. m = k + 1 /\ l = n - k
    BY <1>1, <2>3 DEF m
  <2>5. ASSUME NEW i \in 1 .. n - k PROVE SubSeq(q, m, n)[i] = q[i + k]
    <3>1. i \in 1 .. n - m + 1 /\ m + i - 1 = i + k
      BY <1>1, <2>4
    <3> QED
      BY <2>2, <3>1
  <2> QED
    BY <2>2, <2>4, <2>5 DEF l, m, n
<1> HIDE DEF a, b
<1>4. r \in Seq(S) /\ Len(r) = Len(a) + Len(b)
      /\ \A i \in 1 .. Len(a) + Len(b) :
           r[i] = IF i <= Len(a) THEN a[i] ELSE b[i - Len(a)]
  BY <1>2, <1>3, ConcatProperties
<1> HIDE DEF r, n
<1>5. /\ DOMAIN r = 1 .. n - 1
      /\ \A i \in 1 .. n - 1 : r[i] = IF i < k THEN q[i] ELSE q[i + 1]
  <2>1. Len(r) = n - 1 /\ DOMAIN r = 1 .. n - 1
    BY <1>1, <1>2, <1>3, <1>4, LenProperties
  <2>2. ASSUME NEW i \in 1 .. n - 1, i < k PROVE r[i] = q[i]
    BY <1>1, <1>2, <1>3, <1>4, <2>2
  <2>3. ASSUME NEW i \in 1 .. n - 1, ~(i < k) PROVE r[i] = q[i + 1]
    <3> DEFINE j == i - Len(a)
    <3>1. j \in 1 .. n - k /\ j + k = i + 1 /\ i \in 1 .. Len(a) + Len(b) /\ ~(i <= Len(a))
      BY <1>1, <1>2, <1>3, <2>3
    <3>2. r[i] = b[j]
      BY <1>4, <3>1
    <3> HIDE DEF j
    <3> QED
      BY <1>3, <3>1, <3>2
  <2> QED
    BY <2>1, <2>2, <2>3
<1>6. Once(r)
  <2> SUFFICES ASSUME NEW i \in 1 .. n - 1, NEW j \in 1 .. n - 1, r[i] = r[j]
               PROVE  i = j
    BY <1>5 DEF Once
  <2> DEFINE s(x) == IF x < k THEN x ELSE x + 1
  <2>1. s(i) \in DOMAIN q /\ s(j) \in DOMAIN q /\ q[s(i)] = q[s(j)]
    BY <1>1, <1>5
  <2>2. s(i) = s(j)
    BY <2>1 DEF Once
  <2> QED
    BY <1>1, <2>2
<1>7. \A y : Has(r, y) <=> Has(q, y) /\ y # q[k]
  <2> SUFFICES ASSUME NEW y PROVE Has(r, y) <=> Has(q, y) /\ y # q[k]
    OBVIOUS
  <2>1. ASSUME Has(r, y) PROVE Has(q, y) /\ y # q[k]
    <3>1. PICK i \in 1 .. n - 1 : r[i] = y
      BY <1>5, <2>1 DEF Has
    <3>2. PICK j \in 1 .. n : j # k /\ q[j] = y
      <4>1. CASE i < k
        BY <1>1, <1>5, <3>1, <4>1
      <4>2. CASE ~(i < k)
        <5>1. i + 1 \in 1 .. n /\ i + 1 # k /\ q[i + 1] = y
          BY <1>1, <1>5, <3>1, <4>2
        <5> QED
          BY <5>1
      <4> QED
        BY <4>1, <4>2
    <3> QED
      BY <1>1, <3>2 DEF Has, Once
  <2>2. ASSUME Has(q, y), y # q[k] PROVE Has(r, y)
    <3>1. PICK j \in 1 .. n : q[j] = y /\ j # k
      BY <1>1, <2>2 DEF Has
    <3>2. PICK i \in 1 .. n - 1 : j = IF i < k THEN i ELSE i + 1
      <4>1. CASE j < k
        BY <1>1, <4>1
      <4>2. CASE j > k
        <5>1. j - 1 \in 1 .. n - 1 /\ ~(j - 1 < k) /\ j = (j - 1) + 1
          BY <1>1, <4>2
        <5> QED
          BY <5>1
      <4> QED
        BY <1>1, <3>1, <4>1, <4>2
    <3> QED
      BY <1>5, <3>1, <3>2 DEF Has
  <2> QED
    BY <2>1, <2>2
<1> QED
  BY <1>4, <1>6, <1>7 DEF r, a, b

-----------------------------------------------------------------------------
(***************************************************************************)
(* The unlock work queue                                                   *)
(***************************************************************************)

WorkItem == {"reset", "apdu"}

\* What a submission does to the unlock work queue.
LEMMA SubmitEffect ==
  ASSUME TypeOK, Once(workq), NEW item \in WorkItem, Submit(item)
  PROVE  /\ workq' \in Seq(WorkItem) /\ Once(workq')
         /\ \A y : Has(workq, y)' <=> Has(workq, y) \/ y = item
         /\ workq # <<>> => workq' # <<>> /\ Head(workq') = Head(workq)
         /\ workq = <<>> => workq' # <<>> /\ Head(workq') = item
<1>1. workq \in Seq(WorkItem)
  BY DEF TypeOK, WorkItem
<1> DEFINE r == workq'
<1>2. \/ Has(workq, item) /\ r = workq
      \/ ~Has(workq, item) /\ r = Append(workq, item)
  BY DEF Submit, Has
<1> HIDE DEF r
<1>3. /\ r \in Seq(WorkItem) /\ Once(r)
      /\ \A y : Has(r, y) <=> Has(workq, y) \/ y = item
      /\ workq # <<>> => r # <<>> /\ Head(r) = Head(workq)
      /\ workq = <<>> => r # <<>> /\ Head(r) = item
  BY <1>1, <1>2, Submitted
<1> QED
  BY <1>3 DEF Has, Once, r

\* What taking an item does to it.
LEMMA TakeEffect ==
  ASSUME TypeOK, Once(workq), NEW item \in WorkItem, Take(item)
  PROVE  /\ stage = "none" /\ Has(workq, item) /\ workq # <<>> /\ Head(workq) = item
         /\ workq' \in Seq(WorkItem) /\ Once(workq')
         /\ \A y : Has(workq, y)' <=> Has(workq, y) /\ y # item
         /\ workq' # <<>> => Has(workq, Head(workq))'
<1>1. workq \in Seq(WorkItem) /\ workq # <<>> /\ Head(workq) = item /\ stage = "none"
  BY DEF TypeOK, WorkItem, Take
<1> DEFINE r == Tail(workq)
<1>2. /\ r \in Seq(WorkItem) /\ Once(r)
      /\ \A y : Has(workq, y) <=> Has(r, y) \/ y = item
      /\ ~Has(r, item)
      /\ r # <<>> => Has(r, Head(r))
  BY <1>1, Taken
<1>3. workq' = r
  BY DEF Take
<1> HIDE DEF r
<1> QED
  BY <1>1, <1>2, <1>3 DEF Has, Once

\* The steps of the work queue that run an APDU.
Runs == HandleSelect \/ HandleGetChallenge \/ HandleUnlockRefused
          \/ HandleUnlock \/ HandleMalformed

\* Each takes an APDU from the queue and leaves the connection's side alone.
LEMMA RunsEffect ==
  ASSUME Runs
  PROVE  /\ Take("apdu") /\ stage' \in {"answer", "callback"}
         /\ UNCHANGED <<conn, conns, pending, busy, writes>>
BY DEF Runs, HandleSelect, HandleGetChallenge, HandleUnlockRefused, HandleUnlock,
       HandleMalformed, RunApdu

\* Every step of the dialogue is one of these.
LEMMA SessionSteps ==
  ASSUME [Next]_vars
  PROVE  \/ Connect \/ Disconnect \/ (\E a \in Apdu : Write(a)) \/ WriteSubmitFails
         \/ StopAdvertising \/ ResetSession \/ Runs
         \/ CallbackReturns \/ AnswerApdu \/ ClearBusy \/ UNCHANGED vars
BY DEF Next, Phone, WorkQueue, Runs

\* The unlock work queue never holds an item twice.
LEMMA StepWorkq ==
  ASSUME TypeOK, Once(workq), [Next]_vars
  PROVE  workq' \in Seq(WorkItem) /\ Once(workq') /\ Len(workq') <= 2
<1>1. workq \in Seq(WorkItem)
  BY DEF TypeOK, WorkItem
<1>2. workq' \in Seq(WorkItem) /\ Once(workq')
  <2>1. CASE Connect \/ Disconnect \/ StopAdvertising
    <3>1. Submit("reset") /\ "reset" \in WorkItem
      BY <2>1 DEF Connect, Disconnect, StopAdvertising, WorkItem
    <3> QED
      BY <3>1, SubmitEffect
  <2>2. CASE \E a \in Apdu : Write(a)
    <3>1. Submit("apdu") /\ "apdu" \in WorkItem
      BY <2>2 DEF Write, WorkItem
    <3> QED
      BY <3>1, SubmitEffect
  <2>3. CASE ResetSession
    <3>1. Take("reset") /\ "reset" \in WorkItem
      BY <2>3 DEF ResetSession, WorkItem
    <3> QED
      BY <3>1, TakeEffect
  <2>4. CASE Runs
    <3>1. Take("apdu") /\ "apdu" \in WorkItem
      BY <2>4, RunsEffect DEF WorkItem
    <3> QED
      BY <3>1, TakeEffect
  <2>5. CASE WriteSubmitFails \/ CallbackReturns \/ AnswerApdu \/ ClearBusy \/ UNCHANGED vars
    <3>1. workq' = workq
      BY <2>5 DEF WriteSubmitFails, CallbackReturns, AnswerApdu, ClearBusy, vars
    <3> QED
      BY <1>1, <3>1 DEF Once
  <2> QED
    BY <2>1, <2>2, <2>3, <2>4, <2>5, SessionSteps
<1>3. Len(workq') <= 2
  BY <1>2, QueueLength DEF WorkItem
<1> QED
  BY <1>2, <1>3

\* Every step of the dialogue keeps the types.
LEMMA StepSessionType ==
  ASSUME TypeOK, Once(workq), DialogueInv, [Next]_vars
  PROVE  TypeOK'
<1>1. workq' \in Seq({"reset", "apdu"}) /\ Len(workq') <= 2
  BY StepWorkq DEF WorkItem
<1>2. MaxConn \in Nat /\ MaxNonce \in Nat /\ MaxWrite \in Nat
  BY SessionBounds
<1>3. /\ pending \in [conn : Conn \cup {NoConn}, apdu : Apdu \cup {NoApdu}]
      /\ conn \in Conn \cup {NoConn} /\ conns \in 0 .. MaxConn
      /\ nonces \in 0 .. MaxNonce /\ writes \in 0 .. MaxWrite
      /\ cur_nonce \in Nonce \cup {NoNonce} /\ verified \subseteq Nonce
      /\ issuedTo \in [Nonce -> Conn \cup {NoConn}] /\ selectedBy \in Conn \cup {NoConn}
      /\ busy \in BOOLEAN /\ selected \in BOOLEAN /\ nonce_valid \in BOOLEAN
      /\ stage \in {"none", "callback", "answer", "unref"}
  BY DEF TypeOK
<1>4. CASE Connect \/ Disconnect \/ StopAdvertising
  <2>1. conn' \in Conn \cup {NoConn} /\ conns' \in 0 .. MaxConn
    BY <1>2, <1>3, <1>4 DEF Connect, Disconnect, StopAdvertising, Conn, NoConn
  <2>2. UNCHANGED <<pending, busy, stage, session, nonces, writes, hist>>
    BY <1>4 DEF Connect, Disconnect, StopAdvertising
  <2> QED
    BY <1>1, <1>3, <2>1, <2>2 DEF TypeOK, session, hist
<1>5. CASE \E a \in Apdu : Write(a)
  <2>1. PICK a \in Apdu : Write(a)
    BY <1>5
  <2>2. pending' \in [conn : Conn \cup {NoConn}, apdu : Apdu \cup {NoApdu}]
    BY <1>3, <2>1 DEF Write
  <2>3. writes' \in 0 .. MaxWrite /\ busy' \in BOOLEAN
    BY <1>2, <1>3, <2>1 DEF Write
  <2>4. UNCHANGED <<conn, conns, stage, session, nonces, hist>>
    BY <2>1 DEF Write
  <2> QED
    BY <1>1, <1>3, <2>2, <2>3, <2>4 DEF TypeOK, session, hist
<1>6. CASE WriteSubmitFails
  <2>1. pending' \in [conn : Conn \cup {NoConn}, apdu : Apdu \cup {NoApdu}]
    BY <1>6 DEF WriteSubmitFails, NoPending
  <2>2. writes' \in 0 .. MaxWrite /\ busy' \in BOOLEAN
    <3>1. writes < MaxWrite /\ writes' = writes + 1
      BY <1>6 DEF WriteSubmitFails
    <3>2. busy' = FALSE
      BY <1>6 DEF WriteSubmitFails
    <3>3. busy' \in BOOLEAN
      BY <3>2
    <3>4. writes' \in 0 .. MaxWrite
      BY <1>2, <1>3, <3>1
    <3> QED
      BY <3>3, <3>4
  <2>3. UNCHANGED <<conn, conns, stage, session, nonces, hist>>
    BY <1>6 DEF WriteSubmitFails
  <2> QED
    BY <1>1, <1>3, <2>1, <2>2, <2>3 DEF TypeOK, session, hist
<1>7. CASE ResetSession
  <2>1. /\ nonce_valid' \in BOOLEAN /\ selected' \in BOOLEAN
        /\ cur_nonce' \in Nonce \cup {NoNonce}
    BY <1>7 DEF ResetSession
  <2>2. UNCHANGED <<conn, conns, pending, busy, stage, nonces, writes, hist>>
    BY <1>7 DEF ResetSession
  <2> QED
    BY <1>1, <1>3, <2>1, <2>2 DEF TypeOK, hist
<1>8. CASE Runs
  <2>1. UNCHANGED <<conn, conns, pending, busy, writes>>
        /\ stage' \in {"none", "callback", "answer", "unref"}
    BY <1>8, RunsEffect
  <2>2. /\ selected' \in BOOLEAN /\ nonce_valid' \in BOOLEAN
        /\ selectedBy' \in Conn \cup {NoConn}
    BY <1>3, <1>8 DEF Runs, HandleSelect, HandleGetChallenge, HandleUnlockRefused,
                      HandleUnlock, HandleMalformed, session, hist
  <2>3. nonces' \in 0 .. MaxNonce /\ cur_nonce' \in Nonce \cup {NoNonce}
    BY <1>2, <1>3, <1>8 DEF Runs, HandleSelect, HandleGetChallenge, HandleUnlockRefused,
                            HandleUnlock, HandleMalformed, session, hist, Nonce
  <2>4. issuedTo' \in [Nonce -> Conn \cup {NoConn}]
    BY <1>3, <1>8 DEF Runs, HandleSelect, HandleGetChallenge, HandleUnlockRefused,
                      HandleUnlock, HandleMalformed, session, hist
  <2>5. verified' \subseteq Nonce
    <3>1. CASE HandleUnlock
      <4>1. cur_nonce \in 1 .. nonces
        BY <3>1 DEF HandleUnlock, DialogueInv
      <4>2. cur_nonce \in Nonce
        BY <1>2, <1>3, <4>1 DEF Nonce
      <4> QED
        BY <1>3, <3>1, <4>2 DEF HandleUnlock
    <3>2. CASE ~HandleUnlock
      BY <1>3, <1>8, <3>2 DEF Runs, HandleSelect, HandleGetChallenge, HandleUnlockRefused,
                              HandleMalformed, session, hist
    <3> QED
      BY <3>1, <3>2
  <2> QED
    BY <1>1, <1>3, <2>1, <2>2, <2>3, <2>4, <2>5 DEF TypeOK
<1>9. CASE CallbackReturns \/ AnswerApdu \/ ClearBusy \/ UNCHANGED vars
  <2>1. pending' \in [conn : Conn \cup {NoConn}, apdu : Apdu \cup {NoApdu}]
    BY <1>3, <1>9 DEF CallbackReturns, AnswerApdu, ClearBusy, NoPending, vars
  <2>2. busy' \in BOOLEAN /\ stage' \in {"none", "callback", "answer", "unref"}
    BY <1>3, <1>9 DEF CallbackReturns, AnswerApdu, ClearBusy, vars
  <2>3. UNCHANGED <<conn, conns, session, nonces, writes, hist>>
    BY <1>9 DEF CallbackReturns, AnswerApdu, ClearBusy, vars
  <2> QED
    BY <1>1, <1>3, <2>1, <2>2, <2>3 DEF TypeOK, session, hist
<1> QED
  BY <1>4, <1>5, <1>6, <1>7, <1>8, <1>9, SessionSteps

\* Every step leaves at most one APDU in hand, with its connection.
LEMMA StepApdu ==
  ASSUME TypeOK, Once(workq), ApduInv, [Next]_vars
  PROVE  ApduInv'
<1>1. "reset" \in WorkItem /\ "apdu" \in WorkItem /\ "reset" # "apdu"
  BY DEF WorkItem
<1>2. CASE Connect \/ Disconnect \/ StopAdvertising
  <2>1. Submit("reset") /\ UNCHANGED <<busy, stage, pending>>
    BY <1>2 DEF Connect, Disconnect, StopAdvertising
  <2>2. Has(workq, "apdu")' <=> Has(workq, "apdu")
    BY <1>1, <2>1, SubmitEffect
  <2>3. pending.conn # NoConn => conn' \in {NoConn, pending.conn}
    BY <1>2 DEF ApduInv, Connect, Disconnect, StopAdvertising
  <2> QED
    BY <2>1, <2>2, <2>3 DEF ApduInv
<1>3. CASE \E a \in Apdu : Write(a)
  <2>1. /\ busy' = TRUE /\ pending'.conn = conn /\ conn # NoConn /\ conn' = conn
        /\ stage' = stage /\ ~busy
    BY <1>3 DEF Write
  <2>2. stage = "none"
    BY <2>1 DEF ApduInv
  <2> QED
    BY <2>1, <2>2 DEF ApduInv
<1>4. CASE WriteSubmitFails
  <2>1. ~busy /\ pending'.conn = NoConn /\ UNCHANGED <<workq, stage>>
    BY <1>4 DEF WriteSubmitFails, NoPending
  <2>2. ~Has(workq, "apdu") /\ stage = "none"
    BY <2>1 DEF ApduInv
  <2>3. ~Has(workq, "apdu")' /\ stage' = "none"
    BY <2>1, <2>2 DEF Has
  <2> QED
    BY <2>1, <2>3 DEF ApduInv
<1>5. CASE ResetSession
  <2>1. Take("reset") /\ UNCHANGED <<busy, stage, pending, conn>>
    BY <1>5 DEF ResetSession
  <2>2. Has(workq, "apdu")' <=> Has(workq, "apdu")
    BY <1>1, <2>1, TakeEffect
  <2> QED
    BY <2>1, <2>2 DEF ApduInv
<1>6. CASE Runs
  <2>1. Take("apdu") /\ UNCHANGED <<busy, pending, conn>>
    BY <1>6, RunsEffect
  <2>2. ~Has(workq, "apdu")' /\ Has(workq, "apdu")
    BY <1>1, <2>1, TakeEffect
  <2> QED
    BY <2>1, <2>2 DEF ApduInv
<1>7. CASE CallbackReturns
  <2>1. stage = "callback" /\ stage' = "answer" /\ UNCHANGED <<workq, busy, pending, conn>>
    BY <1>7 DEF CallbackReturns
  <2> QED
    BY <2>1 DEF ApduInv, Has
<1>8. CASE AnswerApdu
  <2>1. /\ stage = "answer" /\ stage' = "unref" /\ pending'.conn = NoConn
        /\ UNCHANGED <<workq, busy>>
    BY <1>8 DEF AnswerApdu, TypeOK
  <2> QED
    BY <2>1 DEF ApduInv, Has
<1>9. CASE ClearBusy
  <2>1. /\ stage = "unref" /\ stage' = "none" /\ pending'.conn = NoConn
        /\ UNCHANGED workq
    BY <1>9 DEF ClearBusy, NoPending
  <2> QED
    BY <2>1 DEF ApduInv, Has
<1>10. CASE UNCHANGED vars
  BY <1>10 DEF ApduInv, Has, vars
<1> QED
  BY <1>2, <1>3, <1>4, <1>5, <1>6, <1>7, <1>8, <1>9, <1>10, SessionSteps

\* Every step leaves the session to one connection, and a challenge answered
\* once.
LEMMA StepDialogue ==
  ASSUME TypeOK, Once(workq), ApduInv, DialogueInv, [Next]_vars
  PROVE  DialogueInv'
<1>1. "reset" \in WorkItem /\ "apdu" \in WorkItem /\ "reset" # "apdu"
  BY DEF WorkItem
<1>2. /\ nonces \in Nat /\ nonces <= MaxNonce /\ MaxNonce \in Nat
      /\ issuedTo \in [Nonce -> Conn \cup {NoConn}] /\ workq \in Seq(WorkItem)
      /\ nonce_valid \in BOOLEAN /\ selected \in BOOLEAN
  BY SessionBounds DEF TypeOK, WorkItem
<1>3. CASE Connect \/ Disconnect \/ StopAdvertising
  <2>1. Submit("reset") /\ UNCHANGED <<stage, pending, session, nonces, hist>>
    BY <1>3 DEF Connect, Disconnect, StopAdvertising
  <2>2. /\ Has(workq, "reset")'
        /\ workq # <<>> => Head(workq') = Head(workq)
        /\ workq = <<>> => Head(workq') = "reset"
    BY <1>1, <2>1, SubmitEffect
  <2> QED
    BY <1>1, <2>1, <2>2 DEF DialogueInv, SessionOf, session, hist
<1>4. CASE \E a \in Apdu : Write(a)
  <2>1. /\ Submit("apdu") /\ UNCHANGED <<stage, conn, session, nonces, hist>>
        /\ pending'.conn = conn /\ conn # NoConn /\ ~busy
    BY <1>4 DEF Write
  <2>2. /\ Has(workq, "reset")' <=> Has(workq, "reset")
        /\ workq # <<>> => Head(workq') = Head(workq)
    BY <1>1, <2>1, SubmitEffect
  <2>3. ~Has(workq, "apdu") /\ stage = "none"
    BY <2>1 DEF ApduInv
  <2>4. CASE workq = <<>>
    <3>1. ~Has(workq, "reset")
      BY <2>4 DEF Has
    <3>2. SessionOf(conn)
      BY <2>1, <3>1 DEF DialogueInv
    <3> QED
      BY <2>1, <2>2, <2>3, <3>2 DEF DialogueInv, SessionOf, session, hist
  <2>5. CASE workq # <<>>
    <3>1. Has(workq, Head(workq))
      BY <1>2, <2>5, Taken
    <3>2. Head(workq') # "apdu"
      BY <2>2, <2>3, <2>5, <3>1
    <3> QED
      BY <2>1, <2>2, <2>3, <3>2 DEF DialogueInv, SessionOf, session, hist
  <2> QED
    BY <2>4, <2>5
<1>5. CASE WriteSubmitFails
  <2>1. UNCHANGED <<stage, conn, workq, session, nonces, hist>> /\ ~busy
    BY <1>5 DEF WriteSubmitFails
  <2>2. ~Has(workq, "apdu") /\ stage = "none"
    BY <2>1 DEF ApduInv
  <2>3. workq # <<>> => Head(workq) # "apdu"
    BY <1>2, <2>2, Taken
  <2> QED
    BY <2>1, <2>2, <2>3 DEF DialogueInv, SessionOf, Has, session, hist
<1>6. CASE ResetSession
  <2>1. /\ Take("reset") /\ nonce_valid' = FALSE /\ selected' = FALSE
        /\ UNCHANGED <<stage, nonces, hist>>
    BY <1>6 DEF ResetSession
  <2>2. stage # "callback"
    BY <2>1 DEF Take
  <2> QED
    BY <2>1, <2>2 DEF DialogueInv, SessionOf, hist
<1>7. CASE Runs
  <2>1. Take("apdu") /\ UNCHANGED <<conn, pending>>
    BY <1>7, RunsEffect
  <2>2. /\ stage = "none" /\ Has(workq, "apdu") /\ workq # <<>> /\ Head(workq) = "apdu"
        /\ ~Has(workq, "apdu")'
        /\ Has(workq, "reset")' <=> Has(workq, "reset")
        /\ workq' # <<>> => Has(workq, Head(workq))'
    BY <1>1, <2>1, TakeEffect
  <2>3. workq' # <<>> => Head(workq') # "apdu"
    BY <2>2
  <2>4. SessionOf(pending.conn)
    BY <2>2 DEF DialogueInv
  <2>5. conn # NoConn => conn = pending.conn
    BY <2>2 DEF ApduInv
  <2>6. /\ SessionOf(pending.conn)'
        /\ (stage' = "callback" => ~nonce_valid' /\ issuedTo'[cur_nonce'] = pending.conn)
        /\ nonce_valid' => cur_nonce' \in 1 .. nonces' /\ cur_nonce' \notin verified'
        /\ verified' \subseteq 1 .. nonces'
    <3>1. CASE HandleSelect
      BY <1>2, <2>4, <3>1 DEF HandleSelect, SessionOf, DialogueInv
    <3>2. CASE HandleGetChallenge
      <4>1. CASE UNCHANGED <<nonce_valid, cur_nonce, nonces, issuedTo>>
        BY <2>4, <3>2, <4>1 DEF HandleGetChallenge, SessionOf, DialogueInv
      <4>2. CASE /\ nonces < MaxNonce
                 /\ nonces' = nonces + 1
                 /\ cur_nonce' = nonces + 1 /\ nonce_valid' = TRUE
                 /\ issuedTo' = [issuedTo EXCEPT ![nonces + 1] = pending.conn]
        <5>1. nonces + 1 \in Nonce /\ nonces + 1 \notin 1 .. nonces
              /\ 1 .. nonces \subseteq 1 .. nonces + 1
          BY <1>2, <4>2 DEF Nonce
        <5>2. issuedTo'[cur_nonce'] = pending.conn
          BY <1>2, <4>2, <5>1
        <5>3. verified' = verified /\ stage' # "callback" /\ pending' = pending
              /\ selected' = selected /\ selectedBy' = selectedBy
          BY <3>2 DEF HandleGetChallenge
        <5>4. selected' => selectedBy' = pending.conn
          BY <2>4, <5>3 DEF SessionOf
        <5>5. SessionOf(pending.conn)'
          BY <5>2, <5>3, <5>4 DEF SessionOf
        <5>6. verified \subseteq 1 .. nonces
          BY DEF DialogueInv
        <5>7. cur_nonce' \in 1 .. nonces' /\ cur_nonce' \notin verified'
              /\ verified' \subseteq 1 .. nonces'
          BY <1>2, <4>2, <5>1, <5>3, <5>6
        <5> QED
          BY <5>3, <5>5, <5>7
      <4>3. CASE nonce_valid' = FALSE /\ UNCHANGED <<nonces, issuedTo>>
        BY <2>4, <3>2, <4>3 DEF HandleGetChallenge, SessionOf, DialogueInv
      <4> QED
        BY <3>2, <4>1, <4>2, <4>3 DEF HandleGetChallenge
    <3>3. CASE HandleUnlockRefused \/ HandleMalformed
      <4>1. stage' = "answer" /\ UNCHANGED <<session, nonces, hist>>
        BY <3>3 DEF HandleUnlockRefused, HandleMalformed
      <4> QED
        BY <2>1, <2>4, <4>1 DEF SessionOf, DialogueInv, session, hist
    <3>4. CASE HandleUnlock
      BY <2>4, <3>4 DEF HandleUnlock, SessionOf, DialogueInv
    <3> QED
      BY <1>7, <3>1, <3>2, <3>3, <3>4 DEF Runs
  <2> QED
    BY <2>1, <2>3, <2>5, <2>6 DEF DialogueInv
<1>8. CASE CallbackReturns \/ ClearBusy
  <2>1. /\ stage' # "callback" /\ UNCHANGED <<conn, workq, session, nonces, hist>>
        /\ stage # "none"
    BY <1>8 DEF CallbackReturns, ClearBusy
  <2>2. ~Has(workq, "apdu")
    BY <2>1 DEF ApduInv
  <2>3. workq # <<>> => Head(workq) # "apdu"
    BY <1>2, <2>2, Taken
  <2> QED
    BY <2>1, <2>3 DEF DialogueInv, SessionOf, Has, session, hist
<1>9. CASE AnswerApdu
  <2>1. /\ stage' # "callback" /\ UNCHANGED <<conn, workq, session, nonces, hist>>
        /\ stage # "none"
    BY <1>9 DEF AnswerApdu
  <2>2. ~Has(workq, "apdu")
    BY <2>1 DEF ApduInv
  <2>3. workq # <<>> => Head(workq) # "apdu"
    BY <1>2, <2>2, Taken
  <2> QED
    BY <2>1, <2>3 DEF DialogueInv, SessionOf, Has, session, hist
<1>10. CASE UNCHANGED vars
  BY <1>10 DEF DialogueInv, SessionOf, Has, vars, session, hist
<1> QED
  BY <1>3, <1>4, <1>5, <1>6, <1>7, <1>8, <1>9, <1>10, SessionSteps

-----------------------------------------------------------------------------
(***************************************************************************)
(* The lock's drive                                                        *)
(***************************************************************************)

\* on_unlock_result begins a lock_unlock.
CallBegins ==
  /\ call["unlock"] = "none" /\ Goes("unlock", "drive")
  /\ UNCHANGED <<drive, timer, queue, open, flushing, others, age, jammed>>

\* Every step of the drive is one of these.
LEMMA DriveSteps ==
  ASSUME ResultInv, [UnlockingNext]_uvars
  PROVE  \/ \E t \in Thread : LockUnlock(t) \/ LockLock(t)
         \/ RemoteCommand \/ FlushBegins \/ FlushEnds
         \/ Edge \/ OtherTimesOut \/ Tick
         \/ Release \/ RunOther \/ EventQueues \/ SaveEnds
         \/ CallBegins \/ UNCHANGED dvars
<1>1. CASE DriveNext
  BY <1>1 DEF DriveNext, Calls, SysworkqRuns
<1>2. CASE EventQueued
  <2>1. result = "wait" /\ call["unlock"] = "none"
    BY <1>2 DEF EventQueued, ResultInv
  <2> QED
    BY <1>2, <2>1 DEF EventQueued, CallBegins, dvars
<1>3. CASE Unlocks
  BY <1>3 DEF Unlocks, Verify, ResultReturns
<1> QED
  BY <1>1, <1>2, <1>3 DEF UnlockingNext, uvars

\* What each step does to the system work queue: only a cancel and the head's
\* turn take an item out.
LEMMA SysqEffect ==
  ASSUME DriveTypeOK, Once(sysq)
  PROVE  /\ Withdraw("release") =>
              /\ sysq' \in Seq(Item) /\ Once(sysq')
              /\ \A y : Has(sysq, y)' <=> Has(sysq, y) /\ y # "release"
         /\ \A item \in Item : TakeItem(item) =>
              /\ sysq' \in Seq(Item) /\ Once(sysq') /\ handler = "none"
              /\ \A y : Has(sysq, y)' <=> Has(sysq, y) /\ y # item
         /\ \A item \in Item : sysq' = Queued(item) =>
              /\ sysq' \in Seq(Item) /\ Once(sysq')
              /\ \A y : Has(sysq, y)' <=> Has(sysq, y) \/ y = item
<1>1. sysq \in Seq(Item) /\ "release" \in Item
  BY DEF DriveTypeOK, Item
<1> DEFINE r == sysq'
<1>2. ASSUME Withdraw("release")
      PROVE  /\ r \in Seq(Item) /\ Once(r)
             /\ \A y : Has(r, y) <=> Has(sysq, y) /\ y # "release"
  <2>1. CASE UNCHANGED sysq /\ \A i \in DOMAIN sysq : sysq[i] # "release"
    BY <1>1, <2>1 DEF Has, Once
  <2>2. ASSUME NEW i \in DOMAIN sysq, sysq[i] = "release",
               sysq' = SubSeq(sysq, 1, i - 1) \o SubSeq(sysq, i + 1, Len(sysq))
        PROVE  /\ r \in Seq(Item) /\ Once(r)
               /\ \A y : Has(r, y) <=> Has(sysq, y) /\ y # "release"
    <3>1. r = SubSeq(sysq, 1, i - 1) \o SubSeq(sysq, i + 1, Len(sysq))
      BY <2>2
    <3> HIDE DEF r
    <3> QED
      BY <1>1, <2>2, <3>1, Withdrawn
  <2> QED
    BY <1>2, <2>1, <2>2 DEF Withdraw
<1>3. ASSUME NEW item \in Item, TakeItem(item)
      PROVE  /\ r \in Seq(Item) /\ Once(r) /\ handler = "none"
             /\ \A y : Has(r, y) <=> Has(sysq, y) /\ y # item
  <2>1. handler = "none" /\ sysq # <<>> /\ Head(sysq) = item /\ r = Tail(sysq)
    BY <1>3 DEF TakeItem
  <2> HIDE DEF r
  <2>2. /\ Tail(sysq) \in Seq(Item) /\ Once(Tail(sysq))
        /\ \A y : Has(sysq, y) <=> Has(Tail(sysq), y) \/ y = Head(sysq)
        /\ ~Has(Tail(sysq), Head(sysq))
    BY <1>1, <2>1, Taken
  <2> QED
    BY <2>1, <2>2
<1>4. ASSUME NEW item \in Item, sysq' = Queued(item)
      PROVE  /\ r \in Seq(Item) /\ Once(r)
             /\ \A y : Has(r, y) <=> Has(sysq, y) \/ y = item
  <2>1. \/ Has(sysq, item) /\ r = sysq
        \/ ~Has(sysq, item) /\ r = Append(sysq, item)
    BY <1>4 DEF Queued, Has
  <2> HIDE DEF r
  <2> QED
    BY <1>1, <2>1, Submitted
<1> QED
  BY <1>2, <1>3, <1>4 DEF Has, Once

\* The system work queue never holds an item twice.
LEMMA StepSysq ==
  ASSUME DriveTypeOK, Once(sysq), ResultInv, [UnlockingNext]_uvars
  PROVE  sysq' \in Seq(Item) /\ Once(sysq') /\ Len(sysq') <= 4
<1>1. sysq \in Seq(Item) /\ Item = {"release", "sense", "still", "counter"}
  BY DEF DriveTypeOK, Item
<1>2. sysq' \in Seq(Item) /\ Once(sysq')
  <2>1. CASE UNCHANGED sysq
    BY <1>1, <2>1 DEF Once
  <2>2. CASE \/ Withdraw("release")
             \/ \E item \in Item : TakeItem(item) \/ sysq' = Queued(item)
    BY <2>2, SysqEffect
  <2>3. ASSUME NEW t \in Thread, LockUnlock(t) \/ LockLock(t)
        PROVE  UNCHANGED sysq \/ Withdraw("release")
    BY <2>3 DEF LockUnlock, LockLock, queue
  <2>4. ASSUME \/ RemoteCommand \/ FlushBegins \/ FlushEnds
               \/ EventQueues \/ SaveEnds \/ CallBegins \/ UNCHANGED dvars
        PROVE  UNCHANGED sysq
    BY <2>4 DEF RemoteCommand, FlushBegins, FlushEnds, EventQueues, SaveEnds,
                CallBegins, queue, dvars
  <2>5. ASSUME Release \/ RunOther
        PROVE  \E item \in Item : TakeItem(item)
    BY <1>1, <2>5 DEF Release, RunOther
  <2>6. ASSUME Edge \/ OtherTimesOut \/ Tick
        PROVE  UNCHANGED sysq \/ \E item \in Item : sysq' = Queued(item)
    BY <1>1, <2>6 DEF Edge, OtherTimesOut, Tick
  <2> QED
    BY <2>1, <2>2, <2>3, <2>4, <2>5, <2>6, DriveSteps
<1>3. Len(sysq') <= 4
  BY <1>2, SysqLength
<1> QED
  BY <1>2, <1>3

\* Every step of the drive keeps the types.
LEMMA StepDriveType ==
  ASSUME DriveTypeOK, Once(sysq), ResultInv, [UnlockingNext]_uvars
  PROVE  DriveTypeOK'
<1>1. sysq' \in Seq(Item) /\ Len(sysq') <= 4
  BY StepSysq
<1>2. PULSE \in Nat /\ PULSE > 0 /\ MaxOther \in Nat
  BY DriveBounds
<1>3. /\ drive \in BOOLEAN /\ jammed \in BOOLEAN /\ flushing \in BOOLEAN
      /\ timer \in 0 .. PULSE /\ age \in 0 .. PULSE + 1 /\ others \in 0 .. MaxOther
      /\ open \in Position /\ reported \in Position
      /\ handler \in Position \cup {"none", "still", "save"}
      /\ call \in [Thread -> {"none", "drive", "schedule", "cancel", "release"}]
  BY DEF DriveTypeOK
<1>4. CASE \E t \in Thread : LockUnlock(t) \/ LockLock(t)
  <2>1. PICK t \in Thread : LockUnlock(t) \/ LockLock(t)
    BY <1>4
  <2>2. drive' \in BOOLEAN /\ jammed' \in BOOLEAN
    BY <1>3, <2>1 DEF LockUnlock, LockLock, Set, SetFails
  <2>3. timer' \in 0 .. PULSE /\ age' \in 0 .. PULSE + 1
    <3>1. timer' \in {timer, 0, PULSE} /\ age' \in {age, 0}
      BY <2>1 DEF LockUnlock, LockLock
    <3>2. 0 \in 0 .. PULSE /\ PULSE \in 0 .. PULSE /\ 0 \in 0 .. PULSE + 1
      BY <1>2
    <3> QED
      BY <1>3, <3>1, <3>2
  <2>4. call' \in [Thread -> {"none", "drive", "schedule", "cancel", "release"}]
    BY <1>3, <2>1 DEF LockUnlock, LockLock, Goes
  <2>5. UNCHANGED <<handler, reported, open, flushing, others>>
    BY <2>1 DEF LockUnlock, LockLock, queue
  <2> QED
    BY <1>1, <1>3, <2>2, <2>3, <2>4, <2>5 DEF DriveTypeOK
<1>5. CASE RemoteCommand \/ CallBegins
  <2>1. call' \in [Thread -> {"none", "drive", "schedule", "cancel", "release"}]
    BY <1>3, <1>5 DEF RemoteCommand, CallBegins, Goes
  <2>2. others' \in 0 .. MaxOther
    BY <1>2, <1>3, <1>5 DEF RemoteCommand, CallBegins, Other
  <2>3. UNCHANGED <<drive, timer, handler, reported, open, flushing, age, jammed>>
    BY <1>5 DEF RemoteCommand, CallBegins, queue
  <2> QED
    BY <1>1, <1>3, <2>1, <2>2, <2>3 DEF DriveTypeOK
<1>6. CASE FlushBegins \/ FlushEnds \/ UNCHANGED dvars
  <2>1. /\ flushing' \in BOOLEAN
        /\ UNCHANGED <<drive, timer, handler, reported, open, others, call, age, jammed>>
    BY <1>3, <1>6 DEF FlushBegins, FlushEnds, queue, dvars
  <2> QED
    BY <1>1, <1>3, <2>1 DEF DriveTypeOK
<1>7. CASE Edge \/ OtherTimesOut \/ RunOther \/ EventQueues \/ SaveEnds
  <2>1. open' \in Position /\ reported' \in Position
    BY <1>3, <1>7 DEF Edge, OtherTimesOut, RunOther, EventQueues, SaveEnds, Position
  <2>2. handler' \in Position \cup {"none", "still", "save"}
    BY <1>3, <1>7 DEF Edge, OtherTimesOut, RunOther, EventQueues, SaveEnds
  <2>3. others' \in 0 .. MaxOther
    BY <1>2, <1>3, <1>7 DEF Edge, OtherTimesOut, RunOther, EventQueues, SaveEnds, Other
  <2>4. UNCHANGED <<drive, timer, flushing, call, age, jammed>>
    BY <1>7 DEF Edge, OtherTimesOut, RunOther, EventQueues, SaveEnds
  <2> QED
    BY <1>1, <1>3, <2>1, <2>2, <2>3, <2>4 DEF DriveTypeOK
<1>8. CASE Release
  <2>1. drive' \in BOOLEAN /\ jammed' \in BOOLEAN
    BY <1>3, <1>8 DEF Release, Set, SetFails
  <2>2. UNCHANGED <<timer, handler, reported, open, flushing, others, call, age>>
    BY <1>8 DEF Release
  <2> QED
    BY <1>1, <1>3, <2>1, <2>2 DEF DriveTypeOK
<1>9. CASE Tick
  <2>1. timer' \in 0 .. PULSE
    BY <1>2, <1>3, <1>9 DEF Tick
  <2>2. age' \in 0 .. PULSE + 1
    BY <1>2, <1>3, <1>9 DEF Tick
  <2>3. UNCHANGED <<drive, handler, reported, open, flushing, others, call, jammed>>
    BY <1>9 DEF Tick
  <2> QED
    BY <1>1, <1>3, <2>1, <2>2, <2>3 DEF DriveTypeOK
<1> QED
  BY <1>4, <1>5, <1>6, <1>7, <1>8, <1>9, DriveSteps

\* Every step leaves the position reported, in hand, or to be read again.
LEMMA StepPosition ==
  ASSUME DriveTypeOK, Once(sysq), ResultInv, PositionInv, [UnlockingNext]_uvars
  PROVE  PositionInv'
<1>1. Item = {"release", "sense", "still", "counter"}
  BY DEF Item
<1>2. CASE Edge
  <2>1. sysq' = Queued("sense")
    BY <1>2 DEF Edge
  <2>2. Has(sysq, "sense")'
    BY <1>1, <2>1, SysqEffect
  <2> QED
    BY <2>2 DEF PositionInv
<1>3. ASSUME NEW item \in Item \ {"sense"},
             TakeItem(item) \/ sysq' = Queued(item) \/ UNCHANGED sysq,
             UNCHANGED <<open, reported>>,
             UNCHANGED handler \/ (handler \notin Position /\ handler' \notin Position)
      PROVE  PositionInv'
  <2>1. Has(sysq, "sense")' <=> Has(sysq, "sense")
    <3>1. CASE UNCHANGED sysq
      BY <3>1 DEF Has
    <3>2. CASE TakeItem(item) \/ sysq' = Queued(item)
      BY <1>3, <3>2, SysqEffect
    <3> QED
      BY <1>3, <3>1, <3>2
  <2> QED
    BY <1>3, <2>1 DEF PositionInv
<1>4. CASE RunOther
  <2>1. CASE TakeItem("sense") /\ handler' = open
    <3>1. handler' = open /\ open' = open /\ open \in Position
      BY <1>4, <2>1 DEF RunOther, DriveTypeOK
    <3> QED
      BY <3>1 DEF PositionInv
  <2>2. CASE \/ TakeItem("still") /\ handler' \in {"none", "still"}
             \/ TakeItem("counter") /\ handler' \in {"none", "save"}
    <3>1. UNCHANGED <<open, reported>> /\ handler = "none" /\ handler' \notin Position
      BY <1>4, <2>2 DEF RunOther, TakeItem, Position
    <3>2. handler \notin Position
      BY <3>1 DEF Position
    <3> QED
      BY <1>1, <1>3, <2>2, <3>1, <3>2
  <2> QED
    BY <1>4, <2>1, <2>2 DEF RunOther
<1>5. CASE Release \/ OtherTimesOut \/ Tick \/ SaveEnds
  <2>1. UNCHANGED <<open, reported>>
    BY <1>5 DEF Release, OtherTimesOut, Tick, SaveEnds
  <2>2. UNCHANGED handler \/ (handler \notin Position /\ handler' \notin Position)
    BY <1>5 DEF Release, OtherTimesOut, Tick, SaveEnds, Position
  <2>3. \E item \in Item \ {"sense"} :
          TakeItem(item) \/ sysq' = Queued(item) \/ UNCHANGED sysq
    <3>1. "release" \in Item \ {"sense"} /\ {"still", "counter"} \subseteq Item \ {"sense"}
      BY <1>1
    <3>2. CASE OtherTimesOut
      BY <3>1, <3>2 DEF OtherTimesOut
    <3>3. CASE Release
      BY <3>1, <3>3 DEF Release
    <3>4. CASE Tick \/ SaveEnds
      BY <3>1, <3>4 DEF Tick, SaveEnds
    <3> QED
      BY <1>5, <3>2, <3>3, <3>4
  <2> QED
    BY <1>3, <2>1, <2>2, <2>3
<1>6. CASE \E t \in Thread : LockUnlock(t) \/ LockLock(t)
  <2>1. PICK t \in Thread : LockUnlock(t) \/ LockLock(t)
    BY <1>6
  <2>2. UNCHANGED sysq \/ Withdraw("release")
    BY <2>1 DEF LockUnlock, LockLock, queue
  <2>3. UNCHANGED <<handler, reported, open>>
    BY <2>1 DEF LockUnlock, LockLock, queue
  <2>4. Has(sysq, "sense")' <=> Has(sysq, "sense")
    <3>1. CASE UNCHANGED sysq
      BY <3>1 DEF Has
    <3>2. CASE Withdraw("release")
      BY <1>1, <3>2, SysqEffect
    <3> QED
      BY <2>2, <3>1, <3>2
  <2> QED
    BY <2>3, <2>4 DEF PositionInv
<1>7. CASE EventQueues
  <2>1. UNCHANGED <<sysq, open>> /\ handler' \notin Position
        /\ reported' = IF handler \in Position THEN handler ELSE reported
    BY <1>7 DEF EventQueues, Position
  <2> QED
    BY <2>1 DEF PositionInv, Has
<1>8. CASE RemoteCommand \/ FlushBegins \/ FlushEnds \/ CallBegins \/ UNCHANGED dvars
  <2>1. UNCHANGED <<sysq, handler, reported, open>>
    BY <1>8 DEF RemoteCommand, FlushBegins, FlushEnds, CallBegins, queue, dvars
  <2> QED
    BY <2>1 DEF PositionInv, Has
<1> QED
  BY <1>2, <1>4, <1>5, <1>6, <1>7, <1>8, DriveSteps

\* Every step leaves the end of a pulse in time, queued, or in some thread's
\* hand.
LEMMA StepPulse ==
  ASSUME DriveTypeOK, Once(sysq), ResultInv, PulseInv, [UnlockingNext]_uvars
  PROVE  PulseInv'
<1>1. Item = {"release", "sense", "still", "counter"}
  BY DEF Item
<1>2. /\ PULSE \in Nat /\ PULSE > 0 /\ timer \in 0 .. PULSE /\ age \in 0 .. PULSE + 1
      /\ call \in [Thread -> {"none", "drive", "schedule", "cancel", "release"}]
  BY DriveBounds DEF DriveTypeOK
<1>3. ASSUME NEW t \in Thread, LockUnlock(t) PROVE PulseInv'
  <2>1. UNCHANGED sysq
    BY <1>3 DEF LockUnlock, queue
  <2>2. CASE call[t] = "drive" /\ Set(TRUE) /\ Goes(t, "schedule") /\ age' = 0
    <3>1. call'[t] = "schedule" /\ \A u \in Thread \ {t} : call'[u] = call[u]
      BY <1>2, <2>2 DEF Goes
    <3> QED
      BY <2>2, <3>1 DEF PulseInv
  <2>3. CASE call[t] = "drive" /\ SetFails /\ Goes(t, "none") /\ UNCHANGED <<timer, age>>
    <3>1. call'[t] = "none" /\ \A u \in Thread \ {t} : call'[u] = call[u]
      BY <1>2, <2>3 DEF Goes
    <3> QED
      BY <2>3, <3>1 DEF PulseInv, SetFails
  <2>4. CASE /\ call[t] = "schedule" /\ timer' = PULSE /\ Goes(t, "none")
             /\ UNCHANGED <<drive, age, jammed>>
    <3>1. call'[t] = "none" /\ \A u \in Thread \ {t} : call'[u] = call[u]
      BY <1>2, <2>4 DEF Goes
    <3>2. age = 0
      BY <2>4 DEF PulseInv
    <3> QED
      BY <1>2, <2>4, <3>1, <3>2 DEF PulseInv
  <2> QED
    BY <1>3, <2>2, <2>3, <2>4 DEF LockUnlock
<1>4. ASSUME NEW t \in Thread, LockLock(t) PROVE PulseInv'
  <2>1. CASE call[t] = "cancel" /\ Goes(t, "release") /\ UNCHANGED <<drive, age, jammed>>
    <3>1. call'[t] = "release" /\ \A u \in Thread \ {t} : call'[u] = call[u]
      BY <1>2, <2>1 DEF Goes
    <3> QED
      BY <2>1, <3>1 DEF PulseInv
  <2>2. CASE /\ call[t] = "release" /\ (Set(FALSE) \/ SetFails) /\ Goes(t, "none")
             /\ UNCHANGED <<timer, sysq, age>>
    <3>1. call'[t] = "none" /\ \A u \in Thread \ {t} : call'[u] = call[u]
      BY <1>2, <2>2 DEF Goes
    <3>2. ~drive' \/ jammed'
      BY <2>2 DEF Set, SetFails
    <3> QED
      BY <2>2, <3>1, <3>2 DEF PulseInv
  <2> QED
    BY <1>4, <2>1, <2>2 DEF LockLock
<1>5. CASE RemoteCommand \/ CallBegins
  <2>1. PICK t \in Thread, left \in {"drive", "cancel"} :
          /\ Goes(t, left)
          /\ call[t] = "none"
          /\ UNCHANGED <<drive, timer, sysq, age, jammed>>
    BY <1>5 DEF RemoteCommand, CallBegins, queue, Thread
  <2>2. call'[t] \notin {"schedule", "release"} /\ \A u \in Thread \ {t} : call'[u] = call[u]
    BY <1>2, <2>1 DEF Goes
  <2> QED
    BY <2>1, <2>2 DEF PulseInv, Has
<1>6. ASSUME NEW item \in Item, (TakeItem(item) /\ item # "release") \/ sysq' = Queued(item),
             UNCHANGED <<drive, timer, call, age, jammed>>
      PROVE  PulseInv'
  <2>1. Has(sysq, "release") => Has(sysq, "release")'
    BY <1>6, SysqEffect
  <2> QED
    BY <1>6, <2>1 DEF PulseInv
<1>7. CASE Edge \/ OtherTimesOut \/ RunOther
  <2>1. UNCHANGED <<drive, timer, call, age, jammed>>
    BY <1>7 DEF Edge, OtherTimesOut, RunOther
  <2>2. \E item \in Item :
          (TakeItem(item) /\ item # "release") \/ sysq' = Queued(item)
    BY <1>1, <1>7 DEF Edge, OtherTimesOut, RunOther
  <2> QED
    BY <1>6, <2>1, <2>2
<1>8. CASE Release
  <2>1. (~drive' \/ jammed') /\ UNCHANGED <<call, age>>
    BY <1>8 DEF Release, Set, SetFails
  <2> QED
    BY <2>1 DEF PulseInv
<1>9. CASE Tick
  <2>1. /\ \A t \in Thread : call[t] = "none"
        /\ UNCHANGED <<drive, call, jammed>>
    BY <1>9 DEF Tick, Settled
  <2>2. CASE drive /\ ~jammed
    <3>1. Has(sysq, "release") \/ (timer > 0 /\ age + timer <= PULSE)
      BY <2>1, <2>2 DEF PulseInv
    <3>2. CASE Has(sysq, "release")
      <4>1. sysq' = Queued("release") \/ UNCHANGED sysq
        BY <1>9 DEF Tick
      <4>2. CASE UNCHANGED sysq
        BY <2>1, <3>2, <4>2 DEF PulseInv, Has
      <4>3. CASE sysq' = Queued("release")
        <5>1. Has(sysq, "release")'
          BY <1>1, <4>3, SysqEffect
        <5> QED
          BY <2>1, <5>1 DEF PulseInv
      <4> QED
        BY <4>1, <4>2, <4>3
    <3>3. CASE timer = 1
      <4>1. sysq' = Queued("release")
        BY <1>9, <3>3 DEF Tick
      <4>2. Has(sysq, "release")'
        BY <1>1, <4>1, SysqEffect
      <4> QED
        BY <2>1, <4>2 DEF PulseInv
    <3>4. CASE timer > 1 /\ age + timer <= PULSE
      <4>1. timer' = timer - 1 /\ age' \in {age, age + 1}
        BY <1>9, <3>4, <1>2 DEF Tick
      <4>2. timer' > 0 /\ age' + timer' <= PULSE
        <5>1. timer \in Nat /\ age \in Nat /\ PULSE \in Nat
          BY <1>2
        <5>2. CASE age' = age
          BY <3>4, <4>1, <5>1, <5>2
        <5>3. CASE age' = age + 1
          BY <3>4, <4>1, <5>1, <5>3
        <5> QED
          BY <4>1, <5>2, <5>3
      <4> QED
        BY <2>1, <4>2 DEF PulseInv
    <3> QED
      BY <1>2, <3>1, <3>2, <3>3, <3>4
  <2>3. CASE ~(drive /\ ~jammed)
    BY <2>1, <2>3 DEF PulseInv
  <2> QED
    BY <2>2, <2>3
<1>10. CASE FlushBegins \/ FlushEnds \/ EventQueues \/ SaveEnds \/ UNCHANGED dvars
  <2>1. UNCHANGED <<drive, timer, sysq, call, age, jammed>>
    BY <1>10 DEF FlushBegins, FlushEnds, EventQueues, SaveEnds, queue, dvars
  <2> QED
    BY <2>1 DEF PulseInv, Has
<1> QED
  BY <1>3, <1>4, <1>5, <1>7, <1>8, <1>9, <1>10, DriveSteps

-----------------------------------------------------------------------------
(***************************************************************************)
(* The callback that joins them                                            *)
(***************************************************************************)

\* Joined with the drive, the dialogue still only makes steps of its own.
LEMMA SessionStep == [UnlockingNext]_uvars => [Next]_vars
<1>1. CASE (Phone \/ StopAdvertising) /\ UNCHANGED <<dvars, result, granted>>
  BY <1>1 DEF Next
<1>2. CASE Unlocks
  BY <1>2 DEF Unlocks, Verify, ResultReturns, Dialogue, Next, WorkQueue
<1>3. CASE EventQueued
  BY <1>3 DEF EventQueued
<1>4. CASE UNCHANGED uvars
  BY <1>4 DEF uvars
<1> QED
  BY <1>1, <1>2, <1>3, <1>4 DEF UnlockingNext

\* Only EventQueued puts the unlock work queue's thread into lock_unlock.
LEMMA DriveKeepsCall ==
  ASSUME DriveTypeOK, DriveNext
  PROVE  call["unlock"] = "none" => call'["unlock"] = "none"
<1>1. call \in [Thread -> {"none", "drive", "schedule", "cancel", "release"}]
      /\ "unlock" \in Thread /\ "uplink" \in Thread
  BY DEF DriveTypeOK, Thread
<1>2. ASSUME NEW t \in Thread, LockUnlock(t) \/ LockLock(t), call["unlock"] = "none"
      PROVE  call'["unlock"] = "none"
  <2>1. call[t] # "none"
    BY <1>2 DEF LockUnlock, LockLock
  <2>2. t # "unlock" /\ \E left : Goes(t, left)
    BY <1>2, <2>1 DEF LockUnlock, LockLock
  <2> QED
    BY <1>1, <1>2, <2>2 DEF Goes
<1>3. CASE RemoteCommand
  <2>1. \E left : Goes("uplink", left)
    BY <1>3 DEF RemoteCommand
  <2> QED
    BY <1>1, <2>1 DEF Goes
<1>4. CASE \/ FlushBegins \/ FlushEnds \/ Edge \/ OtherTimesOut \/ Tick
           \/ Release \/ RunOther \/ EventQueues \/ SaveEnds
  BY <1>4 DEF FlushBegins, FlushEnds, Edge, OtherTimesOut, Tick, Release, RunOther,
              EventQueues, SaveEnds
<1> QED
  BY <1>2, <1>3, <1>4 DEF DriveNext, Calls, SysworkqRuns

\* Every step leaves the callback with the outcome of the answer in hand.
LEMMA StepResult ==
  ASSUME UnlockingTypeOK, Once(workq), ApduInv, ResultInv, [UnlockingNext]_uvars
  PROVE  /\ ResultInv'
         /\ result' \in {"none", "wait", "queued", "over"} /\ granted' \in BOOLEAN
<1>0. /\ result \in {"none", "wait", "queued", "over"} /\ granted \in BOOLEAN
      /\ TypeOK /\ DriveTypeOK
  BY DEF UnlockingTypeOK
<1>1. stage # "callback" => result = "none" /\ ~granted /\ call["unlock"] = "none"
  BY DEF ResultInv
<1>2. CASE (Phone \/ StopAdvertising) /\ UNCHANGED <<dvars, result, granted>>
  <2>1. UNCHANGED <<stage, cur_nonce, call, result, granted>>
    BY <1>2 DEF Phone, Connect, Disconnect, Write, WriteSubmitFails, StopAdvertising,
                session, dvars
  <2>2. pending' = pending \/ ~busy
    BY <1>2 DEF Phone, Connect, Disconnect, Write, WriteSubmitFails, StopAdvertising
  <2>3. CASE stage = "callback"
    <3>1. pending' = pending
      BY <2>2, <2>3 DEF ApduInv
    <3> QED
      BY <1>0, <2>1, <3>1 DEF ResultInv
  <2>4. CASE stage # "callback"
    BY <1>0, <1>1, <2>1, <2>4 DEF ResultInv
  <2> QED
    BY <2>3, <2>4
<1>3. CASE Verify
  <2>1. /\ stage = "none" /\ stage' = "callback" /\ result' = "wait"
        /\ UNCHANGED <<pending, cur_nonce, call>>
    BY <1>3 DEF Verify, HandleUnlock, RunApdu, Take, dvars
  <2>2. granted' = FALSE \/ granted' = (pending.apdu.nonce = cur_nonce)
    BY <1>3 DEF Verify
  <2>3. granted' \in BOOLEAN
    BY <2>2, Zenon
  <2>4. granted' => pending.apdu.nonce = cur_nonce
    BY <2>2, Zenon
  <2> QED
    BY <1>1, <2>1, <2>3, <2>4 DEF ResultInv
<1>4. CASE ResultReturns
  <2>1. result' = "none" /\ granted' = FALSE /\ call' = call
    BY <1>4 DEF ResultReturns, dvars
  <2>2. call["unlock"] = "none"
    BY <1>4 DEF ResultReturns, ResultInv
  <2>3. granted' \in BOOLEAN
    BY <2>1, Zenon
  <2> QED
    BY <2>1, <2>2, <2>3 DEF ResultInv
<1>5. CASE Dialogue /\ UNCHANGED <<dvars, result, granted>>
  <2>1. stage # "callback"
    BY <1>5 DEF Dialogue, ResetSession, HandleSelect, HandleGetChallenge,
                HandleUnlockRefused, HandleMalformed, AnswerApdu, ClearBusy, RunApdu, Take
  <2>2. UNCHANGED <<call, result, granted>>
    BY <1>5 DEF dvars
  <2> QED
    BY <1>0, <1>1, <2>1, <2>2 DEF ResultInv
<1>6. CASE EventQueued
  <2>1. /\ result = "wait" /\ UNCHANGED <<stage, pending, cur_nonce, granted>>
        /\ \/ granted /\ result' = "queued"
           \/ ~granted /\ result' = "over" /\ call' = call
    BY <1>6 DEF EventQueued, vars, session
  <2>2. call["unlock"] = "none" /\ stage = "callback"
    BY <2>1 DEF ResultInv
  <2> QED
    BY <1>0, <2>1, <2>2 DEF ResultInv
<1>7. CASE DriveNext /\ UNCHANGED <<vars, result, granted>>
  <2>1. UNCHANGED <<stage, pending, cur_nonce, result, granted>>
    BY <1>7 DEF vars, session
  <2>2. call["unlock"] = "none" => call'["unlock"] = "none"
    BY <1>0, <1>7, DriveKeepsCall
  <2> QED
    BY <1>0, <2>1, <2>2 DEF ResultInv
<1>8. CASE UNCHANGED uvars
  <2>1. UNCHANGED <<stage, pending, cur_nonce, call, result, granted>>
    BY <1>8 DEF uvars, vars, dvars, session
  <2> QED
    BY <1>0, <2>1 DEF ResultInv
<1> QED
  BY <1>2, <1>3, <1>4, <1>5, <1>6, <1>7, <1>8 DEF UnlockingNext, Unlocks

-----------------------------------------------------------------------------
(***************************************************************************)
(* Theorems                                                                *)
(***************************************************************************)

\* Every step keeps the inductive invariant.
LEMMA UnlockingStep == UnlockingInv /\ [UnlockingNext]_uvars => UnlockingInv'
<1> SUFFICES ASSUME UnlockingInv, [UnlockingNext]_uvars PROVE UnlockingInv'
  OBVIOUS
<1>1. /\ UnlockingTypeOK /\ TypeOK /\ DriveTypeOK /\ Once(workq) /\ Once(sysq)
      /\ ApduInv /\ DialogueInv /\ ResultInv /\ PositionInv /\ PulseInv
  BY DEF UnlockingInv, UnlockingTypeOK
<1>2. [Next]_vars
  BY SessionStep
<1>3. TypeOK' /\ Once(workq)'
  <2>1. TypeOK'
    BY <1>1, <1>2, StepSessionType
  <2>2. Once(workq')
    BY <1>1, <1>2, StepWorkq
  <2> QED
    BY <2>1, <2>2 DEF Once
<1>4. ApduInv' /\ DialogueInv'
  BY <1>1, <1>2, StepApdu, StepDialogue
<1>5. DriveTypeOK' /\ Once(sysq)'
  <2>1. DriveTypeOK'
    BY <1>1, StepDriveType
  <2>2. Once(sysq')
    BY <1>1, StepSysq
  <2> QED
    BY <2>1, <2>2 DEF Once
<1>6. PositionInv' /\ PulseInv'
  BY <1>1, StepPosition, StepPulse
<1>7. ResultInv' /\ result' \in {"none", "wait", "queued", "over"} /\ granted' \in BOOLEAN
  BY <1>1, StepResult
<1> QED
  BY <1>3, <1>4, <1>5, <1>6, <1>7 DEF UnlockingInv, UnlockingTypeOK

\* It holds at the start.
LEMMA InitUnlockingInv == UnlockingInit => UnlockingInv
<1> SUFFICES ASSUME UnlockingInit PROVE UnlockingInv
  OBVIOUS
<1>1. /\ PULSE \in Nat /\ MaxOther \in Nat /\ MaxConn \in Nat /\ MaxNonce \in Nat
      /\ MaxWrite \in Nat
  BY DriveBounds, SessionBounds
<1>2. TypeOK
  <2>1. /\ workq \in Seq({"reset", "apdu"}) /\ Len(workq) <= 2
        /\ pending \in [conn : Conn \cup {NoConn}, apdu : Apdu \cup {NoApdu}]
        /\ issuedTo \in [Nonce -> Conn \cup {NoConn}] /\ verified \subseteq Nonce
    BY DEF UnlockingInit, Init, NoPending
  <2>2. /\ conn \in Conn \cup {NoConn} /\ conns \in 0 .. MaxConn
        /\ nonces \in 0 .. MaxNonce /\ writes \in 0 .. MaxWrite
        /\ cur_nonce \in Nonce \cup {NoNonce} /\ selectedBy \in Conn \cup {NoConn}
        /\ stage \in {"none", "callback", "answer", "unref"}
    BY <1>1 DEF UnlockingInit, Init
  <2>3. busy \in BOOLEAN /\ selected \in BOOLEAN /\ nonce_valid \in BOOLEAN
    BY DEF UnlockingInit, Init
  <2> QED
    BY <2>1, <2>2, <2>3 DEF TypeOK
<1>3. DriveTypeOK
  <2>1. /\ sysq \in Seq(Item) /\ Len(sysq) <= 4
        /\ call \in [Thread -> {"none", "drive", "schedule", "cancel", "release"}]
    BY DEF UnlockingInit, DriveInit
  <2>2. /\ timer \in 0 .. PULSE /\ age \in 0 .. PULSE + 1 /\ others \in 0 .. MaxOther
        /\ open \in Position /\ reported \in Position
        /\ handler \in Position \cup {"none", "still", "save"}
    BY <1>1 DEF UnlockingInit, DriveInit, Position
  <2>3. drive \in BOOLEAN /\ flushing \in BOOLEAN /\ jammed \in BOOLEAN
    BY DEF UnlockingInit, DriveInit
  <2> QED
    BY <2>1, <2>2, <2>3 DEF DriveTypeOK
<1>4. UnlockingTypeOK
  BY <1>2, <1>3 DEF UnlockingTypeOK, UnlockingInit
<1>5. Once(workq) /\ Once(sysq)
  BY DEF Once, UnlockingInit, Init, DriveInit
<1>6. ApduInv
  BY DEF ApduInv, Has, UnlockingInit, Init, NoPending
<1>7. DialogueInv
  BY DEF DialogueInv, UnlockingInit, Init
<1>8. ResultInv
  BY DEF ResultInv, UnlockingInit, DriveInit, Thread
<1>9. PositionInv /\ PulseInv
  BY DEF PositionInv, PulseInv, UnlockingInit, DriveInit, Position
<1> QED
  BY <1>4, <1>5, <1>6, <1>7, <1>8, <1>9 DEF UnlockingInv

\* The inductive invariant holds always.
THEOREM UnlockingInvariant == UnlockingSpec => []UnlockingInv
BY InitUnlockingInv, UnlockingStep, PTL DEF UnlockingSpec

\* The state is always of its type; neither work queue holds an item twice.
THEOREM UnlockTyped == UnlockingSpec => []UnlockingTypeOK
<1>1. UnlockingInv => UnlockingTypeOK
  BY DEF UnlockingInv
<1> QED
  BY <1>1, UnlockingInvariant, PTL

\* An APDU runs on the dialogue of its own connection only: every reset goes
\* through the queue, and one that is queued is not queued again
\* (ble_unlock.c:88-112).
THEOREM OneConnection == UnlockingSpec => []SessionOfOneConnection
<1>1. UnlockingInv => SessionOfOneConnection
  BY DEF UnlockingInv, DialogueInv, SessionOf, SessionOfOneConnection
<1> QED
  BY <1>1, UnlockingInvariant, PTL

\* No challenge is answered twice, across connections and resets
\* (unlock.c:188-190).
THEOREM AnsweredOnce == UnlockingSpec => NonceOnce
<1>1. ASSUME UnlockingInv, [UnlockingNext]_uvars
      PROVE  [stage = "none" /\ stage' = "callback" => cur_nonce \notin verified]_vars
  <2>1. SUFFICES ASSUME stage = "none", stage' = "callback"
                 PROVE  cur_nonce \notin verified
    BY <2>1
  <2>2. HandleUnlock
    BY <1>1, <2>1, SessionStep
       DEF Next, Phone, WorkQueue, Connect, Disconnect, Write, WriteSubmitFails,
           StopAdvertising, ResetSession, HandleSelect, HandleGetChallenge,
           HandleUnlockRefused, HandleMalformed, CallbackReturns, AnswerApdu, ClearBusy,
           vars
  <2> QED
    BY <1>1, <2>2 DEF UnlockingInv, DialogueInv, HandleUnlock
<1> QED
  BY <1>1, UnlockingInvariant, PTL DEF UnlockingSpec, NonceOnce

\* The lock is driven by the answer that was verified, over the connection its
\* challenge was issued to, and once for it (ble_unlock.c, main.c's
\* on_unlock_result).
THEOREM DrivenByAnswer == UnlockingSpec => []DrivenByItsAnswer
<1>1. UnlockingInv => DrivenByItsAnswer
  BY DEF UnlockingInv, DialogueInv, ResultInv, DrivenByItsAnswer
<1> QED
  BY <1>1, UnlockingInvariant, PTL

\* Once no reading of the switch is outstanding, the position reported last is
\* the lock's (lock.c:56-64).
THEOREM LastReportIsTrue == UnlockingSpec => []PositionReported
<1>1. UnlockingInv => PositionReported
  BY DEF UnlockingInv, PositionInv, Has, PositionReported
<1> QED
  BY <1>1, UnlockingInvariant, PTL

\* However the calls of two threads cross, for every length of the pulse: only
\* another item of the system work queue, waiting for the end of a flush or
\* writing flash, delays the end of one (lock.c:35-44).
THEOREM PulseEndsInTime == UnlockingSpec => OverrunOnlyBehindOthers
<1>1. ASSUME UnlockingInv, [UnlockingNext]_uvars
      PROVE  [~jammed /\ age' > age /\ age' > PULSE
                => handler = "save" \/ (handler # "none" /\ flushing)]_dvars
  <2>1. SUFFICES ASSUME ~jammed, age' > age, age' > PULSE,
                        ~(handler = "save" \/ (handler # "none" /\ flushing))
                 PROVE  FALSE
    BY <2>1
  <2>2. /\ PULSE \in Nat /\ timer \in 0 .. PULSE /\ age \in 0 .. PULSE + 1
        /\ DriveTypeOK /\ ResultInv /\ PulseInv
    BY <1>1, DriveBounds DEF UnlockingInv, UnlockingTypeOK, DriveTypeOK
  <2>3. age' # age /\ age' # 0
    BY <2>1, <2>2
  <2>4. Tick
    <3>1. \A t \in Thread : ~LockUnlock(t) /\ ~LockLock(t)
      BY <2>3 DEF LockUnlock, LockLock
    <3> QED
      BY <1>1, <2>2, <2>3, <3>1, DriveSteps
         DEF RemoteCommand, FlushBegins, FlushEnds, Edge, OtherTimesOut, Release, RunOther,
             EventQueues, SaveEnds, CallBegins, dvars
  <2>5. /\ \A t \in Thread : call[t] = "none"
        /\ handler = "none" /\ sysq = <<>> /\ drive /\ age' = age + 1
    BY <2>1, <2>2, <2>3, <2>4 DEF Tick, Settled, DriveTypeOK
  <2>6. timer > 0 /\ age + timer <= PULSE
    BY <2>1, <2>2, <2>5 DEF PulseInv, Has
  <2> QED
    BY <2>1, <2>2, <2>5, <2>6
<1> QED
  BY <1>1, UnlockingInvariant, PTL DEF UnlockingSpec, OverrunOnlyBehindOthers

\* Joined with the drive the dialogue is still the dialogue: the callback and
\* the wait for ev_lock add no behaviour to it.
THEOREM JoinedDialogue == UnlockingSpec => Spec
<1>1. UnlockingInit => Init
  BY DEF UnlockingInit
<1> QED
  BY <1>1, SessionStep, PTL DEF UnlockingSpec, Spec

\* What the dialogue may do to the drive: its callback calls lock_unlock, after
\* the last call of its thread has returned.
UnlockCalled ==
  /\ call["unlock"] = "none" /\ ~flushing
  /\ Goes("unlock", "drive")
  /\ UNCHANGED <<drive, timer, queue, open, flushing, others, age, jammed>>

DriveSpec == DriveInit /\ [][DriveNext \/ UnlockCalled]_dvars

\* Joined with the dialogue the drive is still the drive: the thread never
\* starts a call before its last one is over.
THEOREM JoinedDrive == UnlockingSpec => DriveSpec
<1>1. UnlockingInit => DriveInit
  BY DEF UnlockingInit
<1>2. UnlockingInv /\ [UnlockingNext]_uvars => [DriveNext \/ UnlockCalled]_dvars
  <2>1. SUFFICES ASSUME UnlockingInv, [UnlockingNext]_uvars
                 PROVE  DriveNext \/ UnlockCalled \/ UNCHANGED dvars
    OBVIOUS
  <2>2. CASE EventQueued
    <3>1. /\ result = "wait" /\ ~flushing
          /\ UNCHANGED <<drive, timer, queue, open, flushing, others, age, jammed>>
          /\ Goes("unlock", "drive") \/ UNCHANGED call
      BY <2>2 DEF EventQueued
    <3>2. call["unlock"] = "none"
      BY <2>1, <3>1 DEF UnlockingInv, ResultInv
    <3> QED
      BY <3>1, <3>2 DEF UnlockCalled, dvars
  <2>3. CASE Unlocks
    BY <2>3 DEF Unlocks, Verify, ResultReturns
  <2>4. CASE UNCHANGED uvars
    BY <2>4 DEF uvars
  <2> QED
    BY <2>1, <2>2, <2>3, <2>4 DEF UnlockingNext
<1> QED
  BY UnlockingInvariant, <1>1, <1>2, PTL DEF UnlockingSpec, DriveSpec
=============================================================================
