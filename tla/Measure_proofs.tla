--------------------------- MODULE Measure_proofs ---------------------------
(***************************************************************************)
(* Proofs about Measure, for every size of the ring, every thresholds and  *)
(* any number of sentences and cycles: a reported position is one of this  *)
(* measurement, the thread does not sleep on a whole sentence, and what    *)
(* costs power is off when it is not measured with.                        *)
(***************************************************************************)
EXTENDS Measure, SequenceTheorems, FiniteSetTheorems, WellFoundedInduction, TLAPS

-----------------------------------------------------------------------------
(***************************************************************************)
(* Inductive invariants                                                    *)
(***************************************************************************)

\* Whatever a measurement works with is of sentences it was on for: what is on
\* its way, in the ring and in the position so far.  A position is reported
\* only when the measurement is over.
FixInv ==
  /\ pc \notin InFix => sending = None
  /\ pc \in InFix =>
       /\ first <= sent + 1
       /\ sending # None => sending.n >= first
       /\ \A i \in DOMAIN ring : ring[i].n = 0 \/ ring[i].n >= first
       /\ acc.valid => acc.n >= first /\ acc.n = heard.n /\ heard.kind # "none"
       /\ acc.speed = 0 \/ acc.speed >= first
  /\ loc.src = "g" => pc \notin InFix \cup {"gnss", "lbs"}
  /\ FixHonest

\* The sentence owed is what the thread will read next, and it is told so.
OwedInv ==
  owed # 0 /\ pc \in {"check", "wait", "read"} =>
    /\ Len(ring) >= 2 /\ ring[1].n = owed /\ ring[2].n = owed
    /\ ring[1].part = "head" /\ ring[2].part = "tail"
    /\ pc = "read" \/ line_sem = 1

MeasureInv == TypeOK /\ FixInv /\ OwedInv /\ RailsOff

Position == [valid : BOOLEAN, n : 0 .. MaxSentence, sats : Kind, speed : 0 .. MaxSentence]

USE DEF gnss, fix, battery, receiver

-----------------------------------------------------------------------------
(***************************************************************************)
(* The ring                                                                *)
(***************************************************************************)

\* A set of numbers that is not empty has a smallest one.
LEMMA Least ==
  ASSUME NEW T, T \subseteq Nat, T # {}
  PROVE  \E x \in T : \A y \in T : x <= y
<1> DEFINE R == OpToRel(<, Nat)
<1>1. \A x, y \in Nat : x < y => <<x, y>> \in R
  BY Zenon DEF OpToRel
<1>2. IsWellFoundedOn(R, Nat)
  BY NatLessThanWellFounded, Zenon
<1> HIDE DEF R
<1>3. PICK x \in T : \A y \in T : ~ (<<y, x>> \in R)
  BY <1>2, WFMin
<1>4. \A y \in T : ~ (y < x)
  BY <1>1, <1>3, Zenon
<1> QED
  BY <1>4

\* Putting a piece into the ring leaves what is there, and fills it at most up.
LEMMA PutEffect ==
  ASSUME NEW r \in Seq(Piece), Len(r) <= RX_RING_SIZE, NEW p \in Piece
  PROVE  /\ Put(r, p) \in Seq(Piece) /\ Len(Put(r, p)) <= RX_RING_SIZE
         /\ Len(Put(r, p)) \in {Len(r), Len(r) + 1} /\ Len(r) \in Nat
         /\ Len(r) < RX_RING_SIZE => Len(Put(r, p)) = Len(r) + 1
         /\ \A i \in 1 .. Len(Put(r, p)) :
              IF i <= Len(r) THEN Put(r, p)[i] = r[i] ELSE Put(r, p)[i] = p
<1>1. Len(r) \in Nat /\ RX_RING_SIZE \in Nat
  BY MeasureAssumption
<1>2. CASE Len(r) < RX_RING_SIZE
  <2>1. Put(r, p) = Append(r, p)
    BY <1>2 DEF Put
  <2> QED
    BY <1>1, <1>2, <2>1, AppendProperties
<1>3. CASE ~(Len(r) < RX_RING_SIZE)
  BY <1>1, <1>3 DEF Put
<1> QED
  BY <1>2, <1>3

\* What take_line takes: all up to the first end of a line; the rest moves up.
LEMMA LineEffect ==
  ASSUME ring \in Seq(Piece), Ends # {}
  PROVE  \E k \in 1 .. Len(ring) :
           /\ ring[k].part = "tail"
           /\ \A j \in 1 .. Len(ring) : ring[j].part = "tail" => k <= j
           /\ Len(Line) = k
           /\ \A i \in 1 .. k : Line[i] = ring[i]
           /\ SubSeq(ring, Len(Line) + 1, Len(ring)) \in Seq(Piece)
           /\ Len(SubSeq(ring, Len(Line) + 1, Len(ring))) = Len(ring) - k
           /\ \A i \in 1 .. Len(ring) - k :
                SubSeq(ring, Len(Line) + 1, Len(ring))[i] = ring[i + k]
<1>1. Len(ring) \in Nat /\ DOMAIN ring = 1 .. Len(ring) /\ Ends \subseteq Nat
  BY DEF Ends
<1>2. \E i \in Ends : \A j \in Ends : i <= j
  BY <1>1, Least
<1> DEFINE k == CHOOSE i \in Ends : \A j \in Ends : i <= j
<1>3. k \in Ends /\ \A j \in Ends : k <= j
  BY <1>2
<1>4. Line = SubSeq(ring, 1, k)
  BY DEF Line
<1> HIDE DEF k
<1>5. k \in 1 .. Len(ring) /\ ring[k].part = "tail"
      /\ \A j \in 1 .. Len(ring) : ring[j].part = "tail" => k <= j
  BY <1>1, <1>3 DEF Ends
<1>6. Len(Line) = k /\ \A i \in 1 .. k : Line[i] = ring[i]
  <2>1. \A i \in 1 .. k : ring[i] \in Piece
    BY <1>1, <1>5, ElementOfSeq
  <2>2. /\ Len(SubSeq(ring, 1, k)) = IF 1 <= k THEN k - 1 + 1 ELSE 0
        /\ \A i \in 1 .. k - 1 + 1 : SubSeq(ring, 1, k)[i] = ring[1 + i - 1]
    BY <1>5, <2>1, SubSeqProperties
  <2> QED
    BY <1>4, <1>5, <2>2
<1>7. /\ SubSeq(ring, k + 1, Len(ring)) \in Seq(Piece)
      /\ Len(SubSeq(ring, k + 1, Len(ring))) = Len(ring) - k
      /\ \A i \in 1 .. Len(ring) - k : SubSeq(ring, k + 1, Len(ring))[i] = ring[i + k]
  <2> DEFINE m == k + 1
             n == Len(ring)
  <2>1. m \in Int /\ n \in Int /\ \A i \in m .. n : ring[i] \in Piece
    BY <1>1, <1>5, ElementOfSeq
  <2> HIDE DEF m, n
  <2>2. /\ SubSeq(ring, m, n) \in Seq(Piece)
        /\ Len(SubSeq(ring, m, n)) = IF m <= n THEN n - m + 1 ELSE 0
        /\ \A i \in 1 .. n - m + 1 : SubSeq(ring, m, n)[i] = ring[m + i - 1]
    BY <2>1, SubSeqProperties
  <2> QED
    <3>1. Len(SubSeq(ring, k + 1, Len(ring))) = Len(ring) - k
      <4>1. m = k + 1 /\ n = Len(ring)
        BY DEF m, n
      <4>2. Len(SubSeq(ring, m, n)) = n - k
        <5> DEFINE rest == Len(SubSeq(ring, m, n))
        <5>1. rest = IF m <= n THEN n - m + 1 ELSE 0
          BY <2>2
        <5>2. n \in Nat /\ k \in 1 .. n
          BY <1>1, <1>5, <4>1
        <5> HIDE DEF rest
        <5>3. rest = n - k
          BY <4>1, <5>1, <5>2
        <5> QED
          BY <5>3 DEF rest
      <4> QED
        BY <4>1, <4>2
    <3>2. ASSUME NEW i \in 1 .. Len(ring) - k
          PROVE  SubSeq(ring, k + 1, Len(ring))[i] = ring[i + k]
      <4>1. i \in 1 .. n - m + 1 /\ m + i - 1 = i + k
        BY <1>1, <1>5 DEF m, n
      <4>2. SubSeq(ring, m, n)[i] = ring[m + i - 1]
        BY <2>2, <4>1
      <4> QED
        BY <4>1, <4>2 DEF m, n
    <3> QED
      BY <2>2, <3>1, <3>2 DEF m, n
<1> QED
  BY <1>5, <1>6, <1>7

-----------------------------------------------------------------------------
(***************************************************************************)
(* Types                                                                   *)
(***************************************************************************)

\* The level of the battery is one of four.
LEMMA LevelType == \A v \in Nat : LowLevel(v) \in 0 .. 3
<1> SUFFICES ASSUME NEW v \in Nat PROVE LowLevel(v) \in 0 .. 3
  OBVIOUS
<1> DEFINE below == {i \in 1 .. 3 : v < LOW_VOLT[i]}
<1>1. IsFiniteSet(1 .. 3) /\ Cardinality(1 .. 3) = 3
  <2> DEFINE a == 1
             b == 3
  <2>1. a \in Int /\ b \in Int
    OBVIOUS
  <2> HIDE DEF a, b
  <2>2. IsFiniteSet(a .. b) /\ Cardinality(a .. b) = IF a > b THEN 0 ELSE b - a + 1
    BY <2>1, FS_Interval
  <2> QED
    BY <2>2 DEF a, b
<1>2. Cardinality(below) \in Nat /\ Cardinality(below) <= 3
  BY <1>1, FS_Subset, FS_CardinalityType
<1> QED
  BY <1>2 DEF LowLevel

\* The switches, and whether the deadline has passed.
LEMMA StepSwitches ==
  ASSUME TypeOK, [Next]_vars
  PROVE  power' \in BOOLEAN /\ gate' \in BOOLEAN /\ late' \in BOOLEAN
<1> USE DEF TypeOK
<1>1. CASE Receiver \/ BeginCycle \/ DeadlinePasses
  BY <1>1 DEF Receiver, SendHead, SendTail, BeginCycle, DeadlinePasses
<1>2. CASE PowerOn \/ PowerOnFails \/ CheckDeadline \/ TakeSem \/ SemTimeout
  BY <1>2 DEF PowerOn, PowerOnFails, CheckDeadline, TakeSem, SemTimeout
<1>3. CASE ReadLine \/ ReadNothing \/ \E ok \in BOOLEAN : Lbs(ok)
  BY <1>3 DEF ReadLine, ReadNothing, Lbs
<1>4. CASE EndFix \/ \E ok \in BOOLEAN : SystemOff(ok)
  <2>1. PICK ok \in BOOLEAN : power' = (power /\ ~ok)
    BY <1>4 DEF EndFix, SystemOff, PowerOff
  <2>2. power' \in BOOLEAN
    BY <2>1, Zenon
  <2> QED
    BY <1>4, <2>2 DEF EndFix, SystemOff
<1>5. CASE GateOn \/ GateOnFails \/ AdcRead \/ Telemetry
  BY <1>5 DEF GateOn, GateOnFails, AdcRead, Telemetry
<1>6. CASE \E ok \in BOOLEAN : GateOff(ok)
  <2>1. PICK ok \in BOOLEAN : gate' = ~ok
    BY <1>6 DEF GateOff
  <2>2. gate' \in BOOLEAN
    BY <2>1, Zenon
  <2> QED
    BY <1>6, <2>2 DEF GateOff
<1>7. CASE UNCHANGED vars
  BY <1>7 DEF vars
<1> QED
  BY <1>1, <1>2, <1>3, <1>4, <1>5, <1>6, <1>7 DEF Next, Uplink

\* A parsed sentence gives a position of its number, or takes one back.
LEMMA ParseType ==
  ASSUME NEW f \in Position, NEW n \in 0 .. MaxSentence, NEW kind \in Kind
  PROVE  LET s == [n |-> n, kind |-> kind]
         IN  /\ ParseRmc(s, f) \in Position
             /\ ParseRmc(s, f).speed = n
             /\ ParseRmc(s, f).valid = f.valid /\ ParseRmc(s, f).n = f.n
             /\ ParseGga(s, f) \in Position
             /\ ParseGga(s, f).speed = f.speed
             /\ ParseGga(s, f).valid => ParseGga(s, f).n = n /\ kind # "none"
BY DEF Position, ParseRmc, ParseGga

\* A piece that arrives is of the sentence that is sent, or damaged.
LEMMA ArrivalType ==
  ASSUME NEW n \in 0 .. MaxSentence, NEW kind \in Kind, NEW part \in {"head", "tail"},
         NEW p \in Arrivals([n |-> n, kind |-> kind], part)
  PROVE  p \in Piece /\ p.n \in {0, n} /\ p.part = part
BY MeasureAssumption DEF Arrivals, Piece

\* A sentence has a number and a kind.
LEMMA SentenceIs ==
  ASSUME NEW s \in Sentence
  PROVE  /\ s = [n |-> s.n, kind |-> s.kind]
         /\ s.n \in 0 .. MaxSentence /\ s.kind \in Kind
         /\ s # None => s.n # 0
BY MeasureAssumption DEF Sentence, None, Kind

\* Half a sentence that goes out: its number is the next one.
LEMMA HeadEffect ==
  ASSUME TypeOK, SendHead
  PROVE  /\ sent' = sent + 1 /\ sent' \in 1 .. MaxSentence
         /\ sending' \in Sentence /\ sending'.n = sent'
         /\ \E p \in Piece : /\ p.n \in {0, sent'} /\ p.part = "head"
                             /\ ring' = Put(ring, p)
<1>1. sent \in 0 .. MaxSentence /\ sent < MaxSentence /\ sent' = sent + 1
  BY DEF TypeOK, SendHead
<1>2. sent' \in 1 .. MaxSentence
  BY <1>1, MeasureAssumption
<1>3. PICK k \in Kind : sending' = [n |-> sent', kind |-> k]
  BY DEF SendHead
<1>4. PICK p \in Arrivals(sending', "head") : ring' = Put(ring, p)
  BY DEF SendHead
<1>5. sent' \in 0 .. MaxSentence /\ p \in Arrivals([n |-> sent', kind |-> k], "head")
  BY <1>2, <1>3, <1>4
<1>6. p \in Piece /\ p.n \in {0, sent'} /\ p.part = "head"
  BY <1>5, ArrivalType
<1>7. sending' \in Sentence /\ sending'.n = sent'
  BY <1>2, <1>3 DEF Sentence
<1> QED
  BY <1>1, <1>2, <1>4, <1>6, <1>7

\* The other half: the line is told of, and owed if it came alone.
LEMMA TailEffect ==
  ASSUME TypeOK, SendTail
  PROVE  /\ sending # None /\ sending' = None /\ line_sem' = 1
         /\ sending.n \in 1 .. MaxSentence
         /\ \E p \in Piece :
              /\ p.n \in {0, sending.n} /\ p.part = "tail"
              /\ ring' = Put(ring, p)
              /\ \/ owed' = owed
                 \/ /\ owed' = p.n /\ Len(ring) = 1 /\ ring[1].n = p.n
                    /\ ring[1].part = "head"
<1>1. sending \in Sentence /\ sending # None
  BY DEF TypeOK, SendTail
<1>2. sending = [n |-> sending.n, kind |-> sending.kind]
      /\ sending.n \in 0 .. MaxSentence /\ sending.kind \in Kind /\ sending.n # 0
  BY <1>1, SentenceIs
<1>3. PICK p \in Arrivals(sending, "tail") :
        /\ ring' = Put(ring, p)
        /\ \/ owed' = owed
           \/ owed' = p.n /\ ring = <<[p EXCEPT !.part = "head"]>>
  BY DEF SendTail
<1>4. p \in Arrivals([n |-> sending.n, kind |-> sending.kind], "tail")
  BY <1>2, <1>3
<1>5. p \in Piece /\ p.n \in {0, sending.n} /\ p.part = "tail"
  BY <1>2, <1>4, ArrivalType
<1>6. [p EXCEPT !.part = "head"].n = p.n /\ [p EXCEPT !.part = "head"].part = "head"
  BY <1>5 DEF Piece
<1>7. ASSUME ring = <<[p EXCEPT !.part = "head"]>>
      PROVE  Len(ring) = 1 /\ ring[1].n = p.n /\ ring[1].part = "head"
  BY <1>6, <1>7
<1>8. sending' = None /\ line_sem' = 1
  BY DEF SendTail
<1>9. sending.n \in 1 .. MaxSentence
  BY <1>2, MeasureAssumption
<1> QED
  BY <1>1, <1>3, <1>5, <1>7, <1>8, <1>9

\* What the receiver's half-sentences keep.
LEMMA StepReceiver ==
  ASSUME TypeOK, Receiver
  PROVE  /\ ring' \in Seq(Piece) /\ Len(ring') <= RX_RING_SIZE
         /\ line_sem' \in {0, 1}
         /\ sending' \in Sentence /\ sent' \in 0 .. MaxSentence /\ owed' \in 0 .. MaxSentence
         /\ UNCHANGED <<pc, power, fix, battery, cycles, loc, stuck>>
<1>1. ring \in Seq(Piece) /\ Len(ring) <= RX_RING_SIZE /\ line_sem \in {0, 1}
      /\ sent \in 0 .. MaxSentence /\ owed \in 0 .. MaxSentence
  BY DEF TypeOK
<1>2. CASE SendHead
  <2>1. PICK p \in Piece : ring' = Put(ring, p)
    BY <1>2, HeadEffect
  <2>2. ring' \in Seq(Piece) /\ Len(ring') <= RX_RING_SIZE
    BY <1>1, <2>1, PutEffect
  <2>3. sending' \in Sentence /\ sent' \in 0 .. MaxSentence
    BY <1>2, HeadEffect, MeasureAssumption
  <2> QED
    BY <1>1, <1>2, <2>2, <2>3 DEF SendHead
<1>3. CASE SendTail
  <2>1. PICK p \in Piece : ring' = Put(ring, p) /\ owed' \in {p.n, owed}
    BY <1>3, TailEffect
  <2>2. ring' \in Seq(Piece) /\ Len(ring') <= RX_RING_SIZE
    BY <1>1, <2>1, PutEffect
  <2>3. owed' \in 0 .. MaxSentence
    BY <1>1, <2>1 DEF Piece
  <2> QED
    BY <1>1, <1>3, <2>2, <2>3 DEF SendTail, Sentence
<1> QED
  BY <1>2, <1>3 DEF Receiver

\* What a line does, in terms of the number k of pieces it takes.
LEMMA ReadEffect ==
  ASSUME TypeOK, ReadLine
  PROVE  \E k \in 1 .. Len(ring) :
           /\ ring[k].part = "tail"
           /\ \A j \in 1 .. Len(ring) : ring[j].part = "tail" => k <= j
           /\ ring' \in Seq(Piece) /\ Len(ring') = Len(ring) - k
           /\ \A i \in 1 .. Len(ring) - k : ring'[i] = ring[i + k]
           /\ \/ /\ k = 2 /\ ring[1].n = ring[2].n /\ ring[1].n # 0
                 /\ \/ /\ acc' = ParseRmc([n |-> ring[1].n, kind |-> ring[1].kind], acc)
                       /\ heard' = heard
                    \/ /\ acc' = ParseGga([n |-> ring[1].n, kind |-> ring[1].kind], acc)
                       /\ heard' = [n |-> ring[1].n, kind |-> ring[1].kind]
                 /\ owed' = IF owed = ring[1].n THEN 0 ELSE owed
                 /\ pc' \in {"off", "read"}
              \/ /\ ~(k = 2 /\ ring[1].n = ring[2].n /\ ring[1].n # 0)
                 /\ pc' \in {"read", "check"}
                 /\ UNCHANGED <<acc, heard, owed>>
<1>1. ring \in Seq(Piece) /\ Ends # {}
  BY DEF TypeOK, ReadLine
<1>2. PICK k \in 1 .. Len(ring) :
        /\ ring[k].part = "tail"
        /\ \A j \in 1 .. Len(ring) : ring[j].part = "tail" => k <= j
        /\ Len(Line) = k
        /\ \A i \in 1 .. k : Line[i] = ring[i]
        /\ SubSeq(ring, Len(Line) + 1, Len(ring)) \in Seq(Piece)
        /\ Len(SubSeq(ring, Len(Line) + 1, Len(ring))) = Len(ring) - k
        /\ \A i \in 1 .. Len(ring) - k :
             SubSeq(ring, Len(Line) + 1, Len(ring))[i] = ring[i + k]
  BY <1>1, LineEffect
<1>3. ring' = SubSeq(ring, Len(Line) + 1, Len(ring))
  BY DEF ReadLine
<1>4. Line[1] = ring[1] /\ (k = 2 => Line[2] = ring[2])
  BY <1>1, <1>2
<1>5. ChecksumOk(Line) <=> k = 2 /\ ring[1].n = ring[2].n /\ ring[1].n # 0
  BY <1>2, <1>4 DEF ChecksumOk
<1>6. CASE ChecksumOk(Line)
  <2>1. /\ \/ /\ acc' = ParseRmc([n |-> ring[1].n, kind |-> ring[1].kind], acc)
              /\ heard' = heard
           \/ /\ acc' = ParseGga([n |-> ring[1].n, kind |-> ring[1].kind], acc)
              /\ heard' = [n |-> ring[1].n, kind |-> ring[1].kind]
        /\ owed' = IF owed = ring[1].n THEN 0 ELSE owed
        /\ pc' \in {"off", "read"}
    BY <1>4, <1>6 DEF ReadLine
  <2> QED
    BY <1>2, <1>3, <1>5, <1>6, <2>1
<1>7. CASE ~ChecksumOk(Line)
  <2>1. pc' \in {"read", "check"} /\ UNCHANGED <<acc, heard, owed>>
    BY <1>7 DEF ReadLine
  <2> QED
    BY <1>2, <1>3, <1>5, <1>7, <2>1
<1> QED
  BY <1>6, <1>7

\* What a line changes keeps its type.
LEMMA ReadType ==
  ASSUME TypeOK, ReadLine
  PROVE  /\ ring' \in Seq(Piece) /\ Len(ring') <= RX_RING_SIZE
         /\ acc' \in Position /\ heard' \in Sentence /\ owed' \in 0 .. MaxSentence
         /\ pc' \in {"off", "read", "check"}
<1>1. PICK k \in 1 .. Len(ring) :
        /\ ring' \in Seq(Piece) /\ Len(ring') = Len(ring) - k
        /\ \/ /\ k = 2 /\ ring[1].n # 0
              /\ \/ /\ acc' = ParseRmc([n |-> ring[1].n, kind |-> ring[1].kind], acc)
                    /\ heard' = heard
                 \/ /\ acc' = ParseGga([n |-> ring[1].n, kind |-> ring[1].kind], acc)
                    /\ heard' = [n |-> ring[1].n, kind |-> ring[1].kind]
              /\ owed' = IF owed = ring[1].n THEN 0 ELSE owed
              /\ pc' \in {"off", "read"}
           \/ pc' \in {"read", "check"} /\ UNCHANGED <<acc, heard, owed>>
  BY ReadEffect
<1>2. /\ Len(ring) \in Nat /\ RX_RING_SIZE \in Nat /\ Len(ring) <= RX_RING_SIZE
      /\ ring \in Seq(Piece) /\ heard \in Sentence /\ owed \in 0 .. MaxSentence
  <2>1. Len(ring) <= RX_RING_SIZE /\ ring \in Seq(Piece)
        /\ heard \in Sentence /\ owed \in 0 .. MaxSentence
    BY DEF TypeOK
  <2> QED
    BY <2>1, MeasureAssumption
<1>0. acc \in Position
  BY DEF TypeOK, Position
<1>3. 1 \in 1 .. Len(ring)
  BY <1>1, <1>2
<1>4. ring[1] \in Piece
  BY <1>2, <1>3, ElementOfSeq
<1>5. ring[1].n \in 0 .. MaxSentence /\ ring[1].kind \in Kind
  BY <1>4 DEF Piece
<1>6. acc' \in Position
  BY <1>0, <1>1, <1>5, ParseType
<1>7. heard' \in Sentence /\ owed' \in 0 .. MaxSentence
  <2>1. CASE ring[1].n # 0
    <3>1. ring[1].n \in 1 .. MaxSentence
      BY <1>5, <2>1
    <3>2. [n |-> ring[1].n, kind |-> ring[1].kind] \in Sentence
      BY <1>5, <3>1 DEF Sentence
    <3>3. heard' \in Sentence
      BY <1>1, <1>2, <3>2
    <3>4. owed' \in 0 .. MaxSentence
      BY <1>1, <1>2, MeasureAssumption
    <3> QED
      BY <3>3, <3>4
  <2>2. CASE ring[1].n = 0
    BY <1>1, <1>2, <2>2
  <2> QED
    BY <2>1, <2>2
<1>8. Len(ring') <= RX_RING_SIZE
  BY <1>1, <1>2
<1> QED
  BY <1>1, <1>6, <1>7, <1>8

\* Every step keeps the types.
LEMMA StepTypeOK == TypeOK /\ [Next]_vars => TypeOK'
<1> SUFFICES ASSUME TypeOK, [Next]_vars PROVE TypeOK'
  OBVIOUS
<1>0. power' \in BOOLEAN /\ gate' \in BOOLEAN /\ late' \in BOOLEAN
  BY StepSwitches
<1>1. MaxSentence \in Nat /\ MaxCycle \in Nat /\ RX_RING_SIZE \in Nat /\ 0 \in Volts
      /\ Volts \subseteq Nat
  BY MeasureAssumption
<1>2. NoFix \in Position /\ None \in Sentence /\ acc \in Position
  <2>1. NoFix \in Position
    BY <1>1 DEF Position, NoFix, Kind
  <2>2. acc \in Position
    BY DEF TypeOK, Position
  <2> QED
    BY <2>1, <2>2 DEF Sentence
<1>3. <<>> \in Seq(Piece) /\ Len(<<>>) = 0
  OBVIOUS
<1> DEFINE Loc == [src : {"none", "g", "l"}, n : 0 .. MaxSentence, speed : 0 .. MaxSentence]
<1>4. NoLoc \in Loc /\ [NoLoc EXCEPT !.src = "l"] \in Loc
      /\ (acc.valid => [src |-> "g", n |-> acc.n, speed |-> acc.speed] \in Loc)
  BY <1>1, <1>2 DEF NoLoc, Position
<1>5. CASE Receiver
  BY <1>0, <1>5, StepReceiver DEF TypeOK
<1>6. CASE DeadlinePasses \/ CheckDeadline \/ TakeSem \/ SemTimeout \/ PowerOnFails
  BY <1>0, <1>6 DEF TypeOK, DeadlinePasses, CheckDeadline, TakeSem, SemTimeout,
                    PowerOnFails, InFix
<1>7. CASE BeginCycle
  <2>1. cycles \in 0 .. MaxCycle /\ cycles < MaxCycle /\ cycles' = cycles + 1
    BY <1>7 DEF TypeOK, BeginCycle
  <2>2. cycles' \in 0 .. MaxCycle
    BY <1>1, <2>1
  <2>3. loc' \in Loc
    BY <1>4, <1>7 DEF BeginCycle
  <2> QED
    BY <1>0, <1>7, <2>2, <2>3 DEF TypeOK, BeginCycle
<1>8. CASE PowerOn
  <2>1. first' \in 1 .. MaxSentence + 1 /\ owed' \in 0 .. MaxSentence
    BY <1>1, <1>8 DEF TypeOK, PowerOn
  <2>2. ring' \in Seq(Piece) /\ Len(ring') <= RX_RING_SIZE
    BY <1>1, <1>3, <1>8 DEF PowerOn
  <2>3. acc' \in Position /\ heard' \in Sentence
    BY <1>2, <1>8 DEF PowerOn
  <2> QED
    BY <1>0, <1>8, <2>1, <2>2, <2>3 DEF TypeOK, PowerOn, InFix, Position
<1>9. CASE ReadLine
  BY <1>0, <1>9, ReadType DEF TypeOK, ReadLine, Position, InFix
<1>10. CASE ReadNothing
  <2>1. ring' \in Seq(Piece) /\ Len(ring') <= RX_RING_SIZE
    BY <1>1, <1>3, <1>10 DEF ReadNothing
  <2> QED
    BY <1>0, <1>10, <2>1 DEF TypeOK, ReadNothing, InFix
<1>11. CASE EndFix
  <2>1. loc' \in Loc /\ pc' \in {"battery", "lbs"}
    BY <1>4, <1>11 DEF TypeOK, EndFix
  <2>2. acc' \in Position /\ sending' \in Sentence
    BY <1>2, <1>11 DEF EndFix, PowerOff
  <2>3. stuck' \subseteq {"receiver", "divider"}
    BY <1>11 DEF TypeOK, EndFix, PowerOff
  <2> QED
    BY <1>0, <1>11, <2>1, <2>2, <2>3 DEF TypeOK, EndFix, PowerOff, Position
<1>12. CASE \E ok \in BOOLEAN : Lbs(ok)
  <2>1. loc' \in Loc
    BY <1>4, <1>12 DEF TypeOK, Lbs
  <2> QED
    BY <1>0, <1>12, <2>1 DEF TypeOK, Lbs
<1>13. CASE GateOn \/ GateOnFails \/ AdcRead
  BY <1>0, <1>1, <1>13 DEF TypeOK, GateOn, GateOnFails, AdcRead
<1>14. CASE \E ok \in BOOLEAN : GateOff(ok)
  <2>1. stuck' \subseteq {"receiver", "divider"}
    BY <1>14 DEF TypeOK, GateOff
  <2> QED
    BY <1>0, <1>14, <2>1 DEF TypeOK, GateOff
<1>15. CASE Telemetry
  <2>1. batt_level' \in 0 .. 3
    BY <1>1, <1>15, LevelType DEF TypeOK, Telemetry
  <2> QED
    BY <1>0, <1>1, <1>15, <2>1 DEF TypeOK, Telemetry
<1>16. CASE \E ok \in BOOLEAN : SystemOff(ok)
  <2>1. stuck' \subseteq {"receiver", "divider"} /\ sending' \in Sentence
    BY <1>2, <1>16 DEF TypeOK, SystemOff, PowerOff
  <2> QED
    BY <1>0, <1>16, <2>1 DEF TypeOK, SystemOff, PowerOff
<1>17. CASE UNCHANGED vars
  BY <1>17 DEF TypeOK, vars
<1> QED
  BY <1>5, <1>6, <1>7, <1>8, <1>9, <1>10, <1>11, <1>12, <1>13, <1>14, <1>15, <1>16, <1>17
     DEF Next, Uplink

-----------------------------------------------------------------------------
(***************************************************************************)
(* The position, the sentence owed, and what is switched on                *)
(***************************************************************************)

\* Every step keeps what a measurement works with to its own sentences.
LEMMA StepFixInv == TypeOK /\ FixInv /\ [Next]_vars => FixInv'
<1> SUFFICES ASSUME TypeOK, FixInv, [Next]_vars PROVE FixInv'
  OBVIOUS
<1>1. /\ sent \in Nat /\ first \in Nat /\ Len(ring) \in Nat /\ ring \in Seq(Piece)
      /\ DOMAIN ring = 1 .. Len(ring)
  <2>1. sent \in 0 .. MaxSentence /\ first \in 1 .. MaxSentence + 1 /\ ring \in Seq(Piece)
    BY DEF TypeOK
  <2> QED
    BY <2>1, MeasureAssumption
<1>0. ASSUME NEW p \in Piece, p.n = 0 \/ p.n >= first, pc \in InFix, ring' = Put(ring, p)
      PROVE  \A i \in DOMAIN ring' : ring'[i].n = 0 \/ ring'[i].n >= first
  <2>1. Len(ring) <= RX_RING_SIZE
    BY DEF TypeOK
  <2>2. /\ ring' \in Seq(Piece)
        /\ \A i \in 1 .. Len(ring') : IF i <= Len(ring) THEN ring'[i] = ring[i]
                                                        ELSE ring'[i] = p
    BY <1>0, <1>1, <2>1, PutEffect
  <2>3. DOMAIN ring' = 1 .. Len(ring') /\ Len(ring') \in Nat
    BY <2>2
  <2>4. \A i \in DOMAIN ring : ring[i].n = 0 \/ ring[i].n >= first
    BY <1>0 DEF FixInv
  <2> QED
    BY <1>0, <1>1, <2>2, <2>3, <2>4
<1>2. CASE SendHead
  <2>1. /\ pc \in InFix /\ sent' = sent + 1 /\ sending'.n = sent'
        /\ UNCHANGED <<pc, first, acc, heard, loc>>
    BY <1>2, HeadEffect DEF SendHead
  <2>2. PICK p \in Piece : p.n \in {0, sent'} /\ ring' = Put(ring, p)
    BY <1>2, HeadEffect
  <2>3. p.n = 0 \/ p.n >= first
    BY <1>1, <2>1, <2>2 DEF FixInv
  <2>4. \A i \in DOMAIN ring' : ring'[i].n = 0 \/ ring'[i].n >= first
    BY <1>0, <2>1, <2>2, <2>3
  <2> QED
    BY <1>1, <2>1, <2>4 DEF FixInv, FixHonest
<1>3. CASE SendTail
  <2>1. /\ pc \in InFix /\ sending # None /\ sending' = None
        /\ UNCHANGED <<pc, first, acc, heard, loc, sent>>
    BY <1>3, TailEffect DEF SendTail
  <2>2. PICK p \in Piece : p.n \in {0, sending.n} /\ ring' = Put(ring, p)
    BY <1>3, TailEffect
  <2>3. p.n = 0 \/ p.n >= first
    BY <1>1, <2>1, <2>2 DEF FixInv
  <2>4. \A i \in DOMAIN ring' : ring'[i].n = 0 \/ ring'[i].n >= first
    BY <1>0, <2>1, <2>2, <2>3
  <2> QED
    BY <1>1, <2>1, <2>4 DEF FixInv, FixHonest
<1>4. CASE DeadlinePasses \/ CheckDeadline \/ TakeSem \/ SemTimeout
  BY <1>4 DEF FixInv, FixHonest, InFix, DeadlinePasses, CheckDeadline, TakeSem, SemTimeout
<1>5. CASE BeginCycle \/ PowerOnFails
  BY <1>5 DEF FixInv, FixHonest, InFix, BeginCycle, PowerOnFails, NoLoc
<1>6. CASE PowerOn
  BY <1>1, <1>6 DEF FixInv, FixHonest, InFix, PowerOn, NoFix, None
<1>7. CASE ReadLine
  <2>1. PICK k \in 1 .. Len(ring) :
          /\ ring' \in Seq(Piece) /\ Len(ring') = Len(ring) - k
          /\ \A i \in 1 .. Len(ring) - k : ring'[i] = ring[i + k]
          /\ \/ /\ ring[1].n # 0
                /\ \/ /\ acc' = ParseRmc([n |-> ring[1].n, kind |-> ring[1].kind], acc)
                      /\ heard' = heard
                   \/ /\ acc' = ParseGga([n |-> ring[1].n, kind |-> ring[1].kind], acc)
                      /\ heard' = [n |-> ring[1].n, kind |-> ring[1].kind]
             \/ UNCHANGED <<acc, heard>>
    BY <1>7, ReadEffect
  <2>2. /\ pc \in InFix /\ pc' \in InFix
        /\ UNCHANGED <<sending, sent, first, loc>>
    BY <1>7, ReadType DEF ReadLine, InFix
  <2>3. \A i \in DOMAIN ring' : ring'[i].n = 0 \/ ring'[i].n >= first
    <3>1. DOMAIN ring' = 1 .. Len(ring) - k
      BY <2>1
    <3>2. \A i \in 1 .. Len(ring) - k : i + k \in DOMAIN ring /\ ring'[i] = ring[i + k]
      BY <1>1, <2>1
    <3>3. \A j \in DOMAIN ring : ring[j].n = 0 \/ ring[j].n >= first
      BY <2>2 DEF FixInv
    <3> QED
      BY <3>1, <3>2, <3>3
  <2>4. 1 \in DOMAIN ring
    BY <1>1
  <2>5. ring[1] \in Piece
    BY <1>1, <2>4, ElementOfSeq
  <2>6. ring[1].n \in 0 .. MaxSentence /\ ring[1].kind \in Kind
        /\ (ring[1].n = 0 \/ ring[1].n >= first)
    BY <2>2, <2>4, <2>5 DEF Piece, FixInv
  <2>7. acc \in Position
    BY DEF TypeOK, Position
  <2>8. /\ acc.valid => acc.n >= first /\ acc.n = heard.n /\ heard.kind # "none"
        /\ acc.speed = 0 \/ acc.speed >= first
    BY <2>2 DEF FixInv
  <2>9. /\ acc'.valid => acc'.n >= first /\ acc'.n = heard'.n /\ heard'.kind # "none"
        /\ acc'.speed = 0 \/ acc'.speed >= first
    <3>1. CASE /\ acc' = ParseRmc([n |-> ring[1].n, kind |-> ring[1].kind], acc)
               /\ heard' = heard /\ ring[1].n # 0
      BY <2>6, <2>7, <2>8, <3>1, ParseType
    <3>2. CASE /\ acc' = ParseGga([n |-> ring[1].n, kind |-> ring[1].kind], acc)
               /\ heard' = [n |-> ring[1].n, kind |-> ring[1].kind] /\ ring[1].n # 0
      BY <2>6, <2>7, <2>8, <3>2, ParseType
    <3>3. CASE UNCHANGED <<acc, heard>>
      BY <2>8, <3>3
    <3> QED
      BY <2>1, <3>1, <3>2, <3>3
  <2>10. first <= sent + 1 /\ (sending # None => sending.n >= first) /\ loc.src # "g"
    BY <2>2 DEF FixInv
  <2> QED
    BY <2>2, <2>3, <2>9, <2>10 DEF FixInv, FixHonest
<1>8. CASE ReadNothing
  BY <1>8 DEF FixInv, FixHonest, InFix, ReadNothing
<1>9. CASE EndFix
  <2>1. /\ pc \in InFix /\ pc' \notin InFix /\ sending' = None
        /\ UNCHANGED <<first, heard>>
    BY <1>9 DEF EndFix, PowerOff, InFix
  <2>2. CASE acc.valid
    BY <1>9, <2>1, <2>2 DEF FixInv, FixHonest, EndFix, InFix
  <2>3. CASE ~acc.valid
    BY <1>9, <2>1, <2>3 DEF FixInv, FixHonest, EndFix
  <2> QED
    BY <2>2, <2>3
<1>10. CASE \E ok \in BOOLEAN : Lbs(ok)
  <2>1. /\ pc = "lbs" /\ pc' = "battery" /\ loc'.src # "g"
        /\ UNCHANGED sending
    BY <1>10 DEF FixInv, Lbs, NoLoc
  <2> QED
    BY <2>1 DEF FixInv, FixHonest, InFix
<1>11. CASE GateOn \/ GateOnFails \/ AdcRead \/ Telemetry
  BY <1>11 DEF FixInv, FixHonest, InFix, GateOn, GateOnFails, AdcRead, Telemetry
<1>12. CASE \E ok \in BOOLEAN : GateOff(ok)
  BY <1>12 DEF FixInv, FixHonest, InFix, GateOff
<1>13. CASE \E ok \in BOOLEAN : SystemOff(ok)
  BY <1>13 DEF FixInv, FixHonest, InFix, SystemOff, PowerOff
<1>14. CASE UNCHANGED vars
  BY <1>14 DEF FixInv, FixHonest, InFix, vars
<1> QED
  BY <1>2, <1>3, <1>4, <1>5, <1>6, <1>7, <1>8, <1>9, <1>10, <1>11, <1>12, <1>13, <1>14
     DEF Next, Uplink, Receiver

\* Every step keeps the sentence owed at the head of the ring, or it is read.
LEMMA StepOwedInv == TypeOK /\ OwedInv /\ [Next]_vars => OwedInv'
<1> SUFFICES ASSUME TypeOK, OwedInv, [Next]_vars PROVE OwedInv'
  OBVIOUS
<1>1. /\ Len(ring) \in Nat /\ ring \in Seq(Piece) /\ Len(ring) <= RX_RING_SIZE
      /\ RX_RING_SIZE \in Nat /\ RX_RING_SIZE >= 2 /\ DOMAIN ring = 1 .. Len(ring)
  <2>1. ring \in Seq(Piece) /\ Len(ring) <= RX_RING_SIZE
    BY DEF TypeOK
  <2> QED
    BY <2>1, MeasureAssumption
<1> DEFINE AtHead(r, o) == /\ Len(r) >= 2 /\ r[1].n = o /\ r[2].n = o
                           /\ r[1].part = "head" /\ r[2].part = "tail"
<1>2. ASSUME NEW p \in Piece, AtHead(ring, owed), ring' = Put(ring, p)
      PROVE  AtHead(ring', owed)
  <2>1. /\ Len(ring') \in {Len(ring), Len(ring) + 1}
        /\ \A i \in 1 .. Len(ring') : i <= Len(ring) => ring'[i] = ring[i]
    BY <1>1, <1>2, PutEffect
  <2>2. Len(ring') >= 2 /\ ring'[1] = ring[1] /\ ring'[2] = ring[2]
    BY <1>1, <1>2, <2>1
  <2> QED
    BY <1>2, <2>2
<1>3. CASE SendHead
  <2>1. PICK p \in Piece : ring' = Put(ring, p)
    BY <1>3, HeadEffect
  <2>2. UNCHANGED <<pc, line_sem, owed>>
    BY <1>3 DEF SendHead
  <2> QED
    BY <1>2, <2>1, <2>2 DEF OwedInv
<1>4. CASE SendTail
  <2>1. PICK p \in Piece :
          /\ p.part = "tail" /\ ring' = Put(ring, p)
          /\ \/ owed' = owed
             \/ owed' = p.n /\ Len(ring) = 1 /\ ring[1].n = p.n /\ ring[1].part = "head"
    BY <1>4, TailEffect
  <2>2. pc' = pc /\ line_sem' = 1
    BY <1>4 DEF SendTail
  <2>3. CASE owed' = owed
    BY <1>2, <2>1, <2>2, <2>3 DEF OwedInv
  <2>4. CASE owed' = p.n /\ Len(ring) = 1 /\ ring[1].n = p.n /\ ring[1].part = "head"
    <3>0. Len(ring) < RX_RING_SIZE
      BY <1>1, <2>4
    <3>1. /\ Len(ring') = Len(ring) + 1
          /\ \A i \in 1 .. Len(ring') : IF i <= Len(ring) THEN ring'[i] = ring[i]
                                                          ELSE ring'[i] = p
      BY <1>1, <2>1, <3>0, PutEffect
    <3>2. Len(ring') = 2 /\ ring'[1] = ring[1] /\ ring'[2] = p
      BY <2>4, <3>1
    <3> QED
      BY <2>1, <2>2, <2>4, <3>2 DEF OwedInv
  <2> QED
    BY <2>1, <2>3, <2>4
<1>5. CASE DeadlinePasses \/ CheckDeadline \/ TakeSem \/ SemTimeout
  BY <1>5 DEF OwedInv, DeadlinePasses, CheckDeadline, TakeSem, SemTimeout
<1>6. CASE BeginCycle \/ PowerOn \/ PowerOnFails \/ EndFix
  BY <1>6 DEF OwedInv, BeginCycle, PowerOn, PowerOnFails, EndFix
<1>7. CASE ReadLine
  <2>1. PICK k \in 1 .. Len(ring) :
          /\ ring[k].part = "tail"
          /\ \A j \in 1 .. Len(ring) : ring[j].part = "tail" => k <= j
          /\ \/ /\ k = 2 /\ ring[1].n = ring[2].n /\ ring[1].n # 0
                /\ owed' = IF owed = ring[1].n THEN 0 ELSE owed
             \/ /\ ~(k = 2 /\ ring[1].n = ring[2].n /\ ring[1].n # 0)
                /\ owed' = owed
    BY <1>7, ReadEffect
  <2>2. pc = "read"
    BY <1>7 DEF ReadLine
  <2>3. CASE owed = 0
    BY <2>1, <2>3 DEF OwedInv
  <2>4. CASE owed # 0
    <3>1. AtHead(ring, owed)
      BY <2>2, <2>4 DEF OwedInv
    <3>2. 2 \in 1 .. Len(ring)
      BY <1>1, <3>1
    <3>3. k = 2
      BY <2>1, <3>1, <3>2
    <3>4. owed' = 0
      BY <2>1, <2>4, <3>1, <3>3
    <3> QED
      BY <3>4 DEF OwedInv
  <2> QED
    BY <2>3, <2>4
<1>8. CASE ReadNothing
  <2>1. CASE owed = 0
    BY <1>8, <2>1 DEF OwedInv, ReadNothing
  <2>2. CASE owed # 0
    <3>1. AtHead(ring, owed)
      BY <1>8, <2>2 DEF OwedInv, ReadNothing
    <3>2. 2 \in Ends
      BY <1>1, <3>1 DEF Ends
    <3> QED
      BY <1>8, <3>2 DEF ReadNothing
  <2> QED
    BY <2>1, <2>2
<1>9. CASE \E ok \in BOOLEAN : Lbs(ok) \/ GateOff(ok) \/ SystemOff(ok)
  BY <1>9 DEF OwedInv, Lbs, GateOff, SystemOff
<1>10. CASE GateOn \/ GateOnFails \/ AdcRead \/ Telemetry
  BY <1>10 DEF OwedInv, GateOn, GateOnFails, AdcRead, Telemetry
<1>11. CASE UNCHANGED vars
  BY <1>11 DEF OwedInv, vars
<1> QED
  BY <1>3, <1>4, <1>5, <1>6, <1>7, <1>8, <1>9, <1>10, <1>11 DEF Next, Uplink, Receiver

\* Every step that leaves a measurement switches off what it was made with, or
\* remembers that it cannot.
LEMMA StepRailsOff == TypeOK /\ RailsOff /\ [Next]_vars => RailsOff'
<1> SUFFICES ASSUME TypeOK, RailsOff, [Next]_vars PROVE RailsOff'
  OBVIOUS
<1>1. CASE Receiver \/ DeadlinePasses \/ BeginCycle
  BY <1>1 DEF RailsOff, InFix, Receiver, SendHead, SendTail, DeadlinePasses, BeginCycle
<1>2. CASE PowerOn \/ PowerOnFails \/ CheckDeadline \/ TakeSem \/ SemTimeout
  BY <1>2 DEF RailsOff, InFix, PowerOn, PowerOnFails, CheckDeadline, TakeSem, SemTimeout
<1>3. CASE ReadLine
  <2>1. pc = "read" /\ pc' \in InFix /\ UNCHANGED <<power, gate, stuck>>
    BY <1>3, ReadType DEF ReadLine, InFix
  <2> QED
    BY <2>1 DEF RailsOff, InFix
<1>4. CASE ReadNothing \/ \E ok \in BOOLEAN : Lbs(ok)
  BY <1>4 DEF RailsOff, InFix, ReadNothing, Lbs
<1>5. CASE EndFix \/ \E ok \in BOOLEAN : SystemOff(ok)
  <2>1. PICK ok \in BOOLEAN : PowerOff(ok)
    BY <1>5 DEF EndFix, SystemOff
  <2>2. pc \notin {"adc", "ungate"} /\ UNCHANGED gate
    BY <1>5 DEF EndFix, SystemOff
  <2>3. CASE ok
    BY <2>1, <2>2, <2>3 DEF RailsOff, PowerOff
  <2>4. CASE ~ok
    BY <2>1, <2>2, <2>4 DEF RailsOff, PowerOff
  <2> QED
    BY <2>3, <2>4
<1>6. CASE GateOn \/ GateOnFails \/ AdcRead \/ Telemetry
  BY <1>6 DEF RailsOff, InFix, GateOn, GateOnFails, AdcRead, Telemetry
<1>7. CASE \E ok \in BOOLEAN : GateOff(ok)
  <2>1. PICK ok \in BOOLEAN : GateOff(ok)
    BY <1>7
  <2>2. CASE ok
    BY <2>1, <2>2 DEF RailsOff, InFix, GateOff
  <2>3. CASE ~ok
    BY <2>1, <2>3 DEF RailsOff, InFix, GateOff
  <2> QED
    BY <2>2, <2>3
<1>8. CASE UNCHANGED vars
  BY <1>8 DEF RailsOff, vars
<1> QED
  BY <1>1, <1>2, <1>3, <1>4, <1>5, <1>6, <1>7, <1>8 DEF Next, Uplink

-----------------------------------------------------------------------------
(***************************************************************************)
(* Theorems                                                                *)
(***************************************************************************)

\* It all holds at the start.
LEMMA InitMeasureInv == Init => MeasureInv
<1> SUFFICES ASSUME Init PROVE MeasureInv
  OBVIOUS
<1>1. MaxSentence \in Nat /\ MaxCycle \in Nat /\ RX_RING_SIZE \in Nat /\ 0 \in Volts
  BY MeasureAssumption
<1>2. TypeOK
  <2>1. NoFix \in Position /\ None \in Sentence
    BY <1>1 DEF Position, NoFix, Kind, Sentence
  <2>2. acc \in Position /\ {sending, heard} \subseteq Sentence
    BY <2>1 DEF Init
  <2>3. loc \in [src : {"none", "g", "l"}, n : 0 .. MaxSentence, speed : 0 .. MaxSentence]
    BY <1>1 DEF Init, NoLoc
  <2>4. {sent, owed} \subseteq 0 .. MaxSentence /\ first \in 1 .. MaxSentence + 1
        /\ cycles \in 0 .. MaxCycle
    BY <1>1 DEF Init
  <2>5. ring \in Seq(Piece) /\ Len(ring) <= RX_RING_SIZE
    BY <1>1 DEF Init
  <2>6. pc = "idle" /\ power = FALSE /\ gate = FALSE /\ late = FALSE /\ line_sem = 0
        /\ mv = 0 /\ batt_level = 0 /\ stuck = {}
    BY DEF Init
  <2>7. acc \in [valid : BOOLEAN, n : 0 .. MaxSentence, sats : Kind, speed : 0 .. MaxSentence]
    BY <2>2 DEF Position
  <2>8. power \in BOOLEAN /\ gate \in BOOLEAN /\ late \in BOOLEAN /\ line_sem \in {0, 1}
    BY <2>6
  <2>9. mv \in Volts /\ batt_level \in 0 .. 3 /\ stuck \subseteq {"receiver", "divider"}
    BY <1>1, <2>6
  <2>10. pc \in InFix \cup {"idle", "gnss", "lbs", "battery", "adc", "ungate",
                            "tele", "system off"}
    BY <2>6
  <2> QED
    BY <2>2, <2>3, <2>4, <2>5, <2>7, <2>8, <2>9, <2>10 DEF TypeOK
<1>3. FixInv /\ OwedInv /\ RailsOff
  BY DEF Init, FixInv, FixHonest, OwedInv, RailsOff, NoLoc, InFix
<1> QED
  BY <1>2, <1>3 DEF MeasureInv

\* The inductive invariant holds always.
THEOREM MeasureInvariant == Spec => []MeasureInv
<1>1. MeasureInv /\ [Next]_vars => MeasureInv'
  BY StepTypeOK, StepFixInv, StepOwedInv, StepRailsOff DEF MeasureInv
<1> QED
  BY <1>1, InitMeasureInv, PTL DEF Spec

\* The state is always of its type (gnss.c, battery.c).
THEOREM Typed == Spec => []TypeOK
<1>1. MeasureInv => TypeOK
  BY DEF MeasureInv
<1> QED
  BY <1>1, MeasureInvariant, PTL

\* A position reported as the satellites' comes from one whole sentence of this
\* very measurement which the receiver has not taken back (gnss.c:140, 195-196).
THEOREM PositionsAreHonest == Spec => []FixHonest
<1>1. MeasureInv => FixHonest
  BY DEF MeasureInv, FixInv
<1> QED
  BY <1>1, MeasureInvariant, PTL

\* The thread never sleeps on a sentence that arrived whole while it waited,
\* for any ring that holds one sentence (gnss.c:43-45).
THEOREM NoLineLeftBehind == Spec => []NoneLeftBehind
<1>1. MeasureInv => NoneLeftBehind
  BY DEF MeasureInv, OwedInv, NoneLeftBehind
<1> QED
  BY <1>1, MeasureInvariant, PTL

\* The receiver and the divider are off whenever they are not measured with,
\* unless they cannot be switched off (gnss.c:181, battery.c:146-149).
THEOREM PowerIsOff == Spec => []RailsOff
<1>1. MeasureInv => RailsOff
  BY DEF MeasureInv
<1> QED
  BY <1>1, MeasureInvariant, PTL
=============================================================================
