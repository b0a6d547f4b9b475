------------------------------- MODULE Measure -------------------------------
(***************************************************************************)
(* The measuring half of uplink_cycle: gnss.c, battery.c and what the      *)
(* uplink thread sends of them.                                            *)
(*                                                                         *)
(* gnss_fix powers the receiver, reads its sentences until one has a       *)
(* position of four satellites or the time is up, and powers it off.  The  *)
(* bytes come by interrupt into a ring buffer; line_sem tells of the ends  *)
(* of lines.  Without a position the cells of the network give one.  Then  *)
(* battery_read_mv switches the divider on, samples, and switches it off.  *)
(*                                                                         *)
(* Abstracted: a sentence is two pieces, a head and a tail with the end of *)
(* the line, and the ring counts pieces.  A piece may come damaged; a line *)
(* that is not the two undamaged pieces of one sentence has a wrong        *)
(* checksum.  The numbers in a sentence are the sentence's own number, so  *)
(* that a position tells where it is from.                                 *)
(***************************************************************************)
EXTENDS Naturals, FiniteSets, Sequences

CONSTANTS
  RX_RING_SIZE,  \* pieces the ring buffer holds
  LOW_VOLT,      \* the three thresholds of battery_low_level, falling
  Volts,         \* the millivolts the battery may be read at, 0 included
  MaxSentence,   \* bound on sentences the receiver sends
  MaxCycle       \* bound on reporting cycles

ASSUME MeasureAssumption ==
  /\ RX_RING_SIZE \in Nat \ {0, 1}
  /\ LOW_VOLT \in Seq(Nat) /\ Len(LOW_VOLT) = 3
  /\ LOW_VOLT[1] > LOW_VOLT[2] /\ LOW_VOLT[2] > LOW_VOLT[3]
  /\ Volts \subseteq Nat /\ 0 \in Volts
  /\ MaxSentence \in Nat /\ MaxCycle \in Nat

VARIABLES
  pc,        \* where the uplink thread is
  power,     \* the receiver's supply; the interrupt is on with it
  ring, line_sem,
  late,      \* the deadline of gnss_fix has passed
  acc,       \* gnss_fix: the position so far
  gate,      \* the divider's switch
  mv,        \* the reading of this cycle, 0 for one that failed
  batt_level,
  sending,   \* the sentence of which the receiver has yet to send the tail
  sent,      \* sentences so far
  cycles,
  first,     \* history: number of the first sentence of this measurement
  heard,     \* history: the last GGA sentence the thread read whole
  owed,      \* history: the sentence that came whole to a thread that waited
             \* with nothing unread, as long as it has not been read
  loc,       \* history: the position this cycle reported
  stuck      \* history: what could not be switched off

receiver == <<sending, sent>>
gnss     == <<power, ring, line_sem>>
fix      == <<late, acc, first, heard>>
battery  == <<gate, mv, batt_level>>
vars     == <<pc, gnss, fix, battery, receiver, cycles, owed, loc, stuck>>

Kind     == {"good", "weak", "none", "rmc"}  \* GGA with four satellites or
                                             \* more, fewer, no position; RMC
None     == [n |-> 0, kind |-> "none"]
Sentence == [n : 1 .. MaxSentence, kind : Kind] \cup {None}
Piece    == [n : 0 .. MaxSentence, kind : Kind, part : {"head", "tail"}]
NoFix    == [valid |-> FALSE, n |-> 0, sats |-> "none", speed |-> 0]
NoLoc    == [src |-> "none", n |-> 0, speed |-> 0]
InFix    == {"check", "wait", "read", "off"}

TypeOK ==
  /\ pc \in InFix \cup {"idle", "gnss", "lbs", "battery", "adc", "ungate",
                        "tele", "system off"}
  /\ power \in BOOLEAN /\ gate \in BOOLEAN /\ late \in BOOLEAN
  /\ ring \in Seq(Piece) /\ Len(ring) <= RX_RING_SIZE /\ line_sem \in {0, 1}
  /\ acc \in [valid : BOOLEAN, n : 0 .. MaxSentence, sats : Kind, speed : 0 .. MaxSentence]
  /\ mv \in Volts /\ batt_level \in 0 .. 3
  /\ {sending, heard} \subseteq Sentence
  /\ {sent, owed} \subseteq 0 .. MaxSentence /\ first \in 1 .. MaxSentence + 1
  /\ cycles \in 0 .. MaxCycle
  /\ loc \in [src : {"none", "g", "l"}, n : 0 .. MaxSentence, speed : 0 .. MaxSentence]
  /\ stuck \subseteq {"receiver", "divider"}

\* After gnss_init and battery_init: both are off.
Init ==
  /\ pc = "idle" /\ cycles = 0
  /\ power = FALSE /\ ring = <<>> /\ line_sem = 0
  /\ late = FALSE /\ acc = NoFix /\ first = 1 /\ heard = None
  /\ gate = FALSE /\ mv = 0 /\ batt_level = 0
  /\ sending = None /\ sent = 0
  /\ owed = 0 /\ loc = NoLoc /\ stuck = {}

-----------------------------------------------------------------------------
(***************************************************************************)
(* The receiver and uart_isr                                               *)
(***************************************************************************)

\* Variant: a full ring makes room for the new bytes.
PutOverwrites(r, p) ==
  IF Len(r) < RX_RING_SIZE THEN Append(r, p) ELSE Append(Tail(r), p)

\* ring_buf_put: what finds no room is dropped.
Put(r, p) == IF Len(r) < RX_RING_SIZE THEN Append(r, p) ELSE r

\* The piece as it was sent, or damaged.
Arrivals(s, part) ==
  {[n |-> n, kind |-> s.kind, part |-> part] : n \in {0, s.n}}

SendHead ==
  /\ power /\ pc \in InFix
  /\ sending = None /\ sent < MaxSentence
  /\ sent' = sent + 1
  /\ \E k \in Kind : sending' = [n |-> sent', kind |-> k]
  /\ \E p \in Arrivals(sending', "head") : ring' = Put(ring, p)
  /\ UNCHANGED <<pc, power, line_sem, fix, battery, cycles, owed, loc, stuck>>

\* The end of a line gives line_sem whether or not there was room for it.
\* owed remembers a sentence that arrived whole and alone at a waiting thread.
SendTail ==
  /\ power /\ pc \in InFix
  /\ sending # None /\ sending' = None
  /\ line_sem' = 1
  /\ \E p \in Arrivals(sending, "tail") :
       /\ ring' = Put(ring, p)
       /\ owed' = IF /\ pc \in {"check", "wait"} /\ line_sem = 0
                     /\ ring = <<[p EXCEPT !.part = "head"]>> /\ p.n # 0
                  THEN p.n ELSE owed
  /\ UNCHANGED <<pc, power, sent, fix, battery, cycles, loc, stuck>>

-----------------------------------------------------------------------------
(***************************************************************************)
(* gnss_fix                                                                *)
(***************************************************************************)

\* The cycle has connected and said hello.
BeginCycle ==
  /\ pc = "idle" /\ pc' = "gnss"
  /\ cycles < MaxCycle /\ cycles' = cycles + 1
  /\ loc' = NoLoc
  /\ UNCHANGED <<gnss, fix, battery, receiver, owed, stuck>>

\* Variant: what the ring held is not thrown away.
PowerOnKeepsRing ==
  /\ pc = "gnss" /\ pc' = "check"
  /\ power' = TRUE
  /\ line_sem' = 0 /\ UNCHANGED ring
  /\ late' = FALSE /\ acc' = NoFix
  /\ first' = sent + 1 /\ heard' = None /\ owed' = 0
  /\ UNCHANGED <<battery, receiver, cycles, loc, stuck>>

\* The buffer and the semaphore are emptied before the power and the
\* interrupt go on.
PowerOn ==
  /\ pc = "gnss" /\ pc' = "check"
  /\ power' = TRUE
  /\ ring' = <<>> /\ line_sem' = 0
  /\ late' = FALSE /\ acc' = NoFix
  /\ first' = sent + 1 /\ heard' = None /\ owed' = 0
  /\ UNCHANGED <<battery, receiver, cycles, loc, stuck>>

\* The UART or the supply's GPIO is not ready, or setting it fails.
PowerOnFails ==
  /\ pc = "gnss" /\ pc' = "lbs"
  /\ UNCHANGED <<gnss, fix, battery, receiver, cycles, owed, loc, stuck>>

DeadlinePasses ==
  /\ pc \in InFix /\ late' = TRUE
  /\ UNCHANGED <<pc, gnss, acc, first, heard, battery, receiver, cycles, owed, loc, stuck>>

\* The condition of the loop.
CheckDeadline ==
  /\ pc = "check"
  /\ pc' = IF late THEN "off" ELSE "wait"
  /\ UNCHANGED <<gnss, fix, battery, receiver, cycles, owed, loc, stuck>>

TakeSem ==
  /\ pc = "wait" /\ pc' = "read"
  /\ line_sem = 1 /\ line_sem' = 0
  /\ UNCHANGED <<power, ring, fix, battery, receiver, cycles, owed, loc, stuck>>

\* Variant: the thread waits for a line for ever.
SemTimeoutNever == FALSE /\ UNCHANGED vars

\* A second without the end of a line.
SemTimeout ==
  /\ pc = "wait" /\ pc' = "check"
  /\ line_sem = 0
  /\ UNCHANGED <<gnss, fix, battery, receiver, cycles, owed, loc, stuck>>

Ends == {i \in DOMAIN ring : ring[i].part = "tail"}
Line == SubSeq(ring, 1, CHOOSE i \in Ends : \A j \in Ends : i <= j)

\* checksum_ok: the line is one sentence, whole and undamaged.
ChecksumOk(line) == Len(line) = 2 /\ line[1].n = line[2].n /\ line[1].n # 0

\* Variant: a sentence without a position does not take the last one back.
ParseGgaKeeps(s, f) ==
  IF s.kind = "none" THEN f
  ELSE [f EXCEPT !.valid = TRUE, !.n = s.n, !.sats = s.kind]

\* parse_gga: without a position the fields of the last one stay.
ParseGga(s, f) ==
  IF s.kind = "none" THEN [f EXCEPT !.valid = FALSE]
  ELSE [f EXCEPT !.valid = TRUE, !.n = s.n, !.sats = s.kind]

\* parse_rmc, of a status A that has a speed.
ParseRmc(s, f) == [f EXCEPT !.speed = s.n]

Converged(f) == f.valid /\ f.sats = "good"

\* take_line finds the end of a line.  The line is parsed if its checksum is
\* right, and the thread goes on to the next unless the position is good.  Of a
\* damaged line nothing may be left, which looks like no line.
ReadLine ==
  /\ pc = "read" /\ Ends # {}
  /\ ring' = SubSeq(ring, Len(Line) + 1, Len(ring))
  /\ IF ChecksumOk(Line)
     THEN LET s == [n |-> Line[1].n, kind |-> Line[1].kind]
          IN  /\ acc' = IF s.kind = "rmc" THEN ParseRmc(s, acc) ELSE ParseGga(s, acc)
              /\ heard' = IF s.kind = "rmc" THEN heard ELSE s
              /\ owed' = IF owed = s.n THEN 0 ELSE owed
              /\ pc' = IF Converged(acc') THEN "off" ELSE "read"
     ELSE /\ pc' \in {"read"} \cup IF Len(Line) = 1 /\ Line[1].n = 0
                                    THEN {"check"} ELSE {}
          /\ UNCHANGED <<acc, heard, owed>>
  /\ UNCHANGED <<power, line_sem, late, first, battery, receiver, cycles, loc, stuck>>

\* take_line finds none: what there is of one has been taken and is lost.
ReadNothing ==
  /\ pc = "read" /\ Ends = {}
  /\ ring' = <<>>
  /\ pc' = "check"
  /\ UNCHANGED <<power, line_sem, fix, battery, receiver, cycles, owed, loc, stuck>>

\* gnss_power_off: the interrupt goes off first.
PowerOff(ok) ==
  /\ power' = (power /\ ~ok)
  /\ stuck' = IF ok THEN stuck \ {"receiver"} ELSE stuck \cup {"receiver"}
  /\ sending' = None
  /\ UNCHANGED <<ring, line_sem, sent>>

\* The end of gnss_fix: a weak position is handed out, too.  proto_enc_loc
\* leaves out a speed that is not known.
EndFix ==
  /\ pc = "off"
  /\ \E ok \in BOOLEAN : PowerOff(ok)
  /\ IF acc.valid
     THEN pc' = "battery" /\ loc' = [src |-> "g", n |-> acc.n, speed |-> acc.speed]
     ELSE pc' = "lbs" /\ UNCHANGED loc
  /\ acc' = NoFix
  /\ UNCHANGED <<late, first, heard, battery, cycles, owed>>

\* modem_lbs, which needs the session and may find nothing.
Lbs(ok) ==
  /\ pc = "lbs" /\ pc' = "battery"
  /\ loc' = IF ok THEN [NoLoc EXCEPT !.src = "l"] ELSE loc
  /\ UNCHANGED <<gnss, fix, battery, receiver, cycles, owed, stuck>>

-----------------------------------------------------------------------------
(***************************************************************************)
(* battery_read_mv, the telemetry and the battery's level                  *)
(***************************************************************************)

GateOn ==
  /\ pc = "battery" /\ pc' = "adc"
  /\ gate' = TRUE
  /\ UNCHANGED <<gnss, fix, mv, batt_level, receiver, cycles, owed, loc, stuck>>

\* battery_init failed, or the sequence or the switch does.
GateOnFails ==
  /\ pc = "battery" /\ pc' = "tele"
  /\ mv' = 0
  /\ UNCHANGED <<gnss, fix, gate, batt_level, receiver, cycles, owed, loc, stuck>>

\* Variant: a failed sample is returned at once.
AdcReadReturns ==
  /\ pc = "adc"
  /\ mv' \in Volts
  /\ pc' = IF mv' = 0 THEN "tele" ELSE "ungate"
  /\ UNCHANGED <<gnss, fix, gate, batt_level, receiver, cycles, owed, loc, stuck>>

\* The sample, or its failure.
AdcRead ==
  /\ pc = "adc" /\ pc' = "ungate"
  /\ mv' \in Volts
  /\ UNCHANGED <<gnss, fix, gate, batt_level, receiver, cycles, owed, loc, stuck>>

\* The divider is switched off whatever came of the sample.
GateOff(ok) ==
  /\ pc = "ungate" /\ pc' = "tele"
  /\ gate' = ~ok
  /\ stuck' = IF ok THEN stuck \ {"divider"} ELSE stuck \cup {"divider"}
  /\ UNCHANGED <<gnss, fix, mv, batt_level, receiver, cycles, owed, loc>>

\* battery_low_level: a failed reading is no low battery.
LowLevel(v) ==
  IF v = 0 THEN 0 ELSE Cardinality({i \in 1 .. 3 : v < LOW_VOLT[i]})

\* The telemetry is sent and the level remembered; the cycle goes on to the
\* events.
Telemetry ==
  /\ pc = "tele" /\ pc' = "idle"
  /\ batt_level' = LowLevel(mv) /\ mv' = 0
  /\ UNCHANGED <<gnss, fix, gate, receiver, cycles, owed, loc, stuck>>

\* enter_system_off switches the receiver off again; arming the wake-up may
\* fail, and the loop goes on.
SystemOff(ok) ==
  /\ pc = "idle" /\ batt_level = 3
  /\ pc' \in {"idle", "system off"}
  /\ PowerOff(ok)
  /\ UNCHANGED <<fix, battery, cycles, owed, loc>>

-----------------------------------------------------------------------------
Receiver == SendHead \/ SendTail

Uplink ==
  \/ PowerOn \/ PowerOnFails
  \/ CheckDeadline \/ TakeSem \/ SemTimeout \/ ReadLine \/ ReadNothing
  \/ EndFix \/ (\E ok \in BOOLEAN : Lbs(ok))
  \/ GateOn \/ GateOnFails \/ AdcRead \/ (\E ok \in BOOLEAN : GateOff(ok))
  \/ Telemetry

Next ==
  \/ Receiver \/ DeadlinePasses \/ BeginCycle \/ Uplink
  \/ \E ok \in BOOLEAN : SystemOff(ok)

Spec == Init /\ [][Next]_vars

\* The thread goes on and time passes; the receiver may fall silent.
FairSpec == Spec /\ WF_vars(Uplink) /\ WF_vars(DeadlinePasses)

-----------------------------------------------------------------------------
(***************************************************************************)
(* Properties                                                              *)
(***************************************************************************)

\* A position reported as the satellites' comes from one whole sentence the
\* receiver sent in this very measurement, and it has not taken it back since;
\* its speed is of this measurement, too (gnss.c:140, 195-196).
FixHonest ==
  loc.src = "g" => /\ loc.n >= first /\ loc.n = heard.n /\ heard.kind # "none"
                   /\ loc.speed = 0 \/ loc.speed >= first

\* Whatever comes behind it, the thread does not go to sleep on a sentence that
\* arrived whole while it waited: a full ring loses the new bytes, and line_sem
\* tells of the old ones (gnss.c:43-45).
NoneLeftBehind == pc = "wait" /\ line_sem = 0 => owed = 0

\* The receiver and the divider are off whenever they are not measured with,
\* on each path out of gnss_fix and battery_read_mv, unless they cannot be
\* switched off (gnss.c:181, battery.c:146-149).
RailsOff ==
  /\ power /\ pc \notin InFix => "receiver" \in stuck
  /\ gate /\ pc \notin {"adc", "ungate"} => "divider" \in stuck

\* Each measurement ends, with a receiver that is silent as well as with one
\* that keeps sending damaged lines (gnss.c:218-219).
MeasureEnds == pc # "idle" ~> pc \in {"idle", "system off"}
=============================================================================
