------------------------------- MODULE SeqNo -------------------------------
(***************************************************************************)
(* The uplink sequence number q and the boot counter kept by nvstore.c.    *)
(*                                                                         *)
(* The server removes duplicates by (dev, q), so a q must never be given   *)
(* out twice, not even across power losses.  To spare the flash, only a    *)
(* ceiling is persisted: each boot starts at the persisted ceiling and     *)
(* raises it by one batch, and running out of the batch raises it again.   *)
(*                                                                         *)
(* Every settings_save_one is a step of its own, because power may be cut  *)
(* before or after it.  nvstore_next_q runs under nvstore's mutex, so one  *)
(* call is in progress at a time; its caller gets the number only when it  *)
(* returns.                                                                *)
(***************************************************************************)
EXTENDS Naturals

CONSTANTS
  BATCH,      \* NVSTORE_Q_BATCH: numbers reserved by one flash write
  MaxBoot,    \* bound on the number of power-ups
  MaxQ        \* bound on q_next

ASSUME BatchAssumption == BATCH \in Nat \ {0}
ASSUME BoundAssumption == MaxBoot \in Nat /\ MaxQ \in Nat

VARIABLES
  pc,         \* where nvstore is: off, in nvstore_init, idle or in next_q
  flash,      \* what NVS holds: the ceiling of q and the boot counter
  failed,     \* history: has a flash read or write returned an error?
  q_next,     \* RAM: the next q
  q_ceiling,  \* RAM: p.q_ceiling
  boot_count, \* RAM: p.boot_count
  issued,     \* history: the q values callers have received
  session,    \* history: those received since the last power-up
  boots,      \* history: the boot counts of the boots that reached main()
  reused,     \* history: did a caller get a q twice?
  recounted,  \* history: did two boots get the same boot count?
  repeated    \* history: did a caller get a q twice within one boot?

nvs  == <<flash, failed>>
ram  == <<q_next, q_ceiling, boot_count>>
hist == <<issued, session, boots, reused, recounted, repeated>>
vars == <<pc, nvs, ram, hist>>

Stage == {"off", "save_q", "save_boot", "idle", "raise"}

TypeOK ==
  /\ pc \in Stage
  /\ flash \in [q : Nat, boot : Nat] /\ failed \in BOOLEAN
  /\ q_next \in Nat /\ q_ceiling \in Nat /\ boot_count \in Nat
  /\ issued \subseteq Nat /\ session \subseteq Nat /\ boots \subseteq Nat
  /\ reused \in BOOLEAN /\ recounted \in BOOLEAN /\ repeated \in BOOLEAN

Init ==
  /\ pc = "off"
  /\ flash = [q |-> 0, boot |-> 0] /\ failed = FALSE
  /\ q_next = 0 /\ q_ceiling = 0 /\ boot_count = 0
  /\ issued = {} /\ session = {} /\ boots = {}
  /\ reused = FALSE /\ recounted = FALSE /\ repeated = FALSE

\* A flash write either takes effect or fails and changes nothing; nvstore
\* carries on in both cases.
Save(field, value) ==
  \/ flash' = [flash EXCEPT ![field] = value] /\ UNCHANGED failed
  \/ UNCHANGED flash /\ failed' = TRUE

\* A caller of nvstore_next_q receives v.
Issue(v) ==
  /\ issued' = issued \cup {v}
  /\ session' = session \cup {v}
  /\ reused' = (reused \/ v \in issued)
  /\ repeated' = (repeated \/ v \in session)
  /\ UNCHANGED <<boots, recounted>>

\* nvstore_init has returned and main goes on with this boot count.
BootDone(n) ==
  /\ boots' = boots \cup {n}
  /\ recounted' = (recounted \/ n \in boots)
  /\ UNCHANGED <<issued, session, reused, repeated>>

-----------------------------------------------------------------------------
(***************************************************************************)
(* nvstore_init                                                            *)
(***************************************************************************)

\* settings_load has succeeded: q starts at the persisted ceiling, and the
\* next batch is about to be reserved.
InitLoad ==
  /\ pc = "off"
  /\ flash.boot < MaxBoot /\ flash.q <= MaxQ
  /\ pc' = "save_q"
  /\ q_next' = flash.q
  /\ q_ceiling' = flash.q + BATCH
  /\ boot_count' = flash.boot
  /\ UNCHANGED <<nvs, hist>>

\* The reservation is written; the boot counter goes up.
InitSaveQ ==
  /\ pc = "save_q"
  /\ Save("q", q_ceiling)
  /\ pc' = "save_boot"
  /\ boot_count' = boot_count + 1
  /\ UNCHANGED <<q_next, q_ceiling, hist>>

InitSaveBoot ==
  /\ pc = "save_boot"
  /\ Save("boot", boot_count)
  /\ pc' = "idle"
  /\ BootDone(boot_count)
  /\ UNCHANGED ram

\* settings_subsys_init or settings_load fails: an early return.  main logs it
\* and runs on with q_next = 0 and whatever part of p was read.
InitFail ==
  /\ pc = "off"
  /\ flash.boot < MaxBoot
  /\ pc' = "idle"
  /\ q_next' = 0
  /\ q_ceiling' \in {0, flash.q}
  /\ boot_count' \in {0, flash.boot}
  /\ BootDone(boot_count')
  /\ failed' = TRUE /\ UNCHANGED flash

-----------------------------------------------------------------------------
(***************************************************************************)
(* nvstore_next_q                                                          *)
(***************************************************************************)

\* Variant: the ceiling is not looked at.
NextQUnchecked ==
  /\ pc = "idle"
  /\ q_next < MaxQ
  /\ Issue(q_next)
  /\ q_next' = q_next + 1
  /\ UNCHANGED <<pc, nvs, q_ceiling, boot_count>>

\* The number is within the reserved batch: no flash write.
NextQ ==
  /\ pc = "idle"
  /\ q_next < MaxQ
  /\ q_next + 1 < q_ceiling
  /\ Issue(q_next)
  /\ q_next' = q_next + 1
  /\ UNCHANGED <<pc, nvs, q_ceiling, boot_count>>

\* The last number of the batch: the ceiling is raised first, the caller waits.
NextQRaise ==
  /\ pc = "idle"
  /\ q_next < MaxQ
  /\ q_next + 1 >= q_ceiling
  /\ q_next' = q_next + 1
  /\ q_ceiling' = q_next + 1 + BATCH
  /\ pc' = "raise"
  /\ UNCHANGED <<nvs, boot_count, hist>>

\* Variant: the raised ceiling stays in RAM.
RaiseSaveUnwritten ==
  /\ pc = "raise"
  /\ Issue(q_next - 1)
  /\ pc' = "idle"
  /\ UNCHANGED <<nvs, ram>>

\* Variant: a failed write takes the number back and gives it out all the same.
RaiseSaveRollback ==
  /\ pc = "raise"
  /\ Save("q", q_ceiling)
  /\ Issue(q_next - 1)
  /\ q_next' = IF UNCHANGED flash THEN q_next - 1 ELSE q_next
  /\ pc' = "idle"
  /\ UNCHANGED <<q_ceiling, boot_count>>

\* The raised ceiling is written and the call returns q_next - 1.
RaiseSave ==
  /\ pc = "raise"
  /\ Save("q", q_ceiling)
  /\ Issue(q_next - 1)
  /\ pc' = "idle"
  /\ UNCHANGED ram

\* Power cut, sys_reboot or System OFF: RAM is gone, flash and history stay.
PowerLoss ==
  /\ pc # "off"
  /\ pc' = "off"
  /\ q_next' = 0 /\ q_ceiling' = 0 /\ boot_count' = 0
  /\ session' = {}
  /\ UNCHANGED <<nvs, issued, boots, reused, recounted, repeated>>

Next ==
  \/ InitLoad \/ InitSaveQ \/ InitSaveBoot \/ InitFail
  \/ NextQ \/ NextQRaise \/ RaiseSave
  \/ PowerLoss

Spec == Init /\ [][Next]_vars

-----------------------------------------------------------------------------
(***************************************************************************)
(* Properties                                                              *)
(***************************************************************************)

\* No caller ever receives a q that was given out before, whatever power cuts
\* there were, as long as flash has not failed: what the server's (dev, q)
\* deduplication rests on (nvstore_init starts at the persisted ceiling,
\* nvstore_next_q raises it in time).
NeverReused == ~failed => ~reused

\* Nor do two boots that reach main() report the same boot count in up/hello
\* (nvstore_init counts up before anything can be sent).
BootsDistinct == ~failed => ~recounted

\* Even when flash reads and writes fail, q repeats only after a power loss:
\* within one boot every caller gets a number of its own (the comment in
\* nvstore_next_q on a failed write).
NeverRepeatedInBoot == ~repeated

\* Whatever is given out is below what flash remembers, so a power cut at any
\* moment, also between the two halves of a reservation, restarts q above it
\* (nvstore_init starts at the persisted ceiling).
FlashAhead ==
  ~failed => /\ \A v \in issued : v < flash.q
             /\ \A n \in boots : n <= flash.boot
=============================================================================
