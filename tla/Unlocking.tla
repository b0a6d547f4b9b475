----------------------------- MODULE Unlocking -----------------------------
(***************************************************************************)
(* From an accepted answer to the lock: the unlock dialogue and the lock's *)
(* drive, joined by on_unlock_result, which runs on the unlock work queue. *)
(*                                                                         *)
(* Before it drives the lock the callback queues an event, for which it    *)
(* waits while flush_events holds ev_lock.  What the event is and where it *)
(* goes is in UplinkLoop, motion_note_activity in Motion.                  *)
(***************************************************************************)
EXTENDS UnlockSession, LockDrive

VARIABLES
  result, \* on_unlock_result: not running, waiting for ev_lock, queued, over
  granted \* the outcome it was called with

uvars == <<vars, dvars, result, granted>>

UnlockingTypeOK ==
  /\ TypeOK /\ DriveTypeOK
  /\ result \in {"none", "wait", "queued", "over"}
  /\ granted \in BOOLEAN

UnlockingInit ==
  /\ Init /\ DriveInit
  /\ result = "none" /\ granted = FALSE

\* The verification calls result_cb with its outcome: KeyStore's, and a MAC
\* over another nonce than the current one is refused in any case.
Verify ==
  /\ HandleUnlock
  /\ result' = "wait"
  /\ granted' \in {FALSE, pending.apdu.nonce = cur_nonce}
  /\ UNCHANGED dvars

\* Variant: a refused answer drives the lock, too.
EventQueuedAnyway ==
  /\ result = "wait" /\ ~flushing
  /\ result' = "queued" /\ Goes("unlock", "drive")
  /\ UNCHANGED <<vars, drive, timer, queue, open, flushing, others, age, jammed, granted>>

\* on_unlock_result: the event is queued, and the lock driven if it was granted.
EventQueued ==
  /\ result = "wait" /\ ~flushing
  /\ IF granted THEN result' = "queued" /\ Goes("unlock", "drive")
                ELSE result' = "over" /\ UNCHANGED call
  /\ UNCHANGED <<vars, drive, timer, queue, open, flushing, others, age, jammed, granted>>

\* lock_unlock has returned, with or without an error: the phone is told that
\* the answer was accepted in both cases.
ResultReturns ==
  /\ result = "over" \/ (result = "queued" /\ call["unlock"] = "none")
  /\ CallbackReturns
  /\ result' = "none" /\ granted' = FALSE
  /\ UNCHANGED dvars

Dialogue ==
  \/ ResetSession
  \/ HandleSelect \/ HandleGetChallenge \/ HandleUnlockRefused \/ HandleMalformed
  \/ AnswerApdu \/ ClearBusy

Unlocks == Verify \/ ResultReturns \/ (Dialogue /\ UNCHANGED <<dvars, result, granted>>)

UnlockingNext ==
  \/ (Phone \/ StopAdvertising) /\ UNCHANGED <<dvars, result, granted>>
  \/ Unlocks \/ EventQueued
  \/ DriveNext /\ UNCHANGED <<vars, result, granted>>

UnlockingSpec == UnlockingInit /\ [][UnlockingNext]_uvars

UnlockingFairSpec ==
  /\ UnlockingSpec
  /\ DriveFairness
  /\ WF_uvars(Unlocks) /\ SF_uvars(EventQueued)

-----------------------------------------------------------------------------
(***************************************************************************)
(* Properties                                                              *)
(***************************************************************************)

\* The unlock work queue drives the lock only with a challenge that was issued
\* over the connection whose answer it is handling, and once for it: after
\* the wait for ev_lock the answer is still the one that was verified.
DrivenByItsAnswer ==
  call["unlock"] # "none" =>
    /\ granted /\ stage = "callback"
    /\ pending.apdu.nonce = cur_nonce /\ ~nonce_valid
    /\ issuedTo[cur_nonce] = pending.conn

\* Unless a GPIO failed, the system comes to rest again and again: no APDU is
\* in hand, so that the next phone can connect and write (ble_unlock.c:255-256),
\* and the drive is off.  Behind it is that nobody waits for ev_lock for ever,
\* though the unlock work queue and the system work queue both do.
ComesToRest == []<>(~busy /\ pending.conn = NoConn /\ (~drive \/ jammed))
=============================================================================
