--------------------------- MODULE UnlockSession ---------------------------
(***************************************************************************)
(* The unlock dialogue over BLE: ble_unlock.c's transport and the session  *)
(* state of unlock.c.                                                      *)
(*                                                                         *)
(* A phone connects, writes one APDU at a time (SELECT, GET CHALLENGE,     *)
(* UNLOCK) and gets the answer as a notification.  The Bluetooth thread's  *)
(* callbacks only copy and submit; one work queue runs the APDUs and the   *)
(* session resets, in order of submission.  A work item that is already    *)
(* queued is not queued again.                                             *)
(*                                                                         *)
(* There is one connection object (CONFIG_BT_MAX_CONN=1).  A pending APDU  *)
(* holds a reference to it, so no new connection can be made before the    *)
(* APDU of the previous one is answered.  The keys are in KeyStore: here a *)
(* verification may come out either way.                                   *)
(***************************************************************************)
EXTENDS Naturals, Sequences

CONSTANTS
  MaxConn,   \* bound on connections made
  MaxNonce,  \* bound on challenges issued
  MaxWrite   \* bound on APDUs written

ASSUME SessionBounds == MaxConn \in Nat /\ MaxNonce \in Nat /\ MaxWrite \in Nat

VARIABLES
  conn,        \* the connection that is up, NoConn when none is
  conns,       \* connections made so far; the next one gets the next number
  workq,       \* unlock_workq: the queued work items
  pending,     \* the APDU being handled and the connection it holds
  busy,        \* the flag busy
  stage,       \* apdu_work_fn: not running, in result_cb, answering, reference
               \* given back
  selected, nonce_valid, cur_nonce, \* unlock.c's session
  nonces, writes,                   \* counts for the bounds
  selectedBy,  \* history: the connection whose SELECT set selected
  issuedTo,    \* history: the connection each nonce was sent to
  verified     \* history: the nonces a verification has been made with

session == <<selected, nonce_valid, cur_nonce>>
hist    == <<selectedBy, issuedTo, verified>>
vars    == <<conn, conns, workq, pending, busy, stage, session,
             nonces, writes, hist>>

NoConn  == 0
Conn    == 1 .. MaxConn
NoNonce == 0
Nonce   == 1 .. MaxNonce

\* What a phone may write: a SELECT of our application or another, a GET
\* CHALLENGE, an UNLOCK answering some nonce sent before, anything else.
Apdu ==
  [ins : {"select", "select_other", "challenge", "malformed"}, nonce : {NoNonce}]
    \cup [ins : {"unlock"}, nonce : Nonce]
NoApdu    == [ins |-> "none", nonce |-> NoNonce]
NoPending == [conn |-> NoConn, apdu |-> NoApdu]

TypeOK ==
  /\ conn \in Conn \cup {NoConn} /\ conns \in 0 .. MaxConn
  /\ workq \in Seq({"reset", "apdu"}) /\ Len(workq) <= 2
  /\ pending \in [conn : Conn \cup {NoConn}, apdu : Apdu \cup {NoApdu}]
  /\ busy \in BOOLEAN
  /\ stage \in {"none", "callback", "answer", "unref"}
  /\ selected \in BOOLEAN /\ nonce_valid \in BOOLEAN
  /\ cur_nonce \in Nonce \cup {NoNonce}
  /\ nonces \in 0 .. MaxNonce /\ writes \in 0 .. MaxWrite
  /\ selectedBy \in Conn \cup {NoConn}
  /\ issuedTo \in [Nonce -> Conn \cup {NoConn}]
  /\ verified \subseteq Nonce

Init ==
  /\ conn = NoConn /\ conns = 0
  /\ workq = <<>>
  /\ pending = NoPending
  /\ busy = FALSE
  /\ stage = "none"
  /\ selected = FALSE /\ nonce_valid = FALSE /\ cur_nonce = NoNonce
  /\ nonces = 0 /\ writes = 0
  /\ selectedBy = NoConn
  /\ issuedTo = [n \in Nonce |-> NoConn]
  /\ verified = {}

-----------------------------------------------------------------------------
(***************************************************************************)
(* The Bluetooth thread and ble_unlock_stop                                *)
(***************************************************************************)

\* k_work_submit_to_queue
Submit(item) ==
  workq' = IF \E i \in DOMAIN workq : workq[i] = item THEN workq
                                                      ELSE Append(workq, item)

\* on_connected.  The connection object must be free: not in use and not held
\* by a pending APDU.
Connect ==
  /\ conn = NoConn /\ pending.conn = NoConn
  /\ conns < MaxConn
  /\ conn' = conns + 1 /\ conns' = conns + 1
  /\ Submit("reset")
  /\ UNCHANGED <<pending, busy, stage, session, nonces, writes, hist>>

\* on_disconnected
Disconnect ==
  /\ conn # NoConn
  /\ conn' = NoConn
  /\ Submit("reset")
  /\ UNCHANGED <<conns, pending, busy, stage, session, nonces, writes, hist>>

\* on_cmd_write, accepted: the flag is taken, the APDU copied, the connection
\* referenced and the work submitted.
Write(apdu) ==
  /\ conn # NoConn /\ writes < MaxWrite
  /\ apdu.nonce <= nonces
  /\ ~busy
  /\ busy' = TRUE
  /\ pending' = [conn |-> conn, apdu |-> apdu]
  /\ Submit("apdu")
  /\ writes' = writes + 1
  /\ UNCHANGED <<conn, conns, stage, session, nonces, hist>>

\* Variant: the flag is not given back.
WriteSubmitFailsBusy ==
  /\ conn # NoConn /\ writes < MaxWrite
  /\ ~busy
  /\ busy' = TRUE
  /\ writes' = writes + 1
  /\ UNCHANGED <<conn, conns, workq, pending, stage, session, nonces, hist>>

\* on_cmd_write when the work cannot be submitted: flag and reference are
\* given back.
WriteSubmitFails ==
  /\ conn # NoConn /\ writes < MaxWrite
  /\ ~busy
  /\ busy' = FALSE
  /\ pending' = NoPending
  /\ writes' = writes + 1
  /\ UNCHANGED <<conn, conns, workq, stage, session, nonces, hist>>

\* ble_unlock_stop on the uplink thread also resets the session.
StopAdvertising ==
  /\ Submit("reset")
  /\ UNCHANGED <<conn, conns, pending, busy, stage, session, nonces,
                 writes, hist>>

-----------------------------------------------------------------------------
(***************************************************************************)
(* The unlock work queue                                                   *)
(***************************************************************************)

Take(item) ==
  /\ stage = "none"
  /\ workq # <<>> /\ Head(workq) = item
  /\ workq' = Tail(workq)

\* Variant: the reset forgets the nonce and leaves the selection.
ResetNonceOnly ==
  /\ Take("reset")
  /\ nonce_valid' = FALSE /\ cur_nonce' = NoNonce
  /\ UNCHANGED <<conn, conns, pending, busy, stage, selected, nonces,
                 writes, hist>>

\* session_reset_work_fn -> unlock_session_reset
ResetSession ==
  /\ Take("reset")
  /\ nonce_valid' = FALSE /\ selected' = FALSE /\ cur_nonce' = NoNonce
  /\ UNCHANGED <<conn, conns, pending, busy, stage, nonces, writes, hist>>

\* The rest of apdu_work_fn comes in steps of its own: AnswerApdu, ClearBusy.
RunApdu(ins) == Take("apdu") /\ pending.apdu.ins = ins

\* handle_select: our AID selects and voids a nonce; another one deselects.
HandleSelect ==
  /\ \/ /\ RunApdu("select")
        /\ selected' = TRUE /\ nonce_valid' = FALSE
        /\ selectedBy' = pending.conn
     \/ /\ RunApdu("select_other")
        /\ selected' = FALSE
        /\ UNCHANGED <<nonce_valid, selectedBy>>
  /\ stage' = "answer"
  /\ UNCHANGED <<conn, conns, pending, busy, cur_nonce, nonces,
                 writes, issuedTo, verified>>

\* handle_get_challenge: refused unless selected; a failing random source
\* wipes the nonce.
HandleGetChallenge ==
  /\ RunApdu("challenge")
  /\ \/ ~selected /\ UNCHANGED <<nonce_valid, cur_nonce, nonces, issuedTo>>
     \/ /\ selected /\ nonces < MaxNonce
        /\ nonces' = nonces + 1
        /\ cur_nonce' = nonces + 1 /\ nonce_valid' = TRUE
        /\ issuedTo' = [issuedTo EXCEPT ![nonces + 1] = pending.conn]
     \/ /\ selected
        /\ cur_nonce' = NoNonce /\ nonce_valid' = FALSE
        /\ UNCHANGED <<nonces, issuedTo>>
  /\ stage' = "answer"
  /\ UNCHANGED <<conn, conns, pending, busy, selected, writes,
                 selectedBy, verified>>

\* handle_unlock without a pending challenge: refused, no callback.
HandleUnlockRefused ==
  /\ RunApdu("unlock")
  /\ ~selected \/ ~nonce_valid
  /\ stage' = "answer"
  /\ UNCHANGED <<conn, conns, pending, busy, session, nonces,
                 writes, hist>>

\* Variant: a refused answer leaves the challenge pending.
HandleUnlockKeepsNonce ==
  /\ RunApdu("unlock")
  /\ selected /\ nonce_valid
  /\ nonce_valid' \in BOOLEAN
  /\ verified' = verified \cup {cur_nonce}
  /\ stage' = "callback"
  /\ UNCHANGED <<conn, conns, pending, busy, selected, cur_nonce,
                 nonces, writes, selectedBy, issuedTo>>

\* handle_unlock with one: the nonce is spent before anything is verified, and
\* then the keys decide.  A MAC over another nonce is always refused.  Either
\* way the outcome goes to the result callback.
HandleUnlock ==
  /\ RunApdu("unlock")
  /\ selected /\ nonce_valid
  /\ nonce_valid' = FALSE
  /\ verified' = verified \cup {cur_nonce}
  /\ stage' = "callback"
  /\ UNCHANGED <<conn, conns, pending, busy, selected, cur_nonce,
                 nonces, writes, selectedBy, issuedTo>>

\* A length or an instruction that is not understood.
HandleMalformed ==
  /\ RunApdu("malformed")
  /\ stage' = "answer"
  /\ UNCHANGED <<conn, conns, pending, busy, session, nonces,
                 writes, hist>>

\* result_cb returns: on_unlock_result has queued the event and, when granted,
\* driven the lock.
CallbackReturns ==
  /\ stage = "callback"
  /\ stage' = "answer"
  /\ UNCHANGED <<conn, conns, workq, pending, busy, session,
                 nonces, writes, hist>>

\* The end of apdu_work_fn: the answer is notified, to a phone that asked for
\* notifications, and the reference is given back.  From here the connection object may be free.
AnswerApdu ==
  /\ stage = "answer"
  /\ stage' = "unref"
  /\ pending' = [pending EXCEPT !.conn = NoConn]
  /\ UNCHANGED <<conn, conns, workq, busy, session, nonces, writes, hist>>

\* Its last statement, atomic_clear(&busy).
ClearBusy ==
  /\ stage = "unref"
  /\ stage' = "none"
  /\ busy' = FALSE /\ pending' = NoPending
  /\ UNCHANGED <<conn, conns, workq, session, nonces, writes, hist>>

-----------------------------------------------------------------------------
Phone == Connect \/ Disconnect \/ (\E a \in Apdu : Write(a))
           \/ WriteSubmitFails

WorkQueue ==
  \/ ResetSession
  \/ HandleSelect \/ HandleGetChallenge
  \/ HandleUnlockRefused \/ HandleUnlock \/ HandleMalformed
  \/ CallbackReturns \/ AnswerApdu \/ ClearBusy

Next == Phone \/ StopAdvertising \/ WorkQueue

Spec == Init /\ [][Next]_vars

\* The unlock work queue's thread runs, and the result callback comes back: it
\* may wait for the lock on the events, which the uplink thread gives back.
FairSpec == Spec /\ WF_vars(WorkQueue)

-----------------------------------------------------------------------------
(***************************************************************************)
(* Properties                                                              *)
(***************************************************************************)

\* An APDU runs on the dialogue of its own connection only: whatever is
\* selected or challenged when it reaches the head of the queue was so by an
\* APDU of the connection it came over (ble_unlock.c:88-112: every reset goes
\* through the queue, a queued one is not queued twice).
SessionOfOneConnection ==
  stage = "none" /\ workq # <<>> /\ Head(workq) = "apdu" =>
    /\ selected => selectedBy = pending.conn
    /\ nonce_valid => issuedTo[cur_nonce] = pending.conn

\* A challenge is answered once: no two verifications are made with the same
\* nonce, whatever became of the first, across connections and resets
\* (unlock.c:188-190).
NonceOnce ==
  [][stage = "none" /\ stage' = "callback" => cur_nonce \notin verified]_vars
=============================================================================
