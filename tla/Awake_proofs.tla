---------------------------- MODULE Awake_proofs ----------------------------
(***************************************************************************)
(* Proofs about Motion, and about Motion and Advertising together, for any *)
(* number of movements, flushes and connections.                           *)
(***************************************************************************)
EXTENDS Awake, TLAPS

-----------------------------------------------------------------------------
(***************************************************************************)
(* Motion                                                                  *)
(***************************************************************************)

\* motion_init starts in no state and with the timeout started.
LEMMA InitComingInv == Init => ComingInv
  BY DEF Init, ComingInv, StillComing, VerdictComing, Thread

\* Every step of the two threads keeps a verdict coming.
LEMMA StepComingInv ==
  ASSUME ComingInv, [Next]_vars
  PROVE  ComingInv'
<1> USE DEF ComingInv, StillComing, VerdictComing, Thread
<1>1. CASE Trigger
  BY <1>1 DEF Trigger, Reschedule
<1>2. CASE TriggerLost \/ NoteActivity
  BY <1>2 DEF TriggerLost, NoteActivity, Reschedule
<1>3. CASE Expire
  BY <1>3 DEF Expire
<1>4. CASE StillWork
  BY <1>4 DEF StillWork
<1>5. CASE SenseWork \/ SenseWorkDone
  BY <1>5 DEF SenseWork, SenseWorkDone
<1>6. CASE SetState("sensor")
  BY <1>6 DEF SetState, Says
<1>7. CASE SetState("sysworkq")
  BY <1>7 DEF SetState, Says
<1>8. CASE \E t \in Thread : Report(t)
  BY <1>8 DEF Report
<1>9. CASE FlushBegins \/ FlushEnds
  BY <1>9 DEF FlushBegins, FlushEnds
<1>10. CASE UNCHANGED vars
  BY <1>10 DEF vars
<1> QED
  BY <1>1, <1>2, <1>3, <1>4, <1>5, <1>6, <1>7, <1>8, <1>9, <1>10 DEF Next

\* As long as the bike counts as moving, the verdict that it stands still is
\* pending or on its way.
THEOREM Coming == Spec => []StillComing
<1>1. ComingInv /\ [Next]_vars => ComingInv'
  BY StepComingInv
<1>2. ComingInv => StillComing
  BY DEF ComingInv
<1> QED
  BY InitComingInv, <1>1, <1>2, PTL DEF Spec

\* Every step keeps the types of Motion.
LEMMA StepTypeOK ==
  ASSUME TypeOK, [Next]_vars
  PROVE  TypeOK'
<1> USE DEF TypeOK
<1>1. CASE Trigger \/ TriggerLost \/ NoteActivity
  <2>1. shakes' \in 0 .. MaxShake
    BY <1>1, MotionBounds DEF Trigger, TriggerLost, NoteActivity
  <2>2. timer' \in BOOLEAN /\ queued' = queued
    BY <1>1 DEF Trigger, TriggerLost, NoteActivity, Reschedule
  <2>3. shaken' \in BOOLEAN
    <3>1. VerdictComing \in BOOLEAN
      BY Zenon DEF VerdictComing
    <3>2. shaken' = VerdictComing \/ shaken' = TRUE
      BY <1>1 DEF Trigger, TriggerLost, NoteActivity
    <3> QED
      BY <3>1, <3>2
  <2>4. pc' \in [Thread -> {"idle", "set", "call", "other"}]
    BY <1>1 DEF Trigger, TriggerLost, NoteActivity
  <2> QED
    BY <1>1, <2>1, <2>2, <2>3, <2>4 DEF Trigger, TriggerLost, NoteActivity
<1>2. CASE Expire \/ StillWork \/ SenseWork \/ SenseWorkDone
  <2>1. UNCHANGED <<fitted, state, flushing, reported, shakes, flushes, shaken>>
    BY <1>2 DEF Expire, StillWork, SenseWork, SenseWorkDone
  <2>2. pc' \in [Thread -> {"idle", "set", "call", "other"}]
    BY <1>2 DEF Expire, StillWork, SenseWork, SenseWorkDone
  <2>3. queued' \in {0, 1}
    BY <1>2 DEF Expire, StillWork, SenseWork, SenseWorkDone
  <2>4. timer' \in BOOLEAN
    BY <1>2 DEF Expire, StillWork, SenseWork, SenseWorkDone
  <2> QED
    BY <2>1, <2>2, <2>3, <2>4
<1>3. ASSUME NEW t \in Thread, SetState(t) \/ Report(t)
      PROVE  TypeOK'
  <2>1. Says[t] \in {"MOVING", "STILL"}
    BY DEF Says, Thread
  <2> QED
    BY <1>3, <2>1 DEF SetState, Report
<1>4. CASE FlushBegins \/ FlushEnds
  <2>1. flushes' \in 0 .. MaxFlush
    BY <1>4, MotionBounds DEF FlushBegins, FlushEnds
  <2>2. flushing' \in BOOLEAN
    BY <1>4 DEF FlushBegins, FlushEnds
  <2> QED
    BY <1>4, <2>1, <2>2 DEF FlushBegins, FlushEnds
<1>5. CASE UNCHANGED vars
  BY <1>5 DEF vars
<1> QED
  BY <1>1, <1>2, <1>3, <1>4, <1>5 DEF Next

\* State, timeout, threads and counts of motion.c stay well typed.
THEOREM MotionTyped == Spec => []TypeOK
<1>1. Init => TypeOK
  <2>1. Init => pc \in [Thread -> {"idle", "set", "call", "other"}]
    BY DEF Init
  <2>0. Init => timer \in BOOLEAN
    BY Zenon DEF Init
  <2>2. Init => /\ queued \in {0, 1}
                /\ flushing \in BOOLEAN /\ shaken \in BOOLEAN
    BY DEF Init
  <2>3. Init => /\ state \in {"UNKNOWN", "MOVING", "STILL"} /\ reported \in {"none", "MOVING", "STILL"}
                /\ shakes \in 0 .. MaxShake /\ flushes \in 0 .. MaxFlush
                /\ fitted \in {"ready", "deaf", "absent"}
    BY MotionBounds DEF Init
  <2> QED
    BY <2>0, <2>1, <2>2, <2>3 DEF TypeOK
<1>2. TypeOK /\ [Next]_vars => TypeOK'
  BY StepTypeOK
<1> QED
  BY <1>1, <1>2, PTL DEF Spec

-----------------------------------------------------------------------------
(***************************************************************************)
(* The composition                                                         *)
(***************************************************************************)

\* Every step of the whole is one of Motion's and one of Advertising's.
LEMMA Joined ==
  ASSUME [AwakeNext]_AwakeVars
  PROVE  [Next]_vars /\ [A!Next]_(A!vars)
<1> DEFINE same == UNCHANGED <<state, advertising>>
<1>0. same => UNCHANGED A!vars
  BY DEF A!vars, advertising
<1>1. CASE SensorTrigger
  BY <1>0, <1>1 DEF SensorTrigger, Trigger, Next
<1>2. CASE SensorSetState
  <2>1. Next
    BY <1>2 DEF SensorSetState, Next, Thread
  <2>2. CASE A!Moves
    BY <2>1, <2>2 DEF A!Next
  <2>3. CASE state = "MOVING" /\ UNCHANGED advertising
    BY <1>0, <1>2, <2>1, <2>3 DEF SensorSetState, SetState, Says
  <2> QED
    BY <1>2, <2>2, <2>3 DEF SensorSetState
<1>3. CASE SysworkqSetState
  <2>1. Next
    BY <1>3 DEF SysworkqSetState, Next, Thread
  <2>2. CASE A!StandsStill
    BY <2>1, <2>2 DEF A!Next
  <2>3. CASE state # "MOVING" /\ UNCHANGED advertising
    <3>1. state' # "MOVING"
      BY <1>3 DEF SysworkqSetState, SetState, Says
    <3>2. (state' = "MOVING") = (state = "MOVING")
      BY <2>3, <3>1
    <3> QED
      BY <2>1, <2>3, <3>2 DEF A!vars, advertising
  <2> QED
    BY <1>3, <2>2, <2>3 DEF SysworkqSetState
<1>4. CASE SensorStart
  BY <1>4 DEF SensorStart, A!Next
<1>5. CASE IdleCheck
  BY <1>5 DEF IdleCheck, A!Next
<1>6. CASE Flushes
  BY <1>0, <1>6 DEF Flushes, FlushBegins, FlushEnds, Next
<1>7. CASE Still
  <2>1. Next
    BY <1>7 DEF Still, Next
  <2>2. UNCHANGED <<state, advertising>>
    BY <1>7 DEF Still, TriggerLost, NoteActivity, Expire, StillWork, SenseWork,
                SenseWorkDone, Report
  <2> QED
    BY <1>0, <2>1, <2>2
<1>8. CASE Radio
  BY <1>8 DEF Radio, A!Next
<1>9. CASE Battery \/ UNCHANGED AwakeVars
  <2>1. UNCHANGED <<vars, advertising>>
    BY <1>9 DEF Battery, AwakeVars
  <2>2. UNCHANGED state
    BY <2>1 DEF vars
  <2> QED
    BY <1>0, <2>1, <2>2
<1> QED
  BY <1>1, <1>2, <1>3, <1>4, <1>5, <1>6, <1>7, <1>8, <1>9 DEF AwakeNext

\* So the whole implements both parts: nothing that one adds is a step that the
\* other does not allow (main.c's on_motion and uplink_thread_fn).
THEOREM JoinedParts == AwakeSpec => Spec /\ A!Spec
<1>1. AwakeInit => Init /\ A!Init
  BY DEF AwakeInit
<1>2. [AwakeNext]_AwakeVars => [Next]_vars /\ [A!Next]_(A!vars)
  BY Joined
<1> QED
  BY <1>1, <1>2, PTL DEF AwakeSpec, Spec, A!Spec

\* Every step of the three threads and of the controller keeps active honest.
LEMMA StepActiveInv ==
  ASSUME A!ActiveInv, [A!Next]_(A!vars)
  PROVE  A!ActiveInv'
<1> USE DEF A!ActiveInv
<1>1. CASE A!Moves \/ A!StandsStill
  BY <1>1 DEF A!Moves, A!StandsStill
<1>2. CASE A!StartCheck
  BY <1>2 DEF A!StartCheck
<1>3. CASE A!Start
  BY <1>3 DEF A!Start, A!AdvStartOk, A!AdvStartFails
<1>4. CASE A!StartReturns
  BY <1>4 DEF A!StartReturns
<1>5. CASE A!StopBegins
  BY <1>5 DEF A!StopBegins
<1>6. CASE A!Stop
  BY <1>6 DEF A!Stop, A!AdvStopOk, A!AdvStopFails
<1>7. CASE A!StopFailed
  BY <1>7 DEF A!StopFailed
<1>8. CASE A!Connected
  BY <1>8 DEF A!Connected
<1>9. CASE A!Disconnected
  BY <1>9 DEF A!Disconnected
<1>10. CASE A!Recycled
  BY <1>10 DEF A!Recycled
<1>11. CASE A!RecycledStart
  BY <1>11 DEF A!RecycledStart, A!AdvStartOk, A!AdvStartFails
<1>12. CASE A!RecycledFailed
  BY <1>12 DEF A!RecycledFailed
<1>13. CASE UNCHANGED A!vars
  BY <1>13 DEF A!vars
<1> QED
  BY <1>1, <1>2, <1>3, <1>4, <1>5, <1>6, <1>7, <1>8, <1>9, <1>10, <1>11, <1>12, <1>13
     DEF A!Next, A!Sensor, A!Uplink, A!Recycler

\* A moving bike has a verdict of stillness coming also while starts, stops and
\* connections are under way.
THEOREM AwakeComing == AwakeSpec => []StillComing
BY JoinedParts, Coming, PTL

\* Once the threads are through, a bike that thinks it advertises does, or is
\* connected: for every order of starts, stops, restarts and refusals.
THEOREM ActiveTells == AwakeSpec => []ActiveIsTrue
<1>1. A!Init => A!ActiveInv
  BY DEF A!Init, A!ActiveInv
<1>2. A!ActiveInv /\ [A!Next]_(A!vars) => A!ActiveInv'
  BY StepActiveInv
<1>3. A!ActiveInv => ActiveIsTrue
  BY DEF A!ActiveInv, ActiveIsTrue, A!ActiveIsTrue, A!Quiet
<1> QED
  BY <1>1, <1>2, <1>3, JoinedParts, PTL DEF A!Spec

\* Every step keeps the types of Advertising.
LEMMA StepAdvertisingTypeOK ==
  ASSUME A!TypeOK, [A!Next]_(A!vars)
  PROVE  A!TypeOK'
<1> USE DEF A!TypeOK
<1>1. (state = "MOVING")' \in BOOLEAN
  BY Zenon
<1>2. CASE A!Moves \/ A!StandsStill
  BY <1>1, <1>2, MotionBounds DEF A!Moves, A!StandsStill
<1>3. CASE A!StartCheck
  BY <1>1, <1>3 DEF A!StartCheck
<1>4. CASE A!Start \/ A!StartReturns
  BY <1>1, <1>4 DEF A!Start, A!StartReturns, A!AdvStartOk, A!AdvStartFails
<1>5. CASE A!StopBegins
  BY <1>1, <1>5 DEF A!StopBegins
<1>6. CASE A!Stop \/ A!StopFailed
  BY <1>1, <1>6 DEF A!Stop, A!StopFailed, A!AdvStopOk, A!AdvStopFails
<1>7. CASE A!Connected
  <2>1. /\ link' = "up" /\ links' = links + 1 /\ links < MaxLink
        /\ UNCHANGED <<active, sensor, uplink, recycler, moves>>
    BY <1>7 DEF A!Connected
  <2>2. links' \in 0 .. MaxLink
    BY <2>1, AwakeAssumption
  <2>3. adv' = FALSE /\ stray' = FALSE
    BY <1>7 DEF A!Connected
  <2>4. active' \in BOOLEAN /\ adv' \in BOOLEAN /\ stray' \in BOOLEAN
    BY <2>1, <2>3
  <2> QED
    BY <1>1, <2>1, <2>2, <2>3, <2>4
<1>8. CASE A!Disconnected \/ A!Recycled
  BY <1>1, <1>8 DEF A!Disconnected, A!Recycled
<1>9. CASE A!RecycledStart \/ A!RecycledFailed
  BY <1>1, <1>9 DEF A!RecycledStart, A!RecycledFailed, A!AdvStartOk, A!AdvStartFails
<1>10. CASE UNCHANGED A!vars
  BY <1>1, <1>10 DEF A!vars
<1> QED
  BY <1>2, <1>3, <1>4, <1>5, <1>6, <1>7, <1>8, <1>9, <1>10
     DEF A!Next, A!Sensor, A!Uplink, A!Recycler

\* Both parts stay well typed together, and the bike advertises only without a
\* connection.
THEOREM AwakeTyped == AwakeSpec => []AwakeTypeOK
<1>1. A!Init => A!TypeOK
  <2>1. (state = "MOVING") \in BOOLEAN
    BY Zenon
  <2>2. A!Init => active \in BOOLEAN /\ adv \in BOOLEAN /\ stray \in BOOLEAN
    BY DEF A!Init
  <2> QED
    BY <2>1, <2>2, MotionBounds, AwakeAssumption DEF A!Init, A!TypeOK
<1>2. A!TypeOK /\ [A!Next]_(A!vars) => A!TypeOK'
  BY StepAdvertisingTypeOK
<1>3. TypeOK /\ A!TypeOK /\ low \in BOOLEAN => AwakeTypeOK
  BY DEF AwakeTypeOK
<1>4. AwakeInit => low \in BOOLEAN
  BY DEF AwakeInit
<1>5. low \in BOOLEAN /\ [AwakeNext]_AwakeVars => (low \in BOOLEAN)'
  <2>1. SUFFICES ASSUME low \in BOOLEAN, [AwakeNext]_AwakeVars PROVE low' \in BOOLEAN
    OBVIOUS
  <2>2. low' = low \/ low' = ~low
    BY <2>1 DEF AwakeNext, AwakeVars, SensorTrigger, SensorSetState, SysworkqSetState,
                SensorStart, IdleCheck, Flushes, Still, Radio, Battery
  <2> QED
    BY <2>1, <2>2, Zenon
<1> QED
  BY <1>1, <1>2, <1>3, <1>4, <1>5, JoinedParts, MotionTyped, PTL DEF A!Spec, AwakeSpec
=============================================================================
