--------------------- MODULE LauncherPreparation_proofs ---------------------
(***************************************************************************)
(* Proofs about LauncherPreparation, for every set of callers and every    *)
(* geometry of the launcher.  Each safety property gets an inductive       *)
(* strengthening; the lemmas have one step per action of the module.       *)
(***************************************************************************)
EXTENDS LauncherPreparation, TLAPS

(* Types.  LauncherAssumption is needed for the positions: a move ends at  *)
(* TopPos, which is within the mechanical travel.                          *)

LEMMA TypeInit == Init => TypeOK
<1> SUFFICES ASSUME Init PROVE TypeOK
  OBVIOUS
<1>1. position \in 0 .. MaxPos
  BY LauncherAssumption DEF Init
<1>2. /\ callPc \in [Callers -> {"ready", "claimIdle", "claimError", "arm"} \cup Claiming]
      /\ previous \in [Callers -> Free]
  BY DEF Init, Free
<1> QED
  BY <1>1, <1>2 DEF Init, TypeOK, States, MotorModes

\* Steps of the motor keep the carriage within its travel.
LEMMA TypeMotor == TypeOK /\ MotorStep => TypeOK'
<1> SUFFICES ASSUME TypeOK, MotorStep PROVE TypeOK'
  OBVIOUS
<1> USE LauncherAssumption
<1>1. position \in 0 .. MaxPos /\ motor \in MotorModes
  BY DEF TypeOK
<1>2. Lower \in 0 .. MaxPos /\ Raise \in 0 .. MaxPos
  BY <1>1 DEF Lower, Raise
<1>3. position' \in 0 .. MaxPos /\ motor' \in MotorModes
  BY <1>1, <1>2 DEF MotorStep, MotorModes
<1> QED
  BY <1>3 DEF MotorStep, TypeOK, callVars, latchVars, taskVars

LEMMA TypeSetSpeed ==
    ASSUME TypeOK, NEW dir, SetSpeed(dir)
    PROVE  motor' \in MotorModes
<1>1. motor \in MotorModes /\ Braked(motor) \in MotorModes
  BY DEF TypeOK, Braked, MotorModes
<1> QED
  BY <1>1 DEF SetSpeed, MotorModes

LEMMA TypeClaim ==
    ASSUME TypeOK, NEW c \in Callers, NEW s \in Free,
           NEW otherwise \in {"ready", "claimError"}, Claim(c, s, otherwise)
    PROVE  TypeOK'
<1>1. callPc' \in [Callers -> {"ready", "claimIdle", "claimError", "arm"} \cup Claiming]
  BY DEF Claim, Goto, TypeOK, Claiming
<1>2. previous' \in [Callers -> Free] /\ preparationState' \in States /\ opened' \in BOOLEAN
  BY DEF Claim, TypeOK, States
<1> QED
  BY <1>1, <1>2 DEF Claim, TypeOK, motorVars, taskVars

\* Steps of a caller, except a write of the pull motor.
LEMMA TypeCall ==
    ASSUME TypeOK, NEW c \in Callers, CallStep(c)
    PROVE  TypeOK'
<1> USE DEF TypeOK, Goto, motorVars, taskVars, latchVars, callVars, Claiming, States, Free
<1>1. CASE ClaimIdle(c)   BY <1>1, TypeClaim DEF ClaimIdle
<1>2. CASE ClaimError(c)  BY <1>2, TypeClaim DEF ClaimError
<1>3. CASE CloseLatch(c)  BY <1>3 DEF CloseLatch
<1>4. CASE CheckSwitch(c) BY <1>4 DEF CheckSwitch
<1>5. CASE PublishDown(c) BY <1>5 DEF PublishDown
<1>6. CASE Notify(c)      BY <1>6 DEF Notify
<1>7. CASE LaunchArm(c)   BY <1>7 DEF LaunchArm
<1> QED
  BY <1>1, <1>2, <1>3, <1>4, <1>5, <1>6, <1>7 DEF CallStep

LEMMA TypeNewCall ==
    ASSUME TypeOK, NEW c \in Callers, NewCall(c)
    PROVE  TypeOK'
<1>1. CASE RequestPrepare(c)
  <2>1. callPc' \in [Callers -> {"ready", "claimIdle", "claimError", "arm"} \cup Claiming]
    BY <1>1 DEF RequestPrepare, TypeOK, Goto
  <2>2. buttonDown' \in BOOLEAN /\ latch' \in {"open", "closed"}
    BY <1>1 DEF RequestPrepare, Reports, TypeOK
  <2>3. UNCHANGED <<preparationState, published, notified, previous, autoLock, opened, motorVars, taskVars>>
    BY <1>1 DEF RequestPrepare
  <2> QED
    BY <2>1, <2>2, <2>3 DEF TypeOK, motorVars, taskVars
<1>2. CASE LaunchOpen(c)
  BY <1>2 DEF LaunchOpen, Reports, TypeOK, Goto, motorVars, taskVars
<1>3. CASE \E angle \in {"open", "closed"} : ServoWrite(c, angle)
  BY <1>3 DEF ServoWrite, TypeOK, callVars, motorVars, taskVars
<1>4. CASE \E dir \in {"up", "down", "stop"} : MotorWrite(c, dir)
  BY <1>4, TypeSetSpeed DEF MotorWrite, TypeOK, callVars, latchVars, taskVars
<1> QED
  BY <1>1, <1>2, <1>3, <1>4 DEF NewCall

LEMMA TypeAbort ==
    ASSUME TypeOK, Abort
    PROVE  TypeOK'
<1>1. motor' \in MotorModes
  BY TypeSetSpeed DEF Abort
<1> QED
  BY <1>1 DEF Abort, TypeOK, States, TailPcs, callVars, latchVars

LEMMA TypeTask ==
    ASSUME TypeOK, TaskStep
    PROVE  TypeOK'
<1> USE DEF callVars, latchVars, motorVars, Store
<1>1. CASE StartRun
  BY <1>1, TypeSetSpeed DEF StartRun, TypeOK, RunPcs
<1>2. CASE PollSwitch
  BY <1>2 DEF PollSwitch, TypeOK, SwitchPressed
<1>3. CASE BottomReached
  BY <1>3 DEF BottomReached, HardStop, TypeOK, RunPcs, MotorModes
<1>4. CASE DownTimeout \/ StopTimeout \/ MoveRefused \/ SlowStalled
  BY <1>4, TypeAbort DEF DownTimeout, StopTimeout, MoveRefused, SlowStalled
<1>5. CASE StoreSlow
  BY <1>5 DEF StoreSlow, TypeOK, RunPcs, States
<1>6. CASE StartMove
  BY <1>6 DEF StartMove, TypeOK, RunPcs, MotorModes
<1>7. CASE StoreFast
  BY <1>7 DEF StoreFast, TypeOK, RunPcs, States
<1>8. CASE SpeedUp
  BY <1>8 DEF SpeedUp, TypeOK, RunPcs
<1>9. CASE Complete
  BY <1>9 DEF Complete, TypeOK, TailPcs, States
<1>10. CASE PublishSlow \/ PublishFast \/ PublishIdle \/ PublishError
  BY <1>10 DEF PublishSlow, PublishFast, PublishIdle, PublishError, Publish, TypeOK, RunPcs,
               TailPcs, States
<1>11. CASE DropRequests
  BY <1>11 DEF DropRequests, TypeOK
<1> QED
  BY <1>1, <1>2, <1>3, <1>4, <1>5, <1>6, <1>7, <1>8, <1>9, <1>10, <1>11 DEF TaskStep

LEMMA TypeStep == TypeOK /\ [Next]_vars => TypeOK'
<1> SUFFICES ASSUME TypeOK, [Next]_vars PROVE TypeOK'
  OBVIOUS
<1>1. CASE \E c \in Callers : CallStep(c) \/ NewCall(c)
  BY <1>1, TypeCall, TypeNewCall
<1>2. CASE TaskStep
  BY <1>2, TypeTask
<1>3. CASE MotorStep
  BY <1>3, TypeMotor
<1>4. CASE AutoLock
  BY <1>4 DEF AutoLock, TypeOK, callVars, motorVars, taskVars
<1>5. CASE DispenserFinished
  BY <1>5 DEF DispenserFinished, TypeOK, callVars, motorVars, latchVars
<1>6. CASE UNCHANGED vars
  BY <1>6 DEF vars, TypeOK, callVars, motorVars, latchVars, taskVars
<1> QED
  BY <1>1, <1>2, <1>3, <1>4, <1>5, <1>6 DEF Next

\* The variables of launcher.cpp and its surroundings keep their types, in
\* particular the carriage stays within its travel and the saved previous
\* state is one that may be claimed again.
THEOREM TypeCorrect == Spec => []TypeOK
  BY TypeInit, TypeStep, PTL DEF Spec
----------------------------------------------------------------------------
(* One owner.  SingleOwner is inductive: its last conjunct makes a claim   *)
(* possible only without an owner, and the owner then changes only by      *)
(* steps of the owner itself.                                              *)

\* Steps that leave the owner alone.
LEMMA OwnerKept ==
    ASSUME SingleOwner, UNCHANGED <<preparationState, notified, taskPc, callPc>>
    PROVE  SingleOwner'
  BY DEF SingleOwner, Claimed, TaskRuns

\* A caller that has not claimed moves between positions without a claim.
LEMMA OwnerCallMoves ==
    ASSUME TypeOK, SingleOwner, NEW c \in Callers, ~Claimed(c),
           NEW pc \in {"ready", "claimIdle", "claimError", "arm"}, Goto(c, pc),
           UNCHANGED <<preparationState, notified, taskPc>>
    PROVE  SingleOwner'
<1>1. callPc' = [callPc EXCEPT ![c] = pc] /\ pc \notin Claiming
  BY DEF Goto, Claiming
<1>2. \A d \in Callers : Claimed(d)' <=> Claimed(d)
  BY <1>1 DEF TypeOK, Claimed
<1> QED
  BY <1>2 DEF SingleOwner, TaskRuns

LEMMA OwnerClaim ==
    ASSUME TypeOK, SingleOwner, NEW c \in Callers, ~Claimed(c), NEW s \in Free,
           NEW otherwise \in {"ready", "claimError"}, Claim(c, s, otherwise)
    PROVE  SingleOwner'
<1>1. CASE preparationState = s
  <2>1. ~notified /\ ~TaskRuns /\ \A d \in Callers : ~Claimed(d)
    BY <1>1 DEF SingleOwner
  <2>2. \A d \in Callers : Claimed(d)' <=> d = c
    BY <1>1, <2>1 DEF Claim, Goto, Claimed, Claiming, TypeOK
  <2> QED
    BY <1>1, <2>1, <2>2 DEF SingleOwner, Claim, TaskRuns, Free, taskVars
<1>2. CASE preparationState # s
  BY <1>2, OwnerCallMoves DEF Claim, taskVars
<1> QED
  BY <1>1, <1>2

\* The owner moves on, hands over, or gives the state back.
LEMMA OwnerCaller ==
    ASSUME TypeOK, SingleOwner, NEW c \in Callers, Claimed(c), CallStep(c)
    PROVE  SingleOwner'
<1>1. \A d \in Callers : Claimed(d) <=> d = c
  BY DEF SingleOwner
<1>2. ~notified /\ ~TaskRuns /\ preparationState \notin Free
  BY <1>1 DEF SingleOwner
<1>3. callPc \in [Callers -> {"ready", "claimIdle", "claimError", "arm"} \cup Claiming]
  BY DEF TypeOK
<1>4. CASE CloseLatch(c)
  <2>1. \A d \in Callers : Claimed(d)' <=> d = c
    BY <1>1, <1>3, <1>4 DEF CloseLatch, Goto, Claimed, Claiming
  <2> QED
    BY <1>2, <1>4, <2>1 DEF CloseLatch, SingleOwner, TaskRuns, taskVars
<1>5. CASE CheckSwitch(c)
  <2>1. CASE SwitchPressed
    <3>1. \A d \in Callers : ~Claimed(d)'
      BY <1>1, <1>3, <1>5, <2>1 DEF CheckSwitch, Goto, Claimed, Claiming
    <3> QED
      BY <1>2, <1>5, <3>1 DEF CheckSwitch, SingleOwner, TaskRuns, taskVars
  <2>2. CASE ~SwitchPressed
    <3>1. \A d \in Callers : Claimed(d)' <=> d = c
      BY <1>1, <1>3, <1>5, <2>2 DEF CheckSwitch, Goto, Claimed, Claiming
    <3> QED
      BY <1>2, <1>5, <2>2, <3>1 DEF CheckSwitch, SingleOwner, TaskRuns, taskVars
  <2> QED
    BY <2>1, <2>2
<1>6. CASE PublishDown(c)
  <2>1. \A d \in Callers : Claimed(d)' <=> d = c
    BY <1>1, <1>3, <1>6 DEF PublishDown, Goto, Claimed, Claiming
  <2> QED
    BY <1>2, <1>6, <2>1 DEF PublishDown, SingleOwner, TaskRuns, taskVars
<1>7. CASE Notify(c)
  <2>1. \A d \in Callers : ~Claimed(d)'
    BY <1>1, <1>3, <1>7 DEF Notify, Goto, Claimed, Claiming
  <2> QED
    BY <1>2, <1>7, <2>1 DEF Notify, SingleOwner, TaskRuns, taskVars
<1>8. ~ClaimIdle(c) /\ ~ClaimError(c) /\ ~LaunchArm(c)
  BY DEF Claimed, Claiming, ClaimIdle, ClaimError, LaunchArm
<1> QED
  BY <1>4, <1>5, <1>6, <1>7, <1>8 DEF CallStep

LEMMA OwnerCall ==
    ASSUME TypeOK, SingleOwner, NEW c \in Callers, CallStep(c) \/ NewCall(c)
    PROVE  SingleOwner'
<1> USE DEF taskVars, callVars
<1>1. CASE Claimed(c)
  <2>1. ~RequestPrepare(c) /\ ~LaunchOpen(c)
    BY <1>1 DEF Claimed, Claiming, RequestPrepare, LaunchOpen
  <2>2. CASE CallStep(c)
    BY <1>1, <2>2, OwnerCaller
  <2>3. CASE \E angle \in {"open", "closed"} : ServoWrite(c, angle)
    BY <2>3, OwnerKept DEF ServoWrite
  <2>4. CASE \E dir \in {"up", "down", "stop"} : MotorWrite(c, dir)
    BY <2>4, OwnerKept DEF MotorWrite
  <2> QED
    BY <2>1, <2>2, <2>3, <2>4 DEF NewCall
<1>2. CASE ~Claimed(c)
  <2>1. CASE RequestPrepare(c)
    BY <1>2, <2>1, OwnerCallMoves DEF RequestPrepare
  <2>2. CASE LaunchOpen(c)
    BY <1>2, <2>2, OwnerCallMoves DEF LaunchOpen
  <2>3. CASE \E angle \in {"open", "closed"} : ServoWrite(c, angle)
    BY <2>3, OwnerKept DEF ServoWrite
  <2>4. CASE \E dir \in {"up", "down", "stop"} : MotorWrite(c, dir)
    BY <2>4, OwnerKept DEF MotorWrite
  <2>5. CASE ClaimIdle(c) \/ ClaimError(c)
    BY <1>2, <2>5, OwnerClaim DEF ClaimIdle, ClaimError, Free
  <2>6. CASE LaunchArm(c)
    BY <1>2, <2>6, OwnerCallMoves DEF LaunchArm
  <2>7. ~CloseLatch(c) /\ ~CheckSwitch(c) /\ ~PublishDown(c) /\ ~Notify(c)
    BY <1>2 DEF Claimed, Claiming, CloseLatch, CheckSwitch, PublishDown, Notify
  <2> QED
    BY <2>1, <2>2, <2>3, <2>4, <2>5, <2>6, <2>7 DEF NewCall, CallStep
<1> QED
  BY <1>1, <1>2

\* While the task runs no caller has claimed; a step of the run keeps the
\* ownership or ends the run.
LEMMA OwnerTask ==
    ASSUME TypeOK, SingleOwner, TaskStep
    PROVE  SingleOwner'
<1> USE DEF callVars, Store
<1>1. callPc' = callPc
  BY DEF TaskStep, StartRun, PollSwitch, BottomReached, DownTimeout, StopTimeout, StoreSlow,
         PublishSlow, MoveRefused, StartMove, SlowStalled, StoreFast, PublishFast, SpeedUp,
         Complete, PublishIdle, PublishError, DropRequests, Abort, Publish
<1>2. \A d \in Callers : Claimed(d)' <=> Claimed(d)
  BY <1>1 DEF Claimed
<1>3. TaskRuns => ~notified /\ preparationState \notin Free /\ \A d \in Callers : ~Claimed(d)
  BY DEF SingleOwner
<1>4. CASE StartRun
  BY <1>2, <1>4 DEF StartRun, SingleOwner, TaskRuns, RunPcs
<1>5. CASE PollSwitch
  BY <1>5, OwnerKept DEF PollSwitch
<1>6. CASE BottomReached \/ StartMove \/ SpeedUp
  BY <1>2, <1>3, <1>6 DEF BottomReached, StartMove, SpeedUp, SingleOwner, TaskRuns, RunPcs
<1>7. CASE DownTimeout \/ StopTimeout \/ MoveRefused \/ SlowStalled
  BY <1>2, <1>3, <1>7 DEF DownTimeout, StopTimeout, MoveRefused, SlowStalled, Abort, SingleOwner,
                          TaskRuns, RunPcs
<1>8. CASE StoreSlow \/ StoreFast
  BY <1>2, <1>3, <1>8 DEF StoreSlow, StoreFast, SingleOwner, TaskRuns, RunPcs, Free
<1>9. CASE Complete
  BY <1>2, <1>3, <1>9 DEF Complete, SingleOwner, TaskRuns, RunPcs
<1>10. CASE PublishSlow \/ PublishFast \/ PublishIdle \/ PublishError
  BY <1>2, <1>3, <1>10 DEF PublishSlow, PublishFast, PublishIdle, PublishError, Publish,
                           SingleOwner, TaskRuns, RunPcs
<1>11. CASE DropRequests
  BY <1>2, <1>3, <1>11 DEF DropRequests, SingleOwner, TaskRuns, RunPcs
<1> QED
  BY <1>4, <1>5, <1>6, <1>7, <1>8, <1>9, <1>10, <1>11 DEF TaskStep

LEMMA OwnerStep == TypeOK /\ SingleOwner /\ [Next]_vars => SingleOwner'
<1> SUFFICES ASSUME TypeOK, SingleOwner, [Next]_vars PROVE SingleOwner'
  OBVIOUS
<1> USE DEF callVars, taskVars
<1>1. CASE \E c \in Callers : CallStep(c) \/ NewCall(c)
  BY <1>1, OwnerCall
<1>2. CASE TaskStep
  BY <1>2, OwnerTask
<1>3. CASE MotorStep \/ AutoLock \/ DispenserFinished \/ UNCHANGED vars
  BY <1>3, OwnerKept DEF MotorStep, AutoLock, DispenserFinished, vars
<1> QED
  BY <1>1, <1>2, <1>3 DEF Next

\* At most one preparation is claimed, on its way to the task or running, and
\* none when the state invites a new one: launcher_prepare() is a mutual
\* exclusion for any number of callers, although the state is stored without
\* a check everywhere else.
THEOREM OneOwner == Spec => []SingleOwner
<1>1. Init => SingleOwner
  BY DEF Init, SingleOwner, Claimed, Claiming, TaskRuns, RunPcs
<1> QED
  BY <1>1, TypeCorrect, OwnerStep, PTL DEF Spec
----------------------------------------------------------------------------
(* Publication.  The characteristic lags behind only while the task still  *)
(* has the final state of a run to publish; a claim then remembers the     *)
(* state that will be published.                                           *)

\* The state the characteristic holds, or is about to get from the task.
Settled == IF taskPc = "publishIdle" THEN "IDLE"
           ELSE IF taskPc = "publishError" THEN "ERROR" ELSE published

PublishInv ==
    /\ preparationState \in Free => preparationState = Settled
    /\ \A c \in Callers : callPc[c] \in {"close", "switch"} => previous[c] = Settled

LEMMA PublishKept ==
    ASSUME PublishInv, UNCHANGED <<preparationState, published, taskPc, callPc, previous>>
    PROVE  PublishInv'
  BY DEF PublishInv, Settled

\* Moves of a caller that enter neither "close" nor "switch" from elsewhere.
LEMMA PublishCallMoves ==
    ASSUME TypeOK, PublishInv, NEW c \in Callers, NEW pc, Goto(c, pc),
           pc \in {"close", "switch"} => callPc[c] \in {"close", "switch"},
           UNCHANGED <<preparationState, published, taskPc, previous>>
    PROVE  PublishInv'
<1>1. callPc' = [callPc EXCEPT ![c] = pc] /\ Settled' = Settled
  BY DEF Goto, Settled
<1>2. \A d \in Callers : callPc'[d] \in {"close", "switch"} => callPc[d] \in {"close", "switch"}
  BY <1>1 DEF TypeOK
<1> QED
  BY <1>1, <1>2 DEF PublishInv

LEMMA PublishClaim ==
    ASSUME TypeOK, PublishInv, NEW c \in Callers, NEW s \in Free,
           NEW otherwise \in {"ready", "claimError"}, Claim(c, s, otherwise)
    PROVE  PublishInv'
<1>1. CASE preparationState = s
  <2>1. Settled' = Settled /\ s = Settled
    BY <1>1 DEF Claim, Settled, taskVars, PublishInv
  <2>2. /\ preparationState' = "MOVE_DOWN"
        /\ previous' = [previous EXCEPT ![c] = s]
        /\ callPc' = [callPc EXCEPT ![c] = "close"]
    BY <1>1 DEF Claim, Goto
  <2>3. \A d \in Callers : callPc'[d] \in {"close", "switch"} => previous'[d] = Settled
    BY <2>1, <2>2 DEF PublishInv, TypeOK
  <2> QED
    BY <2>1, <2>2, <2>3 DEF PublishInv, Free
<1>2. CASE preparationState # s
  BY <1>2, PublishCallMoves DEF Claim, taskVars
<1> QED
  BY <1>1, <1>2

LEMMA PublishCall ==
    ASSUME TypeOK, SingleOwner, PublishInv, NEW c \in Callers, CallStep(c) \/ NewCall(c)
    PROVE  PublishInv'
<1> USE DEF taskVars, callVars
<1>1. CASE RequestPrepare(c)
  BY <1>1, PublishCallMoves DEF RequestPrepare
<1>2. CASE LaunchOpen(c)
  BY <1>2, PublishCallMoves DEF LaunchOpen
<1>3. CASE \E angle \in {"open", "closed"} : ServoWrite(c, angle)
  BY <1>3, PublishKept DEF ServoWrite
<1>4. CASE \E dir \in {"up", "down", "stop"} : MotorWrite(c, dir)
  BY <1>4, PublishKept DEF MotorWrite
<1>5. CASE ClaimIdle(c) \/ ClaimError(c)
  BY <1>5, PublishClaim DEF ClaimIdle, ClaimError, Free
<1>6. CASE CloseLatch(c)
  BY <1>6, PublishCallMoves DEF CloseLatch
<1>7. CASE CheckSwitch(c)
  <2>1. CASE SwitchPressed
    <3>1. previous[c] = Settled /\ Settled' = Settled /\ preparationState' = previous[c]
      BY <1>7, <2>1 DEF CheckSwitch, PublishInv, Settled
    <3>2. callPc' = [callPc EXCEPT ![c] = "ready"] /\ previous' = previous
      BY <1>7, <2>1 DEF CheckSwitch, Goto
    <3> QED
      BY <3>1, <3>2 DEF PublishInv, TypeOK
  <2>2. CASE ~SwitchPressed
    BY <1>7, <2>2, PublishCallMoves DEF CheckSwitch
  <2> QED
    BY <2>1, <2>2
<1>8. CASE PublishDown(c)
  <2>1. preparationState \notin Free /\ \A d \in Callers : Claimed(d) => d = c
    BY <1>8 DEF PublishDown, SingleOwner, Claimed, Claiming
  <2>2. callPc' = [callPc EXCEPT ![c] = "notify"] /\ preparationState' = preparationState
    BY <1>8 DEF PublishDown, Goto
  <2>3. \A d \in Callers : callPc'[d] \notin {"close", "switch"}
    BY <2>1, <2>2 DEF TypeOK, Claimed, Claiming
  <2> QED
    BY <2>1, <2>2, <2>3 DEF PublishInv
<1>9. CASE Notify(c)
  BY <1>9, PublishCallMoves DEF Notify
<1>10. CASE LaunchArm(c)
  BY <1>10, PublishCallMoves DEF LaunchArm
<1> QED
  BY <1>1, <1>2, <1>3, <1>4, <1>5, <1>6, <1>7, <1>8, <1>9, <1>10 DEF CallStep, NewCall

\* During a run the state is not free and nobody is between claim and publication.
LEMMA PublishTask ==
    ASSUME TypeOK, SingleOwner, PublishInv, TaskStep
    PROVE  PublishInv'
<1> USE DEF callVars, Store
<1>1. callPc' = callPc /\ previous' = previous
  BY DEF TaskStep, StartRun, PollSwitch, BottomReached, DownTimeout, StopTimeout, StoreSlow,
         PublishSlow, MoveRefused, StartMove, SlowStalled, StoreFast, PublishFast, SpeedUp,
         Complete, PublishIdle, PublishError, DropRequests, Abort, Publish
<1>2. TaskRuns \/ notified => /\ preparationState \notin Free
                             /\ \A c \in Callers : callPc[c] \notin {"close", "switch"}
  BY DEF SingleOwner, Claimed, Claiming
<1>3. CASE StartRun \/ BottomReached \/ StartMove \/ SpeedUp \/ PublishSlow \/ PublishFast
  BY <1>1, <1>2, <1>3 DEF StartRun, BottomReached, StartMove, SpeedUp, PublishSlow, PublishFast,
                          Publish, PublishInv, TaskRuns, RunPcs
<1>4. CASE PollSwitch
  BY <1>4, PublishKept DEF PollSwitch
<1>5. CASE DownTimeout \/ StopTimeout \/ MoveRefused \/ SlowStalled
  <2>1. TaskRuns
    BY <1>5 DEF DownTimeout, StopTimeout, MoveRefused, SlowStalled, TaskRuns, RunPcs
  <2>2. preparationState' = "ERROR" /\ taskPc' = "publishError"
    BY <1>5 DEF DownTimeout, StopTimeout, MoveRefused, SlowStalled, Abort
  <2> QED
    BY <1>1, <1>2, <2>1, <2>2 DEF PublishInv, Settled
<1>6. CASE StoreSlow \/ StoreFast
  BY <1>1, <1>2, <1>6 DEF StoreSlow, StoreFast, PublishInv, TaskRuns, RunPcs, Free
<1>7. CASE Complete
  BY <1>1, <1>2, <1>7 DEF Complete, PublishInv, TaskRuns, RunPcs, Settled
<1>8. CASE PublishIdle \/ PublishError
  <2>1. Settled' = Settled /\ preparationState' = preparationState
    BY <1>8 DEF PublishIdle, PublishError, Publish, Settled
  <2> QED
    BY <1>1, <2>1 DEF PublishInv
<1>9. CASE DropRequests
  <2>1. Settled' = Settled /\ preparationState' = preparationState
    BY <1>9 DEF DropRequests, Settled
  <2> QED
    BY <1>1, <2>1 DEF PublishInv
<1> QED
  BY <1>3, <1>4, <1>5, <1>6, <1>7, <1>8, <1>9 DEF TaskStep

LEMMA PublishStep == TypeOK /\ SingleOwner /\ PublishInv /\ [Next]_vars => PublishInv'
<1> SUFFICES ASSUME TypeOK, SingleOwner, PublishInv, [Next]_vars PROVE PublishInv'
  OBVIOUS
<1> USE DEF callVars, taskVars
<1>1. CASE \E c \in Callers : CallStep(c) \/ NewCall(c)
  BY <1>1, PublishCall
<1>2. CASE TaskStep
  BY <1>2, PublishTask
<1>3. CASE MotorStep \/ AutoLock \/ DispenserFinished \/ UNCHANGED vars
  BY <1>3, PublishKept DEF MotorStep, AutoLock, DispenserFinished, vars
<1> QED
  BY <1>1, <1>2, <1>3 DEF Next

\* With nothing in progress the characteristic shows the state, although a
\* refused request restores the state without publishing it and may do so
\* while the task is still publishing the end of the previous run.
THEOREM FreeStateIsPublished == Spec => []FreeIsPublished
<1>1. Init => PublishInv
  BY DEF Init, PublishInv, Settled
<1>2. PublishInv => FreeIsPublished
  BY DEF PublishInv, FreeIsPublished, Settled
<1> QED
  BY <1>1, <1>2, TypeCorrect, OneOwner, PublishStep, PTL DEF Spec

----------------------------------------------------------------------------
(* The latch.  From the moment its owner has closed it until the end of    *)
(* the run, an open latch has been opened by somebody else since.          *)

LatchInv ==
    /\ TaskRuns \/ notified => (latch = "open" => opened)
    /\ \A c \in Callers :
          callPc[c] \in {"switch", "publish", "notify"} => (latch = "open" => opened)

LEMMA LatchCall ==
    ASSUME TypeOK, SingleOwner, LatchInv, NEW c \in Callers, CallStep(c) \/ NewCall(c)
    PROVE  LatchInv'
<1> USE DEF taskVars, callVars, latchVars, Goto, LatchInv, TaskRuns
<1>0. callPc \in [Callers -> {"ready", "claimIdle", "claimError", "arm"} \cup Claiming]
  BY DEF TypeOK
<1>1. CASE RequestPrepare(c)
  BY <1>0, <1>1 DEF RequestPrepare
<1>2. CASE LaunchOpen(c)
  BY <1>0, <1>2 DEF LaunchOpen
<1>3. CASE \E angle \in {"open", "closed"} : ServoWrite(c, angle)
  BY <1>3 DEF ServoWrite
<1>4. CASE \E dir \in {"up", "down", "stop"} : MotorWrite(c, dir)
  BY <1>4 DEF MotorWrite
<1>5. CASE ClaimIdle(c) \/ ClaimError(c)
  <2>1. PICK s \in Free, otherwise \in {"ready", "claimError"} : Claim(c, s, otherwise)
    BY <1>5 DEF ClaimIdle, ClaimError, Free
  <2>2. CASE preparationState = s
    <3>1. ~notified /\ ~TaskRuns /\ \A d \in Callers : ~Claimed(d)
      BY <2>2 DEF SingleOwner
    <3>2. \A d \in Callers : callPc'[d] \notin {"switch", "publish", "notify"}
      BY <1>0, <2>1, <2>2, <3>1 DEF Claim, Claimed, Claiming
    <3> QED
      BY <2>1, <3>1, <3>2 DEF Claim
  <2>3. CASE preparationState # s
    BY <1>0, <2>1, <2>3 DEF Claim
  <2> QED
    BY <2>2, <2>3
<1>6. CASE CloseLatch(c)
  BY <1>6 DEF CloseLatch
<1>7. CASE CheckSwitch(c)
  BY <1>0, <1>7 DEF CheckSwitch
<1>8. CASE PublishDown(c)
  BY <1>0, <1>8 DEF PublishDown
<1>9. CASE Notify(c)
  BY <1>0, <1>9 DEF Notify
<1>10. CASE LaunchArm(c)
  BY <1>0, <1>10 DEF LaunchArm
<1> QED
  BY <1>1, <1>2, <1>3, <1>4, <1>5, <1>6, <1>7, <1>8, <1>9, <1>10 DEF CallStep, NewCall

\* The task neither touches the latch nor starts to run without a notification.
LEMMA LatchTask ==
    ASSUME LatchInv, TaskStep
    PROVE  LatchInv'
<1>1. UNCHANGED <<callPc, latch, opened>>
  BY DEF TaskStep, StartRun, PollSwitch, BottomReached, DownTimeout, StopTimeout, StoreSlow,
         PublishSlow, MoveRefused, StartMove, SlowStalled, StoreFast, PublishFast, SpeedUp,
         Complete, PublishIdle, PublishError, DropRequests, Abort, Publish, Store, callVars,
         latchVars
<1>2. TaskRuns' \/ notified' => TaskRuns \/ notified
  BY DEF TaskStep, StartRun, PollSwitch, BottomReached, DownTimeout, StopTimeout, StoreSlow,
         PublishSlow, MoveRefused, StartMove, SlowStalled, StoreFast, PublishFast, SpeedUp,
         Complete, PublishIdle, PublishError, DropRequests, Abort, Publish, Store, TaskRuns,
         RunPcs
<1> QED
  BY <1>1, <1>2 DEF LatchInv

LEMMA LatchStep == TypeOK /\ SingleOwner /\ LatchInv /\ [Next]_vars => LatchInv'
<1> SUFFICES ASSUME TypeOK, SingleOwner, LatchInv, [Next]_vars PROVE LatchInv'
  OBVIOUS
<1>1. CASE \E c \in Callers : CallStep(c) \/ NewCall(c)
  BY <1>1, LatchCall
<1>2. CASE TaskStep
  BY <1>2, LatchTask
<1>3. CASE MotorStep \/ AutoLock \/ DispenserFinished \/ UNCHANGED vars
  BY <1>3 DEF MotorStep, AutoLock, DispenserFinished, vars, callVars, latchVars, taskVars,
              LatchInv, TaskRuns
<1> QED
  BY <1>1, <1>2, <1>3 DEF Next

\* Every run starts with the latch closed by its own claim; only a launch or a
\* servo write since that claim can have it open.
THEOREM RunIsLatched == Spec => []LatchedForRun
<1>1. Init => LatchInv
  BY DEF Init, LatchInv
<1>2. LatchInv => LatchedForRun
  BY DEF LatchInv, LatchedForRun
<1> QED
  BY <1>1, <1>2, TypeCorrect, OneOwner, LatchStep, PTL DEF Spec

----------------------------------------------------------------------------
(* The motor, as long as no client drives it itself.  On the way up it is  *)
(* moving, or at rest because it has arrived.                              *)

MotorInv == ~driven =>
    /\ MotorOwned
    /\ LedOnMeansReady
    /\ taskPc \in {"slow", "publishFast", "fast", "up"} =>
          motor \in {"toTop", "idle"} /\ (motor = "idle" => position = TopPos)
    /\ led = "on" => taskPc \in {"publishIdle", "drop", "wait"}

LEMMA MotorTask ==
    ASSUME TypeOK, MotorInv, TaskStep
    PROVE  MotorInv'
<1> USE DEF MotorInv, MotorOwned, LedOnMeansReady, Store, motorVars
<1>0. motor \in MotorModes
  BY DEF TypeOK
<1>1. CASE StartRun
  BY <1>1 DEF StartRun, SetSpeed
<1>2. CASE PollSwitch
  BY <1>2 DEF PollSwitch
<1>3. CASE BottomReached
  BY <1>3 DEF BottomReached, HardStop
<1>4. CASE DownTimeout \/ StopTimeout \/ MoveRefused \/ SlowStalled
  <2>1. motor' = Braked(motor) /\ led' = "flash_fast" /\ taskPc' = "publishError"
    BY <1>4 DEF DownTimeout, StopTimeout, MoveRefused, SlowStalled, Abort, SetSpeed
  <2>2. Braked(motor) \notin {"down", "toTop", "up"}
    BY <1>0 DEF Braked, MotorModes
  <2> QED
    BY <2>1, <2>2
<1>5. CASE StoreSlow
  BY <1>5 DEF StoreSlow
<1>6. CASE StartMove
  BY <1>6 DEF StartMove
<1>7. CASE StoreFast
  BY <1>7 DEF StoreFast
<1>8. CASE SpeedUp
  BY <1>8 DEF SpeedUp
<1>9. CASE Complete
  BY <1>9 DEF Complete
<1>10. CASE PublishSlow \/ PublishFast \/ PublishIdle \/ PublishError
  BY <1>10 DEF PublishSlow, PublishFast, PublishIdle, PublishError, Publish
<1>11. CASE DropRequests
  BY <1>11 DEF DropRequests
<1> QED
  BY <1>1, <1>2, <1>3, <1>4, <1>5, <1>6, <1>7, <1>8, <1>9, <1>10, <1>11 DEF TaskStep

LEMMA MotorEngine ==
    ASSUME TypeOK, MotorInv, MotorStep
    PROVE  MotorInv'
<1>1. motor # "idle" /\ motor' \in {motor, "idle"} /\ (motor' = motor \/ motor' = "idle")
  BY DEF MotorStep
<1>2. motor = "toTop" /\ motor' = "idle" => position' = TopPos
  BY DEF MotorStep
<1>3. taskPc' = taskPc /\ led' = led /\ driven' = driven
  BY DEF MotorStep, taskVars
<1> QED
  BY <1>1, <1>2, <1>3 DEF MotorInv, MotorOwned, LedOnMeansReady

LEMMA MotorInvStep ==
    ASSUME TypeOK, MotorInv, [Next]_vars
    PROVE  MotorInv'
<1>1. CASE TaskStep
  BY <1>1, MotorTask
<1>2. CASE MotorStep
  BY <1>2, MotorEngine
<1>3. CASE AutoLock \/ DispenserFinished \/ UNCHANGED vars
  BY <1>3 DEF AutoLock, DispenserFinished, vars, motorVars, taskVars, MotorInv, MotorOwned,
              LedOnMeansReady
<1>4. CASE \E c \in Callers : CallStep(c) \/ NewCall(c)
  <2>1. PICK c \in Callers : CallStep(c) \/ NewCall(c)
    BY <1>4
  <2>2. driven' \/ UNCHANGED <<motorVars, taskPc, led>>
    BY <2>1 DEF CallStep, NewCall, ClaimIdle, ClaimError, Claim, CloseLatch, CheckSwitch,
                PublishDown, Notify, LaunchArm, RequestPrepare, LaunchOpen, ServoWrite,
                MotorWrite, motorVars, taskVars
  <2> QED
    BY <2>2 DEF MotorInv, MotorOwned, LedOnMeansReady, motorVars
<1> QED
  BY <1>1, <1>2, <1>3, <1>4 DEF Next

LEMMA MotorInvInit == Init => MotorInv
  BY DEF Init, MotorInv, MotorOwned, LedOnMeansReady

\* As long as no client drives it, the motor only ever runs for the phase that
\* started it: no abort and no end of a run leaves it powered.
THEOREM MotorIsOwned == Spec => []MotorOwned
<1>1. TypeOK /\ MotorInv /\ [Next]_vars => MotorInv'
  BY MotorInvStep
<1>2. MotorInv => MotorOwned
  BY DEF MotorInv, MotorOwned
<1> QED
  BY <1>1, <1>2, MotorInvInit, TypeCorrect, PTL DEF Spec

\* As long as no client drives the motor, LED 1 tells the truth: it is on only with the
\* carriage at rest at the top.
THEOREM LedIsHonest == Spec => []LedOnMeansReady
<1>1. TypeOK /\ MotorInv /\ [Next]_vars => MotorInv'
  BY MotorInvStep
<1>2. MotorInv => LedOnMeansReady
  BY DEF MotorInv, LedOnMeansReady
<1> QED
  BY <1>1, <1>2, MotorInvInit, TypeCorrect, PTL DEF Spec

----------------------------------------------------------------------------
(* Reports.  Each step publishes what PreparationReport allows: a run has  *)
(* reported the phase before the one that it reports next.                 *)

PhaseInv ==
    /\ \A c \in Callers : callPc[c] = "publish" => published \in Free \/ Owed # "none"
    /\ Begun => published \in {"MOVE_DOWN"} \cup Free \/ Owed # "none"
    /\ taskPc \in {"move", "slow", "publishFast"} => published = "MOVE_UP_SLOW"
    /\ taskPc \in {"fast", "up"} => published = "MOVE_UP_FAST"

LEMMA PhaseInit == Init => PhaseInv /\ Report!Init
<1> SUFFICES ASSUME Init PROVE PhaseInv /\ Report!Init
  OBVIOUS
<1>1. Owed = "none" /\ ~Begun
  BY DEF Init, Owed, Begun
<1> QED
  BY <1>1 DEF Init, PhaseInv, Report!Init, Free

\* Before the task runs, and after, nothing of a run is in progress.
LEMMA RunIsAlone ==
    ASSUME SingleOwner, TaskRuns
    PROVE  ~notified /\ \A c \in Callers : callPc[c] \notin Claiming
  BY DEF SingleOwner, Claimed

\* Steps that neither publish nor touch the task or its notification.
LEMMA ReportKept ==
    ASSUME PhaseInv, UNCHANGED <<published, notified, taskPc, callPc>>
    PROVE  PhaseInv' /\ UNCHANGED Report!vars
<1>1. Owed' = Owed /\ Begun' = Begun
  BY DEF Owed, Begun
<1> QED
  BY <1>1 DEF PhaseInv, Report!vars

\* A caller moves to a place where it has published nothing yet.
LEMMA ReportCallMoves ==
    ASSUME TypeOK, PhaseInv, NEW c \in Callers, NEW pc, Goto(c, pc),
           callPc[c] # "notify", pc # "notify",
           pc = "publish" => published \in Free \/ Owed # "none",
           UNCHANGED <<published, notified, taskPc>>
    PROVE  PhaseInv' /\ UNCHANGED Report!vars
<1>1. /\ callPc'[c] = pc
      /\ \A d \in Callers : d # c => callPc'[d] = callPc[d]
  BY DEF Goto, TypeOK
<1>2. Owed' = Owed
  BY DEF Owed
<1>3. Begun' = Begun
  <2>1. (\E d \in Callers : callPc'[d] = "notify") = (\E d \in Callers : callPc[d] = "notify")
    BY <1>1
  <2> QED
    BY <2>1 DEF Begun
<1> QED
  BY <1>1, <1>2, <1>3 DEF PhaseInv, Report!vars

LEMMA ReportCall ==
    ASSUME TypeOK, SingleOwner, PublishInv, PhaseInv, NEW c \in Callers,
           CallStep(c) \/ NewCall(c)
    PROVE  PhaseInv' /\ [Report!Next]_Report!vars
<1> USE DEF taskVars, callVars
<1>1. CASE RequestPrepare(c) \/ LaunchOpen(c) \/ CloseLatch(c) \/ LaunchArm(c)
  BY <1>1, ReportCallMoves DEF RequestPrepare, LaunchOpen, CloseLatch, LaunchArm
<1>2. CASE \E angle \in {"open", "closed"} : ServoWrite(c, angle)
  BY <1>2, ReportKept DEF ServoWrite
<1>3. CASE \E dir \in {"up", "down", "stop"} : MotorWrite(c, dir)
  BY <1>3, ReportKept DEF MotorWrite
<1>4. CASE ClaimIdle(c) \/ ClaimError(c)
  BY <1>4, ReportCallMoves DEF ClaimIdle, ClaimError, Claim
<1>5. CASE CheckSwitch(c)
  <2>1. previous[c] = Settled /\ previous[c] \in Free
    BY <1>5 DEF CheckSwitch, PublishInv, TypeOK
  <2>2. published \in Free \/ Owed # "none"
    BY <2>1 DEF Settled, Owed
  <2> QED
    BY <1>5, <2>2, ReportCallMoves DEF CheckSwitch
<1>6. CASE PublishDown(c)
  <2>1. published \in Free \/ Owed # "none"
    BY <1>6 DEF PublishDown, PhaseInv
  <2>2. ~notified /\ ~TaskRuns /\ \A d \in Callers : Claimed(d) => d = c
    BY <1>6 DEF PublishDown, SingleOwner, Claimed, Claiming
  <2>3. /\ callPc'[c] = "notify" /\ \A d \in Callers : d # c => callPc'[d] = callPc[d]
        /\ published' = "MOVE_DOWN" /\ UNCHANGED <<notified, taskPc>>
    BY <1>6 DEF PublishDown, Goto, TypeOK
  <2>4. Owed' = Owed /\ Begun' = TRUE
    BY <2>3 DEF Owed, Begun
  <2>5. PhaseInv'
    BY <2>2, <2>3 DEF PhaseInv, Claimed, Claiming, TaskRuns, RunPcs
  <2>6. Report!Begin
    BY <2>1, <2>3, <2>4 DEF Report!Begin, Report!Free, Free
  <2> QED
    BY <2>5, <2>6 DEF Report!Next
<1>7. CASE Notify(c)
  <2>1. /\ callPc[c] = "notify" /\ callPc'[c] = "ready"
        /\ \A d \in Callers : d # c => callPc'[d] = callPc[d]
        /\ notified' = TRUE /\ UNCHANGED <<published, taskPc>>
    BY <1>7 DEF Notify, Goto, TypeOK
  <2>2. Owed' = Owed /\ Begun = TRUE /\ Begun' = TRUE
    BY <2>1 DEF Owed, Begun
  <2> QED
    BY <2>1, <2>2 DEF PhaseInv, Report!vars
<1> QED
  BY <1>1, <1>2, <1>3, <1>4, <1>5, <1>6, <1>7 DEF CallStep, NewCall

LEMMA ReportTask ==
    ASSUME TypeOK, SingleOwner, PhaseInv, TaskStep
    PROVE  PhaseInv' /\ [Report!Next]_Report!vars
<1> USE DEF callVars, Store
<1>0. callPc' = callPc
  BY DEF TaskStep, StartRun, PollSwitch, BottomReached, DownTimeout, StopTimeout, StoreSlow,
         PublishSlow, MoveRefused, StartMove, SlowStalled, StoreFast, PublishFast, SpeedUp,
         Complete, PublishIdle, PublishError, DropRequests, Abort, Publish
<1>1. CASE StartRun
  <2>1. /\ notified /\ taskPc = "wait" /\ taskPc' = "down" /\ UNCHANGED published
    BY <1>1 DEF StartRun
  <2>2. Owed' = "none" /\ Owed = "none" /\ Begun = TRUE /\ Begun' = TRUE
    BY <2>1 DEF Owed, Begun
  <2> QED
    BY <1>0, <2>1, <2>2 DEF PhaseInv, Report!vars
<1>2. CASE PollSwitch
  BY <1>2, ReportKept DEF PollSwitch
<1>3. CASE BottomReached \/ StoreSlow
  <2>1. /\ taskPc \in {"down", "stop"} /\ taskPc' \in {"stop", "publishSlow"}
        /\ UNCHANGED <<published, notified>>
    BY <1>3 DEF BottomReached, StoreSlow
  <2>2. Owed' = "none" /\ Owed = "none" /\ Begun = TRUE /\ Begun' = TRUE
    BY <2>1 DEF Owed, Begun
  <2> QED
    BY <1>0, <2>1, <2>2 DEF PhaseInv, Report!vars
<1>4. CASE PublishSlow
  <2>1. /\ taskPc = "publishSlow" /\ taskPc' = "move" /\ published' = "MOVE_UP_SLOW"
        /\ UNCHANGED notified
    BY <1>4 DEF PublishSlow, Publish
  <2>2. ~notified /\ \A c \in Callers : callPc[c] \notin Claiming
    BY <2>1, RunIsAlone DEF TaskRuns, RunPcs
  <2>3. Owed' = Owed /\ Owed = "none" /\ Begun /\ ~Begun'
    BY <1>0, <2>1, <2>2 DEF Owed, Begun, Claiming
  <2>4. Report!MoveUpSlow
    BY <2>1, <2>3 DEF PhaseInv, Report!MoveUpSlow, Report!Free, Free
  <2>5. PhaseInv'
    BY <1>0, <2>1, <2>2, <2>3 DEF PhaseInv, Claiming
  <2> QED
    BY <2>4, <2>5 DEF Report!Next
<1>5. CASE StartMove \/ StoreFast \/ SpeedUp
  <2>1. /\ \/ taskPc \in {"move", "slow"} /\ taskPc' \in {"slow", "publishFast"}
           \/ taskPc = "fast" /\ taskPc' = "up"
        /\ UNCHANGED <<published, notified>>
    BY <1>5 DEF StartMove, StoreFast, SpeedUp, motorVars
  <2>2. Owed' = Owed
    BY <2>1 DEF Owed
  <2>3. Begun' = Begun
    BY <1>0, <2>1 DEF Begun
  <2> QED
    BY <1>0, <2>1, <2>2, <2>3 DEF PhaseInv, Report!vars
<1>6. CASE PublishFast
  <2>1. /\ taskPc = "publishFast" /\ taskPc' = "fast" /\ published' = "MOVE_UP_FAST"
        /\ UNCHANGED notified
    BY <1>6 DEF PublishFast, Publish
  <2>2. ~notified /\ \A c \in Callers : callPc[c] \notin Claiming
    BY <2>1, RunIsAlone DEF TaskRuns, RunPcs
  <2>3. Owed' = Owed /\ Owed = "none" /\ Begun' = Begun /\ ~Begun'
    BY <1>0, <2>1, <2>2 DEF Owed, Begun, Claiming
  <2>4. Report!MoveUpFast
    BY <2>1, <2>3 DEF PhaseInv, Report!MoveUpFast
  <2>5. PhaseInv'
    BY <1>0, <2>1, <2>2, <2>3 DEF PhaseInv, Claiming
  <2> QED
    BY <2>4, <2>5 DEF Report!Next
<1>7. CASE Complete
  <2>1. /\ taskPc = "up" /\ taskPc' = "publishIdle" /\ UNCHANGED <<published, notified>>
    BY <1>7 DEF Complete
  <2>2. Owed' = "IDLE" /\ Owed = "none"
    BY <2>1 DEF Owed
  <2>3. Begun' = Begun
    BY <1>0, <2>1 DEF Begun
  <2>4. Report!Complete
    BY <2>1, <2>2, <2>3 DEF PhaseInv, Report!Complete
  <2>5. PhaseInv'
    BY <1>0, <2>1, <2>2 DEF PhaseInv
  <2> QED
    BY <2>4, <2>5 DEF Report!Next
<1>8. CASE DownTimeout \/ StopTimeout \/ MoveRefused \/ SlowStalled
  <2>1. /\ taskPc \in {"down", "stop", "move", "slow"} /\ taskPc' = "publishError"
        /\ UNCHANGED <<published, notified>>
    BY <1>8 DEF DownTimeout, StopTimeout, MoveRefused, SlowStalled, Abort
  <2>2. ~notified /\ \A c \in Callers : callPc[c] \notin Claiming
    BY <2>1, RunIsAlone DEF TaskRuns, RunPcs
  <2>3. Owed' = "ERROR" /\ Owed = "none" /\ ~Begun'
    BY <1>0, <2>1, <2>2 DEF Owed, Begun, Claiming
  <2>4. Begun \/ published = "MOVE_UP_SLOW"
    BY <2>1 DEF Begun, PhaseInv
  <2>5. Report!Fail
    BY <2>1, <2>3, <2>4 DEF Report!Fail
  <2>6. PhaseInv'
    BY <1>0, <2>1, <2>3 DEF PhaseInv
  <2> QED
    BY <2>5, <2>6 DEF Report!Next
<1>9. CASE PublishIdle \/ PublishError
  <2>1. /\ taskPc \in {"publishIdle", "publishError"} /\ taskPc' = "drop"
        /\ published' = (IF taskPc = "publishIdle" THEN "IDLE" ELSE "ERROR")
        /\ UNCHANGED notified
    BY <1>9 DEF PublishIdle, PublishError, Publish
  <2>2. Owed = published' /\ Owed # "none" /\ Owed' = "none"
    BY <2>1 DEF Owed
  <2>3. Begun' = Begun
    BY <1>0, <2>1 DEF Begun
  <2>4. Report!ReportEnd
    BY <2>2, <2>3 DEF Report!ReportEnd
  <2>5. PhaseInv'
    BY <1>0, <2>1 DEF PhaseInv, Free
  <2> QED
    BY <2>4, <2>5 DEF Report!Next
<1>10. CASE DropRequests
  <2>1. /\ taskPc = "drop" /\ taskPc' = "wait" /\ ~notified' /\ UNCHANGED published
    BY <1>10 DEF DropRequests
  <2>2. Owed' = Owed /\ Begun' = (\E c \in Callers : callPc[c] = "notify")
    BY <1>0, <2>1 DEF Owed, Begun
  <2>3. Begun' => Begun
    BY <2>2 DEF Begun
  <2>4. Report!Forget \/ UNCHANGED Report!vars
    <3>1. CASE Begun'
      <4>1. Begun' = Begun
        BY <2>2, <2>3, <3>1 DEF Begun
      <4> QED
        BY <2>1, <2>2, <4>1 DEF Report!vars
    <3>2. CASE ~Begun'
      <4>1. Begun' = FALSE
        BY <2>2, <3>2
      <4> QED
        BY <2>1, <2>2, <4>1 DEF Report!Forget
    <3> QED
      BY <3>1, <3>2
  <2>5. PhaseInv'
    BY <1>0, <2>1, <2>2, <2>3 DEF PhaseInv
  <2> QED
    BY <2>4, <2>5 DEF Report!Next
<1> QED
  BY <1>1, <1>2, <1>3, <1>4, <1>5, <1>6, <1>7, <1>8, <1>9, <1>10 DEF TaskStep

LEMMA ReportStep ==
    ASSUME TypeOK, SingleOwner, PublishInv, PhaseInv, [Next]_vars
    PROVE  PhaseInv' /\ [Report!Next]_Report!vars
<1> USE DEF callVars, taskVars
<1>1. CASE \E c \in Callers : CallStep(c) \/ NewCall(c)
  BY <1>1, ReportCall
<1>2. CASE TaskStep
  BY <1>2, ReportTask
<1>3. CASE MotorStep \/ AutoLock \/ DispenserFinished \/ UNCHANGED vars
  BY <1>3, ReportKept DEF MotorStep, AutoLock, DispenserFinished, vars
<1> QED
  BY <1>1, <1>2, <1>3 DEF Next

\* What clients are told of preparations is what PreparationReport says, for any number of callers
\* and whatever is done to latch and motor meanwhile: the phases in their order, IDLE at the end
\* of a complete run only, and at most one end that is told late.
THEOREM ReportsFollowRuns == Spec => ReportsInOrder
<1>1. TypeOK /\ SingleOwner /\ PublishInv /\ PhaseInv /\ [Next]_vars =>
        PhaseInv' /\ [Report!Next]_Report!vars
  BY ReportStep
<1>2. Init => PublishInv
  BY DEF Init, PublishInv, Settled
<1> QED
  BY <1>1, <1>2, PhaseInit, TypeCorrect, OneOwner, PublishStep, PTL
  DEF Spec, ReportsInOrder, Report!Spec
============================================================================
