-------------------------- MODULE Dispenser_proofs --------------------------
(***************************************************************************)
(* Proofs about Dispenser, for every length of the timer queue and of the  *)
(* storage queue and every longest duration.                               *)
(***************************************************************************)
EXTENDS Dispenser, SequenceTheorems, TLAPS

----------------------------------------------------------------------------
(* Types                                                                   *)

LEMMA ClampInRange == ASSUME NEW s \in Nat PROVE Clamp(s) \in Durations
  BY DispenserAssumption DEF Clamp, Durations

LEMMA ClampKeeps == ASSUME NEW s \in Durations PROVE Clamp(s) = s
  BY DispenserAssumption DEF Clamp, Durations

LEMMA SavedInRange == ASSUME NEW s \in 0 .. DISPENSER_MAX_DURATION PROVE SavedDuration(s) \in Durations
<1>1. DISPENSER_DEFAULT_DURATION \in Durations
  BY DispenserAssumption DEF Durations
<1>2. s \in Nat
  OBVIOUS
<1> QED
  BY <1>1, <1>2, ClampInRange DEF SavedDuration

Pcs == {"idle", "claim", "move", "led", "timer", "check", "stop"}

LEMMA GoTypes ==
    ASSUME pc \in [Callers -> Pcs], NEW t \in Callers, NEW to \in Pcs, Go(t, to)
    PROVE  pc' \in [Callers -> Pcs]
  BY DEF Go

LEMMA SendTypes ==
    ASSUME timers \in Seq({"start", "stop"}), Len(timers) <= TimerQueueLength, dropped \in BOOLEAN,
           NEW cmd \in {"start", "stop"}, SendTimer(cmd)
    PROVE  /\ timers' \in Seq({"start", "stop"}) /\ Len(timers') <= TimerQueueLength
           /\ dropped' \in BOOLEAN
<1>0. TimerQueueLength \in Nat
  BY DispenserAssumption
<1>1. CASE Len(timers) < TimerQueueLength /\ timers' = Append(timers, cmd) /\ UNCHANGED dropped
  BY <1>0, <1>1
<1>2. CASE dropped' = TRUE /\ UNCHANGED timers
  BY <1>2
<1> QED
  BY <1>1, <1>2 DEF SendTimer

LEMMA SaveTypes ==
    ASSUME storageWriteQueue \in Seq(Durations),
           Len(storageWriteQueue) <= STORAGE_WRITE_QUEUE_LENGTH,
           NEW seconds \in Durations, Save(seconds)
    PROVE  /\ storageWriteQueue' \in Seq(Durations)
           /\ Len(storageWriteQueue') <= STORAGE_WRITE_QUEUE_LENGTH
           /\ saveLost' \in BOOLEAN
<1>0. STORAGE_WRITE_QUEUE_LENGTH \in Nat
  BY DispenserAssumption
<1>1. CASE Len(storageWriteQueue) < STORAGE_WRITE_QUEUE_LENGTH
  <2>1. storageWriteQueue' = Append(storageWriteQueue, seconds) /\ saveLost' = FALSE
    BY <1>1 DEF Save
  <2>2. /\ Append(storageWriteQueue, seconds) \in Seq(Durations)
        /\ Len(Append(storageWriteQueue, seconds)) = Len(storageWriteQueue) + 1
    OBVIOUS
  <2>3. Len(storageWriteQueue) \in Nat
    OBVIOUS
  <2>4. Len(storageWriteQueue) + 1 <= STORAGE_WRITE_QUEUE_LENGTH
    BY <1>0, <1>1, <2>3
  <2> QED
    BY <2>1, <2>2, <2>4
<1>2. CASE ~(Len(storageWriteQueue) < STORAGE_WRITE_QUEUE_LENGTH)
  <2>1. storageWriteQueue' = storageWriteQueue /\ saveLost' = TRUE
    BY <1>2 DEF Save
  <2> QED
    BY <2>1
<1> QED
  BY <1>1, <1>2

LEMMA TailTypes ==
    ASSUME NEW S, NEW q \in Seq(S), NEW n \in Nat, Len(q) <= n, q # <<>>
    PROVE  Tail(q) \in Seq(S) /\ Len(Tail(q)) <= n /\ Head(q) \in S
<1>1. Tail(q) \in Seq(S) /\ Len(Tail(q)) = Len(q) - 1 /\ Head(q) \in S
  BY HeadTailProperties
<1>2. Len(q) \in Nat
  OBVIOUS
<1> QED
  BY <1>1, <1>2

LEMMA LastOne ==
    ASSUME NEW S, NEW q \in Seq(S), q # <<>>, Tail(q) = <<>>
    PROVE  Len(q) = 1 /\ Head(q) = q[Len(q)]
<1>1. Len(Tail(q)) = Len(q) - 1
  BY HeadTailProperties
<1>2. Len(<<>>) = 0
  OBVIOUS
<1>3. Len(Tail(q)) = 0
  BY <1>2, Zenon
<1>4. Len(q) \in Nat
  OBVIOUS
<1>5. Len(q) = 1
  BY <1>1, <1>3, <1>4
<1>6. Head(q) = q[1]
  OBVIOUS
<1> QED
  BY <1>5, <1>6

\* The three parts of the type invariant.
CycleTypes ==
    /\ attached \in BOOLEAN /\ isDispensing \in BOOLEAN /\ led \in BOOLEAN
    /\ age \in {"grace", "moving", "late"} /\ motor \in {"rest", "moving", "slowing", "halting"}
TimerTypes ==
    /\ pc \in [Callers -> Pcs]
    /\ polling \in BOOLEAN /\ timers \in Seq({"start", "stop"})
    /\ Len(timers) <= TimerQueueLength
    /\ timerPc \in {"wait", "stop", "exchange", "led"} /\ dropped \in BOOLEAN
StoreTypes ==
    /\ dispenseDuration \in Durations /\ storageWriteQueue \in Seq(Durations)
    /\ Len(storageWriteQueue) <= STORAGE_WRITE_QUEUE_LENGTH
    /\ stored \in 0 .. DISPENSER_MAX_DURATION
    /\ saveLost \in BOOLEAN
Types == CycleTypes /\ TimerTypes /\ StoreTypes

LEMMA TypesAreTypeOK == Types <=> TypeOK
  BY DEF Types, CycleTypes, TimerTypes, StoreTypes, TypeOK, Pcs

LEMMA RestTypes ==
    ASSUME pc' = [t \in Callers |-> "idle"], polling' = FALSE, timers' = <<>>, timerPc' = "wait",
           dropped' = FALSE
    PROVE  TimerTypes'
<1>1. timers' \in Seq({"start", "stop"}) /\ Len(timers') <= TimerQueueLength
  BY DispenserAssumption
<1>2. pc' \in [Callers -> Pcs]
  BY DEF Pcs
<1> QED
  BY <1>1, <1>2 DEF TimerTypes

LEMMA InitTypes == Init => Types
<1> SUFFICES ASSUME Init PROVE Types
  OBVIOUS
<1>1. CycleTypes
  BY DEF Init, CycleTypes
<1>2. TimerTypes
  <2>1. timers \in Seq({"start", "stop"}) /\ Len(timers) <= TimerQueueLength
    BY DispenserAssumption DEF Init
  <2>2. pc \in [Callers -> Pcs]
    BY DEF Init, Pcs
  <2> QED
    BY <2>1, <2>2 DEF Init, TimerTypes
<1>3. StoreTypes
  <2>1. /\ storageWriteQueue \in Seq(Durations)
        /\ Len(storageWriteQueue) <= STORAGE_WRITE_QUEUE_LENGTH
    BY DispenserAssumption DEF Init
  <2>2. stored \in 0 .. DISPENSER_MAX_DURATION /\ dispenseDuration \in Durations
    BY SavedInRange DEF Init
  <2> QED
    BY <2>1, <2>2 DEF Init, StoreTypes
<1> QED
  BY <1>1, <1>2, <1>3 DEF Types

LEMMA NextTypes == Types /\ [Next]_vars => Types'
<1> SUFFICES ASSUME Types, [Next]_vars PROVE Types'
  OBVIOUS
<1> USE DEF cycleVars, timerVars, storeVars
<1>0. CycleTypes /\ TimerTypes /\ StoreTypes
  BY DEF Types
<1>1. ASSUME NEW t \in Callers, Call(t) PROVE Types'
  <2>1. pc' \in [Callers -> Pcs]
    BY <1>0, <1>1, GoTypes DEF Call, TimerTypes, Pcs
  <2> QED
    BY <1>0, <1>1, <2>1 DEF Call, Types, CycleTypes, TimerTypes, StoreTypes
<1>2. ASSUME NEW t \in Callers, Claim(t) \/ Refuse(t) \/ Move(t) \/ Light(t) PROVE Types'
  <2>1. pc' \in [Callers -> Pcs]
    BY <1>0, <1>2, GoTypes DEF Claim, Refuse, Move, Light, Leave, TimerTypes, Pcs
  <2>2. CycleTypes'
    BY <1>0, <1>2 DEF Claim, Refuse, Move, Light, CycleTypes
  <2>3. TimerTypes'
    BY <1>0, <1>2, <2>1 DEF Claim, Refuse, Move, Light, TimerTypes
  <2> QED
    BY <1>0, <1>2, <2>2, <2>3 DEF Claim, Refuse, Move, Light, Types, StoreTypes
<1>3. ASSUME NEW t \in Callers, StartTimer(t) PROVE Types'
  <2>1. pc' \in [Callers -> Pcs]
    BY <1>0, <1>3, GoTypes DEF StartTimer, Leave, TimerTypes, Pcs
  <2>2. /\ timers' \in Seq({"start", "stop"}) /\ Len(timers') <= TimerQueueLength
        /\ dropped' \in BOOLEAN
    BY <1>0, <1>3, SendTypes DEF StartTimer, TimerTypes
  <2> QED
    BY <1>0, <1>3, <2>1, <2>2 DEF StartTimer, Types, CycleTypes, TimerTypes, StoreTypes
<1>4. CASE HostStop
  <2>1. pc' \in [Callers -> Pcs]
    BY <1>0, <1>4, GoTypes DEF HostStop, CheckStop, StopMove, Leave, TimerTypes, Pcs, Callers
  <2> QED
    BY <1>0, <1>4, <2>1 DEF HostStop, CheckStop, StopMove, Types, CycleTypes, TimerTypes, StoreTypes
<1>5. CASE TimerCommand
  <2>1. timers' \in Seq({"start", "stop"}) /\ Len(timers') <= TimerQueueLength
    BY <1>0, <1>5, TailTypes, DispenserAssumption DEF TimerCommand, TimerTypes
  <2>2. polling' \in BOOLEAN
    BY <1>5 DEF TimerCommand
  <2> QED
    BY <1>0, <1>5, <2>1, <2>2 DEF TimerCommand, Types, CycleTypes, TimerTypes, StoreTypes
<1>6. CASE PollIdle \/ FinishTimer
  <2>1. /\ timers' \in Seq({"start", "stop"}) /\ Len(timers') <= TimerQueueLength
        /\ dropped' \in BOOLEAN
    BY <1>0, <1>6, SendTypes DEF PollIdle, FinishTimer, TimerTypes
  <2> QED
    BY <1>0, <1>6, <2>1 DEF PollIdle, FinishTimer, Types, CycleTypes, TimerTypes, StoreTypes
<1>7. CASE PollDone \/ PollAbort \/ FinishCycle \/ FinishLed
  BY <1>0, <1>7 DEF PollDone, PollAbort, FinishCycle, FinishLed, Types, CycleTypes, TimerTypes, StoreTypes
<1>8. CASE Arrive \/ Age
  BY <1>0, <1>8 DEF Arrive, Age, Ages, Types, CycleTypes, TimerTypes, StoreTypes
<1>9. CASE Restart
  <2>1. TimerTypes'
    BY <1>9, RestTypes DEF Restart
  <2>2. CycleTypes'
    BY <1>9 DEF Restart, CycleTypes
  <2>3. dispenseDuration' \in Durations
    BY <1>0, <1>9, SavedInRange DEF Restart, StoreTypes
  <2>4. /\ storageWriteQueue' \in Seq(Durations)
        /\ Len(storageWriteQueue') <= STORAGE_WRITE_QUEUE_LENGTH
    BY <1>9, DispenserAssumption DEF Restart
  <2> QED
    BY <1>0, <1>9, <2>1, <2>2, <2>3, <2>4 DEF Restart, Types, StoreTypes
<1>10. ASSUME NEW seconds \in 0 .. DISPENSER_MAX_DURATION + 1, SetDuration(seconds) PROVE Types'
  <2>1. Clamp(seconds) \in Durations
    BY ClampInRange
  <2>2. /\ storageWriteQueue' \in Seq(Durations)
        /\ Len(storageWriteQueue') <= STORAGE_WRITE_QUEUE_LENGTH
        /\ saveLost' \in BOOLEAN
    BY <1>0, <1>10, <2>1, SaveTypes DEF SetDuration, StoreTypes
  <2> QED
    BY <1>0, <1>10, <2>1, <2>2 DEF SetDuration, Types, CycleTypes, TimerTypes, StoreTypes
<1>11. CASE Write
  <2>1. /\ storageWriteQueue' \in Seq(Durations) /\ Head(storageWriteQueue) \in Durations
        /\ Len(storageWriteQueue') <= STORAGE_WRITE_QUEUE_LENGTH
    BY <1>0, <1>11, TailTypes, DispenserAssumption DEF Write, StoreTypes
  <2>2. stored' \in 0 .. DISPENSER_MAX_DURATION
    BY <1>0, <1>11, <2>1 DEF Write, StoreTypes, Durations
  <2>3. saveLost' \in BOOLEAN
    BY <1>0, <1>11 DEF Write, StoreTypes
  <2> QED
    BY <1>0, <1>11, <2>1, <2>2, <2>3 DEF Write, Types, CycleTypes, TimerTypes, StoreTypes
<1>12. CASE UNCHANGED vars
  BY <1>0, <1>12 DEF vars, Types, CycleTypes, TimerTypes, StoreTypes
<1> QED
  BY <1>1, <1>2, <1>3, <1>4, <1>5, <1>6, <1>7, <1>8, <1>9, <1>10, <1>11, <1>12
     DEF Next, Caller, TimerTask, Poll, Finish

\* The variables keep their types and the queues their limits.
THEOREM TypeCorrect == Spec => []TypeOK
  BY InitTypes, NextTypes, TypesAreTypeOK, PTL DEF Spec

LEMMA TypesHold == Spec => []Types
  BY InitTypes, NextTypes, PTL DEF Spec

----------------------------------------------------------------------------
(* The cycle                                                               *)

\* The caller that has claimed a cycle and is still starting it.
Works(t) == pc[t] \in {"move", "led", "timer"}
Nobody   == \A t \in Callers : ~Works(t)

\* The timer between two cycles: it stands still, or its stop is on the way.
Settled == (timers = <<>> /\ ~polling) \/ (timers = <<"stop">> /\ polling)

\* The timer of a cycle: it runs, or its start is on the way, behind the stop of the last cycle.
Runs == \/ timers = <<>> /\ polling
        \/ timers = <<"start">> /\ ~polling
        \/ timers = <<"stop", "start">> /\ polling

\* The queues of one or two commands.
LEMMA ShortQueues ==
    /\ Append(<<>>, "start") = <<"start">> /\ Append(<<"stop">>, "start") = <<"stop", "start">>
    /\ Head(<<"stop">>) = "stop" /\ Tail(<<"stop">>) = <<>>
    /\ Head(<<"start">>) = "start" /\ Tail(<<"start">>) = <<>>
    /\ Head(<<"stop", "start">>) = "stop" /\ Tail(<<"stop", "start">>) = <<"start">>
    /\ "start" # "stop"
<1>1. Append(<<>>, "start") = <<"start">>
  OBVIOUS
<1>0. Append(<<"stop">>, "start") = <<"stop", "start">>
  <2> DEFINE S == {"stop", "start"}
             s == Append(<<"stop">>, "start")
             t == <<"stop", "start">>
  <2>1. s \in Seq(S) /\ t \in Seq(S)
    OBVIOUS
  <2>2. Len(s) = 2 /\ Len(t) = 2
    OBVIOUS
  <2>3. s[1] = t[1] /\ s[2] = t[2]
    OBVIOUS
  <2>4. \A i \in 1 .. 2 : i = 1 \/ i = 2
    OBVIOUS
  <2> HIDE DEF s, t, S
  <2>5. \A i \in 1 .. Len(s) : s[i] = t[i]
    BY <2>2, <2>3, <2>4
  <2>6. Len(s) = Len(t)
    BY <2>2
  <2>7. s = t
    BY <2>1, <2>5, <2>6, SeqEqual
  <2> QED
    BY <2>7 DEF s, t
<1>2. /\ Head(<<"stop">>) = "stop" /\ Tail(<<"stop">>) = <<>>
      /\ Head(<<"start">>) = "start" /\ Tail(<<"start">>) = <<>>
  OBVIOUS
<1>3. Head(<<"stop", "start">>) = "stop" /\ Tail(<<"stop", "start">>) = <<"start">>
  OBVIOUS
<1> QED
  BY <1>0, <1>1, <1>2, <1>3

\* One caller at a time starts a cycle, without a move under way and on a timer that is settled;
\* from then on the timer runs, and the cycle ends only after the timer task has seen the motor at
\* rest or stopped it by force.
CycleInv ==
    /\ \A t, u \in Callers : Works(t) /\ Works(u) => t = u
    /\ \A t \in Callers : Works(t) => isDispensing
    /\ \A t \in Callers : pc[t] = "move" => Stopped
    /\ ~Stopped => isDispensing
    /\ timerPc \in {"stop", "exchange"} => isDispensing /\ Nobody /\ Stopped
    /\ timerPc = "stop" => timers = <<>> /\ polling
    /\ IF isDispensing /\ Nobody /\ timerPc # "exchange" THEN Runs ELSE Settled

\* As long as no command to the timer is lost.
SafeInv == ~dropped => CycleInv

LEMMA InitSafe == Init => SafeInv
  BY DEF Init, SafeInv, CycleInv, Stopped, Works, Nobody, Settled

\* A step of one caller leaves the other where it is.
LEMMA GoEffect ==
    ASSUME TimerTypes, NEW t \in Callers, NEW to \in Pcs, Go(t, to)
    PROVE  pc'[t] = to /\ \A u \in Callers : u # t => pc'[u] = pc[u]
  BY DEF Go, TimerTypes

\* A step of a caller that neither claims nor works before or after it.
LEMMA IdleStep ==
    ASSUME TimerTypes, CycleInv, NEW t \in Callers, NEW to \in Pcs, Go(t, to),
           ~Works(t), to \notin {"move", "led", "timer"},
           motor' = motor \/ (~Stopped /\ ~Stopped'),
           UNCHANGED <<isDispensing, timers, polling, timerPc>>
    PROVE  CycleInv'
<1>1. pc'[t] = to /\ \A u \in Callers : u # t => pc'[u] = pc[u]
  BY GoEffect
<1>2. \A u \in Callers : Works(u)' <=> Works(u)
  BY <1>1 DEF Works
<1>3. \A u \in Callers : pc'[u] = "move" => pc[u] = "move"
  BY <1>1
<1> QED
  BY <1>2, <1>3 DEF CycleInv, Stopped, Nobody, Settled, Runs

LEMMA CallerStep ==
    ASSUME Types, CycleInv, NEW t \in Callers, Caller(t), ~dropped'
    PROVE  CycleInv'
<1> USE DEF cycleVars, timerVars, storeVars
<1>0. TimerTypes /\ isDispensing \in BOOLEAN
  BY DEF Types, CycleTypes
<1>1. CASE Claim(t)
  <2>1. Go(t, "move") /\ isDispensing' = TRUE /\ ~isDispensing /\ pc[t] = "claim"
    BY <1>1 DEF Claim
  <2>2. pc'[t] = "move" /\ \A u \in Callers : u # t => pc'[u] = pc[u]
    BY <1>0, <2>1, GoEffect DEF Pcs
  <2>3. Nobody /\ Stopped /\ Settled /\ timerPc \notin {"stop", "exchange"}
    BY <2>1 DEF CycleInv, Stopped, Nobody
  <2>4. \A u \in Callers : Works(u)' <=> u = t
    BY <2>2, <2>3 DEF Works, Nobody
  <2>5. UNCHANGED <<motor, timers, polling, timerPc>>
    BY <1>1 DEF Claim
  <2> QED
    BY <2>1, <2>3, <2>4, <2>5 DEF CycleInv, Stopped, Nobody, Settled
<1>2. CASE Refuse(t)
  BY <1>0, <1>2, IdleStep DEF Refuse, Leave, Works, Pcs
<1>3. CASE Move(t)
  <2>1. /\ Works(t) /\ isDispensing /\ Stopped /\ UNCHANGED <<timers, polling, timerPc>>
        /\ timerPc \notin {"stop", "exchange"} /\ Settled
    BY <1>3 DEF Move, CycleInv, Stopped, Works, Nobody
  <2>2. \A u \in Callers : Works(u) => u = t
    BY <2>1 DEF CycleInv, Stopped
  <2>3. CASE Go(t, "led") /\ UNCHANGED isDispensing
    <3>1. pc'[t] = "led" /\ \A u \in Callers : u # t => pc'[u] = pc[u]
      BY <1>0, <2>3, GoEffect DEF Pcs
    <3>2. \A u \in Callers : Works(u)' <=> u = t
      BY <2>2, <3>1 DEF Works
    <3>3. \A u \in Callers : pc'[u] # "move"
      BY <2>2, <3>1 DEF Works
    <3> QED
      BY <2>1, <2>3, <3>2, <3>3 DEF CycleInv, Stopped, Nobody, Settled
  <2>4. CASE isDispensing' = FALSE /\ Leave(t) /\ UNCHANGED motor
    <3>1. pc'[t] = "idle" /\ \A u \in Callers : u # t => pc'[u] = pc[u]
      BY <1>0, <2>4, GoEffect DEF Leave, Pcs
    <3>2. \A u \in Callers : ~Works(u)'
      BY <2>2, <3>1 DEF Works
    <3>3. \A u \in Callers : pc'[u] # "move"
      BY <3>2 DEF Works
    <3> QED
      BY <2>1, <2>4, <3>2, <3>3 DEF CycleInv, Stopped, Nobody, Settled
  <2> QED
    BY <1>3, <2>3, <2>4 DEF Move
<1>4. CASE Light(t)
  <2>1. Works(t) /\ isDispensing /\ UNCHANGED <<isDispensing, motor, timers, polling, timerPc>>
    BY <1>4 DEF Light, CycleInv, Stopped, Works
  <2>2. pc'[t] = "timer" /\ \A u \in Callers : u # t => pc'[u] = pc[u]
    BY <1>0, <1>4, GoEffect DEF Light, Pcs
  <2>3. \A u \in Callers : Works(u)' <=> Works(u)
    BY <2>1, <2>2 DEF Works
  <2>4. \A u \in Callers : pc'[u] = "move" => pc[u] = "move"
    BY <2>2
  <2> QED
    BY <2>1, <2>3, <2>4 DEF CycleInv, Stopped, Nobody, Settled, Runs
<1>5. CASE StartTimer(t)
  <2>1. /\ Works(t) /\ isDispensing /\ Settled /\ timerPc \notin {"stop", "exchange"}
        /\ UNCHANGED <<isDispensing, motor, polling, timerPc>>
    BY <1>5 DEF StartTimer, CycleInv, Stopped, Works, Nobody
  <2>2. pc'[t] = "idle" /\ \A u \in Callers : u # t => pc'[u] = pc[u]
    BY <1>0, <1>5, GoEffect DEF StartTimer, Leave, Pcs
  <2>3. \A u \in Callers : ~Works(u)'
    BY <2>1, <2>2 DEF Works, CycleInv, Stopped
  <2>4. timers' = Append(timers, "start")
    BY <1>5 DEF StartTimer, SendTimer
  <2>5. Runs'
    <3>1. CASE timers = <<>> /\ ~polling
      BY <2>1, <2>4, <3>1, ShortQueues DEF Runs
    <3>2. CASE timers = <<"stop">> /\ polling
      BY <2>1, <2>4, <3>2, ShortQueues DEF Runs
    <3> QED
      BY <2>1, <3>1, <3>2 DEF Settled
  <2>6. \A u \in Callers : pc'[u] # "move"
    BY <2>3 DEF Works
  <2> QED
    BY <2>1, <2>3, <2>5, <2>6 DEF CycleInv, Stopped, Nobody
<1> QED
  BY <1>1, <1>2, <1>3, <1>4, <1>5 DEF Caller

LEMMA TimerStep ==
    ASSUME Types, CycleInv, TimerTask, ~dropped'
    PROVE  CycleInv'
<1> USE DEF cycleVars, timerVars, storeVars
<1>0. pc' = pc /\ isDispensing \in BOOLEAN /\ polling \in BOOLEAN
  BY DEF TimerTask, TimerCommand, Poll, Finish, PollIdle, PollDone, PollAbort, FinishTimer,
         FinishCycle, FinishLed, Types, CycleTypes, TimerTypes
<1>1. (Nobody' <=> Nobody) /\ \A t \in Callers : Works(t)' <=> Works(t)
  BY <1>0 DEF Nobody, Works
<1>2. CASE TimerCommand
  <2>1. /\ timerPc = "wait" /\ timers # <<>> /\ polling' = (Head(timers) = "start")
        /\ timers' = Tail(timers) /\ UNCHANGED <<isDispensing, motor, timerPc>>
    BY <1>2 DEF TimerCommand
  <2>2. CASE isDispensing /\ Nobody
    <3>1. Runs
      BY <2>1, <2>2 DEF CycleInv, Stopped
    <3>2. Runs'
      <4>1. CASE timers = <<"start">>
        BY <2>1, <4>1, ShortQueues DEF Runs
      <4>2. CASE timers = <<"stop", "start">>
        BY <2>1, <4>2, ShortQueues DEF Runs
      <4> QED
        BY <2>1, <3>1, <4>1, <4>2 DEF Runs
    <3> QED
      BY <1>0, <1>1, <2>1, <2>2, <3>2 DEF CycleInv, Stopped
  <2>3. CASE ~(isDispensing /\ Nobody)
    <3>1. Settled
      BY <2>3 DEF CycleInv, Stopped
    <3>2. Settled'
      <4>1. timers = <<"stop">>
        BY <2>1, <3>1 DEF Settled
      <4> QED
        BY <2>1, <4>1, ShortQueues DEF Settled
    <3> QED
      BY <1>0, <1>1, <2>1, <2>3, <3>2 DEF CycleInv, Stopped
  <2> QED
    BY <2>2, <2>3
<1>3. CASE PollIdle
  \* Between two cycles the timer is never due.
  <2>1. Settled /\ Due
    BY <1>3 DEF PollIdle, CycleInv, Stopped
  <2>2. FALSE
    BY <2>1 DEF Settled, Due
  <2> QED
    BY <2>2
<1>4. CASE PollDone \/ PollAbort
  <2>1. /\ Due /\ isDispensing /\ Stopped' /\ timerPc' = "stop"
        /\ UNCHANGED <<isDispensing, timers, polling>>
    BY <1>4 DEF PollDone, PollAbort, Stopped
  <2>2. timers = <<>> /\ polling /\ Runs
    BY <2>1 DEF Due, CycleInv, Stopped, Runs, Settled
  <2>3. Nobody
    BY <2>1, <2>2 DEF CycleInv, Stopped, Settled
  <2> QED
    BY <1>0, <1>1, <2>1, <2>2, <2>3 DEF CycleInv, Stopped, Runs
<1>5. CASE FinishTimer
  <2>1. /\ timerPc = "stop" /\ timerPc' = "exchange" /\ UNCHANGED <<isDispensing, motor, polling>>
        /\ timers = <<>> /\ polling /\ isDispensing /\ Nobody /\ Stopped
    BY <1>5 DEF FinishTimer, CycleInv, Stopped
  <2>2. timers' = Append(timers, "stop")
    BY <1>5 DEF FinishTimer, SendTimer
  <2>3. Settled'
    BY <2>1, <2>2 DEF Settled
  <2> QED
    BY <1>0, <1>1, <2>1, <2>3 DEF CycleInv, Stopped
<1>6. CASE FinishCycle
  <2>1. /\ timerPc = "exchange" /\ isDispensing' = FALSE /\ timerPc' \in {"led", "wait"}
        /\ UNCHANGED <<motor, timers, polling>>
    BY <1>6 DEF FinishCycle
  <2> QED
    BY <1>0, <1>1, <2>1 DEF CycleInv, Stopped, Settled, Nobody
<1>7. CASE FinishLed
  BY <1>0, <1>1, <1>7 DEF FinishLed, CycleInv, Stopped, Settled, Runs
<1> QED
  BY <1>2, <1>3, <1>4, <1>5, <1>6, <1>7 DEF TimerTask, Poll, Finish

LEMMA NextSafe == Types /\ SafeInv /\ [Next]_vars => SafeInv'
<1> SUFFICES ASSUME Types, SafeInv, [Next]_vars, ~dropped' PROVE CycleInv'
  BY DEF SafeInv
<1> USE DEF cycleVars, timerVars, storeVars
<1>0. TimerTypes
  BY DEF Types
<1>1. CASE Restart
  BY <1>1 DEF Restart, CycleInv, Stopped, Works, Nobody, Settled
<1>2. ASSUME ~Restart PROVE ~dropped
  BY <1>2 DEF Next, Call, Caller, Claim, Refuse, Move, Light, StartTimer, SendTimer, HostStop,
              CheckStop, StopMove, TimerTask, TimerCommand, Poll, PollIdle, PollDone, PollAbort,
              Finish, FinishTimer, FinishCycle, FinishLed, Arrive, Age, SetDuration, Write, vars
<1>3. CASE ~Restart
  <2>0. CycleInv
    BY <1>2, <1>3 DEF SafeInv
  <2>1. ASSUME NEW t \in Callers, Call(t) PROVE CycleInv'
    <3>1. PICK to \in {"claim", "check"} : Go(t, to)
      BY <2>1 DEF Call
    <3> QED
      BY <1>0, <2>0, <2>1, <3>1, IdleStep DEF Call, Works, Pcs
  <2>2. ASSUME NEW t \in Callers, Caller(t) PROVE CycleInv'
    BY <2>0, <2>2, CallerStep
  <2>3. CASE CheckStop
    <3>1. PICK to \in {"stop", "idle"} : Go("host", to)
      BY <2>3 DEF CheckStop
    <3> QED
      BY <1>0, <2>0, <2>3, <3>1, IdleStep DEF CheckStop, Works, Pcs, Callers
  <2>4. CASE StopMove
    <3>1. motor' = motor \/ (~Stopped /\ ~Stopped')
      BY <2>4 DEF StopMove, Stopped
    <3> QED
      BY <1>0, <2>0, <2>4, <3>1, IdleStep DEF StopMove, Leave, Works, Pcs, Callers
  <2>5. CASE TimerTask
    BY <2>0, <2>5, TimerStep
  <2>6. CASE Arrive
    BY <2>0, <2>6 DEF Arrive, CycleInv, Stopped, Works, Nobody, Settled, Runs
  <2>7. CASE Age \/ Write \/ UNCHANGED vars \/ \E seconds \in 0 .. DISPENSER_MAX_DURATION + 1 : SetDuration(seconds)
    BY <2>0, <2>7 DEF Age, Write, SetDuration, vars, CycleInv, Stopped, Works, Nobody, Settled, Runs
  <2> QED
    BY <1>3, <2>1, <2>2, <2>3, <2>4, <2>5, <2>6, <2>7 DEF Next, HostStop
<1> QED
  BY <1>1, <1>3

LEMMA SafeHolds == Spec => []SafeInv
  BY TypesHold, InitSafe, NextSafe, PTL DEF Spec

\* Whoever starts and stops, and however late the timer runs, no move is under way without a
\* cycle, unless a command to the poll timer was lost; the forced stop of an abort may still be
\* taking effect.
THEOREM MotorStandsStill == Spec => []MotorOnlyInCycle
<1>1. SafeInv => MotorOnlyInCycle
  BY DEF SafeInv, CycleInv, Stopped, MotorOnlyInCycle
<1> QED
  BY <1>1, SafeHolds, PTL

\* The position is never reset, nor a move started, during a move; only the forced stop of an
\* abort may still be taking effect.
THEOREM ResetIsSafe == Spec => PositionResetIsSafe
<1>1. SafeInv => \A t \in Callers : ~dropped /\ Move(t) => Stopped
  BY DEF SafeInv, CycleInv, Stopped, Move
<1> QED
  BY <1>1, SafeHolds, PTL DEF PositionResetIsSafe

----------------------------------------------------------------------------
(* The duration                                                            *)

\* What was set last is what is saved, or the last value the writer still has to save.
DurationInv ==
    ~saveLost => IF storageWriteQueue = <<>> THEN dispenseDuration = SavedDuration(stored)
                 ELSE storageWriteQueue[Len(storageWriteQueue)] = dispenseDuration

LEMMA NextDuration == Types /\ DurationInv /\ [Next]_vars => DurationInv'
<1> SUFFICES ASSUME Types, DurationInv, [Next]_vars PROVE DurationInv'
  OBVIOUS
<1> USE DEF cycleVars, timerVars, storeVars
<1>0. StoreTypes
  BY DEF Types
<1>1. CASE Restart
  BY <1>1 DEF Restart, DurationInv
<1>2. ASSUME NEW seconds \in 0 .. DISPENSER_MAX_DURATION + 1, SetDuration(seconds) PROVE DurationInv'
  <2>1. CASE Len(storageWriteQueue) < STORAGE_WRITE_QUEUE_LENGTH
    <3>1. storageWriteQueue' = Append(storageWriteQueue, Clamp(seconds)) /\ dispenseDuration' = Clamp(seconds)
      BY <1>2, <2>1 DEF SetDuration, Save
    <3>2. storageWriteQueue' # <<>> /\ storageWriteQueue'[Len(storageWriteQueue')] = Clamp(seconds)
      BY <1>0, <3>1 DEF StoreTypes
    <3> QED
      BY <3>1, <3>2 DEF DurationInv
  <2>2. CASE ~(Len(storageWriteQueue) < STORAGE_WRITE_QUEUE_LENGTH)
    <3>1. saveLost'
      BY <1>2, <2>2 DEF SetDuration, Save
    <3> QED
      BY <3>1 DEF DurationInv
  <2> QED
    BY <2>1, <2>2
<1>3. CASE Write
  <2> DEFINE q == storageWriteQueue
  <2>1. q \in Seq(Durations) /\ q # <<>> /\ q' = Tail(q) /\ dispenseDuration' = dispenseDuration
    BY <1>0, <1>3 DEF Write, StoreTypes
  <2>2. Tail(q) \in Seq(Durations) /\ Len(Tail(q)) = Len(q) - 1 /\ Len(q) \in Nat
    BY <2>1, HeadTailProperties
  <2>3. CASE Tail(q) = <<>>
    <3>3. Len(q) = 1 /\ Head(q) = q[Len(q)]
      BY <2>1, <2>3, LastOne
    <3>4. Head(q) = q[Len(q)] /\ Head(q) \in Durations
      BY <2>1, <3>3, HeadTailProperties
    <3>5. ASSUME ~saveLost' PROVE ~saveLost /\ stored' = Head(q)
      <4>1. CASE stored' = Head(q) /\ UNCHANGED saveLost
        BY <3>5, <4>1
      <4>2. CASE saveLost' = (saveLost \/ Len(q) = 1)
        <5>1. saveLost'
          BY <3>3, <4>2, Zenon
        <5> QED
          BY <3>5, <5>1
      <4> QED
        BY <1>3, <4>1, <4>2 DEF Write
    <3>6. ASSUME ~saveLost' PROVE dispenseDuration = Head(q)
      <4>1. ~saveLost
        BY <3>5, <3>6
      <4>2. q[Len(q)] = dispenseDuration
        BY <2>1, <4>1 DEF DurationInv
      <4> QED
        BY <3>4, <4>2
    <3>7. SavedDuration(Head(q)) = Head(q)
      BY <3>4, ClampKeeps DEF SavedDuration, Durations
    <3> QED
      BY <2>1, <2>3, <3>5, <3>6, <3>7 DEF DurationInv
  <2>4. CASE Tail(q) # <<>>
    <3>1. Tail(q)[Len(Tail(q))] = q[Len(q)]
      BY <2>1, <2>4
    <3>2. ~saveLost' => ~saveLost
      BY <1>3 DEF Write
    <3> QED
      BY <2>1, <2>4, <3>1, <3>2 DEF DurationInv
  <2> QED
    BY <2>3, <2>4
<1>4. CASE UNCHANGED storeVars
  BY <1>4 DEF DurationInv
<1>5. ASSUME Next PROVE Restart \/ Write \/ UNCHANGED storeVars
                        \/ \E seconds \in 0 .. DISPENSER_MAX_DURATION + 1 : SetDuration(seconds)
  BY <1>5 DEF Next, Call, Caller, Claim, Refuse, Move, Light, StartTimer, HostStop,
              CheckStop, StopMove, TimerTask, TimerCommand, Poll, PollIdle, PollDone, PollAbort,
              Finish, FinishTimer, FinishCycle, FinishLed, Arrive, Age
<1>6. CASE UNCHANGED vars
  BY <1>6 DEF vars, DurationInv
<1> QED
  BY <1>1, <1>2, <1>3, <1>4, <1>5, <1>6

\* For every length of the queue: once the writer is done, the saved duration is the one that was
\* set last, unless the write was dropped or failed.
THEOREM DurationOutlivesRestarts == Spec => DurationSurvives
<1>1. Init => DurationInv
  BY DEF Init, DurationInv
<1>2. DurationInv => (Restart /\ storageWriteQueue = <<>> /\ ~saveLost => dispenseDuration' = dispenseDuration)
  BY DEF DurationInv, Restart
<1> QED
  BY <1>1, <1>2, TypesHold, NextDuration, PTL DEF Spec, DurationSurvives
=============================================================================
