-------------------------- MODULE FogMachine_proofs --------------------------
(***************************************************************************)
(* Proofs about FogMachine, for every cap of a session (and none), every   *)
(* burst length and measuring delay, any length of the command queue and   *)
(* any number of clients; and that it implements FogSession.               *)
(***************************************************************************)
EXTENDS FogMachine, SequenceTheorems, TLAPS

----------------------------------------------------------------------------
(* The steps of fog_task, told apart                                       *)

\* What a command can do.
CommandSteps == StartSession \/ Answer \/ (sessionActive /\ BeginStopSettle)

LEMMA CommandCases == ASSUME NEW cmd, HandleCommand(cmd) PROVE CommandSteps
  BY DEF HandleCommand, CommandSteps

\* What a tick can do: a measurement without a session, the end of a session, a pause or the next
\* burst, or nothing at all.
Measurement ==
    /\ phase \in {"IDLE", "STOP_SETTLE"} /\ phase' = "IDLE"
    /\ publishedState' \in {"NOT_CONNECTED", "HEATING", "READY"}
    /\ stateChar' \in {stateChar, publishedState'}
    /\ trigger' = (IF phase = "IDLE" THEN trigger ELSE FALSE)
    /\ UNCHANGED <<sessionAge, sessionActive, control>>
SessionEnd ==
    /\ phase \in {"BURST", "MEASURE_WAIT"} /\ phase' \in {"IDLE", "STOP_SETTLE"}
    /\ trigger' = FALSE /\ sessionAge' = 0
    /\ PublishSession(FALSE, FALSE)
    /\ stateChar' \in {stateChar, publishedState'}
    /\ IF phase' = "IDLE" THEN publishedState' \in {"NOT_CONNECTED", "HEATING", "READY"}
                          ELSE publishedState' = publishedState
Alternate ==
    /\ connected /\ ~SessionCapReached
    /\ (phase = "BURST" /\ EndBurst) \/ (phase = "MEASURE_WAIT" /\ NextBurst)
Rest ==
    /\ Keep
    /\ phase = "BURST" => phaseAge < burst
    /\ phase \in {"BURST", "MEASURE_WAIT"} => ~SessionCapReached
    /\ phase # "IDLE"

LEMMA EvaluateEffect ==
    ASSUME NEW on, NEW mv, Evaluate(on, mv)
    PROVE  /\ publishedState' \in {"NOT_CONNECTED", "HEATING", "READY"}
           /\ stateChar' \in {stateChar, publishedState'}
  BY DEF Evaluate, PublishState

LEMMA EnterEffect ==
    ASSUME NEW p \in Phases, Enter(p)
    PROVE  phase' = p /\ phaseAge' = 0 /\ (p = "BURST" => trigger' = TRUE) /\ (p # "BURST" => trigger' = FALSE)
  BY DEF Enter

LEMMA StopEffect ==
    ASSUME phase \in {"BURST", "MEASURE_WAIT"}, BeginStopSettle
    PROVE  SessionEnd /\ phaseAge' = 0
<1>1. Enter("STOP_SETTLE") /\ "STOP_SETTLE" \in Phases
  BY DEF BeginStopSettle, Phases
<1>2. phase' = "STOP_SETTLE" /\ phaseAge' = 0 /\ trigger' = FALSE
  BY <1>1, EnterEffect
<1> QED
  BY <1>2 DEF BeginStopSettle, SessionEnd

LEMMA AbortEffect ==
    ASSUME phase \in {"BURST", "MEASURE_WAIT"}, AbortNotConnected
    PROVE  SessionEnd /\ phaseAge' = 0
<1>1. Enter("IDLE") /\ "IDLE" \in Phases
  BY DEF AbortNotConnected, Phases
<1>2. phase' = "IDLE" /\ phaseAge' = 0 /\ trigger' = FALSE
  BY <1>1, EnterEffect
<1>3. publishedState' = "NOT_CONNECTED" /\ stateChar' \in {stateChar, publishedState'}
  BY DEF AbortNotConnected, PublishState
<1> QED
  BY <1>2, <1>3 DEF AbortNotConnected, SessionEnd

LEMMA CoolEffect == ASSUME phase = "MEASURE_WAIT", CooledDown PROVE SessionEnd /\ phaseAge' = 0
<1>1. Enter("IDLE") /\ "IDLE" \in Phases
  BY DEF CooledDown, Phases
<1>2. phase' = "IDLE" /\ phaseAge' = 0 /\ trigger' = FALSE
  BY <1>1, EnterEffect
<1>3. /\ publishedState' \in {"NOT_CONNECTED", "HEATING", "READY"}
      /\ stateChar' \in {stateChar, publishedState'}
  BY EvaluateEffect DEF CooledDown
<1> QED
  BY <1>2, <1>3 DEF CooledDown, SessionEnd

LEMMA SettleEffect ==
    ASSUME SettleTick
    PROVE  (Measurement /\ phaseAge' = 0) \/ Rest
<1>1. CASE phaseAge >= MeasureDelay
  <2>1. Enter("IDLE") /\ "IDLE" \in Phases
    BY <1>1 DEF SettleTick, Phases
  <2>2. phase' = "IDLE" /\ phaseAge' = 0 /\ trigger' = FALSE
    BY <2>1, EnterEffect
  <2>3. /\ publishedState' \in {"NOT_CONNECTED", "HEATING", "READY"}
        /\ stateChar' \in {stateChar, publishedState'}
    BY <1>1, EvaluateEffect DEF SettleTick, EvaluateIdle
  <2> QED
    BY <1>1, <2>2, <2>3 DEF SettleTick, Measurement
<1>2. CASE ~(phaseAge >= MeasureDelay)
  BY <1>2 DEF SettleTick, Rest
<1> QED
  BY <1>1, <1>2

LEMMA TickCases ==
    ASSUME Tick
    PROVE  \/ Measurement /\ phaseAge' \in {0, phaseAge}
           \/ SessionEnd /\ phaseAge' = 0
           \/ Alternate
           \/ Rest
<1>1. CASE IdleTick
  <2>1. /\ publishedState' \in {"NOT_CONNECTED", "HEATING", "READY"}
        /\ stateChar' \in {stateChar, publishedState'}
    BY <1>1, EvaluateEffect DEF IdleTick, EvaluateIdle
  <2> QED
    BY <1>1, <2>1 DEF IdleTick, Measurement
<1>2. CASE BurstTick
  BY <1>2, StopEffect, AbortEffect DEF BurstTick, SessionTick, Alternate, Rest
<1>3. CASE MeasureTick
  BY <1>3, StopEffect, AbortEffect, CoolEffect DEF MeasureTick, SessionTick, Alternate, Rest
<1>4. CASE SettleTick
  BY <1>4, SettleEffect
<1> QED
  BY <1>1, <1>2, <1>3, <1>4 DEF Tick

\* The other steps of a command and of a tick.
LEMMA StartEffect ==
    ASSUME StartSession
    PROVE  /\ ~sessionActive /\ phase = "IDLE" /\ publishedState = "READY"
           /\ phase' = "BURST" /\ phaseAge' = 0 /\ sessionAge' = 0 /\ trigger' = TRUE
           /\ publishedState' = "FOGGING" /\ sessionActive' = TRUE /\ control' = 1
           /\ stateChar' \in {stateChar, "FOGGING"}
<1>1. phase' = "BURST" /\ phaseAge' = 0 /\ trigger' = TRUE
  BY EnterEffect DEF StartSession, Phases
<1>2. sessionActive' = TRUE /\ control' = 1
  BY DEF StartSession, PublishSession, Bit
<1> QED
  BY <1>1, <1>2 DEF StartSession, StartAccepted, PublishState

LEMMA AlternateEffect ==
    ASSUME Alternate
    PROVE  /\ phaseAge' = 0 /\ UNCHANGED <<sessionAge, publishedState, sessionActive, charVars>>
           /\ \/ phase = "BURST" /\ phase' = "MEASURE_WAIT" /\ trigger' = FALSE
              \/ phase = "MEASURE_WAIT" /\ phase' = "BURST" /\ trigger' = TRUE
<1>1. CASE phase = "BURST" /\ EndBurst
  BY <1>1, EnterEffect DEF EndBurst, Phases
<1>2. CASE phase = "MEASURE_WAIT" /\ NextBurst
  BY <1>2, EnterEffect DEF NextBurst, Phases
<1> QED
  BY <1>1, <1>2 DEF Alternate

LEMMA PublishedFlag ==
    ASSUME control \in 0 .. 2, NEW active \in BOOLEAN, NEW force, PublishSession(active, force)
    PROVE  /\ sessionActive' = active /\ control' \in 0 .. 2
           /\ active # sessionActive => control' = Bit(active)
  BY DEF PublishSession, Bit

\* Neither the host task nor setup() nor the pins touch what fog_task owns.
LEMMA OutsideKeeps ==
    ASSUME HostTask \/ Setup \/ Sense
    PROVE  UNCHANGED <<taskVars, waited>>
  BY DEF HostTask, Setup, Sense, Connect, Disconnect, WriteControl, SendCommand, WriteDuration,
         BleInit, ReadState, WriteState, ReadSession, WriteSession, taskVars

----------------------------------------------------------------------------
(* Types                                                                   *)

LEMMA QueueAfterSend ==
    ASSUME queue \in Seq(Commands), Len(queue) <= QueueLength, NEW cmd \in Commands, Send(cmd)
    PROVE  queue' \in Seq(Commands) /\ Len(queue') <= QueueLength /\ queue' # <<>>
<1>0. QueueLength \in Nat \ {0}
  BY FogAssumption
<1>1. CASE Len(queue) < QueueLength
  <2>1. queue' = Append(queue, cmd)
    BY <1>1 DEF Send
  <2> QED
    BY <1>0, <1>1, <2>1
<1>2. CASE ~(Len(queue) < QueueLength)
  BY <1>0, <1>2 DEF Send
<1> QED
  BY <1>1, <1>2

LEMMA InitTypes == Init => TypeOK
<1>1. /\ BurstDefault \in BurstMin .. BurstMax /\ QueueLength \in Nat /\ 0 <= QueueLength
      /\ MaxClients \in Nat /\ 0 \in 0 .. MaxClients
  BY FogAssumption
<1>2. ASSUME Init PROVE queue \in Seq(Commands) /\ Len(queue) <= QueueLength
  BY <1>1, <1>2 DEF Init
<1>3. ASSUME Init PROVE burst \in BurstMin .. BurstMax /\ clients \in 0 .. MaxClients
  BY <1>1, <1>3 DEF Init
<1>4. ASSUME Init
      PROVE  /\ phase \in Phases /\ phaseAge \in Nat /\ sessionAge \in Nat
             /\ publishedState \in States /\ taskPc \in {"receive", "tick"} /\ heat \in Heats
             /\ sending \in Commands \cup {"none"} /\ control \in 0 .. 2 /\ stateChar \in States
             /\ bootPc \in BootPcs /\ bootValue \in States
  BY <1>4 DEF Init, Phases, States, Commands, Heats, BootPcs
<1>5. ASSUME Init
      PROVE  /\ trigger \in BOOLEAN /\ sessionActive \in BOOLEAN /\ waited \in BOOLEAN
             /\ connected \in BOOLEAN /\ bootSession \in BOOLEAN /\ bootStale \in BOOLEAN
             /\ stopLost \in BOOLEAN
  BY <1>5 DEF Init
<1> QED
  BY <1>2, <1>3, <1>4, <1>5 DEF TypeOK

LEMMA CommandTypes ==
    ASSUME TypeOK, CommandSteps
    PROVE  /\ phase' \in Phases /\ phaseAge' \in Nat /\ sessionAge' \in Nat
           /\ trigger' \in BOOLEAN /\ publishedState' \in States /\ sessionActive' \in BOOLEAN
           /\ control' \in 0 .. 2 /\ stateChar' \in States
<1>1. CASE StartSession
  BY <1>1, StartEffect DEF TypeOK, Phases, States
<1>2. CASE Answer
  <2>1. control' \in 0 .. 2 /\ sessionActive' \in BOOLEAN
    BY <1>2, PublishedFlag DEF TypeOK, Answer
  <2> QED
    BY <1>2, <2>1 DEF TypeOK, Answer
<1>3. CASE BeginStopSettle
  <2>1. control' \in 0 .. 2 /\ sessionActive' \in BOOLEAN
    BY <1>3, PublishedFlag DEF TypeOK, BeginStopSettle
  <2>2. phase' \in Phases /\ phaseAge' \in Nat /\ trigger' \in BOOLEAN
    BY <1>3, EnterEffect DEF BeginStopSettle, Phases
  <2> QED
    BY <1>3, <2>1, <2>2 DEF TypeOK, BeginStopSettle
<1> QED
  BY <1>1, <1>2, <1>3 DEF CommandSteps

LEMMA TickTypes ==
    ASSUME TypeOK, Tick
    PROVE  /\ phase' \in Phases /\ phaseAge' \in Nat /\ sessionAge' \in Nat
           /\ trigger' \in BOOLEAN /\ publishedState' \in States /\ sessionActive' \in BOOLEAN
           /\ control' \in 0 .. 2 /\ stateChar' \in States
<1>1. CASE Measurement /\ phaseAge' \in {0, phaseAge}
  <2>1. trigger' \in BOOLEAN
    BY <1>1 DEF TypeOK, Measurement
  <2> QED
    <3>1. /\ phase' \in Phases /\ phaseAge' \in Nat /\ sessionAge' \in Nat
          /\ publishedState' \in States /\ stateChar' \in States /\ control' \in 0 .. 2
      BY <1>1 DEF TypeOK, Measurement, Phases, States
    <3>2. sessionActive' \in BOOLEAN
      BY <1>1 DEF TypeOK, Measurement
    <3> QED
      BY <2>1, <3>1, <3>2
<1>2. CASE SessionEnd /\ phaseAge' = 0
  <2>1. control' \in 0 .. 2 /\ sessionActive' \in BOOLEAN
    BY <1>2, PublishedFlag DEF TypeOK, SessionEnd
  <2>2. publishedState' \in States
    BY <1>2 DEF TypeOK, SessionEnd, States
  <2> QED
    BY <1>2, <2>1, <2>2 DEF TypeOK, SessionEnd, Phases
<1>3. CASE Alternate
  <2>1. trigger' \in BOOLEAN /\ sessionActive' \in BOOLEAN
    BY <1>3, AlternateEffect DEF TypeOK
  <2> QED
    <3>0. /\ phaseAge' = 0 /\ phase' \in {"BURST", "MEASURE_WAIT"}
          /\ UNCHANGED <<sessionAge, publishedState, stateChar, control>>
      BY <1>3, AlternateEffect DEF charVars
    <3>1. /\ phase' \in Phases /\ phaseAge' \in Nat /\ sessionAge' \in Nat
          /\ publishedState' \in States /\ stateChar' \in States /\ control' \in 0 .. 2
      BY <3>0 DEF TypeOK, Phases
    <3> QED
      BY <2>1, <3>1
<1>4. CASE Rest
  BY <1>4 DEF TypeOK, Rest, Keep, taskVars, charVars
<1> QED
  BY <1>1, <1>2, <1>3, <1>4, TickCases

LEMMA NextTypes == TypeOK /\ [Next]_vars => TypeOK'
<1> SUFFICES ASSUME TypeOK, [Next]_vars PROVE TypeOK'
  OBVIOUS
<1> USE DEF taskVars, charVars, bleVars, bootVars, pinVars
<1>0. QueueLength \in Nat /\ MaxClients \in Nat /\ BurstMin \in Nat /\ BurstMax \in Nat /\ BurstMin <= BurstMax
  BY FogAssumption
<1>1. CASE Receive
  <2>1. HandleCommand(Head(queue)) /\ queue # <<>>
    BY <1>1 DEF Receive
  <2>2. CommandSteps
    BY <2>1, CommandCases
  <2>3. Tail(queue) \in Seq(Commands) /\ Len(Tail(queue)) <= QueueLength
    BY <1>0, <2>1 DEF TypeOK
  <2> QED
    BY <1>1, <2>2, <2>3, CommandTypes DEF Receive, TypeOK
<1>2. CASE Poll
  BY <1>2 DEF Poll, TypeOK
<1>3. CASE Tick
  <2>1. stopLost' \in BOOLEAN
    BY <1>3 DEF Tick
  <2> QED
    BY <1>3, <2>1, TickTypes DEF Tick, TypeOK
<1>4. CASE HostTask
  <2>1. CASE Connect
    BY <1>0, <2>1 DEF Connect, TypeOK
  <2>2. CASE Disconnect
    <3>1. clients' \in 0 .. MaxClients
      BY <1>0, <2>2 DEF Disconnect, TypeOK
    <3>2. CASE clients = 1
      <4>1. stopLost' \in BOOLEAN
        BY <2>2, <3>2 DEF Disconnect, TypeOK
      <4>2. queue' \in Seq(Commands) /\ Len(queue') <= QueueLength
        BY <2>2, <3>2, QueueAfterSend DEF Disconnect, TypeOK, Commands
      <4> QED
        BY <2>2, <3>1, <4>1, <4>2 DEF Disconnect, TypeOK
    <3>3. CASE clients # 1
      BY <2>2, <3>1, <3>3 DEF Disconnect, TypeOK
    <3> QED
      BY <3>2, <3>3
  <2>3. ASSUME NEW value \in 0 .. 2, WriteControl(value) PROVE TypeOK'
    BY <2>3 DEF WriteControl, TypeOK, Commands
  <2>4. CASE SendCommand
    <3>1. queue' \in Seq(Commands) /\ Len(queue') <= QueueLength
      BY <2>4, QueueAfterSend DEF SendCommand, TypeOK
    <3> QED
      BY <2>4, <3>1 DEF SendCommand, TypeOK
  <2>5. ASSUME NEW seconds \in 0 .. BurstMax + 1, WriteDuration(seconds) PROVE TypeOK'
    <3>1. burst' \in BurstMin .. BurstMax
      BY <1>0, <2>5 DEF WriteDuration
    <3> QED
      BY <2>5, <3>1 DEF WriteDuration, TypeOK
  <2> QED
    BY <1>4, <2>1, <2>2, <2>3, <2>4, <2>5 DEF HostTask
<1>5. CASE Setup
  <2>1. CASE BleInit \/ ReadState \/ WriteState \/ ReadSession
    BY <2>1 DEF BleInit, ReadState, WriteState, ReadSession, TypeOK, BootPcs
  <2>2. CASE WriteSession
    BY <2>2 DEF WriteSession, TypeOK, BootPcs, Bit
  <2> QED
    BY <1>5, <2>1, <2>2 DEF Setup
<1>6. CASE Sense
  BY <1>6 DEF Sense, TypeOK
<1>7. CASE Elapse
  BY <1>7 DEF Elapse, TypeOK
<1>8. CASE UNCHANGED vars
  BY <1>8 DEF vars, TypeOK
<1> QED
  BY <1>1, <1>2, <1>3, <1>4, <1>5, <1>6, <1>7, <1>8 DEF Next, FogTask

\* The variables keep their types, and the queue its limit.
THEOREM TypeCorrect == Spec => []TypeOK
  BY InitTypes, NextTypes, PTL DEF Spec

----------------------------------------------------------------------------
(* One story                                                               *)

LEMMA NextOneStory == TypeOK /\ OneStory /\ [Next]_vars => OneStory'
<1> SUFFICES ASSUME TypeOK, OneStory, [Next]_vars PROVE OneStory'
  OBVIOUS
<1>0. sessionActive \in BOOLEAN /\ trigger \in BOOLEAN /\ phase \in Phases
  BY DEF TypeOK
<1>1. CASE Receive
  <2>1. CommandSteps
    BY <1>1, CommandCases DEF Receive
  <2>2. CASE StartSession
    BY <2>2, StartEffect DEF OneStory
  <2>3. CASE Answer
    BY <2>3 DEF OneStory, Answer, PublishSession
  <2>4. CASE sessionActive /\ BeginStopSettle
    <3>1. SessionEnd
      BY <2>4, StopEffect DEF OneStory
    <3> QED
      BY <3>1 DEF OneStory, SessionEnd, PublishSession
  <2> QED
    BY <2>1, <2>2, <2>3, <2>4 DEF CommandSteps
<1>2. CASE Tick
  <2>1. CASE Measurement
    BY <1>0, <2>1 DEF OneStory, Measurement, Phases
  <2>2. CASE SessionEnd
    BY <2>2 DEF OneStory, SessionEnd, PublishSession
  <2>3. CASE Alternate
    BY <2>3, AlternateEffect DEF OneStory
  <2>4. CASE Rest
    BY <2>4 DEF OneStory, Rest, Keep, taskVars
  <2> QED
    BY <1>2, <2>1, <2>2, <2>3, <2>4, TickCases
<1>3. CASE Poll \/ HostTask \/ Setup \/ Sense \/ Elapse \/ UNCHANGED vars
  BY <1>3, OutsideKeeps DEF OneStory, Poll, Elapse, vars, taskVars
<1> QED
  BY <1>1, <1>2, <1>3 DEF Next, FogTask

LEMMA InitOneStory == Init => OneStory
  BY DEF Init, OneStory

LEMMA StoryHolds == Spec => [](TypeOK /\ OneStory)
  BY InitTypes, NextTypes, InitOneStory, NextOneStory, PTL DEF Spec

\* Phase, output, session flag and published state never contradict each other, whatever commands,
\* pins and ticks come in whatever order.
THEOREM StoryIsOne == Spec => []OneStory
  BY StoryHolds, PTL

----------------------------------------------------------------------------
(* The cap                                                                 *)

\* At most one interval passes between two ticks, and a tick leaves a session and a burst only if
\* their time is not yet up: before the next interval they are strictly below their bounds.
SessionInv ==
    /\ sessionActive \/ sessionAge = 0
    /\ MaxSession # 0 => sessionAge <= MaxSession /\ (~waited => sessionAge < MaxSession)
    /\ phase = "BURST" => phaseAge <= BurstMax /\ (~waited => phaseAge < BurstMax)

LEMMA NextSession == TypeOK /\ OneStory /\ SessionInv /\ [Next]_vars => SessionInv'
<1> SUFFICES ASSUME TypeOK, OneStory, SessionInv, [Next]_vars PROVE SessionInv'
  OBVIOUS
<1>0. /\ MaxSession \in Nat /\ BurstMax \in Nat /\ 0 < BurstMax
      /\ phaseAge \in Nat /\ sessionAge \in Nat /\ burst \in Nat /\ burst <= BurstMax
  BY FogAssumption DEF TypeOK
<1>1. CASE Receive
  <2>0. waited' = waited
    BY <1>1 DEF Receive
  <2>1. CommandSteps
    BY <1>1, CommandCases DEF Receive
  <2>2. CASE StartSession
    BY <1>0, <2>0, <2>2, StartEffect DEF SessionInv
  <2>3. CASE Answer
    BY <2>0, <2>3 DEF SessionInv, Answer, PublishSession
  <2>4. CASE sessionActive /\ BeginStopSettle
    <3>1. SessionEnd
      BY <2>4, StopEffect DEF OneStory
    <3> QED
      BY <1>0, <2>0, <3>1 DEF SessionInv, SessionEnd
  <2> QED
    BY <2>1, <2>2, <2>3, <2>4 DEF CommandSteps
<1>2. CASE Tick
  <2>1. CASE Measurement
    BY <1>0, <2>1 DEF OneStory, SessionInv, Measurement
  <2>2. CASE SessionEnd
    BY <1>0, <2>2 DEF SessionInv, SessionEnd
  <2>3. CASE Alternate
    <3>1. /\ phaseAge' = 0 /\ sessionAge' = sessionAge /\ sessionActive' = sessionActive
          /\ phase \in {"BURST", "MEASURE_WAIT"}
      BY <2>3, AlternateEffect
    <3>2. MaxSession # 0 => sessionAge < MaxSession
      BY <1>0, <2>3 DEF Alternate, SessionCapReached
    <3> QED
      BY <1>0, <3>1, <3>2 DEF SessionInv
  <2>4. CASE Rest
    <3>1. UNCHANGED <<phase, phaseAge, sessionAge, sessionActive>>
      BY <2>4 DEF Rest, Keep, taskVars
    <3>2. MaxSession # 0 => sessionAge < MaxSession
      BY <1>0, <2>4 DEF Rest, SessionCapReached, OneStory, SessionInv, TypeOK, Phases
    <3>3. phase = "BURST" => phaseAge < BurstMax
      BY <1>0, <2>4 DEF Rest
    <3> QED
      BY <1>0, <3>1, <3>2, <3>3 DEF SessionInv
  <2> QED
    BY <1>2, <2>1, <2>2, <2>3, <2>4, TickCases
<1>3. CASE Elapse
  <2>1. /\ ~waited /\ waited' = TRUE /\ phase' = phase /\ sessionActive' = sessionActive
        /\ phaseAge' = (IF phase = "IDLE" THEN 0 ELSE phaseAge + 1)
        /\ sessionAge' = (IF sessionActive THEN sessionAge + 1 ELSE 0)
    BY <1>3 DEF Elapse
  <2> QED
    BY <1>0, <2>1 DEF SessionInv
<1>4. CASE Poll \/ HostTask \/ Setup \/ Sense \/ UNCHANGED vars
  BY <1>4, OutsideKeeps DEF SessionInv, Poll, vars, taskVars
<1> QED
  BY <1>1, <1>2, <1>3, <1>4 DEF Next, FogTask

\* No session outlives the cap and no burst the longest duration, however commands, duration
\* writes and the machine fall into it.
THEOREM CapHolds == Spec => []SessionBounded
<1>1. Init => SessionInv
  BY FogAssumption DEF Init, SessionInv
<1>2. SessionInv => SessionBounded
  BY DEF SessionInv, SessionBounded
<1> QED
  BY <1>1, <1>2, StoryHolds, NextSession, PTL DEF Spec

----------------------------------------------------------------------------
(* The failsafe                                                            *)

\* A write callback belongs to a client that is still connected: the host task runs one at a time.
FailsafeInv ==
    /\ clients = 0 => sending = "none"
    /\ FailsafePending

LEMMA TailKeepsLast ==
    ASSUME queue \in Seq(Commands), queue # <<>>, queue' = Tail(queue), queue' # <<>>
    PROVE  queue'[Len(queue')] = queue[Len(queue)]
  OBVIOUS

LEMMA LastOne ==
    ASSUME queue \in Seq(Commands), queue # <<>>, Tail(queue) = <<>>
    PROVE  Len(queue) = 1 /\ Head(queue) = queue[Len(queue)]
<1>1. Len(Tail(queue)) = Len(queue) - 1
  BY HeadTailProperties
<1>0. Len(<<>>) = 0
  OBVIOUS
<1>2. Len(Tail(queue)) = 0
  BY <1>0, Zenon
<1>3. Len(queue) \in Nat
  OBVIOUS
<1>4. Len(queue) = 1
  BY <1>1, <1>2, <1>3
<1>5. Head(queue) = queue[1]
  OBVIOUS
<1> QED
  BY <1>4, <1>5

LEMMA AppendIsLast ==
    ASSUME queue \in Seq(Commands), queue' = Append(queue, "stop")
    PROVE  queue' # <<>> /\ queue'[Len(queue')] = "stop"
  OBVIOUS

LEMMA NextFailsafe == TypeOK /\ OneStory /\ FailsafeInv /\ [Next]_vars => FailsafeInv'
<1> SUFFICES ASSUME TypeOK, OneStory, FailsafeInv, [Next]_vars PROVE FailsafeInv'
  OBVIOUS
<1> USE DEF bleVars
<1>0. queue \in Seq(Commands) /\ clients \in Nat /\ QueueLength \in Nat \ {0}
  BY FogAssumption DEF TypeOK
<1>1. CASE Receive
  <2>1. /\ queue # <<>> /\ queue' = Tail(queue) /\ UNCHANGED <<clients, sending, stopLost>>
        /\ HandleCommand(Head(queue))
    BY <1>1 DEF Receive
  <2>2. CASE queue' # <<>>
    BY <1>0, <2>1, <2>2, TailKeepsLast DEF FailsafeInv, FailsafePending
  <2>3. CASE queue' = <<>>
    <3>1. Len(queue) = 1 /\ Head(queue) = queue[Len(queue)]
      BY <1>0, <2>1, <2>3, LastOne
    <3>2. Head(queue) = "stop" => ~sessionActive'
      BY <2>1 DEF HandleCommand, Answer, BeginStopSettle, PublishSession
    <3> QED
      BY <2>1, <2>3, <3>1, <3>2 DEF FailsafeInv, FailsafePending
  <2> QED
    BY <2>2, <2>3
<1>2. CASE Tick
  <2>1. sessionActive' => sessionActive
    <3>1. CASE Measurement
      BY <3>1 DEF Measurement
    <3>2. CASE SessionEnd
      BY <3>2 DEF SessionEnd, PublishSession
    <3>3. CASE Alternate
      BY <3>3, AlternateEffect
    <3>4. CASE Rest
      BY <3>4 DEF Rest, Keep, taskVars
    <3> QED
      BY <1>2, <3>1, <3>2, <3>3, <3>4, TickCases
  <2>2. /\ UNCHANGED <<queue, clients, sending>>
        /\ stopLost' = (stopLost /\ (sessionActive' \/ queue # <<>>))
    BY <1>2 DEF Tick
  <2> QED
    BY <2>1, <2>2 DEF FailsafeInv, FailsafePending
<1>3. CASE HostTask
  <2>0. sessionActive' = sessionActive
    BY <1>3, OutsideKeeps DEF taskVars
  <2>1. CASE Connect
    BY <1>0, <2>1 DEF Connect, FailsafeInv, FailsafePending
  <2>2. CASE Disconnect /\ clients = 1
    <3>1. CASE Len(queue) < QueueLength
      <4>1. queue' = Append(queue, "stop") /\ sending' = "none"
        BY <2>2, <3>1 DEF Disconnect, Send
      <4>2. queue' # <<>> /\ queue'[Len(queue')] = "stop"
        BY <1>0, <4>1, AppendIsLast
      <4> QED
        BY <4>1, <4>2 DEF FailsafeInv, FailsafePending
    <3>2. CASE ~(Len(queue) < QueueLength)
      <4>1. Len(queue) >= QueueLength
        BY <1>0, <3>2
      <4>2. stopLost' /\ sending' = "none"
        BY <2>2, <4>1 DEF Disconnect
      <4> QED
        BY <4>2 DEF FailsafeInv, FailsafePending
    <3> QED
      BY <3>1, <3>2
  <2>3. CASE Disconnect /\ clients # 1
    <3>1. clients' # 0
      BY <1>0, <2>3 DEF Disconnect
    <3> QED
      BY <3>1 DEF FailsafeInv, FailsafePending
  <2>4. ASSUME NEW value \in 0 .. 2, WriteControl(value) PROVE FailsafeInv'
    <3>1. clients' # 0
      BY <1>0, <2>4 DEF WriteControl
    <3> QED
      BY <3>1 DEF FailsafeInv, FailsafePending
  <2>5. CASE SendCommand
    <3>1. clients' # 0
      BY <2>5 DEF SendCommand, FailsafeInv
    <3> QED
      BY <3>1 DEF FailsafeInv, FailsafePending
  <2>6. ASSUME NEW seconds \in 0 .. BurstMax + 1, WriteDuration(seconds) PROVE FailsafeInv'
    BY <2>0, <2>6 DEF WriteDuration, FailsafeInv, FailsafePending
  <2> QED
    BY <1>3, <2>1, <2>2, <2>3, <2>4, <2>5, <2>6 DEF HostTask
<1>4. CASE Poll \/ Setup \/ Sense \/ Elapse \/ UNCHANGED vars
  <2>1. UNCHANGED <<queue, clients, sending, stopLost, sessionActive>>
    BY <1>4 DEF Poll, Setup, Sense, Elapse, BleInit, ReadState, WriteState, ReadSession,
                WriteSession, vars, taskVars
  <2> QED
    BY <2>1 DEF FailsafeInv, FailsafePending
<1> QED
  BY <1>1, <1>2, <1>3, <1>4 DEF Next, FogTask

\* For every length of the queue: without clients, the stop of the failsafe is the last command in
\* the queue for as long as there is a session or a command to stop, or it was dropped.
THEOREM StopIsPending == Spec => []FailsafePending
<1>1. Init => FailsafeInv
  BY DEF Init, FailsafeInv, FailsafePending
<1>2. FailsafeInv => FailsafePending
  BY DEF FailsafeInv
<1> QED
  BY <1>1, <1>2, StoryHolds, NextFailsafe, PTL DEF Spec

----------------------------------------------------------------------------
(* What clients read                                                       *)

\* Every command that is handled is answered, and a written one is on its way to be.
ControlInv ==
    queue = <<>> /\ sending = "none" /\ control # 2 /\ ~bootStale => control = Bit(sessionActive)

LEMMA NextControl == TypeOK /\ OneStory /\ ControlInv /\ [Next]_vars => ControlInv'
<1> SUFFICES ASSUME TypeOK, OneStory, ControlInv, [Next]_vars PROVE ControlInv'
  OBVIOUS
<1> USE DEF bleVars, bootVars, charVars
<1>0. sessionActive \in BOOLEAN /\ control \in 0 .. 2
  BY DEF TypeOK
<1>1. CASE Receive
  <2>1. CommandSteps
    BY <1>1, CommandCases DEF Receive
  <2>2. control' = Bit(sessionActive')
    <3>1. CASE StartSession
      BY <3>1, StartEffect DEF Bit
    <3>2. CASE Answer
      BY <3>2 DEF Answer, PublishSession
    <3>3. CASE sessionActive /\ BeginStopSettle
      BY <3>3 DEF BeginStopSettle, PublishSession
    <3> QED
      BY <2>1, <3>1, <3>2, <3>3 DEF CommandSteps
  <2> QED
    BY <2>2 DEF ControlInv
<1>2. CASE Tick
  <2>0. UNCHANGED <<queue, sending, bootStale>>
    BY <1>2 DEF Tick
  <2>1. CASE Measurement
    BY <2>0, <2>1 DEF Measurement, ControlInv
  <2>2. CASE SessionEnd
    <3>1. control' = Bit(sessionActive')
      BY <2>2 DEF OneStory, SessionEnd, PublishSession
    <3> QED
      BY <3>1 DEF ControlInv
  <2>3. CASE Alternate
    BY <2>0, <2>3, AlternateEffect DEF ControlInv
  <2>4. CASE Rest
    BY <2>0, <2>4 DEF Rest, Keep, taskVars, ControlInv
  <2> QED
    BY <1>2, <2>1, <2>2, <2>3, <2>4, TickCases
<1>3. CASE HostTask
  <2>0. sessionActive' = sessionActive
    BY <1>3, OutsideKeeps DEF taskVars
  <2>1. CASE Connect
    BY <2>0, <2>1 DEF Connect, ControlInv
  <2>2. CASE Disconnect
    <3>1. CASE clients = 1
      <4>1. queue' # <<>>
        BY <2>2, <3>1, QueueAfterSend DEF Disconnect, TypeOK, Commands
      <4> QED
        BY <4>1 DEF ControlInv
    <3>2. CASE clients # 1
      BY <2>0, <2>2, <3>2 DEF Disconnect, ControlInv
    <3> QED
      BY <3>1, <3>2
  <2>3. ASSUME NEW value \in 0 .. 2, WriteControl(value) PROVE ControlInv'
    BY <2>3 DEF WriteControl, ControlInv
  <2>4. CASE SendCommand
    <3>1. queue' # <<>>
      BY <2>4, QueueAfterSend DEF SendCommand, TypeOK
    <3> QED
      BY <3>1 DEF ControlInv
  <2>5. ASSUME NEW seconds \in 0 .. BurstMax + 1, WriteDuration(seconds) PROVE ControlInv'
    BY <2>0, <2>5 DEF WriteDuration, ControlInv
  <2> QED
    BY <1>3, <2>1, <2>2, <2>3, <2>4, <2>5 DEF HostTask
<1>4. CASE Setup
  <2>0. sessionActive' = sessionActive
    BY <1>4, OutsideKeeps DEF taskVars
  <2>1. CASE BleInit \/ ReadState \/ WriteState \/ ReadSession
    BY <2>0, <2>1 DEF BleInit, ReadState, WriteState, ReadSession, ControlInv
  <2>2. CASE WriteSession
    <3>1. ~bootStale' => control' = Bit(sessionActive)
      BY <2>2 DEF WriteSession
    <3> QED
      BY <2>0, <3>1 DEF ControlInv
  <2> QED
    BY <1>4, <2>1, <2>2 DEF Setup
<1>5. CASE Poll \/ Sense \/ Elapse \/ UNCHANGED vars
  BY <1>5, OutsideKeeps DEF Poll, Sense, Elapse, vars, taskVars, ControlInv
<1> QED
  BY <1>1, <1>2, <1>3, <1>4, <1>5 DEF Next, FogTask

\* With no command left, clients read whether a session is active, whatever was written, refused or
\* dropped before.
THEOREM SessionIsReported == Spec => []ControlReportsSession
<1>1. Init => ControlInv
  BY DEF Init, ControlInv, Bit
<1>2. ControlInv => ControlReportsSession
  BY DEF ControlInv, ControlReportsSession
<1> QED
  BY <1>1, <1>2, StoryHolds, NextControl, PTL DEF Spec

----------------------------------------------------------------------------
(* The promise                                                             *)

LEMMA PromiseInit == Init => Promise!Init
  BY DEF Init, Promise!Init

LEMMA PromiseStep ==
    TypeOK /\ OneStory /\ [Next]_vars => [Promise!Next]_<<publishedState, sessionActive, trigger>>
<1> SUFFICES ASSUME TypeOK, OneStory, [Next]_vars
             PROVE  Promise!Next \/ UNCHANGED <<publishedState, sessionActive, trigger>>
  OBVIOUS
<1>0. sessionActive \in BOOLEAN /\ trigger \in BOOLEAN /\ phase \in Phases
  BY DEF TypeOK
<1> DEFINE Ends == sessionActive /\ SessionEnd
<1>1. ASSUME Ends PROVE Promise!End
  <2>1. sessionActive /\ sessionActive' = FALSE /\ trigger' = FALSE
    BY <1>1 DEF SessionEnd, PublishSession
  <2>2. publishedState' \in {"FOGGING", "NOT_CONNECTED", "HEATING", "READY"}
    BY <1>1 DEF SessionEnd, OneStory
  <2> QED
    BY <2>1, <2>2 DEF Promise!End
<1>2. CASE Receive
  <2>1. CommandSteps
    BY <1>2, CommandCases DEF Receive
  <2>2. CASE StartSession
    BY <2>2, StartEffect DEF Promise!Next, Promise!Start
  <2>3. CASE Answer
    BY <2>3 DEF Answer, PublishSession
  <2>4. CASE sessionActive /\ BeginStopSettle
    <3>1. Ends
      BY <2>4, StopEffect DEF OneStory
    <3> QED
      BY <1>1, <3>1 DEF Promise!Next
  <2> QED
    BY <2>1, <2>2, <2>3, <2>4 DEF CommandSteps
<1>3. CASE Tick
  <2>1. CASE Measurement
    <3>1. ~sessionActive /\ sessionActive' = sessionActive
      BY <2>1 DEF Measurement, OneStory
    <3>2. trigger' = trigger
      BY <1>0, <2>1 DEF Measurement, OneStory
    <3> QED
      BY <2>1, <3>1, <3>2 DEF Measurement, Promise!Next, Promise!Measure
  <2>2. CASE SessionEnd
    <3>1. Ends
      BY <2>2 DEF SessionEnd, OneStory
    <3> QED
      BY <1>1, <3>1 DEF Promise!Next
  <2>3. CASE Alternate
    BY <2>3, AlternateEffect DEF OneStory, Promise!Next, Promise!Pause, Promise!Resume
  <2>4. CASE Rest
    BY <2>4 DEF Rest, Keep, taskVars
  <2> QED
    BY <1>3, <2>1, <2>2, <2>3, <2>4, TickCases
<1>4. CASE Poll \/ HostTask \/ Setup \/ Sense \/ Elapse \/ UNCHANGED vars
  BY <1>4, OutsideKeeps DEF Poll, Elapse, vars, taskVars
<1> QED
  BY <1>2, <1>3, <1>4 DEF Next, FogTask

\* The fog machine implements FogSession: it starts from READY only, on a state that is still the
\* published one, and uses its output within a session only.
THEOREM PromiseIsKept == Spec => KeepsPromise
  BY StoryHolds, PromiseInit, PromiseStep, PTL DEF Spec, KeepsPromise, Promise!Spec
=============================================================================
