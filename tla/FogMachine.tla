----------------------------- MODULE FogMachine -----------------------------
(***************************************************************************)
(* The fog machine of the switchboard: schakelbord/source/src/             *)
(* fog_machine.cpp, with the parts of ble_manager.cpp and main.cpp that    *)
(* call it.                                                                *)
(*                                                                         *)
(* Three threads: fog_task, which makes a pass at least every poll         *)
(* interval (take a command if there is one, then tick); the Bluetooth     *)
(* host task, which runs the connection and write callbacks one at a time; *)
(* and setup(), which pushes the first values into the characteristics     *)
(* while the other two are already running.  The input pins change on      *)
(* their own.                                                              *)
(*                                                                         *)
(* The unit of time is the poll interval, and at most one unit passes      *)
(* between two ticks.  A time stamp is modelled by its age, which counts   *)
(* only while the code looks at it.                                        *)
(***************************************************************************)
EXTENDS Integers, Sequences

CONSTANTS MaxSession,           \* FOG_MAX_SESSION_MS, 0 = no cap
          MeasureDelay,         \* FOG_MEASURE_DELAY_MS
          BurstMin, BurstMax,   \* FOG_BURST_MIN/MAX_SECONDS
          BurstDefault,         \* FOG_BURST_DEFAULT_SECONDS
          QueueLength,          \* FOG_COMMAND_QUEUE_LENGTH
          MaxClients            \* BLE_MAX_CONNECTIONS

ASSUME FogAssumption ==
    /\ MaxSession \in Nat /\ MeasureDelay \in Nat
    /\ BurstMin \in Nat \ {0} /\ BurstMax \in Nat
    /\ BurstDefault \in BurstMin .. BurstMax
    /\ QueueLength \in Nat \ {0} /\ MaxClients \in Nat \ {0}

VARIABLES
    phase, phaseAge, sessionAge,   \* Phase, now - phaseStartMs, now - sessionStartMs
    trigger,                       \* level of FOG_TRIGGER_PIN
    publishedState, sessionActive, \* what the module reports
    burst,                         \* burstSeconds, in poll intervals
    queue,                         \* commandQueue
    taskPc, waited,                \* fog_task: before or after the command; interval over?
    connected, heat,               \* the machine: A7, and A0 against the two thresholds
    clients, sending,              \* connectedCount; command a write callback is about to send
    control, stateChar,            \* values of the fog control and fog state characteristics
    bootPc, bootValue,             \* setup(), and the state it has read
    bootSession,                   \* the session flag it has read
    bootStale,                     \* history: that flag had changed when setup() wrote it
    stopLost                       \* history: a failsafe stop found the queue full

taskVars == <<phase, phaseAge, sessionAge, trigger, publishedState, sessionActive>>
charVars == <<control, stateChar>>
bleVars  == <<clients, sending>>
bootVars == <<bootPc, bootValue, bootSession, bootStale>>
pinVars  == <<connected, heat>>
vars == <<taskVars, burst, queue, taskPc, waited, pinVars, bleVars, charVars, bootVars, stopLost>>

Phases   == {"IDLE", "BURST", "MEASURE_WAIT", "STOP_SETTLE"}
States   == {"NOT_CONNECTED", "HEATING", "READY", "FOGGING"}
Commands == {"start", "stop"}
Heats    == {"cold", "warm", "hot"}   \* below, between and above the two thresholds
BootPcs  == {"bleInit", "readState", "writeState", "readSession", "writeSession", "done"}

Init ==
    /\ phase = "IDLE" /\ phaseAge = 0 /\ sessionAge = 0 /\ trigger = FALSE
    /\ publishedState = "NOT_CONNECTED" /\ sessionActive = FALSE
    /\ burst = BurstDefault
    /\ queue = <<>>
    /\ taskPc = "receive" /\ waited = FALSE
    /\ connected \in BOOLEAN /\ heat \in Heats
    /\ clients = 0 /\ sending = "none"
    /\ control = 0 /\ stateChar = "NOT_CONNECTED"
    /\ bootPc = "bleInit" /\ bootValue = "NOT_CONNECTED"
    /\ bootSession = FALSE /\ bootStale = FALSE
    /\ stopLost = FALSE

Bit(b) == IF b THEN 1 ELSE 0

----------------------------------------------------------------------------
(* Publishing.  A callback reaches its characteristic once ble_init() has  *)
(* created it.                                                             *)

PublishState(s) ==
    /\ publishedState' = s
    /\ stateChar' = IF s = publishedState \/ bootPc = "bleInit" THEN stateChar ELSE s

PublishSession(active, force) ==
    /\ sessionActive' = active
    /\ control' = IF force \/ active # sessionActive THEN Bit(active) ELSE control

Enter(p) == phase' = p /\ phaseAge' = 0 /\ trigger' = (p = "BURST")

\* evaluate_idle(): the hysteresis depends on the state published last.
Evaluate(on, mv) ==
    PublishState(IF ~on THEN "NOT_CONNECTED"
                 ELSE IF mv = "hot" \/ (mv = "warm" /\ publishedState = "READY")
                 THEN "READY" ELSE "HEATING")

EvaluateIdle == Evaluate(connected, heat)

BeginStopSettle ==
    /\ Enter("STOP_SETTLE") /\ sessionAge' = 0
    /\ PublishSession(FALSE, FALSE)
    /\ UNCHANGED <<publishedState, stateChar>>

AbortNotConnected ==
    /\ Enter("IDLE") /\ sessionAge' = 0
    /\ PublishSession(FALSE, FALSE)
    /\ PublishState("NOT_CONNECTED")

----------------------------------------------------------------------------
(* handle_command()                                                        *)

StartAccepted == phase = "IDLE" /\ publishedState = "READY" /\ connected

\* Fault: a start is accepted in every idle state.
StartSessionEager ==
    /\ ~sessionActive /\ phase = "IDLE"
    /\ Enter("BURST") /\ sessionAge' = 0
    /\ PublishState("FOGGING") /\ PublishSession(TRUE, FALSE)

StartSession ==
    /\ ~sessionActive /\ StartAccepted
    /\ Enter("BURST") /\ sessionAge' = 0
    /\ PublishState("FOGGING") /\ PublishSession(TRUE, FALSE)

\* Fault: a refused command gets no answer.
AnswerNot == UNCHANGED <<taskVars, charVars>>

\* A start while fogging, a start that is refused and a stop while not
\* fogging change nothing, but the answer is sent.
Answer ==
    /\ PublishSession(sessionActive, TRUE)
    /\ UNCHANGED <<phase, phaseAge, sessionAge, trigger, publishedState, stateChar>>

HandleCommand(cmd) ==
    \/ cmd = "start" /\ StartSession
    \/ cmd = "start" /\ (sessionActive \/ ~StartAccepted) /\ Answer
    \/ cmd = "stop" /\ sessionActive /\ BeginStopSettle
    \/ cmd = "stop" /\ ~sessionActive /\ Answer

----------------------------------------------------------------------------
(* tick()                                                                  *)

Keep == UNCHANGED <<taskVars, charVars>>

SessionCapReached == MaxSession # 0 /\ sessionAge >= MaxSession

IdleTick ==
    /\ phase = "IDLE"
    /\ EvaluateIdle
    /\ UNCHANGED <<phase, phaseAge, sessionAge, trigger, sessionActive, control>>

\* The two phases of a session give up on a lost machine and on the cap.
\* Fault: the cap is only tested between bursts.
SessionTickUncapped(inPhase) ==
    \/ ~connected /\ AbortNotConnected
    \/ connected /\ SessionCapReached /\ phase = "MEASURE_WAIT" /\ BeginStopSettle
    \/ connected /\ (phase = "BURST" \/ ~SessionCapReached) /\ inPhase

SessionTick(inPhase) ==
    \/ ~connected /\ AbortNotConnected
    \/ connected /\ SessionCapReached /\ BeginStopSettle
    \/ connected /\ ~SessionCapReached /\ inPhase

EndBurst ==
    /\ phaseAge >= burst
    /\ Enter("MEASURE_WAIT")
    /\ UNCHANGED <<sessionAge, publishedState, sessionActive, charVars>>

BurstTick == phase = "BURST" /\ SessionTick(EndBurst \/ (phaseAge < burst /\ Keep))

NextBurst ==
    /\ phaseAge >= MeasureDelay /\ heat # "cold"
    /\ Enter("BURST")
    /\ UNCHANGED <<sessionAge, publishedState, sessionActive, charVars>>

\* evaluate_idle() reads both pins again, and they may have changed by then.
CooledDown ==
    /\ phaseAge >= MeasureDelay /\ heat = "cold"
    /\ Enter("IDLE") /\ sessionAge' = 0
    /\ PublishSession(FALSE, FALSE)
    /\ \E on \in BOOLEAN, mv \in Heats : Evaluate(on, mv)

MeasureTick ==
    /\ phase = "MEASURE_WAIT"
    /\ SessionTick(NextBurst \/ CooledDown \/ (phaseAge < MeasureDelay /\ Keep))

SettleTick ==
    /\ phase = "STOP_SETTLE"
    /\ IF phaseAge >= MeasureDelay
       THEN /\ Enter("IDLE")
            /\ EvaluateIdle
            /\ UNCHANGED <<sessionAge, sessionActive, control>>
       ELSE Keep

----------------------------------------------------------------------------
(* fog_task                                                                *)

Receive ==
    /\ taskPc = "receive" /\ queue # <<>>
    /\ HandleCommand(Head(queue))
    /\ queue' = Tail(queue) /\ taskPc' = "tick"
    /\ UNCHANGED <<burst, waited, pinVars, bleVars, bootVars, stopLost>>

\* xQueueReceive times out after the poll interval.
Poll ==
    /\ taskPc = "receive" /\ queue = <<>> /\ waited
    /\ taskPc' = "tick"
    /\ UNCHANGED <<taskVars, burst, queue, waited, pinVars, bleVars, charVars, bootVars, stopLost>>

\* A failsafe stop that was lost no longer matters once everything is over.
Tick ==
    /\ taskPc = "tick"
    /\ IdleTick \/ BurstTick \/ MeasureTick \/ SettleTick
    /\ taskPc' = "receive" /\ waited' = FALSE
    /\ stopLost' = (stopLost /\ (sessionActive' \/ queue # <<>>))
    /\ UNCHANGED <<burst, queue, pinVars, bleVars, bootVars>>

----------------------------------------------------------------------------
(* Bluetooth host task, setup(), the machine and the clock                 *)

\* xQueueSend(..., 0): dropped without a word when the queue is full.
Send(cmd) == queue' = IF Len(queue) < QueueLength THEN Append(queue, cmd) ELSE queue

Connect ==
    /\ bootPc # "bleInit" /\ sending = "none" /\ clients < MaxClients
    /\ clients' = clients + 1
    /\ UNCHANGED <<taskVars, burst, queue, taskPc, waited, pinVars, sending, charVars, bootVars,
                   stopLost>>

\* Fault: no failsafe.
DisconnectOnly ==
    /\ sending = "none" /\ clients > 0
    /\ clients' = clients - 1
    /\ UNCHANGED <<taskVars, burst, queue, taskPc, waited, pinVars, sending, charVars, bootVars,
                   stopLost>>

\* The last client to leave stops the fogging.
Disconnect ==
    /\ sending = "none" /\ clients > 0
    /\ clients' = clients - 1
    /\ IF clients = 1
       THEN Send("stop") /\ stopLost' = (stopLost \/ Len(queue) >= QueueLength)
       ELSE UNCHANGED <<queue, stopLost>>
    /\ UNCHANGED <<taskVars, burst, taskPc, waited, pinVars, sending, charVars, bootVars>>

\* A write of the fog control characteristic.  The stack stores the value
\* before onWrite() looks at it; a value above 1 (here 2) goes no further.
WriteControl(value) ==
    /\ clients > 0 /\ sending = "none"
    /\ control' = value
    /\ sending' = CASE value = 0 -> "stop" [] value = 1 -> "start" [] OTHER -> "none"
    /\ UNCHANGED <<taskVars, burst, queue, taskPc, waited, pinVars, clients, stateChar, bootVars,
                   stopLost>>

SendCommand ==
    /\ sending # "none"
    /\ Send(sending)
    /\ sending' = "none"
    /\ UNCHANGED <<taskVars, burst, taskPc, waited, pinVars, clients, charVars, bootVars, stopLost>>

\* fog_set_duration(): clamped, and effective at once, mid-burst too.
WriteDuration(seconds) ==
    /\ clients > 0 /\ sending = "none"
    /\ burst' = IF seconds < BurstMin THEN BurstMin
                ELSE IF seconds > BurstMax THEN BurstMax ELSE seconds
    /\ UNCHANGED <<taskVars, queue, taskPc, waited, pinVars, bleVars, charVars, bootVars, stopLost>>

BleInit ==
    /\ bootPc = "bleInit" /\ bootPc' = "readState"
    /\ UNCHANGED <<taskVars, burst, queue, taskPc, waited, pinVars, bleVars, charVars, bootValue,
                   bootSession, bootStale, stopLost>>

\* push_initial_values(): a value is read, and then set.
ReadState ==
    /\ bootPc = "readState" /\ bootPc' = "writeState"
    /\ bootValue' = publishedState
    /\ UNCHANGED <<taskVars, burst, queue, taskPc, waited, pinVars, bleVars, charVars, bootSession,
                   bootStale, stopLost>>

WriteState ==
    /\ bootPc = "writeState" /\ bootPc' = "readSession"
    /\ stateChar' = bootValue
    /\ UNCHANGED <<taskVars, burst, queue, taskPc, waited, pinVars, bleVars, control, bootValue,
                   bootSession, bootStale, stopLost>>

ReadSession ==
    /\ bootPc = "readSession" /\ bootPc' = "writeSession"
    /\ bootSession' = sessionActive
    /\ UNCHANGED <<taskVars, burst, queue, taskPc, waited, pinVars, bleVars, charVars, bootValue,
                   bootStale, stopLost>>

WriteSession ==
    /\ bootPc = "writeSession" /\ bootPc' = "done"
    /\ control' = Bit(bootSession)
    /\ bootStale' = (bootSession # sessionActive)
    /\ UNCHANGED <<taskVars, burst, queue, taskPc, waited, pinVars, bleVars, stateChar, bootValue,
                   bootSession, stopLost>>

Sense ==
    /\ connected' \in BOOLEAN /\ heat' \in Heats
    /\ UNCHANGED <<taskVars, burst, queue, taskPc, waited, bleVars, charVars, bootVars, stopLost>>

\* A poll interval goes by.
Elapse ==
    /\ ~waited /\ waited' = TRUE
    /\ phaseAge' = IF phase = "IDLE" THEN 0 ELSE phaseAge + 1
    /\ sessionAge' = IF sessionActive THEN sessionAge + 1 ELSE 0
    /\ UNCHANGED <<phase, trigger, publishedState, sessionActive, burst, queue, taskPc, pinVars,
                   bleVars, charVars, bootVars, stopLost>>

FogTask == Receive \/ Poll \/ Tick

HostTask ==
    \/ Connect
    \/ Disconnect
    \/ \E value \in 0 .. 2 : WriteControl(value)
    \/ SendCommand
    \/ \E seconds \in 0 .. BurstMax + 1 : WriteDuration(seconds)

Setup == BleInit \/ ReadState \/ WriteState \/ ReadSession \/ WriteSession

Next == FogTask \/ HostTask \/ Setup \/ Sense \/ Elapse

Spec == Init /\ [][Next]_vars

\* What clients may count on, as an abstract specification.
Promise == INSTANCE FogSession
    WITH state <- publishedState, session <- sessionActive, output <- trigger

----------------------------------------------------------------------------
(* Properties *)

\* Types of the variables, and the limits of the queue and of the ages.
TypeOK ==
    /\ phase \in Phases /\ phaseAge \in Nat /\ sessionAge \in Nat
    /\ trigger \in BOOLEAN /\ publishedState \in States /\ sessionActive \in BOOLEAN
    /\ burst \in BurstMin .. BurstMax
    /\ queue \in Seq(Commands) /\ Len(queue) <= QueueLength
    /\ taskPc \in {"receive", "tick"} /\ waited \in BOOLEAN
    /\ connected \in BOOLEAN /\ heat \in Heats
    /\ clients \in 0 .. MaxClients /\ sending \in Commands \cup {"none"}
    /\ control \in 0 .. 2 /\ stateChar \in States
    /\ bootPc \in BootPcs /\ bootValue \in States /\ bootSession \in BOOLEAN /\ bootStale \in BOOLEAN
    /\ stopLost \in BOOLEAN

\* Phase, output pin, session flag and published state tell one story: the
\* trigger is on exactly in a burst, a session lasts exactly from its first
\* burst to its end, and FOGGING is shown until the machine has settled.
OneStory ==
    /\ trigger <=> phase = "BURST"
    /\ sessionActive <=> phase \in {"BURST", "MEASURE_WAIT"}
    /\ publishedState = "FOGGING" <=> phase # "IDLE"

\* "Safety cap on one continuous fogging session": no session outlives the
\* cap, however its bursts, its commands and its duration writes fall, and no
\* burst outlives the longest duration.
SessionBounded ==
    /\ MaxSession # 0 => sessionAge <= MaxSession
    /\ phase = "BURST" => phaseAge <= BurstMax
    /\ sessionActive \/ sessionAge = 0

\* Without clients a session, or a start still queued, is followed by a stop
\* in the queue, unless that stop found the queue full.
FailsafePending ==
    clients = 0 /\ ~stopLost /\ (sessionActive \/ queue # <<>>)
        => queue # <<>> /\ queue[Len(queue)] = "stop"

\* "Read/notify reports 1 if a fogging session is currently active, otherwise
\* 0": when no command is left to handle, the control characteristic agrees
\* with the session, although every client write overwrites it first and
\* commands are dropped when the queue is full.  (2 stands for a value the
\* write callback ignored.)  setup() may write over it with an older flag.
ControlReportsSession ==
    queue = <<>> /\ sending = "none" /\ taskPc = "receive" /\ control # 2 /\ ~bootStale
        => control = Bit(sessionActive)

\* The module keeps the promise of FogSession: fogging starts from READY only,
\* and the output is used within a session only.
KeepsPromise == Promise!Spec
=============================================================================
