----------------------------- MODULE Dispenser -----------------------------
(***************************************************************************)
(* The dispenser of the launcher: launcher/source/src/dispenser.cpp, the   *)
(* callbacks of ble_manager.cpp and main.cpp that reach it, and the saved  *)
(* duration of storage.cpp.                                                *)
(*                                                                         *)
(* Two threads start a cycle: the Bluetooth host task, for a client, and   *)
(* the preparation task of the launcher.  The FreeRTOS timer task runs the *)
(* poll timer, which ends a cycle, and the commands sent to that timer;    *)
(* those of the launcher's auto-lock timer, which share the queue, may     *)
(* fill it.  The storage writer saves the duration.  The device may        *)
(* restart at any time.                                                    *)
(*                                                                         *)
(* What clients read and are notified of is left out: the callback of the  *)
(* control characteristic publishes whatever was written to it.            *)
(*                                                                         *)
(* The time since dispenseStartMs is one of three ages: within the grace   *)
(* period, before the limit, after it.                                     *)
(***************************************************************************)
EXTENDS Integers, Sequences

CONSTANTS DISPENSER_DEFAULT_DURATION, DISPENSER_MAX_DURATION,
          TimerQueueLength,            \* commands to the poll timer that the queue holds
          STORAGE_WRITE_QUEUE_LENGTH

ASSUME DispenserAssumption ==
    /\ DISPENSER_MAX_DURATION \in Nat
    /\ DISPENSER_DEFAULT_DURATION \in 1 .. DISPENSER_MAX_DURATION
    /\ TimerQueueLength \in Nat /\ STORAGE_WRITE_QUEUE_LENGTH \in Nat

VARIABLES
    attached,             \* stepper # nullptr
    isDispensing,
    age,                  \* of dispenseStartMs
    motor,                \* what the stepper library does
    led,                  \* LED_2 is on or going on
    pc,                   \* the two callers
    polling, timers,      \* poll timer runs; commands sent to the timer task
    timerPc,              \* the timer task
    dropped,              \* history: a command found the queue full
    dispenseDuration, storageWriteQueue,
    stored,               \* the saved value (0: none)
    saveLost              \* history: the latest duration will not be saved

cycleVars == <<attached, isDispensing, age, motor, led>>
timerVars == <<polling, timers, timerPc, dropped>>
storeVars == <<dispenseDuration, storageWriteQueue, stored, saveLost>>
vars == <<cycleVars, pc, timerVars, storeVars>>

Callers   == {"host", "preparation"}
Durations == 1 .. DISPENSER_MAX_DURATION

\* clamp_duration()
Clamp(seconds) ==
    IF seconds < 1 THEN 1
    ELSE IF seconds > DISPENSER_MAX_DURATION THEN DISPENSER_MAX_DURATION ELSE seconds

\* dispenser_init(): the saved duration, if there is one.
SavedDuration(saved) == IF saved = 0 THEN DISPENSER_DEFAULT_DURATION ELSE Clamp(saved)

Init ==
    /\ attached \in BOOLEAN /\ isDispensing = FALSE /\ age = "grace"
    /\ motor = "rest" /\ led = FALSE
    /\ pc = [t \in Callers |-> "idle"]
    /\ polling = FALSE /\ timers = <<>> /\ timerPc = "wait" /\ dropped = FALSE
    /\ stored \in 0 .. DISPENSER_MAX_DURATION
    /\ dispenseDuration = SavedDuration(stored)
    /\ storageWriteQueue = <<>> /\ saveLost = FALSE

----------------------------------------------------------------------------
(* dispenser_control()                                                     *)

Go(t, to)  == pc' = [pc EXCEPT ![t] = to]
Leave(t)   == Go(t, "idle")

\* xTimerStart() and xTimerStop() with no time to wait: the command is lost
\* when the queue is full, of its own commands or of others.
SendTimer(cmd) ==
    \/ /\ Len(timers) < TimerQueueLength
       /\ timers' = Append(timers, cmd) /\ UNCHANGED dropped
    \/ dropped' = TRUE /\ UNCHANGED timers

\* A start, or from a client a stop.  Bound of the model: no call is followed
\* that comes after a lost timer command.
Call(t) ==
    /\ pc[t] = "idle" /\ ~dropped
    /\ \/ Go(t, "claim")
       \/ t = "host" /\ Go(t, "check")
    /\ UNCHANGED <<cycleVars, timerVars, storeVars>>

\* Fault: a cycle that is already running is not noticed.
ClaimBlind(t) ==
    /\ pc[t] = "claim" /\ attached
    /\ isDispensing' = TRUE /\ Go(t, "move")
    /\ UNCHANGED <<attached, age, motor, led, timerVars, storeVars>>

Claim(t) ==
    /\ pc[t] = "claim" /\ attached /\ ~isDispensing
    /\ isDispensing' = TRUE /\ Go(t, "move")
    /\ UNCHANGED <<attached, age, motor, led, timerVars, storeVars>>

Refuse(t) ==
    /\ pc[t] = "claim" /\ (~attached \/ isDispensing)
    /\ Leave(t)
    /\ UNCHANGED <<cycleVars, timerVars, storeVars>>

\* The position is reset and the move started, which the library may refuse; a
\* forced stop that has not taken effect yet may swallow it.
Move(t) ==
    /\ pc[t] = "move"
    /\ \/ /\ motor' = "moving" \/ (motor = "halting" /\ UNCHANGED motor)
          /\ Go(t, "led") /\ UNCHANGED isDispensing
       \/ isDispensing' = FALSE /\ Leave(t) /\ UNCHANGED motor
    /\ UNCHANGED <<attached, age, led, timerVars, storeVars>>

Light(t) ==
    /\ pc[t] = "led"
    /\ led' = TRUE /\ age' = "grace" /\ Go(t, "timer")
    /\ UNCHANGED <<attached, isDispensing, motor, timerVars, storeVars>>

StartTimer(t) ==
    /\ pc[t] = "timer"
    /\ SendTimer("start") /\ Leave(t)
    /\ UNCHANGED <<cycleVars, polling, timerPc, storeVars>>

\* A stop: ignored without a cycle, and otherwise the motor slows down.
CheckStop ==
    /\ pc["host"] = "check"
    /\ Go("host", IF isDispensing THEN "stop" ELSE "idle")
    /\ UNCHANGED <<cycleVars, timerVars, storeVars>>

StopMove ==
    /\ pc["host"] = "stop"
    /\ motor' = IF motor = "moving" THEN "slowing" ELSE motor
    /\ Leave("host")
    /\ UNCHANGED <<attached, isDispensing, age, led, timerVars, storeVars>>

----------------------------------------------------------------------------
(* The timer task: one callback or one command after the other.  What a    *)
(* callback sends is handled before the next callback.                     *)

TimerCommand ==
    /\ timerPc = "wait" /\ timers # <<>>
    /\ polling' = (Head(timers) = "start") /\ timers' = Tail(timers)
    /\ UNCHANGED <<cycleVars, pc, timerPc, dropped, storeVars>>

Due == timerPc = "wait" /\ polling /\ \A i \in 1 .. Len(timers) : timers[i] # "stop"

\* No cycle: the timer stops itself.
PollIdle ==
    /\ Due /\ ~isDispensing
    /\ SendTimer("stop")
    /\ UNCHANGED <<cycleVars, pc, polling, timerPc, storeVars>>

\* The move has ended.
PollDone ==
    /\ Due /\ isDispensing /\ age # "grace" /\ motor = "rest"
    /\ timerPc' = "stop"
    /\ UNCHANGED <<cycleVars, pc, polling, timers, dropped, storeVars>>

\* Fault: a cycle that takes too long is ended, but its motor is not stopped.
PollAbortRunning ==
    /\ Due /\ isDispensing /\ age # "grace" /\ motor # "rest"
    /\ timerPc' = "stop"
    /\ UNCHANGED <<cycleVars, pc, polling, timers, dropped, storeVars>>

\* Fault: there is no limit.
PollAbortNever ==
    /\ Due /\ isDispensing /\ age = "grace" /\ motor # "rest"
    /\ motor' = "halting" /\ timerPc' = "stop"
    /\ UNCHANGED <<attached, isDispensing, age, led, pc, polling, timers, dropped, storeVars>>

\* It takes too long, or the position runs backwards, which may be seen at
\* any time: the queue of the motor is dropped, and it is still a little later.
PollAbort ==
    /\ Due /\ isDispensing /\ age # "grace" /\ motor # "rest"
    /\ motor' = "halting" /\ timerPc' = "stop"
    /\ UNCHANGED <<attached, isDispensing, age, led, pc, polling, timers, dropped, storeVars>>

\* dispenser_finished(), in its order
FinishTimer ==
    /\ timerPc = "stop"
    /\ SendTimer("stop") /\ timerPc' = "exchange"
    /\ UNCHANGED <<cycleVars, pc, polling, storeVars>>

FinishCycle ==
    /\ timerPc = "exchange"
    /\ timerPc' = IF isDispensing THEN "led" ELSE "wait"
    /\ isDispensing' = FALSE
    /\ UNCHANGED <<attached, age, motor, led, pc, polling, timers, dropped, storeVars>>

FinishLed ==
    /\ timerPc = "led"
    /\ led' = FALSE /\ timerPc' = "wait"
    /\ UNCHANGED <<attached, isDispensing, age, motor, pc, polling, timers, dropped, storeVars>>

----------------------------------------------------------------------------
(* The motor, time and restarts *)

Arrive ==
    /\ motor # "rest" /\ motor' = "rest"
    /\ UNCHANGED <<attached, isDispensing, age, led, pc, timerVars, storeVars>>

Ages == <<"grace", "moving", "late">>

Age ==
    /\ \E i \in 1 .. Len(Ages) - 1 : age = Ages[i] /\ age' = Ages[i + 1]
    /\ UNCHANGED <<attached, isDispensing, motor, led, pc, timerVars, storeVars>>

\* Everything but the saved duration is lost.
Restart ==
    /\ attached' \in BOOLEAN /\ isDispensing' = FALSE /\ age' = "grace"
    /\ motor' = "rest" /\ led' = FALSE
    /\ pc' = [t \in Callers |-> "idle"]
    /\ polling' = FALSE /\ timers' = <<>> /\ timerPc' = "wait"
    /\ dropped' = FALSE
    /\ dispenseDuration' = SavedDuration(stored)
    /\ storageWriteQueue' = <<>> /\ saveLost' = FALSE
    /\ UNCHANGED stored

----------------------------------------------------------------------------
(* The duration *)

\* storage_set(): the value is queued for the writer, if there is room.
Save(seconds) ==
    LET room == Len(storageWriteQueue) < STORAGE_WRITE_QUEUE_LENGTH
    IN  /\ storageWriteQueue' =
              IF room THEN Append(storageWriteQueue, seconds) ELSE storageWriteQueue
        /\ saveLost' = ~room

\* Fault: the value is saved before it is changed.
SetDurationSavesOld(seconds) ==
    /\ pc["host"] = "idle"
    /\ dispenseDuration' = Clamp(seconds) /\ Save(dispenseDuration)
    /\ UNCHANGED <<cycleVars, pc, timerVars, stored>>

\* dispenser_set_duration(), in the host task
SetDuration(seconds) ==
    /\ pc["host"] = "idle"
    /\ dispenseDuration' = Clamp(seconds) /\ Save(Clamp(seconds))
    /\ UNCHANGED <<cycleVars, pc, timerVars, stored>>

\* storage_writer_task(): the value at the head of the queue is saved, or the
\* storage cannot be opened.  A value that was received and one that was not
\* are lost alike by a restart, so both steps are one.
Write ==
    /\ storageWriteQueue # <<>> /\ storageWriteQueue' = Tail(storageWriteQueue)
    /\ \/ stored' = Head(storageWriteQueue) /\ UNCHANGED saveLost
       \/ saveLost' = (saveLost \/ Len(storageWriteQueue) = 1) /\ UNCHANGED stored
    /\ UNCHANGED <<cycleVars, pc, timerVars, dispenseDuration>>

----------------------------------------------------------------------------
Caller(t) == Claim(t) \/ Refuse(t) \/ Move(t) \/ Light(t) \/ StartTimer(t)

HostStop == CheckStop \/ StopMove

Poll   == PollIdle \/ PollDone \/ PollAbort
Finish == FinishTimer \/ FinishCycle \/ FinishLed
TimerTask == TimerCommand \/ Poll \/ Finish

Next ==
    \/ \E t \in Callers : Call(t) \/ Caller(t)
    \/ HostStop
    \/ TimerTask
    \/ Arrive \/ Age \/ Restart
    \/ \E seconds \in 0 .. DISPENSER_MAX_DURATION + 1 : SetDuration(seconds)
    \/ Write

Spec == Init /\ [][Next]_vars

\* The tasks run and time passes; the motor need not arrive.
FairSpec ==
    /\ Spec
    /\ \A t \in Callers : WF_vars(Caller(t))
    /\ WF_vars(TimerCommand) /\ WF_vars(Poll) /\ WF_vars(Finish) /\ WF_vars(Age)

----------------------------------------------------------------------------
(* Properties.  Those of the cycle hold as long as no command to the poll  *)
(* timer was lost since the start.                                         *)

\* Types of the variables, and the limits of the queues.
TypeOK ==
    /\ attached \in BOOLEAN /\ isDispensing \in BOOLEAN
    /\ age \in {"grace", "moving", "late"} /\ motor \in {"rest", "moving", "slowing", "halting"}
    /\ led \in BOOLEAN
    /\ pc \in [Callers -> {"idle", "claim", "move", "led", "timer", "check", "stop"}]
    /\ polling \in BOOLEAN /\ timers \in Seq({"start", "stop"})
    /\ Len(timers) <= TimerQueueLength
    /\ timerPc \in {"wait", "stop", "exchange", "led"} /\ dropped \in BOOLEAN
    /\ dispenseDuration \in Durations /\ storageWriteQueue \in Seq(Durations)
    /\ Len(storageWriteQueue) <= STORAGE_WRITE_QUEUE_LENGTH
    /\ stored \in 0 .. DISPENSER_MAX_DURATION
    /\ saveLost \in BOOLEAN

\* No move is under way: the motor is at rest, or a forced stop takes effect.
Stopped == motor \in {"rest", "halting"}

\* "Single place where a dispense cycle ends": whichever way that was, without a
\* cycle no move is under way.  After an abort the motor may still be halting.
MotorOnlyInCycle == ~dropped /\ ~Stopped => isDispensing

\* "motor is stopped here, so this is safe": the position is never reset, nor a
\* move started, during a move, also with two callers and a stop that comes at
\* any time.  One thing spoils the comment: right after an abort the motor may
\* still be halting.
PositionResetIsSafe ==
    [][\A t \in Callers : ~dropped /\ Move(t) => Stopped]_vars

\* "Safety net: force a stop when the move takes this much longer": a cycle
\* ends, even if the motor never arrives.
CycleEnds == isDispensing ~> (~isDispensing \/ dropped)

\* "saved across restarts": a restart after the writer is done finds the
\* duration that was set last, unless the write was dropped or failed.
DurationSurvives ==
    [][Restart /\ storageWriteQueue = <<>> /\ ~saveLost =>
          dispenseDuration' = dispenseDuration]_vars
=============================================================================
