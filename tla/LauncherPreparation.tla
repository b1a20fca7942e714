------------------------ MODULE LauncherPreparation ------------------------
(***************************************************************************)
(* The launcher's preparation cycle: launcher/source/src/launcher.cpp with *)
(* the callbacks of main.cpp and the commands of pull_motor.cpp it uses.   *)
(*                                                                         *)
(* Calls come from threads of execution (Callers): the Bluetooth host task *)
(* and the task of the push button.  A third task, the preparation task,   *)
(* sleeps on its notification, runs one preparation and sleeps again.      *)
(* The three share the atomic preparationState, the notification of the    *)
(* preparation task, the servo latch, the pull motor and the published     *)
(* value of the preparation state characteristic.  Every access to one of  *)
(* these that another thread could see is a step of its own.               *)
(*                                                                         *)
(* Time is left out: a timeout may fire whenever the code tests it, and a  *)
(* debounced input may become stable at any poll.  The carriage moves      *)
(* along 0 .. MaxPos; the end switch is pressed exactly at 0, SlowPos ends *)
(* the slow part of the way up and TopPos is the ready position.           *)
(***************************************************************************)
EXTENDS Integers

CONSTANTS Callers,      \* threads that call into the launcher
          Button,       \* the one of them that handles the push button
          SlowPos,      \* PREPARATION_MOVE_UP_SLOW_STEPS
          TopPos,       \* ... plus PREPARATION_MOVE_UP_FAST_STEPS
          MaxPos        \* mechanical end of travel

ASSUME LauncherAssumption ==
    /\ Button \in Callers
    /\ SlowPos \in Nat /\ TopPos \in Nat /\ MaxPos \in Nat
    /\ 0 < SlowPos /\ SlowPos < TopPos /\ TopPos <= MaxPos

VARIABLES
    preparationState,   \* the atomic that admits one preparation at a time
    published,          \* last value set on the preparation state characteristic
    notified,           \* pending notification of the preparation task
    taskPc,             \* where the preparation task is
    pressed,            \* `pressed` of the debounce in the downward loop
    callPc, previous,   \* per caller: position in its call, and `previous`
    buttonDown,         \* currentState of button.cpp
    latch, autoLock,    \* servo angle; is the auto-lock timer running?
    opened,             \* history: was the latch opened since the last claim?
    led,                \* state of LED 1
    motor, position,    \* the stepper engine and the carriage
    driven,             \* history: has a client driven the motor by hand?
    dispensing          \* isDispensing

callVars  == <<callPc, previous, buttonDown>>
latchVars == <<latch, autoLock, opened>>
motorVars == <<motor, position, driven>>
taskVars  == <<taskPc, pressed, led, dispensing>>
vars == <<preparationState, published, notified, callVars, latchVars, motorVars, taskVars>>

States   == {"IDLE", "MOVE_DOWN", "MOVE_UP_SLOW", "MOVE_UP_FAST", "ERROR"}
Free     == {"IDLE", "ERROR"}    \* states from which a preparation may be claimed

\* A caller that has claimed the preparation and not yet handed it over.
Claiming == {"close", "switch", "publish", "notify"}
\* Phases in which the preparation task owns the run.
RunPcs   == {"down", "stop", "publishSlow", "move", "slow", "publishFast", "fast", "up"}
\* What is left of a run once its final state is stored.
TailPcs  == {"publishIdle", "publishError", "drop"}

MotorModes == {"idle", "down", "up", "toTop", "halting", "brakeDown", "brakeUp"}

\* Power-up: IDLE is published, the latch closed, the carriage anywhere.
Init ==
    /\ preparationState = "IDLE" /\ published = "IDLE"
    /\ notified = FALSE /\ taskPc = "wait" /\ pressed = FALSE
    /\ callPc = [c \in Callers |-> "ready"]
    /\ previous = [c \in Callers |-> "IDLE"]
    /\ buttonDown = FALSE
    /\ latch = "closed" /\ autoLock = FALSE /\ opened = FALSE
    /\ led = "off" /\ dispensing = FALSE
    /\ motor = "idle" /\ position \in 0 .. TopPos /\ driven = FALSE

SwitchPressed == position = 0

----------------------------------------------------------------------------
(* The pull motor, as FastAccelStepper executes the commands given to it.  *)

\* stopMove() ramps a moving motor down in the direction it is going.
Braked(m) ==
    CASE m = "down"  -> "brakeDown"
      [] m = "up"    -> "brakeUp"
      [] m = "toTop" -> IF position <= TopPos THEN "brakeUp" ELSE "brakeDown"
      [] OTHER       -> m

SetSpeed(dir) ==
    motor' = CASE dir = "stop" -> Braked(motor) [] dir = "up" -> "up" [] OTHER -> "down"

\* forceStopAndNewPosition: the queue is dropped, the motor is still for good
\* a little later.
HardStop == motor' = IF motor = "idle" THEN "idle" ELSE "halting"

\* One step of the engine.  A ramp-down takes zero or one further position.
Lower == IF position > 0 THEN position - 1 ELSE 0
Raise == IF position < MaxPos THEN position + 1 ELSE MaxPos

MotorStep ==
    /\ \/ /\ motor = "down" /\ position' = Lower /\ UNCHANGED motor
       \/ /\ motor = "up" /\ position' = Raise /\ UNCHANGED motor
       \/ /\ motor = "toTop"
          /\ position' = IF position < TopPos THEN position + 1
                         ELSE IF position > TopPos THEN position - 1 ELSE position
          /\ motor' = IF position' = TopPos THEN "idle" ELSE "toTop"
       \/ /\ motor = "halting" /\ motor' = "idle" /\ UNCHANGED position
       \/ /\ motor = "brakeDown" /\ motor' = "idle" /\ position' \in {position, Lower}
       \/ /\ motor = "brakeUp" /\ motor' = "idle" /\ position' \in {position, Raise}
    /\ UNCHANGED <<preparationState, published, notified, callVars, latchVars, driven, taskVars>>

----------------------------------------------------------------------------
(* launcher_prepare(), called by the Bluetooth host task or on a release   *)
(* of the button, which closes the latch first.                            *)

Goto(c, pc) == callPc' = [callPc EXCEPT ![c] = pc]

\* button_task() reports a level that stays, when it is not the one before.
Reports(down) == buttonDown # down /\ buttonDown' = down

RequestPrepare(c) ==
    /\ callPc[c] = "ready"
    /\ IF c = Button
       THEN Reports(FALSE) /\ latch' = "closed"
       ELSE UNCHANGED <<buttonDown, latch>>
    /\ Goto(c, "claimIdle")
    /\ UNCHANGED <<preparationState, published, notified, previous, autoLock, opened,
                   motorVars, taskVars>>

\* One compare_exchange_strong(s -> MOVE_DOWN), continuing at `otherwise`
\* when the state is not s.
Claim(c, s, otherwise) ==
    /\ IF preparationState = s
       THEN /\ preparationState' = "MOVE_DOWN"
            /\ previous' = [previous EXCEPT ![c] = s]
            /\ opened' = FALSE
            /\ Goto(c, "close")
       ELSE /\ Goto(c, otherwise)
            /\ UNCHANGED <<preparationState, previous, opened>>
    /\ UNCHANGED <<published, notified, buttonDown, latch, autoLock, motorVars, taskVars>>

\* Fault: the second claim overwrites the state instead of comparing it.
ClaimErrorBlind(c) == callPc[c] = "claimError" /\ Claim(c, preparationState, "ready")

ClaimIdle(c)  == callPc[c] = "claimIdle" /\ Claim(c, "IDLE", "claimError")
ClaimError(c) == callPc[c] = "claimError" /\ Claim(c, "ERROR", "ready")

\* Fault: a preparation leaves the latch as it is.
CloseLatchNot(c) ==
    /\ callPc[c] = "close" /\ Goto(c, "switch")
    /\ UNCHANGED <<preparationState, published, notified, previous, buttonDown, latchVars,
                   motorVars, taskVars>>

CloseLatch(c) ==
    /\ callPc[c] = "close"
    /\ latch' = "closed"
    /\ Goto(c, "switch")
    /\ UNCHANGED <<preparationState, published, notified, previous, buttonDown, autoLock,
                   opened, motorVars, taskVars>>

\* Fault: a refused request always falls back to IDLE.
CheckSwitchToIdle(c) ==
    /\ callPc[c] = "switch"
    /\ IF SwitchPressed
       THEN preparationState' = "IDLE" /\ Goto(c, "ready")
       ELSE Goto(c, "publish") /\ UNCHANGED preparationState
    /\ UNCHANGED <<published, notified, previous, buttonDown, latchVars, motorVars, taskVars>>

\* A pressed end switch refuses the request: the old state comes back unpublished.
CheckSwitch(c) ==
    /\ callPc[c] = "switch"
    /\ IF SwitchPressed
       THEN preparationState' = previous[c] /\ Goto(c, "ready")
       ELSE Goto(c, "publish") /\ UNCHANGED preparationState
    /\ UNCHANGED <<published, notified, previous, buttonDown, latchVars, motorVars, taskVars>>

PublishDown(c) ==
    /\ callPc[c] = "publish"
    /\ published' = "MOVE_DOWN"
    /\ Goto(c, "notify")
    /\ UNCHANGED <<preparationState, notified, previous, buttonDown, latchVars, motorVars, taskVars>>

Notify(c) ==
    /\ callPc[c] = "notify"
    /\ notified' = TRUE
    /\ Goto(c, "ready")
    /\ UNCHANGED <<preparationState, published, previous, buttonDown, latchVars, motorVars, taskVars>>

----------------------------------------------------------------------------
(* launcher_launch(), the servo characteristic and the auto-lock timer.    *)

LaunchOpen(c) ==
    /\ callPc[c] = "ready"
    /\ IF c = Button THEN Reports(TRUE) ELSE UNCHANGED buttonDown
    /\ latch' = "open" /\ opened' = TRUE
    /\ Goto(c, "arm")
    /\ UNCHANGED <<preparationState, published, notified, previous, autoLock, motorVars, taskVars>>

LaunchArm(c) ==
    /\ callPc[c] = "arm"
    /\ autoLock' = TRUE
    /\ Goto(c, "ready")
    /\ UNCHANGED <<preparationState, published, notified, previous, buttonDown, latch, opened,
                   motorVars, taskVars>>

AutoLock ==
    /\ autoLock
    /\ autoLock' = FALSE /\ latch' = "closed"
    /\ UNCHANGED <<preparationState, published, notified, callVars, opened, motorVars, taskVars>>

\* A write of the servo angle: the timer is cancelled, then the servo moves.
ServoWrite(c, angle) ==
    /\ callPc[c] = "ready" /\ c # Button
    /\ autoLock' = FALSE /\ latch' = angle
    /\ opened' = (opened \/ angle = "open")
    /\ UNCHANGED <<preparationState, published, notified, callVars, motorVars, taskVars>>

\* A write of the pull motor characteristic, at any moment.
MotorWrite(c, dir) ==
    /\ callPc[c] = "ready" /\ c # Button
    /\ SetSpeed(dir) /\ driven' = TRUE
    /\ UNCHANGED <<preparationState, published, notified, callVars, latchVars, position, taskVars>>

----------------------------------------------------------------------------
(* The preparation task.                                                   *)

\* Woken up: pulse the LED and start moving down.
StartRun ==
    /\ taskPc = "wait" /\ notified
    /\ notified' = FALSE
    /\ taskPc' = "down" /\ pressed' = FALSE /\ led' = "pulse"
    /\ SetSpeed("down")
    /\ UNCHANGED <<preparationState, published, callVars, latchVars, position, driven, dispensing>>

\* One pass of the downward loop that neither ends it nor times out.
PollSwitch ==
    /\ taskPc = "down"
    /\ pressed' = SwitchPressed
    /\ UNCHANGED <<preparationState, published, notified, callVars, latchVars, motorVars,
                   taskPc, led, dispensing>>

\* The switch was seen pressed before and still is: this spot becomes step 0.
BottomReached ==
    /\ taskPc = "down" /\ pressed /\ SwitchPressed
    /\ HardStop
    /\ taskPc' = "stop"
    /\ UNCHANGED <<preparationState, published, notified, callVars, latchVars, position, driven,
                   pressed, led, dispensing>>

\* Fault: an abort leaves the motor running.
AbortRunning ==
    /\ led' = "flash_fast"
    /\ preparationState' = "ERROR"
    /\ taskPc' = "publishError"
    /\ UNCHANGED <<published, notified, callVars, latchVars, motorVars, pressed, dispensing>>

\* abort_preparation() up to the store of ERROR; PublishError publishes it.
Abort ==
    /\ SetSpeed("stop")
    /\ led' = "flash_fast"
    /\ preparationState' = "ERROR"
    /\ taskPc' = "publishError"
    /\ UNCHANGED <<published, notified, callVars, latchVars, position, driven, pressed,
                   dispensing>>

DownTimeout == taskPc = "down" /\ Abort
StopTimeout == taskPc = "stop" /\ motor # "idle" /\ Abort
MoveRefused == taskPc = "move" /\ Abort
SlowStalled == taskPc = "slow" /\ position < SlowPos /\ motor = "idle" /\ Abort

\* The first half of set_state(): store s, to be published at pc.
Store(s, pc) ==
    /\ preparationState' = s
    /\ taskPc' = pc
    /\ UNCHANGED <<published, notified, callVars, latchVars, pressed, position, driven>>

StoreSlow ==
    /\ taskPc = "stop" /\ motor = "idle"
    /\ Store("MOVE_UP_SLOW", "publishSlow")
    /\ UNCHANGED <<motor, led, dispensing>>

StartMove ==
    /\ taskPc = "move"
    /\ motor' = "toTop"
    /\ taskPc' = "slow"
    /\ UNCHANGED <<preparationState, published, notified, callVars, latchVars, position, driven,
                   pressed, led, dispensing>>

StoreFast ==
    /\ taskPc = "slow" /\ position >= SlowPos
    /\ Store("MOVE_UP_FAST", "publishFast")
    /\ UNCHANGED <<motor, led, dispensing>>

\* Fault: full speed by set_speed(512), which runs on without a target.
SpeedUpEndless ==
    /\ taskPc = "fast"
    /\ taskPc' = "up" /\ dispensing' = TRUE
    /\ SetSpeed("up")
    /\ UNCHANGED <<preparationState, published, notified, callVars, latchVars, position, driven,
                   pressed, led>>

\* Full speed and the dispenser; a dispenser that is already running goes on.
SpeedUp ==
    /\ taskPc = "fast"
    /\ taskPc' = "up" /\ dispensing' = TRUE
    /\ UNCHANGED <<preparationState, published, notified, callVars, latchVars, motorVars,
                   pressed, led>>

\* Fault: does not wait for the end of the move.
CompleteEarly ==
    /\ taskPc = "up"
    /\ led' = "on"
    /\ Store("IDLE", "publishIdle")
    /\ UNCHANGED <<motor, dispensing>>

Complete ==
    /\ taskPc = "up" /\ motor = "idle"
    /\ led' = "on"
    /\ Store("IDLE", "publishIdle")
    /\ UNCHANGED <<motor, dispensing>>

\* The second half of set_state(): the callback sets the characteristic.
Publish(pc, s, next) ==
    /\ taskPc = pc
    /\ published' = s
    /\ taskPc' = next
    /\ led' = IF pc = "publishSlow" THEN "flash" ELSE led
    /\ UNCHANGED <<preparationState, notified, callVars, latchVars, motorVars, pressed, dispensing>>

PublishSlow  == Publish("publishSlow", "MOVE_UP_SLOW", "move")
PublishFast  == Publish("publishFast", "MOVE_UP_FAST", "fast")
PublishIdle  == Publish("publishIdle", "IDLE", "drop")
PublishError == Publish("publishError", "ERROR", "drop")

\* ulTaskNotifyTake(pdTRUE, 0): drop start requests that arrived while running.
DropRequests ==
    /\ taskPc = "drop"
    /\ notified' = FALSE
    /\ taskPc' = "wait"
    /\ UNCHANGED <<preparationState, published, callVars, latchVars, motorVars, pressed, led,
                   dispensing>>

DispenserFinished ==
    /\ dispensing
    /\ dispensing' = FALSE
    /\ UNCHANGED <<preparationState, published, notified, callVars, latchVars, motorVars,
                   taskPc, pressed, led>>

----------------------------------------------------------------------------
CallStep(c) ==
    \/ ClaimIdle(c)
    \/ ClaimError(c)
    \/ CloseLatch(c)
    \/ CheckSwitch(c)
    \/ PublishDown(c)
    \/ Notify(c)
    \/ LaunchArm(c)

NewCall(c) ==
    \/ RequestPrepare(c)
    \/ LaunchOpen(c)
    \/ \E angle \in {"open", "closed"} : ServoWrite(c, angle)
    \/ \E dir \in {"up", "down", "stop"} : MotorWrite(c, dir)

TaskStep ==
    \/ StartRun
    \/ PollSwitch
    \/ BottomReached
    \/ DownTimeout
    \/ StopTimeout
    \/ StoreSlow
    \/ PublishSlow
    \/ MoveRefused
    \/ StartMove
    \/ SlowStalled
    \/ StoreFast
    \/ PublishFast
    \/ SpeedUp
    \/ Complete
    \/ PublishIdle
    \/ PublishError
    \/ DropRequests

Next ==
    \/ \E c \in Callers : CallStep(c) \/ NewCall(c)
    \/ TaskStep
    \/ MotorStep
    \/ AutoLock
    \/ DispenserFinished

Spec == Init /\ [][Next]_vars

\* FreeRTOS runs every ready task sooner or later and the step generator of
\* the motor is hardware; nothing forces anybody to make a call.
Fairness ==
    /\ \A c \in Callers : WF_vars(CallStep(c))
    /\ WF_vars(TaskStep)
    /\ WF_vars(MotorStep)

FairSpec == Spec /\ Fairness

----------------------------------------------------------------------------
(* Properties *)

\* Types of the variables.
TypeOK ==
    /\ preparationState \in States /\ published \in States
    /\ notified \in BOOLEAN /\ pressed \in BOOLEAN /\ buttonDown \in BOOLEAN
    /\ taskPc \in {"wait"} \cup RunPcs \cup TailPcs
    /\ callPc \in [Callers -> {"ready", "claimIdle", "claimError", "arm"} \cup Claiming]
    /\ previous \in [Callers -> Free]
    /\ latch \in {"open", "closed"} /\ autoLock \in BOOLEAN /\ opened \in BOOLEAN
    /\ led \in {"off", "pulse", "flash", "flash_fast", "on"}
    /\ motor \in MotorModes /\ position \in 0 .. MaxPos /\ driven \in BOOLEAN
    /\ dispensing \in BOOLEAN

\* A preparation has one owner: a caller that claimed it, the notification on
\* its way to the task, or the running task; and while the state is IDLE or
\* ERROR, inviting the next claim, it has none.  The code relies on the two
\* compare-and-swaps of launcher_prepare() and on its unchecked stores being
\* made by the owner only.
Claimed(c) == callPc[c] \in Claiming
TaskRuns   == taskPc \in RunPcs
SingleOwner ==
    /\ \A c, d \in Callers : Claimed(c) /\ Claimed(d) => c = d
    /\ \A c \in Callers : Claimed(c) => ~notified /\ ~TaskRuns
    /\ ~(notified /\ TaskRuns)
    /\ preparationState \in Free =>
          ~notified /\ ~TaskRuns /\ \A c \in Callers : ~Claimed(c)

\* Once nothing is in progress, clients can read the state the launcher is in:
\* a refused request ("not published: clients still have the old state") never
\* leaves the atomic and the characteristic apart.
FreeIsPublished ==
    preparationState \in Free /\ taskPc \in {"wait", "drop"} => published = preparationState

\* What the task still has to report, and a preparation that was reported but not yet moved up.
Owed  == CASE taskPc = "publishIdle"  -> "IDLE"
           [] taskPc = "publishError" -> "ERROR"
           [] OTHER                   -> "none"
Begun == \/ notified \/ \E c \in Callers : callPc[c] = "notify"
         \/ taskPc \in {"down", "stop", "publishSlow"}

Report == INSTANCE PreparationReport WITH owed <- Owed, begun <- Begun

\* What the control unit infers from the reports: they come in the order of a run, and IDLE is
\* reported at the end of a complete one only.  They are made by two threads, so the end of a run
\* may be reported after the beginning of the next.
ReportsInOrder == Report!Spec

\* The carriage goes down to hook onto a closed latch, unless somebody opened
\* the latch after this preparation was claimed.
LatchedForRun == TaskRuns /\ latch = "open" => opened

\* As long as no client drives the motor itself, the motor is powered up or
\* down only on behalf of the phase that wants it: an aborted or finished run
\* leaves it stopped or stopping.
MotorOwned == ~driven =>
    /\ motor = "down" => taskPc = "down"
    /\ motor = "toTop" => taskPc \in {"slow", "publishFast", "fast", "up"}
    /\ motor # "up"

\* "leaves LED 1 on; the launcher is ready to fire": as long as no client
\* drives the motor itself, LED 1 is on only with the carriage at rest at the top.
LedOnMeansReady == ~driven /\ led = "on" => position = TopPos /\ motor = "idle"

\* A run that starts ends, in IDLE or in ERROR, and the task sleeps again,
\* unless a client keeps the motor running.
RunEnds == taskPc = "down" ~> (taskPc = "wait" \/ driven)

\* An accepted start request leads to a run: MOVE_DOWN is left again, also
\* when no client drives the motor.
StartIsServed ==
    preparationState = "MOVE_DOWN" ~> (preparationState # "MOVE_DOWN" \/ driven)
============================================================================
