-------------------------- MODULE LaunchInterlock --------------------------
(***************************************************************************)
(* The launcher half of the control unit's ControlLogic: trackLauncher,    *)
(* handleLaunch and handlePrepare of bediening/source/src/                 *)
(* control_logic.cpp, with the part of controller.cpp that feeds them (the *)
(* operator's requests, the results of one-shot commands).                 *)
(*                                                                         *)
(* One Step is one controller_update().  The three handlers run one after  *)
(* the other on the same object, so they are functions from the object to  *)
(* the object (a record, logic), composed in the order of step().  Each    *)
(* time stamp is kept as its age, now - stamp, in uint32 arithmetic        *)
(* (% Wrap); the age of a stamp that no code will look at is 0.            *)
(***************************************************************************)
EXTENDS Integers

CONSTANTS Wrap,                     \* 2^32 ms
          LAUNCH_LOCKOUT, PREPARE_START_TIMEOUT, PREPARE_TIMEOUT, REJECT_FLASH,
          MaxDelta                  \* longest time between two updates

ASSUME InterlockAssumption ==
    /\ Wrap \in Nat \ {0} /\ MaxDelta \in Nat
    /\ LAUNCH_LOCKOUT \in Nat /\ PREPARE_START_TIMEOUT \in Nat
    /\ PREPARE_TIMEOUT \in Nat /\ REJECT_FLASH \in Nat
    /\ LAUNCH_LOCKOUT < Wrap

VARIABLES logic,        \* the ControlLogic object and the outputs of its last step
          in,           \* the inputs of that step which properties refer to
          inFlight,     \* one-shot commands whose result is still awaited
          sinceLaunch   \* history: real time from the last earlier launch to this step

vars == <<logic, in, inFlight, sinceLaunch>>

\* What a step sees of the launcher: not connected, no valid preparation
\* state, or the preparation state itself.
Running  == {"MOVE_DOWN", "MOVE_UP_SLOW", "MOVE_UP_FAST"}
Launcher == {"offline", "unknown", "IDLE", "ERROR"} \cup Running

OneShots == {"launch", "prepare"}
Messages == {"None", "LaunchSent", "LaunchOffline", "LaunchStateUnknown", "LaunchNotPrepared",
             "LaunchBusy", "LaunchError", "LaunchLockout", "LaunchFailed", "PrepareSent",
             "PrepareOffline", "PrepareStateUnknown", "PrepareBusy", "PrepareLockout",
             "PrepareRefused", "PrepareTimeout", "PrepareFailed"}

\* The inputs of a step; failed holds the commands reported as failed.
Inputs == [launcher : Launcher, pressed : BOOLEAN, request : BOOLEAN, failed : SUBSET OneShots]

Ages  == 0 .. Wrap - 1
Logic == [prepared : BOOLEAN, prevKnown : BOOLEAN,
          prepRunning : BOOLEAN, prepRunningAge : Ages, prepTimedOut : BOOLEAN,
          prepareRequested : BOOLEAN, prepareRequestedAge : Ages,
          launched : BOOLEAN, launchedAge : Ages,
          rejectFlash : BOOLEAN, rejectFlashAge : Ages,
          message : Messages, cmds : SUBSET OneShots]

Init ==
    /\ logic = [prepared |-> FALSE, prevKnown |-> FALSE,
                prepRunning |-> FALSE, prepRunningAge |-> 0, prepTimedOut |-> FALSE,
                prepareRequested |-> FALSE, prepareRequestedAge |-> 0,
                launched |-> FALSE, launchedAge |-> 0,
                rejectFlash |-> FALSE, rejectFlashAge |-> 0,
                message |-> "None", cmds |-> {}]
    /\ in = [launcher |-> "offline", pressed |-> FALSE, request |-> FALSE, failed |-> {}]
    /\ inFlight = {}
    /\ sinceLaunch = LAUNCH_LOCKOUT

----------------------------------------------------------------------------
(* Helpers *)

IsProblem(m) == m \notin {"None", "LaunchSent", "PrepareSent"}

\* A problem message is never hidden by an informational one in the same step.
SetMessage(s, m) ==
    IF s.message = "None" \/ IsProblem(m) THEN [s EXCEPT !.message = m] ELSE s

\* Shows m and starts the fast flash of L2.
Reject(s, m) == [SetMessage(s, m) EXCEPT !.rejectFlash = TRUE, !.rejectFlashAge = 0]

LockedOutShort(s) == s.launched /\ s.launchedAge < LAUNCH_LOCKOUT - 1   \* fault: off by one
LockedOut(s) == s.launched /\ s.launchedAge < LAUNCH_LOCKOUT

----------------------------------------------------------------------------
(* trackLauncher() *)

\* Everything known about the launcher dies with the connection; a state that
\* is merely unknown keeps a pending prepare request alive.
TrackUnknown(s, launcher) ==
    LET forgotten == [s EXCEPT !.prepared = FALSE, !.prepRunning = FALSE, !.prepRunningAge = 0,
                               !.prevKnown = FALSE]
    IN  IF launcher = "offline"
        THEN [forgotten EXCEPT !.prepTimedOut = FALSE,
                               !.prepareRequested = FALSE, !.prepareRequestedAge = 0]
        ELSE forgotten

TrackRunning(s) ==
    LET started == [s EXCEPT !.prepRunning = TRUE,
                             !.prepRunningAge = IF s.prepRunning THEN @ ELSE 0,
                             !.prepared = FALSE, !.prevKnown = TRUE,
                             !.prepareRequested = FALSE, !.prepareRequestedAge = 0]
    IN  IF ~started.prepTimedOut /\ started.prepRunningAge > PREPARE_TIMEOUT
        THEN SetMessage([started EXCEPT !.prepTimedOut = TRUE], "PrepareTimeout")
        ELSE started

\* Ready only if WE saw a preparation finish normally during this connection.
TrackStopped(s, launcher) ==
    [s EXCEPT !.prepared = launcher = "IDLE" /\ (@ \/ (s.prepRunning /\ s.prevKnown)),
              !.prepRunning = FALSE, !.prepRunningAge = 0,
              !.prepTimedOut = FALSE, !.prevKnown = TRUE,
              !.prepareRequested = @ /\ launcher # "ERROR",
              !.prepareRequestedAge = IF launcher = "ERROR" THEN 0 ELSE @]

\* Written, but the launcher never started: it refused.
CheckRefused(s) ==
    IF s.prepareRequested /\ s.prepareRequestedAge > PREPARE_START_TIMEOUT
    THEN Reject([s EXCEPT !.prepareRequested = FALSE, !.prepareRequestedAge = 0],
                "PrepareRefused")
    ELSE s

TrackLauncher(s, launcher) ==
    CheckRefused(IF launcher \in {"offline", "unknown"} THEN TrackUnknown(s, launcher)
                 ELSE IF launcher \in Running THEN TrackRunning(s)
                 ELSE TrackStopped(s, launcher))

----------------------------------------------------------------------------
(* handleLaunch() and handlePrepare() *)

LaunchRejection(s, launcher) ==
    IF launcher = "offline" THEN "LaunchOffline"
    ELSE IF launcher = "unknown" THEN "LaunchStateUnknown"
    ELSE IF launcher = "ERROR" \/ s.prepTimedOut THEN "LaunchError"
    ELSE IF launcher # "IDLE" THEN "LaunchBusy"
    ELSE IF LockedOut(s) THEN "LaunchLockout"
    ELSE IF ~s.prepared THEN "LaunchNotPrepared"
    ELSE "None"

\* Fault: the launcher stays ready after a launch.
SendLaunchAgain(s) ==
    SetMessage([s EXCEPT !.cmds = @ \cup {"launch"},
                         !.launched = TRUE, !.launchedAge = 0], "LaunchSent")

\* The arm is released: it must be prepared again.
SendLaunch(s) ==
    SetMessage([s EXCEPT !.cmds = @ \cup {"launch"}, !.prepared = FALSE,
                         !.launched = TRUE, !.launchedAge = 0], "LaunchSent")

HandleLaunch(s, i) ==
    LET told   == IF "launch" \in i.failed THEN Reject(s, "LaunchFailed") ELSE s
        reject == LaunchRejection(told, i.launcher)
    IN  IF ~i.pressed THEN told
        ELSE IF reject # "None" THEN Reject(told, reject)
        ELSE SendLaunch(told)

PrepareRejection(s, launcher) ==
    IF launcher = "offline" THEN "PrepareOffline"
    ELSE IF launcher = "unknown" THEN "PrepareStateUnknown"
    ELSE IF launcher \in Running \/ s.prepareRequested THEN "PrepareBusy"
    ELSE IF LockedOut(s) THEN "PrepareLockout"
    ELSE "None"

SendPrepare(s) ==
    SetMessage([s EXCEPT !.cmds = @ \cup {"prepare"},
                         !.prepareRequested = TRUE, !.prepareRequestedAge = 0,
                         !.prepared = FALSE, !.prepTimedOut = FALSE], "PrepareSent")

HandlePrepare(s, i) ==
    LET told   == IF "prepare" \in i.failed
                  THEN Reject([s EXCEPT !.prepareRequested = FALSE, !.prepareRequestedAge = 0],
                              "PrepareFailed")
                  ELSE s
        reject == PrepareRejection(told, i.launcher)
    IN  IF ~i.request THEN told
        ELSE IF reject # "None" THEN Reject(told, reject)
        ELSE SendPrepare(told)

----------------------------------------------------------------------------
(* step() and controller_update() *)

\* Time goes on and the outputs are cleared.
Older(on, age, dt) == IF on THEN (age + dt) % Wrap ELSE 0
Begin(s, dt) ==
    [s EXCEPT !.prepRunningAge = Older(s.prepRunning, @, dt),
              !.prepareRequestedAge = Older(s.prepareRequested, @, dt),
              !.launchedAge = Older(s.launched, @, dt),
              !.rejectFlashAge = Older(s.rejectFlash, @, dt),
              !.message = "None", !.cmds = {}]

EndFlash(s) ==
    IF s.rejectFlash /\ s.rejectFlashAge >= REJECT_FLASH
    THEN [s EXCEPT !.rejectFlash = FALSE, !.rejectFlashAge = 0] ELSE s

LogicStep(s, i, dt) ==
    EndFlash(HandlePrepare(HandleLaunch(TrackLauncher(Begin(s, dt), i.launcher), i), i))

\* Fault: the lockout is not looked at.
StatusUnlocked(s, launcher) ==
    IF launcher \in {"offline", "unknown"} THEN "Offline"
    ELSE IF launcher = "ERROR" \/ s.prepTimedOut THEN "Error"
    ELSE IF launcher \in Running THEN "Preparing"
    ELSE IF s.prepared THEN "Ready"
    ELSE "Idle"

\* The status that L2 and the display show for the state and inputs of a step.
Status(s, launcher) ==
    IF launcher \in {"offline", "unknown"} THEN "Offline"
    ELSE IF launcher = "ERROR" \/ s.prepTimedOut THEN "Error"
    ELSE IF launcher \in Running THEN "Preparing"
    ELSE IF LockedOut(s) THEN "Launched"
    ELSE IF s.prepared THEN "Ready"
    ELSE "Idle"

AtMost(a, b) == IF a <= b THEN a ELSE b

\* A command sent joins those in flight (a second one of its kind replaces
\* the first); a result is reported once, and only a failure has an effect.
Step(i, dt, answered) ==
    /\ answered \subseteq inFlight /\ i.failed \subseteq answered
    /\ in' = i
    /\ logic' = LogicStep(logic, i, dt)
    /\ inFlight' = (inFlight \ answered) \cup logic'.cmds
    /\ sinceLaunch' = AtMost((IF "launch" \in logic.cmds THEN 0 ELSE sinceLaunch) + dt,
                             LAUNCH_LOCKOUT)

Next == \E i \in Inputs, dt \in 0 .. MaxDelta, answered \in SUBSET OneShots :
            Step(i, dt, answered)

Spec == Init /\ [][Next]_vars

\* The launch rule as an abstract specification.
Rule == INSTANCE OneShotLaunch
    WITH seen <- IF logic.prepared THEN "finished"
                 ELSE IF logic.prepRunning THEN "running" ELSE "nothing",
         launcher <- in.launcher, pressed <- in.pressed,
         sent <- "launch" \in logic.cmds

----------------------------------------------------------------------------
(* Properties *)

\* Types of the variables.
TypeOK ==
    /\ logic \in Logic /\ in \in Inputs /\ inFlight \subseteq OneShots
    /\ sinceLaunch \in 0 .. LAUNCH_LOCKOUT

\* "LAUNCH is a one-shot": each launch command follows the rule stated in
\* control_logic.h, over every history of connections, states and requests.
FollowsRule == Rule!Spec

\* "no launch in the last 6 s": two launches are at least the lockout apart,
\* also when the 32-bit clock wraps around in between.
LaunchesApart == "launch" \in logic.cmds => sinceLaunch >= LAUNCH_LOCKOUT

\* A press in the next step, dt ms later and with the launcher in state l, launches.
Launches(l, dt) ==
    LET next == [launcher |-> l, pressed |-> TRUE, request |-> FALSE, failed |-> {}]
    IN  "launch" \in LogicStep(logic, next, dt).cmds

\* L2 and READY on the display tell the truth, whenever the next step comes.
\* Nothing but READY launches: if the launcher stays as it is and a press
\* launches, the display says ready (or the lockout it shows ends before that
\* step).  And READY launches, with one exception: the clock comes round to the
\* time of the last launch before that step, which locks out once more.
ReadyIsHonest ==
    LET ready == Status(logic, in.launcher) = "Ready"
    IN  \A dt \in 0 .. MaxDelta :
            /\ Launches(in.launcher, dt) =>
                   ready \/ (LockedOut(logic) /\ logic.launchedAge + dt >= LAUNCH_LOCKOUT)
            /\ ready => Launches("IDLE", dt) \/ (logic.launched /\ logic.launchedAge + dt >= Wrap)

\* The evidence for a preparation is never older than the connection: no
\* memory of a state, a run, a finished preparation or a pending timeout
\* survives an offline step, and none but a request one of unknown state.
ForgetsConnection ==
    /\ in.launcher \in {"offline", "unknown"} =>
          ~logic.prepared /\ ~logic.prepRunning /\ ~logic.prevKnown
    /\ in.launcher = "offline" => ~logic.prepTimedOut /\ ~logic.prepareRequested
============================================================================
