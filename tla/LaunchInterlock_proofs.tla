----------------------- MODULE LaunchInterlock_proofs -----------------------
(***************************************************************************)
(* Proofs about LaunchInterlock, for all timeouts, every width of the      *)
(* clock and any time between two steps.  The handlers are functions on    *)
(* one record; each lemma says what one of them does to the fields the     *)
(* launch rule depends on.                                                 *)
(***************************************************************************)
EXTENDS LaunchInterlock, TLAPS

LEMMA Zero == 0 \in Ages
BY InterlockAssumption DEF Ages

\* t has what the launch rule looks at from s.
Alike(s, t) ==
    /\ t \in Logic
    /\ t.prepared = s.prepared /\ t.prepRunning = s.prepRunning /\ t.prevKnown = s.prevKnown
    /\ t.launched = s.launched /\ t.launchedAge = s.launchedAge /\ t.cmds = s.cmds

\* Nor is the request, or the timeout, of a preparation touched.
Same(s, t) ==
    Alike(s, t) /\ t.prepareRequested = s.prepareRequested /\ t.prepTimedOut = s.prepTimedOut

\* A message or a flash changes nothing that matters.
LEMMA Talk ==
    ASSUME NEW s \in Logic, NEW m \in Messages
    PROVE  Same(s, SetMessage(s, m)) /\ Same(s, Reject(s, m))
<1> USE Zero
<1> DEFINE flash(t) == [t EXCEPT !.rejectFlash = TRUE, !.rejectFlashAge = 0]
<1>1. Same(s, SetMessage(s, m))
  BY DEF SetMessage, Same, Alike, Logic
<1>2. ASSUME NEW t \in Logic PROVE Same(t, flash(t))
  BY DEF Same, Alike, Logic
<1>3. Same(SetMessage(s, m), Reject(s, m))
  BY <1>1, <1>2 DEF Reject, Same, Alike
<1> QED
  BY <1>1, <1>3 DEF Same, Alike

LEMMA Clock ==
    ASSUME NEW age \in Ages, NEW dt \in Nat, NEW on \in BOOLEAN
    PROVE  /\ Older(on, age, dt) \in Ages
           /\ on /\ age + dt < Wrap => Older(on, age, dt) = age + dt
BY InterlockAssumption DEF Older, Ages

LEMMA BeginStep ==
    ASSUME NEW s \in Logic, NEW dt \in Nat
    PROVE  /\ Begin(s, dt) \in Logic
           /\ Begin(s, dt).prepared = s.prepared /\ Begin(s, dt).prepRunning = s.prepRunning
           /\ Begin(s, dt).prevKnown = s.prevKnown /\ Begin(s, dt).launched = s.launched
           /\ Begin(s, dt).launchedAge = Older(s.launched, s.launchedAge, dt)
           /\ Begin(s, dt).cmds = {}
<1>1. /\ Older(s.prepRunning, s.prepRunningAge, dt) \in Ages
      /\ Older(s.prepareRequested, s.prepareRequestedAge, dt) \in Ages
      /\ Older(s.launched, s.launchedAge, dt) \in Ages
      /\ Older(s.rejectFlash, s.rejectFlashAge, dt) \in Ages
  BY Clock DEF Logic
<1> QED
  BY <1>1 DEF Begin, Logic, Messages

LEMMA Unknown ==
    ASSUME NEW s \in Logic, NEW launcher \in {"offline", "unknown"},
           NEW t, t = TrackUnknown(s, launcher)
    PROVE  /\ t \in Logic /\ ~t.prepared /\ ~t.prepRunning /\ ~t.prevKnown
           /\ t.launched = s.launched /\ t.launchedAge = s.launchedAge /\ t.cmds = s.cmds
           /\ launcher = "offline" => ~t.prepTimedOut /\ ~t.prepareRequested
BY Zero DEF TrackUnknown, Logic

LEMMA RunningSeen ==
    ASSUME NEW s \in Logic, NEW t, t = TrackRunning(s)
    PROVE  /\ t \in Logic /\ ~t.prepared /\ t.prepRunning /\ t.prevKnown
           /\ t.launched = s.launched /\ t.launchedAge = s.launchedAge /\ t.cmds = s.cmds
<1> DEFINE started == [s EXCEPT !.prepRunning = TRUE,
                                !.prepRunningAge = IF s.prepRunning THEN s.prepRunningAge ELSE 0,
                                !.prepared = FALSE, !.prevKnown = TRUE,
                                !.prepareRequested = FALSE, !.prepareRequestedAge = 0]
           late == [started EXCEPT !.prepTimedOut = TRUE]
<1>1. /\ started \in Logic /\ ~started.prepared /\ started.prepRunning /\ started.prevKnown
      /\ started.launched = s.launched /\ started.launchedAge = s.launchedAge
      /\ started.cmds = s.cmds
  BY Zero DEF Logic
<1>2. t = started \/ t = SetMessage(late, "PrepareTimeout")
  BY DEF TrackRunning
<1> HIDE DEF started
<1>3. Alike(started, late)
  BY <1>1 DEF Alike, Logic
<1>4. Alike(late, SetMessage(late, "PrepareTimeout"))
  BY <1>3, Talk DEF Alike, Same, Messages
<1> QED
  BY <1>1, <1>2, <1>3, <1>4 DEF Alike

LEMMA Stopped ==
    ASSUME NEW s \in Logic, NEW launcher \in {"IDLE", "ERROR"},
           NEW t, t = TrackStopped(s, launcher)
    PROVE  /\ t \in Logic /\ ~t.prepRunning /\ t.prevKnown
           /\ t.prepared <=> launcher = "IDLE" /\ (s.prepared \/ (s.prepRunning /\ s.prevKnown))
           /\ t.launched = s.launched /\ t.launchedAge = s.launchedAge /\ t.cmds = s.cmds
           /\ ~t.prepTimedOut
<1> DEFINE p == launcher = "IDLE" /\ (s.prepared \/ (s.prepRunning /\ s.prevKnown))
           q == s.prepareRequested /\ launcher # "ERROR"
           a == IF launcher = "ERROR" THEN 0 ELSE s.prepareRequestedAge
<1>1. p \in BOOLEAN /\ q \in BOOLEAN /\ a \in Ages
  BY Zero DEF Logic
<1>2. t = [s EXCEPT !.prepared = p, !.prepRunning = FALSE, !.prepRunningAge = 0,
                    !.prepTimedOut = FALSE, !.prevKnown = TRUE,
                    !.prepareRequested = q, !.prepareRequestedAge = a]
  BY Zenon DEF TrackStopped
<1>3. t.prepared = p
  <2> HIDE DEF p, q, a
  <2> QED
    BY <1>2 DEF Logic
<1>4. /\ t \in Logic /\ ~t.prepRunning /\ t.prevKnown /\ ~t.prepTimedOut
      /\ t.launched = s.launched /\ t.launchedAge = s.launchedAge /\ t.cmds = s.cmds
  <2> HIDE DEF p, q, a
  <2> QED
    BY <1>1, <1>2, Zero DEF Logic
<1> QED
  BY <1>3, <1>4

LEMMA Refused ==
    ASSUME NEW s \in Logic, NEW t, t = CheckRefused(s)
    PROVE  Alike(s, t) /\ t.prepTimedOut = s.prepTimedOut /\ (t.prepareRequested => s.prepareRequested)
<1> DEFINE u == [s EXCEPT !.prepareRequested = FALSE, !.prepareRequestedAge = 0]
<1>1. Alike(s, u) /\ u.prepTimedOut = s.prepTimedOut /\ ~u.prepareRequested
  BY Zero DEF Alike, Logic
<1>2. t = s \/ t = Reject(u, "PrepareRefused")
  BY DEF CheckRefused
<1> HIDE DEF u
<1>3. Same(u, Reject(u, "PrepareRefused"))
  BY <1>1, Talk DEF Alike, Messages
<1> QED
  BY <1>1, <1>2, <1>3 DEF Alike, Same

\* What a step sees of a finished preparation.
Looked(s, launcher) == launcher = "IDLE" /\ (s.prepared \/ (s.prepRunning /\ s.prevKnown))

LEMMA Tracked ==
    ASSUME NEW s \in Logic, NEW launcher \in Launcher, NEW t, t = TrackLauncher(s, launcher)
    PROVE  /\ t \in Logic
           /\ t.launched = s.launched /\ t.launchedAge = s.launchedAge /\ t.cmds = s.cmds
           /\ t.prepared <=> Looked(s, launcher)
           /\ t.prepRunning <=> launcher \in Running
           /\ t.prevKnown <=> launcher \notin {"offline", "unknown"}
           /\ launcher = "offline" => ~t.prepTimedOut /\ ~t.prepareRequested
           /\ launcher = "IDLE" => ~t.prepTimedOut
<1>1. CASE launcher \in {"offline", "unknown"}
  <2>1. PICK u : u = TrackUnknown(s, launcher) /\ t = CheckRefused(u)
    BY <1>1 DEF TrackLauncher
  <2> QED
    BY <1>1, <2>1, Unknown, Refused DEF Alike, Looked, Running
<1>2. CASE launcher \in Running
  <2>1. PICK u : u = TrackRunning(s) /\ t = CheckRefused(u)
    BY <1>2 DEF TrackLauncher, Running
  <2> QED
    BY <1>2, <2>1, RunningSeen, Refused DEF Alike, Looked, Running
<1>3. CASE launcher \in {"IDLE", "ERROR"}
  <2>1. PICK u : u = TrackStopped(s, launcher) /\ t = CheckRefused(u)
    BY <1>3 DEF TrackLauncher, Running
  <2> QED
    BY <1>3, <2>1, Stopped, Refused DEF Alike, Looked, Running
<1> QED
  BY <1>1, <1>2, <1>3 DEF Launcher

\* A launch is sent exactly when the button was pressed and nothing speaks
\* against it; otherwise the button changes nothing.
LEMMA LaunchHandled ==
    ASSUME NEW s \in Logic, NEW i \in Inputs, NEW t, t = HandleLaunch(s, i)
    PROVE  /\ t \in Logic
           /\ t.prepRunning = s.prepRunning /\ t.prevKnown = s.prevKnown
           /\ t.prepTimedOut = s.prepTimedOut /\ t.prepareRequested = s.prepareRequested
           /\ \/ /\ i.pressed /\ i.launcher = "IDLE" /\ s.prepared /\ ~s.prepTimedOut /\ ~LockedOut(s)
                 /\ t.cmds = s.cmds \cup {"launch"} /\ ~t.prepared
                 /\ t.launched /\ t.launchedAge = 0
              \/ /\ ~(i.pressed /\ i.launcher = "IDLE" /\ s.prepared /\ ~s.prepTimedOut /\ ~LockedOut(s))
                 /\ Alike(s, t)
<1> DEFINE told == IF "launch" \in i.failed THEN Reject(s, "LaunchFailed") ELSE s
           reject == LaunchRejection(told, i.launcher)
           released == [told EXCEPT !.cmds = told.cmds \cup {"launch"}, !.prepared = FALSE,
                                    !.launched = TRUE, !.launchedAge = 0]
           free(u) == i.launcher = "IDLE" /\ u.prepared /\ ~u.prepTimedOut /\ ~LockedOut(u)
<1>1. Same(s, told)
  <2>1. Same(s, Reject(s, "LaunchFailed")) /\ Same(s, s)
    BY Talk DEF Messages, Same, Alike
  <2> QED
    BY <2>1
<1>2. t = IF ~i.pressed THEN told
          ELSE IF reject # "None" THEN Reject(told, reject)
          ELSE SendLaunch(told)
  BY DEF HandleLaunch
<1>3. told \in Logic
  BY <1>1 DEF Same, Alike
<1> HIDE DEF told
<1>4. reject \in Messages /\ (reject = "None" <=> free(told))
  <2>1. i.launcher \in Launcher
    BY DEF Inputs
  <2> QED
    BY <2>1, <1>3 DEF LaunchRejection, Messages, Launcher
<1>5. free(told) <=> free(s)
  BY <1>1 DEF Same, Alike, LockedOut
<1>6. CASE ~i.pressed
  <2>1. t = told
    BY <1>2, <1>6
  <2> QED
    BY <1>1, <1>6, <2>1 DEF Same, Alike
<1>7. CASE i.pressed /\ ~free(s)
  <2>1. t = Reject(told, reject)
    BY <1>2, <1>4, <1>5, <1>7
  <2>2. Same(told, t)
    BY <1>3, <1>4, <2>1, Talk
  <2> QED
    BY <1>1, <1>7, <2>2 DEF Same, Alike
<1>8. CASE i.pressed /\ free(s)
  <2>1. t = SetMessage(released, "LaunchSent")
    BY <1>2, <1>4, <1>5, <1>8 DEF SendLaunch
  <2>2. /\ released \in Logic /\ ~released.prepared
        /\ released.launched /\ released.launchedAge = 0
        /\ released.cmds = told.cmds \cup {"launch"}
        /\ released.prepRunning = told.prepRunning /\ released.prevKnown = told.prevKnown
        /\ released.prepTimedOut = told.prepTimedOut
        /\ released.prepareRequested = told.prepareRequested
    BY <1>3, Zero DEF Logic, OneShots
  <2> HIDE DEF released
  <2>3. Same(released, t)
    BY <2>1, <2>2, Talk DEF Messages
  <2> QED
    BY <1>1, <1>8, <2>2, <2>3 DEF Same, Alike
<1> QED
  BY <1>6, <1>7, <1>8

\* A prepare request gives up what was seen, with a launcher that is idle or in
\* error; a refused one, or none, changes nothing that matters to a launch.
LEMMA PrepareHandled ==
    ASSUME NEW s \in Logic, NEW i \in Inputs, NEW t, t = HandlePrepare(s, i)
    PROVE  /\ t \in Logic
           /\ t.prepRunning = s.prepRunning /\ t.prevKnown = s.prevKnown
           /\ t.launched = s.launched /\ t.launchedAge = s.launchedAge
           /\ "launch" \in t.cmds <=> "launch" \in s.cmds
           /\ s.prepTimedOut \/ ~t.prepTimedOut
           /\ i.launcher = "offline" => s.prepareRequested \/ ~t.prepareRequested
           /\ \/ t.prepared = s.prepared
              \/ i.launcher \in {"IDLE", "ERROR"} /\ i.request /\ ~t.prepared
<1> DEFINE open == [s EXCEPT !.prepareRequested = FALSE, !.prepareRequestedAge = 0]
           told == IF "prepare" \in i.failed THEN Reject(open, "PrepareFailed") ELSE s
           reject == PrepareRejection(told, i.launcher)
           asked == [told EXCEPT !.cmds = told.cmds \cup {"prepare"},
                                 !.prepareRequested = TRUE, !.prepareRequestedAge = 0,
                                 !.prepared = FALSE, !.prepTimedOut = FALSE]
<1>1. /\ Alike(s, told) /\ told.prepTimedOut = s.prepTimedOut
      /\ told.prepareRequested => s.prepareRequested
  <2>1. Alike(s, open) /\ open.prepTimedOut = s.prepTimedOut /\ ~open.prepareRequested
    BY Zero DEF Alike, Logic
  <2> HIDE DEF open
  <2>2. Same(open, Reject(open, "PrepareFailed"))
    BY <2>1, Talk DEF Messages, Alike
  <2>3. Alike(s, s)
    BY DEF Alike
  <2> QED
    BY <2>1, <2>2, <2>3 DEF Same, Alike
<1>2. t = IF ~i.request THEN told
          ELSE IF reject # "None" THEN Reject(told, reject)
          ELSE SendPrepare(told)
  BY DEF HandlePrepare
<1>3. told \in Logic
  BY <1>1 DEF Alike
<1> HIDE DEF told
<1>4. reject \in Messages /\ (reject = "None" => i.launcher \in {"IDLE", "ERROR"})
  <2>1. i.launcher \in Launcher
    BY DEF Inputs
  <2> QED
    BY <2>1, <1>3 DEF PrepareRejection, Messages, Launcher
<1>5. CASE ~i.request
  <2>1. t = told
    BY <1>2, <1>5
  <2> QED
    BY <1>1, <2>1 DEF Alike
<1>6. CASE i.request /\ reject # "None"
  <2>1. Same(told, t)
    BY <1>2, <1>3, <1>4, <1>6, Talk
  <2> QED
    BY <1>1, <2>1 DEF Same, Alike
<1>7. CASE i.request /\ reject = "None"
  <2>1. t = SetMessage(asked, "PrepareSent")
    BY <1>2, <1>7 DEF SendPrepare
  <2>2. /\ asked \in Logic /\ ~asked.prepared /\ ~asked.prepTimedOut
        /\ asked.cmds = told.cmds \cup {"prepare"}
        /\ asked.launched = told.launched /\ asked.launchedAge = told.launchedAge
        /\ asked.prepRunning = told.prepRunning /\ asked.prevKnown = told.prevKnown
    BY <1>3, Zero DEF Logic, OneShots
  <2> HIDE DEF asked
  <2>3. Same(asked, t)
    BY <2>1, <2>2, Talk DEF Messages
  <2> QED
    BY <1>1, <1>4, <1>7, <2>2, <2>3 DEF Same, Alike
<1> QED
  BY <1>5, <1>6, <1>7

LEMMA FlashEnded ==
    ASSUME NEW s \in Logic, NEW t, t = EndFlash(s)
    PROVE  Same(s, t)
<1>1. Same(s, [s EXCEPT !.rejectFlash = FALSE, !.rejectFlashAge = 0])
  BY Zero DEF Same, Alike, Logic
<1>2. Same(s, s)
  BY DEF Same, Alike
<1> QED
  BY <1>1, <1>2 DEF EndFlash

----------------------------------------------------------------------------
(* A whole step *)

\* The launch of a step, and what the step leaves of what was seen.
LEMMA StepEffect ==
    ASSUME NEW s \in Logic, NEW i \in Inputs, NEW dt \in Nat, NEW t, t = LogicStep(s, i, dt)
    PROVE  /\ t \in Logic
           /\ t.prepRunning <=> i.launcher \in Running
           /\ t.prevKnown <=> i.launcher \notin {"offline", "unknown"}
           /\ i.launcher = "offline" => ~t.prepTimedOut /\ ~t.prepareRequested
           /\ i.launcher = "IDLE" => ~t.prepTimedOut
           /\ "launch" \in t.cmds <=>
                 i.pressed /\ Looked(s, i.launcher) /\ ~LockedOut(Begin(s, dt))
           /\ t.prepared => Looked(s, i.launcher) /\ "launch" \notin t.cmds
           /\ "launch" \notin t.cmds =>
                 /\ (t.prepared <=> Looked(s, i.launcher)) \/ i.launcher \in {"IDLE", "ERROR"}
                 /\ t.launched = s.launched
                 /\ t.launchedAge = Older(s.launched, s.launchedAge, dt)
           /\ "launch" \in t.cmds => t.launched /\ t.launchedAge = 0
<1>1. PICK b : b = Begin(s, dt)
  OBVIOUS
<1>2. PICK k : k = TrackLauncher(b, i.launcher)
  OBVIOUS
<1>3. PICK l : l = HandleLaunch(k, i)
  OBVIOUS
<1>4. PICK p : p = HandlePrepare(l, i)
  OBVIOUS
<1>5. t = EndFlash(p)
  BY <1>1, <1>2, <1>3, <1>4 DEF LogicStep
<1>6. i.launcher \in Launcher
  BY DEF Inputs
<1>7. /\ b \in Logic /\ b.prepared = s.prepared /\ b.prepRunning = s.prepRunning
      /\ b.prevKnown = s.prevKnown /\ b.launched = s.launched /\ b.cmds = {}
      /\ b.launchedAge = Older(s.launched, s.launchedAge, dt)
  BY <1>1, BeginStep
<1>8. Looked(b, i.launcher) <=> Looked(s, i.launcher)
  BY <1>7 DEF Looked
<1>9. /\ k \in Logic
      /\ k.launched = b.launched /\ k.launchedAge = b.launchedAge /\ k.cmds = {}
      /\ k.prepared <=> Looked(s, i.launcher)
      /\ k.prepRunning <=> i.launcher \in Running
      /\ k.prevKnown <=> i.launcher \notin {"offline", "unknown"}
      /\ i.launcher = "offline" => ~k.prepTimedOut /\ ~k.prepareRequested
      /\ i.launcher = "IDLE" => ~k.prepTimedOut
  BY <1>2, <1>6, <1>7, <1>8, Tracked
<1>10. LockedOut(k) <=> LockedOut(Begin(s, dt))
  BY <1>1, <1>9 DEF LockedOut
<1>11. /\ l \in Logic
       /\ l.prepRunning = k.prepRunning /\ l.prevKnown = k.prevKnown
       /\ l.prepTimedOut = k.prepTimedOut /\ l.prepareRequested = k.prepareRequested
       /\ "launch" \in l.cmds <=>
             i.pressed /\ Looked(s, i.launcher) /\ ~LockedOut(Begin(s, dt))
       /\ "launch" \in l.cmds => ~l.prepared /\ l.launched /\ l.launchedAge = 0
       /\ "launch" \notin l.cmds =>
             /\ l.prepared = k.prepared
             /\ l.launched = k.launched /\ l.launchedAge = k.launchedAge
  BY <1>3, <1>9, <1>10, LaunchHandled DEF Alike, Looked
<1>12. /\ p \in Logic
       /\ p.prepRunning = l.prepRunning /\ p.prevKnown = l.prevKnown
       /\ p.launched = l.launched /\ p.launchedAge = l.launchedAge
       /\ "launch" \in p.cmds <=> "launch" \in l.cmds
       /\ l.prepTimedOut \/ ~p.prepTimedOut
       /\ i.launcher = "offline" => l.prepareRequested \/ ~p.prepareRequested
       /\ p.prepared = l.prepared \/ (i.launcher \in {"IDLE", "ERROR"} /\ ~p.prepared)
  BY <1>4, <1>11, PrepareHandled
<1>13. Same(p, t)
  BY <1>5, <1>12, FlashEnded
<1>14. \A u : u \in Logic => u.prepared \in BOOLEAN
  BY DEF Logic
<1> QED
  BY <1>7, <1>9, <1>11, <1>12, <1>13, <1>14 DEF Same, Alike

----------------------------------------------------------------------------
(* Invariants.  What the object remembers fits what the last step saw.     *)

SeenInv ==
    /\ logic.prepRunning <=> in.launcher \in Running
    /\ logic.prevKnown <=> in.launcher \notin {"offline", "unknown"}
    /\ logic.prepared => in.launcher = "IDLE"
    /\ in.launcher = "IDLE" => ~logic.prepTimedOut
    /\ in.launcher = "offline" => ~logic.prepTimedOut /\ ~logic.prepareRequested

LEMMA TypeInit == Init => TypeOK /\ SeenInv
<1> SUFFICES ASSUME Init PROVE TypeOK /\ SeenInv
  OBVIOUS
<1>1. logic \in Logic
  BY Zero DEF Init, Logic, Messages
<1>2. in \in Inputs
  BY DEF Init, Inputs, Launcher
<1> QED
  BY <1>1, <1>2, InterlockAssumption DEF Init, TypeOK, SeenInv, Running

LEMMA TypeStep ==
    ASSUME TypeOK, NEW i \in Inputs, NEW dt \in 0 .. MaxDelta, NEW answered \in SUBSET OneShots,
           Step(i, dt, answered)
    PROVE  TypeOK' /\ SeenInv'
<1>1. dt \in Nat
  BY InterlockAssumption
<1>2. logic \in Logic /\ logic' = LogicStep(logic, i, dt) /\ in' = i
  BY DEF TypeOK, Step
<1>3. /\ logic' \in Logic
      /\ logic'.prepRunning <=> i.launcher \in Running
      /\ logic'.prevKnown <=> i.launcher \notin {"offline", "unknown"}
      /\ i.launcher = "offline" => ~logic'.prepTimedOut /\ ~logic'.prepareRequested
      /\ i.launcher = "IDLE" => ~logic'.prepTimedOut
      /\ logic'.prepared => i.launcher = "IDLE"
  BY <1>1, <1>2, StepEffect DEF Looked
<1>4. inFlight' \subseteq OneShots
  BY <1>3 DEF Step, TypeOK, Logic
<1>5. sinceLaunch' \in 0 .. LAUNCH_LOCKOUT
  BY <1>1, InterlockAssumption DEF Step, TypeOK, AtMost
<1> QED
  BY <1>2, <1>3, <1>4, <1>5 DEF TypeOK, SeenInv

LEMMA SeenAlways == Spec => [](TypeOK /\ SeenInv)
<1>1. TypeOK /\ SeenInv /\ [Next]_vars => TypeOK' /\ SeenInv'
  <2>1. CASE UNCHANGED vars
    BY <2>1 DEF vars, TypeOK, SeenInv
  <2> QED
    BY <2>1, TypeStep DEF Next
<1> QED
  BY <1>1, TypeInit, PTL DEF Spec

\* The object, the ages of its stamps and the commands in flight keep their types.
THEOREM TypeCorrect == Spec => []TypeOK
BY SeenAlways, PTL

\* No evidence for a preparation survives the connection it was seen in.
THEOREM EvidenceDiesWithConnection == Spec => []ForgetsConnection
<1>1. TypeOK /\ SeenInv => ForgetsConnection
  BY DEF TypeOK, SeenInv, ForgetsConnection, Running
<1> QED
  BY <1>1, SeenAlways, PTL

\* The interlock implements the launch rule.
THEOREM ImplementsRule == Spec => FollowsRule
<1>1. Init => Rule!Init
  BY DEF Init, Rule!Init
<1>2. TypeOK /\ SeenInv /\ [Next]_vars => [Rule!Next]_Rule!vars
  <2> SUFFICES ASSUME TypeOK, SeenInv, Next PROVE Rule!Next
    BY DEF vars, Rule!vars
  <2>1. PICK i \in Inputs, dt \in 0 .. MaxDelta, answered \in SUBSET OneShots : Step(i, dt, answered)
    BY DEF Next
  <2>2. /\ dt \in Nat
        /\ logic \in Logic /\ logic' = LogicStep(logic, i, dt) /\ in' = i
    BY <2>1, InterlockAssumption DEF TypeOK, Step
  <2>3. /\ "launch" \in logic'.cmds => i.pressed /\ Looked(logic, i.launcher)
        /\ logic'.prepared => Looked(logic, i.launcher) /\ "launch" \notin logic'.cmds
        /\ "launch" \notin logic'.cmds =>
              (logic'.prepared <=> Looked(logic, i.launcher)) \/ i.launcher \in {"IDLE", "ERROR"}
        /\ logic'.prepRunning <=> i.launcher \in Running
    BY <2>2, StepEffect
  <2>4. Looked(logic, i.launcher) <=> Rule!Look(i.launcher) = "finished"
    BY DEF Looked, SeenInv, Rule!Look, Rule!Running, Running
  <2>5. /\ i.launcher \in Launcher /\ i.pressed \in BOOLEAN
    BY DEF Inputs
  <2>6. CASE "launch" \in logic'.cmds
    <3>1. i.pressed /\ i.launcher = "IDLE" /\ ~logic'.prepared /\ ~logic'.prepRunning
      BY <2>3, <2>6 DEF Looked, Running
    <3>2. Rule!Launch
      BY <2>2, <2>3, <2>4, <2>6, <3>1 DEF Rule!Launch
    <3> QED
      BY <2>2, <2>5, <3>2 DEF Rule!Next, Launcher, Running, Rule!Running
  <2>7. CASE "launch" \notin logic'.cmds
    <3>1. Rule!Hold
      BY <2>2, <2>3, <2>4, <2>5, <2>7
         DEF Rule!Hold, Rule!Look, Rule!Running, Running, Looked, SeenInv, Launcher
    <3> QED
      BY <2>2, <2>5, <3>1 DEF Rule!Next, Launcher, Running, Rule!Running
  <2> QED
    BY <2>6, <2>7
<1> QED
  BY <1>1, <1>2, SeenAlways, PTL DEF Spec, FollowsRule, Rule!Spec

----------------------------------------------------------------------------
(* The lockout.  Until it is over, the age of the last launch is the real  *)
(* time since then: the clock wraps later.                                 *)

Passed == IF "launch" \in logic.cmds THEN 0 ELSE sinceLaunch

LockoutInv ==
    /\ Passed < LAUNCH_LOCKOUT => logic.launched /\ logic.launchedAge = Passed
    /\ LaunchesApart

LEMMA LockoutStep == TypeOK /\ LockoutInv /\ [Next]_vars => LockoutInv'
<1> SUFFICES ASSUME TypeOK, LockoutInv, [Next]_vars PROVE LockoutInv'
  OBVIOUS
<1>1. CASE UNCHANGED vars
  BY <1>1 DEF vars, LockoutInv, Passed, LaunchesApart
<1>2. CASE Next
  <2>1. PICK i \in Inputs, dt \in 0 .. MaxDelta, answered \in SUBSET OneShots : Step(i, dt, answered)
    BY <1>2 DEF Next
  <2>2. /\ dt \in Nat
        /\ logic \in Logic /\ logic' = LogicStep(logic, i, dt)
    BY <2>1, InterlockAssumption DEF TypeOK, Step
  <2> DEFINE aged == Older(logic.launched, logic.launchedAge, dt)
  <2>3. /\ "launch" \in logic'.cmds => logic'.launched /\ logic'.launchedAge = 0
        /\ "launch" \in logic'.cmds => ~LockedOut(Begin(logic, dt))
        /\ "launch" \notin logic'.cmds => logic'.launched = logic.launched /\ logic'.launchedAge = aged
    BY <2>2, StepEffect
  <2>4. Passed \in 0 .. LAUNCH_LOCKOUT /\ LAUNCH_LOCKOUT \in Nat /\ Wrap \in Nat
    BY InterlockAssumption DEF TypeOK, Passed
  <2>5. sinceLaunch' = AtMost(Passed + dt, LAUNCH_LOCKOUT)
    BY <2>1 DEF Step, Passed
  <2>6. ASSUME sinceLaunch' < LAUNCH_LOCKOUT
        PROVE  logic.launched /\ aged = sinceLaunch'
    <3>1. sinceLaunch' = Passed + dt /\ Passed + dt < LAUNCH_LOCKOUT /\ Passed < LAUNCH_LOCKOUT
      BY <2>2, <2>4, <2>5, <2>6 DEF AtMost
    <3>2. logic.launched /\ logic.launchedAge = Passed
      BY <3>1 DEF LockoutInv
    <3>3. logic.launchedAge + dt < Wrap
      BY <2>2, <2>4, <3>1, <3>2, InterlockAssumption
    <3>4. logic.launchedAge \in Ages /\ logic.launched \in BOOLEAN
      BY <2>2 DEF Logic
    <3> QED
      BY <2>2, <3>1, <3>2, <3>3, <3>4, Clock
  <2>7. "launch" \in logic'.cmds => sinceLaunch' >= LAUNCH_LOCKOUT
    <3>1. sinceLaunch' \in 0 .. LAUNCH_LOCKOUT
      BY <2>2, <2>4, <2>5 DEF AtMost
    <3>2. /\ Begin(logic, dt).launched = logic.launched
          /\ Begin(logic, dt).launchedAge = aged
      BY <2>2, BeginStep
    <3>3. sinceLaunch' < LAUNCH_LOCKOUT => LockedOut(Begin(logic, dt))
      BY <2>6, <3>2 DEF LockedOut
    <3> QED
      BY <2>3, <2>4, <3>1, <3>3
  <2> QED
    BY <2>3, <2>4, <2>6, <2>7 DEF LockoutInv, Passed, LaunchesApart
<1> QED
  BY <1>1, <1>2

\* Two launches are at least the lockout apart, whenever the clock wraps.
THEOREM LockoutHolds == Spec => []LaunchesApart
<1>1. Init => LockoutInv
  BY InterlockAssumption DEF Init, LockoutInv, Passed, LaunchesApart
<1>2. LockoutInv => LaunchesApart
  BY DEF LockoutInv
<1> QED
  BY <1>1, <1>2, SeenAlways, LockoutStep, PTL DEF Spec

\* READY and L2 tell the truth: a press in the next step, at any time, launches
\* exactly if they say ready, but for a lockout that ends, or that the clock
\* brings back, before that step.
THEOREM ReadyTellsTheTruth == Spec => []ReadyIsHonest
<1>1. TypeOK /\ SeenInv => ReadyIsHonest
  <2> SUFFICES ASSUME TypeOK, SeenInv, NEW dt \in 0 .. MaxDelta
               PROVE  /\ Launches(in.launcher, dt) =>
                             \/ Status(logic, in.launcher) = "Ready"
                             \/ LockedOut(logic) /\ logic.launchedAge + dt >= LAUNCH_LOCKOUT
                      /\ Status(logic, in.launcher) = "Ready" =>
                             \/ Launches("IDLE", dt)
                             \/ logic.launched /\ logic.launchedAge + dt >= Wrap
    BY DEF ReadyIsHonest
  <2> DEFINE press(l) == [launcher |-> l, pressed |-> TRUE, request |-> FALSE, failed |-> {}]
  <2>1. /\ logic \in Logic /\ logic.launched \in BOOLEAN /\ logic.launchedAge \in Ages
        /\ logic.launchedAge \in Nat /\ dt \in Nat /\ in.launcher \in Launcher
    BY InterlockAssumption DEF TypeOK, Inputs, Logic, Ages
  <2>2. \A l \in Launcher : Launches(l, dt) <=> Looked(logic, l) /\ ~LockedOut(Begin(logic, dt))
    <3> TAKE l \in Launcher
    <3>1. press(l) \in Inputs /\ press(l).pressed /\ press(l).launcher = l
      BY DEF Inputs
    <3> HIDE DEF press
    <3>2. "launch" \in LogicStep(logic, press(l), dt).cmds
             <=> press(l).pressed /\ Looked(logic, press(l).launcher)
                    /\ ~LockedOut(Begin(logic, dt))
      BY <2>1, <3>1, StepEffect
    <3> QED
      BY <3>1, <3>2 DEF Launches, press
  <2>3. /\ Begin(logic, dt).launched = logic.launched
        /\ Begin(logic, dt).launchedAge = Older(logic.launched, logic.launchedAge, dt)
    BY <2>1, BeginStep
  <2> DEFINE aged == Older(logic.launched, logic.launchedAge, dt)
  <2>4. logic.launched /\ logic.launchedAge + dt < Wrap => aged = logic.launchedAge + dt
    BY <2>1, Clock
  <2> HIDE DEF aged
  <2>5. LockedOut(Begin(logic, dt)) <=> logic.launched /\ aged < LAUNCH_LOCKOUT
    BY <2>3 DEF LockedOut, aged
  <2>6. LAUNCH_LOCKOUT \in Nat /\ Wrap \in Nat /\ LAUNCH_LOCKOUT < Wrap
    BY InterlockAssumption
  <2>7. LockedOut(Begin(logic, dt)) =>
           logic.launched /\ (logic.launchedAge + dt < LAUNCH_LOCKOUT \/ logic.launchedAge + dt >= Wrap)
    <3>1. logic.launchedAge + dt < Wrap \/ logic.launchedAge + dt >= Wrap
      BY <2>1, <2>6
    <3> QED
      BY <2>4, <2>5, <3>1
  <2>8. LockedOut(logic) /\ logic.launchedAge + dt < LAUNCH_LOCKOUT => LockedOut(Begin(logic, dt))
    <3>1. logic.launchedAge + dt < LAUNCH_LOCKOUT => logic.launchedAge + dt < Wrap
      BY <2>1, <2>6
    <3> QED
      BY <2>4, <2>5, <3>1 DEF LockedOut
  <2>9. ASSUME Launches(in.launcher, dt)
        PROVE  \/ Status(logic, in.launcher) = "Ready"
               \/ LockedOut(logic) /\ logic.launchedAge + dt >= LAUNCH_LOCKOUT
    <3>1. Looked(logic, in.launcher) /\ ~LockedOut(Begin(logic, dt))
      BY <2>1, <2>2, <2>9
    <3>2. in.launcher = "IDLE" /\ logic.prepared /\ ~logic.prepTimedOut
      BY <3>1 DEF Looked, SeenInv, Running
    <3>3. CASE LockedOut(logic)
      BY <2>1, <2>8, <3>1, <3>3, InterlockAssumption
    <3>4. CASE ~LockedOut(logic)
      BY <3>2, <3>4 DEF Status, Running
    <3> QED
      BY <3>3, <3>4
  <2>10. ASSUME Status(logic, in.launcher) = "Ready"
        PROVE  Launches("IDLE", dt) \/ (logic.launched /\ logic.launchedAge + dt >= Wrap)
    <3>1. logic.prepared /\ ~LockedOut(logic)
      BY <2>10 DEF Status
    <3>2. Looked(logic, "IDLE")
      BY <3>1 DEF Looked
    <3>3. logic.launched => logic.launchedAge + dt >= LAUNCH_LOCKOUT
      BY <2>1, <3>1, InterlockAssumption DEF LockedOut
    <3>4. LockedOut(Begin(logic, dt)) => logic.launched /\ logic.launchedAge + dt >= Wrap
      BY <2>1, <2>7, <3>3, InterlockAssumption
    <3> QED
      BY <2>2, <3>2, <3>4 DEF Launcher
  <2> QED
    BY <2>9, <2>10
<1> QED
  BY <1>1, SeenAlways, PTL
=============================================================================
