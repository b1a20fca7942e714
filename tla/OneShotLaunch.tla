---------------------------- MODULE OneShotLaunch ----------------------------
(***************************************************************************)
(* The safety rule for launching, as a specification of its own: what has  *)
(* been seen of the launcher during the current connection, and when a     *)
(* launch may be sent.  It knows nothing of timers, flags or messages.     *)
(***************************************************************************)
VARIABLES seen,       \* of a preparation: "nothing", that it is "running", that it "finished"
          launcher,   \* the launcher as the last step saw it
          pressed,    \* was the launch button pressed for that step?
          sent        \* did that step send a launch?

vars == <<seen, launcher, pressed, sent>>

Running == {"MOVE_DOWN", "MOVE_UP_SLOW", "MOVE_UP_FAST"}

Init == seen = "nothing" /\ launcher = "offline" /\ pressed = FALSE /\ sent = FALSE

\* A preparation counts as finished when it was seen running and then idle;
\* an error, an unknown state or a lost connection wipes out what was seen.
Look(l) ==
    IF l \in Running THEN "running"
    ELSE IF l = "IDLE" THEN (IF seen = "running" THEN "finished" ELSE seen)
    ELSE "nothing"

\* A launch takes a press, an idle launcher and a finished preparation, and
\* uses the preparation up.
Launch ==
    /\ pressed' /\ launcher' = "IDLE" /\ Look(launcher') = "finished"
    /\ sent' = TRUE /\ seen' = "nothing"

\* Otherwise nothing is sent; a new prepare request also gives up what was seen.
Hold ==
    /\ sent' = FALSE
    /\ \/ seen' = Look(launcher')
       \/ launcher' \in {"IDLE", "ERROR"} /\ seen' = "nothing"

Next ==
    /\ launcher' \in Running \cup {"offline", "unknown", "IDLE", "ERROR"}
    /\ pressed' \in BOOLEAN
    /\ Launch \/ Hold

Spec == Init /\ [][Next]_vars
=============================================================================
