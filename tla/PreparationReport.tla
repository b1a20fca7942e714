-------------------------- MODULE PreparationReport --------------------------
(***************************************************************************)
(* What clients of the launcher read of its preparations, as a             *)
(* specification of its own.  The states are reported in the order of a    *)
(* run, and IDLE ends only a run that went all the way up; but the end of  *)
(* a run is reported late, when the next one may have been reported        *)
(* already, and a run that was reported may never take place.              *)
(***************************************************************************)
VARIABLES published,   \* what clients read
          owed,        \* the end of a run that is not reported yet, or "none"
          begun        \* a preparation is reported that has not moved up yet

vars == <<published, owed, begun>>

Free == {"IDLE", "ERROR"}

Init == published = "IDLE" /\ owed = "none" /\ ~begun

Begin ==
    /\ published \in Free \/ owed # "none"
    /\ published' = "MOVE_DOWN" /\ begun' = TRUE
    /\ UNCHANGED owed

\* The request is lost on its way to the task that would run it.
Forget == begun' = FALSE /\ UNCHANGED <<published, owed>>

MoveUpSlow ==
    /\ begun /\ owed = "none" /\ published \in {"MOVE_DOWN"} \cup Free
    /\ published' = "MOVE_UP_SLOW" /\ begun' = FALSE
    /\ UNCHANGED owed

MoveUpFast ==
    /\ published = "MOVE_UP_SLOW" /\ owed = "none"
    /\ published' = "MOVE_UP_FAST"
    /\ UNCHANGED <<owed, begun>>

Complete ==
    /\ published = "MOVE_UP_FAST" /\ owed = "none"
    /\ owed' = "IDLE"
    /\ UNCHANGED <<published, begun>>

Fail ==
    /\ begun \/ published = "MOVE_UP_SLOW"
    /\ owed = "none" /\ owed' = "ERROR" /\ begun' = FALSE
    /\ UNCHANGED published

ReportEnd ==
    /\ owed # "none"
    /\ published' = owed /\ owed' = "none"
    /\ UNCHANGED begun

Next ==
    \/ Begin \/ Forget \/ MoveUpSlow \/ MoveUpFast
    \/ Complete \/ Fail \/ ReportEnd

Spec == Init /\ [][Next]_vars
=============================================================================
