----------------------------- MODULE LinkService -----------------------------
(***************************************************************************)
(* What the connection manager promises the rest of the control unit, as a *)
(* specification of its own: values of the connection that is up, and      *)
(* writes that are executed in the order in which they were queued, once,  *)
(* while connected, and not in a later connection - unless the             *)
(* configuration was reloaded.  It knows nothing of the BLE task, of       *)
(* session set-up, or of the queue's length.                               *)
(***************************************************************************)
EXTENDS Integers

CONSTANTS Required,   \* characteristics that have a value whenever connected
          Writes,     \* numbers of writes
          Ring,       \* so many results are remembered
          NoValue

VARIABLES connected,  \* what callers read as Connected
          session,    \* number of the current connection, or of the last one
          view,       \* what callers read of each required characteristic
          accepted,   \* writes that are queued, with the connection of their callers
          nextSeq,    \* number of the next write
          result,     \* what callers read of each write
          reloaded    \* was another device saved or erased?

vars == <<connected, session, view, accepted, nextSeq, result, reloaded>>

Nothing == [c \in Required |-> NoValue]

Init ==
    /\ ~connected /\ session = 0 /\ view = Nothing
    /\ accepted = {} /\ nextSeq = 1 /\ result = [s \in Writes |-> "Unknown"]
    /\ reloaded = FALSE

\* Nobody sees that a new connection is made ...
Dial ==
    /\ ~connected
    /\ session' = session + 1
    /\ UNCHANGED <<connected, view, accepted, nextSeq, result, reloaded>>

\* ... until every required value has been received over it.
Connect ==
    /\ ~connected /\ connected'
    /\ \A c \in Required : view'[c].conn = session
    /\ UNCHANGED <<session, accepted, nextSeq, result, reloaded>>

Update(c) ==
    /\ connected
    /\ view'[c].conn = session /\ view' = [view EXCEPT ![c] = view'[c]]
    /\ UNCHANGED <<connected, session, accepted, nextSeq, result, reloaded>>

Lose ==
    /\ connected /\ ~connected'
    /\ view' = Nothing
    /\ UNCHANGED <<session, accepted, nextSeq, result, reloaded>>

\* A write is accepted or refused; the result of an old one is forgotten.
Write(accept) ==
    /\ session # 0 /\ nextSeq \in Writes
    /\ nextSeq' = nextSeq + 1
    /\ accepted' = IF accept THEN accepted \cup {[seq |-> nextSeq, conn |-> session]} ELSE accepted
    /\ result' = [s \in Writes |->
                     IF s = nextSeq THEN (IF accept THEN "Pending" ELSE "Failed")
                     ELSE IF s = nextSeq - Ring THEN "Unknown" ELSE result[s]]
    /\ UNCHANGED <<connected, session, view, reloaded>>

\* The oldest write is executed or given up.
Answer(w, ok) ==
    /\ \A x \in accepted : w.seq <= x.seq
    /\ ok => connected /\ (w.conn = session \/ reloaded)
    /\ accepted' = accepted \ {w}
    /\ result' = IF result[w.seq] = "Unknown" THEN result
                 ELSE [result EXCEPT ![w.seq] = IF ok THEN "Ok" ELSE "Failed"]
    /\ UNCHANGED <<connected, session, view, nextSeq, reloaded>>

Reload ==
    /\ reloaded' = TRUE
    /\ UNCHANGED <<connected, session, view, accepted, nextSeq, result>>

Next ==
    \/ Dial \/ Connect \/ Lose \/ Reload
    \/ \E c \in Required : Update(c)
    \/ \E accept \in BOOLEAN : Write(accept)
    \/ \E w \in accepted, ok \in BOOLEAN : Answer(w, ok)

Spec == Init /\ [][Next]_vars
=============================================================================
