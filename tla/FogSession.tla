----------------------------- MODULE FogSession -----------------------------
(***************************************************************************)
(* What the switchboard promises a client about the fog machine: the three *)
(* values it can see, the state, the session flag and the output that      *)
(* makes fog, and nothing of phases, queues, timers or pins.               *)
(***************************************************************************)
VARIABLES state,     \* the published fog state
          session,   \* is a fogging session active?
          output     \* is the machine told to make fog?

Init == state = "NOT_CONNECTED" /\ session = FALSE /\ output = FALSE

\* "Start is accepted only when the machine is ready."
Start ==
    /\ state = "READY" /\ ~session
    /\ state' = "FOGGING" /\ session' = TRUE /\ output' = TRUE

\* A session alternates bursts and pauses and stays FOGGING throughout.
Pause  == session /\ output /\ output' = FALSE /\ UNCHANGED <<state, session>>
Resume == session /\ ~output /\ output' = TRUE /\ UNCHANGED <<state, session>>

\* It ends with the output off; FOGGING may still show until a new measurement.
End ==
    /\ session /\ session' = FALSE /\ output' = FALSE
    /\ state' \in {"FOGGING", "NOT_CONNECTED", "HEATING", "READY"}

Measure ==
    /\ ~session
    /\ state' \in {"NOT_CONNECTED", "HEATING", "READY"}
    /\ UNCHANGED <<session, output>>

Next == Start \/ Pause \/ Resume \/ End \/ Measure

Spec == Init /\ [][Next]_<<state, session, output>>
=============================================================================
