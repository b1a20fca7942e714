---------------------------- MODULE RelayControl ----------------------------
(***************************************************************************)
(* A relay of the switchboard that follows a switch of the control unit:   *)
(* reconcileRelay() of bediening/source/src/control_logic.cpp, called by   *)
(* every pass of the main loop (controller.cpp), with what it reaches: the *)
(* connection manager, reduced to what BleLink promises, and the           *)
(* switchboard's relay, reduced to its state and its notifications.  A     *)
(* second client of the switchboard may change the relay as well.          *)
(*                                                                         *)
(* Time stamps are modelled by their age, which counts up to the threshold *)
(* the code compares it with.                                              *)
(***************************************************************************)
EXTENDS Integers, Sequences, FiniteSetsExt

CONSTANTS RELAY_RESEND,        \* RELAY_RESEND_MS
          LED_PENDING_ERROR,   \* LED_PENDING_ERROR_MS
          QueueLength,         \* writes the connection manager holds
          MaxNotes             \* bound: notifications on their way

ASSUME RelayAssumption ==
    /\ RELAY_RESEND \in Nat /\ LED_PENDING_ERROR \in Nat
    /\ QueueLength \in Nat /\ MaxNotes \in Nat \ {0}

VARIABLES
    switchesValid, sw,     \* the switches are known; the switch of this relay
    sent, sentAge,         \* relaySent_, now - lastRelaySend_
    pending, pendingAge,   \* pending_, now - pendingSince_
    led,                   \* state of the relay's LED
    sawUp,                 \* the last pass saw the link connected
    connected,             \* LinkState::Connected
    setup, answer,         \* attempt_connection(): place; what the read of the relays answered
    shown, shownValid,     \* the relay's byte in the stored value
    overtaken,             \* history: a notification that came after the answer was, or will
                           \* be, overwritten with it
    queue,                 \* queued writes
    peer, notes,           \* the connection itself, and what is on its way
    relay,                 \* the relay's state in the switchboard
    raw,                   \* its characteristic holds the bytes of a refused write
    others                 \* the switchboard has another client

logicVars == <<sent, sentAge, pending, pendingAge, led, sawUp>>
setupVars == <<setup, answer, overtaken>>
linkVars  == <<connected, setupVars, shown, shownValid, queue>>
airVars   == <<peer, notes>>
boardVars == <<relay, raw>>
inputVars == <<switchesValid, sw>>
vars == <<inputVars, logicVars, linkVars, airVars, boardVars, others>>

States == {"off", "on", "blink"}
Leds   == {"off", "on", "flash", "flash_fast"}

Init ==
    /\ switchesValid \in BOOLEAN /\ sw \in BOOLEAN
    /\ sent = FALSE /\ sentAge = 0 /\ pending = FALSE /\ pendingAge = 0
    /\ led = "off" /\ sawUp = FALSE
    /\ connected = FALSE /\ setup = "none" /\ answer = "none" /\ overtaken = FALSE
    /\ shown = "off" /\ shownValid = FALSE /\ queue = <<>>
    /\ peer = "down" /\ notes = <<>>
    /\ relay \in States /\ raw = FALSE /\ others \in BOOLEAN

On(want) == IF want THEN "on" ELSE "off"

----------------------------------------------------------------------------
(* reconcileRelay() *)

Want    == switchesValid /\ sw
CanKnow == connected /\ shownValid

Matches == CanKnow /\ shown = On(Want)

\* Unknown switches, or nothing wanted and nothing known: change nothing.
Settle ==
    /\ ~switchesValid \/ (~Want /\ ~CanKnow)
    /\ pending' = FALSE /\ pendingAge' = 0 /\ led' = "off"
    /\ UNCHANGED <<sent, sentAge, queue>>

\* The switchboard reports what is wanted.
Confirm ==
    /\ switchesValid /\ Matches
    /\ pending' = FALSE /\ pendingAge' = 0 /\ led' = On(Want)
    /\ sent' = FALSE /\ sentAge' = 0
    /\ UNCHANGED queue

\* ble_link_write(); nobody looks at its result.
Send(cmd) ==
    queue' = IF Len(queue) < QueueLength THEN Append(queue, cmd) ELSE queue

\* Fault: a relay that was sent once is not sent again.
PursueOnce ==
    /\ switchesValid /\ ~Matches /\ (Want \/ CanKnow)
    /\ pending' = TRUE /\ pendingAge' = (IF pending THEN pendingAge ELSE 0)
    /\ led' = IF pending /\ pendingAge > LED_PENDING_ERROR THEN "flash_fast" ELSE "flash"
    /\ IF CanKnow /\ ~sent
       THEN Send(On(Want)) /\ sent' = TRUE /\ sentAge' = 0
       ELSE UNCHANGED <<queue, sent, sentAge>>

\* It does not: the wish is sent, again and again, as long as the state is known.
Pursue ==
    /\ switchesValid /\ ~Matches /\ (Want \/ CanKnow)
    /\ pending' = TRUE /\ pendingAge' = (IF pending THEN pendingAge ELSE 0)
    /\ led' = IF pending /\ pendingAge > LED_PENDING_ERROR THEN "flash_fast" ELSE "flash"
    /\ IF CanKnow /\ (~sent \/ sentAge >= RELAY_RESEND)
       THEN Send(On(Want)) /\ sent' = TRUE /\ sentAge' = 0
       ELSE UNCHANGED <<queue, sent, sentAge>>

\* A pass of the main loop.
Step ==
    /\ Settle \/ Confirm \/ Pursue
    /\ sawUp' = connected
    /\ UNCHANGED <<inputVars, connected, setupVars, shown, shownValid, airVars, boardVars, others>>

Tick ==
    /\ sentAge' = IF sent THEN Min({sentAge + 1, RELAY_RESEND}) ELSE 0
    /\ pendingAge' = IF pending THEN Min({pendingAge + 1, LED_PENDING_ERROR + 1}) ELSE 0
    /\ UNCHANGED <<inputVars, sent, pending, led, sawUp, linkVars, airVars, boardVars, others>>

\* The operator, and the expander behind the switches.
Switch ==
    /\ switchesValid' \in BOOLEAN /\ sw' \in BOOLEAN
    /\ UNCHANGED <<logicVars, linkVars, airVars, boardVars, others>>

----------------------------------------------------------------------------
(* The connection manager and the air *)

\* The relay is set: its state is written into the characteristic and notified.
Notify(s) ==
    /\ relay' = s /\ raw' = FALSE
    /\ notes' = IF peer = "up" THEN Append(notes, s) ELSE notes

Room == Len(notes) < MaxNotes

\* A queued write reaches the switchboard ...
Execute ==
    /\ queue # <<>> /\ peer = "up" /\ Room
    /\ Notify(Head(queue)) /\ queue' = Tail(queue)
    /\ UNCHANGED <<inputVars, logicVars, connected, setupVars, shown, shownValid, peer, others>>

\* ... or fails, and is forgotten.
WriteFails ==
    /\ queue # <<>> /\ queue' = Tail(queue)
    /\ UNCHANGED <<inputVars, logicVars, connected, setupVars, shown, shownValid, airVars, boardVars, others>>

Deliver ==
    /\ notes # <<>> /\ peer = "up"
    /\ shown' = Head(notes) /\ shownValid' = TRUE /\ notes' = Tail(notes)
    /\ overtaken' = (setup = "answered")
    /\ UNCHANGED <<inputVars, logicVars, connected, setup, answer, queue, peer, boardVars, others>>

\* The connection breaks; the switchboard switches everything off when this
\* was its last client.
Break ==
    /\ peer = "up"
    /\ peer' = "down" /\ notes' = <<>>
    /\ IF others THEN UNCHANGED boardVars ELSE relay' = "off" /\ raw' = FALSE
    /\ UNCHANGED <<inputVars, logicVars, linkVars, others>>

\* Set-up is over; what it leaves behind is the stored value.
EndSetup == setup' = "none" /\ answer' = "none"

\* The manager notices it, connected or in its set-up: the values are unknown
\* and no write is left.
LinkLost ==
    /\ connected \/ setup # "none"
    /\ peer = "down"
    /\ connected' = FALSE /\ shownValid' = FALSE /\ queue' = <<>>
    /\ EndSetup /\ overtaken' = FALSE
    /\ UNCHANGED <<inputVars, logicVars, shown, airVars, boardVars, others>>

\* A new session, which takes longer than a pass of the main loop.  First the
\* relays are subscribed to ...
Subscribe ==
    /\ ~connected /\ setup = "none" /\ peer = "down" /\ ~sawUp
    /\ peer' = "up" /\ setup' = "reading"
    /\ UNCHANGED <<inputVars, logicVars, connected, answer, overtaken, shown, shownValid, queue,
                   notes, boardVars, others>>

\* ... then they are read: the answer comes after the notifications sent before it ...
Read ==
    /\ setup = "reading" /\ peer = "up" /\ notes = <<>>
    /\ setup' = "answered" /\ answer' = IF raw THEN "raw" ELSE relay
    /\ UNCHANGED <<inputVars, logicVars, connected, overtaken, shown, shownValid, queue, airVars,
                   boardVars, others>>

\* ... and is stored a little later, over whatever was notified meanwhile.  Raw
\* bytes are too short to be taken for states.
StoreRead ==
    /\ setup = "answered" /\ EndSetup
    /\ connected' = TRUE
    /\ shownValid' = (answer # "raw")
    /\ shown' = IF answer = "raw" THEN shown ELSE answer
    /\ UNCHANGED <<inputVars, logicVars, overtaken, queue, airVars, boardVars, others>>

\* The other client comes, sets the relay, and goes.
OtherComes == others' = TRUE /\ UNCHANGED <<inputVars, logicVars, linkVars, airVars, boardVars>>

OtherWrites ==
    /\ others /\ (Room \/ peer = "down")
    /\ \E s \in States : Notify(s)
    /\ UNCHANGED <<inputVars, logicVars, linkVars, peer, others>>

\* A write of the wrong length or number stays in the characteristic.
OtherRefused ==
    /\ others /\ raw' = TRUE
    /\ UNCHANGED <<inputVars, logicVars, linkVars, airVars, relay, others>>

OtherGoes ==
    /\ others /\ (Room \/ peer = "down")
    /\ others' = FALSE
    /\ IF peer = "up" THEN UNCHANGED boardVars ELSE relay' = "off" /\ raw' = FALSE
    /\ UNCHANGED <<inputVars, logicVars, linkVars, airVars>>

----------------------------------------------------------------------------
Next ==
    \/ Step \/ Tick \/ Switch
    \/ Execute \/ WriteFails \/ Deliver \/ Break \/ LinkLost
    \/ Subscribe \/ Read \/ StoreRead
    \/ OtherComes \/ OtherWrites \/ OtherRefused \/ OtherGoes

Spec == Init /\ [][Next]_vars

\* The main loop and the tasks run, and writes do not fail for ever.
FairSpec ==
    /\ Spec
    /\ WF_vars(Step) /\ WF_vars(Tick) /\ WF_vars(Deliver) /\ WF_vars(LinkLost)
    /\ SF_vars(Execute)

----------------------------------------------------------------------------
(* Properties *)

\* Types of the variables, and the limits of queue and ages.
TypeOK ==
    /\ switchesValid \in BOOLEAN /\ sw \in BOOLEAN
    /\ sent \in BOOLEAN /\ sentAge \in 0 .. RELAY_RESEND
    /\ pending \in BOOLEAN /\ pendingAge \in 0 .. LED_PENDING_ERROR + 1
    /\ led \in Leds /\ sawUp \in BOOLEAN
    /\ setup \in {"none", "reading", "answered"} /\ answer \in States \cup {"none", "raw"}
    /\ connected \in BOOLEAN /\ overtaken \in BOOLEAN
    /\ shown \in States /\ shownValid \in BOOLEAN
    /\ queue \in Seq({"off", "on"}) /\ Len(queue) <= QueueLength
    /\ peer \in {"up", "down"} /\ notes \in Seq(States) /\ Len(notes) <= MaxNotes
    /\ relay \in States /\ raw \in BOOLEAN /\ others \in BOOLEAN

\* "The switch position is the truth": when the switch and the connection stay
\* as they are, nobody else interferes, and the relays' state is known in this
\* connection, the relay ends up in the wanted state, the LED says so, and no
\* more writes are sent.  One thing spoils it: the answer to the initial read,
\* stored over a newer notification, that seems to be what is wanted.
Undisturbed(on) ==
    switchesValid /\ sw = on /\ connected /\ peer = "up" /\ shownValid /\ ~others /\ ~overtaken
SwitchIsTruth ==
    \A on \in BOOLEAN :
        <>[]Undisturbed(on) => <>[](relay = On(on) /\ led = On(on) /\ queue = <<>>)
=============================================================================
