----------------------------- MODULE FogControl -----------------------------
(***************************************************************************)
(* The fog switch of the control unit: handleFog() of                      *)
(* bediening/source/src/control_logic.cpp, called by every pass of the     *)
(* main loop (controller.cpp), with what it reaches: the connection        *)
(* manager, reduced to what BleLink promises, and the fog machine of the   *)
(* switchboard, reduced to what FogSession promises, with the queue of     *)
(* commands before it. A second client may start and stop it as well.      *)
(*                                                                         *)
(* FOG_STATE and FOG_CONTROL are required characteristics, so their values *)
(* are known whenever the link is connected. Time stamps are modelled by   *)
(* their age, which counts up to the threshold the code compares it with.  *)
(***************************************************************************)
EXTENDS Integers, Sequences, FiniteSetsExt

CONSTANTS START_INTERVAL,   \* FOG_START_INTERVAL_MS
          STOP_RESEND,      \* FOG_STOP_RESEND_MS
          QueueLength,      \* writes the connection manager holds
          CommandLength,    \* FOG_COMMAND_QUEUE_LENGTH
          MaxNotes          \* bound: notifications on their way

ASSUME FogControlAssumption ==
    /\ START_INTERVAL \in Nat /\ STOP_RESEND \in Nat /\ QueueLength \in Nat
    /\ CommandLength \in Nat \ {0} /\ MaxNotes \in Nat \ {0, 1}

VARIABLES
    want,                  \* the switches are known, and the fog switch is on
    startSent, startAge,   \* fogStartSent_, now - lastFogStart_
    stopSent, stopAge,     \* fogStopSent_, now - lastFogStop_
    sawUp,                 \* the last pass saw the link connected
    connected,             \* LinkState::Connected
    setup, answer,         \* attempt_connection(): place; what a read answered, until it is stored
    overtaken,             \* history: values whose newest notification came after the answer to
                           \* the initial read and was, or will be, overwritten with it
    shownState, shownControl,  \* the stored values
    queue,                 \* queued writes
    peer, notes,           \* the connection itself, and what is on its way
    state, session,        \* what the fog machine is in
    control,               \* its control characteristic
    commands,              \* commands fog_task has not handled
    others                 \* the switchboard has another client

logicVars == <<startSent, startAge, stopSent, stopAge, sawUp>>
setupVars == <<setup, answer, overtaken>>
linkVars  == <<connected, setupVars, shownState, shownControl, queue>>
fogVars   == <<state, session, control, commands>>
vars == <<want, logicVars, linkVars, peer, notes, fogVars, others>>

\* handleFog() tells READY and FOGGING from the rest: UNREADY is NOT_CONNECTED or HEATING.
States == {"UNREADY", "READY", "FOGGING"}
Bit(b) == IF b THEN 1 ELSE 0
NoAnswer == [state |-> "UNREADY", control |-> 0]

Init ==
    /\ want \in BOOLEAN
    /\ startSent = FALSE /\ startAge = 0 /\ stopSent = FALSE /\ stopAge = 0
    /\ sawUp = FALSE
    /\ connected = FALSE /\ setup = <<>> /\ answer = NoAnswer /\ overtaken = {}
    /\ shownState = "UNREADY" /\ shownControl = 0 /\ queue = <<>>
    /\ peer = "down" /\ notes = <<>>
    /\ state \in States \ {"FOGGING"} /\ session = FALSE /\ control = 0 /\ commands = <<>>
    /\ others \in BOOLEAN

----------------------------------------------------------------------------
(* handleFog()                                                             *)

Fogging == shownControl = 1 \/ shownState = "FOGGING"

\* ble_link_write(); nobody looks at its result.
Send(value) ==
    queue' = IF Len(queue) < QueueLength THEN Append(queue, value) ELSE queue

StartDue == ~startSent \/ startAge >= START_INTERVAL

\* Fault: a stop is not sent again.
StopDueOnce == ~stopSent
StopDue == ~stopSent \/ stopAge >= STOP_RESEND

\* Start whenever the machine is ready and idle, not too often; stop again and again.
Command ==
    LET start == connected /\ want /\ shownState = "READY" /\ ~Fogging /\ StartDue
        stop == connected /\ ~want /\ Fogging /\ StopDue
    IN  /\ startSent' = (startSent \/ start)
        /\ startAge' = IF start THEN 0 ELSE startAge
        /\ stopSent' = IF connected THEN ~want /\ Fogging ELSE stopSent
        /\ stopAge' = IF stop THEN 0 ELSE stopAge
        /\ IF start THEN Send(1) ELSE IF stop THEN Send(0) ELSE UNCHANGED queue

\* A pass of the main loop. What L8 shows follows from shownState, and is left out.
Step ==
    /\ Command
    /\ sawUp' = connected
    /\ UNCHANGED <<want, connected, setupVars, shownState, shownControl, peer, notes, fogVars, others>>

Tick ==
    /\ startAge' = IF startSent THEN Min({startAge + 1, START_INTERVAL}) ELSE 0
    /\ stopAge' = IF stopSent THEN Min({stopAge + 1, STOP_RESEND}) ELSE 0
    /\ UNCHANGED <<want, startSent, stopSent, sawUp, linkVars, peer, notes, fogVars, others>>

\* The operator, and the expander behind the switches.
Switch ==
    /\ want' = ~want
    /\ UNCHANGED <<logicVars, linkVars, peer, notes, fogVars, others>>

----------------------------------------------------------------------------
(* The fog machine                                                         *)

Room == peer = "down" \/ Len(notes) + 2 <= MaxNotes
Notify(news) == notes' = IF peer = "up" THEN notes \o news ELSE notes
StateNews(s) == [of |-> "state", value |-> s]
ControlNews(b) == [of |-> "control", value |-> Bit(b)]

\* publish_state(): only a change is published.
ChangedTo(s) == IF s = state THEN <<>> ELSE <<StateNews(s)>>

\* send_command(): dropped when the queue is full.
Enqueue(cmd) ==
    commands' = IF Len(commands) < CommandLength THEN Append(commands, cmd) ELSE commands

\* A client's write is stored in the characteristic first; 2 stands for a value that is ignored.
WriteControl(value) ==
    /\ control' = value
    /\ IF value = 2 THEN UNCHANGED commands ELSE Enqueue(value)
    /\ UNCHANGED <<state, session>>

\* Fault: a command that changes nothing is not answered.
AnswerNot == UNCHANGED <<state, session, control, notes>>

\* publish_session(sessionActive, true)
Answer ==
    /\ control' = Bit(session) /\ Notify(<<ControlNews(session)>>)
    /\ UNCHANGED <<state, session>>

StartSession ==
    /\ state' = "FOGGING" /\ session' = TRUE /\ control' = 1
    /\ Notify(<<StateNews("FOGGING"), ControlNews(TRUE)>>)

\* A session ends; FOGGING may be shown until the machine has settled.
EndSession(s) ==
    /\ session' = FALSE /\ control' = 0 /\ state' = s
    /\ Notify(<<ControlNews(FALSE)>> \o ChangedTo(s))

\* A start from READY finds the machine gone: it is refused, and the tick of the same pass says so.
MachineGone ==
    /\ state' = "UNREADY" /\ control' = 0
    /\ Notify(<<ControlNews(FALSE), StateNews("UNREADY")>>)
    /\ UNCHANGED session

\* handle_command()
HandleCommand ==
    /\ commands # <<>> /\ Room
    /\ commands' = Tail(commands)
    /\ \/ Head(commands) = 1 /\ ~session /\ state = "READY" /\ (StartSession \/ MachineGone)
       \/ Head(commands) = 1 /\ (session \/ state # "READY") /\ Answer
       \/ Head(commands) = 0 /\ session /\ EndSession(state)
       \/ Head(commands) = 0 /\ ~session /\ Answer
    /\ UNCHANGED <<want, logicVars, linkVars, peer, others>>

\* tick(): a session may end by itself, and without one the state is measured.
FogTick ==
    /\ Room
    /\ \/ \E s \in States : session /\ EndSession(s)
       \/ \E s \in States \ {"FOGGING", state} :
            ~session /\ state' = s /\ Notify(<<StateNews(s)>>) /\ UNCHANGED <<session, control>>
    /\ UNCHANGED <<want, logicVars, linkVars, peer, commands, others>>

----------------------------------------------------------------------------
(* The connection manager and the air                                      *)

\* A queued write reaches the switchboard ...
Execute ==
    /\ queue # <<>> /\ peer = "up"
    /\ WriteControl(Head(queue)) /\ queue' = Tail(queue)
    /\ UNCHANGED <<want, logicVars, connected, setupVars, shownState, shownControl, peer, notes, others>>

\* ... or fails, and is forgotten.
WriteFails ==
    /\ queue # <<>> /\ queue' = Tail(queue)
    /\ UNCHANGED <<want, logicVars, connected, setupVars, shownState, shownControl, peer, notes, fogVars, others>>

Deliver ==
    /\ notes # <<>> /\ peer = "up" /\ notes' = Tail(notes)
    /\ LET news == Head(notes)
       IN  /\ shownState' = IF news.of = "state" THEN news.value ELSE shownState
           /\ shownControl' = IF news.of = "control" THEN news.value ELSE shownControl
           /\ overtaken' = IF setup = <<"store", news.of>> THEN overtaken \cup {news.of}
                           ELSE overtaken \ {news.of}
    /\ UNCHANGED <<want, logicVars, connected, setup, answer, queue, peer, fogVars, others>>

\* The failsafe, when the last client leaves.
LastLeaves(last) ==
    /\ IF last THEN Enqueue(0) ELSE UNCHANGED commands
    /\ UNCHANGED <<state, session, control>>

Break ==
    /\ peer = "up" /\ peer' = "down" /\ notes' = <<>>
    /\ LastLeaves(~others)
    /\ UNCHANGED <<want, logicVars, linkVars, others>>

\* The manager notices it, connected or in its set-up: no write is left.
LinkLost ==
    /\ connected \/ setup # <<>>
    /\ peer = "down"
    /\ connected' = FALSE /\ queue' = <<>>
    /\ setup' = <<>> /\ answer' = NoAnswer /\ overtaken' = {}
    /\ UNCHANGED <<want, logicVars, shownState, shownControl, peer, notes, fogVars, others>>

\* A new session, which takes longer than a pass of the main loop. It is set up value by value,
\* FOG_STATE and then FOG_CONTROL: first the value is subscribed to ...
Subscribe ==
    /\ ~connected /\ setup = <<>> /\ peer = "down" /\ ~sawUp
    /\ peer' = "up" /\ setup' = <<"read", "state">>
    /\ UNCHANGED <<want, logicVars, connected, answer, overtaken, shownState, shownControl, queue,
                   notes, fogVars, others>>

\* ... then it is read: the answer comes after the notifications sent before it; what FOG_CONTROL
\* holds may be what some client wrote ...
Read(of) ==
    /\ setup = <<"read", of>> /\ peer = "up" /\ notes = <<>>
    /\ setup' = <<"store", of>>
    /\ answer' = IF of = "state" THEN [answer EXCEPT !.state = state]
                                  ELSE [answer EXCEPT !.control = control]
    /\ UNCHANGED <<want, logicVars, connected, overtaken, shownState, shownControl, queue, peer,
                   notes, fogVars, others>>

\* ... and is stored a little later, over whatever was notified meanwhile.
StoreRead(of) ==
    /\ setup = <<"store", of>>
    /\ IF of = "state" THEN shownState' = answer.state /\ UNCHANGED shownControl
                       ELSE shownControl' = answer.control /\ UNCHANGED shownState
    /\ setup' = IF of = "state" THEN <<"read", "control">> ELSE <<>>
    /\ connected' = (of = "control") /\ answer' = NoAnswer
    /\ UNCHANGED <<want, logicVars, overtaken, queue, peer, notes, fogVars, others>>

\* The other client comes, writes, and goes.
OtherComes ==
    /\ ~others /\ others' = TRUE
    /\ UNCHANGED <<want, logicVars, linkVars, peer, notes, fogVars>>

OtherWrites ==
    /\ others /\ \E value \in 0 .. 2 : WriteControl(value)
    /\ UNCHANGED <<want, logicVars, linkVars, peer, notes, others>>

OtherGoes ==
    /\ others /\ others' = FALSE
    /\ LastLeaves(peer = "down")
    /\ UNCHANGED <<want, logicVars, linkVars, peer, notes>>

----------------------------------------------------------------------------
Next ==
    \/ Step \/ Tick \/ Switch
    \/ HandleCommand \/ FogTick
    \/ Execute \/ WriteFails \/ Deliver \/ Break \/ LinkLost
    \/ Subscribe \/ (\E of \in {"state", "control"} : Read(of) \/ StoreRead(of))
    \/ OtherComes \/ OtherWrites \/ OtherGoes

Spec == Init /\ [][Next]_vars

\* The main loop and the tasks run, and writes do not fail for ever. Nobody makes a session end.
FairSpec ==
    /\ Spec
    /\ WF_vars(Step) /\ WF_vars(Tick) /\ WF_vars(Deliver) /\ WF_vars(LinkLost)
    /\ WF_vars(HandleCommand) /\ SF_vars(Execute)

----------------------------------------------------------------------------
(* Properties                                                              *)

\* Types of the variables, and the limits of queues and ages.
TypeOK ==
    /\ {want, startSent, stopSent, sawUp, connected, session, others} \subseteq BOOLEAN
    /\ startAge \in 0 .. START_INTERVAL /\ stopAge \in 0 .. STOP_RESEND
    /\ setup \in {<<>>, <<"read", "state">>, <<"store", "state">>, <<"read", "control">>, <<"store", "control">>}
    /\ answer \in [state : States, control : 0 .. 2] /\ overtaken \subseteq {"state", "control"}
    /\ {shownState, state} \subseteq States /\ {shownControl, control} \subseteq 0 .. 2
    /\ queue \in Seq({0, 1}) /\ Len(queue) <= QueueLength
    /\ commands \in Seq({0, 1}) /\ Len(commands) <= CommandLength
    /\ peer \in {"up", "down"} /\ Len(notes) <= MaxNotes

\* One thing spoils both properties: the answer to an initial read, stored over a newer
\* notification. They are stated for links whose set-up was not overtaken in that way.
Linked == connected /\ peer = "up" /\ ~others /\ overtaken = {}

\* "Switch ON = keep fogging whenever possible": while the switch stays on, the link holds and
\* nobody else interferes, the machine is not ready and idle for ever, although
\* writes fail, commands are dropped and any client may have written over FOG_CONTROL.
ReadyIsUsed ==
    <>[](want /\ Linked) => []<>(state # "READY" \/ session)

\* "Switch OFF = stop": it also ends a session somebody else started and one that was started
\* by a command that was late, and then stays off.
SwitchOffStops ==
    <>[](~want /\ Linked) => <>[](~session)
=============================================================================
