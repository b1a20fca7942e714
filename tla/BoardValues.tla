---------------------------- MODULE BoardValues ----------------------------
(***************************************************************************)
(* What the switchboard measures and dims: schakelbord/source/src/         *)
(* digital_inputs.cpp, analog_inputs.cpp and mosfets.cpp, with the part of *)
(* setup() in main.cpp that starts them and pushes their first values.     *)
(*                                                                         *)
(* Four threads write what clients read: input_task, woken by an interrupt *)
(* on every edge of an input; analog_task, which samples at a fixed pace;  *)
(* the Bluetooth host task, which sets the MOSFETs and switches them off   *)
(* when the last client leaves; and setup(), which starts the others one   *)
(* after the other while clients can connect already.                      *)
(*                                                                         *)
(* An input is TRUE when it is active. A reading of the analog inputs is   *)
(* one level; the clock of analog_task counts samples and wraps.           *)
(***************************************************************************)
EXTENDS SwitchboardConfig

VARIABLES
    setupPc, setupBuf,     \* setup(): place, and the buffer of push_initial_values()
    attached,              \* inputs whose interrupt is attached
    pins,                  \* the inputs themselves
    dinPc, unread, mask,   \* input_task: place, inputs to read yet, mask read so far
    edge,                  \* input_task has a notification
    currentMask, inputChar,
    hostPc, snapshot, clients,
    percentValue, duty, mosfetChar,
    written,               \* the characteristic holds what a client wrote, not what mosfetChar says
    latest, analogChar,
    notified, sinceNotify, first,  \* analog_task's locals; now - lastNotifyMs
    offFor,                \* history: samples in a row that left clients off by the threshold
    missed,                \* history: an input changed before its interrupt was attached
    overtaken              \* history: values that setup() wrote over newer ones

setupVars == <<setupPc, setupBuf, overtaken>>
inputVars == <<attached, pins, dinPc, unread, mask, edge, currentMask, inputChar, missed>>
mosfetVars == <<hostPc, snapshot, clients, percentValue, duty, mosfetChar, written>>
analogVars == <<latest, analogChar, notified, sinceNotify, first, offFor>>
vars == <<setupVars, inputVars, mosfetVars, analogVars>>

Inactive == [i \in Inputs |-> FALSE]
Off == [m \in Mosfets |-> 0]

\* setup() when ble_init() has started to advertise: everything is off, the characteristics are zero.
Init ==
    /\ setupPc = "inputsInit" /\ setupBuf = "none"
    /\ attached = {} /\ pins \in [Inputs -> BOOLEAN]
    /\ dinPc = "none" /\ unread = {} /\ mask = Inactive /\ edge = FALSE
    /\ currentMask = Inactive /\ inputChar = Inactive
    /\ hostPc = "idle" /\ snapshot = Off /\ clients = 0
    /\ percentValue = Off /\ duty = Off /\ mosfetChar = Off /\ written = FALSE
    /\ latest = 0 /\ analogChar = 0 /\ notified = 0 /\ sinceNotify = 0 /\ first = TRUE /\ offFor = 0
    /\ missed = FALSE /\ overtaken = {}

----------------------------------------------------------------------------
(* digital_inputs.cpp                                                      *)

\* The interrupt only wakes the task. An input may bounce as often as it likes.
Edge(i) ==
    /\ pins' = [pins EXCEPT ![i] = ~@]
    /\ edge' = (edge \/ i \in attached)
    /\ missed' = (missed \/ i \notin attached)
    /\ UNCHANGED <<attached, dinPc, unread, mask, currentMask, inputChar, setupVars, mosfetVars, analogVars>>

\* ulTaskNotifyTake(): sleep until an edge happens.
Wake ==
    /\ dinPc = "sleep" /\ edge
    /\ edge' = FALSE /\ dinPc' = "settle"
    /\ UNCHANGED <<attached, pins, unread, mask, currentMask, inputChar, missed, setupVars, mosfetVars, analogVars>>

\* The bounce has settled: its edges are dropped, then the inputs are read.
Settle ==
    /\ dinPc = "settle" /\ dinPc' = "read"
    /\ edge' = FALSE
    /\ unread' = Inputs
    /\ missed' = FALSE
    /\ UNCHANGED <<attached, pins, mask, currentMask, inputChar, setupVars, mosfetVars, analogVars>>

\* read_mask(): one digitalRead() after the other.
ReadPin(i) ==
    /\ dinPc = "read" /\ i \in unread
    /\ mask' = [mask EXCEPT ![i] = pins[i]]
    /\ unread' = unread \ {i}
    /\ UNCHANGED <<attached, pins, dinPc, edge, currentMask, inputChar, missed, setupVars, mosfetVars, analogVars>>

\* Fault: the edges that came while the inputs were read are dropped too.
CompareDrops ==
    /\ dinPc = "read" /\ unread = {} /\ edge' = FALSE
    /\ currentMask' = mask
    /\ IF mask # currentMask THEN dinPc' = "publish" /\ UNCHANGED mask
                             ELSE dinPc' = "sleep" /\ mask' = Inactive
    /\ UNCHANGED <<attached, pins, unread, inputChar, missed, setupVars, mosfetVars, analogVars>>

Compare ==
    /\ dinPc = "read" /\ unread = {}
    /\ currentMask' = mask
    /\ IF mask # currentMask THEN dinPc' = "publish" /\ UNCHANGED mask
                             ELSE dinPc' = "sleep" /\ mask' = Inactive
    /\ UNCHANGED <<attached, pins, unread, edge, inputChar, missed, setupVars, mosfetVars, analogVars>>

\* ble_update_digital_inputs(), called by input_task
PublishInputs ==
    /\ dinPc = "publish" /\ dinPc' = "sleep"
    /\ inputChar' = mask /\ mask' = Inactive
    /\ overtaken' = overtaken \ {"inputs"}
    /\ UNCHANGED <<setupPc, setupBuf, attached, pins, unread, edge, currentMask, missed, mosfetVars, analogVars>>

InputTask == Wake \/ Settle \/ (\E i \in Inputs : ReadPin(i)) \/ Compare \/ PublishInputs

----------------------------------------------------------------------------
(* mosfets.cpp. What is done under the lock is one step.                   *)

\* percent_to_duty()
PercentToDuty(p) == (p * MaxDuty + MaxPercent \div 2) \div MaxPercent

\* Fault: the snapshot is taken before the change.
SetPercentEarly(values) ==
    /\ percentValue' = values /\ snapshot' = percentValue
    /\ duty' = [m \in Mosfets |-> PercentToDuty(values[m])]
    /\ hostPc' = "publish"

\* Value, duty and snapshot change under the lock; the snapshot is published after it.
SetPercent(values) ==
    /\ percentValue' = values
    /\ duty' = [m \in Mosfets |-> PercentToDuty(values[m])]
    /\ snapshot' = values
    /\ hostPc' = "publish"

\* mosfets_set(). The Bluetooth stack stores the bytes of a write before its callback runs.
WriteMosfet(m, p) ==
    /\ hostPc = "idle" /\ clients > 0
    /\ written' = TRUE
    /\ SetPercent([percentValue EXCEPT ![m] = IF p > MaxPercent THEN MaxPercent ELSE p])
    /\ UNCHANGED <<clients, mosfetChar, setupVars, inputVars, analogVars>>

\* A write of a wrong size or of an unknown MOSFET is ignored, but its bytes stay.
WriteIgnored ==
    /\ hostPc = "idle" /\ clients > 0
    /\ written' = TRUE
    /\ UNCHANGED <<hostPc, snapshot, clients, percentValue, duty, mosfetChar, setupVars, inputVars, analogVars>>

\* ble_update_mosfets(), called by the host task
PublishMosfets ==
    /\ hostPc = "publish" /\ hostPc' = "idle"
    /\ mosfetChar' = snapshot /\ written' = FALSE /\ snapshot' = Off
    /\ overtaken' = overtaken \ {"mosfets"}
    /\ UNCHANGED <<setupPc, setupBuf, clients, percentValue, duty, inputVars, analogVars>>

Connect ==
    /\ hostPc = "idle" /\ clients < MaxClients
    /\ clients' = clients + 1
    /\ UNCHANGED <<hostPc, snapshot, percentValue, duty, mosfetChar, written, setupVars, inputVars, analogVars>>

\* onDisconnect(): mosfets_all_off() when the last client leaves
Disconnect ==
    /\ hostPc = "idle" /\ clients > 0
    /\ clients' = clients - 1
    /\ IF clients' = 0 THEN SetPercent(Off) ELSE UNCHANGED <<percentValue, duty, snapshot, hostPc>>
    /\ UNCHANGED <<mosfetChar, written, setupVars, inputVars, analogVars>>

HostTask ==
    \/ \E m \in Mosfets, p \in Percents : WriteMosfet(m, p)
    \/ WriteIgnored \/ PublishMosfets \/ Connect \/ Disconnect

----------------------------------------------------------------------------
(* setup()                                                                 *)

\* digital_inputs_init(): the first mask is read before any interrupt is attached.
InputsInit ==
    /\ setupPc = "inputsInit" /\ setupPc' = "attach"
    /\ currentMask' = pins /\ dinPc' = "sleep" /\ missed' = FALSE
    /\ UNCHANGED <<setupBuf, overtaken, attached, pins, unread, mask, edge, inputChar, mosfetVars, analogVars>>

Attach ==
    /\ setupPc = "attach"
    /\ \E i \in Inputs \ attached :
         /\ attached' = attached \cup {i}
         /\ setupPc' = IF attached' = Inputs THEN "getMosfets" ELSE "attach"
    /\ UNCHANGED <<setupBuf, overtaken, pins, dinPc, unread, mask, edge, currentMask, inputChar, missed, mosfetVars, analogVars>>

\* push_initial_values(): a value is taken and then written, and its owner may publish in between.
GetMosfets ==
    /\ setupPc = "getMosfets" /\ setupPc' = "pushMosfets"
    /\ setupBuf' = percentValue
    /\ UNCHANGED <<overtaken, inputVars, mosfetVars, analogVars>>

PushMosfets ==
    /\ setupPc = "pushMosfets" /\ setupPc' = "getInputs"
    /\ mosfetChar' = setupBuf /\ written' = FALSE /\ setupBuf' = "none"
    /\ overtaken' = overtaken \cup (IF setupBuf # percentValue THEN {"mosfets"} ELSE {})
    /\ UNCHANGED <<hostPc, snapshot, clients, percentValue, duty, inputVars, analogVars>>

GetInputs ==
    /\ setupPc = "getInputs" /\ setupPc' = "pushInputs"
    /\ setupBuf' = currentMask
    /\ UNCHANGED <<overtaken, inputVars, mosfetVars, analogVars>>

PushInputs ==
    /\ setupPc = "pushInputs" /\ setupPc' = "loop"
    /\ inputChar' = setupBuf /\ setupBuf' = "none"
    /\ overtaken' = overtaken \cup (IF setupBuf # currentMask THEN {"inputs"} ELSE {})
    /\ UNCHANGED <<attached, pins, dinPc, unread, mask, edge, currentMask, missed, mosfetVars, analogVars>>

Setup == InputsInit \/ Attach \/ GetMosfets \/ PushMosfets \/ GetInputs \/ PushInputs

----------------------------------------------------------------------------
(* analog_inputs.cpp                                                       *)

Differs(a, b) == a - b >= Threshold \/ b - a >= Threshold

\* Counts the samples in a row after which clients read a level that is off by the threshold.
CountOff ==
    offFor' = IF ~Differs(latest', analogChar') THEN 0
              ELSE IF offFor > MinInterval THEN offFor ELSE offFor + 1

\* Fault: a sample is compared with the one before it.
SampleFollows(v) ==
    /\ setupPc \notin {"inputsInit", "attach"}
    /\ latest' = v /\ first' = FALSE /\ notified' = v
    /\ LET age == (sinceNotify + 1) % Wrap
           due == first \/ (Differs(v, notified) /\ age >= MinInterval)
       IN  /\ sinceNotify' = IF due THEN 0 ELSE age
           /\ analogChar' = IF due THEN v ELSE analogChar
    /\ CountOff
    /\ UNCHANGED <<setupVars, inputVars, mosfetVars>>

\* One pass of analog_task, which finds v and publishes it when it is due.
Sample(v) ==
    /\ setupPc \notin {"inputsInit", "attach"}
    /\ latest' = v /\ first' = FALSE
    /\ LET age == (sinceNotify + 1) % Wrap
           due == first \/ (Differs(v, notified) /\ age >= MinInterval)
       IN  IF due THEN sinceNotify' = 0 /\ notified' = v /\ analogChar' = v
                  ELSE sinceNotify' = age /\ UNCHANGED <<notified, analogChar>>
    /\ CountOff
    /\ UNCHANGED <<setupVars, inputVars, mosfetVars>>

AnalogTask == \E v \in 0 .. MaxLevel : Sample(v)

----------------------------------------------------------------------------
Next == Setup \/ (\E i \in Inputs : Edge(i)) \/ InputTask \/ HostTask \/ AnalogTask

Spec == Init /\ [][Next]_vars
----------------------------------------------------------------------------
(* Properties                                                              *)

\* Types of the variables.
TypeOK ==
    /\ setupPc \in {"inputsInit", "attach", "getMosfets", "pushMosfets", "getInputs", "pushInputs", "loop"}
    /\ attached \subseteq Inputs /\ pins \in [Inputs -> BOOLEAN]
    /\ dinPc \in {"none", "sleep", "settle", "read", "publish"} /\ unread \subseteq Inputs
    /\ {mask, currentMask, inputChar} \subseteq [Inputs -> BOOLEAN]
    /\ {edge, missed, first, written} \subseteq BOOLEAN /\ overtaken \subseteq {"inputs", "mosfets"}
    /\ hostPc \in {"idle", "publish"} /\ clients \in 0 .. MaxClients
    /\ {percentValue, snapshot, mosfetChar} \subseteq [Mosfets -> 0 .. MaxPercent]
    /\ duty \in [Mosfets -> 0 .. MaxDuty]
    /\ {latest, analogChar, notified} \subseteq 0 .. MaxLevel /\ sinceNotify \in 0 .. Wrap - 1
    /\ offFor \in 0 .. MinInterval + 1

\* "Drop edges that occurred while settling": although edges are dropped and the inputs are read
\* one by one while they change, input_task never goes to sleep on a mask that is not what the
\* inputs are and what clients read. Two things it can miss, until the next change: a change
\* before the interrupt was attached, and a report that setup() wrote over with an older one.
InputsAreReported ==
    dinPc = "sleep" =>
        /\ ~edge /\ ~missed => currentMask = pins
        /\ setupPc = "loop" /\ "inputs" \notin overtaken => inputChar = currentMask

\* Clients read the duties that are applied, to half a percent, as soon as the host task is done,
\* unless setup() has written older ones since, or a write that was ignored has left its bytes.
MosfetsAreReported ==
    hostPc = "idle" /\ ~written /\ "mosfets" \notin overtaken =>
        \A m \in Mosfets : LET error == duty[m] * MaxPercent - mosfetChar[m] * MaxDuty
                           IN  2 * error <= MaxPercent /\ -2 * error <= MaxPercent

\* "Failsafe: nobody is in control anymore, so switch everything off": also for the MOSFETs, and
\* also when the last client leaves while setup() is still running.
NoClientNoPower == clients = 0 => duty = Off

\* Clients never read a level that is off by the threshold or more for longer than the shortest
\* interval between two notifications, counted in samples and not by the clock: however slowly it
\* drifted there, and also when the clock comes round to the last notification and the interval
\* seems to begin anew.
AnalogIsClose == offFor <= MinInterval
=============================================================================
