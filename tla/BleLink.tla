------------------------------- MODULE BleLink -------------------------------
(***************************************************************************)
(* One link of the control unit's connection manager, bediening/source/    *)
(* src/ble_link.cpp: the BLE task that connects, sets up and supervises    *)
(* the session and executes the queued writes; the main loop that reads    *)
(* values, queues writes and reloads the configuration; and the NimBLE     *)
(* host task, which delivers notifications and notices a lost link.        *)
(*                                                                         *)
(* The remote device is the environment.  Its characteristics 1 ..         *)
(* NumChars are set up in this order; each change of one gives it a new    *)
(* version.  Connections are numbered, so that a stored value and a queued *)
(* write can be traced to the connection they belong to.                   *)
(***************************************************************************)
EXTENDS Integers, Sequences

CONSTANTS NumChars, Required,   \* characteristics that are read and subscribed
          QueueLength,          \* length of cmdq
          WriteRing,            \* WRITE_RING
          MaxConn, MaxVersion, MaxSeq, MaxReloads   \* bounds of the model

ASSUME LinkAssumption ==
    /\ NumChars \in Nat /\ Required \subseteq 1 .. NumChars
    /\ QueueLength \in Nat \ {0} /\ WriteRing \in Nat \ {0}
    /\ MaxConn \in Nat /\ MaxVersion \in Nat /\ MaxSeq \in Nat /\ MaxReloads \in Nat

Chars == 1 .. NumChars

VARIABLES
    linkState,              \* Link.state
    valid, value,           \* Link.values: flag, and [conn, version] of the stored value
    saved, reloadDue,       \* a device is saved; appliedGen # configGen
    configured, holdoff,    \* Link.configured; is nextAttemptMs in the future?
    sessionUp, chrFound,    \* Link.sessionUp; chr[] of the command characteristic is set
    taskPc, char, readBack, \* BLE task: place, characteristic being set up, value just read
    drainUp,                \* `up` of drain_commands
    peer, conn, subscribed, \* the connection: up, number, subscriptions
    version, notes,         \* the device: version of each characteristic, notifications sent
    mainPc, sawConn,        \* ble_link_write: place, connection it saw Connected
    queue, nextSeq, result, \* cmdq, next_seq, write_ring as a function of the number
    reloads,                \* number of reloads, for the bound
    replayed                \* history: a write was executed in a later connection

valueVars  == <<valid, value>>
configVars == <<saved, reloadDue, configured, holdoff, reloads>>
taskVars   == <<sessionUp, chrFound, taskPc, char, readBack, drainUp>>
peerVars   == <<peer, conn, subscribed, version, notes>>
writeVars  == <<mainPc, sawConn, queue, nextSeq, result, replayed>>
vars == <<linkState, valueVars, configVars, taskVars, peerVars, writeVars>>

LinkStates == {"NotConfigured", "Searching", "Connecting", "Connected", "Error"}
Results    == {"Unknown", "Pending", "Ok", "Failed"}
NoValue    == [conn |-> 0, version |-> 0]

Init ==
    /\ linkState = "NotConfigured"
    /\ valid = [c \in Chars |-> FALSE] /\ value = [c \in Chars |-> NoValue]
    /\ saved \in BOOLEAN /\ reloadDue = TRUE
    /\ configured = FALSE /\ holdoff = FALSE /\ reloads = 0
    /\ sessionUp = FALSE /\ chrFound = FALSE
    /\ taskPc = "wake" /\ char = 1 /\ readBack = NoValue /\ drainUp = FALSE
    /\ peer = "down" /\ conn = 0 /\ subscribed = {}
    /\ version = [c \in Chars |-> 0] /\ notes = <<>>
    /\ mainPc = "idle" /\ sawConn = 0
    /\ queue = <<>> /\ nextSeq = 1 /\ result = [s \in 1 .. MaxSeq |-> "Unknown"]
    /\ replayed = FALSE

StoreValue(c, v) ==
    /\ valid' = [valid EXCEPT ![c] = TRUE]
    /\ value' = [value EXCEPT ![c] = v]

InvalidateValues ==
    /\ valid' = [c \in Chars |-> FALSE] /\ chrFound' = FALSE
    /\ UNCHANGED value

Goto(pc) == taskPc' = pc

----------------------------------------------------------------------------
(* The BLE task: drain_commands() *)

\* A pass starts.  Since the last one the task has slept LINK_TASK_PERIOD_MS,
\* longer than a call of ble_link_write() takes.
StartPass ==
    /\ taskPc = "wake" /\ mainPc = "idle"
    /\ drainUp' = (sessionUp /\ peer = "up")
    /\ Goto("drain")
    /\ UNCHANGED <<linkState, valueVars, configVars, sessionUp, chrFound, char, readBack,
                   peerVars, writeVars>>

\* Fault: a write that fails is forgotten.
SetResultOkOnly(seq, r) ==
    result' = IF result[seq] = "Unknown" \/ r # "Ok" THEN result ELSE [result EXCEPT ![seq] = r]

\* Unless the slot of the ring belongs to a newer write by now.
SetResult(seq, r) ==
    result' = IF result[seq] = "Unknown" THEN result ELSE [result EXCEPT ![seq] = r]

\* A queued write is executed once; it can only succeed while the link is up.
DrainOne ==
    /\ taskPc = "drain" /\ queue # <<>>
    /\ \E ok \in BOOLEAN :
          /\ ok => drainUp /\ chrFound /\ peer = "up"
          /\ SetResult(Head(queue).seq, IF ok THEN "Ok" ELSE "Failed")
          /\ replayed' = (replayed \/ (ok /\ Head(queue).conn # conn))
    /\ queue' = Tail(queue)
    /\ UNCHANGED <<linkState, valueVars, configVars, taskVars, peerVars, mainPc, sawConn, nextSeq>>

\* Fault: a pass may leave writes in the queue.
DrainDoneEarly ==
    /\ taskPc = "drain"
    /\ Goto(IF reloadDue THEN "drop" ELSE "check")
    /\ UNCHANGED <<linkState, valueVars, configVars, sessionUp, chrFound, char, readBack, drainUp,
                   peerVars, writeVars>>

DrainDone ==
    /\ taskPc = "drain" /\ queue = <<>>
    /\ Goto(IF reloadDue THEN "drop" ELSE "check")
    /\ UNCHANGED <<linkState, valueVars, configVars, sessionUp, chrFound, char, readBack, drainUp,
                   peerVars, writeVars>>

----------------------------------------------------------------------------
(* The BLE task: drop_client() and apply_config() *)

LoseConnection == peer' = "down" /\ subscribed' = {} /\ notes' = <<>> /\ UNCHANGED <<conn, version>>

\* Disconnects and waits for it, with everything else still as it was.
DropClient ==
    /\ taskPc = "drop"
    /\ LoseConnection
    /\ Goto("apply")
    /\ UNCHANGED <<linkState, valueVars, configVars, sessionUp, chrFound, char, readBack, drainUp,
                   writeVars>>

\* The saved device is applied; creating a client may fail.
ApplyConfig ==
    /\ taskPc = "apply"
    /\ sessionUp' = FALSE /\ InvalidateValues
    /\ reloadDue' = FALSE /\ holdoff' = FALSE
    /\ \E client \in BOOLEAN :
          /\ configured' = (saved /\ client)
          /\ linkState' = IF ~saved THEN "NotConfigured" ELSE IF client THEN "Searching" ELSE "Error"
    /\ Goto("check")
    /\ UNCHANGED <<saved, reloads, char, readBack, drainUp, peerVars, writeVars>>

----------------------------------------------------------------------------
(* The BLE task: service_link() and attempt_connection() *)

\* The established link was lost: everything learned over it is unknown.
LinkLost ==
    /\ taskPc = "check" /\ configured /\ sessionUp /\ peer = "down"
    /\ sessionUp' = FALSE /\ InvalidateValues
    /\ linkState' = "Searching" /\ holdoff' = TRUE
    /\ Goto("wake")
    /\ UNCHANGED <<saved, reloadDue, configured, reloads, char, readBack, drainUp, peerVars,
                   writeVars>>

\* Nothing to do: not configured, connected, not yet due, or a scan is running.
Rest ==
    /\ taskPc = "check"
    /\ ~configured \/ peer = "up" \/ ~sessionUp
    /\ Goto("wake")
    /\ UNCHANGED <<linkState, valueVars, configVars, sessionUp, chrFound, char, readBack, drainUp,
                   peerVars, writeVars>>

Due == taskPc = "check" /\ configured /\ ~sessionUp /\ peer = "down" /\ ~holdoff

ConnectFails ==
    /\ Due
    /\ linkState' = IF linkState = "Error" THEN "Error" ELSE "Searching"
    /\ holdoff' = TRUE
    /\ Goto("wake")
    /\ UNCHANGED <<valueVars, saved, reloadDue, configured, reloads, sessionUp, chrFound, char,
                   readBack, drainUp, peerVars, writeVars>>

\* Scanning and connecting take longer than a call of ble_link_write().
Connect ==
    /\ Due /\ conn < MaxConn /\ mainPc = "idle"
    /\ peer' = "up" /\ conn' = conn + 1
    /\ linkState' = "Connecting"
    /\ char' = 1 /\ Goto("subscribe")
    /\ UNCHANGED <<valueVars, configVars, sessionUp, chrFound, readBack, drainUp, subscribed,
                   version, notes, writeVars>>

\* setup_session(), one characteristic at a time: subscribe, read, store.  A
\* missing characteristic or a failed subscription is only fatal when required.
Subscribe ==
    /\ taskPc = "subscribe" /\ char <= NumChars
    /\ \/ /\ peer = "up"
          /\ subscribed' = subscribed \cup {char} /\ Goto("read")
          /\ UNCHANGED char
       \/ /\ Goto(IF char \in Required THEN "failed" ELSE "read")
          /\ UNCHANGED <<subscribed, char>>
       \/ /\ char \notin Required
          /\ char' = char + 1
          /\ UNCHANGED <<subscribed, taskPc>>
    /\ UNCHANGED <<linkState, valueVars, configVars, sessionUp, chrFound, readBack, drainUp,
                   peer, conn, version, notes, writeVars>>

\* Fault: a failed read is never fatal.
ReadNeverFatal ==
    /\ taskPc = "read"
    /\ \/ /\ peer = "up"
          /\ readBack' = [conn |-> conn, version |-> version[char]]
          /\ Goto("store")
          /\ UNCHANGED char
       \/ /\ char' = char + 1 /\ Goto("subscribe")
          /\ UNCHANGED readBack
    /\ UNCHANGED <<linkState, valueVars, configVars, sessionUp, chrFound, drainUp, peerVars,
                   writeVars>>

\* The device answers the read ...
Read ==
    /\ taskPc = "read"
    /\ \/ /\ peer = "up"
          /\ readBack' = [conn |-> conn, version |-> version[char]]
          /\ Goto("store")
          /\ UNCHANGED char
       \/ /\ char \in Required
          /\ Goto("failed")
          /\ UNCHANGED <<readBack, char>>
       \/ /\ char \notin Required
          /\ char' = char + 1 /\ Goto("subscribe")
          /\ UNCHANGED readBack
    /\ UNCHANGED <<linkState, valueVars, configVars, sessionUp, chrFound, drainUp, peerVars,
                   writeVars>>

\* ... and the BLE task stores the answer a moment later.
StoreRead ==
    /\ taskPc = "store"
    /\ StoreValue(char, readBack)
    /\ char' = char + 1 /\ Goto("subscribe")
    /\ UNCHANGED <<linkState, configVars, sessionUp, chrFound, readBack, drainUp, peerVars,
                   writeVars>>

\* All characteristics done, the one for commands among them.
SetupDone ==
    /\ taskPc = "subscribe" /\ char > NumChars
    /\ sessionUp' = TRUE /\ chrFound' = TRUE
    /\ linkState' = "Connected"
    /\ Goto("wake")
    /\ UNCHANGED <<valueVars, configVars, char, readBack, drainUp, peerVars, writeVars>>

\* disconnect() only requests the disconnection: the connection is still up
\* when the values are invalidated.
SetupFails ==
    /\ taskPc = "failed" \/ (taskPc = "subscribe" /\ char > NumChars)
    /\ InvalidateValues
    /\ linkState' = "Error" /\ holdoff' = TRUE
    /\ Goto("wake")
    /\ UNCHANGED <<saved, reloadDue, configured, reloads, sessionUp, char, readBack, drainUp,
                   peerVars, writeVars>>

----------------------------------------------------------------------------
(* The remote device and the NimBLE host task *)

\* The connection ends: out of range, power loss, or a requested disconnection.
Disconnected ==
    /\ peer = "up"
    /\ LoseConnection
    /\ UNCHANGED <<linkState, valueVars, configVars, taskVars, writeVars>>

\* The device changes a value and notifies subscribers.
DeviceChanges(c) ==
    /\ peer = "up" /\ version[c] < MaxVersion
    /\ version' = [version EXCEPT ![c] = @ + 1]
    /\ notes' = IF c \in subscribed
                THEN Append(notes, [char |-> c, conn |-> conn, version |-> version'[c]]) ELSE notes
    /\ UNCHANGED <<linkState, valueVars, configVars, taskVars, peer, conn, subscribed, writeVars>>

\* The host task runs the notification callback.
Notification ==
    /\ notes # <<>>
    /\ StoreValue(Head(notes).char, [conn |-> Head(notes).conn, version |-> Head(notes).version])
    /\ notes' = Tail(notes)
    /\ UNCHANGED <<linkState, configVars, taskVars, peer, conn, subscribed, version, writeVars>>

----------------------------------------------------------------------------
(* The main loop *)

\* ble_link_write(): nothing is queued for a dead link ...
WriteCheck ==
    /\ mainPc = "idle" /\ nextSeq <= MaxSeq
    /\ linkState = "Connected"
    /\ mainPc' = "send" /\ sawConn' = conn
    /\ UNCHANGED <<linkState, valueVars, configVars, taskVars, peerVars, queue, nextSeq, result,
                   replayed>>

\* Fault: a new write is put in front of the others.
WriteSendFirst ==
    /\ mainPc = "send"
    /\ mainPc' = "idle" /\ nextSeq' = nextSeq + 1
    /\ LET room == Len(queue) < QueueLength
       IN  /\ queue' = IF room THEN <<[seq |-> nextSeq, conn |-> sawConn]>> \o queue ELSE queue
           /\ result' = [s \in 1 .. MaxSeq |->
                            IF s = nextSeq THEN (IF room THEN "Pending" ELSE "Failed")
                            ELSE IF s = nextSeq - WriteRing THEN "Unknown" ELSE result[s]]
    /\ UNCHANGED <<linkState, valueVars, configVars, taskVars, peerVars, sawConn, replayed>>

\* ... a number and a slot of the ring, which may still belong to an older
\* write, and the queue, which may be full.
WriteSend ==
    /\ mainPc = "send"
    /\ mainPc' = "idle" /\ nextSeq' = nextSeq + 1
    /\ LET room == Len(queue) < QueueLength
       IN  /\ queue' = IF room THEN Append(queue, [seq |-> nextSeq, conn |-> sawConn]) ELSE queue
           /\ result' = [s \in 1 .. MaxSeq |->
                            IF s = nextSeq THEN (IF room THEN "Pending" ELSE "Failed")
                            ELSE IF s = nextSeq - WriteRing THEN "Unknown" ELSE result[s]]
    /\ UNCHANGED <<linkState, valueVars, configVars, taskVars, peerVars, sawConn, replayed>>

\* ble_link_reload(), after the setup screen saved or erased a device.
Reload ==
    /\ reloads < MaxReloads /\ mainPc = "idle"
    /\ reloads' = reloads + 1
    /\ saved' \in BOOLEAN /\ reloadDue' = TRUE
    /\ UNCHANGED <<linkState, valueVars, configured, holdoff, taskVars, peerVars, writeVars>>

\* nextAttemptMs comes.
HoldoffOver ==
    /\ holdoff /\ holdoff' = FALSE
    /\ UNCHANGED <<linkState, valueVars, saved, reloadDue, configured, reloads, taskVars, peerVars,
                   writeVars>>

----------------------------------------------------------------------------
BleTask ==
    \/ StartPass
    \/ DrainOne
    \/ DrainDone
    \/ DropClient
    \/ ApplyConfig
    \/ LinkLost
    \/ Rest
    \/ ConnectFails
    \/ Connect
    \/ Subscribe
    \/ Read
    \/ StoreRead
    \/ SetupDone
    \/ SetupFails

HostTask == Notification \/ Disconnected \/ \E c \in Chars : DeviceChanges(c)

MainLoop == WriteCheck \/ WriteSend \/ Reload

Next == BleTask \/ HostTask \/ MainLoop \/ HoldoffOver

Spec == Init /\ [][Next]_vars

\* All tasks run; a call of ble_link_write() returns.
FairSpec == Spec /\ WF_vars(BleTask) /\ WF_vars(WriteSend)

----------------------------------------------------------------------------
(* Properties *)

\* Stored values, notifications on their way and queued writes.
Values  == [conn : 0 .. MaxConn, version : 0 .. MaxVersion]
Notes   == [char : Chars, conn : 1 .. MaxConn, version : 1 .. MaxVersion]
Entries == [seq : 1 .. MaxSeq, conn : 1 .. MaxConn]

\* Types of the variables.
TypeOK ==
    /\ linkState \in LinkStates
    /\ valid \in [Chars -> BOOLEAN]
    /\ value \in [Chars -> Values]
    /\ saved \in BOOLEAN /\ reloadDue \in BOOLEAN /\ configured \in BOOLEAN
    /\ holdoff \in BOOLEAN /\ reloads \in 0 .. MaxReloads
    /\ sessionUp \in BOOLEAN /\ chrFound \in BOOLEAN /\ drainUp \in BOOLEAN
    /\ taskPc \in {"wake", "drain", "drop", "apply", "check", "subscribe", "read", "store", "failed"}
    /\ char \in 1 .. NumChars + 1
    /\ readBack \in Values
    /\ peer \in {"up", "down"} /\ conn \in 0 .. MaxConn /\ subscribed \subseteq Chars
    /\ version \in [Chars -> 0 .. MaxVersion]
    /\ notes \in Seq(Notes)
    /\ mainPc \in {"idle", "send"} /\ sawConn \in 0 .. MaxConn
    /\ queue \in Seq(Entries) /\ Len(queue) <= QueueLength
    /\ nextSeq \in 1 .. MaxSeq + 1
    /\ result \in [1 .. MaxSeq -> Results]
    /\ replayed \in BOOLEAN

\* What ble_link_get_value() would return a value for.
Reported(c) == linkState = "Connected" /\ valid[c]

\* "Nothing cached from a previous connection is trusted": once Connected, every required value
\* is there, and what is reported for it was received in the current connection.
RequiredIsCurrent ==
    /\ linkState = "Connected" => sessionUp /\ \A c \in Required : valid[c]
    /\ \A c \in Required : Reported(c) => value[c].conn = conn

\* "NEVER retried or replayed": a write is not executed in a later connection
\* than the one its caller saw.
NeverReplayed == ~replayed

\* What the code does keep of it: losing the link is not enough to replay a
\* write, the configuration must have been reloaded as well.
ReplayNeedsReload == reloads = 0 => NeverReplayed

\* What callers see of the link: is it connected, the required values, the queued writes.
IsUp     == linkState = "Connected"
View     == [c \in Required |-> IF Reported(c) THEN value[c] ELSE NoValue]
Accepted == {queue[i] : i \in 1 .. Len(queue)}

Service == INSTANCE LinkService WITH
    connected <- IsUp, session <- conn, view <- View, accepted <- Accepted,
    reloaded <- reloads > 0, Writes <- 1 .. MaxSeq, Ring <- WriteRing

\* ble_link.h as its callers read it: complete values of the current connection, and writes that are
\* executed in order, at most once, while connected, and never replayed in a later connection
\* unless the configuration was reloaded.
KeepsService == Service!Spec

\* "their result can be followed": no write stays pending for ever.
WritesAreAnswered ==
    \A s \in 1 .. MaxSeq : result[s] = "Pending" ~> result[s] # "Pending"
=============================================================================
