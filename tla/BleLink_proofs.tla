--------------------------- MODULE BleLink_proofs ---------------------------
(***************************************************************************)
(* Proofs about BleLink, for any number of characteristics, of which any   *)
(* may be required, any length of the command queue and of the ring of     *)
(* results, and any number of connections, writes and reloads.             *)
(***************************************************************************)
EXTENDS BleLink, TLAPS

(* Types *)

\* TypeOK is not inductive.  A characteristic that is read exists, whatever
\* was received or queued belongs to a connection, and a call of
\* ble_link_write() in progress has a number left for its write.
Types ==
    /\ TypeOK
    /\ taskPc \in {"read", "store"} => char <= NumChars
    /\ peer = "up" \/ taskPc \in {"subscribe", "read", "store"} \/ linkState = "Connected" =>
          conn \in 1 .. MaxConn
    /\ mainPc = "send" => sawConn \in 1 .. MaxConn /\ nextSeq <= MaxSeq

LEMMA TypesInit == Init => Types
<1> SUFFICES ASSUME Init PROVE Types
  OBVIOUS
<1>1. /\ notes \in Seq(Notes) /\ queue \in Seq(Entries) /\ Len(queue) <= QueueLength
      /\ nextSeq \in 1 .. MaxSeq + 1 /\ char \in 1 .. NumChars + 1
      /\ reloads \in 0 .. MaxReloads
  BY LinkAssumption DEF Init
<1>2. /\ value \in [Chars -> Values] /\ readBack \in Values /\ version \in [Chars -> 0 .. MaxVersion]
      /\ conn \in 0 .. MaxConn /\ sawConn \in 0 .. MaxConn
  BY LinkAssumption DEF Init, Values, NoValue
<1>3. result \in [1 .. MaxSeq -> Results] /\ subscribed \subseteq Chars
  BY DEF Init, Results
<1> QED
  BY <1>1, <1>2, <1>3 DEF Init, Types, TypeOK, LinkStates

\* A pass of the BLE task, but for the setup of a session.
LEMMA TypesPass ==
    ASSUME Types,
           StartPass \/ DrainDone \/ DropClient \/ ApplyConfig \/ LinkLost \/ Rest \/ ConnectFails
    PROVE  Types'
<1> USE DEF Types, TypeOK, LinkStates, Goto, valueVars, configVars, taskVars, peerVars, writeVars
<1>1. CASE StartPass \/ DrainDone
  <2>1. CASE StartPass
    BY <2>1 DEF StartPass
  <2>2. CASE DrainDone
    BY <2>2 DEF DrainDone
  <2> QED
    BY <1>1, <2>1, <2>2
<1>2. CASE DropClient
  BY <1>2 DEF DropClient, LoseConnection
<1>3. CASE ApplyConfig
  BY <1>3 DEF ApplyConfig, InvalidateValues
<1>4. CASE LinkLost
  BY <1>4 DEF LinkLost, InvalidateValues
<1>5. CASE Rest \/ ConnectFails
  <2>1. CASE Rest
    BY <2>1 DEF Rest
  <2>2. CASE ConnectFails
    BY <2>2 DEF ConnectFails, Due
  <2> QED
    BY <1>5, <2>1, <2>2
<1> QED
  BY <1>1, <1>2, <1>3, <1>4, <1>5

\* A queued write is executed, and answered.
LEMMA TypesDrain == ASSUME Types, DrainOne PROVE Types'
<1>1. queue \in Seq(Entries) /\ queue # <<>> /\ Len(queue) <= QueueLength
  BY DEF DrainOne, Types, TypeOK
<1>2. /\ Head(queue) \in Entries /\ queue' \in Seq(Entries)
      /\ Len(queue') = Len(queue) - 1
  BY <1>1 DEF DrainOne
<1>3. queue' \in Seq(Entries) /\ Len(queue') <= QueueLength
  BY <1>1, <1>2, LinkAssumption
<1>4. result' \in [1 .. MaxSeq -> Results] /\ replayed' \in BOOLEAN
  BY DEF DrainOne, SetResult, Types, TypeOK, Results
<1> QED
  BY <1>3, <1>4 DEF DrainOne, Types, TypeOK, valueVars, configVars, taskVars, peerVars

LEMMA TypesSetup ==
    ASSUME Types, Connect \/ Subscribe \/ Read \/ StoreRead \/ SetupDone \/ SetupFails
    PROVE  Types'
<1> USE DEF Types, TypeOK, Chars, LinkStates, Goto, valueVars, configVars, peerVars, writeVars
<1>1. CASE Connect
  BY <1>1, LinkAssumption DEF Connect, Due
<1>2. CASE Subscribe
  <2>1. char' \in 1 .. NumChars + 1
    BY <1>2, LinkAssumption DEF Subscribe
  <2>2. subscribed' \subseteq Chars /\ taskPc' \in {"subscribe", "read", "failed"}
    <3>1. char \in Chars /\ subscribed' \in {subscribed, subscribed \cup {char}}
      BY <1>2 DEF Subscribe
    <3>2. subscribed' \subseteq Chars
      BY <3>1
    <3> QED
      BY <1>2, <3>2 DEF Subscribe
  <2>3. taskPc' = "read" => char' <= NumChars
    BY <1>2 DEF Subscribe
  <2>4. conn' = conn /\ conn \in 1 .. MaxConn
    BY <1>2 DEF Subscribe
  <2> QED
    BY <1>2, <2>1, <2>2, <2>3, <2>4 DEF Subscribe
<1>3. CASE Read
  <2>1. char' \in 1 .. NumChars + 1
    BY <1>3, LinkAssumption DEF Read
  <2>2. readBack' \in Values
    BY <1>3 DEF Read, Values
  <2> QED
    BY <1>3, <2>1, <2>2 DEF Read
<1>4. CASE StoreRead
  <2>1. char' \in 1 .. NumChars + 1
    BY <1>4, LinkAssumption DEF StoreRead
  <2>2. valid' \in [Chars -> BOOLEAN] /\ value' \in [Chars -> Values]
    BY <1>4 DEF StoreRead, StoreValue
  <2> QED
    BY <1>4, <2>1, <2>2 DEF StoreRead
<1>5. CASE SetupDone
  BY <1>5 DEF SetupDone
<1>6. CASE SetupFails
  BY <1>6 DEF SetupFails, InvalidateValues
<1> QED
  BY <1>1, <1>2, <1>3, <1>4, <1>5, <1>6

LEMMA TypesHost == ASSUME Types, HostTask PROVE Types'
<1> USE DEF valueVars, configVars, taskVars, writeVars
<1>1. CASE Disconnected
  BY <1>1 DEF Disconnected, LoseConnection, Types, TypeOK
<1>2. ASSUME NEW c \in Chars, DeviceChanges(c) PROVE Types'
  <2>1. version' \in [Chars -> 0 .. MaxVersion] /\ version'[c] \in 1 .. MaxVersion
    BY <1>2, LinkAssumption DEF DeviceChanges, Types, TypeOK
  <2>2. [char |-> c, conn |-> conn, version |-> version'[c]] \in Notes
    BY <1>2, <2>1 DEF DeviceChanges, Types, Notes
  <2>3. notes' \in Seq(Notes)
    <3>1. notes \in Seq(Notes)
      BY DEF Types, TypeOK
    <3> QED
      BY <1>2, <2>2, <3>1 DEF DeviceChanges
  <2> QED
    BY <1>2, <2>1, <2>3 DEF DeviceChanges, Types, TypeOK
<1>3. CASE Notification
  <2>1. notes \in Seq(Notes) /\ notes # <<>>
    BY <1>3 DEF Notification, Types, TypeOK
  <2>2. Head(notes) \in Notes /\ notes' \in Seq(Notes)
    BY <1>3, <2>1 DEF Notification
  <2>3. [conn |-> Head(notes).conn, version |-> Head(notes).version] \in Values
    BY <2>2 DEF Notes, Values
  <2>4. valid' \in [Chars -> BOOLEAN] /\ value' \in [Chars -> Values]
    BY <1>3, <2>2, <2>3 DEF Notification, StoreValue, Notes, Types, TypeOK
  <2> QED
    BY <1>3, <2>2, <2>4 DEF Notification, Types, TypeOK
<1> QED
  BY <1>1, <1>2, <1>3 DEF HostTask

LEMMA TypesMain == ASSUME Types, MainLoop \/ HoldoffOver PROVE Types'
<1> USE DEF valueVars, configVars, taskVars, peerVars, writeVars
<1>1. CASE WriteCheck
  BY <1>1 DEF WriteCheck, Types, TypeOK
<1>2. CASE WriteSend
  <2>1. [seq |-> nextSeq, conn |-> sawConn] \in Entries
    BY <1>2 DEF WriteSend, Types, TypeOK, Entries
  <2>2. queue' \in Seq(Entries) /\ Len(queue') <= QueueLength
    <3>1. queue \in Seq(Entries) /\ Len(queue) \in Nat /\ Len(queue) <= QueueLength
      BY DEF Types, TypeOK
    <3> QED
      BY <1>2, <2>1, <3>1, LinkAssumption DEF WriteSend
  <2>3. result' \in [1 .. MaxSeq -> Results]
    BY <1>2 DEF WriteSend, Types, TypeOK, Results
  <2>4. nextSeq' \in 1 .. MaxSeq + 1 /\ mainPc' = "idle"
    BY <1>2, LinkAssumption DEF WriteSend, Types, TypeOK
  <2> QED
    BY <1>2, <2>2, <2>3, <2>4 DEF WriteSend, Types, TypeOK
<1>3. CASE Reload
  <2>1. reloads' \in 0 .. MaxReloads
    BY <1>3, LinkAssumption DEF Reload, Types, TypeOK
  <2> QED
    BY <1>3, <2>1 DEF Reload, Types, TypeOK
<1>4. CASE HoldoffOver
  <2>1. holdoff' \in BOOLEAN
    BY <1>4 DEF HoldoffOver
  <2>2. UNCHANGED <<linkState, valueVars, saved, reloadDue, configured, reloads, taskVars, peerVars,
                    writeVars>>
    BY <1>4 DEF HoldoffOver
  <2> QED
    BY <2>1, <2>2 DEF Types, TypeOK
<1> QED
  BY <1>1, <1>2, <1>3, <1>4 DEF MainLoop

LEMMA TypesStep == Types /\ [Next]_vars => Types'
<1> SUFFICES ASSUME Types, [Next]_vars PROVE Types'
  OBVIOUS
<1>1. CASE UNCHANGED vars
  BY <1>1 DEF vars, valueVars, configVars, taskVars, peerVars, writeVars, Types, TypeOK
<1>2. CASE BleTask
  BY <1>2, TypesPass, TypesDrain, TypesSetup DEF BleTask
<1> QED
  BY <1>1, <1>2, TypesHost, TypesMain DEF Next

LEMMA TypesHold == Spec => []Types
BY TypesInit, TypesStep, PTL DEF Spec

\* Every variable keeps its type and the command queue its limit, in every
\* interleaving of the BLE task, the host task and the main loop.
THEOREM TypeCorrect == Spec => []TypeOK
<1>1. Types => TypeOK
  BY DEF Types
<1> QED
  BY <1>1, TypesHold, PTL

----------------------------------------------------------------------------
(* What is reported belongs to the current connection.  During the setup   *)
(* this holds for the characteristics that are done already.               *)

TaskInv ==
    /\ chrFound => sessionUp
    /\ taskPc \in {"subscribe", "read", "store", "failed"} => ~sessionUp
    /\ taskPc \in {"drop", "apply"} => reloadDue

CurrentInv ==
    /\ RequiredIsCurrent
    /\ peer = "down" => notes = <<>>
    /\ \A i \in 1 .. Len(notes) : notes[i].conn = conn
    /\ taskPc = "store" => readBack.conn = conn
    /\ taskPc \in {"subscribe", "read", "store"} =>
          \A c \in Required : c < char => valid[c] /\ value[c].conn = conn

LEMMA TaskStep == Types /\ TaskInv /\ [Next]_vars => TaskInv'
<1> SUFFICES ASSUME Types, TaskInv, [Next]_vars PROVE TaskInv'
  OBVIOUS
<1> USE DEF TaskInv, valueVars, configVars, taskVars, peerVars, writeVars
<1>1. CASE UNCHANGED vars
  BY <1>1 DEF vars
<1>2. CASE BleTask
  <2> USE DEF Goto
  <2>1. CASE StartPass \/ DrainOne \/ DrainDone
    BY <2>1 DEF StartPass, DrainOne, DrainDone
  <2>2. CASE DropClient \/ ApplyConfig
    BY <2>2 DEF DropClient, ApplyConfig, InvalidateValues
  <2>3. CASE LinkLost \/ Rest \/ ConnectFails
    BY <2>3 DEF LinkLost, Rest, ConnectFails, InvalidateValues
  <2>4. CASE Connect \/ SetupDone \/ SetupFails
    BY <2>4 DEF Connect, Due, SetupDone, SetupFails, InvalidateValues
  <2>5. CASE Subscribe \/ Read \/ StoreRead
    BY <2>5 DEF Subscribe, Read, StoreRead
  <2> QED
    BY <1>2, <2>1, <2>2, <2>3, <2>4, <2>5 DEF BleTask
<1>3. CASE HostTask \/ MainLoop \/ HoldoffOver
  <2>1. UNCHANGED taskVars /\ (reloadDue' = reloadDue \/ reloadDue' = TRUE)
    <3>1. CASE HostTask
      BY <3>1 DEF HostTask, Notification, Disconnected, DeviceChanges
    <3>2. CASE MainLoop \/ HoldoffOver
      BY <3>2 DEF MainLoop, WriteCheck, WriteSend, Reload, HoldoffOver
    <3> QED
      BY <1>3, <3>1, <3>2
  <2> QED
    BY <2>1
<1> QED
  BY <1>1, <1>2, <1>3 DEF Next

LEMMA CurrentInit == Init => CurrentInv /\ TaskInv
BY DEF Init, CurrentInv, TaskInv, RequiredIsCurrent, Reported

\* The BLE task, as far as it does not store a value.
LEMMA CurrentPass ==
    ASSUME Types, CurrentInv,
           BleTask, ~StoreRead
    PROVE  CurrentInv'
<1> USE DEF CurrentInv, RequiredIsCurrent, Reported, Goto, valueVars, configVars, peerVars,
            writeVars
<1>1. CASE StartPass \/ DrainDone \/ Rest
  BY <1>1 DEF StartPass, DrainDone, Rest
<1>2. CASE DrainOne
  BY <1>2 DEF DrainOne, taskVars
<1>3. CASE DropClient
  BY <1>3 DEF DropClient, LoseConnection
<1>4. CASE ApplyConfig \/ LinkLost
  BY <1>4 DEF ApplyConfig, LinkLost, InvalidateValues
<1>5. CASE ConnectFails
  BY <1>5 DEF ConnectFails, Due
<1>6. CASE Connect
  <2>1. \A c \in Required : ~(c < char')
    BY <1>6, LinkAssumption DEF Connect
  <2> QED
    BY <1>6, <2>1 DEF Connect, Due
<1>7. CASE Subscribe
  <2>1. taskPc' \in {"subscribe", "read"} => \A c \in Required : c < char' => c < char
    BY <1>7, LinkAssumption DEF Subscribe, Types, TypeOK
  <2> QED
    BY <1>7, <2>1 DEF Subscribe
<1>8. CASE Read
  <2>1. taskPc' \in {"subscribe", "store"} => \A c \in Required : c < char' => c < char
    BY <1>8, LinkAssumption DEF Read, Types, TypeOK
  <2>2. taskPc' = "store" => readBack'.conn = conn
    BY <1>8 DEF Read
  <2> QED
    BY <1>8, <2>1, <2>2 DEF Read
<1>9. CASE SetupDone
  <2>1. \A c \in Required : c < char
    BY <1>9, LinkAssumption DEF SetupDone, Types, TypeOK
  <2> QED
    BY <1>9, <2>1 DEF SetupDone
<1>10. CASE SetupFails
  BY <1>10 DEF SetupFails, InvalidateValues
<1> QED
  BY <1>1, <1>2, <1>3, <1>4, <1>5, <1>6, <1>7, <1>8, <1>9, <1>10 DEF BleTask

\* A value that is stored was received in the current connection.
LEMMA CurrentStore ==
    ASSUME Types, CurrentInv, NEW c \in Chars, NEW v \in Values, v.conn = conn,
           StoreValue(c, v), UNCHANGED <<linkState, sessionUp, conn>>
    PROVE  /\ RequiredIsCurrent'
           /\ valid'[c] /\ value'[c].conn = conn
           /\ \A d \in Chars : valid[d] /\ value[d].conn = conn => valid'[d] /\ value'[d].conn = conn
<1>1. valid'[c] /\ value'[c] = v /\ \A d \in Chars \ {c} : valid'[d] = valid[d] /\ value'[d] = value[d]
  BY DEF StoreValue, Types, TypeOK
<1> QED
  BY <1>1, LinkAssumption DEF CurrentInv, RequiredIsCurrent, Reported, Chars

LEMMA CurrentStep == Types /\ CurrentInv /\ [Next]_vars => CurrentInv'
<1> SUFFICES ASSUME Types, CurrentInv, [Next]_vars PROVE CurrentInv'
  OBVIOUS
<1> USE DEF valueVars, configVars, taskVars, writeVars
<1>1. CASE UNCHANGED vars
  BY <1>1 DEF vars, CurrentInv, RequiredIsCurrent, Reported, peerVars
<1>2. CASE StoreRead
  <2>1. char \in Chars /\ readBack \in Values /\ readBack.conn = conn
    BY <1>2 DEF StoreRead, CurrentInv, Types, TypeOK, Chars
  <2>2. /\ RequiredIsCurrent'
        /\ valid'[char] /\ value'[char].conn = conn
        /\ \A d \in Chars : valid[d] /\ value[d].conn = conn => valid'[d] /\ value'[d].conn = conn
    BY <1>2, <2>1, CurrentStore DEF StoreRead, peerVars
  <2>3. \A c \in Required : c < char' => c \in Chars /\ (c < char \/ c = char)
    BY <1>2, <2>1, LinkAssumption DEF StoreRead, Chars
  <2> QED
    BY <1>2, <2>2, <2>3 DEF StoreRead, CurrentInv, Goto, peerVars
<1>3. CASE Notification
  <2>1. notes \in Seq(Notes) /\ notes # <<>>
    BY <1>3 DEF Notification, Types, TypeOK
  <2>2. Head(notes) \in Notes /\ Head(notes) = notes[1] /\ 1 \in 1 .. Len(notes)
    BY <2>1
  <2>3. [conn |-> Head(notes).conn, version |-> Head(notes).version] \in Values
    BY <2>2 DEF Notes, Values
  <2>4. Head(notes).conn = conn
    BY <2>2 DEF CurrentInv
  <2>5. /\ RequiredIsCurrent'
        /\ \A d \in Chars : valid[d] /\ value[d].conn = conn => valid'[d] /\ value'[d].conn = conn
    BY <1>3, <2>2, <2>3, <2>4, CurrentStore DEF Notification, Notes
  <2>6. \A i \in 1 .. Len(notes') : i + 1 \in 1 .. Len(notes) /\ notes'[i] = notes[i + 1]
    BY <1>3, <2>1 DEF Notification
  <2>7. peer' = "down" => notes' = <<>>
    BY <1>3, <2>1 DEF Notification, CurrentInv
  <2> QED
    BY <1>3, <2>5, <2>6, <2>7, LinkAssumption DEF Notification, CurrentInv, Chars
<1>4. CASE Disconnected
  BY <1>4 DEF Disconnected, LoseConnection, CurrentInv, RequiredIsCurrent, Reported
<1>5. ASSUME NEW c \in Chars, DeviceChanges(c) PROVE CurrentInv'
  <2>1. \A i \in 1 .. Len(notes') : notes'[i].conn = conn
    <3>1. notes \in Seq(Notes) /\ \A i \in 1 .. Len(notes) : notes[i].conn = conn
      BY DEF Types, TypeOK, CurrentInv
    <3>2. PICK n : n.conn = conn /\ notes' \in {notes, Append(notes, n)}
      BY <1>5 DEF DeviceChanges
    <3>3. CASE notes' = notes
      BY <3>1, <3>3
    <3>4. CASE notes' = Append(notes, n)
      BY <3>1, <3>2, <3>4
    <3> QED
      BY <3>2, <3>3, <3>4
  <2> QED
    BY <1>5, <2>1 DEF DeviceChanges, CurrentInv, RequiredIsCurrent, Reported
<1>6. CASE MainLoop \/ HoldoffOver
  BY <1>6 DEF MainLoop, WriteCheck, WriteSend, Reload, HoldoffOver, CurrentInv,
     RequiredIsCurrent, Reported, peerVars
<1> QED
  BY <1>1, <1>2, <1>3, <1>4, <1>5, <1>6, CurrentPass DEF Next, HostTask, BleTask

LEMMA CurrentHolds == Spec => [](Types /\ CurrentInv /\ TaskInv)
BY TypesInit, TypesStep, CurrentInit, CurrentStep, TaskStep, PTL DEF Spec

\* Nothing cached from a previous connection is trusted: when the link is
\* Connected all required values are there, from this very connection, however
\* notifications, reads, reloads and lost connections interleave.
THEOREM RequiredIsFromThisConnection == Spec => []RequiredIsCurrent
<1>1. CurrentInv => RequiredIsCurrent
  BY DEF CurrentInv
<1> QED
  BY <1>1, CurrentHolds, PTL

----------------------------------------------------------------------------
(* Writes.  Without a reload, what is queued or about to be queued belongs *)
(* to the current session, and without a session there is nothing: the     *)
(* pass that connects again has emptied the queue first.                   *)

QueueInv ==
    /\ reloadDue => ~sessionUp /\ taskPc \in {"wake", "drain", "drop", "apply"}
    /\ ~sessionUp /\ taskPc # "wake" => mainPc = "idle"
    /\ ~sessionUp /\ taskPc \notin {"wake", "drain"} => queue = <<>>
    /\ sessionUp => \A i \in 1 .. Len(queue) : queue[i].conn = conn
    /\ sessionUp /\ mainPc = "send" => sawConn = conn
    /\ ~replayed

NoReloadInv == reloads = 0 => QueueInv

LEMMA NoReloadInit == Init => NoReloadInv
BY DEF Init, NoReloadInv, QueueInv

\* Taking a write from the queue, and adding one.
LEMMA TakeWrite ==
    ASSUME queue \in Seq(Entries), queue # <<>>, queue' = Tail(queue)
    PROVE  /\ Head(queue) = queue[1] /\ Head(queue) \in Entries /\ 1 \in 1 .. Len(queue)
           /\ Len(queue') = Len(queue) - 1 /\ Len(queue) \in Nat
           /\ \A i \in 1 .. Len(queue') : i + 1 \in 1 .. Len(queue) /\ queue'[i] = queue[i + 1]
  OBVIOUS

LEMMA AddWrite ==
    ASSUME queue \in Seq(Entries), NEW e \in Entries, queue' = Append(queue, e)
    PROVE  /\ Len(queue') = Len(queue) + 1 /\ Len(queue) \in Nat
           /\ queue'[Len(queue')] = e
           /\ \A i \in 1 .. Len(queue') : i # Len(queue') =>
                 i \in 1 .. Len(queue) /\ queue'[i] = queue[i]
  OBVIOUS

LEMMA NoReloadStep ==
    Types /\ TaskInv /\ RequiredIsCurrent /\ NoReloadInv /\ [Next]_vars => NoReloadInv'
<1> SUFFICES ASSUME Types, TaskInv, RequiredIsCurrent, NoReloadInv, [Next]_vars,
                    reloads' = 0
             PROVE  QueueInv'
  BY DEF NoReloadInv
<1> USE DEF valueVars, configVars, peerVars
<1>0. QueueInv /\ ~Reload
  <2>1. ~Reload
    BY DEF Reload, Types, TypeOK
  <2>2. reloads = 0
    BY <2>1 DEF Next, BleTask, StartPass, DrainOne, DrainDone, DropClient, ApplyConfig, LinkLost,
       Rest, ConnectFails, Connect, Subscribe, Read, StoreRead, SetupDone, SetupFails, HostTask,
       Notification, Disconnected, DeviceChanges, MainLoop, WriteCheck, WriteSend, HoldoffOver, vars
  <2> QED
    BY <2>1, <2>2 DEF NoReloadInv
<1>1. CASE UNCHANGED vars
  BY <1>0, <1>1 DEF vars, QueueInv, taskVars, writeVars
<1>2. CASE DrainOne
  <2>1. /\ Head(queue) = queue[1] /\ 1 \in 1 .. Len(queue)
        /\ \A i \in 1 .. Len(queue') : i + 1 \in 1 .. Len(queue) /\ queue'[i] = queue[i + 1]
    BY <1>2, TakeWrite DEF DrainOne, Types, TypeOK
  <2>2. ~replayed'
    <3>1. CASE sessionUp
      BY <1>0, <1>2, <2>1, <3>1 DEF DrainOne, QueueInv
    <3>2. CASE ~sessionUp
      BY <1>0, <1>2, <3>2 DEF DrainOne, QueueInv, TaskInv
    <3> QED
      BY <3>1, <3>2
  <2> QED
    BY <1>0, <1>2, <2>1, <2>2 DEF DrainOne, QueueInv, taskVars
<1>3. CASE StartPass \/ DrainDone \/ DropClient \/ Rest
  BY <1>0, <1>3 DEF StartPass, DrainDone, DropClient, LoseConnection, Rest, QueueInv, Goto,
     writeVars
<1>4. CASE ApplyConfig \/ LinkLost
  BY <1>0, <1>4 DEF ApplyConfig, LinkLost, QueueInv, TaskInv, Goto, writeVars
<1>5. CASE ConnectFails \/ Connect
  BY <1>0, <1>5 DEF ConnectFails, Connect, Due, QueueInv, Goto, writeVars
<1>6. CASE Subscribe \/ Read \/ StoreRead
  BY <1>0, <1>6 DEF Subscribe, Read, StoreRead, QueueInv, TaskInv, Goto, writeVars
<1>7. CASE SetupDone
  <2>1. queue = <<>> /\ mainPc = "idle" /\ ~replayed
    BY <1>0, <1>7 DEF SetupDone, QueueInv, TaskInv
  <2>2. ~reloadDue
    BY <1>0, <1>7 DEF SetupDone, QueueInv, TaskInv
  <2> QED
    BY <1>7, <2>1, <2>2 DEF SetupDone, QueueInv, Goto, writeVars
<1>8. CASE SetupFails
  <2>1. ~sessionUp /\ ~reloadDue /\ ~replayed
    BY <1>0, <1>8 DEF SetupFails, QueueInv, TaskInv
  <2>2. taskPc' = "wake" /\ UNCHANGED <<sessionUp, reloadDue, replayed>>
    BY <1>8 DEF SetupFails, Goto, writeVars
  <2> QED
    BY <2>1, <2>2 DEF QueueInv
<1>9. CASE HostTask \/ HoldoffOver
  <2>1. UNCHANGED <<reloadDue, sessionUp, taskPc, mainPc, queue, conn, sawConn, replayed>>
    BY <1>9 DEF HostTask, Notification, Disconnected, LoseConnection, DeviceChanges, HoldoffOver,
       taskVars, writeVars
  <2> QED
    BY <1>0, <2>1 DEF QueueInv
<1>10. CASE WriteCheck
  BY <1>0, <1>10 DEF WriteCheck, QueueInv, RequiredIsCurrent, taskVars
<1>11. CASE WriteSend
  <2>1. [seq |-> nextSeq, conn |-> sawConn] \in Entries
    BY <1>11 DEF WriteSend, Types, TypeOK, Entries
  <2>2. queue' = queue \/ queue' = Append(queue, [seq |-> nextSeq, conn |-> sawConn])
    BY <1>11 DEF WriteSend
  <2>3. sessionUp => \A i \in 1 .. Len(queue') : queue'[i].conn = conn
    <3> SUFFICES ASSUME sessionUp, NEW i \in 1 .. Len(queue') PROVE queue'[i].conn = conn
      OBVIOUS
    <3>1. sawConn = conn /\ \A j \in 1 .. Len(queue) : queue[j].conn = conn
      BY <1>0, <1>11 DEF QueueInv, WriteSend
    <3>2. CASE queue' = queue
      BY <3>1, <3>2
    <3>3. CASE queue' = Append(queue, [seq |-> nextSeq, conn |-> sawConn])
      BY <2>1, <3>1, <3>3, AddWrite DEF Types, TypeOK
    <3> QED
      BY <2>2, <3>2, <3>3
  <2>4. sessionUp \/ taskPc = "wake"
    BY <1>0, <1>11 DEF WriteSend, QueueInv
  <2> QED
    BY <1>0, <1>11, <2>3, <2>4 DEF WriteSend, QueueInv, taskVars
<1> QED
  BY <1>0, <1>1, <1>2, <1>3, <1>4, <1>5, <1>6, <1>7, <1>8, <1>9, <1>10, <1>11
  DEF Next, BleTask, MainLoop

\* Losing the link is not enough to replay a write: as long as the
\* configuration is not reloaded, no write is executed in a later connection
\* than the one its caller saw.
THEOREM LosingTheLinkReplaysNothing == Spec => []ReplayNeedsReload
<1>1. NoReloadInv => ReplayNeedsReload
  BY DEF NoReloadInv, QueueInv, ReplayNeedsReload, NeverReplayed
<1>2. CurrentInv => RequiredIsCurrent
  BY DEF CurrentInv
<1> QED
  BY <1>1, <1>2, NoReloadInit, NoReloadStep, CurrentHolds, PTL DEF Spec

----------------------------------------------------------------------------
(* Answers.  The queue holds its writes in the order of their numbers, and *)
(* a write that is pending is in the queue.                                *)

OrderInv ==
    /\ \A i \in 1 .. Len(queue) : queue[i].seq < nextSeq
    /\ \A i, j \in 1 .. Len(queue) : i < j => queue[i].seq < queue[j].seq
    /\ \A i \in 1 .. Len(queue) : result[queue[i].seq] \in {"Pending", "Unknown"}
    /\ \A s \in nextSeq .. MaxSeq : result[s] = "Unknown"

\* A write whose caller still waits for an answer is in the queue.
PendingIsQueued ==
    \A s \in 1 .. MaxSeq : result[s] = "Pending" => \E i \in 1 .. Len(queue) : queue[i].seq = s

\* An answer may be forgotten, when its slot of the ring is reused, but is never changed.
AnswerStands ==
    \A s \in 1 .. MaxSeq : result[s] \in {"Ok", "Failed"} => result'[s] \in {result[s], "Unknown"}

LEMMA OrderInit == Init => OrderInv /\ PendingIsQueued
BY LinkAssumption DEF Init, OrderInv, PendingIsQueued

\* The others leave the queue and the results alone.
LEMMA WritesRest ==
    ASSUME [Next]_vars, ~DrainOne, ~WriteSend
    PROVE  UNCHANGED <<queue, nextSeq, result>>
<1> USE DEF writeVars
<1>1. CASE UNCHANGED vars
  BY <1>1 DEF vars
<1>2. CASE BleTask
  BY <1>2 DEF BleTask, StartPass, DrainDone, DropClient, ApplyConfig, LinkLost, Rest,
     ConnectFails, Connect, Subscribe, Read, StoreRead, SetupDone, SetupFails
<1>3. CASE HostTask
  BY <1>3 DEF HostTask, Notification, Disconnected, DeviceChanges
<1>4. CASE MainLoop \/ HoldoffOver
  BY <1>4 DEF MainLoop, WriteCheck, Reload, HoldoffOver
<1> QED
  BY <1>1, <1>2, <1>3, <1>4 DEF Next

\* The head is answered; the writes behind it have higher numbers.
LEMMA DrainOrder ==
    ASSUME Types, OrderInv, PendingIsQueued, DrainOne
    PROVE  OrderInv' /\ PendingIsQueued' /\ AnswerStands
<1>1. /\ Head(queue) = queue[1] /\ Head(queue) \in Entries /\ 1 \in 1 .. Len(queue)
      /\ Len(queue') = Len(queue) - 1 /\ Len(queue) \in Nat
      /\ \A i \in 1 .. Len(queue') : i + 1 \in 1 .. Len(queue) /\ queue'[i] = queue[i + 1]
  BY TakeWrite DEF DrainOne, Types, TypeOK
<1> DEFINE h == Head(queue).seq
<1>2. h \in 1 .. MaxSeq
  BY <1>1 DEF Entries
<1>3. /\ nextSeq' = nextSeq /\ result \in [1 .. MaxSeq -> Results]
      /\ \A s \in 1 .. MaxSeq : s # h \/ result[s] = "Unknown" => result'[s] = result[s]
      /\ result[h] # "Unknown" => result'[h] \in {"Ok", "Failed"}
  BY <1>2 DEF DrainOne, SetResult, Types, TypeOK
<1>4. result[h] \in {"Pending", "Unknown"}
  BY <1>1 DEF OrderInv
<1>5. \A i \in 1 .. Len(queue') : queue'[i].seq \in 1 .. MaxSeq /\ h < queue'[i].seq
  <2> SUFFICES ASSUME NEW i \in 1 .. Len(queue')
               PROVE  queue'[i].seq \in 1 .. MaxSeq /\ h < queue'[i].seq
    OBVIOUS
  <2>1. queue[i + 1] \in Entries
    BY <1>1 DEF Types, TypeOK
  <2>2. queue[1].seq < queue[i + 1].seq
    BY <1>1 DEF OrderInv
  <2> QED
    BY <1>1, <2>1, <2>2 DEF Entries
<1> HIDE DEF h
<1>6. OrderInv'
  <2>1. \A i \in 1 .. Len(queue') : queue'[i].seq < nextSeq'
    BY <1>1, <1>3 DEF OrderInv
  <2>2. \A i, j \in 1 .. Len(queue') : i < j => queue'[i].seq < queue'[j].seq
    BY <1>1 DEF OrderInv
  <2>3. \A i \in 1 .. Len(queue') : result'[queue'[i].seq] \in {"Pending", "Unknown"}
    <3> SUFFICES ASSUME NEW i \in 1 .. Len(queue')
                 PROVE  result'[queue'[i].seq] \in {"Pending", "Unknown"}
      OBVIOUS
    <3>1. queue'[i].seq \in 1 .. MaxSeq /\ queue'[i].seq # h
      BY <1>2, <1>5
    <3>2. result[queue'[i].seq] \in {"Pending", "Unknown"}
      BY <1>1 DEF OrderInv
    <3> QED
      BY <1>3, <3>1, <3>2
  <2>4. \A s \in nextSeq' .. MaxSeq : result'[s] = "Unknown"
    BY <1>3 DEF OrderInv, Types, TypeOK
  <2> QED
    BY <2>1, <2>2, <2>3, <2>4 DEF OrderInv
<1>7. PendingIsQueued'
  <2> SUFFICES ASSUME NEW s \in 1 .. MaxSeq, result'[s] = "Pending"
               PROVE  \E i \in 1 .. Len(queue') : queue'[i].seq = s
    BY DEF PendingIsQueued
  <2>1. s # h /\ result[s] = "Pending"
    BY <1>2, <1>3, <1>4
  <2>2. PICK j \in 1 .. Len(queue) : queue[j].seq = s
    BY <2>1 DEF PendingIsQueued
  <2>3. j # 1
    BY <1>1, <2>1, <2>2 DEF h
  <2>4. j - 1 \in 1 .. Len(queue') /\ j - 1 + 1 = j
    BY <1>1, <2>3
  <2> QED
    BY <1>1, <2>2, <2>4
<1>8. AnswerStands
  BY <1>2, <1>3, <1>4 DEF AnswerStands
<1> QED
  BY <1>6, <1>7, <1>8

\* The new write has the highest number, which was never answered before.
LEMMA SendOrder ==
    ASSUME Types, OrderInv, PendingIsQueued, WriteSend
    PROVE  OrderInv' /\ PendingIsQueued' /\ AnswerStands
<1> DEFINE e == [seq |-> nextSeq, conn |-> sawConn]
           room == Len(queue) < QueueLength
<1>1. /\ nextSeq \in 1 .. MaxSeq /\ nextSeq' = nextSeq + 1 /\ e \in Entries /\ e.seq = nextSeq
      /\ queue \in Seq(Entries) /\ result[nextSeq] = "Unknown" /\ WriteRing \in Nat \ {0}
  BY LinkAssumption DEF WriteSend, Types, TypeOK, Entries, OrderInv
<1>2. \A s \in 1 .. MaxSeq \ {nextSeq} : result'[s] \in {result[s], "Unknown"}
  BY DEF WriteSend
<1>3. result'[nextSeq] = IF room THEN "Pending" ELSE "Failed"
  BY <1>1 DEF WriteSend
<1>4. queue' = IF room THEN Append(queue, e) ELSE queue
  BY DEF WriteSend
<1>5. \A i \in 1 .. Len(queue) : queue[i].seq \in 1 .. MaxSeq /\ queue[i].seq < nextSeq
  <2> SUFFICES ASSUME NEW i \in 1 .. Len(queue)
               PROVE  queue[i].seq \in 1 .. MaxSeq /\ queue[i].seq < nextSeq
    OBVIOUS
  <2>1. queue[i] \in Entries
    BY <1>1
  <2> QED
    BY <2>1 DEF Entries, OrderInv
<1>6. \A s \in nextSeq' .. MaxSeq : result'[s] = "Unknown"
  BY <1>1, <1>2 DEF OrderInv
<1>7. AnswerStands
  BY <1>1, <1>2 DEF AnswerStands
<1>8. CASE ~room
  <2>1. queue' = queue /\ result'[nextSeq] = "Failed"
    BY <1>3, <1>4, <1>8
  <2>2. \A i \in 1 .. Len(queue) : result'[queue[i].seq] \in {"Pending", "Unknown"}
    BY <1>1, <1>2, <1>5 DEF OrderInv
  <2>3. OrderInv'
    BY <1>1, <1>5, <1>6, <2>1, <2>2 DEF OrderInv
  <2>4. PendingIsQueued'
    BY <1>2, <2>1 DEF PendingIsQueued
  <2> QED
    BY <1>7, <2>3, <2>4
<1>9. CASE room
  <2>1. result'[nextSeq] = "Pending"
    BY <1>3, <1>9
  <2>2. /\ Len(queue') = Len(queue) + 1 /\ Len(queue) \in Nat
        /\ queue'[Len(queue')] = e
        /\ \A i \in 1 .. Len(queue') : i # Len(queue') =>
              i \in 1 .. Len(queue) /\ queue'[i] = queue[i]
    BY <1>1, <1>4, <1>9, AddWrite
  <2> HIDE DEF e
  <2>3. \A i \in 1 .. Len(queue') : queue'[i].seq < nextSeq'
    BY <1>1, <1>5, <2>2
  <2>4. \A i, j \in 1 .. Len(queue') : i < j => queue'[i].seq < queue'[j].seq
    <3> SUFFICES ASSUME NEW i \in 1 .. Len(queue'), NEW j \in 1 .. Len(queue'), i < j
                 PROVE  queue'[i].seq < queue'[j].seq
      OBVIOUS
    <3>1. i \in 1 .. Len(queue) /\ queue'[i] = queue[i]
      BY <2>2
    <3>2. CASE j = Len(queue')
      BY <1>1, <1>5, <2>2, <3>1, <3>2
    <3>3. CASE j # Len(queue')
      BY <2>2, <3>1, <3>3 DEF OrderInv
    <3> QED
      BY <3>2, <3>3
  <2>5. \A i \in 1 .. Len(queue') : result'[queue'[i].seq] \in {"Pending", "Unknown"}
    <3> SUFFICES ASSUME NEW i \in 1 .. Len(queue')
                 PROVE  result'[queue'[i].seq] \in {"Pending", "Unknown"}
      OBVIOUS
    <3>1. CASE i = Len(queue')
      BY <1>1, <2>1, <2>2, <3>1
    <3>2. CASE i # Len(queue')
      <4>1. /\ i \in 1 .. Len(queue) /\ queue'[i] = queue[i]
            /\ queue[i].seq \in 1 .. MaxSeq \ {nextSeq}
        BY <1>1, <1>5, <2>2, <3>2
      <4> QED
        BY <1>2, <4>1 DEF OrderInv
    <3> QED
      BY <3>1, <3>2
  <2>6. PendingIsQueued'
    <3> SUFFICES ASSUME NEW s \in 1 .. MaxSeq, result'[s] = "Pending"
                 PROVE  \E i \in 1 .. Len(queue') : queue'[i].seq = s
      BY DEF PendingIsQueued
    <3>1. CASE s = nextSeq
      BY <1>1, <2>2, <3>1
    <3>2. CASE s # nextSeq
      <4>1. result[s] = "Pending"
        BY <1>2, <3>2
      <4>2. PICK i \in 1 .. Len(queue) : queue[i].seq = s
        BY <4>1 DEF PendingIsQueued
      <4>3. i \in 1 .. Len(queue') /\ queue'[i] = queue[i]
        BY <2>2
      <4> QED
        BY <4>2, <4>3
    <3> QED
      BY <3>1, <3>2
  <2> QED
    BY <1>6, <1>7, <2>3, <2>4, <2>5, <2>6 DEF OrderInv
<1> QED
  BY <1>8, <1>9

LEMMA OrderStep ==
    Types /\ OrderInv /\ PendingIsQueued /\ [Next]_vars =>
        OrderInv' /\ PendingIsQueued' /\ AnswerStands
<1> SUFFICES ASSUME Types, OrderInv, PendingIsQueued, [Next]_vars, ~DrainOne, ~WriteSend
             PROVE  OrderInv' /\ PendingIsQueued' /\ AnswerStands
  BY DrainOrder, SendOrder
<1>1. UNCHANGED <<queue, nextSeq, result>>
  BY WritesRest
<1> QED
  BY <1>1 DEF OrderInv, PendingIsQueued, AnswerStands

\* No write is lost: as long as its caller is told that it is pending, it is in
\* the queue, and the BLE task will come by it.
THEOREM NoWriteIsLost == Spec => []PendingIsQueued
BY OrderInit, OrderStep, TypesHold, PTL DEF Spec

\* A write is executed once: what was answered is never answered differently,
\* although the ring of results is shared by the main loop and the BLE task
\* and its slots are reused.
THEOREM AnswersStand == Spec => [][AnswerStands]_vars
<1>1. Types /\ OrderInv /\ PendingIsQueued /\ [Next]_vars => [AnswerStands]_vars
  BY OrderStep
<1> QED
  BY <1>1, OrderInit, OrderStep, TypesHold, PTL DEF Spec

----------------------------------------------------------------------------
(* The promise to callers: every step is a step of LinkService or leaves   *)
(* what callers see alone.                                                 *)

\* The state Connected and the session begin and end together, and a call of
\* ble_link_write() does not stretch over the making of a connection.
CallerInv ==
    /\ sessionUp => IsUp
    /\ mainPc = "send" => sawConn = conn

LEMMA CallerStep == Types /\ TaskInv /\ CallerInv /\ [Next]_vars => CallerInv'
<1> SUFFICES ASSUME Types, TaskInv, CallerInv, [Next]_vars PROVE CallerInv'
  OBVIOUS
<1> USE DEF CallerInv, IsUp, valueVars, configVars, peerVars
<1>1. CASE UNCHANGED vars
  BY <1>1 DEF vars, taskVars, writeVars
<1>2. CASE BleTask
  <2> USE DEF writeVars
  <2>1. CASE StartPass \/ DrainOne \/ DrainDone
    BY <2>1 DEF StartPass, DrainOne, DrainDone, taskVars
  <2>2. CASE DropClient \/ ApplyConfig \/ LinkLost \/ Rest
    BY <2>2 DEF DropClient, LoseConnection, ApplyConfig, LinkLost, Rest
  <2>3. CASE ConnectFails \/ Connect
    BY <2>3 DEF ConnectFails, Connect, Due
  <2>4. CASE Subscribe \/ Read \/ StoreRead
    BY <2>4 DEF Subscribe, Read, StoreRead
  <2>5. CASE SetupDone \/ SetupFails
    BY <2>5 DEF SetupDone, SetupFails, TaskInv
  <2> QED
    BY <1>2, <2>1, <2>2, <2>3, <2>4, <2>5 DEF BleTask
<1>3. CASE HostTask
  <2>1. UNCHANGED <<sessionUp, linkState, mainPc, sawConn, conn>>
    BY <1>3 DEF HostTask, Notification, Disconnected, LoseConnection, DeviceChanges, taskVars, writeVars
  <2> QED
    BY <2>1
<1>4. CASE MainLoop \/ HoldoffOver
  BY <1>4 DEF MainLoop, WriteCheck, WriteSend, Reload, HoldoffOver, taskVars, writeVars
<1> QED
  BY <1>1, <1>2, <1>3, <1>4 DEF Next

\* Whoever is not connected sees no value.
LEMMA NothingSeen == ~IsUp => View = Service!Nothing
BY DEF IsUp, View, Reported, Service!Nothing

\* Staying disconnected leaves what callers see alone, as far as no write is touched.
LEMMA StayOffline ==
    ASSUME ~IsUp, ~IsUp', UNCHANGED <<queue, nextSeq, result, reloads>>
    PROVE  UNCHANGED <<IsUp, View, Accepted, nextSeq, result, reloads > 0>>
<1>1. IsUp' = IsUp
  BY DEF IsUp
<1>2. View' = Service!Nothing /\ View = Service!Nothing
  BY DEF IsUp, View, Reported, Service!Nothing
<1> QED
  BY <1>1, <1>2 DEF Accepted

\* What callers see depends on these variables only.
LEMMA UnseenStep ==
    ASSUME UNCHANGED <<linkState, valid, value, conn, queue, nextSeq, result, reloads>>
    PROVE  UNCHANGED Service!vars
BY DEF Service!vars, IsUp, View, Reported, Accepted

LEMMA UnseenActions ==
    ASSUME StartPass \/ DrainDone \/ DropClient \/ Rest \/ Subscribe \/ Read \/ WriteCheck
           \/ Disconnected \/ (\E c \in Chars : DeviceChanges(c)) \/ HoldoffOver \/ UNCHANGED vars
    PROVE  UNCHANGED Service!vars
<1> USE DEF valueVars, configVars, peerVars, writeVars, LoseConnection
<1>1. UNCHANGED <<linkState, valid, value, conn, queue, nextSeq, result, reloads>>
  <2>1. CASE StartPass \/ DrainDone \/ DropClient \/ Rest
    BY <2>1 DEF StartPass, DrainDone, DropClient, Rest
  <2>2. CASE Subscribe \/ Read \/ WriteCheck
    BY <2>2 DEF Subscribe, Read, WriteCheck
  <2>3. CASE Disconnected \/ (\E c \in Chars : DeviceChanges(c)) \/ HoldoffOver
    BY <2>3 DEF Disconnected, DeviceChanges, HoldoffOver
  <2>4. CASE UNCHANGED vars
    BY <2>4 DEF vars
  <2> QED
    BY <2>1, <2>2, <2>3, <2>4
<1> QED
  BY <1>1, UnseenStep

\* Steps without a connection, before and after.
LEMMA OfflineActions ==
    ASSUME TaskInv, RequiredIsCurrent, ConnectFails \/ SetupFails \/ StoreRead
    PROVE  UNCHANGED Service!vars
<1> USE DEF valueVars, configVars, peerVars, writeVars
<1>1. ~IsUp
  BY DEF IsUp, RequiredIsCurrent, TaskInv, ConnectFails, Due, SetupFails, StoreRead
<1>2. ~IsUp' /\ UNCHANGED <<conn, queue, nextSeq, result, reloads>>
  BY <1>1 DEF IsUp, ConnectFails, SetupFails, StoreRead
<1> QED
  BY <1>1, <1>2, StayOffline DEF Service!vars

\* The end of a session, or of none.
LEMMA LoseStep ==
    ASSUME ApplyConfig \/ LinkLost
    PROVE  Service!Lose \/ UNCHANGED Service!vars
<1> USE DEF configVars, peerVars, writeVars
<1>1. ~IsUp' /\ UNCHANGED <<conn, queue, nextSeq, result, reloads>>
  BY DEF IsUp, ApplyConfig, LinkLost
<1>2. View' = Service!Nothing
  BY <1>1 DEF IsUp, View, Reported, Service!Nothing
<1>3. CASE IsUp
  BY <1>1, <1>2, <1>3 DEF Service!Lose, Accepted
<1>4. CASE ~IsUp
  BY <1>1, <1>4, StayOffline DEF Service!vars
<1> QED
  BY <1>3, <1>4

LEMMA DialStep == ASSUME RequiredIsCurrent, Connect PROVE Service!Dial
<1> USE DEF valueVars, configVars, peerVars, writeVars
<1>1. ~IsUp /\ ~IsUp' /\ conn' = conn + 1 /\ UNCHANGED <<queue, nextSeq, result, reloads>>
  BY DEF IsUp, RequiredIsCurrent, Connect, Due
<1> QED
  BY <1>1, StayOffline DEF Service!Dial

\* The session is up: all required values are there, and of this connection.
LEMMA ConnectStep ==
    ASSUME TaskInv, RequiredIsCurrent, RequiredIsCurrent', SetupDone
    PROVE  Service!Connect
<1> USE DEF valueVars, configVars, peerVars, writeVars
<1>1. ~IsUp /\ IsUp' /\ UNCHANGED <<conn, queue, nextSeq, result, reloads>>
  BY DEF IsUp, RequiredIsCurrent, TaskInv, SetupDone
<1>2. \A c \in Required : View'[c].conn = conn
  BY <1>1 DEF IsUp, View, Reported, RequiredIsCurrent
<1> QED
  BY <1>1, <1>2 DEF Service!Connect, Accepted

\* A notification changes one value, if its characteristic is one that callers
\* see and they are connected.
LEMMA UpdateStep ==
    ASSUME Types, CurrentInv, Notification
    PROVE  (\E c \in Required : Service!Update(c)) \/ UNCHANGED Service!vars
<1> USE DEF configVars, writeVars
<1> DEFINE n == Head(notes)
<1>1. n = notes[1] /\ 1 \in 1 .. Len(notes) /\ n \in Notes
  BY DEF Notification, Types, TypeOK
<1>2. n.char \in Chars /\ n.conn = conn
  BY <1>1 DEF Notes, CurrentInv
<1>3. /\ UNCHANGED <<linkState, conn, queue, nextSeq, result, reloads>>
      /\ valid' = [valid EXCEPT ![n.char] = TRUE]
      /\ value' = [value EXCEPT ![n.char] = [conn |-> n.conn, version |-> n.version]]
  BY DEF Notification, StoreValue
<1>4. UNCHANGED <<IsUp, Accepted>>
  BY <1>3 DEF IsUp, Accepted
<1> HIDE DEF n
<1>5. \A c \in Required : c # n.char => View'[c] = View[c]
  BY <1>2, <1>3 DEF View, Reported, Types, TypeOK
<1>6. CASE ~IsUp
  <2>1. View' = Service!Nothing /\ View = Service!Nothing
    BY <1>3, <1>6 DEF IsUp, View, Reported, Service!Nothing
  <2> QED
    BY <1>3, <1>4, <2>1 DEF Service!vars
<1>7. CASE IsUp /\ n.char \in Required
  <2>1. View'[n.char].conn = conn
    BY <1>2, <1>3, <1>7 DEF IsUp, View, Reported, Types, TypeOK
  <2>2. View' = [View EXCEPT ![n.char] = View'[n.char]]
    BY <1>5, <1>7 DEF View
  <2>3. Service!Update(n.char)
    BY <1>3, <1>4, <1>7, <2>1, <2>2 DEF Service!Update
  <2> QED
    BY <1>7, <2>3
<1>8. CASE n.char \notin Required
  <2>1. View' = View
    BY <1>5, <1>8 DEF View
  <2> QED
    BY <1>3, <1>4, <2>1 DEF Service!vars
<1> QED
  BY <1>6, <1>7, <1>8

\* The head of the queue is the oldest write, and the only one of its number.
LEMMA AnswerStep ==
    ASSUME Types, TaskInv, CallerInv, NoReloadInv, OrderInv, DrainOne
    PROVE  \E w \in Accepted, ok \in BOOLEAN : Service!Answer(w, ok)
<1> USE DEF valueVars, configVars, peerVars
<1> DEFINE w == Head(queue)
<1>1. /\ w = queue[1] /\ w \in Entries /\ 1 \in 1 .. Len(queue)
      /\ Len(queue') = Len(queue) - 1 /\ Len(queue) \in Nat
      /\ \A i \in 1 .. Len(queue') : i + 1 \in 1 .. Len(queue) /\ queue'[i] = queue[i + 1]
  BY TakeWrite DEF DrainOne, Types, TypeOK
<1>2. PICK ok \in BOOLEAN :
         /\ ok => drainUp /\ chrFound /\ peer = "up"
         /\ SetResult(w.seq, IF ok THEN "Ok" ELSE "Failed")
  BY DEF DrainOne
<1>3. UNCHANGED <<linkState, valid, value, conn, nextSeq, reloads>>
  BY DEF DrainOne
<1>4. UNCHANGED <<IsUp, View>>
  BY <1>3 DEF IsUp, View, Reported
<1> HIDE DEF w
<1>5. w \in Accepted
  BY <1>1 DEF Accepted
<1>6. \A i \in 1 .. Len(queue) : queue[i].seq \in Nat /\ (i # 1 => w.seq < queue[i].seq)
  <2> SUFFICES ASSUME NEW i \in 1 .. Len(queue)
               PROVE  queue[i].seq \in Nat /\ (i # 1 => w.seq < queue[i].seq)
    OBVIOUS
  <2>1. queue[i] \in Entries
    BY DEF Types, TypeOK
  <2>2. i # 1 => 1 < i
    BY <1>1
  <2> QED
    BY <1>1, <2>1, <2>2 DEF Entries, OrderInv
<1>7. \A x \in Accepted : w.seq <= x.seq
  <2> SUFFICES ASSUME NEW i \in 1 .. Len(queue) PROVE w.seq <= queue[i].seq
    BY DEF Accepted
  <2>1. w.seq \in Nat
    BY <1>1, <1>6
  <2> QED
    BY <1>1, <1>6, <2>1
<1>8. Accepted' = Accepted \ {w}
  <2>1. ASSUME NEW x \in Accepted' PROVE x \in Accepted \ {w}
    <3>1. PICK i \in 1 .. Len(queue') : x = queue'[i]
      BY DEF Accepted
    <3>2. i + 1 \in 1 .. Len(queue) /\ x = queue[i + 1] /\ i + 1 # 1
      BY <1>1, <3>1
    <3>3. w.seq < x.seq /\ w.seq \in Nat
      BY <1>1, <1>6, <3>2
    <3>4. w # x
      BY <3>3, <1>6, <3>2
    <3> QED
      BY <3>2, <3>4 DEF Accepted
  <2>2. ASSUME NEW x \in Accepted, x # w PROVE x \in Accepted'
    <3>1. PICK i \in 1 .. Len(queue) : x = queue[i]
      BY DEF Accepted
    <3>2. i # 1
      BY <1>1, <2>2, <3>1
    <3>3. i - 1 \in 1 .. Len(queue') /\ i - 1 + 1 = i
      BY <1>1, <3>2
    <3>4. x = queue'[i - 1]
      BY <1>1, <3>1, <3>3
    <3> QED
      BY <3>3, <3>4 DEF Accepted
  <2> QED
    BY <2>1, <2>2
<1>9. ok => IsUp /\ (w.conn = conn \/ reloads > 0)
  <2> SUFFICES ASSUME ok PROVE IsUp /\ (w.conn = conn \/ reloads > 0)
    OBVIOUS
  <2>1. sessionUp /\ IsUp
    BY <1>2 DEF TaskInv, CallerInv
  <2>2. CASE reloads = 0
    BY <1>1, <2>1, <2>2 DEF NoReloadInv, QueueInv
  <2>3. CASE reloads # 0
    BY <2>1, <2>3 DEF Types, TypeOK
  <2> QED
    BY <2>1, <2>2, <2>3
<1>10. Service!Answer(w, ok)
  BY <1>2, <1>3, <1>4, <1>7, <1>8, <1>9 DEF Service!Answer, SetResult
<1> QED
  BY <1>2, <1>5, <1>10

\* A new write carries the number of the connection, which is that of its caller.
LEMMA WriteStep ==
    ASSUME Types, CallerInv, WriteSend
    PROVE  \E accept \in BOOLEAN : Service!Write(accept)
<1> USE DEF valueVars, configVars, peerVars
<1> DEFINE e == [seq |-> nextSeq, conn |-> sawConn]
           room == Len(queue) < QueueLength
<1>1. /\ conn # 0 /\ nextSeq \in 1 .. MaxSeq /\ sawConn = conn /\ e \in Entries
      /\ queue \in Seq(Entries)
  BY DEF WriteSend, Types, TypeOK, CallerInv, Entries
<1>2. /\ UNCHANGED <<linkState, valid, value, conn, reloads>>
      /\ nextSeq' = nextSeq + 1
      /\ queue' = IF room THEN Append(queue, e) ELSE queue
      /\ result' = [s \in 1 .. MaxSeq |->
                       IF s = nextSeq THEN (IF room THEN "Pending" ELSE "Failed")
                       ELSE IF s = nextSeq - WriteRing THEN "Unknown" ELSE result[s]]
  BY DEF WriteSend
<1>3. UNCHANGED <<IsUp, View>>
  BY <1>2 DEF IsUp, View, Reported
<1>4. Accepted' = IF room THEN Accepted \cup {[seq |-> nextSeq, conn |-> conn]} ELSE Accepted
  <2>1. CASE ~room
    BY <1>2, <2>1 DEF Accepted
  <2>2. CASE room
    <3>1. /\ Len(queue') = Len(queue) + 1 /\ Len(queue) \in Nat
          /\ queue'[Len(queue')] = e
          /\ \A i \in 1 .. Len(queue') : i # Len(queue') =>
                i \in 1 .. Len(queue) /\ queue'[i] = queue[i]
      BY <1>1, <1>2, <2>2, AddWrite
    <3> HIDE DEF e
    <3>2. ASSUME NEW x \in Accepted' PROVE x \in Accepted \cup {e}
      <4>1. PICK i \in 1 .. Len(queue') : x = queue'[i]
        BY DEF Accepted
      <4> QED
        BY <3>1, <4>1 DEF Accepted
    <3>3. e \in Accepted'
      <4>1. Len(queue') \in 1 .. Len(queue')
        BY <3>1
      <4> QED
        BY <3>1, <4>1 DEF Accepted
    <3>4. ASSUME NEW x \in Accepted PROVE x \in Accepted'
      <4>1. PICK i \in 1 .. Len(queue) : x = queue[i]
        BY DEF Accepted
      <4>2. i \in 1 .. Len(queue') /\ i # Len(queue')
        BY <3>1
      <4>3. x = queue'[i]
        BY <3>1, <4>1, <4>2
      <4> QED
        BY <4>2, <4>3 DEF Accepted
    <3>5. Accepted' = Accepted \cup {e}
      BY <3>2, <3>3, <3>4
    <3> QED
      BY <1>1, <2>2, <3>5 DEF e
  <2> QED
    BY <2>1, <2>2
<1>5. Service!Write(room)
  BY <1>1, <1>2, <1>3, <1>4 DEF Service!Write
<1>6. room \in BOOLEAN
  OBVIOUS
<1> HIDE DEF room
<1> QED
  BY <1>5, <1>6

LEMMA ReloadStep == ASSUME Types, Reload PROVE Service!Reload
<1>1. UNCHANGED <<linkState, valid, value, conn, queue, nextSeq, result>> /\ reloads' = reloads + 1
  BY DEF Reload, valueVars, peerVars, writeVars
<1>2. (reloads' > 0) = TRUE
  BY <1>1 DEF Types, TypeOK
<1> QED
  BY <1>1, <1>2 DEF Service!Reload, IsUp, View, Reported, Accepted

PromiseInv == Types /\ TaskInv /\ CurrentInv /\ CallerInv /\ NoReloadInv /\ OrderInv

LEMMA ServiceStep ==
    ASSUME PromiseInv, RequiredIsCurrent', [Next]_vars
    PROVE  [Service!Next]_Service!vars
<1> USE DEF PromiseInv
<1>0. RequiredIsCurrent
  BY DEF CurrentInv
<1>1. CASE \/ StartPass \/ DrainDone \/ DropClient \/ Rest \/ Subscribe \/ Read \/ WriteCheck
           \/ Disconnected \/ (\E c \in Chars : DeviceChanges(c)) \/ HoldoffOver \/ UNCHANGED vars
  BY <1>1, UnseenActions
<1>2. CASE ConnectFails \/ SetupFails \/ StoreRead
  BY <1>0, <1>2, OfflineActions
<1>3. CASE ApplyConfig \/ LinkLost
  BY <1>3, LoseStep DEF Service!Next
<1>4. CASE Connect
  BY <1>0, <1>4, DialStep DEF Service!Next
<1>5. CASE SetupDone
  BY <1>0, <1>5, ConnectStep DEF Service!Next
<1>6. CASE Notification
  BY <1>6, UpdateStep DEF Service!Next
<1>7. CASE DrainOne
  BY <1>7, AnswerStep DEF Service!Next
<1>8. CASE WriteSend
  BY <1>8, WriteStep DEF Service!Next
<1>9. CASE Reload
  BY <1>9, ReloadStep DEF Service!Next
<1> QED
  BY <1>1, <1>2, <1>3, <1>4, <1>5, <1>6, <1>7, <1>8, <1>9
  DEF Next, BleTask, HostTask, MainLoop

\* The connection manager keeps its promise to callers: complete values of the
\* current connection; writes in order, at most once, while connected, and in
\* the connection of their callers unless the configuration was reloaded.
THEOREM ServiceIsKept == Spec => KeepsService
<1>1. Init => Service!Init
  <2> SUFFICES ASSUME Init PROVE Service!Init
    OBVIOUS
  <2>1. ~IsUp /\ conn = 0 /\ nextSeq = 1 /\ result = [s \in 1 .. MaxSeq |-> "Unknown"]
    BY DEF Init, IsUp
  <2>2. Accepted = {}
    BY DEF Init, Accepted
  <2>3. (reloads > 0) = FALSE
    BY DEF Init
  <2> QED
    BY <2>1, <2>2, <2>3, NothingSeen DEF Service!Init
<1>2. Init => CallerInv
  BY DEF Init, CallerInv
<1>3. CurrentInv => RequiredIsCurrent
  BY DEF CurrentInv
<1>4. Spec => []PromiseInv
  BY <1>2, <1>3, TypesHold, CurrentHolds, CallerStep, NoReloadInit, NoReloadStep, OrderInit,
     OrderStep, PTL DEF Spec, PromiseInv
<1>5. PromiseInv /\ RequiredIsCurrent' /\ [Next]_vars => [Service!Next]_Service!vars
  BY ServiceStep
<1>6. PromiseInv => RequiredIsCurrent
  BY <1>3 DEF PromiseInv
<1> QED
  BY <1>1, <1>4, <1>5, <1>6, PTL DEF Spec, KeepsService, Service!Spec
=============================================================================
