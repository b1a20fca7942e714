------------------------- MODULE SwitchboardOutputs -------------------------
(***************************************************************************)
(* The switched outputs of the switchboard: schakelbord/source/src/        *)
(* relays.cpp, digital_outputs.cpp and mcp23017.cpp, with the callbacks of *)
(* ble_manager.cpp and main.cpp that drive them.                           *)
(*                                                                         *)
(* Four threads: the Bluetooth host task, which runs connection and write  *)
(* callbacks one at a time; the FreeRTOS timer task, which runs the blink  *)
(* timers and the commands sent to them; mcp_task, the only one that talks *)
(* to the port expander; and setup().  The expander is a chip of its own:  *)
(* transactions fail, it can lose its registers, and it keeps them when    *)
(* the microcontroller faults.                                             *)
(*                                                                         *)
(* A level is logical: TRUE means that the load is switched on.  There is  *)
(* no clock: the wait of mcp_task may time out whenever no notification    *)
(* has come, and a running blink timer may expire at any time.             *)
(*                                                                         *)
(* No name is one of BoardValues, so that a module can extend both: the    *)
(* two are parts of one board and share its configuration.                 *)
(***************************************************************************)
EXTENDS Sequences, SwitchboardConfig

Relays   == 1 .. NumRelays
Outputs  == NumRelays + 1 .. NumRelays + NumOutputs
Channels == Relays \cup Outputs

VARIABLES
    state,            \* Relay.state, and outputMask as "off" or "on"
    shadow,           \* levels wanted from the chip; for a relay also its Relay.level
    timerOn,          \* relays whose blink timer runs
    timerQueue,       \* commands sent to the timer task
    outputsPc, next,  \* host task: place, next channel of an all-off loop
    connected,        \* connectedCount
    relayChar,        \* value of the relays characteristic
    outputChar,       \* value of the digital outputs characteristic
    mcpNotified,      \* mcp_task has a notification
    mcpPc, periodic, copy, configured,  \* mcp_task: place and locals
    latch, driven,    \* the chip: output latches, and are the pins outputs?
    struck,           \* history: registers lost since this pass wrote the latches
    glitched,         \* history: registers lost since the last complete configuration
    faults

softVars  == <<state, shadow>>
timerVars == <<timerOn, timerQueue>>
hostVars  == <<outputsPc, next, connected>>
charVars  == <<relayChar, outputChar>>
mcpVars   == <<mcpPc, periodic, copy, configured>>
chipVars  == <<latch, driven, struck, glitched>>
outputsVars == <<softVars, timerVars, charVars, hostVars, mcpNotified, mcpVars, chipVars, faults>>

States  == {"off", "on", "blink"}
AllOff  == [c \in Channels |-> "off"]
AllLow  == [c \in Channels |-> FALSE]
Raw(channels) == [c \in channels |-> "raw"]
RelayStates == [r \in Relays |-> state[r]]
OutputStates == [o \in Outputs |-> state[o]]

\* Output latches after a reset of the chip are 0, which is on for the active
\* low outputs of port A.
ResetLatch == [c \in Channels |-> c \in Outputs]

\* The software after mcp_init(), relays_init() and outputs_init().
BootState ==
    [state |-> AllOff, shadow |-> AllLow, relayChar |-> [r \in Relays |-> "off"],
     outputChar |-> [o \in Outputs |-> "off"]]

OutputsInit ==
    /\ state = BootState.state /\ shadow = BootState.shadow
    /\ timerOn = {} /\ timerQueue = <<>>
    /\ outputsPc = "idle" /\ next = 1 /\ connected = 0
    /\ relayChar = BootState.relayChar /\ outputChar = BootState.outputChar
    /\ mcpNotified = TRUE
    /\ mcpPc = "wait" /\ periodic = FALSE /\ copy = AllLow /\ configured = FALSE
    /\ latch = ResetLatch /\ driven = FALSE /\ struck = FALSE /\ glitched = FALSE
    /\ faults = 0

----------------------------------------------------------------------------
(* relays.cpp and digital_outputs.cpp.  The lock of the relays is held     *)
(* while relays_all_off() runs through them; everything else done under a  *)
(* lock is one step.                                                       *)

RelayLockFree == outputsPc # "relaysOff"

\* mcp_set_pin()
SetPin(c, level) == shadow' = [shadow EXCEPT ![c] = level] /\ mcpNotified' = TRUE

\* xTimerStop() and xTimerChangePeriod() with no time to wait.
SendTimer(cmd, r) ==
    timerQueue' = IF Len(timerQueue) < TimerQueueLength
                  THEN Append(timerQueue, [cmd |-> cmd, relay |-> r]) ELSE timerQueue

\* set_locked()
SetRelay(r, s) ==
    /\ state' = [state EXCEPT ![r] = s]
    /\ SetPin(r, s # "off")
    /\ SendTimer(IF s = "blink" THEN "start" ELSE "stop", r)

SetOutput(o, s) ==
    /\ state' = [state EXCEPT ![o] = s]
    /\ SetPin(o, s = "on")

\* Fault: the timer callback trusts that it only runs while blinking.
BlinkAlways(r) ==
    /\ r \in timerOn /\ RelayLockFree
    /\ SetPin(r, ~shadow[r])
    /\ UNCHANGED <<state, timerVars, hostVars, charVars, mcpVars, chipVars, faults>>

\* blink_cb(): toggles the relay if it is still blinking; while the lock is
\* held, or in another state, it does nothing.
Blink(r) ==
    /\ r \in timerOn /\ RelayLockFree /\ state[r] = "blink"
    /\ SetPin(r, ~shadow[r])
    /\ UNCHANGED <<state, timerVars, hostVars, charVars, mcpVars, chipVars, faults>>

\* The timer task starts or stops a timer, in the order of the commands.
TimerCommand ==
    /\ timerQueue # <<>>
    /\ LET c == Head(timerQueue)
       IN  timerOn' = IF c.cmd = "start" THEN timerOn \cup {c.relay} ELSE timerOn \ {c.relay}
    /\ timerQueue' = Tail(timerQueue)
    /\ UNCHANGED <<softVars, hostVars, charVars, mcpNotified, mcpVars, chipVars, faults>>

----------------------------------------------------------------------------
(* The host task.  A write lands in the characteristic before its callback *)
(* runs; Raw stands for such bytes.                                        *)

ClientConnects ==
    /\ outputsPc = "idle" /\ connected < MaxClients
    /\ connected' = connected + 1
    /\ UNCHANGED <<softVars, timerVars, outputsPc, next, charVars, mcpNotified, mcpVars, chipVars, faults>>

\* Fault: the failsafe is forgotten.
DisconnectOnly ==
    /\ outputsPc = "idle" /\ connected > 0
    /\ connected' = connected - 1
    /\ UNCHANGED <<outputsPc, next>>
    /\ UNCHANGED <<softVars, timerVars, charVars, mcpNotified, mcpVars, chipVars, faults>>

\* The last one out switches everything off.
ClientDisconnects ==
    /\ outputsPc = "idle" /\ connected > 0
    /\ connected' = connected - 1
    /\ IF connected = 1 THEN outputsPc' = "relaysOff" /\ next' = 1
                      ELSE UNCHANGED <<outputsPc, next>>
    /\ UNCHANGED <<softVars, timerVars, charVars, mcpNotified, mcpVars, chipVars, faults>>

\* relays_all_off(), relay by relay under the lock ...
RelayOff ==
    /\ outputsPc = "relaysOff" /\ next <= NumRelays
    /\ SetRelay(next, "off")
    /\ next' = next + 1
    /\ UNCHANGED <<timerOn, outputsPc, connected, charVars, mcpVars, chipVars, faults>>

\* ... then it publishes the states without the lock ...
RelaysOffDone ==
    /\ outputsPc = "relaysOff" /\ next > NumRelays
    /\ outputsPc' = "relaysOffPublish"
    /\ UNCHANGED <<softVars, timerVars, next, connected, charVars, mcpNotified, mcpVars, chipVars, faults>>

\* changedCb: only the host task changes states, so the snapshot is current.
PublishRelays ==
    /\ outputsPc \in {"publish", "relaysOffPublish"}
    /\ outputsPc' = IF outputsPc = "publish" THEN "idle" ELSE "outputsOff"
    /\ relayChar' = RelayStates
    /\ UNCHANGED <<softVars, timerVars, next, connected, outputChar, mcpNotified, mcpVars, chipVars, faults>>

\* ... and outputs_all_off() does the same for the outputs.
OutputOff ==
    /\ outputsPc = "outputsOff"
    /\ \/ /\ next <= NumRelays + NumOutputs
          /\ SetOutput(next, "off")
          /\ next' = next + 1 /\ UNCHANGED outputsPc
       \/ /\ next > NumRelays + NumOutputs
          /\ outputsPc' = "publishOutputs" /\ next' = 1
          /\ UNCHANGED <<state, shadow, mcpNotified>>
    /\ UNCHANGED <<timerVars, connected, charVars, mcpVars, chipVars, faults>>

PublishOutputs ==
    /\ outputsPc = "publishOutputs" /\ outputsPc' = "idle"
    /\ outputChar' = OutputStates
    /\ UNCHANGED <<softVars, timerVars, next, connected, relayChar, mcpNotified, mcpVars, chipVars, faults>>

\* A write of [relay, state] or [relay, state, interval].
WriteRelay(r, s) ==
    /\ outputsPc = "idle" /\ connected > 0
    /\ relayChar' = Raw(Relays)
    /\ SetRelay(r, s)
    /\ outputsPc' = "publish"
    /\ UNCHANGED <<timerOn, next, connected, outputChar, mcpVars, chipVars, faults>>

\* A write of another length, or one that relays_set() refuses.
RelayWriteIgnored ==
    /\ outputsPc = "idle" /\ connected > 0
    /\ relayChar' = Raw(Relays)
    /\ UNCHANGED <<softVars, timerVars, hostVars, outputChar, mcpNotified, mcpVars, chipVars, faults>>

\* A write of [output, 0 or 1].
WriteOutput(o, s) ==
    /\ outputsPc = "idle" /\ connected > 0
    /\ outputChar' = Raw(Outputs)
    /\ SetOutput(o, s)
    /\ outputsPc' = "publishOutputs"
    /\ UNCHANGED <<timerVars, next, connected, relayChar, mcpVars, chipVars, faults>>

\* Another value or length, or an output that does not exist.
OutputWriteIgnored ==
    /\ outputsPc = "idle" /\ connected > 0
    /\ outputChar' = Raw(Outputs)
    /\ UNCHANGED <<softVars, timerVars, hostVars, relayChar, mcpNotified, mcpVars, chipVars, faults>>

----------------------------------------------------------------------------
(* mcp_task *)

\* Fault: the chip is configured after write errors only.
WakeNever ==
    /\ mcpPc = "wait"
    /\ periodic' = FALSE /\ mcpNotified' = FALSE /\ mcpPc' = "copy"
    /\ UNCHANGED <<softVars, timerVars, hostVars, charVars, copy, configured, chipVars, faults>>

McpWake ==
    /\ mcpPc = "wait"
    /\ periodic' = ~mcpNotified   \* a notification, or a timeout
    /\ mcpNotified' = FALSE
    /\ mcpPc' = "copy"
    /\ UNCHANGED <<softVars, timerVars, hostVars, charVars, copy, configured, chipVars, faults>>

\* copy_shadow()
CopyShadow ==
    /\ mcpPc = "copy"
    /\ copy' = shadow
    /\ mcpPc' = "latch"
    /\ UNCHANGED <<softVars, timerVars, hostVars, charVars, mcpNotified, periodic, configured,
                   chipVars, faults>>

\* The pass ends: its copy of the levels goes out of scope.
EndPass(ok) ==
    /\ mcpPc' = "wait" /\ configured' = ok
    /\ periodic' = FALSE /\ copy' = AllLow

Full      == ~configured \/ periodic
Direction == mcpPc' = "direction" /\ UNCHANGED <<periodic, copy, configured>>

\* Fault: a failed write does not ask for a new configuration.
LatchFailsQuietly ==
    /\ mcpPc = "latch"
    /\ latch' \in {latch, copy}
    /\ EndPass(configured)
    /\ UNCHANGED <<softVars, timerVars, hostVars, charVars, mcpNotified, driven, struck, glitched,
                   faults>>

\* The output latches first, in one transaction that may fail on the way out
\* or on the way back ...
LatchFails ==
    /\ mcpPc = "latch"
    /\ latch' \in {latch, copy}
    /\ EndPass(FALSE)
    /\ UNCHANGED <<softVars, timerVars, hostVars, charVars, mcpNotified, driven, struck, glitched,
                   faults>>

\* Fault: the pins are made outputs before the levels are latched.
LatchWrittenLast ==
    /\ mcpPc = "latch"
    /\ IF Full THEN Direction /\ UNCHANGED latch ELSE EndPass(configured) /\ latch' = copy
    /\ UNCHANGED <<softVars, timerVars, hostVars, charVars, mcpNotified, driven, struck, glitched,
                   faults>>

LatchWritten ==
    /\ mcpPc = "latch"
    /\ latch' = copy
    /\ IF Full THEN Direction ELSE EndPass(configured)
    /\ UNCHANGED <<softVars, timerVars, hostVars, charVars, mcpNotified, driven, struck, glitched,
                   faults>>

\* ... then, in a periodic pass or an unconfigured chip, the pins become outputs.
DirectionFails ==
    /\ mcpPc = "direction"
    /\ driven' \in {driven, TRUE}
    /\ EndPass(FALSE)
    /\ struck' = FALSE
    /\ UNCHANGED <<softVars, timerVars, hostVars, charVars, mcpNotified, latch, glitched,
                   faults>>

DirectionWritten ==
    /\ mcpPc = "direction"
    /\ driven' = TRUE /\ EndPass(TRUE)
    /\ struck' = FALSE
    /\ glitched' = (glitched /\ latch # copy)
    /\ UNCHANGED <<softVars, timerVars, hostVars, charVars, mcpNotified, latch, faults>>

----------------------------------------------------------------------------
(* The chip and restarts *)

\* The chip is reset by a glitch of its supply; the software does not notice.
Glitch ==
    /\ faults < MaxFaults /\ faults' = faults + 1
    /\ glitched' = TRUE /\ struck' = (mcpPc = "direction")
    /\ latch' = ResetLatch /\ driven' = FALSE
    /\ UNCHANGED <<softVars, timerVars, hostVars, charVars, mcpNotified, mcpVars>>

\* The microcontroller restarts; the chip keeps its registers.
Restart ==
    /\ faults < MaxFaults /\ faults' = faults + 1
    /\ state' = BootState.state /\ shadow' = BootState.shadow
    /\ timerOn' = {} /\ timerQueue' = <<>>
    /\ outputsPc' = "idle" /\ next' = 1 /\ connected' = 0
    /\ relayChar' = BootState.relayChar /\ outputChar' = BootState.outputChar
    /\ mcpNotified' = TRUE
    /\ mcpPc' = "wait" /\ periodic' = FALSE /\ copy' = AllLow /\ configured' = FALSE
    /\ struck' = FALSE
    /\ UNCHANGED <<latch, driven, glitched>>

----------------------------------------------------------------------------
HostWork == RelayOff \/ RelaysOffDone \/ PublishRelays \/ OutputOff \/ PublishOutputs

OutputsHostTask ==
    \/ HostWork
    \/ ClientConnects
    \/ ClientDisconnects
    \/ \E r \in Relays, s \in States : WriteRelay(r, s)
    \/ RelayWriteIgnored
    \/ \E o \in Outputs, s \in {"off", "on"} : WriteOutput(o, s)
    \/ OutputWriteIgnored

TimerTask == TimerCommand \/ \E r \in Relays : Blink(r)

McpTask ==
    \/ McpWake
    \/ CopyShadow
    \/ LatchFails
    \/ LatchWritten
    \/ DirectionFails
    \/ DirectionWritten

OutputsNext == OutputsHostTask \/ TimerTask \/ McpTask \/ Glitch \/ Restart

OutputsSpec == OutputsInit /\ [][OutputsNext]_outputsVars

\* The host task and mcp_task run, and the bus does not fail for ever; nothing is
\* asked of the timer task.
FairSpec ==
    /\ OutputsSpec
    /\ WF_outputsVars(HostWork) /\ WF_outputsVars(McpTask)
    /\ SF_outputsVars(LatchWritten) /\ SF_outputsVars(DirectionWritten)

----------------------------------------------------------------------------
(* Properties *)

\* Types of the variables, and the limit of the timer queue.
OutputsTypeOK ==
    /\ state \in [Channels -> States] /\ shadow \in [Channels -> BOOLEAN]
    /\ timerOn \subseteq Relays
    /\ timerQueue \in Seq([cmd : {"start", "stop"}, relay : Relays])
    /\ Len(timerQueue) <= TimerQueueLength
    /\ outputsPc \in {"idle", "publish", "relaysOff", "relaysOffPublish", "outputsOff",
                     "publishOutputs"}
    /\ next \in 1 .. NumRelays + NumOutputs + 1 /\ connected \in 0 .. MaxClients
    /\ relayChar \in [Relays -> States] \cup {Raw(Relays)}
    /\ outputChar \in [Outputs -> States] \cup {Raw(Outputs)}
    /\ mcpNotified \in BOOLEAN /\ periodic \in BOOLEAN /\ configured \in BOOLEAN
    /\ mcpPc \in {"wait", "copy", "latch", "direction"} /\ copy \in [Channels -> BOOLEAN]
    /\ latch \in [Channels -> BOOLEAN] /\ driven \in BOOLEAN
    /\ struck \in BOOLEAN /\ glitched \in BOOLEAN /\ faults \in 0 .. MaxFaults

\* A relay that was switched on or off stays so, although its blink timer may
\* still run: expirations and timer commands lag behind the writes.
SteadyIsSteady ==
    \A c \in Channels : /\ state[c] = "off" => ~shadow[c]
                        /\ state[c] = "on"  => shadow[c]

\* "only updates a shadow register and wakes the task": when the task sleeps,
\* has no notification left and believes the chip is configured, the chip
\* drives what is wanted, unless it lost its registers since.
ChipFollows ==
    mcpPc = "wait" /\ ~mcpNotified /\ configured /\ ~glitched => driven /\ latch = shadow

\* "Latch the desired levels first, then make the pins outputs (no glitch on
\* the loads)": no load is on at the moment its pin becomes an output unless
\* this pass wants it on: at power-up, after failed transactions, a restart
\* half-way or a loss of the registers.  One thing spoils it: the chip loses
\* its registers between the two transactions of a pass.
NoGlitchOnLoads ==
    [][~driven /\ driven' /\ ~struck => \A c \in Channels : latch[c] => copy[c]]_outputsVars

\* "Failsafe: nobody is in control anymore, so switch everything off": without
\* clients every load goes off, through write errors, restarts and glitches.
Energised(c) == driven /\ latch[c]
LoadsGoOff == connected = 0 ~> (connected > 0 \/ \A c \in Channels : ~Energised(c))

\* "Periodically re-write config + outputs (recovers from glitches)": a chip that lost its
\* registers drives its pins again, once neither clients nor blinking relays wake the task before
\* its timeout; and a relay that blinks for ever does.
QuietHeals == <>[]~mcpNotified => (~driven ~> driven)
=============================================================================
