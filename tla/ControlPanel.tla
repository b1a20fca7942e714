---------------------------- MODULE ControlPanel ----------------------------
(***************************************************************************)
(* The inputs and LEDs of the control unit that hang on its port expander: *)
(* mcp23017.cpp, switches.cpp, buttons.cpp, leds.cpp and the main loop of  *)
(* app.cpp (bediening/source).                                             *)
(*                                                                         *)
(* The main loop configures the chip, scans the switches and handles their *)
(* events.  The LED task renders the LEDs; it runs on the same core with a *)
(* higher priority, so that what it does between two accesses of the chip  *)
(* is one step.  Accesses of the chip exclude each other by a mutex, which *)
(* configure() holds from its first transaction to its last.               *)
(*                                                                         *)
(* The chip may stop answering at any time, and lose its registers or keep *)
(* them; switches move at any time; the processor may restart alone.  The  *)
(* chip may have taken what a transaction wrote although it failed.  Time  *)
(* is counted in scans of the switches, and time stamps by their ages.     *)
(***************************************************************************)
EXTENDS Integers

CONSTANTS Switches, SW1_BACK,
          SWITCH_DEBOUNCE, MCP_RETRY_INTERVAL,   \* in scan intervals
          MaxPass,      \* bound: scan intervals that one pass of the main loop takes
          MaxFaults     \* bound: outages and restarts

ASSUME PanelAssumption ==
    /\ SW1_BACK \in Switches
    /\ SWITCH_DEBOUNCE \in Nat \ {0} /\ MCP_RETRY_INTERVAL \in Nat \ {0}
    /\ MaxPass \in Nat \ {0} /\ MaxFaults \in Nat

VARIABLES
    closed, answering, chip,      \* switches, bus and registers
    ready, generation, retryAge,  \* the driver; age of lastAttempt_
    pc,                           \* the main loop
    debouncers, haveFirstRead, valid, events,
    backPressed, backSeeded, backEvents,
    states,                       \* what the LEDs of the expander should show
    ledPc, sending, seenGeneration, mcpWritten, lastLatch,
    faults,
    slip,      \* history: where registers were lost, unnoticed by the driver
    rearmed    \* history: open or floating since the last reported press

driverVars == <<ready, generation, retryAge>>
switchVars == <<debouncers, haveFirstRead, valid, events>>
buttonVars == <<backPressed, backSeeded, backEvents>>
ledVars    == <<ledPc, sending, seenGeneration, mcpWritten, lastLatch>>
worldVars  == <<closed, answering, states, faults, rearmed>>
vars == <<worldVars, chip, slip, driverVars, pc, switchVars, buttonVars, ledVars>>

\* OLATA: as after a power-up, which lights the active-low LEDs, or as written.
Lights == {"dark", "lit"}
Chips  == [latch : Lights \cup {"reset"}, output : BOOLEAN, pullups : BOOLEAN]

PoweredUp  == [latch |-> "reset", output |-> FALSE, pullups |-> FALSE]
Configured == [latch |-> "dark", output |-> TRUE, pullups |-> TRUE]

\* Places of the main loop in configure()
Configuring == {"probe", "latch", "direction", "inputs", "verify", "publish"}

\* Power-up of chip and processor; begin() comes first.
Init ==
    /\ closed \in [Switches -> BOOLEAN] /\ answering \in BOOLEAN /\ chip = PoweredUp
    /\ ready = FALSE /\ generation = 0 /\ retryAge = 0 /\ pc = "probe"
    /\ debouncers = [s \in Switches |-> [stable |-> FALSE, candidate |-> FALSE, age |-> 0]]
    /\ haveFirstRead = FALSE /\ valid = FALSE /\ events = {}
    /\ backPressed = FALSE /\ backSeeded = FALSE /\ backEvents = {}
    /\ states = "dark"
    /\ ledPc = "off" /\ sending = "dark" /\ seenGeneration = 0
    /\ mcpWritten = FALSE /\ lastLatch = "dark"
    /\ faults = 0 /\ slip = "no"
    /\ rearmed = [s \in Switches |-> ~closed[s]]

----------------------------------------------------------------------------
(* Mcp23017: service() and configure()                                     *)

\* The LED task is started after the first configuration, failed or not.
Resume == IF ledPc = "off" THEN "leds" ELSE "scan"

Service ==
    /\ pc = "service"
    /\ IF ~ready /\ retryAge = MCP_RETRY_INTERVAL
       THEN pc' = "probe" /\ retryAge' = 0
       ELSE pc' = "scan" /\ UNCHANGED retryAge
    /\ UNCHANGED <<worldVars, chip, slip, ready, generation, switchVars, buttonVars, ledVars>>

\* The registers once the transaction of configure() has taken effect.
Written ==
    CASE pc = "latch"     -> [chip EXCEPT !.latch = "dark"]
      [] pc = "direction" -> [chip EXCEPT !.output = TRUE]
      [] pc = "inputs"    -> [chip EXCEPT !.pullups = TRUE]
      [] OTHER            -> chip

\* A transaction that succeeds, and one that fails.
Transact(at, registers, next) ==
    /\ pc = at /\ answering
    /\ chip' = registers /\ pc' = next
    /\ UNCHANGED <<worldVars, driverVars, switchVars, buttonVars, ledVars>>

ConfigureFails ==
    /\ pc \in Configuring \ {"publish"} /\ ~answering
    /\ pc' = Resume
    /\ chip' \in {chip, Written}
    /\ slip' = IF chip'.latch = chip.latch THEN slip ELSE "no"
    /\ UNCHANGED <<worldVars, driverVars, switchVars, buttonVars, ledVars>>

\* Fault: the pins become outputs before the latches are preset.
ProbeDirection == Transact("probe", [chip EXCEPT !.output = TRUE], "latch") /\ UNCHANGED slip

Probe        == Transact("probe", Written, "latch") /\ UNCHANGED slip
PresetLatch  == Transact("latch", Written, "direction") /\ slip' = "no"
SetDirection == Transact("direction", Written, "inputs") /\ UNCHANGED slip
SetPullups   == Transact("inputs", Written, "verify") /\ UNCHANGED slip

\* Read back.  The latch is read last, so that a loss between the reads shows.
Verify ==
    /\ pc = "verify" /\ answering
    /\ IF chip = Configured THEN ready' = TRUE /\ pc' = "publish"
                            ELSE ready' = FALSE /\ pc' = Resume
    /\ UNCHANGED <<worldVars, chip, slip, generation, retryAge, switchVars, buttonVars, ledVars>>

\* Fault: the users of the driver are not told.
PublishNot ==
    /\ pc = "publish" /\ pc' = Resume
    /\ UNCHANGED <<worldVars, chip, slip, driverVars, switchVars, buttonVars, ledVars>>

Publish ==
    /\ pc = "publish"
    /\ generation' = generation + 1 /\ pc' = Resume
    /\ UNCHANGED <<worldVars, chip, slip, ready, retryAge, switchVars, buttonVars, ledVars>>

----------------------------------------------------------------------------
(* switches.cpp and debounce.h                                             *)

\* Debouncer::update()
Update(d, raw) ==
    LET age    == IF raw = d.candidate THEN d.age ELSE 0
        accept == raw # d.stable /\ age = SWITCH_DEBOUNCE
    IN  [stable |-> IF accept THEN raw ELSE d.stable, candidate |-> raw, age |-> age]

Reset(raw) == [stable |-> raw, candidate |-> raw, age |-> 0]

\* What readPortB() may return: without pull-up an open switch reads as anything.
Readings ==
    {raw \in [Switches -> BOOLEAN] :
        \A s \in Switches : IF chip.pullups THEN raw[s] = closed[s] ELSE closed[s] => raw[s]}

\* switches_init() scans once, and then every pass of the main loop.
Scans    == pc \in {"first", "scan"}
ScanDone == pc' = IF pc = "first" THEN "service" ELSE "buttons"

\* A transaction that fails meets the loss of the registers.
Meet == slip' = IF slip = "ready" /\ ~answering THEN "no" ELSE slip

\* Fault: a failed read is not taken for a failure of the chip.
ScanFailsQuietly ==
    /\ Scans /\ (~ready \/ ~answering)
    /\ valid' = FALSE /\ Meet /\ ScanDone
    /\ UNCHANGED <<worldVars, chip, driverVars, debouncers, haveFirstRead, events,
                   buttonVars, ledVars>>

ScanFails ==
    /\ Scans /\ (~ready \/ ~answering)
    /\ ready' = FALSE /\ valid' = FALSE /\ Meet /\ ScanDone
    /\ UNCHANGED <<worldVars, chip, generation, retryAge, debouncers, haveFirstRead, events,
                   buttonVars, ledVars>>

\* Fault: the debouncers start from "open" whatever the pins say.
FirstScanOpen ==
    /\ Scans /\ ready /\ answering /\ ~haveFirstRead
    /\ debouncers' = [s \in Switches |-> Reset(FALSE)]
    /\ haveFirstRead' = TRUE /\ valid' = TRUE /\ ScanDone
    /\ UNCHANGED <<worldVars, chip, slip, driverVars, events, buttonVars, ledVars>>

\* The first reading seeds the debouncers.
FirstScan ==
    /\ Scans /\ ready /\ answering /\ ~haveFirstRead
    /\ \E raw \in Readings : debouncers' = [s \in Switches |-> Reset(raw[s])]
    /\ haveFirstRead' = TRUE /\ valid' = TRUE /\ ScanDone
    /\ UNCHANGED <<worldVars, chip, slip, driverVars, events, buttonVars, ledVars>>

Scan ==
    /\ Scans /\ ready /\ answering /\ haveFirstRead
    /\ \E raw \in Readings : debouncers' = [s \in Switches |-> Update(debouncers[s], raw[s])]
    /\ events' = events \cup
          {[id |-> s, active |-> debouncers'[s].stable] :
              s \in {t \in Switches : debouncers'[t].stable # debouncers[t].stable}}
    /\ rearmed' = [s \in Switches |->
                      ~chip.pullups \/ (rearmed[s] /\ [id |-> s, active |-> TRUE] \notin events')]
    /\ valid' = TRUE /\ ScanDone
    /\ UNCHANGED <<closed, answering, states, faults, chip, slip, driverVars, haveFirstRead,
                   buttonVars, ledVars>>

----------------------------------------------------------------------------
(* buttons_update(), the event loops of app_update(), and its end          *)

Buttons ==
    /\ pc = "buttons" /\ pc' = "handle"
    /\ IF valid
       THEN /\ backSeeded' = TRUE /\ backPressed' = debouncers[SW1_BACK].stable
            /\ backEvents' = IF backSeeded /\ backPressed' # backPressed THEN {backPressed'} ELSE {}
       ELSE UNCHANGED buttonVars
    /\ UNCHANGED <<worldVars, chip, slip, driverVars, switchVars, ledVars>>

\* Every event of the pass is handled; at most one per switch, so that neither
\* queue fills up.
HandleEvents ==
    /\ pc = "handle" /\ pc' = "rest"
    /\ events' = {} /\ backEvents' = {}
    /\ UNCHANGED <<worldVars, chip, slip, driverVars, debouncers, haveFirstRead, valid,
                   backPressed, backSeeded, ledVars>>

Older(age, d, limit) == IF age + d > limit THEN limit ELSE age + d

\* The rest of a pass takes d scan intervals.
EndPass(d) ==
    /\ pc = "rest" /\ pc' = "service"
    /\ retryAge' = Older(retryAge, d, MCP_RETRY_INTERVAL)
    /\ debouncers' = [s \in Switches |->
          [debouncers[s] EXCEPT !.age = Older(@, d, SWITCH_DEBOUNCE)]]
    /\ UNCHANGED <<worldVars, chip, slip, ready, generation, haveFirstRead, valid, events,
                   buttonVars, ledVars>>

----------------------------------------------------------------------------
(* leds.cpp.  Brightness is left out: some LED of the expander is lit, or  *)
(* none is.                                                                *)

\* leds_init()
StartLeds ==
    /\ pc = "leds" /\ pc' = "first"
    /\ ledPc' = "render" /\ seenGeneration' = generation
    /\ UNCHANGED <<worldVars, chip, slip, driverVars, switchVars, buttonVars, sending, mcpWritten,
                   lastLatch>>

\* leds_set_state() by the main loop, or the next phase of an animation.
SetState(light) ==
    /\ ledPc # "off" /\ states' = light
    /\ UNCHANGED <<closed, answering, faults, rearmed, chip, slip, driverVars, pc, switchVars,
                   buttonVars, ledVars>>

\* write_outputs() up to the access of the chip
Render ==
    LET written == mcpWritten /\ ready /\ generation = seenGeneration
    IN  /\ ledPc = "render"
        /\ seenGeneration' = generation /\ mcpWritten' = written
        /\ IF ready /\ (~written \/ states # lastLatch)
           THEN ledPc' = "write" /\ sending' = states
           ELSE UNCHANGED <<ledPc, sending>>
        /\ UNCHANGED <<worldVars, chip, slip, driverVars, pc, switchVars, buttonVars, lastLatch>>

\* writePortA(), once the mutex is free
WriteFails ==
    /\ ledPc = "write" /\ ledPc' = "render"
    /\ pc \notin Configuring /\ ~(ready /\ answering)
    /\ \/ UNCHANGED chip
       \/ ready /\ chip' = [chip EXCEPT !.latch = sending]
    /\ ready' = FALSE /\ mcpWritten' = FALSE /\ Meet
    /\ UNCHANGED <<worldVars, generation, retryAge, pc, switchVars, buttonVars,
                   sending, seenGeneration, lastLatch>>

Write ==
    /\ ledPc = "write" /\ ledPc' = "render"
    /\ pc \notin Configuring /\ ready /\ answering
    /\ chip' = [chip EXCEPT !.latch = sending]
    /\ lastLatch' = sending /\ mcpWritten' = TRUE
    /\ UNCHANGED <<worldVars, slip, driverVars, pc, switchVars, buttonVars, sending,
                   seenGeneration>>

----------------------------------------------------------------------------
(* Switches, chip and restarts                                             *)

Move(s) ==
    /\ closed' = [closed EXCEPT ![s] = ~@]
    /\ rearmed' = [rearmed EXCEPT ![s] = @ \/ closed[s]]
    /\ UNCHANGED <<answering, states, faults, chip, slip, driverVars, pc, switchVars, buttonVars,
                   ledVars>>

\* The chip stops answering, and may have lost its registers.
Outage ==
    /\ answering /\ answering' = FALSE
    /\ faults < MaxFaults /\ faults' = faults + 1
    /\ \/ UNCHANGED <<chip, slip>>
       \/ /\ chip' = PoweredUp
          /\ slip' = IF ready THEN "ready" ELSE IF pc \in Configuring THEN "configuring" ELSE slip
    /\ UNCHANGED <<closed, states, rearmed, driverVars, pc, switchVars, buttonVars, ledVars>>

Return ==
    /\ ~answering /\ answering' = TRUE
    /\ UNCHANGED <<closed, states, faults, rearmed, chip, slip, driverVars, pc, switchVars,
                   buttonVars, ledVars>>

\* The processor restarts; "the chip keeps its config across ESP resets".
Restart ==
    /\ faults < MaxFaults /\ faults' = faults + 1
    /\ ready' = FALSE /\ generation' = 0 /\ retryAge' = 0 /\ pc' = "probe"
    /\ debouncers' = [s \in Switches |-> Reset(FALSE)]
    /\ haveFirstRead' = FALSE /\ valid' = FALSE /\ events' = {}
    /\ backPressed' = FALSE /\ backSeeded' = FALSE /\ backEvents' = {}
    /\ states' = "dark"
    /\ ledPc' = "off" /\ sending' = "dark" /\ seenGeneration' = 0
    /\ mcpWritten' = FALSE /\ lastLatch' = "dark"
    /\ rearmed' = [s \in Switches |-> ~closed[s]]
    /\ UNCHANGED <<closed, answering, chip, slip>>

----------------------------------------------------------------------------
Configure ==
    ConfigureFails \/ Probe \/ PresetLatch \/ SetDirection \/ SetPullups \/ Verify \/ Publish

MainLoop ==
    \/ Service \/ Configure \/ StartLeds
    \/ ScanFails \/ FirstScan \/ Scan
    \/ Buttons \/ HandleEvents
    \/ \E d \in 1 .. MaxPass : EndPass(d)

LedTask == Render \/ WriteFails \/ Write

World ==
    \/ \E s \in Switches : Move(s)
    \/ \E light \in Lights : SetState(light)
    \/ Outage \/ Return \/ Restart

Next == MainLoop \/ LedTask \/ World

Spec == Init /\ [][Next]_vars

\* Both tasks run: the main loop pauses at the end of a pass, the LED task
\* between two renderings.
FairSpec == Spec /\ WF_vars(MainLoop) /\ WF_vars(LedTask)

----------------------------------------------------------------------------
(* Properties *)

\* Types of the variables.
TypeOK ==
    /\ closed \in [Switches -> BOOLEAN] /\ answering \in BOOLEAN /\ chip \in Chips
    /\ ready \in BOOLEAN /\ generation \in Nat /\ retryAge \in 0 .. MCP_RETRY_INTERVAL
    /\ pc \in Configuring \cup {"leds", "first", "service", "scan", "buttons", "handle", "rest"}
    /\ debouncers \in
          [Switches -> [stable : BOOLEAN, candidate : BOOLEAN, age : 0 .. SWITCH_DEBOUNCE]]
    /\ haveFirstRead \in BOOLEAN /\ valid \in BOOLEAN
    /\ events \subseteq [id : Switches, active : BOOLEAN]
    /\ backPressed \in BOOLEAN /\ backSeeded \in BOOLEAN /\ backEvents \subseteq BOOLEAN
    /\ states \in Lights /\ ledPc \in {"off", "render", "write"} /\ sending \in Lights
    /\ seenGeneration \in Nat /\ mcpWritten \in BOOLEAN /\ lastLatch \in Lights
    /\ faults \in 0 .. MaxFaults /\ slip \in {"no", "ready", "configuring"}
    /\ rearmed \in [Switches -> BOOLEAN]

\* "a switch that is already ON at boot does not produce a spurious event", and
\* "exactly once per debounced change": between two reported presses of a
\* switch, and before the first, it was open, whatever the chip does meanwhile.
PressesAreReal ==
    [][\A s \in Switches : [id |-> s, active |-> TRUE] \in events' \ events => rearmed[s]]_vars

\* "SW1 is already debounced by switches.cpp; just turn it into button events":
\* the back button has the events of its switch, although it compares levels
\* and is seeded on its own.
BackMatches ==
    pc = "handle" => backEvents = {e.active : e \in {f \in events : f.id = SW1_BACK}}

\* "The driver never pretends the expander is working": ready means that the
\* chip has its configuration, unless it lost it in an outage that no
\* transaction has met yet.
ReadyIsConfigured ==
    ready /\ slip # "ready" => chip.output /\ chip.pullups /\ chip.latch # "reset"

\* "so the LEDs never flash on at start-up": the pins are not outputs with the
\* latches of a power-up, unless the registers are lost in mid-configuration.
NoFlash == slip # "configuring" /\ chip.output => chip.latch # "reset"

\* Users "that cache output state (LEDs) re-send it": when the LED task relies
\* on its cache, the chip shows what it last wrote.
CacheIsTrue ==
    ready /\ slip # "ready" /\ pc # "publish" /\ mcpWritten /\ generation = seenGeneration
        => chip.latch = lastLatch

\* "recovery restores LEDs and switches": once the chip answers and the world
\* is at rest, LEDs and switches become, and stay, what they should be, unless
\* the loss of the registers went unnoticed.
RecoveryRestores ==
    \A light \in Lights, levels \in [Switches -> BOOLEAN] :
        <>[](answering /\ slip # "ready" /\ states = light /\ closed = levels)
            => <>[](/\ chip.output /\ chip.latch = light
                    /\ valid /\ \A s \in Switches : debouncers[s].stable = levels[s])
=============================================================================
