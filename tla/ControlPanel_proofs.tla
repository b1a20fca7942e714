------------------------- MODULE ControlPanel_proofs -------------------------
(***************************************************************************)
(* Proofs about ControlPanel, for any set of switches, any debounce and    *)
(* retry times and any number of outages and restarts.                     *)
(***************************************************************************)
EXTENDS ControlPanel, TLAPS

(* Types.  The debouncers and the events come from the readings, which are *)
(* levels of the switches.                                                 *)

Debouncers == [stable : BOOLEAN, candidate : BOOLEAN, age : 0 .. SWITCH_DEBOUNCE]

\* What the debouncer makes of a reading.
LEMMA UpdateType ==
    ASSUME NEW d \in Debouncers, NEW raw \in BOOLEAN
    PROVE  /\ Update(d, raw) \in Debouncers
           /\ Reset(raw) \in Debouncers
<1> SWITCH_DEBOUNCE \in Nat
  BY PanelAssumption
<1> QED
  BY DEF Update, Reset, Debouncers

\* Ages stop at the threshold they are compared with.
LEMMA OlderType ==
    ASSUME NEW limit \in Nat, NEW age \in 0 .. limit, NEW d \in Nat
    PROVE  Older(age, d, limit) \in 0 .. limit
BY DEF Older

\* The registers are what a power-up or a transaction leaves.
LEMMA ChipTypes ==
    /\ PoweredUp \in Chips
    /\ \A c \in Chips : /\ \A light \in Lights : [c EXCEPT !.latch = light] \in Chips
                       /\ [c EXCEPT !.output = TRUE] \in Chips
                       /\ [c EXCEPT !.pullups = TRUE] \in Chips
BY DEF PoweredUp, Chips

LEMMA TypeInit == Init => TypeOK
<1> SUFFICES ASSUME Init PROVE TypeOK
  OBVIOUS
<1> USE PanelAssumption DEF Init
<1>1. debouncers \in [Switches -> Debouncers] /\ rearmed \in [Switches -> BOOLEAN]
  BY DEF Debouncers
<1>2. chip \in Chips
  BY ChipTypes
<1>3. faults \in 0 .. MaxFaults /\ retryAge \in 0 .. MCP_RETRY_INTERVAL
  OBVIOUS
<1> QED
  BY <1>1, <1>2, <1>3 DEF TypeOK, Debouncers, Lights, Configuring

LEMMA TypeConfigure == TypeOK /\ (Configure \/ Service \/ StartLeds) => TypeOK'
<1> SUFFICES ASSUME TypeOK, Configure \/ Service \/ StartLeds PROVE TypeOK'
  OBVIOUS
<1> USE DEF TypeOK, worldVars, driverVars, switchVars, buttonVars, ledVars, Configuring, Resume
<1>1. CASE Service
  BY <1>1, PanelAssumption DEF Service
<1>2. CASE ConfigureFails
  <2>1. chip' \in Chips
    BY <1>2, ChipTypes DEF ConfigureFails, Written, Lights
  <2> QED
    BY <1>2, <2>1 DEF ConfigureFails
<1>3. CASE Probe \/ PresetLatch \/ SetDirection \/ SetPullups
  <2>1. chip' \in Chips
    BY <1>3, ChipTypes DEF Probe, PresetLatch, SetDirection, SetPullups, Transact, Written, Lights
  <2> QED
    BY <1>3, <2>1 DEF Probe, PresetLatch, SetDirection, SetPullups, Transact
<1>4. CASE Verify
  BY <1>4 DEF Verify
<1>5. CASE Publish
  BY <1>5 DEF Publish
<1>6. CASE StartLeds
  BY <1>6 DEF StartLeds
<1> QED
  BY <1>1, <1>2, <1>3, <1>4, <1>5, <1>6 DEF Configure

LEMMA TypeScan == TypeOK /\ (ScanFails \/ FirstScan \/ Scan) => TypeOK'
<1> SUFFICES ASSUME TypeOK, ScanFails \/ FirstScan \/ Scan PROVE TypeOK'
  OBVIOUS
<1>1. /\ debouncers \in [Switches -> Debouncers]
      /\ pc' \in {"service", "buttons"}
  BY DEF TypeOK, Debouncers, ScanFails, FirstScan, Scan, ScanDone
<1>2. CASE ScanFails
  BY <1>1, <1>2 DEF ScanFails, Meet, TypeOK, worldVars, buttonVars, ledVars
<1>3. CASE FirstScan
  <2>1. PICK raw \in Readings : debouncers' = [s \in Switches |-> Reset(raw[s])]
    BY <1>3 DEF FirstScan
  <2>2. \A s \in Switches : raw[s] \in BOOLEAN
    BY <2>1 DEF Readings
  <2>3. debouncers' \in [Switches -> Debouncers]
    BY <1>1, <2>1, <2>2, UpdateType
  <2> QED
    BY <1>1, <1>3, <2>3 DEF FirstScan, TypeOK, Debouncers, worldVars, driverVars, buttonVars, ledVars
<1>4. CASE Scan
  <2>1. PICK raw \in Readings : debouncers' = [s \in Switches |-> Update(debouncers[s], raw[s])]
    BY <1>4 DEF Scan
  <2>2. \A s \in Switches : raw[s] \in BOOLEAN
    BY <2>1 DEF Readings
  <2>3. debouncers' \in [Switches -> Debouncers]
    BY <1>1, <2>1, <2>2, UpdateType
  <2>4. events' \subseteq [id : Switches, active : BOOLEAN]
    BY <1>4, <2>3 DEF Scan, TypeOK, Debouncers
  <2>5. rearmed' \in [Switches -> BOOLEAN]
    BY <1>4 DEF Scan, TypeOK, Chips
  <2> QED
    BY <1>1, <1>4, <2>3, <2>4, <2>5 DEF Scan, TypeOK, Debouncers, driverVars, buttonVars, ledVars
<1> QED
  BY <1>2, <1>3, <1>4

LEMMA TypeRest ==
    ASSUME TypeOK, NEW d \in 1 .. MaxPass, EndPass(d)
    PROVE  TypeOK'
<1>1. d \in Nat /\ SWITCH_DEBOUNCE \in Nat /\ MCP_RETRY_INTERVAL \in Nat
  BY PanelAssumption
<1>2. retryAge' \in 0 .. MCP_RETRY_INTERVAL
  BY <1>1, OlderType DEF EndPass, TypeOK
<1>3. \A s \in Switches : [debouncers[s] EXCEPT !.age = Older(@, d, SWITCH_DEBOUNCE)] \in Debouncers
  BY <1>1, OlderType DEF TypeOK, Debouncers
<1>4. debouncers' \in [Switches -> Debouncers]
  BY <1>3 DEF EndPass
<1> QED
  BY <1>2, <1>4 DEF EndPass, TypeOK, Debouncers, worldVars, buttonVars, ledVars

LEMMA TypeButtons == TypeOK /\ (Buttons \/ HandleEvents) => TypeOK'
<1> SUFFICES ASSUME TypeOK, Buttons \/ HandleEvents PROVE TypeOK'
  OBVIOUS
<1>1. debouncers[SW1_BACK].stable \in BOOLEAN
  BY PanelAssumption DEF TypeOK
<1>2. CASE Buttons
  BY <1>1, <1>2 DEF Buttons, TypeOK, worldVars, driverVars, switchVars, buttonVars, ledVars
<1>3. CASE HandleEvents
  BY <1>3 DEF HandleEvents, TypeOK, worldVars, driverVars, ledVars
<1> QED
  BY <1>2, <1>3

LEMMA TypeLeds == TypeOK /\ LedTask => TypeOK'
<1> SUFFICES ASSUME TypeOK, LedTask PROVE TypeOK'
  OBVIOUS
<1> USE DEF TypeOK, worldVars, driverVars, switchVars, buttonVars
<1>1. CASE Render
  BY <1>1 DEF Render
<1>2. CASE WriteFails
  BY <1>2 DEF WriteFails, Meet, Chips
<1>3. CASE Write
  BY <1>3 DEF Write, Chips
<1> QED
  BY <1>1, <1>2, <1>3 DEF LedTask

LEMMA TypeWorld == TypeOK /\ World => TypeOK'
<1> SUFFICES ASSUME TypeOK, World PROVE TypeOK'
  OBVIOUS
<1> USE DEF driverVars, switchVars, buttonVars, ledVars
<1>1. ASSUME NEW s \in Switches, Move(s) PROVE TypeOK'
  BY <1>1 DEF Move, TypeOK
<1>2. ASSUME NEW light \in Lights, SetState(light) PROVE TypeOK'
  BY <1>2 DEF SetState, TypeOK
<1>3. CASE Outage
  <2>1. chip' \in Chips
    BY <1>3, ChipTypes DEF Outage, TypeOK
  <2>2. faults' \in 0 .. MaxFaults /\ slip' \in {"no", "ready", "configuring"}
    BY <1>3, PanelAssumption DEF Outage, TypeOK
  <2> QED
    BY <1>3, <2>1, <2>2 DEF Outage, TypeOK
<1>4. CASE Return
  BY <1>4 DEF Return, TypeOK
<1>5. CASE Restart
  <2>1. debouncers' \in [Switches -> Debouncers] /\ rearmed' \in [Switches -> BOOLEAN]
    BY <1>5, PanelAssumption DEF Restart, Debouncers, Reset
  <2>2. faults' \in 0 .. MaxFaults /\ retryAge' \in 0 .. MCP_RETRY_INTERVAL
    BY <1>5, PanelAssumption DEF Restart, TypeOK
  <2> QED
    BY <1>5, <2>1, <2>2 DEF Restart, TypeOK, Debouncers, Configuring, Lights
<1> QED
  BY <1>1, <1>2, <1>3, <1>4, <1>5 DEF World

LEMMA TypeStep == TypeOK /\ [Next]_vars => TypeOK'
<1>1. ASSUME TypeOK, MainLoop PROVE TypeOK'
  BY <1>1, TypeConfigure, TypeScan, TypeButtons, TypeRest DEF MainLoop
<1>2. ASSUME TypeOK, UNCHANGED vars PROVE TypeOK'
  BY <1>2 DEF TypeOK, vars, worldVars, driverVars, switchVars, buttonVars, ledVars
<1> QED
  BY <1>1, <1>2, TypeLeds, TypeWorld DEF Next

\* The variables keep their types; ages and generations are counted correctly.
THEOREM PanelTypes == Spec => []TypeOK
BY TypeInit, TypeStep, PTL DEF Spec

----------------------------------------------------------------------------
(* The registers.  Ready is withdrawn before the chip is configured again, *)
(* and from the preset of the latches on they are not those of a power-up, *)
(* unless the registers are lost on the way.                               *)

ChipInv ==
    /\ ready => pc \notin Configuring \ {"publish"}
    /\ pc \in {"direction", "inputs", "verify"} /\ slip # "configuring" => chip.latch # "reset"
    /\ NoFlash
    /\ ReadyIsConfigured

LEMMA ChipConfigure == TypeOK /\ ChipInv /\ (Configure \/ Service \/ StartLeds) => ChipInv'
<1> SUFFICES ASSUME TypeOK, ChipInv, Configure \/ Service \/ StartLeds PROVE ChipInv'
  OBVIOUS
<1> USE DEF ChipInv, NoFlash, ReadyIsConfigured, Configuring, Resume
<1>1. CASE Service \/ Publish \/ StartLeds
  BY <1>1 DEF Service, Publish, StartLeds, driverVars
<1>2. CASE Probe
  BY <1>2 DEF Probe, Transact, Written, driverVars
<1>3. CASE PresetLatch
  <2>1. chip'.latch = "dark" /\ slip' = "no" /\ ~ready' /\ pc' = "direction"
    BY <1>3 DEF PresetLatch, Transact, Written, driverVars, TypeOK, Chips
  <2> QED
    BY <2>1
<1>4. CASE SetDirection \/ SetPullups
  <2>1. chip'.latch = chip.latch /\ slip' = slip /\ ~ready' /\ ~ready
    BY <1>4 DEF SetDirection, SetPullups, Transact, Written, driverVars, TypeOK, Chips
  <2>2. pc \in {"direction", "inputs"} /\ pc' \in {"inputs", "verify"}
    BY <1>4 DEF SetDirection, SetPullups, Transact
  <2> QED
    BY <2>1, <2>2
<1>5. CASE Verify
  BY <1>5 DEF Verify, Configured
<1>6. CASE ConfigureFails
  <2>1. ~ready' /\ pc' \notin Configuring
    BY <1>6 DEF ConfigureFails, driverVars
  <2>2. CASE pc = "latch" /\ chip' = Written
    <3>1. chip'.latch = "dark"
      BY <2>2 DEF Written, TypeOK, Chips
    <3> QED
      BY <2>1, <3>1
  <2>3. CASE pc # "latch" \/ chip' = chip
    <3>1. /\ chip'.latch = chip.latch /\ slip' = slip
          /\ chip'.output => chip.output \/ pc = "direction"
      BY <1>6, <2>3 DEF ConfigureFails, Written, TypeOK, Chips
    <3> QED
      BY <2>1, <3>1
  <2> QED
    BY <1>6, <2>2, <2>3 DEF ConfigureFails
<1> QED
  BY <1>1, <1>2, <1>3, <1>4, <1>5, <1>6 DEF Configure

LEMMA ChipOthers ==
    ASSUME TypeOK, ChipInv,
           ScanFails \/ FirstScan \/ Scan \/ Buttons \/ HandleEvents \/ (\E d \in 1 .. MaxPass : EndPass(d))
    PROVE  ChipInv'
<1> USE DEF ChipInv, NoFlash, ReadyIsConfigured, Configuring, driverVars, Scans, ScanDone
<1>1. CASE ScanFails
  BY <1>1 DEF ScanFails, Meet
<1>2. CASE FirstScan
  BY <1>2 DEF FirstScan
<1>3. CASE Scan
  BY <1>3 DEF Scan
<1>4. CASE Buttons \/ HandleEvents \/ (\E d \in 1 .. MaxPass : EndPass(d))
  BY <1>4 DEF Buttons, HandleEvents, EndPass
<1> QED
  BY <1>1, <1>2, <1>3, <1>4

LEMMA ChipLeds == TypeOK /\ ChipInv /\ LedTask => ChipInv'
<1> SUFFICES ASSUME TypeOK, ChipInv, LedTask PROVE ChipInv'
  OBVIOUS
<1> USE DEF ChipInv, NoFlash, ReadyIsConfigured, driverVars
<1>1. CASE Render
  BY <1>1 DEF Render
<1>2. CASE WriteFails
  <2>1. ~ready' /\ chip'.output = chip.output
    BY <1>2 DEF WriteFails, TypeOK, Chips
  <2>2. chip'.latch = chip.latch \/ chip'.latch \in Lights
    BY <1>2 DEF WriteFails, TypeOK, Chips
  <2> QED
    BY <1>2, <2>1, <2>2 DEF WriteFails, Meet, Configuring, Lights
<1>3. CASE Write
  <2>1. /\ chip'.latch \in Lights
        /\ chip'.output = chip.output /\ chip'.pullups = chip.pullups
    BY <1>3 DEF Write, TypeOK, Chips
  <2> QED
    BY <1>3, <2>1 DEF Write, Configuring, Lights
<1> QED
  BY <1>1, <1>2, <1>3 DEF LedTask

LEMMA ChipWorld == TypeOK /\ ChipInv /\ World => ChipInv'
<1> SUFFICES ASSUME TypeOK, ChipInv, World PROVE ChipInv'
  OBVIOUS
<1> USE DEF ChipInv, NoFlash, ReadyIsConfigured, driverVars
<1>1. CASE \E s \in Switches : Move(s)
  BY <1>1 DEF Move
<1>2. CASE \E light \in Lights : SetState(light)
  BY <1>2 DEF SetState
<1>3. CASE Outage
  BY <1>3 DEF Outage, PoweredUp, Configuring
<1>4. CASE Return
  BY <1>4 DEF Return
<1>5. CASE Restart
  BY <1>5 DEF Restart
<1> QED
  BY <1>1, <1>2, <1>3, <1>4, <1>5 DEF World

LEMMA ChipStep == TypeOK /\ ChipInv /\ [Next]_vars => ChipInv'
<1>1. ASSUME UNCHANGED vars, ChipInv PROVE ChipInv'
  BY <1>1 DEF vars, driverVars, ChipInv, NoFlash, ReadyIsConfigured
<1> QED
  BY <1>1, ChipConfigure, ChipOthers, ChipLeds, ChipWorld DEF Next, MainLoop

LEMMA ChipInit == Init => ChipInv
BY DEF Init, ChipInv, NoFlash, ReadyIsConfigured, PoweredUp

LEMMA ChipAlways == Spec => [](TypeOK /\ ChipInv)
BY TypeInit, TypeStep, ChipInit, ChipStep, PTL DEF Spec

\* The LEDs never flash on: no power-up latch ever drives a pin, unless the
\* registers are lost in mid-configuration.
THEOREM LedsNeverFlash == Spec => []NoFlash
<1>1. ChipInv => NoFlash
  BY DEF ChipInv
<1> QED
  BY <1>1, ChipAlways, PTL

\* The driver never pretends that the expander works.
THEOREM ReadyMeansConfigured == Spec => []ReadyIsConfigured
<1>1. ChipInv => ReadyIsConfigured
  BY DEF ChipInv
<1> QED
  BY <1>1, ChipAlways, PTL

----------------------------------------------------------------------------
(* The cache of the LED task.  Generations only grow, and one that the LED *)
(* task has not seen makes it forget what it wrote.                        *)

CacheInv ==
    /\ seenGeneration <= generation
    /\ ledPc = "off" => ~mcpWritten
    /\ pc = "leds" => ledPc = "off"
    /\ CacheIsTrue

LEMMA CacheConfigure ==
    TypeOK /\ ChipInv /\ CacheInv /\ (Configure \/ Service \/ StartLeds) => CacheInv'
<1> SUFFICES ASSUME TypeOK, ChipInv, CacheInv, Configure \/ Service \/ StartLeds PROVE CacheInv'
  OBVIOUS
<1> USE DEF CacheInv, CacheIsTrue, Resume, ledVars, driverVars
<1>1. CASE Service \/ Verify
  BY <1>1 DEF Service, Verify, Configuring
<1>2. CASE Probe \/ PresetLatch \/ SetDirection \/ SetPullups
  <2>1. ~ready' /\ pc' # "leds"
    BY <1>2 DEF Probe, PresetLatch, SetDirection, SetPullups, Transact, ChipInv, Configuring
  <2> QED
    BY <1>2, <2>1 DEF Probe, PresetLatch, SetDirection, SetPullups, Transact
<1>3. CASE Publish
  <2>1. generation \in Nat /\ seenGeneration \in Nat
    BY DEF TypeOK
  <2> QED
    BY <1>3, <2>1 DEF Publish
<1>4. CASE StartLeds
  <2>1. generation \in Nat
    BY DEF TypeOK
  <2> QED
    BY <1>4, <2>1 DEF StartLeds
<1>5. CASE ConfigureFails
  <2>1. ~ready'
    BY <1>5 DEF ConfigureFails, ChipInv
  <2> QED
    BY <1>5, <2>1 DEF ConfigureFails
<1> QED
  BY <1>1, <1>2, <1>3, <1>4, <1>5 DEF Configure

LEMMA CacheOthers ==
    ASSUME TypeOK, CacheInv,
           ScanFails \/ FirstScan \/ Scan \/ Buttons \/ HandleEvents \/ (\E d \in 1 .. MaxPass : EndPass(d))
    PROVE  CacheInv'
<1> USE DEF CacheInv, CacheIsTrue, ledVars, driverVars, Scans, ScanDone
<1>1. CASE ScanFails
  BY <1>1 DEF ScanFails
<1>2. CASE FirstScan \/ Scan
  BY <1>2 DEF FirstScan, Scan
<1>3. CASE Buttons \/ HandleEvents \/ (\E d \in 1 .. MaxPass : EndPass(d))
  BY <1>3 DEF Buttons, HandleEvents, EndPass
<1> QED
  BY <1>1, <1>2, <1>3

LEMMA CacheLeds == TypeOK /\ CacheInv /\ LedTask => CacheInv'
<1> SUFFICES ASSUME TypeOK, CacheInv, LedTask PROVE CacheInv'
  OBVIOUS
<1> USE DEF CacheInv, CacheIsTrue, driverVars
<1>1. CASE Render
  <2>1. mcpWritten' => mcpWritten /\ generation = seenGeneration
    BY <1>1 DEF Render
  <2>2. generation \in Nat /\ seenGeneration' = generation /\ ledPc # "off" /\ ledPc' # "off"
    BY <1>1 DEF Render, TypeOK
  <2>3. UNCHANGED <<chip, slip, driverVars, pc, lastLatch>>
    BY <1>1 DEF Render
  <2> QED
    BY <2>1, <2>2, <2>3
<1>2. CASE WriteFails
  BY <1>2 DEF WriteFails
<1>3. CASE Write
  BY <1>3 DEF Write, TypeOK, Chips
<1> QED
  BY <1>1, <1>2, <1>3 DEF LedTask

LEMMA CacheWorld == TypeOK /\ CacheInv /\ World => CacheInv'
<1> SUFFICES ASSUME TypeOK, CacheInv, World PROVE CacheInv'
  OBVIOUS
<1> USE DEF CacheInv, CacheIsTrue, driverVars, ledVars
<1>1. CASE (\E s \in Switches : Move(s)) \/ (\E light \in Lights : SetState(light))
  BY <1>1 DEF Move, SetState
<1>2. CASE Outage
  BY <1>2 DEF Outage
<1>3. CASE Return
  BY <1>3 DEF Return
<1>4. CASE Restart
  BY <1>4 DEF Restart
<1> QED
  BY <1>1, <1>2, <1>3, <1>4 DEF World

LEMMA CacheStep == TypeOK /\ ChipInv /\ CacheInv /\ [Next]_vars => CacheInv'
<1>1. ASSUME UNCHANGED vars, CacheInv PROVE CacheInv'
  BY <1>1 DEF vars, driverVars, ledVars, CacheInv, CacheIsTrue
<1> QED
  BY <1>1, CacheConfigure, CacheOthers, CacheLeds, CacheWorld DEF Next, MainLoop

\* When the LED task relies on its cache, the chip shows what it last wrote.
THEOREM LedCacheIsTrue == Spec => []CacheIsTrue
<1>1. Init => CacheInv
  BY DEF Init, CacheInv, CacheIsTrue
<1>2. CacheInv => CacheIsTrue
  BY DEF CacheInv
<1> QED
  BY <1>1, <1>2, CacheStep, ChipAlways, PTL DEF Spec

----------------------------------------------------------------------------
(* Events.  They live from a scan to the end of the event loops of the same *)
(* pass, and the switches are not scanned before the LED task is started.  *)

EventInv ==
    /\ events # {} => pc \in {"buttons", "handle"}
    /\ ledPc = "off" => pc \in Configuring \cup {"leds"}
    /\ pc \in {"leds", "first"} \/ ledPc = "off" => ~haveFirstRead
    /\ valid \/ backSeeded => haveFirstRead

LEMMA EventStep == TypeOK /\ CacheInv /\ EventInv /\ [Next]_vars => EventInv'
<1> SUFFICES ASSUME TypeOK, CacheInv, EventInv, [Next]_vars PROVE EventInv'
  OBVIOUS
<1> USE DEF EventInv, CacheInv, Configuring, Resume, switchVars, buttonVars, ledVars
<1>1. CASE Service \/ ConfigureFails \/ Verify \/ Publish \/ StartLeds
  BY <1>1 DEF Service, ConfigureFails, Verify, Publish, StartLeds
<1>2. CASE Probe \/ PresetLatch \/ SetDirection \/ SetPullups
  BY <1>2 DEF Probe, PresetLatch, SetDirection, SetPullups, Transact
<1>3. CASE ScanFails \/ FirstScan \/ Scan
  BY <1>3 DEF ScanFails, FirstScan, Scan, Scans, ScanDone
<1>4. CASE Buttons \/ HandleEvents \/ (\E d \in 1 .. MaxPass : EndPass(d))
  BY <1>4 DEF Buttons, HandleEvents, EndPass
<1>5. CASE LedTask
  BY <1>5 DEF LedTask, Render, WriteFails, Write
<1>6. CASE World
  <2>1. CASE Restart
    BY <2>1 DEF Restart
  <2>2. CASE Outage \/ Return
    BY <2>2 DEF Outage, Return
  <2>3. CASE (\E s \in Switches : Move(s)) \/ (\E light \in Lights : SetState(light))
    BY <2>3 DEF Move, SetState
  <2> QED
    BY <1>6, <2>1, <2>2, <2>3 DEF World
<1>7. CASE UNCHANGED vars
  BY <1>7 DEF vars
<1> QED
  BY <1>1, <1>2, <1>3, <1>4, <1>5, <1>6, <1>7 DEF Next, MainLoop, Configure

----------------------------------------------------------------------------
(* Presses.  A switch that was reported closed, and was never open since,  *)
(* is closed and held for closed, so that it is not reported again.        *)

PressInv ==
    \A s \in Switches : ~rearmed[s] => closed[s] /\ (haveFirstRead => debouncers[s].stable)

LEMMA PressScan ==
    ASSUME TypeOK, EventInv, PressInv, Scan
    PROVE  /\ PressInv'
           /\ \A s \in Switches : [id |-> s, active |-> TRUE] \in events' \ events => rearmed[s]
<1>1. PICK raw \in Readings : debouncers' = [s \in Switches |-> Update(debouncers[s], raw[s])]
  BY DEF Scan
<1>2. events = {} /\ haveFirstRead
  BY DEF Scan, Scans, EventInv
<1>3. ASSUME NEW s \in Switches
      PROVE  /\ [id |-> s, active |-> TRUE] \in events'
                    => debouncers'[s].stable /\ ~debouncers[s].stable
             /\ debouncers'[s].stable # debouncers[s].stable => debouncers'[s].stable = raw[s]
             /\ closed[s] => raw[s]
             /\ chip.pullups => raw[s] = closed[s]
  <2>1. [id |-> s, active |-> TRUE] \in events' => debouncers'[s].stable /\ ~debouncers[s].stable
    BY <1>2 DEF Scan, TypeOK
  <2>2. debouncers'[s] = Update(debouncers[s], raw[s])
    BY <1>1
  <2>3. debouncers'[s].stable # debouncers[s].stable => debouncers'[s].stable = raw[s]
    BY <2>2 DEF Update
  <2>4. (closed[s] => raw[s]) /\ (chip.pullups => raw[s] = closed[s])
    BY DEF Readings, TypeOK, Chips
  <2> QED
    BY <2>1, <2>3, <2>4
<1>4. ASSUME NEW s \in Switches, [id |-> s, active |-> TRUE] \in events' PROVE rearmed[s]
  BY <1>2, <1>3, <1>4 DEF PressInv
<1>5. ASSUME NEW s \in Switches, ~rearmed'[s]
      PROVE  closed[s] /\ debouncers'[s].stable
  <2>1. chip.pullups /\ (~rearmed[s] \/ [id |-> s, active |-> TRUE] \in events')
    BY <1>5 DEF Scan, TypeOK
  <2>2. CASE ~rearmed[s]
    BY <1>2, <1>3, <2>2 DEF PressInv, TypeOK
  <2>3. CASE [id |-> s, active |-> TRUE] \in events'
    BY <1>3, <2>1, <2>3
  <2> QED
    BY <2>1, <2>2, <2>3
<1> QED
  BY <1>4, <1>5 DEF PressInv, Scan

LEMMA PressWorld == TypeOK /\ PressInv /\ World => PressInv'
<1> SUFFICES ASSUME TypeOK, PressInv, World PROVE PressInv'
  OBVIOUS
<1> USE DEF PressInv, switchVars
<1>1. ASSUME NEW t \in Switches, Move(t) PROVE PressInv'
  <2>1. /\ closed' = [closed EXCEPT ![t] = ~closed[t]]
        /\ rearmed' = [rearmed EXCEPT ![t] = rearmed[t] \/ closed[t]]
        /\ UNCHANGED <<debouncers, haveFirstRead>>
    BY <1>1 DEF Move
  <2>2. ASSUME NEW s \in Switches, ~rearmed'[s]
        PROVE  closed'[s] /\ (haveFirstRead => debouncers[s].stable)
    <3>1. CASE s = t
      BY <2>1, <2>2, <3>1 DEF TypeOK
    <3>2. CASE s # t
      BY <2>1, <2>2, <3>2 DEF TypeOK
    <3> QED
      BY <3>1, <3>2
  <2> QED
    BY <2>1, <2>2
<1>2. CASE (\E light \in Lights : SetState(light)) \/ Outage \/ Return
  BY <1>2 DEF SetState, Outage, Return
<1>3. CASE Restart
  BY <1>3 DEF Restart, TypeOK
<1> QED
  BY <1>1, <1>2, <1>3 DEF World

LEMMA PressStep == TypeOK /\ EventInv /\ PressInv /\ [Next]_vars => PressInv'
<1> SUFFICES ASSUME TypeOK, EventInv, PressInv, [Next]_vars PROVE PressInv'
  OBVIOUS
<1> USE DEF PressInv, worldVars, switchVars
<1>1. CASE Service \/ Configure \/ StartLeds
  BY <1>1 DEF Service, Configure, ConfigureFails, Probe, PresetLatch, SetDirection, SetPullups,
              Transact, Verify, Publish, StartLeds
<1>2. CASE ScanFails
  BY <1>2 DEF ScanFails
<1>3. CASE FirstScan
  <2>1. PICK raw \in Readings : debouncers' = [s \in Switches |-> Reset(raw[s])]
    BY <1>3 DEF FirstScan
  <2>2. \A s \in Switches : closed[s] => raw[s]
    BY DEF Readings, TypeOK
  <2>3. \A s \in Switches : debouncers'[s].stable = raw[s]
    BY <2>1 DEF Reset
  <2> QED
    BY <1>3, <2>2, <2>3 DEF FirstScan
<1>4. CASE Scan
  BY <1>4, PressScan
<1>5. CASE Buttons \/ HandleEvents
  BY <1>5 DEF Buttons, HandleEvents
<1>6. ASSUME NEW d \in 1 .. MaxPass, EndPass(d) PROVE PressInv'
  <2>1. \A s \in Switches : debouncers'[s].stable = debouncers[s].stable
    BY <1>6 DEF EndPass, TypeOK
  <2> QED
    BY <1>6, <2>1 DEF EndPass
<1>7. CASE LedTask
  BY <1>7 DEF LedTask, Render, WriteFails, Write
<1>8. CASE World
  BY <1>8, PressWorld
<1>9. CASE UNCHANGED vars
  BY <1>9 DEF vars
<1> QED
  BY <1>1, <1>2, <1>3, <1>4, <1>5, <1>6, <1>7, <1>8, <1>9 DEF Next, MainLoop

LEMMA EventAlways == Spec => [](TypeOK /\ EventInv)
<1>1. Init => CacheInv /\ EventInv
  BY DEF Init, CacheInv, CacheIsTrue, EventInv, Configuring
<1> QED
  BY <1>1, TypeInit, TypeStep, ChipInit, ChipStep, CacheStep, EventStep, PTL DEF Spec

\* Between two reported presses of a switch, and before the first, it was open,
\* whatever the chip does meanwhile.
THEOREM ReportedPressesAreReal == Spec => PressesAreReal
<1>1. Init => PressInv
  BY DEF Init, PressInv
<1>2. TypeOK /\ EventInv /\ PressInv /\ [Next]_vars
        => [\A s \in Switches : [id |-> s, active |-> TRUE] \in events' \ events => rearmed[s]]_vars
  <2> SUFFICES ASSUME TypeOK, EventInv, PressInv, Next
               PROVE  \A s \in Switches :
                        [id |-> s, active |-> TRUE] \in events' \ events => rearmed[s]
    OBVIOUS
  <2>1. CASE Scan
    BY <2>1, PressScan
  <2>2. ASSUME ~Scan PROVE events' \subseteq events
    <3> USE DEF switchVars
    <3>1. CASE MainLoop
      BY <2>2, <3>1 DEF MainLoop, Service, Configure, ConfigureFails, Probe, PresetLatch,
         SetDirection, SetPullups, Transact, Verify, Publish, StartLeds, ScanFails, FirstScan,
         Buttons, HandleEvents, EndPass
    <3>2. CASE LedTask
      BY <3>2 DEF LedTask, Render, WriteFails, Write
    <3>3. CASE World
      BY <3>3 DEF World, Move, SetState, Outage, Return, Restart
    <3> QED
      BY <3>1, <3>2, <3>3 DEF Next
  <2> QED
    BY <2>1, <2>2
<1> QED
  BY <1>1, <1>2, EventAlways, PressStep, PTL DEF Spec, PressesAreReal

----------------------------------------------------------------------------
(* The back button.  It lags behind its switch only from a scan to the     *)
(* buttons of the same pass; before it is seeded, its switch cannot have   *)
(* an event, because the debounce time is not zero.                        *)

Back == debouncers[SW1_BACK]
BackLevels == {e.active : e \in {f \in events : f.id = SW1_BACK}}

BackInv ==
    /\ pc # "handle" => backEvents = {}
    /\ pc = "buttons" =>
          BackLevels = IF valid /\ backSeeded /\ Back.stable # backPressed THEN {Back.stable} ELSE {}
    /\ backSeeded /\ ~(pc = "buttons" /\ valid) => backPressed = Back.stable
    /\ ~backSeeded /\ ~(pc = "buttons" /\ valid) => Back.candidate = Back.stable
    /\ BackMatches

\* The events of a scan are those of the switches that changed.
LEMMA BackScan ==
    ASSUME TypeOK, EventInv, BackInv, Scan, pc' = "buttons"
    PROVE  BackInv'
<1> SW1_BACK \in Switches /\ SWITCH_DEBOUNCE # 0
  BY PanelAssumption
<1>1. PICK raw \in Readings : debouncers' = [s \in Switches |-> Update(debouncers[s], raw[s])]
  BY DEF Scan
<1>2. events = {} /\ haveFirstRead /\ pc = "scan"
  BY DEF Scan, Scans, EventInv
<1>3. events' = {[id |-> s, active |-> debouncers'[s].stable] :
                   s \in {t \in Switches : debouncers'[t].stable # debouncers[t].stable}}
  BY <1>2 DEF Scan
<1>4. BackLevels' = IF Back'.stable # Back.stable THEN {Back'.stable} ELSE {}
  <2>1. ASSUME NEW e \in events', e.id = SW1_BACK
        PROVE  Back'.stable # Back.stable /\ e.active = Back'.stable
    <3>1. PICK s \in Switches : /\ debouncers'[s].stable # debouncers[s].stable
                               /\ e = [id |-> s, active |-> debouncers'[s].stable]
      BY <1>3
    <3> QED
      BY <2>1, <3>1 DEF Back
  <2>2. ASSUME Back'.stable # Back.stable
        PROVE  [id |-> SW1_BACK, active |-> Back'.stable] \in events'
    BY <1>3, <2>2 DEF Back
  <2> QED
    BY <2>1, <2>2 DEF BackLevels
<1>5. Back' = Update(Back, raw[SW1_BACK])
  BY <1>1 DEF Back
<1>6. ~backSeeded => Back'.stable = Back.stable
  BY <1>2, <1>5 DEF BackInv, Update
<1>7. UNCHANGED <<backPressed, backSeeded, backEvents>> /\ valid'
  BY DEF Scan, buttonVars
<1>8. backSeeded => backPressed = Back.stable
  BY <1>2 DEF BackInv
<1> QED
  BY <1>2, <1>4, <1>6, <1>7, <1>8 DEF BackInv, BackMatches

LEMMA BackButtons == TypeOK /\ BackInv /\ Buttons => BackInv'
<1> SUFFICES ASSUME TypeOK, BackInv, Buttons PROVE BackInv'
  OBVIOUS
<1>1. UNCHANGED <<events, debouncers, valid>> /\ pc = "buttons" /\ pc' = "handle"
  BY DEF Buttons, switchVars
<1>2. Back' = Back /\ BackLevels' = BackLevels
  BY <1>1 DEF Back, BackLevels
<1>3. CASE valid
  BY <1>1, <1>2, <1>3 DEF Buttons, BackInv, BackMatches, BackLevels, Back
<1>4. CASE ~valid
  BY <1>1, <1>2, <1>4 DEF Buttons, BackInv, BackMatches, BackLevels, buttonVars
<1> QED
  BY <1>3, <1>4

LEMMA BackStep == TypeOK /\ CacheInv /\ EventInv /\ BackInv /\ [Next]_vars => BackInv'
<1> SUFFICES ASSUME TypeOK, CacheInv, EventInv, BackInv, [Next]_vars PROVE BackInv'
  OBVIOUS
<1> SW1_BACK \in Switches
  BY PanelAssumption
<1>1. ASSUME UNCHANGED <<switchVars, buttonVars>>,
             pc \notin {"buttons", "handle"}, pc' \notin {"buttons", "handle"}
      PROVE  BackInv'
  <2>1. UNCHANGED <<valid, backEvents, backSeeded, backPressed>> /\ Back' = Back
    BY <1>1 DEF switchVars, buttonVars, Back
  <2>2. ~(pc' = "buttons" /\ valid') /\ ~(pc = "buttons" /\ valid)
    BY <1>1
  <2> QED
    BY <1>1, <2>1, <2>2 DEF BackInv, BackMatches
<1>2. ASSUME UNCHANGED <<switchVars, buttonVars, pc>> PROVE BackInv'
  BY <1>2 DEF switchVars, buttonVars, BackInv, BackMatches, Back, BackLevels
<1>3. CASE Service \/ Configure \/ StartLeds
  <2>1. /\ UNCHANGED <<switchVars, buttonVars>>
        /\ pc \notin {"buttons", "handle"} /\ pc' \notin {"buttons", "handle"}
    BY <1>3 DEF Service, Configure, ConfigureFails, Probe, PresetLatch, SetDirection, SetPullups,
                Transact, Verify, Publish, StartLeds, Configuring, Resume
  <2> QED
    BY <1>1, <2>1
<1>4. CASE ScanFails
  <2>1. /\ UNCHANGED <<debouncers, events, buttonVars>> /\ ~valid' /\ events = {}
        /\ pc # "buttons" /\ pc' # "handle"
    BY <1>4 DEF ScanFails, Scans, ScanDone, EventInv
  <2>2. Back' = Back /\ BackLevels' = {}
    BY <2>1 DEF Back, BackLevels
  <2> QED
    BY <2>1, <2>2 DEF BackInv, BackMatches, buttonVars
<1>5. CASE FirstScan
  <2>1. PICK raw \in Readings : debouncers' = [s \in Switches |-> Reset(raw[s])]
    BY <1>5 DEF FirstScan
  <2>2. Back'.candidate = Back'.stable
    BY <2>1 DEF Back, Reset
  <2>3. /\ UNCHANGED <<events, buttonVars>> /\ ~backSeeded /\ events = {}
        /\ pc # "buttons" /\ pc' # "handle"
    BY <1>5 DEF FirstScan, Scans, ScanDone, EventInv
  <2>4. BackLevels' = {}
    BY <2>3 DEF BackLevels
  <2> QED
    BY <2>2, <2>3, <2>4 DEF BackInv, BackMatches, buttonVars
<1>6. CASE Scan
  <2>1. pc' = "buttons"
    BY <1>6 DEF Scan, Scans, ScanDone, EventInv
  <2> QED
    BY <1>6, <2>1, BackScan
<1>7. CASE Buttons
  BY <1>7, BackButtons
<1>8. CASE HandleEvents
  BY <1>8 DEF HandleEvents, BackInv, BackMatches, Back, BackLevels
<1>9. ASSUME NEW d \in 1 .. MaxPass, EndPass(d) PROVE BackInv'
  <2>1. Back'.stable = Back.stable /\ Back'.candidate = Back.candidate
    BY <1>9 DEF EndPass, Back, TypeOK
  <2> QED
    BY <1>9, <2>1 DEF EndPass, buttonVars, BackInv, BackMatches
<1>10. CASE LedTask
  BY <1>2, <1>10 DEF LedTask, Render, WriteFails, Write
<1>11. CASE World
  <2>1. CASE Restart
    BY <2>1 DEF Restart, BackInv, BackMatches, Back, Reset
  <2>2. CASE Outage \/ Return
    BY <1>2, <2>2 DEF Outage, Return
  <2>3. CASE (\E s \in Switches : Move(s)) \/ (\E light \in Lights : SetState(light))
    BY <1>2, <2>3 DEF Move, SetState
  <2> QED
    BY <1>11, <2>1, <2>2, <2>3 DEF World
<1>12. CASE UNCHANGED vars
  BY <1>2, <1>12 DEF vars
<1> QED
  BY <1>3, <1>4, <1>5, <1>6, <1>7, <1>8, <1>9, <1>10, <1>11, <1>12 DEF Next, MainLoop

\* The back button has the events of its switch.
THEOREM BackFollowsItsSwitch == Spec => []BackMatches
<1>1. Init => CacheInv /\ EventInv /\ BackInv
  <2> SUFFICES ASSUME Init PROVE CacheInv /\ EventInv /\ BackInv
    OBVIOUS
  <2>1. Back.candidate = Back.stable
    BY PanelAssumption DEF Init, Back
  <2>2. CacheInv /\ EventInv
    BY DEF Init, CacheInv, CacheIsTrue, EventInv, Configuring
  <2> QED
    BY <2>1, <2>2 DEF Init, BackInv, BackMatches
<1>2. BackInv => BackMatches
  BY DEF BackInv
<1> QED
  BY <1>1, <1>2, TypeInit, TypeStep, ChipInit, ChipStep, CacheStep, EventStep, BackStep, PTL DEF Spec
=============================================================================
