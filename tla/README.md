# Pepernotenmachine: verification project

TLA+ models of the firmware of a machine that shoots pepernoten (spiced
biscuits): three ESP32 programs that talk over Bluetooth Low Energy, plus one
sensor sketch. The modules are translated from the C++ sources; TLC checks
them on small instances, and TLAPS proves safety properties of nine of them for
all values of their constants. Paths below are relative to `src/`.

## 1. The system

| Part | Sources | State it keeps | Operations |
|---|---|---|---|
| **Launcher**: preparation cycle | `launcher/source/src/launcher.cpp`, `pull_motor.cpp`, `release_servo.cpp` | the atomic `preparationState`, the task notification, the auto-lock timer; carriage, latch, LED 1 | `launcher_prepare`, `launcher_launch`, `preparation_task`, motor and servo writes |
| Launcher: dispenser, saved duration | `dispenser.cpp`, `storage.cpp` | the atomic `isDispensing`, poll timer, start time, duration; write queue and flash | start, stop, set duration, poll, save |
| Launcher: button, LEDs, Bluetooth | `button.cpp`, `led.c`, `ble_manager.cpp`, `main.cpp` | debounced level, patterns, characteristics | callbacks into the two parts above |
| **Switchboard** (`schakelbord`): fog machine | `fog_machine.cpp` | phase, session, trigger pin, command queue of 4, burst duration | `fog_start/stop/set_duration`, `fog_task` |
| Switchboard: relays, outputs, expander | `relays.cpp`, `digital_outputs.cpp`, `mcp23017.cpp` | relay states, blink timers, output mask, shadow register, the chip | set, all off, blink, `mcp_task` |
| Switchboard: MOSFETs, inputs | `mosfets.cpp`, `digital_inputs.cpp`, `analog_inputs.cpp` | percentages and duties; settled mask; last sample, last notified sample and its time | set, switch off, settle and read, sample and report |
| Switchboard: Bluetooth, start-up | `ble_manager.cpp`, `main.cpp` | number of clients, characteristics | callbacks into the parts above, failsafe when the last client leaves, push of initial values |
| **Control unit** (`bediening`): logic | `control_logic.cpp`, `controller.cpp` | what was seen of a preparation, lockout, messages; per relay the last send and the pending time; fog sends | `step` once per pass of the main loop |
| Control unit: connection manager | `ble_link.cpp` | per device a link state and stored values; one write queue, one ring of results | BLE task, host task callbacks, `ble_link_write`, `ble_link_reload` |
| Control unit: scanner, store, identities | `ble_scanner.cpp`, `device_store.cpp`, `ble_identity.h` | queue of hits, result table, saved records | start and stop a scan, merge hits, classify, save, erase |
| Control unit: panel | `switches.cpp`, `buttons.cpp`, `leds.cpp`, `mcp23017.cpp`, `debounce.h`, `app.cpp` | the expander's driver (`ready_`, `generation_`, last attempt), debouncers, event queue, back button, LED patterns with the cached latch | `service`, scan, events, render, write; main loop and LED task |
| Control unit: screens | `ui.cpp`, `display.cpp` | current screen, stack of screens, recorded click, push button, focus (in LVGL), scan context | back, dial, push, recorded action, long press, live update, LVGL reading the encoder |
| Control unit: encoder | `rotary_encoder.cpp`, `encoder_decoder.h` | decoder | interrupt |
| **Ready sensor** | `smoke/source/src` | none that matters | threshold on an analog input |
| Hardware | schematics, boards and printed parts (`launcher/3d`, `bediening/schema`, `motorhouder`, ...) | no behaviour | |

How they interact: the control unit is a BLE client of launcher and
switchboard. A switch on its panel becomes a queued characteristic write, the
write runs a callback in the device's Bluetooth host task, the callback
changes the state of a module and that module publishes a value; the
notification updates the value stored by the connection manager, and the logic
reads it in the next pass. Inside a device, the host task, FreeRTOS tasks and
the timer task share atomics, queues, notifications and a few locks.

What is hard: two threads that claim the same preparation or dispense cycle;
notifications and timer commands that are dropped without waiting; values
that are stored before they are published, or published by two threads;
queues of 4, 8 and 16 entries without back-pressure; connections lost at any
point of a session's set-up; results of writes reported to another task;
timers computed from a 32-bit millisecond clock; a chip that keeps its
registers when the processor restarts, and the other way round; clicks that are
carried out a pass later, on another screen perhaps; a start-up that pushes values
while their owners already publish newer ones. `PROJECT.json`
lists each of these at its line, with the property that covers it.

## 2. The modules

| Module | Models | Its threads |
|---|---|---|
| `LauncherPreparation` | `launcher.cpp`, the commands of `pull_motor.cpp`, callbacks of `main.cpp`; implements `PreparationReport` | any set `Callers` of threads (`MCLauncherPreparation`: Bluetooth and button), the preparation task, motor hardware, auto-lock timer |
| `Dispenser` | `dispenser.cpp`, `storage.cpp` | Bluetooth host task, preparation task, timer task, storage writer, restarts |
| `FogMachine` | `fog_machine.cpp` and its callers; implements `FogSession` | fog task, host task, `setup()`, input pins |
| `SwitchboardOutputs` | `relays.cpp`, `digital_outputs.cpp`, `mcp23017.cpp` and their callers | host task, timer task, `mcp_task`, the chip, restarts |
| `SwitchboardConfig` | the switchboard's `config.h` and the assumptions about it: constants of `SwitchboardOutputs` and `BoardValues`, which are proved about together | |
| `LaunchInterlock` | launch and prepare half of `control_logic.cpp`, with `controller.cpp`; implements `OneShotLaunch` | main loop; the environment chooses every input |
| `RelayControl` | `reconcileRelay`, closed over a reduced connection and a reduced board | main loop, link, board, a second client |
| `ControlPanel` | `mcp23017.cpp`, `switches.cpp`, `buttons.cpp`, `leds.cpp`, `debounce.h` and the loop of `app.cpp` (`bediening`) | main loop, LED task, chip and bus, restarts |
| `FogControl` | `handleFog`, closed over a reduced connection and the fog machine with its command queue | main loop, link, fog task, a second client |
| `BoardValues` | `digital_inputs.cpp`, `analog_inputs.cpp`, `mosfets.cpp`, their part of `main.cpp` | input task, sampling task, host task, `setup()`, the contacts |
| `SetupScreens` | `ui.cpp`, `ble_scanner.cpp`, `ble_identity.h`, `device_store.cpp` | main loop with LVGL, NimBLE host task, operator (`MCSetupScreens`: what may be advertised and saved) |
| `BleLink` | `ble_link.cpp`, one link; implements `LinkService` | BLE task, NimBLE host task, main loop, remote device |

Four modules are abstract. `FogSession` knows what a client sees of the fog
machine, `OneShotLaunch` when a launch may be sent, `LinkService` what the rest of the
control unit sees of the connection manager (values of the connection that is up,
writes that are executed in order and at most once), and `PreparationReport` in which
order clients read the states of a preparation. The refinement mappings are
`FogMachine!Promise`, `LaunchInterlock!Rule`, `BleLink!Service` and
`LauncherPreparation!Report`.

Conventions. A thread's place in a function is a variable ending in `Pc`; a
new place is introduced wherever another thread may act in between, and what
one thread does without touching shared data, or under a lock, is one step.
A time stamp is modelled by its age. Variables marked *history* are read by
properties only, and constants marked *bound* only limit the state space. An
operator commented *Fault* is a plausible mistake in the definition after it;
no specification uses it, and PROJECT.json says which property it would break.

### How state and actions correspond to the code

* **LauncherPreparation.** `preparationState`, `notified`, `published` are the
  atomic, the task notification and the characteristic. `callPc` walks through
  `launcher_prepare()` (two compare-and-swaps, close the latch, look at the end
  switch, publish, notify) and `launcher_launch()`; `taskPc` through
  `run_preparation()`, with each `set_state` split in its store and its
  publication. The carriage is a position `0 .. MaxPos`; the motor library is
  reduced to modes. Clients may drive the motor by hand at any moment; the
  history variable `driven` remembers that one did, and the properties about
  the motor are stated for histories in which nobody did.
* **Dispenser.** `isDispensing` is the atomic; `pc` walks through
  `dispenser_control()`, `timerPc` through the poll callback and
  `dispenser_finished()`. The time since the start has three ages. A forced stop takes
  effect a little later: the motor is then "halting", also after the cycle is over, and
  may be so when the next one begins. What clients read of the cycle is left out.
* **FogMachine.** `phase`, the two ages, `trigger` and `queue` are the file's
  variables; a pass of `fog_task` is a receive or a timeout, then a tick.
  Voltages are three ranges around the thresholds. `setup()` reads the state and the
  session flag and writes each a step later; `bootStale` remembers that the flag had
  changed by then.
* **FogControl.** `Step` is `controller_update()` with all of `handleFog()` but the
  pattern of L8, which follows from the state that is shown. The states in which the
  machine can do nothing are one. The link is reduced as in `RelayControl`, and sets up
  FOG_STATE before FOG_CONTROL; `HandleCommand` and `FogTick` are the fog task, with
  phases and ages reduced to the session, which may end at any tick. A start from
  READY that finds the machine gone (`fog_machine.cpp:97`) is merged with the tick of
  the same pass, so that a machine that has gone stays gone for that pass.
* **BoardValues.** `dinPc` walks through `input_task()`, with a step per input read;
  an edge is a notification once the interrupt of that input is attached, and `missed`
  remembers a change before that. The buffers of `push_initial_values()` are
  `setupBuf`, and `overtaken` says which values it wrote over newer ones. The clock of
  the sampling task counts samples and wraps, while `offFor` (history) counts the samples
  in a row after which clients are off, and does not; a sample, its comparison and its
  report are one step, because nobody else writes them. Duties are computed as in
  `percent_to_duty()`. `written` says that the bytes of an ignored client write stand in
  the characteristic.
* **SetupScreens.** `pc` walks through `app_update()`. The screens, the rows and what
  they do are those of `ui.cpp`; the focus, which LVGL keeps, is a variable, and rows
  are a set: how far the dial turns is open, so the order of the device rows
  matters only for the one that takes the focus, the found one of the lowest index in
  the table (`FirstFound`). The hits of a pass are merged one at a time. `push` stands for
  `push_down`, `push_swallow` and `long_fired`; the length of a press is open.
  `pending` is the recorded click, with what the click looked like (history). The
  scanner's table and the rows of a scan are dropped when the scan screen is left, because
  the next scan clears both before it looks at them. The phase of the scan is kept, as the
  code keeps `ScanCtx`: a "Scan again" carried out after back had its turn restarts the
  scan that was left, deletes its rows once more and puts its deleted list into the dial
  group (`Late`, `freed`). What the dial then reaches is open among no row and the fixed
  rows of a scan, and the unit may crash and start afresh (`Crash`). `clock` is the half
  of the period of the millisecond clock, which decides whether the first attempt of a
  scan is due (`Due`). The host task acts where
  the main loop looks at the scanner next, since its steps commute with all others;
  a hit that arrives while a pass empties the queue is one for the next pass.
  Not in the model: signal strengths, labels, and the reload of the link (`BleLink`).
* **SwitchboardOutputs.** `shadow` holds logical levels; `latch` and `driven`
  are the chip. `relays_all_off()` is one step per relay under the lock, and
  writing the chip is a step per transaction, which may fail before or after it
  took effect. Both characteristics are in it, with the raw bytes of a write until the
  callback publishes. `glitched` remembers that the chip lost its registers, `struck` that it
  lost them between the two transactions of a pass. The values `setup()` pushes are left
  out here.
* **LaunchInterlock.** One action is a pass of the main loop: `LogicStep` is
  the composition of `trackLauncher`, `handleLaunch` and `handlePrepare`, in the
  order of `step()`. The clock wraps at `Wrap`, so `elapsed()` wraps with it. `Launches`
  asks the next step what it would do with a press.
* **RelayControl.** `Settle`, `Confirm` and `Pursue` are the paths through
  `reconcileRelay()`. The link is reduced to what `BleLink` shows: values of the
  current connection or none, writes executed at most once. A session is set up in three
  steps: subscribe, read (the answer comes after the notifications sent before it), and
  store the answer, over whatever was notified in between; `overtaken` (history) remembers
  that something was, until the next notification puts it right. Bytes of a write the
  board refused stay in its characteristic and are too short to be taken for
  relay states, so the state is then unknown and nothing is sent.
* **ControlPanel.** `pc` walks through a pass of `app_update()`, with a place for
  every transaction of `configure()`; `ledPc` is the LED task before and within
  `writePortA()`. The chip is its latch, its direction and its pull-ups; it may
  have taken what a transaction wrote although the transaction failed. Time is
  counted in scans. Brightness is left out: the LEDs are dark or lit. `slip`
  remembers a loss of registers that no transaction has met.
* **BleLink.** `taskPc` walks through `service_link()`, `drain_commands()`,
  `drop_client()`, `attempt_connection()` and `setup_session()`; connections
  and versions are numbered so that a value or a write can be traced.

## 3. The runs

| Run | Shows | Bounds |
|---|---|---|
| `Launcher` | one owner per preparation and honest publication, a run works on a closed latch unless somebody opened it; as long as nobody drives the motor by hand, it runs only for the phase that started it, LED 1 means ready, every run ends | 2 callers, as in the firmware; 4 carriage positions: bottom, slow limit, top, end of travel |
| `Fog` | sessions and bursts are bounded; the failsafe stop is pending or was dropped; clients read whether a session is active; `FogSession` is implemented | cap 3 polls, bursts of 1 or 2, so that the cap falls within and between bursts; queue of 2, so that it fills up behind a command of another client; 2 clients |
| `FogSwitch` | switched on, a ready machine does not stay idle; switched off, sessions end for good; both unless an initial read overwrote a newer notification | both intervals 1, so that they are waited for and over; queues of 1, so that writes and commands are dropped; 2 notifications on their way |
| `Interlock` | launches follow the rule and are the lockout apart; for every time until the next step, a press that launches finds READY shown and READY launches, with the two exceptions the property names | clock of 8 with lockout 3 and steps of 0 to 2, so that it wraps within every history |
| `Link` | stored values are of the current connection, Connected means complete, every write is answered; `LinkService` is implemented: writes are executed in order, at most once, and in their own connection unless the configuration was reloaded | 1 required and 1 optional characteristic, 2 connections, queue of 2, because the order of writes matters, 3 writes over a ring of 2, 1 reload |
| `Outputs` | a steady relay is not toggled, the chip follows the shadow, no glitch when pins become outputs unless the registers are lost within that pass, loads go off without clients, a chip that lost its registers is configured again once nothing blinks | 1 relay, 1 active-low output, timer queue of 1, one glitch or restart |
| `Relay` | the relay converges to its switch and the LED to the relay, unless the initial read overwrote a newer notification | resend after 1, error after 2, queue of 2, 2 notifications on their way |
| `Dispenser` | a move is under way only within a cycle, the position is never reset during one, every cycle ends, the saved duration survives | 2 callers, durations 1 and 2 with requests from 0 to 3, queues of 2 and 1 |
| `Panel` | reported presses are real, the LEDs never flash, the LED cache is true, recovery restores LEDs and switches | 1 switch, because switches share nothing but the reading; debounce and retry of 2 scans, passes of 1 or 2, so that both are reached and overshot; 2 outages or restarts, so that one meets the recovery from the other |
| `Setup` | back leads home, the radio scans only for the screen that shows it, a release reaches the row that was pressed, what is saved changes only by the row that was meant, every scan ends, but for a first attempt that is never due | 2 devices, a launcher by its name and one that is now a launcher by its service and now in conflict; queue of 1, table of 2, one failed attempt before a scan gives up; nothing saved at first, so that the unit starts in the setup |
| `Values` | clients read what the inputs, the MOSFETs and an analog input are | 2 inputs, because they are read one by one; 1 MOSFET at 33 %, whose duty is not a whole number; 1 client, because only the last one that leaves matters; levels 0 to 2 with a threshold of 2; interval 2 on a clock of 3, so that it wraps at once and the interval begins anew before it is over |
| `Launcher_lost_start` | **violated**: an accepted start leads to a run | as `Launcher` |

The bounds suffice for what the code distinguishes: every limit is reached,
every queue fills up, every counter passes its threshold, and every action of
every module is taken. Two of a kind (callers, connections, clients) is where
interference starts; where a module has proofs (section 4) they cover every number.

`CHECK_DEADLOCK` is never switched off. `TypeOK` is in no run: in nine modules it is a
theorem, and it holds of the others on these instances.

### Fairness, and why the code justifies it

* FreeRTOS runs every ready task in the end: weak fairness of the steps of a
  task in the middle of its work. A client's or operator's action is never fair.
* `Launcher`: the step generator moves or stops the carriage by itself. Each
  wait in `run_preparation()` has a timeout, modelled as an alternative.
* `Fog`, `Values`: none, their properties are about safety.
* `FogSwitch`: main loop, fog task and time go on, notifications of a live connection
  arrive, and writes do not fail for ever (strong fairness of `Execute`). Nothing makes
  a session end but the stop, and both properties speak of a time in which the link
  holds, the switch stays and nobody else is connected.
* `Setup`: the main loop runs. A scan ends because its time is up, and an attempt that is
  due is made: both only need time to go on (strong fairness, since leaving the screen
  disables them). Whether the first attempt is ever due depends on the half of the clock's
  period: nothing is assumed of the clock, and `ScanSettles` names the scan whose first
  attempt is never due as its exception.
* `Outputs`: mcp_task has a timeout, and the host task finishes a callback. The bus does
  not fail for ever: strong fairness of the two successful transactions. Nothing is assumed
  of the timer task.
  `QuietHeals` is only claimed for a time in which nothing notifies mcp_task any more: a
  relay that blinks every 500 ms is always earlier than the timeout of 1000 ms.
* `Relay`: the main loop runs, time goes on, notifications of a live connection
  arrive, writes do not fail for ever (strong fairness).
* `Link`: the BLE task runs whenever it can; nothing is assumed of the device.
* `Panel`: main loop and LED task both run. Nothing is assumed of the chip or the
  bus: `RecoveryRestores` is claimed for a world that has come to rest.
* `Dispenser`: callers, timer task and time. The motor need not arrive: the
  limit of the poll timer is what ends the cycle.

## 4. What is proved

Nine modules are proved about, in eight modules of proofs. Each theorem holds for all
values of the constants that satisfy the module's named assumption
(`LauncherAssumption`, `OutputsAssumption`, `ValuesAssumption`, `InterlockAssumption`,
`PanelAssumption`, `FogAssumption`, `DispenserAssumption`, `SetupAssumption`,
`LinkAssumption`), and for any bound: the number of faults, clients, callers or
connections and the step of the clock are arbitrary. Nothing else is assumed. Each proof
has the usual shape: initial states, one step per action, temporal logic at the end. The
properties are the ones TLC checks in the runs, and a few that are only proved (`TypeCorrect`,
`OutputsTypeCorrect`, `StoryIsOne`, `NobodyNoPower`, `ReadyMeansConfigured`,
`EvidenceDiesWithConnection`, `BackFollowsItsSwitch`, `NoWriteIsLost`, `AnswersStand`;
`LosingTheLinkReplaysNothing`, which states what `ServiceIsKept` implies in terms of the
code's variables; and `ReportsFollowRuns`, whose `ReportsInOrder` TLC also confirmed on
the instance of `Launcher`).

`LauncherPreparation_proofs`, for every set of callers and every geometry:

| Theorem | Argument |
|---|---|
| `TypeCorrect` | `TypeOK` is inductive; the carriage stays within its travel because the motor steps stop at its ends |
| `OneOwner` | `SingleOwner` is inductive together with `TypeOK`. The last conjunct (a free state has no owner) is what makes a compare-and-swap safe; the owner then passes from caller to notification to task by steps of the owner only |
| `FreeStateIsPublished` | `FreeIsPublished` is not inductive: a refusing caller restores the state it remembers. `PublishInv` adds that what a caller remembers, and the free state, is the last published one, or the one the task is about to publish |
| `RunIsLatched` | `LatchInv`: between closing the latch and the run, the latch is open only if `opened` says so |
| `MotorIsOwned`, `LedIsHonest` | `MotorInv` says, as long as no client has driven the motor, for each place of the task which modes the motor may be in and where the carriage is |
| `ReportsFollowRuns` | each step is a step of `PreparationReport` or leaves its variables alone. `PhaseInv`, on top of `SingleOwner` and `PublishInv`: a run has reported the phase before the one it reports next, and who is about to report a new preparation finds a free state reported, or one still owed |

`Switchboard_proofs`, about `SwitchboardOutputs` for any number of relays, outputs and
clients and any length of the timer queue:

| Theorem | Argument |
|---|---|
| `OutputsTypeCorrect` | inductive; the all-off loops stay within the channels, a command joins the timer queue only if there is room |
| `SteadyStaysSteady` | inductive: whoever changes a state changes the shadow with it, and `blink_cb()` looks at the state again |
| `ChipFollowsShadow`, `NoGlitches` (excepted is the pass in which the chip loses its registers between the two transactions) | `ChipInv`: as long as no notification came since, the copy of a pass is the shadow; in the second transaction the latch is the copy. `Notifies` shows that whoever changes the shadow leaves a notification |

and about `BoardValues` for any number of inputs, MOSFETs and clients, every
resolution, threshold and interval, and every period of the clock above the interval:

| Theorem | Argument |
|---|---|
| `TypeCorrect` | inductive; a duty stays within its resolution because a percentage above the largest is refused |
| `LastChangeIsReported` | `InputInv`: an input that has been read has its level in the mask, or an edge is waiting, or one was missed |
| `DutiesAreReported` (excepted: a value that `setup()` wrote over a newer one, the bytes of an ignored write), `NobodyNoPower` | `MosfetInv`: duties are those of the values, a report under way carries them. The lemmas about integer division bound the rounding |
| `LevelsAreClose` | `AnalogInv`: while clients are off, no more samples went by than the age says, and the age is below the interval. So the clock cannot come round in the middle of a wait: it does so only while clients are not off, and the interval that then begins anew is the longest wait there is |

`LaunchInterlock_proofs`, for every width of the clock, every lockout
shorter than its period, every timeout and every step of time. The three handlers
are functions, so there is one lemma per handler, and `StepEffect` says what
their composition does to the fields that matter:

| Theorem | Argument |
|---|---|
| `TypeCorrect` | ages are remainders; every handler maps an object to an object |
| `EvidenceDiesWithConnection`, `ReadyTellsTheTruth` | `SeenInv`: what the object remembers fits what its last step saw of the launcher. What the next step makes of a press then depends only on the age of the last launch, which is at the lockout or beyond when it says ready and stays so until the clock comes round |
| `ImplementsRule` | each step of the code is a step of `OneShotLaunch` or leaves its variables alone, under the mapping of `Rule` |
| `LockoutHolds` | `LockoutInv`: until the lockout is over, the age of the last launch is the real time since. The lockout is shorter than the period of the clock, so the age has not wrapped by then; afterwards it may say anything, which can only refuse |

`ControlPanel_proofs`, for any set of switches, any debounce and retry times
(a debounce above zero, which the back button needs) and any number of outages:

| Theorem | Argument |
|---|---|
| `PanelTypes` | inductive; debouncers hold levels that were read |
| `LedsNeverFlash`, `ReadyMeansConfigured` | `ChipInv`: ready is withdrawn before the chip is configured again, also by a transaction that fails after it took effect, and from the preset on its latches are not those of a power-up, unless `slip` says that they were lost on the way |
| `LedCacheIsTrue` | `CacheInv`: generations only grow, and one that the LED task has not seen makes it forget what it wrote |
| `ReportedPressesAreReal` | `EventInv`: events live from a scan to the end of the event loops of the same pass. `PressInv`: a switch that was reported closed and was never open since is held for closed |
| `BackFollowsItsSwitch` | `BackInv`: the button holds the debounced level of its switch, except between a scan and the button's turn, where an event of the switch is exactly the difference between the two |

`FogMachine_proofs`, for every cap, also none, every range of burst lengths, every
length of the queue and any number of clients:

| Theorem | Argument |
|---|---|
| `TypeCorrect`, `StoryIsOne` | inductive together: pin, session flag and published state are functions of the phase, and the lemmas about the tick say which phase follows which |
| `CapHolds` | `SessionInv`: at most one poll interval passes between two ticks, and a tick leaves a session or a burst only if its time is not yet up, so before the next interval the ages are strictly below their bounds |
| `StopIsPending` | inductive, once it is known that a write callback belongs to a client that is still connected (`FailsafeInv`): without clients only the task touches the queue, and it takes the front |
| `SessionIsReported` | `ControlInv`: every handled command is answered, and a written one is on its way to be handled or dropped with an answer of its own |
| `PromiseIsKept` | under `OneStory`, each step of the task is a step of `FogSession` or leaves its variables alone |

`Dispenser_proofs`, for any set of callers and any length of the two queues:

| Theorem | Argument |
|---|---|
| `TypeCorrect` | inductive |
| `MotorStandsStill`, `ResetIsSafe` | `CycleInv`, as long as no timer command is lost: one caller at a time starts a cycle. Between cycles the poll timer is settled (it stands still, or its stop is on the way); within one it runs, or its start is on the way, perhaps behind the stop of the last one. These are all the shapes the timer queue can have, and in each the cycle ends only after the motor was seen at rest or was told to stop at once |
| `DurationOutlivesRestarts` | `DurationInv`: what was set last is saved, or is the last entry of the write queue |

`BleLink_proofs`, for any characteristics, required or not, any length of the write
queue and of the ring, and any number of connections, writes and reloads:

| Theorem | Argument |
|---|---|
| `TypeCorrect` | inductive |
| `RequiredIsFromThisConnection` | `CurrentInv`: notifications on their way belong to the current connection, a lost one leaves none; an answer about to be stored is of it too; within a set-up the required characteristics before `char` are valid and of it. `TaskInv` says in which places of the task a session may be up |
| `LosingTheLinkReplaysNothing` | `QueueInv`, without a reload: during a session the queue holds writes of this connection only; without one it is empty from the drain of a pass until the next session is up, and nobody is about to add to it, because `ble_link_write()` sees no Connected and does not stretch over a pass |
| `NoWriteIsLost` | `PendingIsQueued`: a write whose caller still waits for an answer is in the queue. `OrderInv`: the numbers in the queue increase and lie below the next one, so the head is the only entry of its number |
| `AnswersStand` | an answer may be forgotten when its slot of the ring is reused, and never changes into another |
| `ServiceIsKept` | each step is a step of `LinkService` or leaves its variables alone. `CallerInv`: a session is up only while callers read Connected, and no call of `ble_link_write()` stretches over the making of a connection; so an accepted write has the number of its caller's connection. By `QueueInv` and `OrderInv` the head of the queue is the oldest write and the only one of its number, so taking it is `Answer` |

`SetupScreens_proofs`, for any number of devices, whatever they advertise, any
length of queue and table and any number of attempts:

| Theorem | Argument |
|---|---|
| `TypeCorrect` | inductive together with the two below: that the stack never exceeds its length is `NavInv`, that the table stays within its limit is seen at each merge |
| `BackLeadsHome` | `NavInv` ranks the screens: each one on the stack is nearer to home than the one above it, so at most three lie below any. `FitsInv` keeps it so although clicks are carried out late: what the focused row and the recorded click open is farther from home than the current screen, because only the back button can come in between, and that leads nearer; what dead rows look like opens nothing |
| `ScanStaysForeground` | `RadioInv`, inductive with the above: leaving the screen stops the scan, and only that screen starts one; a late "Scan again" touches rows, not the radio. A crash starts afresh (`CrashIsFresh`), where each of these invariants holds as at first |
| `ClicksAreMeant` | `GripInv`: while LVGL holds the button for pressed, the pressed row has the focus, or the back button was used, or the dial was not touched on the scan screen. "Scan again" is the delicate row: it is shown for a moment after it was clicked, and `GripInv` says that nothing is pressed by then. `FreedInv`: dead rows are in the dial group of other screens only, so that they give the focus to no device and to no "yes" |
| `RecordsChangeOnPurpose` | `KindInv`: list, scan and confirmation are for the same kind of device. `FoundInv`: as long as the scan screen is shown, each found row, also one in focus or recorded, names an entry of the table with its address; merging a hit keeps the addresses (`MergeKeepsAddresses`), and the focus goes to a row of the list (`FirstFoundIsFound`, which needs that a set of indices has a least one). `YesInv`: a press that reaches "yes" began on the confirmation, after the dial was turned |

Only model-checked: liveness (`RunEnds`, `CycleEnds`, `LoadsGoOff`, `QuietHeals`,
`SwitchIsTruth`, `WritesAreAnswered`, `RecoveryRestores`, `ReadyIsUsed`, `SwitchOffStops`,
`ScanSettles`), because the prover has no rule for fairness. `RelayControl` and
`FogControl` have nothing but liveness to show, and no proofs.

## 5. Findings

One has a run with a counterexample, and PROJECT.json quotes what the
repository says instead:

* `Launcher_lost_start`: a prepare that arrives between the final store of a
  run and the drop of leftover notifications is claimed but never run; the
  launcher stays in MOVE_DOWN until it is restarted (`launcher.cpp:124`).

Met while modelling, described here and given no run (the properties name them
as exceptions, or speak of the case without them):

* The failsafe stop is dropped when four commands are queued (`fog_machine.cpp:194`).
* A write queued while a reload drops the client is executed over the next
  connection (`ble_link.cpp:283`).
* A blinking relay suppresses the periodic configuration of the expander
  (`schakelbord/.../mcp23017.cpp:46`).
* The end of a run may be reported after the beginning of the next: a prepare that comes
  between the final store of a run and its publication (`launcher.cpp:28`) publishes
  MOVE_DOWN first, and the task then the IDLE or ERROR of the run before. If the
  notification is given after the drop of line 124, the new run goes on while clients read
  that IDLE until MOVE_UP_SLOW, and the control unit, if it read MOVE_DOWN before, takes it
  for the end of a complete preparation (`control_logic.cpp:98`). `PreparationReport` allows it (`Begin` while the end of a run is owed).
* A state may be published late: after the final store of a run, clients read
  the old state until the task publishes (`launcher.cpp:28`); the push of initial
  values in the switchboard's `setup()` can overwrite newer ones
  (`main.cpp:52`, `55`, `56` and `58`).
* An input that changes between the first reading of the mask and the attachment of its
  interrupt is missed until its next edge (`digital_inputs.cpp:45-51`).
* The bytes of an ignored MOSFET write stay in the characteristic
  (`ble_manager.cpp:68`).
* Screens, push held on a row of a list while the back button leads home: the long press
  opens the setup although the button was pressed elsewhere, and LVGL then sees
  a release on the setup's first row. The comment at `ui.cpp:643-651` keeps the press
  that opened the setup from LVGL, but LVGL holds it for pressed already.
* Screens, push held and back: the release lands on the first row of the
  screen below. A device found while the push is held and the dial was not touched takes the
  focus, and the release picks and saves it. A click that was recorded is carried out on
  the screen that is shown after a back in the same pass.
* A hit merged after `ui_update()` saw the scan finished is never shown, and an entry
  that changes its kind after its turn gets no row (`ui.cpp:521`).
* The link task looks for a scan and connects a moment later; a scan started in
  between may be cancelled (`ble_link.cpp:300`).
* The time of the first attempt is 0 and compared as a signed difference: for 24.8 days of
  every 49.7 it is not due, and the time to give up is not looked at, so that a scan neither
  starts nor fails (`ui.cpp:371`, `556` and `566`). It is the exception of `ScanSettles`, and TLC finds the
  violation without it.
* "Scan again" clicked, and back in the same pass: `run_action()` does not look at the current
  screen (`ui.cpp:635`, as it does for a pick at line 638), so `scan_restart()` deletes the
  rows of the screen that was just deleted and gives the dial group its deleted list
  (`ui.cpp:549-558`): use after free, after which the dial and the push button of the device's screen
  act on dead rows until the next screen, or the unit crashes. `SetupScreens` has both; what is
  saved, the radio, the stack and the row a release reaches stay right as long as it runs.
* The stack of screens forgets the current one when it is full (`ui.cpp:472`); the
  theorem `BackLeadsHome` shows that it never is.
* The auto-lock timer of an earlier launch may close the latch right after a
  new launch opened it (`launcher.cpp:164`).
* A notification stored between the answer to an initial read and its store is
  overwritten by the older value (`ble_link.cpp:188-196`), although values are subscribed to
  first "so no update can fall in the gap" (line 137). Until the next notification, the control
  unit then holds a relay for switched that is not, a start for made that was not, or a session for
  ended that goes on. `SwitchIsTruth`, `ReadyIsUsed` and `SwitchOffStops` name it as their
  exception (`overtaken`); without it TLC finds each of them violated.
* After a forced stop of the dispenser the motor runs on for a moment while the cycle is
  already over, and a start right then resets the position and moves (`dispenser.cpp:64-69` and `159-165`),
  although the comment says "motor is stopped here, so this is safe". `MotorOnlyInCycle` and
  `PositionResetIsSafe` name a motor that is still halting as their exception.
* READY may be shown for a press that is refused: when the clock comes round to the time of
  the last launch before the next pass, the lockout begins once more. It is the exception of
  `ReadyIsHonest`.
* A prepare sent while the launcher is in ERROR and stays there is not reported
  as refused (`control_logic.cpp:101`).
* The lockout flag `launched_` is never cleared, so after a wrap of the clock a
  launch may be refused although the last one is weeks ago.
* A motor write that stops the carriage lets the run end in IDLE away from the
  top (`launcher.cpp:109`).
* The dispenser's LED and notification of a finished cycle may follow the start
  of the next one (`dispenser.cpp:41`), a stop between claim and move is lost
  (`dispenser.cpp:186`), and the control characteristic shows every command
  written to it, also one that was ignored (`ble_manager.cpp:136`).
* A relay that should blink stays on when the command that starts its timer finds
  the timer queue full (`relays.cpp:55`).
* A chip on the panel that loses its registers and answers again between two
  scans meets no failing transaction and is not configured again
  (`bediening/source/src/mcp23017.cpp:118`).
* The debouncer counts the time in which no reading was possible: one reading
  before an outage and one after it are enough for a level that `debounce.h:4`
  calls "continuously observed".
* Bytes of a refused relay write stay readable; a client that connects then does
  not know the states and the control unit neither confirms nor corrects
  until some relay changes.

## 6. Not modelled

Output drivers (servo, LEDs, step generator), layout and live texts of the
screens, the display driver, logging, hardware designs. The two links of the control unit
share one task and one queue; one is modelled. The encoding of records and addresses and
quadrature decoding are conversions without shared state. Fonts are data. RSSI
and names are data. `ENDURANCE_TEST` code is off in the build. The button's
debouncing is reduced to alternating presses and releases. The launcher's
`ble_manager.cpp` only decodes characteristic writes into callbacks that are modelled.

## 7. Plan

Modelled first, because a mistake there moves hardware: preparation, launching,
fog, loads, dispenser; then the connection they are controlled over, the switches
that follow it, and the screens that configure it. Left, in this order:

1. `ReleaseLatch`: the auto-lock timer and its command queue against a second
   launch (`launcher.cpp:147-173`), joined to the `Dispenser` module's model of
   the timer task.
2. `CommandRoute`: `controller.cpp` over the ring of results of `BleLink`
   (reused slots), and, composed with `OneShotLaunch` and an abstract launcher,
   the chain from the button to the latch.
3. `DeviceRecords` and `QuadratureDecoder`: validation of saved records and the decoder as
   functions, against reference definitions over bounded inputs.
4. Proofs: types of `RelayControl` and `FogControl`, and that their reduced
   connection and board are what `BleLink` and the board modules allow.

Abstract specifications worth stating next: a mutual-exclusion lock that
`LauncherPreparation` and `Dispenser` both implement; the reduced connections of
`RelayControl` and `FogControl` as instances of `LinkService`; and `OneShotLaunch`
composed with `PreparationReport`, to show what the control unit may conclude from an
IDLE that belongs to the run before.
