---------------------------- MODULE SetupScreens ----------------------------
(***************************************************************************)
(* The screens of the control unit and the scan behind them: ui.cpp,       *)
(* ble_scanner.cpp, ble_identity.h and device_store.cpp of bediening, in   *)
(* the order of app_update().                                              *)
(*                                                                         *)
(* A pass polls the scanner, handles the back button, the dial and the     *)
(* push button, and then runs ui_update() and LVGL. A click only records   *)
(* what it asks for; the next ui_update() does it, on the screen that is   *)
(* shown by then. The NimBLE host task pushes advertisements into a queue, *)
(* and ends the scan, between any two of these steps. How long the push    *)
(* button is held is left open: any hold may be a long press.              *)
(***************************************************************************)
EXTENDS Naturals, Sequences, SequencesExt

CONSTANTS
  Devices,   \* addresses
  Adverts,   \* what devices may advertise: records [addr, name, launcher, switchboard]
  Saved,     \* what may be saved when the unit starts
  None,      \* no device is stored, no row has the focus
  QueueMax,  \* hits the queue holds
  TableMax,  \* SCAN_MAX_ENTRIES
  GiveUp     \* failed attempts to start a scan before it counts as failed

Kinds == {"launcher", "switchboard"}
Names == Kinds \cup {"other"}
NavMax == 6

ASSUME SetupAssumption ==
  /\ None \notin Devices
  /\ Adverts \subseteq [addr : Devices, name : Names, launcher : BOOLEAN, switchboard : BOOLEAN]
  /\ Saved \subseteq [Kinds -> Devices \cup {None}]
  /\ QueueMax \in Nat /\ TableMax \in Nat /\ GiveUp \in Nat

VARIABLES
  pc,            \* how far app_update() is: poll, back, dial, action, hold, live, lvgl
  cur,           \* cur_id and cur_kind
  nav,           \* the screens below the current one
  pending,       \* pending_action, with what the click looked like
  push,          \* up, down, or fired: held down since it opened the setup (push_swallow, long_fired)
  turned,        \* pending_diff # 0
  lvPressed,     \* the state LVGL read last
  focus,         \* the row with the focus
  freed,         \* the dial group holds what is left of the rows of a scan screen that was deleted
  scan,          \* ScanCtx; off its screen, only the phase is read
  clock,         \* the half of its period millis() is in
  radio,         \* NimBLE is scanning
  hits,          \* hit_queue
  table,         \* the scanner's results: records [addr, kind, conflict]
  stored,        \* the saved device of each kind
  grip,          \* history: is the row LVGL saw pressed the focused one, was userMoved set then
  dialled,       \* history: the dial has moved the focus on this screen
  backed         \* history: the back button was pressed while LVGL held the push button for pressed

vars == <<pc, cur, nav, pending, push, turned, lvPressed, focus, freed, scan, clock, radio, hits, table,
          stored, grip, dialled, backed>>

Home == [id |-> "Home", kind |-> "unknown"]
Row(a) == [act |-> a, idx |-> 0, addr |-> None]
Found(i) == [idx |-> i, addr |-> table[i].addr]
DeviceRow(f) == [act |-> "PICK", idx |-> f.idx, addr |-> f.addr]
NoRow == Row("NONE")
NoGrip == [firm |-> FALSE, moved |-> FALSE]
NoClick == [row |-> NoRow, on |-> Home, grip |-> NoGrip, dialled |-> FALSE, backed |-> FALSE]

----------------------------------------------------------------------------
(* Identities and the result table                                         *)

\* ble_identity.h: a service UUID is preferred, and a device whose name disagrees is in conflict.
Classify(h) ==
  LET byUuid == IF h.launcher THEN "launcher" ELSE IF h.switchboard THEN "switchboard" ELSE "unknown"
      byName == IF h.name \in Kinds THEN h.name ELSE "unknown"
      conflict == \/ h.launcher /\ h.switchboard
                  \/ byUuid # "unknown" /\ byName \notin {"unknown", byUuid}
  IN  [kind |-> IF conflict THEN "unknown" ELSE IF byUuid # "unknown" THEN byUuid ELSE byName,
       conflict |-> conflict]

\* A known address is classified again; a new one takes a slot, as long as there are any.
MergeHit(t, h) ==
  LET id == Classify(h)
      entry == [addr |-> h.addr, kind |-> id.kind, conflict |-> id.conflict]
      old == {i \in DOMAIN t : t[i].addr = h.addr}
  IN  IF id.kind = "unknown" /\ ~id.conflict THEN t
      ELSE IF old # {} THEN [i \in DOMAIN t |-> IF i \in old THEN entry ELSE t[i]]
      ELSE IF Len(t) >= TableMax THEN t
      ELSE Append(t, entry)

----------------------------------------------------------------------------
(* Navigation                                                              *)

\* Fault: the confirmation offers "Yes" first.
FirstRowYes(id) == IF id = "Confirm" THEN Row("YES") ELSE IF id = "Home" THEN NoRow ELSE Row("BACK")
FirstRow(id) ==
  CASE id = "Home" -> NoRow
    [] id = "Setup" -> Row("SETUP_LAUNCHER")
    [] id = "Device" -> Row("SCAN")
    [] id = "Actions" -> Row("PREPARE")
    [] OTHER -> Row("BACK")   \* the safe choice of Confirm, and all there is on Scan at first

NewScan(kind) == [kind |-> kind, phase |-> "Starting", waited |-> 0, seen |-> 0, rows |-> {},
                  moved |-> FALSE, again |-> FALSE]

\* The rows the dial can reach; which of them it reaches is left open. Freed memory may look like no
\* row, or still like the fixed ones of the scan.
GroupRows ==
  IF freed THEN {NoRow, Row("AGAIN"), Row("BACK")} ELSE
  CASE cur.id = "Home" -> {}
    [] cur.id = "Setup" -> {Row("SETUP_LAUNCHER"), Row("SETUP_SWITCHBOARD"), Row("BACK")}
    [] cur.id = "Device" ->
         {Row("SCAN"), Row("BACK")}
         \cup (IF cur.kind \in Kinds /\ stored[cur.kind] # None THEN {Row("FORGET")} ELSE {})
    [] cur.id = "Confirm" -> {Row("BACK"), Row("YES")}
    [] cur.id = "Actions" -> {Row("PREPARE"), Row("BACK")}
    [] OTHER -> {DeviceRow(f) : f \in scan.rows}
                \cup (IF scan.again THEN {Row("AGAIN")} ELSE {}) \cup {Row("BACK")}

\* build_scan() starts a context of its own; another screen leaves the old one as it was.
ScanOf(s) == IF s.id = "Scan" THEN NewScan(s.kind) ELSE [NewScan("unknown") EXCEPT !.phase = scan.phase]

\* Fault: the scan goes on when its screen is left.
EnterScanning(s) ==
  /\ cur' = s /\ radio' = radio
  /\ scan' = ScanOf(s)
  /\ focus' = FirstRow(s.id) /\ freed' = FALSE /\ grip' = NoGrip /\ dialled' = FALSE

\* The old rows go with their screen; leaving the scan stops it.
Enter(s) ==
  /\ cur' = s
  /\ radio' = (radio /\ ~(cur.id = "Scan" /\ s.id # "Scan"))
  /\ scan' = ScanOf(s)
  /\ focus' = FirstRow(s.id) /\ freed' = FALSE
  /\ grip' = NoGrip
  /\ dialled' = FALSE

\* A full stack forgets the screen it came from.
Go(id, kind) ==
  /\ nav' = IF Len(nav) < NavMax THEN Append(nav, cur) ELSE nav
  /\ Enter([id |-> id, kind |-> kind])

StayHere == UNCHANGED <<cur, nav, radio, scan, focus, freed, grip, dialled>>

\* Fault: the screen stays on the stack.
GoBackKeeps == IF nav = <<>> THEN StayHere ELSE nav' = nav /\ Enter(Last(nav))
GoBack ==
  IF nav = <<>> THEN StayHere ELSE nav' = Front(nav) /\ Enter(Last(nav))

----------------------------------------------------------------------------
(* A pass of the main loop                                                 *)

\* ui_init(): with a device missing the unit starts in the setup.
FirstScreen(saved) ==
  IF \E k \in Kinds : saved[k] = None THEN [id |-> "Setup", kind |-> "unknown"] ELSE Home
FirstStack(saved) == IF FirstScreen(saved) = Home THEN <<>> ELSE <<Home>>

Fresh ==
  /\ cur = FirstScreen(stored) /\ nav = FirstStack(stored)
  /\ pc = "poll" /\ pending = NoClick
  /\ push = "up" /\ turned = FALSE /\ lvPressed = FALSE
  /\ focus = FirstRow(cur.id) /\ freed = FALSE
  /\ scan = NewScan("unknown") /\ clock = "low" /\ radio = FALSE /\ hits = <<>> /\ table = <<>>
  /\ grip = NoGrip /\ dialled = FALSE /\ backed = FALSE

Init == stored \in Saved /\ Fresh

\* ble_scanner_update(): the loop takes one hit at a time, under the lock, and merges it without.
\* The results of a scan that was left are dead: the next one clears them.
PollHit ==
  /\ hits # <<>> /\ hits' = Tail(hits) /\ pc' = pc
  /\ table' = IF cur.id = "Scan" THEN MergeHit(table, Head(hits)) ELSE <<>>

PollDone ==
  /\ hits = <<>> /\ hits' = hits /\ pc' = "back"
  /\ table' = IF cur.id = "Scan" THEN table ELSE <<>>

Poll ==
  /\ pc = "poll" /\ (PollHit \/ PollDone)
  /\ UNCHANGED <<cur, nav, pending, push, turned, lvPressed, focus, freed, scan, clock, radio, stored, grip,
                 dialled, backed>>

\* ui_on_back()
Back ==
  /\ pc = "back" /\ pc' = "dial"
  /\ \/ StayHere /\ backed' = backed
     \/ cur.id # "Home" /\ GoBack /\ backed' = lvPressed
  /\ UNCHANGED <<pending, push, turned, lvPressed, clock, hits, table, stored>>

\* ui_on_encoder()
Dial ==
  /\ pc = "dial" /\ pc' = "push"
  /\ \E delta \in BOOLEAN :
       /\ turned' = (turned \/ delta)
       /\ scan' = IF delta /\ cur.id = "Scan" THEN [scan EXCEPT !.moved = TRUE] ELSE scan
  /\ UNCHANGED <<cur, nav, pending, push, lvPressed, focus, freed, clock, radio, hits, table, stored, grip,
                 dialled, backed>>

PushDown == push = "up" /\ push' = "down" /\ StayHere

\* A short press on the home screen opens the actions; any press may have been a short or a long one.
PushUp ==
  /\ push # "up" /\ push' = "up"
  /\ \/ cur.id = "Home" /\ push = "down" /\ Go("Actions", "unknown")
     \/ StayHere

\* ui_on_push()
Push ==
  /\ pc = "push" /\ pc' = "action"
  /\ PushDown \/ PushUp \/ (StayHere /\ push' = push)
  /\ UNCHANGED <<pending, turned, lvPressed, clock, hits, table, stored, backed>>

----------------------------------------------------------------------------
(* ui_update()                                                             *)

\* device_store.cpp: an open or a write that fails leaves what is stored; a record has its kind's key.
Save(kind, addr) == stored' = [stored EXCEPT ![kind] = addr]
Erase(kind) == \/ kind \in Kinds /\ stored' = [stored EXCEPT ![kind] = None]
               \/ stored' = stored

\* scan_pick(): ble_link_reload() is BleLink's.
Pick(row) ==
  LET found == row.idx <= Len(table) /\ table[row.idx].kind = scan.kind
  IN  IF cur.id = "Scan" /\ found /\ scan.kind \in Kinds
      THEN \/ Save(scan.kind, table[row.idx].addr) /\ GoBack
           \/ stored' = stored /\ StayHere
      ELSE stored' = stored /\ StayHere

\* The erased record is the one of the screen that is shown by now.
Forget == Erase(cur.kind) /\ GoBack

\* "Scan again" may be carried out after the back button has deleted the scan screen. Its rows are
\* deleted once more, and its list is put into the dial group.
Late == cur.id # "Scan" /\ scan.phase \in {"Done", "Failed"}

\* scan_restart()
ScanAgain ==
  IF scan.phase \in {"Starting", "Scanning"} THEN StayHere
  ELSE /\ scan' = [NewScan(scan.kind) EXCEPT !.again = scan.again]
       /\ freed' = Late
       /\ IF Late THEN focus' \in {NoRow, Row("AGAIN"), Row("BACK")}
                  ELSE focus' = IF scan.again THEN Row("AGAIN") ELSE Row("BACK")
       /\ UNCHANGED <<cur, nav, radio, grip, dialled>>

\* run_action()
RunAction(row) ==
  CASE row.act = "SETUP_LAUNCHER" -> Go("Device", "launcher") /\ stored' = stored
    [] row.act = "SETUP_SWITCHBOARD" -> Go("Device", "switchboard") /\ stored' = stored
    [] row.act = "BACK" -> GoBack /\ stored' = stored
    [] row.act = "SCAN" -> Go("Scan", cur.kind) /\ stored' = stored
    [] row.act = "FORGET" -> Go("Confirm", cur.kind) /\ stored' = stored
    [] row.act = "YES" -> Forget
    [] row.act = "AGAIN" -> ScanAgain /\ stored' = stored
    [] row.act = "PICK" -> Pick(row)
    [] OTHER -> StayHere /\ stored' = stored   \* PREPARE is the controller's

Action ==
  /\ pc = "action" /\ pc' = "hold"
  /\ RunAction(pending.row)
  /\ pending' = NoClick
  /\ UNCHANGED <<push, turned, lvPressed, clock, hits, table, backed>>

\* What is done to freed rows, now or later, may also end the program: the unit starts afresh.
Crash ==
  /\ pc = "action" /\ (freed \/ (pending.row.act = "AGAIN" /\ Late))
  /\ UNCHANGED stored
  /\ cur' = FirstScreen(stored) /\ nav' = FirstStack(stored)
  /\ pc' = "poll" /\ pending' = NoClick
  /\ push' = "up" /\ turned' = FALSE /\ lvPressed' = FALSE
  /\ focus' = FirstRow(cur'.id) /\ freed' = FALSE
  /\ scan' = NewScan("unknown") /\ clock' = "low" /\ radio' = FALSE /\ hits' = <<>> /\ table' = <<>>
  /\ grip' = NoGrip /\ dialled' = FALSE /\ backed' = FALSE

\* A long press on the home screen opens the setup.
Hold ==
  /\ pc = "hold" /\ pc' = "live"
  /\ \/ cur.id = "Home" /\ push = "down" /\ push' = "fired" /\ Go("Setup", "unknown")
     \/ push' = push /\ StayHere
  /\ UNCHANGED <<pending, turned, lvPressed, clock, hits, table, stored, backed>>

\* scan_sync_rows(): the rows stand in the order of the table.
NewRows(s) ==
  {Found(i) : i \in {j \in 1..Len(table) : j > s.seen /\ table[j].kind = s.kind /\ ~table[j].conflict}}
SyncRows(s) == [s EXCEPT !.rows = @ \cup NewRows(s), !.seen = Len(table)]
FirstFound(rows) == DeviceRow(CHOOSE f \in rows : \A g \in rows : f.idx <= g.idx)

\* scan_update_again_visibility(), after scan_sync_rows(): which row has the focus. A device that is
\* found gives it to the first one, unless the dial has been moved.
Refocus(s) ==
  LET offers == s.phase \in {"Done", "Failed"}
      synced == IF s.rows # scan.rows /\ ~s.moved THEN FirstFound(s.rows) ELSE focus
  IN  /\ scan' = [s EXCEPT !.again = offers]
      /\ focus' = IF offers = scan.again THEN synced
                  ELSE IF offers /\ s.rows = {} /\ ~s.moved THEN Row("AGAIN")
                  ELSE IF synced # Row("AGAIN") THEN synced
                  ELSE IF s.rows # {} THEN FirstFound(s.rows) ELSE Row("BACK")
      /\ grip' = [grip EXCEPT !.firm = @ /\ focus' = focus]

\* ble_scanner_start(): the stack may refuse, while a connection attempt is in progress for one.
StartScan ==
  IF radio THEN UNCHANGED <<radio, hits, table>>
  ELSE radio' \in BOOLEAN /\ hits' = <<>> /\ table' = <<>>

\* Fault: the number of attempts has no limit.
AttemptForever ==
  /\ StartScan
  /\ Refocus(IF ~radio /\ radio' THEN [scan EXCEPT !.phase = "Scanning", !.seen = 0] ELSE scan)

\* After ten seconds the scan has failed; a late first attempt may also be the last.
Attempt ==
  /\ StartScan
  /\ \E over \in BOOLEAN :
       /\ scan.waited = GiveUp => over
       /\ Refocus(IF ~radio /\ radio' THEN [scan EXCEPT !.phase = "Scanning", !.seen = 0]
                  ELSE IF over THEN [scan EXCEPT !.phase = "Failed"]
                  ELSE [scan EXCEPT !.waited = @ + 1])

\* nextTryMs is 0 at first, and the difference to it is signed: in the upper half of the period of
\* the clock the first attempt is not due. The next ones are, half a second later.
Due == clock = "low" \/ scan.waited > 0

Starting ==
  \/ Due /\ Attempt
  \/ (clock = "high" \/ scan.waited > 0) /\ Refocus(scan) /\ UNCHANGED <<radio, hits, table>>

Scanning ==
  /\ Refocus([SyncRows(scan) EXCEPT !.phase = IF radio THEN "Scanning" ELSE "Done"])
  /\ UNCHANGED <<radio, hits, table>>

\* scan_update()
Live ==
  /\ pc = "live" /\ pc' = "lvgl"
  /\ \/ cur.id = "Scan" /\ scan.phase = "Starting" /\ Starting
     \/ cur.id = "Scan" /\ scan.phase = "Scanning" /\ Scanning
     \/ (cur.id = "Scan" => scan.phase \in {"Done", "Failed"}) /\ UNCHANGED <<scan, focus, grip, radio, hits, table>>
  /\ UNCHANGED <<cur, nav, pending, push, turned, lvPressed, freed, clock, stored, dialled, backed>>

----------------------------------------------------------------------------
(* display_update(): LVGL reads the encoder                                *)

\* encoder_read(): the home screen and the press that opened the setup are kept from LVGL.
\* Fault: the press that opened the setup reaches LVGL.
ForwardFired == push # "up" /\ cur.id # "Home"
Forward == push = "down" /\ cur.id # "Home"

\* A release goes to the row that has the focus by then.
Click == IF lvPressed /\ ~Forward /\ cur.id # "Home"
         THEN [row |-> focus, on |-> cur, grip |-> grip, dialled |-> dialled, backed |-> backed]
         ELSE pending

Read ==
  /\ lvPressed' = Forward
  /\ turned' = FALSE
  /\ pending' = Click
  /\ grip' = IF ~Forward THEN NoGrip
             ELSE IF ~lvPressed THEN [firm |-> TRUE, moved |-> scan.moved] ELSE grip
  /\ backed' = (backed /\ lvPressed /\ Forward)
  /\ IF turned /\ ~Forward /\ cur.id # "Home"
       THEN focus' \in GroupRows /\ dialled' = (cur.id = "Confirm")
       ELSE UNCHANGED <<focus, dialled>>

\* LVGL reads at its own pace.
Lvgl ==
  /\ pc = "lvgl" /\ pc' = "poll"
  /\ Read \/ UNCHANGED <<lvPressed, turned, pending, grip, focus, dialled, backed>>
  /\ UNCHANGED <<cur, nav, push, freed, scan, clock, radio, hits, table, stored>>

----------------------------------------------------------------------------
(* The NimBLE host task                                                    *)

\* scan_update() looks whether the radio scans. What the host does between two such looks can as well
\* be done right before the later one; a hit that comes after the loop took the others, or while it
\* does, is one for the next pass.
HostRuns == radio /\ pc = "live"

\* onResult(): a hit that finds the queue full is dropped.
Advertise ==
  /\ HostRuns
  /\ \E h \in Adverts : hits' = IF Len(hits) < QueueMax THEN Append(hits, h) ELSE hits
  /\ UNCHANGED <<pc, cur, nav, pending, push, turned, lvPressed, focus, freed, scan, clock, radio,
                 table, stored, grip, dialled, backed>>

\* The time is up, or the link task, which saw no scan a moment ago, now connects.
ScanEnds ==
  /\ HostRuns /\ radio' = FALSE
  /\ UNCHANGED <<pc, cur, nav, pending, push, turned, lvPressed, focus, freed, scan, clock, hits,
                 table, stored, grip, dialled, backed>>

\* Nothing but the first attempt looks at the clock: what it did before can as well be done right
\* before that.
ClockTurns ==
  /\ pc = "live" /\ cur.id = "Scan" /\ scan.phase = "Starting" /\ scan.waited = 0
  /\ clock' = IF clock = "low" THEN "high" ELSE "low"
  /\ UNCHANGED <<pc, cur, nav, pending, push, turned, lvPressed, focus, freed, scan, radio, hits,
                 table, stored, grip, dialled, backed>>

MainLoop == Poll \/ Back \/ Dial \/ Push \/ Action \/ Crash \/ Hold \/ Live \/ Lvgl
Next == MainLoop \/ Advertise \/ ScanEnds \/ ClockTurns
Fairness ==
  /\ WF_vars(MainLoop) /\ SF_vars(ScanEnds)
  /\ SF_vars(Live /\ scan.phase = "Starting" /\ Due /\ Attempt)
Spec == Init /\ [][Next]_vars /\ Fairness
-----------------------------------------------------------------------------
(* Properties                                                              *)

Ids == {"Home", "Setup", "Actions", "Device", "Scan", "Confirm"}
Screens == [id : Ids, kind : Kinds \cup {"unknown"}]
Rows == [act : {"NONE", "BACK", "YES", "SETUP_LAUNCHER", "SETUP_SWITCHBOARD", "SCAN", "FORGET", "PREPARE",
                "AGAIN", "PICK"},
         idx : 0..TableMax, addr : Devices \cup {None}]
Scans == [kind : Kinds \cup {"unknown"}, phase : {"Starting", "Scanning", "Done", "Failed"},
          waited : 0..GiveUp, seen : 0..TableMax, rows : SUBSET [idx : 1..TableMax, addr : Devices],
          moved : BOOLEAN, again : BOOLEAN]
Entries == [addr : Devices, kind : Kinds \cup {"unknown"}, conflict : BOOLEAN]
Grips == [firm : BOOLEAN, moved : BOOLEAN]

\* Types of the variables, and the limits of queue, table, stack and attempts.
TypeOK ==
  /\ pc \in {"poll", "back", "dial", "push", "action", "hold", "live", "lvgl"}
  /\ cur \in Screens /\ nav \in Seq(Screens) /\ Len(nav) <= NavMax
  /\ pending \in [row : Rows, on : Screens, grip : Grips, dialled : BOOLEAN, backed : BOOLEAN]
  /\ push \in {"up", "down", "fired"}
  /\ focus \in Rows /\ grip \in Grips /\ scan \in Scans
  /\ {turned, lvPressed, freed, radio, dialled, backed} \subseteq BOOLEAN /\ clock \in {"low", "high"}
  /\ hits \in Seq(Adverts) /\ Len(hits) <= QueueMax
  /\ table \in Seq(Entries) /\ Len(table) <= TableMax
  /\ stored \in [Kinds -> Devices \cup {None}]

\* Back always leads home: the stack starts at the home screen and never gets full, where go()
\* would forget a screen, although a click may be carried out on another screen than it was made on.
NavLeadsHome ==
  /\ cur = Home <=> nav = <<>>
  /\ nav # <<>> => Head(nav) = Home
  /\ Len(nav) < NavMax

\* The radio scans only while the scan screen is shown and says so: as long as it scans, the link
\* manager makes no connection.
ScanIsForeground == radio => cur.id = "Scan" /\ scan.phase = "Scanning"

\* A release reaches the row that was pressed, unless the back button was used meanwhile or, on
\* the scan screen, a row took the focus because the dial had not been touched; and LVGL holds the
\* press that opened the setup for pressed only if it does so since before the back button. The rows
\* in the dial group need not be those of the screen: a late "Scan again" leaves dead ones in it.
ClickIsMeant ==
  /\ pending # NoClick => \/ pending.grip.firm
                          \/ pending.backed
                          \/ pending.on.id = "Scan" /\ ~pending.grip.moved
  /\ push = "fired" /\ lvPressed => backed

\* What is saved changes on purpose only. A device is erased by "Yes" on the confirmation for its
\* kind, after the dial left the safe choice, not by a stray press, and not on the screen that is
\* shown by the time it is done. One is saved for the kind that was scanned for, and it is the one
\* whose address stood in the row, although rows name entries of a table that restarts empty and
\* classifies again.
StoreIsDeliberate ==
  [][\A k \in Kinds : stored'[k] # stored[k] =>
       IF stored'[k] = None
       THEN /\ pending.row = Row("YES") /\ pending.on = [id |-> "Confirm", kind |-> k]
            /\ pending.grip.firm /\ pending.dialled
       ELSE /\ pending.row.act = "PICK" /\ pending.on = [id |-> "Scan", kind |-> k]
            /\ stored'[k] = pending.row.addr]_vars

\* A scan comes to an end: it is done, or has failed, unless the user leaves it. The exception is
\* the first attempt of a scan whose screen is left open all through the upper half of the clock.
FirstAttemptWaits == cur.id = "Scan" /\ scan.phase = "Starting" /\ ~Due
ScanSettles ==
  ~<>[]FirstAttemptWaits =>
    ((cur.id = "Scan" /\ scan.phase \in {"Starting", "Scanning"})
       ~> (cur.id # "Scan" \/ scan.phase \in {"Done", "Failed"}))
=============================================================================
