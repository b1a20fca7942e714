------------------------- MODULE SetupScreens_proofs -------------------------
(***************************************************************************)
(* Proofs about SetupScreens, for any number of devices, whatever they     *)
(* advertise, every length of the queue and of the table and every number  *)
(* of attempts.  The screens and the clicks need nothing about the queue   *)
(* and the table; what is saved does.                                      *)
(***************************************************************************)
EXTENDS SetupScreens, SequenceTheorems, WellFoundedInduction, TLAPS

\* How far from home a screen is, and how far the screen that a row opens.
Rank(id) == IF id = "Home" THEN 0 ELSE IF id \in {"Setup", "Actions"} THEN 1
            ELSE IF id = "Device" THEN 2 ELSE 3
Target(act) == IF act \in {"SETUP_LAUNCHER", "SETUP_SWITCHBOARD"} THEN 2
               ELSE IF act \in {"SCAN", "FORGET"} THEN 3 ELSE 4

\* Every screen on the stack is nearer to home than the one above it.
NavInv ==
  /\ cur \in Screens /\ nav \in Seq(Screens)
  /\ nav = <<>> => cur = Home
  /\ nav # <<>> => nav[1] = Home
  /\ Len(nav) <= Rank(cur.id)
  /\ \A i \in 1 .. Len(nav) : i <= Rank(nav[i].id) + 1 /\ Rank(nav[i].id) < 3
  /\ \A i \in 1 .. Len(nav) : i < Len(nav) => Rank(nav[i].id) < Rank(nav[i + 1].id)
  /\ nav # <<>> => Rank(nav[Len(nav)].id) < Rank(cur.id)

\* What the focused row and the recorded click open is farther from home than where they are
\* carried out, because only the back button may come in between.
FitsInv == Rank(cur.id) < Target(focus.act) /\ Rank(cur.id) < Target(pending.row.act)

RadioInv == "phase" \in DOMAIN scan /\ ScanIsForeground

LEMMA RankRange == ASSUME NEW id PROVE Rank(id) \in 0 .. 3
  BY DEF Rank

LEMMA TargetRange == ASSUME NEW act PROVE Target(act) \in 2 .. 4
  BY DEF Target

LEMMA FirstRowFits == ASSUME NEW id \in Ids PROVE Rank(id) < Target(FirstRow(id).act)
  BY DEF Ids, Rank, Target, FirstRow, Row, NoRow

----------------------------------------------------------------------------
(* Entering a screen                                                       *)

LEMMA EnterEffect ==
  ASSUME NEW s \in Screens, Enter(s), RadioInv, radio => s.id # "Scan"
  PROVE  cur' = s /\ Rank(cur'.id) < Target(focus'.act) /\ RadioInv'
<1>1. cur' = s /\ focus' = FirstRow(s.id) /\ s.id \in Ids
  BY DEF Enter, Screens
<1>2. "phase" \in DOMAIN scan'
  BY DEF Enter, ScanOf, NewScan
<1>3. ~radio'
  BY DEF Enter, RadioInv, ScanIsForeground
<1> QED
  BY <1>1, <1>2, <1>3, FirstRowFits DEF RadioInv, ScanIsForeground

LEMMA GoEffect ==
  ASSUME NavInv, RadioInv, NEW id \in Ids, NEW kind \in Kinds \cup {"unknown"}, Go(id, kind),
         Rank(cur.id) < Rank(id)
  PROVE  /\ NavInv' /\ RadioInv' /\ Rank(cur'.id) < Target(focus'.act)
         /\ cur'.id = id
<1> DEFINE s == [id |-> id, kind |-> kind]
<1>1. s \in Screens /\ s.id = id
  BY DEF Screens
<1>2. Rank(cur.id) \in 0 .. 3 /\ Rank(id) \in 0 .. 3 /\ Len(nav) \in Nat
  BY RankRange DEF NavInv
<1>3. nav' = Append(nav, cur)
  BY <1>2 DEF Go, NavMax, NavInv
<1>4. radio => s.id # "Scan"
  BY <1>1, <1>2 DEF RadioInv, ScanIsForeground, Rank
<1>5. cur' = s /\ Rank(cur'.id) < Target(focus'.act) /\ RadioInv'
  BY <1>1, <1>4, EnterEffect DEF Go
<1> HIDE DEF s
<1>6. /\ nav' \in Seq(Screens) /\ Len(nav') = Len(nav) + 1 /\ nav'[Len(nav) + 1] = cur
      /\ \A i \in 1 .. Len(nav) : nav'[i] = nav[i]
  BY <1>3 DEF NavInv
<1>7. nav'[1] = Home
  <2>1. CASE nav = <<>>
    <3>1. Len(nav) = 0 /\ cur = Home
      BY <2>1, EmptySeq DEF NavInv
    <3> QED
      BY <1>6, <3>1
  <2>2. CASE nav # <<>>
    <3>1. 1 \in 1 .. Len(nav) /\ nav[1] = Home
      BY <1>2, <2>2, EmptySeq DEF NavInv
    <3> QED
      BY <1>6, <3>1
  <2> QED
    BY <2>1, <2>2
<1>8. Len(nav') <= Rank(cur'.id)
  BY <1>1, <1>2, <1>5, <1>6 DEF NavInv
<1>9. ASSUME NEW i \in 1 .. Len(nav') PROVE i <= Rank(nav'[i].id) + 1 /\ Rank(nav'[i].id) < 3
  <2>1. CASE i \in 1 .. Len(nav)
    BY <1>6, <2>1 DEF NavInv
  <2>2. CASE i = Len(nav) + 1
    BY <1>2, <1>6, <2>2 DEF NavInv
  <2> QED
    BY <1>2, <1>6, <2>1, <2>2
<1>10. ASSUME NEW i \in 1 .. Len(nav'), i < Len(nav') PROVE Rank(nav'[i].id) < Rank(nav'[i + 1].id)
  <2>1. i \in 1 .. Len(nav)
    BY <1>2, <1>6, <1>10
  <2>2. CASE i < Len(nav)
    <3>1. i + 1 \in 1 .. Len(nav)
      BY <1>2, <2>1, <2>2
    <3> QED
      BY <1>6, <2>1, <2>2, <3>1 DEF NavInv
  <2>3. CASE i = Len(nav)
    <3>1. nav # <<>>
      BY <1>2, <2>1, EmptySeq
    <3> QED
      BY <1>6, <2>1, <2>3, <3>1 DEF NavInv
  <2> QED
    BY <1>2, <2>1, <2>2, <2>3
<1>11. Rank(nav'[Len(nav')].id) < Rank(cur'.id)
  BY <1>1, <1>5, <1>6
<1>12. nav' # <<>>
  BY <1>2, <1>6, EmptySeq
<1> QED
  BY <1>1, <1>5, <1>6, <1>7, <1>8, <1>9, <1>10, <1>11, <1>12 DEF NavInv

LEMMA FrontEffect ==
  ASSUME NEW S, NEW q \in Seq(S), q # <<>>
  PROVE  /\ SubSeq(q, 1, Len(q) - 1) \in Seq(S) /\ Len(SubSeq(q, 1, Len(q) - 1)) = Len(q) - 1
         /\ \A i \in 1 .. Len(q) - 1 : SubSeq(q, 1, Len(q) - 1)[i] = q[i]
<1> DEFINE n == Len(q) - 1
           f == SubSeq(q, 1, n)
<1>1. n \in Nat /\ \A i \in 1 .. n : q[i] \in S
  BY EmptySeq, ElementOfSeq
<1>2. f \in Seq(S) /\ Len(f) = (IF 1 <= n THEN n - 1 + 1 ELSE 0) /\ \A i \in 1 .. n - 1 + 1 : f[i] = q[1 + i - 1]
  BY <1>1, SubSeqProperties
<1>0. n \in Nat
  BY <1>1
<1> HIDE DEF f, n
<1>3. n - 1 + 1 = n /\ \A i \in 1 .. n : 1 + i - 1 = i
  BY <1>0
<1>4. ~(1 <= n) => n = 0
  BY <1>0
<1>5. Len(f) = n /\ \A i \in 1 .. n : f[i] = q[i]
  BY <1>2, <1>3, <1>4
<1> QED
  BY <1>2, <1>5 DEF f, n

LEMMA BackEffect ==
  ASSUME NavInv, RadioInv, Rank(cur.id) < Target(focus.act), GoBack
  PROVE  /\ NavInv' /\ RadioInv' /\ Rank(cur'.id) < Target(focus'.act)
         /\ Rank(cur'.id) <= Rank(cur.id)
<1>1. CASE nav = <<>>
  BY <1>1, RankRange DEF GoBack, StayHere, NavInv, RadioInv, ScanIsForeground
<1>2. CASE nav # <<>>
  <2> DEFINE n == Len(nav)
             s == nav[n]
  <2>1. n \in Nat /\ n > 0
    BY <1>2, EmptySeq DEF NavInv
  <2>2. nav' = SubSeq(nav, 1, n - 1) /\ Enter(s)
    BY <1>2 DEF GoBack, Front, Last
  <2>3. s \in Screens /\ Rank(s.id) < 3 /\ Rank(s.id) < Rank(cur.id) /\ n <= Rank(s.id) + 1
    BY <1>2, <2>1 DEF NavInv
  <2>4. Rank(cur.id) \in 0 .. 3 /\ Rank(s.id) \in 0 .. 3
    BY RankRange
  <2>5. s.id # "Scan"
    BY <2>3 DEF Rank
  <2>6. cur' = s /\ Rank(cur'.id) < Target(focus'.act) /\ RadioInv'
    BY <2>2, <2>3, <2>5, EnterEffect
  <2>7. /\ nav' \in Seq(Screens) /\ Len(nav') = n - 1
        /\ \A i \in 1 .. n - 1 : nav'[i] = nav[i]
    BY <1>2, <2>2, FrontEffect DEF NavInv
  <2>8. nav' = <<>> => cur' = Home
    <3>1. ASSUME nav' = <<>> PROVE Len(nav') = 0
      BY <3>1, EmptySeq, Zenon
    <3>2. ASSUME nav' = <<>> PROVE n = 1
      BY <2>1, <2>7, <3>1, <3>2
    <3>3. nav[1] = Home
      BY <1>2 DEF NavInv
    <3> QED
      BY <2>6, <3>2, <3>3
  <2>9. nav' # <<>> => nav'[1] = Home /\ Rank(nav'[Len(nav')].id) < Rank(cur'.id)
    <3> SUFFICES ASSUME nav' # <<>> PROVE nav'[1] = Home /\ Rank(nav'[Len(nav')].id) < Rank(cur'.id)
      OBVIOUS
    <3>1. n - 1 \in 1 .. n /\ n - 1 < n /\ 1 \in 1 .. n - 1
      BY <2>1, <2>7, EmptySeq
    <3>2. Rank(nav[n - 1].id) < Rank(nav[n - 1 + 1].id)
      BY <3>1 DEF NavInv
    <3>3. n - 1 + 1 = n
      BY <2>1
    <3> QED
      BY <1>2, <2>6, <2>7, <3>1, <3>2, <3>3 DEF NavInv
  <2>10. \A i \in 1 .. Len(nav') : i <= Rank(nav'[i].id) + 1 /\ Rank(nav'[i].id) < 3
    BY <2>1, <2>7 DEF NavInv
  <2>11. ASSUME NEW i \in 1 .. Len(nav'), i < Len(nav') PROVE Rank(nav'[i].id) < Rank(nav'[i + 1].id)
    <3>1. i \in 1 .. n - 1 /\ i + 1 \in 1 .. n - 1 /\ i \in 1 .. n /\ i < n
      BY <2>1, <2>7, <2>11
    <3>2. nav'[i] = nav[i] /\ nav'[i + 1] = nav[i + 1]
      BY <2>7, <3>1
    <3> QED
      BY <3>1, <3>2 DEF NavInv
  <2>12. Len(nav') <= Rank(cur'.id) /\ Rank(cur'.id) <= Rank(cur.id)
    BY <2>1, <2>3, <2>4, <2>6, <2>7
  <2> HIDE DEF n, s
  <2> QED
    BY <2>3, <2>6, <2>7, <2>8, <2>9, <2>10, <2>11, <2>12 DEF NavInv
<1> QED
  BY <1>1, <1>2

----------------------------------------------------------------------------
(* The rows                                                                *)

\* What a click does to the screens.
LEMMA ActionCases ==
  ASSUME NavInv, NEW row, RunAction(row)
  PROVE  \/ \E id \in Ids, kind \in Kinds \cup {"unknown"} : Go(id, kind) /\ Rank(id) = Target(row.act)
         \/ GoBack
         \/ StayHere
         \/ ScanAgain
<1>1. cur.kind \in Kinds \cup {"unknown"}
  BY DEF NavInv, Screens
<1>2. CASE row.act = "SETUP_LAUNCHER"
  <2>1. Go("Device", "launcher") /\ Rank("Device") = Target(row.act)
    BY <1>2 DEF RunAction, Rank, Target
  <2> QED
    BY <2>1 DEF Ids, Kinds
<1>3. CASE row.act = "SETUP_SWITCHBOARD"
  <2>1. Go("Device", "switchboard") /\ Rank("Device") = Target(row.act)
    BY <1>3 DEF RunAction, Rank, Target
  <2> QED
    BY <2>1 DEF Ids, Kinds
<1>4. CASE row.act = "SCAN"
  <2>1. Go("Scan", cur.kind) /\ Rank("Scan") = Target(row.act)
    BY <1>4 DEF RunAction, Rank, Target
  <2> QED
    BY <1>1, <2>1 DEF Ids
<1>5. CASE row.act = "FORGET"
  <2>1. Go("Confirm", cur.kind) /\ Rank("Confirm") = Target(row.act)
    BY <1>5 DEF RunAction, Rank, Target
  <2> QED
    BY <1>1, <2>1 DEF Ids
<1>6. CASE row.act \notin {"SETUP_LAUNCHER", "SETUP_SWITCHBOARD", "SCAN", "FORGET"}
  BY <1>6 DEF RunAction, Pick, Forget
<1> QED
  BY <1>2, <1>3, <1>4, <1>5, <1>6

LEMMA RefocusEffect ==
  ASSUME NEW s, "phase" \in DOMAIN s, Refocus(s)
  PROVE  /\ "phase" \in DOMAIN scan' /\ scan'.phase = s.phase
         /\ focus' = focus \/ Target(focus'.act) = 4
<1>1. "phase" \in DOMAIN scan' /\ scan'.phase = s.phase
  BY DEF Refocus
<1>2. focus' \in {focus, FirstFound(s.rows), Row("AGAIN"), Row("BACK")}
  BY DEF Refocus
<1>3. \A r \in {FirstFound(s.rows), Row("AGAIN"), Row("BACK")} : Target(r.act) = 4
  BY DEF Target, FirstFound, DeviceRow, Row
<1> QED
  BY <1>1, <1>2, <1>3

LEMMA GroupRowsFit == ASSUME cur \in Screens, NEW r \in GroupRows PROVE Rank(cur.id) < Target(r.act)
<1>1. cur.id \in Ids
  BY DEF Screens
<1>2. CASE cur.id \in {"Home", "Setup", "Actions", "Confirm"} /\ ~freed
  BY <1>2 DEF GroupRows, Rank, Target, Row
<1>3. CASE cur.id = "Device" /\ ~freed
  BY <1>3 DEF GroupRows, Rank, Target, Row
<1>4. CASE cur.id = "Scan" /\ ~freed
  BY <1>4 DEF GroupRows, Rank, Target, Row, DeviceRow
<1>5. CASE freed
  <2>1. r \in {NoRow, Row("AGAIN"), Row("BACK")}
    BY <1>5 DEF GroupRows
  <2>2. Target(r.act) = 4
    BY <2>1 DEF Target, Row, NoRow
  <2> QED
    BY <2>2, RankRange
<1> QED
  BY <1>1, <1>2, <1>3, <1>4, <1>5 DEF Ids

----------------------------------------------------------------------------
(* The passes                                                              *)

ScreenInv == NavInv /\ FitsInv /\ RadioInv

\* The unit starts afresh after a crash, with what is saved.
LEMMA CrashIsFresh == Crash => Fresh' /\ UNCHANGED stored
  BY DEF Crash, Fresh, FirstScreen, FirstStack

LEMMA FreshScreens == Fresh => ScreenInv
<1> SUFFICES ASSUME Fresh PROVE ScreenInv
  OBVIOUS
<1>1. RadioInv
  BY DEF Fresh, RadioInv, ScanIsForeground, NewScan
<1>2. CASE \E k \in Kinds : stored[k] = None
  <2>1. cur = [id |-> "Setup", kind |-> "unknown"] /\ nav = <<Home>>
    <3>1. FirstScreen(stored) = [id |-> "Setup", kind |-> "unknown"]
      BY <1>2 DEF FirstScreen
    <3>2. FirstScreen(stored).id # Home.id
      BY <3>1 DEF Home
    <3> QED
      BY <3>1, <3>2 DEF Fresh, FirstStack
  <2>2. nav \in Seq(Screens) /\ Len(nav) = 1 /\ nav[1] = Home /\ cur \in Screens
    BY <2>1 DEF Screens, Ids, Home
  <2>3. cur.id = "Setup" /\ Home.id = "Home"
    BY <2>1 DEF Home
  <2>4. nav # <<>>
    BY <2>2, EmptySeq
  <2>5. NavInv
    BY <2>2, <2>3, <2>4 DEF NavInv, Rank
  <2>6. FitsInv
    BY <2>3 DEF Fresh, FitsInv, Rank, Target, FirstRow, Row, NoClick, NoRow
  <2> QED
    BY <1>1, <2>5, <2>6 DEF ScreenInv
<1>3. CASE ~\E k \in Kinds : stored[k] = None
  <2>1. cur = Home /\ nav = <<>>
    BY <1>3 DEF Fresh, FirstScreen, FirstStack
  <2>2. NavInv
    BY <2>1, EmptySeq DEF NavInv, Screens, Ids, Home, Rank
  <2>3. FitsInv
    BY <2>1 DEF Fresh, FitsInv, Home, Rank, Target, FirstRow, Row, NoClick, NoRow
  <2> QED
    BY <1>1, <2>2, <2>3 DEF ScreenInv
<1> QED
  BY <1>2, <1>3

LEMMA CrashScreens == Crash => ScreenInv'
  BY CrashIsFresh, FreshScreens, PTL

LEMMA StayScreens ==
  ASSUME ScreenInv, StayHere, pending' = pending \/ pending' = NoClick
  PROVE  ScreenInv'
<1>1. NavInv' /\ RadioInv'
  BY DEF ScreenInv, StayHere, NavInv, RadioInv, ScanIsForeground
<1>2. Rank(cur.id) < Target(NoClick.row.act)
  BY RankRange DEF NoClick, NoRow, Row, Target
<1>3. FitsInv'
  BY <1>2 DEF ScreenInv, StayHere, FitsInv
<1> QED
  BY <1>1, <1>3 DEF ScreenInv

LEMMA NextScreens == ScreenInv /\ [Next]_vars => ScreenInv'
<1> SUFFICES ASSUME ScreenInv, [Next]_vars PROVE ScreenInv'
  OBVIOUS
<1>0. NavInv /\ FitsInv /\ RadioInv /\ cur \in Screens
  BY DEF ScreenInv, NavInv
<1>1. ASSUME UNCHANGED <<cur, nav, focus, pending, scan>>, radio' = radio \/ radio' = FALSE PROVE ScreenInv'
  BY <1>0, <1>1 DEF ScreenInv, NavInv, FitsInv, RadioInv, ScanIsForeground
<1>2. CASE Poll \/ Advertise \/ ScanEnds \/ ClockTurns \/ UNCHANGED vars
  BY <1>1, <1>2 DEF Poll, Advertise, ScanEnds, ClockTurns, vars
<1>3. CASE Back
  <2>1. CASE StayHere
    BY <1>3, <2>1, StayScreens DEF Back
  <2>2. CASE GoBack
    <3>1. /\ NavInv' /\ RadioInv' /\ Rank(cur'.id) < Target(focus'.act)
          /\ Rank(cur'.id) <= Rank(cur.id)
      BY <1>0, <2>2, BackEffect DEF FitsInv
    <3>2. pending' = pending
      BY <1>3 DEF Back
    <3>3. /\ Rank(cur'.id) \in 0 .. 3 /\ Rank(cur.id) \in 0 .. 3 /\ Target(pending.row.act) \in 2 .. 4
      BY RankRange, TargetRange
    <3> QED
      BY <1>0, <3>1, <3>2, <3>3 DEF ScreenInv, FitsInv
  <2> QED
    BY <1>3, <2>1, <2>2 DEF Back
<1>4. CASE Dial
  <2>1. /\ UNCHANGED <<cur, nav, focus, pending, radio>>
        /\ scan' = scan \/ scan' = [scan EXCEPT !.moved = TRUE]
    BY <1>4 DEF Dial
  <2>2. RadioInv'
    BY <1>0, <2>1 DEF RadioInv, ScanIsForeground
  <2> QED
    BY <1>0, <2>1, <2>2 DEF ScreenInv, NavInv, FitsInv
<1>5. ASSUME NEW id \in {"Actions", "Setup"}, cur.id = "Home", Go(id, "unknown"), UNCHANGED pending
      PROVE ScreenInv'
  <2>1. Rank(cur.id) < Rank(id) /\ Rank(id) = 1 /\ id \in Ids
    BY <1>5 DEF Rank, Ids
  <2>2. NavInv' /\ RadioInv' /\ Rank(cur'.id) < Target(focus'.act) /\ cur'.id = id
    BY <1>0, <1>5, <2>1, GoEffect
  <2>3. Target(pending.row.act) \in 2 .. 4
    BY TargetRange
  <2> QED
    BY <1>5, <2>1, <2>2, <2>3 DEF ScreenInv, FitsInv
<1>6. CASE Push
  BY <1>5, <1>6, StayScreens DEF Push, PushDown, PushUp
<1>7. CASE Hold
  BY <1>5, <1>7, StayScreens DEF Hold
<1>8. CASE Action
  <2>1. RunAction(pending.row) /\ pending' = NoClick
    BY <1>8 DEF Action
  <2>2. Target(NoClick.row.act) = 4
    BY DEF NoClick, NoRow, Row, Target
  <2>3. ASSUME NEW id \in Ids, NEW kind \in Kinds \cup {"unknown"}, Go(id, kind),
               Rank(id) = Target(pending.row.act)
        PROVE  ScreenInv'
    <3>1. Rank(cur.id) < Rank(id)
      BY <1>0, <2>3 DEF FitsInv
    <3>2. NavInv' /\ RadioInv' /\ Rank(cur'.id) < Target(focus'.act)
      BY <1>0, <2>3, <3>1, GoEffect
    <3> QED
      BY <2>1, <2>2, <3>2, RankRange DEF ScreenInv, FitsInv
  <2>4. CASE GoBack
    <3>1. NavInv' /\ RadioInv' /\ Rank(cur'.id) < Target(focus'.act)
      BY <1>0, <2>4, BackEffect DEF FitsInv
    <3> QED
      BY <2>1, <2>2, <3>1, RankRange DEF ScreenInv, FitsInv
  <2>5. CASE StayHere
    BY <2>1, <2>5, StayScreens
  <2>6. CASE ScanAgain
    <3>1. CASE scan.phase \in {"Starting", "Scanning"}
      BY <2>1, <2>6, <3>1, StayScreens DEF ScanAgain
    <3>2. CASE scan.phase \notin {"Starting", "Scanning"}
      <4>1. /\ scan' = [NewScan(scan.kind) EXCEPT !.again = scan.again]
            /\ focus' \in {NoRow, Row("AGAIN"), Row("BACK")} /\ UNCHANGED <<cur, nav, radio>>
        BY <2>6, <3>2 DEF ScanAgain
      <4>2. ~radio'
        BY <1>0, <3>2, <4>1 DEF RadioInv, ScanIsForeground
      <4>3. "phase" \in DOMAIN scan'
        BY <4>1 DEF NewScan
      <4>4. Target(focus'.act) = 4
        BY <4>1 DEF Row, NoRow, Target
      <4>5. NavInv'
        BY <1>0, <4>1 DEF NavInv
      <4> QED
        BY <2>1, <2>2, <4>1, <4>2, <4>3, <4>4, <4>5, RankRange DEF ScreenInv, FitsInv, RadioInv, ScanIsForeground
    <3> QED
      BY <3>1, <3>2
  <2> QED
    BY <1>0, <2>1, <2>3, <2>4, <2>5, <2>6, ActionCases
<1>9. CASE Live
  <2>0. UNCHANGED <<cur, nav, pending>>
    BY <1>9 DEF Live
  <2>1. ASSUME NEW s, "phase" \in DOMAIN s, Refocus(s), radio' => cur.id = "Scan" /\ s.phase = "Scanning"
        PROVE  ScreenInv'
    <3>1. /\ "phase" \in DOMAIN scan' /\ scan'.phase = s.phase
          /\ focus' = focus \/ Target(focus'.act) = 4
      BY <2>1, RefocusEffect
    <3>2. RadioInv'
      BY <2>0, <2>1, <3>1 DEF RadioInv, ScanIsForeground
    <3>3. NavInv'
      BY <1>0, <2>0 DEF NavInv
    <3>4. FitsInv'
      BY <1>0, <2>0, <3>1, RankRange DEF FitsInv
    <3> QED
      BY <3>2, <3>3, <3>4 DEF ScreenInv
  <2>2. "phase" \in DOMAIN scan
    BY <1>0 DEF RadioInv
  <2>3. CASE cur.id = "Scan" /\ scan.phase = "Starting" /\ Starting
    <3>1. ~radio
      BY <1>0, <2>3 DEF RadioInv, ScanIsForeground
    <3>2. CASE Refocus(scan) /\ UNCHANGED <<radio, hits, table>>
      BY <2>1, <2>2, <3>1, <3>2
    <3>3. CASE Attempt
      <4>1. CASE radio'
        <5>1. Refocus([scan EXCEPT !.phase = "Scanning", !.seen = 0])
          BY <3>1, <3>3, <4>1 DEF Attempt
        <5>2. /\ "phase" \in DOMAIN [scan EXCEPT !.phase = "Scanning", !.seen = 0]
              /\ [scan EXCEPT !.phase = "Scanning", !.seen = 0].phase = "Scanning"
          BY <2>2
        <5> QED
          BY <2>1, <2>3, <5>1, <5>2
      <4>2. CASE ~radio'
        <5>1. \/ Refocus([scan EXCEPT !.phase = "Failed"])
              \/ Refocus([scan EXCEPT !.waited = @ + 1])
          BY <3>3, <4>2 DEF Attempt
        <5>2. /\ "phase" \in DOMAIN [scan EXCEPT !.phase = "Failed"]
              /\ "phase" \in DOMAIN [scan EXCEPT !.waited = @ + 1]
          BY <2>2
        <5> QED
          BY <2>1, <4>2, <5>1, <5>2
      <4> QED
        BY <4>1, <4>2
    <3> QED
      BY <2>3, <3>2, <3>3 DEF Starting
  <2>4. CASE cur.id = "Scan" /\ scan.phase = "Scanning" /\ Scanning
    <3> DEFINE s == [SyncRows(scan) EXCEPT !.phase = IF radio THEN "Scanning" ELSE "Done"]
    <3>1. Refocus(s) /\ radio' = radio
      BY <2>4 DEF Scanning
    <3>2. "phase" \in DOMAIN s /\ (radio => s.phase = "Scanning")
      BY <2>2 DEF SyncRows
    <3> HIDE DEF s
    <3> QED
      BY <2>1, <2>4, <3>1, <3>2
  <2>5. CASE UNCHANGED <<scan, focus, grip, radio, hits, table>>
    BY <1>1, <2>0, <2>5
  <2> QED
    BY <1>9, <2>3, <2>4, <2>5 DEF Live
<1>10. CASE Lvgl
  <2>1. UNCHANGED <<cur, nav, scan, radio>>
    BY <1>10 DEF Lvgl
  <2>2. pending' = pending \/ pending'.row = focus
    BY <1>10 DEF Lvgl, Read, Click
  <2>3. focus' = focus \/ focus' \in GroupRows
    BY <1>10 DEF Lvgl, Read
  <2>4. FitsInv'
    BY <1>0, <2>1, <2>2, <2>3, GroupRowsFit DEF FitsInv
  <2> QED
    BY <1>0, <2>1, <2>4 DEF ScreenInv, NavInv, RadioInv, ScanIsForeground
<1>11. CASE Crash
  BY <1>11, CrashScreens
<1> QED
  BY <1>2, <1>3, <1>4, <1>6, <1>7, <1>8, <1>9, <1>10, <1>11 DEF Next, MainLoop


\* Dead rows are in the dial group of another screen only: a scan screen starts with its own.
FreedInv == cur.id = "Scan" => ~freed

LEMMA EnterFreed == ASSUME NEW s, Enter(s) PROVE FreedInv'
  BY DEF Enter, FreedInv

LEMMA NextFreed == ScreenInv /\ FreedInv /\ [Next]_vars => FreedInv'
<1> SUFFICES ASSUME ScreenInv, FreedInv, [Next]_vars PROVE FreedInv'
  OBVIOUS
<1>1. CASE UNCHANGED <<cur, freed>>
  BY <1>1 DEF FreedInv
<1>2. CASE GoBack
  BY <1>1, <1>2, EnterFreed DEF GoBack, StayHere
<1>3. ASSUME NEW id, NEW kind, Go(id, kind) PROVE FreedInv'
  BY <1>3, EnterFreed DEF Go
<1>4. CASE Poll \/ Dial \/ Live \/ Lvgl \/ Advertise \/ ScanEnds \/ ClockTurns \/ UNCHANGED vars
  BY <1>1, <1>4 DEF Poll, Dial, Live, Lvgl, Advertise, ScanEnds, ClockTurns, vars
<1>5. CASE Back
  BY <1>1, <1>2, <1>5 DEF Back, StayHere
<1>6. CASE Push \/ Hold
  <2>1. StayHere \/ Go("Actions", "unknown") \/ Go("Setup", "unknown")
    BY <1>6 DEF Push, PushDown, PushUp, Hold
  <2> QED
    BY <1>1, <1>3, <2>1 DEF StayHere
<1>7. CASE Action
  <2>1. \/ \E id \in Ids, kind \in Kinds \cup {"unknown"} : Go(id, kind)
        \/ GoBack \/ StayHere \/ ScanAgain
    BY <1>7, ActionCases DEF Action, ScreenInv
  <2>2. CASE ScanAgain /\ ~StayHere
    BY <2>2 DEF ScanAgain, Late, FreedInv
  <2> QED
    BY <1>1, <1>2, <1>3, <2>1, <2>2 DEF StayHere
<1>8. CASE Crash
  BY <1>8 DEF Crash, FreedInv
<1> QED
  BY <1>4, <1>5, <1>6, <1>7, <1>8 DEF Next, MainLoop

LEMMA ScreensHold == Spec => [](ScreenInv /\ FreedInv)
<1>1. Init => ScreenInv /\ FreedInv
  BY FreshScreens DEF Init, Fresh, FreedInv
<1> QED
  BY <1>1, NextScreens, NextFreed, PTL DEF Spec

\* Whatever is clicked, held, turned and found, the stack of screens leads home and never fills up:
\* at most three screens lie below another one.
THEOREM BackLeadsHome == Spec => []NavLeadsHome
<1>1. ScreenInv => NavLeadsHome
  <2> SUFFICES ASSUME ScreenInv PROVE NavLeadsHome
    OBVIOUS
  <2>1. Rank(cur.id) \in 0 .. 3 /\ Len(nav) \in Nat /\ Len(nav) <= Rank(cur.id)
    BY RankRange DEF ScreenInv, NavInv
  <2>2. Len(nav) < NavMax
    BY <2>1 DEF NavMax
  <2>3. cur = Home => nav = <<>>
    <3>1. cur = Home => Len(nav) = 0
      BY <2>1 DEF Home, Rank
    <3> QED
      BY <3>1, EmptySeq DEF ScreenInv, NavInv
  <2>4. nav # <<>> => Head(nav) = Home
    BY DEF ScreenInv, NavInv
  <2> QED
    BY <2>2, <2>3, <2>4 DEF NavLeadsHome, ScreenInv, NavInv
<1> QED
  BY <1>1, ScreensHold, PTL

\* The radio never scans behind another screen.
THEOREM ScanStaysForeground == Spec => []ScanIsForeground
<1>1. ScreenInv => ScanIsForeground
  BY DEF ScreenInv, RadioInv
<1> QED
  BY <1>1, ScreensHold, PTL

----------------------------------------------------------------------------
(* Clicks                                                                  *)

Ended == scan.phase \in {"Done", "Failed"}
Meant(g, b, s) == g.firm \/ b \/ (s.id = "Scan" /\ ~g.moved)

\* While LVGL holds the button for pressed, the row that was pressed has the focus, or the back
\* button was used, or the dial had not been touched on the scan screen, and then only the scan
\* moves the focus. A click is carried out before LVGL looks at the button again. A row to scan
\* again is offered once a scan has ended, and for a moment after it was clicked.
GripInv ==
  /\ {"firm", "moved"} \subseteq DOMAIN grip /\ {"phase", "moved", "again"} \subseteq DOMAIN scan
  /\ lvPressed => Meant(grip, backed, cur)
  /\ lvPressed /\ cur.id = "Home" => backed
  /\ lvPressed /\ cur.id = "Scan" /\ grip.moved /\ ~backed => scan.moved
  /\ pending # NoClick => /\ pc \in {"poll", "back", "dial", "push", "action"} /\ ~lvPressed
                          /\ Meant(pending.grip, pending.backed, pending.on)
  /\ cur.id = "Scan" /\ scan.again /\ ~Ended => pc \in {"hold", "live"} /\ ~lvPressed
  /\ cur.id = "Scan" /\ focus = Row("AGAIN") => scan.again
  /\ push = "fired" /\ lvPressed => backed

LEMMA NewScanFields == ASSUME NEW k PROVE {"phase", "moved", "again"} \subseteq DOMAIN NewScan(k) /\ ~NewScan(k).again
  BY DEF NewScan

LEMMA FirstRowIsNotAgain == ASSUME NEW id \in Ids PROVE FirstRow(id) # Row("AGAIN")
<1>1. FirstRow(id).act # "AGAIN" /\ Row("AGAIN").act = "AGAIN"
  BY DEF FirstRow, Row, NoRow, Ids
<1> QED
  BY <1>1

\* A screen that opens while LVGL holds the button for pressed opens after the back button.
LEMMA EnterGrip ==
  ASSUME GripInv, NEW s \in Screens, Enter(s), lvPressed' => backed', UNCHANGED lvPressed,
         pending' = NoClick \/ (pending' = pending /\ pc' \in {"poll", "back", "dial", "push", "action"})
  PROVE  GripInv'
<1>1. cur' = s /\ focus' = FirstRow(s.id) /\ grip' = NoGrip /\ s.id \in Ids
  BY DEF Enter, Screens
<1>2. {"phase", "moved", "again"} \subseteq DOMAIN scan' /\ ~scan'.again
  BY NewScanFields DEF Enter, ScanOf
<1>3. {"firm", "moved"} \subseteq DOMAIN grip'
  BY <1>1 DEF NoGrip
<1>4. focus' # Row("AGAIN")
  BY <1>1, FirstRowIsNotAgain
<1> QED
  BY <1>1, <1>2, <1>3, <1>4 DEF GripInv, Meant

\* The scan moves the focus only if the dial has not been touched, or after a click.
LEMMA RefocusGrip ==
  ASSUME GripInv, cur.id = "Scan", pc = "live", pc' = "lvgl", UNCHANGED <<cur, lvPressed, backed, push, pending>>,
         NEW s, {"phase", "moved", "again"} \subseteq DOMAIN s, s.moved = scan.moved, Refocus(s), ~Ended
  PROVE  GripInv'
<1> DEFINE offers == s.phase \in {"Done", "Failed"}
           synced == IF s.rows # scan.rows /\ ~s.moved THEN FirstFound(s.rows) ELSE focus
<1>1. /\ {"phase", "moved", "again"} \subseteq DOMAIN scan' /\ scan'.phase = s.phase
      /\ scan'.moved = scan.moved /\ scan'.again = offers
  BY DEF Refocus
<1>2. focus' = IF offers = scan.again THEN synced
               ELSE IF offers /\ s.rows = {} /\ ~s.moved THEN Row("AGAIN")
               ELSE IF synced # Row("AGAIN") THEN synced
               ELSE IF s.rows # {} THEN FirstFound(s.rows) ELSE Row("BACK")
  BY DEF Refocus
<1>3. grip' = [grip EXCEPT !.firm = @ /\ focus' = focus]
  BY DEF Refocus
<1>4. /\ {"firm", "moved"} \subseteq DOMAIN grip' /\ grip'.moved = grip.moved
      /\ grip'.firm <=> grip.firm /\ focus' = focus
  BY <1>3 DEF GripInv
<1>5. \A f : FirstFound(f) # Row("AGAIN")
  <2>1. \A f : FirstFound(f).act = "PICK" /\ Row("AGAIN").act = "AGAIN"
    BY DEF FirstFound, DeviceRow, Row
  <2> QED
    BY <2>1
<1>6. Row("BACK") # Row("AGAIN")
  <2>1. Row("BACK").act = "BACK" /\ Row("AGAIN").act = "AGAIN"
    BY DEF Row
  <2> QED
    BY <2>1
<1>7. focus = Row("AGAIN") => scan.again
  BY DEF GripInv
<1>8. focus' = Row("AGAIN") => offers
  BY <1>2, <1>5, <1>6, <1>7
<1>9. lvPressed => ~scan.again
  BY DEF GripInv
<1>10. lvPressed /\ focus' # focus => ~scan.moved
  BY <1>2, <1>5, <1>7, <1>9
<1>11. lvPressed => Meant(grip', backed, cur)
  BY <1>4, <1>10 DEF GripInv, Meant
<1>12. pending' = NoClick
  BY DEF GripInv
<1> HIDE DEF offers, synced
<1>13. scan'.again => Ended'
  BY <1>1 DEF Ended, offers
<1>14. focus' = Row("AGAIN") => scan'.again
  BY <1>1, <1>8
<1> QED
  BY <1>1, <1>4, <1>11, <1>12, <1>13, <1>14 DEF GripInv, Meant

LEMMA StayGrip ==
  ASSUME GripInv, UNCHANGED <<cur, scan, focus, grip, lvPressed>>,
         backed' = backed \/ backed' = lvPressed, push' = "fired" => push = "fired",
         pending' = NoClick \/ (pending' = pending /\ pc' \in {"poll", "back", "dial", "push", "action"}),
         cur.id = "Scan" /\ scan.again /\ ~Ended => pc' \in {"hold", "live"}
  PROVE  GripInv'
<1>1. CASE backed' = backed
  BY <1>1 DEF GripInv, Meant, Ended
<1>2. CASE backed' = lvPressed
  BY <1>2 DEF GripInv, Meant, Ended
<1> QED
  BY <1>1, <1>2

LEMMA FreshGrip == Fresh => GripInv
<1> SUFFICES ASSUME Fresh PROVE GripInv
  OBVIOUS
<1>1. {"firm", "moved"} \subseteq DOMAIN grip /\ {"phase", "moved", "again"} \subseteq DOMAIN scan
  BY NewScanFields DEF Fresh, NoGrip
<1>2. cur.id # "Scan"
  BY DEF Fresh, FirstScreen, Home
<1> QED
  BY <1>1, <1>2 DEF Fresh, GripInv

LEMMA CrashGrip == Crash => GripInv'
  BY CrashIsFresh, FreshGrip, PTL

LEMMA LvglGrip == ASSUME ScreenInv, FreedInv, GripInv, Lvgl PROVE GripInv'
<1>1. pc = "lvgl" /\ pc' = "poll" /\ UNCHANGED <<cur, push, scan>>
  BY DEF Lvgl
<1>2. pending = NoClick /\ ~(cur.id = "Scan" /\ scan.again /\ ~Ended)
  BY <1>1 DEF GripInv
<1>3. CASE UNCHANGED <<lvPressed, pending, grip, focus, backed>>
  BY <1>1, <1>2, <1>3, StayGrip
<1>4. CASE Read
  <2>1. pending' = Click /\ lvPressed' = Forward /\ backed' = (backed /\ lvPressed /\ Forward)
        /\ grip' = IF ~Forward THEN NoGrip
                   ELSE IF ~lvPressed THEN [firm |-> TRUE, moved |-> scan.moved] ELSE grip
    BY <1>4 DEF Read
  <2>2. cur.id = "Scan" /\ focus' = Row("AGAIN") => scan.again
    <3> SUFFICES ASSUME cur.id = "Scan", focus' = Row("AGAIN") PROVE scan.again
      OBVIOUS
    <3>1. CASE focus' = focus
      BY <3>1 DEF GripInv
    <3>2. CASE focus' \in GroupRows
      <4>1. /\ \A f : DeviceRow(f).act = "PICK"
            /\ Row("AGAIN").act = "AGAIN" /\ Row("BACK").act = "BACK"
        BY DEF DeviceRow, Row
      <4>2. GroupRows = {DeviceRow(f) : f \in scan.rows}
                        \cup (IF scan.again THEN {Row("AGAIN")} ELSE {}) \cup {Row("BACK")}
        BY DEF GroupRows, FreedInv
      <4> QED
        BY <3>2, <4>1, <4>2
    <3> QED
      BY <1>4, <3>1, <3>2 DEF Read
  <2>3. CASE ~Forward
    <3>1. ~lvPressed' /\ grip' = NoGrip
      BY <2>1, <2>3
    <3>2. ASSUME pending' # NoClick PROVE Meant(pending'.grip, pending'.backed, pending'.on)
      <4>1. lvPressed
        BY <1>2, <2>1, <3>2 DEF Click
      <4>2. pending'.grip = grip /\ pending'.backed = backed /\ pending'.on = cur
        BY <1>2, <2>1, <3>2 DEF Click
      <4> QED
        BY <4>1, <4>2 DEF GripInv
    <3>3. {"firm", "moved"} \subseteq DOMAIN grip'
      BY <3>1 DEF NoGrip
    <3> QED
      BY <1>1, <1>2, <2>2, <3>1, <3>2, <3>3 DEF GripInv, Ended
  <2>4. CASE Forward
    <3>1. lvPressed' /\ pending' = NoClick /\ push = "down" /\ cur.id # "Home"
      BY <1>2, <2>1, <2>4 DEF Click, Forward
    <3>2. CASE lvPressed
      <4>1. grip' = grip /\ (backed' <=> backed)
        BY <2>1, <2>4, <3>2
      <4> QED
        BY <1>1, <1>2, <2>2, <3>1, <3>2, <4>1 DEF GripInv, Ended, Meant
    <3>3. CASE ~lvPressed
      <4>1. grip' = [firm |-> TRUE, moved |-> scan.moved]
        BY <2>1, <2>4, <3>3
      <4> QED
        BY <1>1, <1>2, <2>2, <3>1, <4>1 DEF GripInv, Ended, Meant
    <3> QED
      BY <3>2, <3>3
  <2> QED
    BY <2>3, <2>4
<1> QED
  BY <1>3, <1>4 DEF Lvgl

LEMMA LiveGrip == ASSUME GripInv, Live PROVE GripInv'
<1>1. pc = "live" /\ pc' = "lvgl" /\ UNCHANGED <<cur, lvPressed, backed, push, pending>>
  BY DEF Live
<1>2. pending = NoClick /\ {"phase", "moved", "again"} \subseteq DOMAIN scan
  BY <1>1 DEF GripInv
<1>3. CASE (cur.id = "Scan" => Ended) /\ UNCHANGED <<scan, focus, grip>>
  BY <1>1, <1>2, <1>3, StayGrip
<1>4. ASSUME NEW s, {"phase", "moved", "again"} \subseteq DOMAIN s, s.moved = scan.moved, Refocus(s),
             cur.id = "Scan", ~Ended
      PROVE  GripInv'
  BY <1>1, <1>4, RefocusGrip
<1>5. CASE cur.id = "Scan" /\ scan.phase = "Starting" /\ Starting
  <2>1. ~Ended
    BY <1>5 DEF Ended
  <2>2. \/ Refocus(scan)
        \/ Refocus([scan EXCEPT !.phase = "Scanning", !.seen = 0])
        \/ Refocus([scan EXCEPT !.phase = "Failed"])
        \/ Refocus([scan EXCEPT !.waited = @ + 1])
    BY <1>5 DEF Starting, Attempt
  <2>3. \A s \in {scan, [scan EXCEPT !.phase = "Scanning", !.seen = 0], [scan EXCEPT !.phase = "Failed"],
                   [scan EXCEPT !.waited = @ + 1]} :
          {"phase", "moved", "again"} \subseteq DOMAIN s /\ s.moved = scan.moved
    BY <1>2
  <2> QED
    BY <1>4, <1>5, <2>1, <2>2, <2>3
<1>6. CASE cur.id = "Scan" /\ scan.phase = "Scanning" /\ Scanning
  <2> DEFINE s == [SyncRows(scan) EXCEPT !.phase = IF radio THEN "Scanning" ELSE "Done"]
  <2>1. Refocus(s) /\ ~Ended
    BY <1>6 DEF Scanning, Ended
  <2>2. {"phase", "moved", "again"} \subseteq DOMAIN s /\ s.moved = scan.moved
    BY <1>2 DEF SyncRows
  <2> HIDE DEF s
  <2> QED
    BY <1>4, <1>6, <2>1, <2>2
<1> QED
  BY <1>3, <1>5, <1>6 DEF Live, Ended

LEMMA NextGrip == ScreenInv /\ FreedInv /\ GripInv /\ [Next]_vars => GripInv'
<1> SUFFICES ASSUME ScreenInv, FreedInv, GripInv, [Next]_vars PROVE GripInv'
  OBVIOUS
<1>0. NavInv /\ (pc \notin {"hold", "live"} => ~(cur.id = "Scan" /\ scan.again /\ ~Ended))
  BY DEF ScreenInv, GripInv
<1>1. CASE UNCHANGED vars
  <2>1. pending = NoClick \/ pc \in {"poll", "back", "dial", "push", "action"}
    BY DEF GripInv
  <2> QED
    BY <1>0, <1>1, <2>1, StayGrip DEF vars
<1>2. CASE Poll
  <2>1. pc = "poll" /\ pc' \in {"poll", "back"}
    BY <1>2 DEF Poll, PollHit, PollDone
  <2>2. UNCHANGED <<cur, scan, focus, grip, lvPressed, backed, push, pending>>
    BY <1>2 DEF Poll
  <2> QED
    BY <1>0, <2>1, <2>2, StayGrip
<1>3. CASE Advertise \/ ScanEnds \/ ClockTurns
  <2>1. pending = NoClick \/ pc \in {"poll", "back", "dial", "push", "action"}
    BY DEF GripInv
  <2>2. UNCHANGED <<pc, cur, scan, focus, grip, lvPressed, backed, push, pending>>
    BY <1>3 DEF Advertise, ScanEnds, ClockTurns
  <2> QED
    BY <1>0, <2>1, <2>2, StayGrip
<1>4. ASSUME NEW id \in Ids, NEW kind \in Kinds \cup {"unknown"}, Go(id, kind), UNCHANGED lvPressed,
             lvPressed' => backed',
             pending' = NoClick \/ (pending' = pending /\ pc' \in {"poll", "back", "dial", "push", "action"})
      PROVE  GripInv'
  <2>1. [id |-> id, kind |-> kind] \in Screens /\ Enter([id |-> id, kind |-> kind])
    BY <1>4 DEF Screens, Go
  <2> QED
    BY <1>4, <2>1, EnterGrip
<1>5. ASSUME GoBack, nav # <<>>, UNCHANGED lvPressed, lvPressed' => backed',
             pending' = NoClick \/ (pending' = pending /\ pc' \in {"poll", "back", "dial", "push", "action"})
      PROVE  GripInv'
  <2>1. Len(nav) \in Nat /\ Len(nav) > 0 /\ nav \in Seq(Screens)
    BY <1>0, <1>5, EmptySeq DEF NavInv
  <2>2. Last(nav) \in Screens
    BY <2>1 DEF Last
  <2>3. Enter(Last(nav))
    BY <1>5 DEF GoBack
  <2> QED
    BY <1>5, <2>2, <2>3, EnterGrip
<1>6. CASE Back
  <2>0. pc = "back" /\ pc' = "dial" /\ UNCHANGED <<pending, push, lvPressed>>
    BY <1>6 DEF Back
  <2>1. CASE StayHere /\ backed' = backed
    BY <1>0, <2>0, <2>1, StayGrip DEF StayHere
  <2>2. CASE GoBack /\ backed' = lvPressed /\ nav # <<>>
    BY <1>5, <2>0, <2>2
  <2>3. CASE GoBack /\ backed' = lvPressed /\ nav = <<>>
    BY <1>0, <2>0, <2>3, StayGrip DEF GoBack, StayHere
  <2> QED
    BY <1>6, <2>1, <2>2, <2>3 DEF Back
<1>7. CASE Dial
  <2>1. /\ UNCHANGED <<cur, pending, push, lvPressed, focus, grip, backed>> /\ pc = "dial" /\ pc' = "push"
        /\ scan' = scan \/ scan' = [scan EXCEPT !.moved = TRUE]
    BY <1>7 DEF Dial
  <2>2. CASE scan' = scan
    BY <1>0, <2>1, <2>2, StayGrip
  <2>3. CASE scan' = [scan EXCEPT !.moved = TRUE]
    <3>1. /\ {"phase", "moved", "again"} \subseteq DOMAIN scan'
          /\ scan'.moved /\ scan'.phase = scan.phase /\ scan'.again = scan.again
      BY <2>3 DEF GripInv
    <3> QED
      BY <1>0, <2>1, <3>1 DEF GripInv, Meant, Ended
  <2> QED
    BY <2>1, <2>2, <2>3
<1>8. CASE Push
  <2>0. pc = "push" /\ pc' = "action" /\ UNCHANGED <<pending, lvPressed, backed>>
    BY <1>8 DEF Push
  <2>1. CASE StayHere /\ push' \in {"down", "up", push}
    BY <1>0, <2>0, <2>1, StayGrip DEF StayHere
  <2>2. CASE cur.id = "Home" /\ Go("Actions", "unknown")
    <3>1. lvPressed => backed
      BY <2>2 DEF GripInv
    <3> QED
      BY <1>4, <2>0, <2>2, <3>1 DEF Ids
  <2> QED
    BY <1>8, <2>1, <2>2 DEF Push, PushDown, PushUp
<1>9. CASE Hold
  <2>0. pc = "hold" /\ pc' = "live" /\ UNCHANGED <<pending, lvPressed, backed>> /\ pending = NoClick
    BY <1>9 DEF Hold, GripInv
  <2>1. CASE StayHere /\ push' = push
    BY <2>0, <2>1, StayGrip DEF StayHere
  <2>2. CASE cur.id = "Home" /\ Go("Setup", "unknown")
    <3>1. lvPressed => backed
      BY <2>2 DEF GripInv
    <3> QED
      BY <1>4, <2>0, <2>2, <3>1 DEF Ids
  <2> QED
    BY <1>9, <2>1, <2>2 DEF Hold
<1>10. CASE Action
  <2>0. /\ pc = "action" /\ pc' = "hold" /\ UNCHANGED <<push, lvPressed, backed>>
        /\ pending' = NoClick /\ RunAction(pending.row)
    BY <1>10 DEF Action
  <2>1. CASE StayHere
    BY <1>0, <2>0, <2>1, StayGrip DEF StayHere
  <2>2. CASE pending = NoClick
    <3>1. StayHere
      BY <2>0, <2>2 DEF RunAction, NoClick, NoRow, Row
    <3> QED
      BY <2>1, <3>1
  <2>3. CASE pending # NoClick
    <3>0. ~lvPressed
      BY <2>3 DEF GripInv
    <3>1. ASSUME NEW id \in Ids, NEW kind \in Kinds \cup {"unknown"}, Go(id, kind) PROVE GripInv'
      BY <1>4, <2>0, <3>0, <3>1
    <3>2. CASE GoBack /\ nav # <<>>
      BY <1>5, <2>0, <3>0, <3>2
    <3>3. CASE GoBack /\ nav = <<>>
      BY <2>1, <3>3 DEF GoBack
    <3>4. CASE ScanAgain /\ scan.phase \in {"Starting", "Scanning"}
      BY <2>1, <3>4 DEF ScanAgain
    <3>5. CASE ScanAgain /\ scan.phase \notin {"Starting", "Scanning"}
      <4>1. /\ scan' = [NewScan(scan.kind) EXCEPT !.again = scan.again]
            /\ cur.id = "Scan" => focus' = IF scan.again THEN Row("AGAIN") ELSE Row("BACK")
            /\ UNCHANGED <<cur, grip>>
        BY <3>5 DEF ScanAgain, Late
      <4>2. {"phase", "moved", "again"} \subseteq DOMAIN scan' /\ scan'.again = scan.again
        BY <4>1, NewScanFields
      <4>3. cur.id = "Scan" /\ focus' = Row("AGAIN") => scan.again
        <5>1. Row("BACK").act = "BACK" /\ Row("AGAIN").act = "AGAIN"
          BY DEF Row
        <5> QED
          BY <4>1, <5>1
      <4> QED
        BY <2>0, <3>0, <4>1, <4>2, <4>3 DEF GripInv
    <3> QED
      BY <1>0, <2>0, <2>1, <3>1, <3>2, <3>3, <3>4, <3>5, ActionCases
  <2> QED
    BY <2>2, <2>3
<1>11. CASE Live
  BY <1>11, LiveGrip
<1>12. CASE Lvgl
  BY <1>12, LvglGrip
<1>13. CASE Crash
  BY <1>13, CrashGrip
<1> QED
  BY <1>1, <1>2, <1>3, <1>6, <1>7, <1>8, <1>9, <1>10, <1>11, <1>12, <1>13 DEF Next, MainLoop

\* A release of the push button reaches the row that was pressed, however the back button, the dial,
\* the scan and LVGL's own pace interleave, but for the two exceptions that the property names.
THEOREM ClicksAreMeant == Spec => []ClickIsMeant
<1>1. GripInv => ClickIsMeant
  BY DEF GripInv, Meant, ClickIsMeant
<1> QED
  BY <1>1, FreshGrip, NextGrip, ScreensHold, PTL DEF Spec, Init
----------------------------------------------------------------------------
(* Types                                                                   *)

FoundAt == [idx : 1 .. TableMax, addr : Devices]

LEMMA RowIsTyped == ASSUME NEW a, Row(a).act \in {"NONE", "BACK", "YES", "SETUP_LAUNCHER", "SETUP_SWITCHBOARD",
                                               "SCAN", "FORGET", "PREPARE", "AGAIN"}
                    PROVE  Row(a) \in Rows
<1>1. 0 \in 0 .. TableMax
  BY SetupAssumption
<1> QED
  BY <1>1 DEF Row, Rows

LEMMA RowsAreTyped ==
  /\ \A a \in {"NONE", "BACK", "YES", "SETUP_LAUNCHER", "SETUP_SWITCHBOARD", "SCAN", "FORGET", "PREPARE", "AGAIN"} :
       Row(a) \in Rows
  /\ NoRow \in Rows /\ NoGrip \in Grips
<1>1. ASSUME NEW a \in {"NONE", "BACK", "YES", "SETUP_LAUNCHER", "SETUP_SWITCHBOARD", "SCAN", "FORGET", "PREPARE", "AGAIN"}
      PROVE  Row(a) \in Rows
  BY RowIsTyped DEF Row
<1> QED
  BY <1>1 DEF NoRow, NoGrip, Grips

LEMMA FirstRowIsTyped == ASSUME NEW id \in Ids PROVE FirstRow(id) \in Rows
  BY RowsAreTyped DEF FirstRow, Ids

LEMMA DeviceRowIsTyped == ASSUME NEW f \in FoundAt PROVE DeviceRow(f) \in Rows
<1>1. f.idx \in 0 .. TableMax /\ f.addr \in Devices
  BY SetupAssumption DEF FoundAt
<1> QED
  BY <1>1 DEF DeviceRow, Rows

\* Of some rows, one is the first.
LEMMA FirstFoundIsFound ==
  ASSUME NEW rows \in SUBSET FoundAt, rows # {}
  PROVE  \E f \in rows : FirstFound(rows) = DeviceRow(f)
<1> DEFINE I == {f.idx : f \in rows}
<1>1. I \subseteq Nat /\ I # {}
  BY SetupAssumption DEF FoundAt
<1>2. PICK m \in I : \A n \in I : ~(<<n, m>> \in OpToRel(<, Nat))
  BY <1>1, WFMin, NatLessThanWellFounded
<1>3. \A n \in I : m <= n
  <2>1. \A n \in Nat : n < m => <<n, m>> \in OpToRel(<, Nat)
    BY <1>1, <1>2, Zenon DEF OpToRel
  <2>2. \A n \in I : n \in Nat /\ ~(n < m)
    BY <1>1, <1>2, <2>1, Zenon
  <2>3. m \in Nat
    BY <1>1, <1>2, Zenon
  <2> HIDE DEF I
  <2> QED
    BY <2>2, <2>3
<1>4. \E f \in rows : \A g \in rows : f.idx <= g.idx
  BY <1>3
<1>5. (CHOOSE f \in rows : \A g \in rows : f.idx <= g.idx) \in rows
  BY <1>4
<1> QED
  BY <1>5 DEF FirstFound

LEMMA NewScanIsTyped == ASSUME NEW k \in Kinds \cup {"unknown"} PROVE NewScan(k) \in Scans
<1>1. 0 \in 0 .. TableMax /\ 0 \in 0 .. GiveUp
  BY SetupAssumption
<1>2. {} \in SUBSET [idx : 1 .. TableMax, addr : Devices]
  OBVIOUS
<1> QED
  BY <1>1, <1>2 DEF NewScan, Scans

LEMMA ClassifyIsTyped ==
  ASSUME NEW h \in Adverts
  PROVE  Classify(h).kind \in Kinds \cup {"unknown"} /\ Classify(h).conflict \in BOOLEAN
<1>1. h.launcher \in BOOLEAN /\ h.switchboard \in BOOLEAN
  BY SetupAssumption
<1>2. Classify(h).conflict \in BOOLEAN
  BY <1>1 DEF Classify
<1>3. Classify(h).kind \in Kinds \cup {"unknown"}
  BY <1>1 DEF Classify, Kinds
<1> QED
  BY <1>2, <1>3

\* Merging a hit never moves an entry or changes its address.
LEMMA MergeKeepsAddresses ==
  ASSUME NEW t \in Seq(Entries), Len(t) <= TableMax, NEW h \in Adverts
  PROVE  /\ MergeHit(t, h) \in Seq(Entries) /\ Len(MergeHit(t, h)) <= TableMax
         /\ Len(t) <= Len(MergeHit(t, h))
         /\ \A i \in 1 .. Len(t) : MergeHit(t, h)[i].addr = t[i].addr
<1> DEFINE id == Classify(h)
           entry == [addr |-> h.addr, kind |-> id.kind, conflict |-> id.conflict]
           old == {i \in DOMAIN t : t[i].addr = h.addr}
           again == [i \in DOMAIN t |-> IF i \in old THEN entry ELSE t[i]]
<1>1. entry \in Entries /\ entry.addr = h.addr
  <2>1. h.addr \in Devices
    BY SetupAssumption
  <2> QED
    BY <2>1, ClassifyIsTyped DEF Entries
<1> DEFINE unknown == id.kind = "unknown" /\ ~id.conflict
<1>2. MergeHit(t, h) = IF unknown THEN t ELSE IF old # {} THEN again
                       ELSE IF Len(t) >= TableMax THEN t ELSE Append(t, entry)
  BY DEF MergeHit
<1>3. Len(t) \in Nat /\ DOMAIN t = 1 .. Len(t) /\ \A i \in 1 .. Len(t) : t[i] \in Entries
  OBVIOUS
<1> HIDE DEF id, entry, unknown
<1>4. again \in Seq(Entries) /\ Len(again) = Len(t) /\ \A i \in 1 .. Len(t) : again[i].addr = t[i].addr
  <2>1. \A i \in 1 .. Len(t) : again[i] = IF i \in old THEN entry ELSE t[i]
    BY <1>3
  <2>2. again \in [1 .. Len(t) -> Entries]
    BY <1>1, <1>3
  <2> QED
    BY <1>1, <1>3, <2>1, <2>2
<1> HIDE DEF again, old
<1>5. Len(t) < TableMax => /\ Append(t, entry) \in Seq(Entries) /\ Len(Append(t, entry)) = Len(t) + 1
                           /\ \A i \in 1 .. Len(t) : Append(t, entry)[i] = t[i]
  BY <1>1
<1>6. TableMax \in Nat
  BY SetupAssumption
<1>7. CASE MergeHit(t, h) = t
  BY <1>3, <1>7
<1>8. CASE MergeHit(t, h) = again
  BY <1>3, <1>4, <1>8
<1>9. CASE MergeHit(t, h) = Append(t, entry) /\ Len(t) < TableMax
  BY <1>3, <1>5, <1>6, <1>9
<1>10. \/ MergeHit(t, h) = t \/ MergeHit(t, h) = again
       \/ MergeHit(t, h) = Append(t, entry) /\ ~(Len(t) >= TableMax)
  BY <1>2, Zenon
<1>11. ~(Len(t) >= TableMax) <=> Len(t) < TableMax
  BY <1>3, <1>6
<1> QED
  BY <1>7, <1>8, <1>9, <1>10, <1>11

\* What is typed besides the screens, whose types NavInv has.
ClickTypes ==
  /\ pc \in {"poll", "back", "dial", "push", "action", "hold", "live", "lvgl"}
  /\ pending \in [row : Rows, on : Screens, grip : Grips, dialled : BOOLEAN, backed : BOOLEAN]
  /\ push \in {"up", "down", "fired"}
  /\ turned \in BOOLEAN /\ lvPressed \in BOOLEAN /\ backed \in BOOLEAN
FocusTypes == focus \in Rows /\ grip \in Grips /\ dialled \in BOOLEAN /\ freed \in BOOLEAN
ScanTypes == scan \in Scans /\ radio \in BOOLEAN
TableTypes == table \in Seq(Entries) /\ Len(table) <= TableMax
StoreTypes == stored \in [Kinds -> Devices \cup {None}]
QueueTypes == hits \in Seq(Adverts) /\ Len(hits) <= QueueMax
Types == ClickTypes /\ FocusTypes /\ ScanTypes /\ TableTypes /\ StoreTypes /\ QueueTypes

LEMMA ScreenIsTyped == ASSUME NEW s \in Screens PROVE s.id \in Ids /\ s.kind \in Kinds \cup {"unknown"}
  BY DEF Screens

LEMMA NoClickIsTyped ==
  NoClick \in [row : Rows, on : Screens, grip : Grips, dialled : BOOLEAN, backed : BOOLEAN]
  BY RowsAreTyped DEF NoClick, Home, Screens, Ids

LEMMA EnterTypes ==
  ASSUME NEW s \in Screens, Enter(s), ScanTypes
  PROVE  FocusTypes' /\ ScanTypes'
<1>1. FocusTypes'
  BY ScreenIsTyped, FirstRowIsTyped, RowsAreTyped DEF Enter, FocusTypes
<1>2. scan' \in Scans
  <2>1. NewScan("unknown") \in Scans /\ NewScan(s.kind) \in Scans
    BY ScreenIsTyped, NewScanIsTyped
  <2>2. [NewScan("unknown") EXCEPT !.phase = scan.phase] \in Scans
    BY <2>1 DEF ScanTypes, Scans
  <2> QED
    BY <2>1, <2>2 DEF Enter, ScanOf
<1>3. radio' \in BOOLEAN
  BY DEF Enter, ScanTypes
<1> QED
  BY <1>1, <1>2, <1>3 DEF ScanTypes

LEMMA BackTypes ==
  ASSUME NavInv, GoBack, FocusTypes, ScanTypes
  PROVE  FocusTypes' /\ ScanTypes'
<1>1. CASE nav = <<>>
  BY <1>1 DEF GoBack, StayHere, FocusTypes, ScanTypes
<1>2. CASE nav # <<>>
  <2>1. nav \in Seq(Screens) /\ Len(nav) \in Nat /\ Len(nav) > 0
    BY <1>2, EmptySeq DEF NavInv
  <2>2. Last(nav) \in Screens
    BY <2>1 DEF Last
  <2>3. Enter(Last(nav))
    BY <1>2 DEF GoBack
  <2> QED
    BY <2>2, <2>3, EnterTypes
<1> QED
  BY <1>1, <1>2

LEMMA GoTypes ==
  ASSUME NEW id \in Ids, NEW kind \in Kinds \cup {"unknown"}, Go(id, kind), ScanTypes
  PROVE  FocusTypes' /\ ScanTypes'
<1>1. [id |-> id, kind |-> kind] \in Screens /\ Enter([id |-> id, kind |-> kind])
  BY DEF Screens, Go
<1> QED
  BY <1>1, EnterTypes

LEMMA AgainTypes ==
  ASSUME ScanAgain, FocusTypes, ScanTypes
  PROVE  FocusTypes' /\ ScanTypes'
<1>1. CASE scan.phase \in {"Starting", "Scanning"}
  BY <1>1 DEF ScanAgain, StayHere, FocusTypes, ScanTypes
<1>2. CASE scan.phase \notin {"Starting", "Scanning"}
  <2>1. scan.kind \in Kinds \cup {"unknown"} /\ scan.again \in BOOLEAN
    BY DEF ScanTypes, Scans
  <2>2. NewScan(scan.kind) \in Scans
    BY <2>1, NewScanIsTyped
  <2>3. [NewScan(scan.kind) EXCEPT !.again = scan.again] \in Scans
    BY <2>1, <2>2 DEF Scans
  <2> QED
    BY <1>2, <2>3, RowsAreTyped DEF ScanAgain, Late, FocusTypes, ScanTypes
<1> QED
  BY <1>1, <1>2

LEMMA StoreStays ==
  ASSUME NEW k \in Kinds, NEW a \in Devices \cup {None}, StoreTypes
  PROVE  [stored EXCEPT ![k] = a] \in [Kinds -> Devices \cup {None}]
  BY DEF StoreTypes

LEMMA ActionTypes ==
  ASSUME NavInv, TableTypes, FocusTypes, ScanTypes, StoreTypes, NEW row \in Rows,
         row.act = "PICK" /\ cur.id = "Scan" => row.idx \in 1 .. Len(table), RunAction(row)
  PROVE  FocusTypes' /\ ScanTypes' /\ StoreTypes'
<1>1. FocusTypes' /\ ScanTypes'
  <2>1. CASE StayHere
    BY <2>1 DEF StayHere, FocusTypes, ScanTypes
  <2> QED
    BY <2>1, ActionCases, GoTypes, BackTypes, AgainTypes
<1>2. ASSUME row.act = "PICK" PROVE StoreTypes'
  <2>1. CASE stored' = stored
    BY <2>1 DEF StoreTypes
  <2>2. CASE stored' # stored
    <3>1. cur.id = "Scan" /\ scan.kind \in Kinds /\ Save(scan.kind, table[row.idx].addr)
      BY <1>2, <2>2 DEF RunAction, Pick
    <3>2. table[row.idx] \in Entries
      BY <1>2, <3>1 DEF TableTypes
    <3>3. table[row.idx].addr \in Devices
      BY <3>2 DEF Entries
    <3> QED
      BY <3>1, <3>3, StoreStays DEF Save, StoreTypes
  <2> QED
    BY <2>1, <2>2
<1>3. ASSUME row.act = "YES" PROVE StoreTypes'
  <2>1. CASE stored' = stored
    BY <2>1 DEF StoreTypes
  <2>2. CASE stored' # stored
    <3>1. cur.kind \in Kinds /\ stored' = [stored EXCEPT ![cur.kind] = None]
      BY <1>3, <2>2 DEF RunAction, Forget, Erase
    <3> QED
      BY <3>1, StoreStays DEF StoreTypes
  <2> QED
    BY <2>1, <2>2
<1>4. ASSUME row.act \notin {"PICK", "YES"} PROVE StoreTypes'
  <2>1. stored' = stored
    BY <1>4 DEF RunAction
  <2> QED
    BY <2>1 DEF StoreTypes
<1> QED
  BY <1>1, <1>2, <1>3, <1>4

LEMMA RefocusTypes ==
  ASSUME FocusTypes, NEW s \in Scans, scan.rows \subseteq s.rows, Refocus(s), UNCHANGED <<dialled, freed>>
  PROVE  FocusTypes' /\ scan' \in Scans
<1> DEFINE offers == s.phase \in {"Done", "Failed"}
<1>1. scan' \in Scans
  <2>1. offers \in BOOLEAN /\ scan' = [s EXCEPT !.again = offers]
    BY DEF Refocus
  <2> HIDE DEF offers
  <2> QED
    BY <2>1 DEF Scans
<1>2. s.rows \in SUBSET FoundAt
  BY DEF Scans, FoundAt
<1>3. s.rows # {} => FirstFound(s.rows) \in Rows
  BY <1>2, FirstFoundIsFound, DeviceRowIsTyped
<1>4. s.rows # scan.rows => s.rows # {}
  OBVIOUS
<1>5. focus' \in Rows
  <2>1. \/ focus' = focus \/ focus' = Row("AGAIN") \/ focus' = Row("BACK")
        \/ s.rows # {} /\ focus' = FirstFound(s.rows)
    BY <1>4 DEF Refocus
  <2> QED
    BY <1>3, <2>1, RowsAreTyped DEF FocusTypes
<1>6. grip' \in Grips
  <2>1. grip' = [grip EXCEPT !.firm = @ /\ focus' = focus]
    BY DEF Refocus
  <2>2. (grip.firm /\ focus' = focus) \in BOOLEAN
    OBVIOUS
  <2> QED
    BY <2>1, <2>2 DEF Grips, FocusTypes
<1> QED
  BY <1>1, <1>5, <1>6 DEF FocusTypes

----------------------------------------------------------------------------
(* What is saved                                                           *)

Listed(r) == r.idx \in 1 .. Len(table) /\ table[r.idx].addr = r.addr

\* The confirmation and the scan are for the kind of the screen below them, and only those two and
\* the device's screen have one.
KindInv ==
  /\ cur.id \in {"Home", "Setup", "Actions"} => cur.kind = "unknown"
  /\ \A i \in 1 .. Len(nav) : nav[i].id \in {"Home", "Setup", "Actions"} => nav[i].kind = "unknown"
  /\ cur.id \in {"Scan", "Confirm"} => nav # <<>> /\ nav[Len(nav)].kind = cur.kind

\* A row of a found device names an entry with its address, as long as its screen is shown: before
\* the table is cleared its rows are gone, and so is the focus on one and the click on one.
FoundInv ==
  /\ cur.id = "Scan" => scan.kind = cur.kind /\ \A f \in scan.rows : Listed(f)
  /\ cur.id = "Scan" /\ scan.phase = "Starting" => scan.rows = {} /\ focus.act # "PICK"
  /\ focus.act = "PICK" => cur.id = "Scan" /\ Listed(focus)
  /\ pending.row.act = "PICK" =>
       pending.on.id = "Scan" /\ (cur.id = "Scan" => cur = pending.on /\ Listed(pending.row))

\* "Yes" has the focus on the confirmation only, after the dial; a press that reaches the
\* confirmation started there; and a click on it is carried out there or on the device's screen.
YesInv ==
  /\ focus.act = "YES" => focus = Row("YES") /\ cur.id = "Confirm" /\ dialled
  /\ lvPressed /\ cur.id = "Confirm" => grip.firm
  /\ pending.row.act = "YES" =>
       /\ pending.row = Row("YES") /\ pending.on.id = "Confirm" /\ pending.grip.firm /\ pending.dialled
       /\ cur.kind \in {pending.on.kind, "unknown"}

LEMMA NewRowsAreListed ==
  ASSUME TableTypes, NEW s
  PROVE  NewRows(s) \subseteq FoundAt /\ \A f \in NewRows(s) : Listed(f)
<1>1. ASSUME NEW f \in NewRows(s) PROVE f \in FoundAt /\ Listed(f)
  <2>1. PICK i \in 1 .. Len(table) : f = Found(i)
    BY DEF NewRows
  <2>2. f.idx = i /\ f.addr = table[i].addr /\ f = [idx |-> i, addr |-> table[i].addr]
    BY <2>1 DEF Found
  <2>3. table[i] \in Entries /\ Len(table) \in Nat /\ Len(table) <= TableMax /\ TableMax \in Nat
    BY SetupAssumption DEF TableTypes
  <2>4. i \in 1 .. TableMax /\ table[i].addr \in Devices
    BY <2>3 DEF Entries
  <2> QED
    BY <2>2, <2>4 DEF FoundAt, Listed
<1> QED
  BY <1>1

LEMMA SyncedIsTyped ==
  ASSUME TableTypes, ScanTypes, NEW phase \in {"Scanning", "Done"}
  PROVE  /\ [SyncRows(scan) EXCEPT !.phase = phase] \in Scans
         /\ [SyncRows(scan) EXCEPT !.phase = phase].rows = scan.rows \cup NewRows(scan)
<1>1. scan \in Scans /\ NewRows(scan) \subseteq FoundAt /\ scan.rows \subseteq FoundAt
  BY NewRowsAreListed DEF ScanTypes, Scans, FoundAt
<1>2. Len(table) \in 0 .. TableMax
  BY SetupAssumption DEF TableTypes
<1>3. SyncRows(scan) = [scan EXCEPT !.rows = scan.rows \cup NewRows(scan), !.seen = Len(table)]
  BY DEF SyncRows
<1>4. scan.rows \cup NewRows(scan) \in SUBSET [idx : 1 .. TableMax, addr : Devices]
  BY <1>1 DEF FoundAt
<1> DEFINE r == scan.rows \cup NewRows(scan)
<1> HIDE DEF r
<1>5. \A n \in 0 .. TableMax : [[scan EXCEPT !.rows = r, !.seen = n] EXCEPT !.phase = phase].rows = r
  BY <1>1 DEF Scans
<1>6. r \in SUBSET [idx : 1 .. TableMax, addr : Devices]
      => \A n \in 0 .. TableMax : [[scan EXCEPT !.rows = r, !.seen = n] EXCEPT !.phase = phase] \in Scans
  BY <1>1 DEF Scans
<1> QED
  BY <1>2, <1>3, <1>4, <1>5, <1>6 DEF r

\* What scan_update() hands to the rows.
LEMMA LiveCases ==
  ASSUME Live, TableTypes, ScanTypes
  PROVE  \/ UNCHANGED <<scan, focus, grip, radio, hits, table>>
         \/ \E s \in Scans : /\ StartScan \/ UNCHANGED <<radio, hits, table>>
                             /\ Refocus(s) /\ s.rows = scan.rows /\ s.kind = scan.kind
                             /\ radio' \in BOOLEAN /\ cur.id = "Scan" /\ scan.phase = "Starting"
         \/ \E s \in Scans : /\ Refocus(s) /\ s.rows = scan.rows \cup NewRows(scan) /\ s.kind = scan.kind
                             /\ s.phase # "Starting" /\ UNCHANGED <<radio, hits, table>>
                             /\ cur.id = "Scan" /\ scan.phase = "Scanning"
<1> USE DEF ScanTypes
<1>1. CASE cur.id = "Scan" /\ scan.phase = "Starting" /\ Starting
  <2>1. \/ Refocus(scan)
        \/ Refocus([scan EXCEPT !.phase = "Scanning", !.seen = 0])
        \/ Refocus([scan EXCEPT !.phase = "Failed"])
        \/ Refocus([scan EXCEPT !.waited = @ + 1]) /\ scan.waited # GiveUp
    BY <1>1 DEF Starting, Attempt
  <2>2. StartScan \/ UNCHANGED <<radio, hits, table>>
    BY <1>1 DEF Starting, Attempt
  <2>3. radio' \in BOOLEAN
    BY <2>2 DEF StartScan
  <2>4. 0 \in 0 .. TableMax /\ (scan.waited # GiveUp => scan.waited + 1 \in 0 .. GiveUp)
    BY SetupAssumption DEF Scans
  <2>5. [scan EXCEPT !.phase = "Scanning", !.seen = 0] \in Scans
    BY <2>4 DEF Scans
  <2>6. [scan EXCEPT !.phase = "Failed"] \in Scans
    BY DEF Scans
  <2>7. scan.waited # GiveUp => [scan EXCEPT !.waited = @ + 1] \in Scans
    BY <2>4 DEF Scans
  <2>8. \A s \in {scan, [scan EXCEPT !.phase = "Scanning", !.seen = 0], [scan EXCEPT !.phase = "Failed"],
                   [scan EXCEPT !.waited = @ + 1]} : s.rows = scan.rows /\ s.kind = scan.kind
    BY DEF Scans
  <2>9. PICK s \in Scans : Refocus(s) /\ s.rows = scan.rows /\ s.kind = scan.kind
    BY <2>1, <2>5, <2>6, <2>7, <2>8
  <2> QED
    BY <1>1, <2>2, <2>3, <2>9
<1>2. CASE cur.id = "Scan" /\ scan.phase = "Scanning" /\ Scanning
  <2> DEFINE phase == IF radio THEN "Scanning" ELSE "Done"
             s == [SyncRows(scan) EXCEPT !.phase = phase]
  <2>1. Refocus(s) /\ UNCHANGED <<radio, hits, table>>
    BY <1>2 DEF Scanning
  <2>2. phase \in {"Scanning", "Done"}
    OBVIOUS
  <2>3. s.kind = scan.kind /\ s.phase = phase
    BY DEF SyncRows, Scans
  <2> HIDE DEF phase
  <2>4. s \in Scans /\ s.rows = scan.rows \cup NewRows(scan)
    BY <2>2, SyncedIsTyped
  <2> HIDE DEF s
  <2> QED
    BY <1>2, <2>1, <2>2, <2>3, <2>4
<1> QED
  BY <1>1, <1>2 DEF Live

----------------------------------------------------------------------------
(* Types are kept                                                          *)

LEMMA FreshTypes == Fresh => ClickTypes /\ FocusTypes /\ ScanTypes /\ TableTypes /\ QueueTypes
<1> SUFFICES ASSUME Fresh PROVE ClickTypes /\ FocusTypes /\ ScanTypes /\ TableTypes /\ QueueTypes
  OBVIOUS
<1>1. ClickTypes
  BY NoClickIsTyped DEF Fresh, ClickTypes
<1>2. cur.id \in Ids
  BY DEF Fresh, FirstScreen, Home, Ids
<1>3. FocusTypes
  BY <1>2, FirstRowIsTyped, RowsAreTyped DEF Fresh, FocusTypes
<1>4. ScanTypes
  BY NewScanIsTyped DEF Fresh, ScanTypes
<1>5. TableTypes /\ QueueTypes
  BY SetupAssumption DEF Fresh, TableTypes, QueueTypes
<1> QED
  BY <1>1, <1>3, <1>4, <1>5

LEMMA InitTypes == Init => Types
  BY FreshTypes, SetupAssumption DEF Init, Types, StoreTypes

LEMMA CrashKeepsTypes == Crash => ClickTypes' /\ FocusTypes' /\ ScanTypes' /\ TableTypes' /\ QueueTypes'
  BY CrashIsFresh, FreshTypes, PTL

LEMMA PollTypes == ASSUME TableTypes, QueueTypes, Poll PROVE TableTypes' /\ QueueTypes'
<1>1. <<>> \in Seq(Entries) /\ Len(<<>>) <= TableMax
  BY SetupAssumption
<1>2. CASE PollHit
  <2>1. Len(hits) \in Nat /\ Len(hits) > 0 /\ Head(hits) \in Adverts
    BY <1>2, EmptySeq DEF PollHit, QueueTypes
  <2>2. TableTypes'
    BY <1>1, <1>2, <2>1, MergeKeepsAddresses DEF PollHit, TableTypes
  <2>3. Tail(hits) \in Seq(Adverts) /\ Len(Tail(hits)) = Len(hits) - 1
    BY <1>2, <2>1 DEF PollHit, QueueTypes
  <2>4. QueueTypes'
    BY <1>2, <2>1, <2>3, SetupAssumption DEF PollHit, QueueTypes
  <2> QED
    BY <2>2, <2>4
<1>3. CASE PollDone
  BY <1>1, <1>3 DEF PollDone, TableTypes, QueueTypes
<1> QED
  BY <1>2, <1>3 DEF Poll

LEMMA LiveTypes ==
  ASSUME FocusTypes, ScanTypes, TableTypes, QueueTypes, Live
  PROVE  FocusTypes' /\ ScanTypes' /\ TableTypes' /\ QueueTypes'
<1>1. UNCHANGED <<dialled, freed>>
  BY DEF Live
<1>2. ASSUME StartScan \/ UNCHANGED <<radio, hits, table>> PROVE TableTypes' /\ QueueTypes'
  <2>1. CASE UNCHANGED <<hits, table>>
    BY <2>1 DEF TableTypes, QueueTypes
  <2>2. CASE hits' = <<>> /\ table' = <<>>
    BY <2>2, SetupAssumption DEF TableTypes, QueueTypes
  <2> QED
    BY <1>2, <2>1, <2>2 DEF StartScan
<1>3. CASE UNCHANGED <<scan, focus, grip, radio, hits, table>>
  BY <1>1, <1>2, <1>3 DEF FocusTypes, ScanTypes
<1>4. ASSUME NEW s \in Scans, Refocus(s), scan.rows \subseteq s.rows, radio' \in BOOLEAN,
             StartScan \/ UNCHANGED <<radio, hits, table>>
      PROVE  FocusTypes' /\ ScanTypes' /\ TableTypes' /\ QueueTypes'
  BY <1>1, <1>2, <1>4, RefocusTypes DEF ScanTypes
<1>5. radio \in BOOLEAN
  BY DEF ScanTypes
<1> QED
  BY <1>3, <1>4, <1>5, LiveCases

LEMMA LvglTypes ==
  ASSUME NavInv, ClickTypes, FocusTypes, ScanTypes, Lvgl
  PROVE  ClickTypes' /\ FocusTypes'
<1>0. cur \in Screens /\ scan.moved \in BOOLEAN /\ scan.rows \subseteq FoundAt
  BY DEF NavInv, ScanTypes, Scans, FoundAt
<1>1. CASE UNCHANGED <<lvPressed, turned, pending, grip, focus, dialled, backed>>
  BY <1>1 DEF Lvgl, ClickTypes, FocusTypes
<1>2. CASE Read
  <2>1. Forward \in BOOLEAN
    BY DEF Forward
  <2>2. GroupRows \subseteq Rows
    <3>1. \A f \in scan.rows : DeviceRow(f) \in Rows
      BY <1>0, DeviceRowIsTyped
    <3>2. \A r \in GroupRows : \/ r \in {Row("SETUP_LAUNCHER"), Row("SETUP_SWITCHBOARD"), Row("BACK"), Row("SCAN"),
                                         Row("FORGET"), Row("YES"), Row("PREPARE"), Row("AGAIN"), NoRow}
                               \/ \E f \in scan.rows : r = DeviceRow(f)
      BY DEF GroupRows
    <3>3. NoRow \in Rows
      BY RowsAreTyped
    <3> QED
      BY <3>1, <3>2, <3>3, RowsAreTyped
  <2>3. Click \in [row : Rows, on : Screens, grip : Grips, dialled : BOOLEAN, backed : BOOLEAN]
    BY <1>0 DEF Click, ClickTypes, FocusTypes
  <2>4. ClickTypes'
    <3>1. lvPressed' \in BOOLEAN /\ turned' \in BOOLEAN /\ backed' \in BOOLEAN
      BY <1>2, <2>1 DEF Read
    <3>2. pending' = Click /\ pc' = "poll" /\ push' = push
      BY <1>2 DEF Read, Lvgl
    <3> QED
      BY <2>3, <3>1, <3>2 DEF ClickTypes
  <2>5. grip' \in Grips
    <3>1. [firm |-> TRUE, moved |-> scan.moved] \in Grips
      BY <1>0 DEF Grips
    <3> QED
      BY <1>2, <3>1, RowsAreTyped DEF Read, FocusTypes
  <2>6. focus' \in Rows /\ dialled' \in BOOLEAN /\ freed' \in BOOLEAN
    BY <1>2, <2>2 DEF Read, Lvgl, FocusTypes
  <2> QED
    BY <2>4, <2>5, <2>6 DEF FocusTypes
<1> QED
  BY <1>1, <1>2 DEF Lvgl

LEMMA StayTypes == ASSUME FocusTypes, ScanTypes, StayHere PROVE FocusTypes' /\ ScanTypes'
  BY DEF StayHere, FocusTypes, ScanTypes

LEMMA NextTypes == ScreenInv /\ FoundInv /\ Types /\ [Next]_vars => Types'
<1> SUFFICES ASSUME ScreenInv, FoundInv, Types, [Next]_vars PROVE Types'
  OBVIOUS
<1>0. NavInv /\ ClickTypes /\ FocusTypes /\ ScanTypes /\ TableTypes /\ StoreTypes /\ QueueTypes
  BY DEF ScreenInv, Types
<1>1. CASE UNCHANGED vars
  BY <1>0, <1>1 DEF vars, Types, ClickTypes, FocusTypes, ScanTypes, TableTypes, StoreTypes, QueueTypes
<1>2. CASE Poll
  <2>1. ClickTypes' /\ FocusTypes' /\ ScanTypes' /\ StoreTypes'
    BY <1>0, <1>2 DEF Poll, PollHit, PollDone, ClickTypes, FocusTypes, ScanTypes, StoreTypes
  <2> QED
    BY <1>0, <1>2, <2>1, PollTypes DEF Types
<1>3. CASE Back
  <2>1. TableTypes' /\ StoreTypes' /\ QueueTypes'
    BY <1>0, <1>3 DEF Back, TableTypes, StoreTypes, QueueTypes
  <2>2. ClickTypes'
    BY <1>0, <1>3 DEF Back, ClickTypes
  <2>3. FocusTypes' /\ ScanTypes'
    BY <1>0, <1>3, StayTypes, BackTypes DEF Back
  <2> QED
    BY <2>1, <2>2, <2>3 DEF Types
<1>4. CASE Dial
  <2>1. FocusTypes' /\ TableTypes' /\ StoreTypes' /\ QueueTypes'
    BY <1>0, <1>4 DEF Dial, FocusTypes, TableTypes, StoreTypes, QueueTypes
  <2>2. ClickTypes'
    BY <1>0, <1>4 DEF Dial, ClickTypes
  <2>3. [scan EXCEPT !.moved = TRUE] \in Scans
    BY <1>0 DEF ScanTypes, Scans
  <2>4. ScanTypes'
    BY <1>0, <1>4, <2>3 DEF Dial, ScanTypes
  <2> QED
    BY <2>1, <2>2, <2>4 DEF Types
<1>5. CASE Push \/ Hold
  <2>1. TableTypes' /\ StoreTypes' /\ QueueTypes'
    BY <1>0, <1>5 DEF Push, Hold, TableTypes, StoreTypes, QueueTypes
  <2>2. ClickTypes'
    BY <1>0, <1>5 DEF Push, PushDown, PushUp, Hold, ClickTypes
  <2>3. StayHere \/ Go("Actions", "unknown") \/ Go("Setup", "unknown")
    BY <1>5 DEF Push, PushDown, PushUp, Hold
  <2>4. {"Actions", "Setup"} \subseteq Ids
    BY DEF Ids
  <2>5. FocusTypes' /\ ScanTypes'
    BY <1>0, <2>3, <2>4, StayTypes, GoTypes
  <2> QED
    BY <2>1, <2>2, <2>5 DEF Types
<1>6. CASE Action
  <2>1. TableTypes' /\ QueueTypes'
    BY <1>0, <1>6 DEF Action, TableTypes, QueueTypes
  <2>2. ClickTypes'
    BY <1>0, <1>6, NoClickIsTyped DEF Action, ClickTypes
  <2>3. pending.row \in Rows /\ RunAction(pending.row)
    BY <1>0, <1>6 DEF Action, ClickTypes
  <2>4. pending.row.act = "PICK" /\ cur.id = "Scan" => pending.row.idx \in 1 .. Len(table)
    BY DEF FoundInv, Listed
  <2>5. FocusTypes' /\ ScanTypes' /\ StoreTypes'
    BY <1>0, <2>3, <2>4, ActionTypes
  <2> QED
    BY <2>1, <2>2, <2>5 DEF Types
<1>7. CASE Live
  <2>1. ClickTypes' /\ StoreTypes'
    BY <1>0, <1>7 DEF Live, ClickTypes, StoreTypes
  <2> QED
    BY <1>0, <1>7, <2>1, LiveTypes DEF Types
<1>8. CASE Lvgl
  <2>1. ScanTypes' /\ TableTypes' /\ StoreTypes' /\ QueueTypes'
    BY <1>0, <1>8 DEF Lvgl, ScanTypes, TableTypes, StoreTypes, QueueTypes
  <2> QED
    BY <1>0, <1>8, <2>1, LvglTypes DEF Types
<1>9. CASE Advertise
  <2>1. ClickTypes' /\ FocusTypes' /\ ScanTypes' /\ TableTypes' /\ StoreTypes'
    BY <1>0, <1>9 DEF Advertise, ClickTypes, FocusTypes, ScanTypes, TableTypes, StoreTypes
  <2>2. PICK h \in Adverts : hits' = IF Len(hits) < QueueMax THEN Append(hits, h) ELSE hits
    BY <1>9 DEF Advertise
  <2>3. QueueTypes'
    BY <1>0, <2>2, SetupAssumption DEF QueueTypes
  <2> QED
    BY <2>1, <2>3 DEF Types
<1>10. CASE ScanEnds
  BY <1>0, <1>10 DEF ScanEnds, Types, ClickTypes, FocusTypes, ScanTypes, TableTypes, StoreTypes, QueueTypes
<1>12. CASE ClockTurns
  BY <1>0, <1>12 DEF ClockTurns, Types, ClickTypes, FocusTypes, ScanTypes, TableTypes, StoreTypes, QueueTypes
<1>11. CASE Crash
  <2>1. StoreTypes'
    BY <1>0, <1>11, CrashIsFresh DEF StoreTypes
  <2> QED
    BY <1>11, <2>1, CrashKeepsTypes DEF Types
<1> QED
  BY <1>1, <1>2, <1>3, <1>4, <1>5, <1>6, <1>7, <1>8, <1>9, <1>10, <1>11, <1>12 DEF Next, MainLoop

ClockTypes == clock \in {"low", "high"}

LEMMA NextClock == ClockTypes /\ [Next]_vars => ClockTypes'
  BY DEF ClockTypes, vars, Next, MainLoop, Poll, Back, Dial, Push, Action, Crash, Hold, Live, Lvgl, Advertise, ScanEnds,
         ClockTurns

----------------------------------------------------------------------------
(* Kinds, found devices and confirmations are kept                         *)

LEMMA RowActs == /\ \A a : Row(a).act = a
                 /\ \A f : DeviceRow(f).act = "PICK" /\ DeviceRow(f).idx = f.idx /\ DeviceRow(f).addr = f.addr
                 /\ NoClick.row.act = "NONE"
  BY DEF Row, DeviceRow, NoClick, NoRow

LEMMA FirstRowIsHarmless == ASSUME NEW id \in Ids PROVE FirstRow(id).act \notin {"PICK", "YES"}
  BY RowActs DEF FirstRow, NoRow, Ids

LEMMA FreshPurpose == Fresh => KindInv /\ FoundInv /\ YesInv
<1> SUFFICES ASSUME Fresh PROVE KindInv /\ FoundInv /\ YesInv
  OBVIOUS
<1>1. cur \in {Home, [id |-> "Setup", kind |-> "unknown"]} /\ nav \in {<<>>, <<Home>>}
  BY DEF Fresh, FirstScreen, FirstStack
<1>2. cur.id \in {"Home", "Setup"} /\ cur.kind = "unknown" /\ cur.id \in Ids
  BY <1>1 DEF Home, Ids
<1>3. \A i \in 1 .. Len(nav) : nav[i].kind = "unknown"
  BY <1>1 DEF Home
<1>4. focus.act \notin {"PICK", "YES"}
  BY <1>2, FirstRowIsHarmless DEF Fresh
<1>5. pending.row.act = "NONE" /\ ~lvPressed
  BY RowActs DEF Fresh
<1>6. KindInv
  BY <1>2, <1>3 DEF KindInv
<1> QED
  BY <1>2, <1>4, <1>5, <1>6 DEF FoundInv, YesInv

LEMMA CrashPurpose == Crash => KindInv' /\ FoundInv' /\ YesInv'
  BY CrashIsFresh, FreshPurpose, PTL

LEMMA PushKind ==
  ASSUME NavInv, KindInv, NEW id \in Ids, NEW kind \in Kinds \cup {"unknown"}, Go(id, kind),
         id \in {"Home", "Setup", "Actions"} => kind = "unknown",
         id \in {"Scan", "Confirm"} => kind = cur.kind
  PROVE  KindInv'
<1>1. Len(nav) \in Nat /\ Len(nav) < NavMax
  BY RankRange DEF NavInv, NavMax
<1>2. nav' = Append(nav, cur) /\ nav \in Seq(Screens) /\ cur \in Screens
  BY <1>1 DEF Go, NavInv
<1>3. cur' = [id |-> id, kind |-> kind]
  BY DEF Go, Enter
<1>4. /\ nav' \in Seq(Screens) /\ Len(nav') = Len(nav) + 1 /\ nav'[Len(nav) + 1] = cur
      /\ \A i \in 1 .. Len(nav) : nav'[i] = nav[i]
  BY <1>2
<1>5. nav' # <<>>
  BY <1>1, <1>4, EmptySeq
<1>6. ASSUME NEW i \in 1 .. Len(nav'), nav'[i].id \in {"Home", "Setup", "Actions"} PROVE nav'[i].kind = "unknown"
  <2>1. CASE i \in 1 .. Len(nav)
    BY <1>4, <1>6, <2>1 DEF KindInv
  <2>2. CASE i = Len(nav) + 1
    BY <1>4, <1>6, <2>2 DEF KindInv
  <2> QED
    BY <1>1, <1>4, <2>1, <2>2
<1>7. nav'[Len(nav')] = cur
  BY <1>4
<1> QED
  BY <1>3, <1>5, <1>6, <1>7 DEF KindInv

\* Going back never changes the kind to another one.
LEMMA BackKind ==
  ASSUME NavInv, KindInv, GoBack
  PROVE  /\ KindInv' /\ cur'.kind \in {cur.kind, "unknown"}
         /\ nav # <<>> => /\ cur' \in Screens /\ cur'.id \notin {"Scan", "Confirm"} /\ Enter(cur')
<1>1. CASE nav = <<>>
  BY <1>1 DEF GoBack, StayHere, KindInv
<1>2. CASE nav # <<>>
  <2> DEFINE n == Len(nav)
             s == nav[n]
  <2>1. n \in Nat /\ n > 0
    BY <1>2, EmptySeq DEF NavInv
  <2>2. nav' = SubSeq(nav, 1, n - 1) /\ Enter(s) /\ cur' = s
    BY <1>2 DEF GoBack, Front, Last, Enter
  <2>3. s \in Screens /\ Rank(s.id) < 3 /\ Rank(s.id) < Rank(cur.id)
    BY <1>2, <2>1 DEF NavInv
  <2>4. /\ nav' \in Seq(Screens) /\ Len(nav') = n - 1
        /\ \A i \in 1 .. n - 1 : nav'[i] = nav[i]
    BY <1>2, <2>2, FrontEffect DEF NavInv
  <2>5. s.id \notin {"Scan", "Confirm"} /\ s.id \in Ids /\ cur.id \in Ids
    BY <2>3 DEF Rank, NavInv, Screens
  <2>6. s.id \in {"Home", "Setup", "Actions"} => s.kind = "unknown"
    BY <2>1 DEF KindInv
  <2>7. s.kind \in {cur.kind, "unknown"}
    <3>1. CASE cur.id \in {"Scan", "Confirm"}
      BY <3>1 DEF KindInv
    <3>2. CASE cur.id \notin {"Scan", "Confirm"}
      <4>1. s.id \in {"Home", "Setup", "Actions"}
        BY <2>3, <2>5, <3>2 DEF Rank, Ids
      <4> QED
        BY <2>6, <4>1
    <3> QED
      BY <3>1, <3>2
  <2>8. \A i \in 1 .. Len(nav') : nav'[i].id \in {"Home", "Setup", "Actions"} => nav'[i].kind = "unknown"
    BY <2>1, <2>4 DEF KindInv
  <2> HIDE DEF n, s
  <2> QED
    BY <2>2, <2>3, <2>5, <2>6, <2>7, <2>8 DEF KindInv
<1> QED
  BY <1>1, <1>2

\* What a click does, with the kinds of the screens it opens.
LEMMA ActionKinds ==
  ASSUME NavInv, NEW row, RunAction(row)
  PROVE  \/ \E kind \in Kinds : Go("Device", kind)
         \/ Go("Scan", cur.kind) /\ row.act = "SCAN"
         \/ Go("Confirm", cur.kind) /\ row.act = "FORGET"
         \/ GoBack \/ StayHere \/ ScanAgain
<1>1. CASE row.act \in {"SETUP_LAUNCHER", "SETUP_SWITCHBOARD"}
  BY <1>1 DEF RunAction, Kinds
<1>2. CASE row.act \in {"SCAN", "FORGET"}
  BY <1>2 DEF RunAction
<1>3. CASE row.act \notin {"SETUP_LAUNCHER", "SETUP_SWITCHBOARD", "SCAN", "FORGET"}
  BY <1>3 DEF RunAction, Pick, Forget
<1> QED
  BY <1>1, <1>2, <1>3

LEMMA SameKind == ASSUME KindInv, UNCHANGED <<cur, nav>> PROVE KindInv'
  BY DEF KindInv

LEMMA NextKind == ScreenInv /\ KindInv /\ [Next]_vars => KindInv'
<1> SUFFICES ASSUME ScreenInv, KindInv, [Next]_vars PROVE KindInv'
  OBVIOUS
<1>0. NavInv /\ cur.kind \in Kinds \cup {"unknown"}
  BY DEF ScreenInv, NavInv, Screens
<1>1. CASE UNCHANGED <<cur, nav>>
  BY <1>1, SameKind
<1>2. CASE Back
  BY <1>0, <1>1, <1>2, BackKind DEF Back, StayHere
<1>3. CASE Push \/ Hold
  <2>1. StayHere \/ Go("Actions", "unknown") \/ Go("Setup", "unknown")
    BY <1>3 DEF Push, PushDown, PushUp, Hold
  <2> QED
    BY <1>0, <1>1, <2>1, PushKind DEF StayHere, Ids
<1>4. CASE Action
  <2>1. RunAction(pending.row)
    BY <1>4 DEF Action
  <2>2. CASE \E kind \in Kinds : Go("Device", kind)
    BY <1>0, <2>2, PushKind DEF Ids
  <2>3. CASE Go("Scan", cur.kind) \/ Go("Confirm", cur.kind)
    BY <1>0, <2>3, PushKind DEF Ids
  <2>4. CASE GoBack
    BY <1>0, <2>4, BackKind
  <2>5. CASE StayHere \/ ScanAgain
    BY <1>1, <2>5 DEF StayHere, ScanAgain
  <2> QED
    BY <1>0, <2>1, <2>2, <2>3, <2>4, <2>5, ActionKinds
<1>5. CASE Poll \/ Dial \/ Live \/ Lvgl \/ Advertise \/ ScanEnds \/ ClockTurns \/ UNCHANGED vars
  BY <1>1, <1>5 DEF Poll, Dial, Live, Lvgl, Advertise, ScanEnds, ClockTurns, vars
<1>6. CASE Crash
  BY <1>6, CrashPurpose
<1> QED
  BY <1>2, <1>3, <1>4, <1>5, <1>6 DEF Next, MainLoop

LEMMA EnterFound ==
  ASSUME FoundInv, NEW s \in Screens, Enter(s), pending' = NoClick \/ (pending' = pending /\ s.id # "Scan")
  PROVE  FoundInv'
<1>1. cur' = s /\ scan' = ScanOf(s) /\ focus' = FirstRow(s.id) /\ s.id \in Ids
  BY DEF Enter, Screens
<1>2. focus'.act # "PICK"
  BY <1>1, FirstRowIsHarmless
<1>3. scan'.rows = {} /\ (s.id = "Scan" => scan'.kind = s.kind)
  BY <1>1 DEF ScanOf, NewScan
<1> QED
  BY <1>1, <1>2, <1>3, RowActs DEF FoundInv

LEMMA SameFound ==
  ASSUME FoundInv, UNCHANGED <<cur, focus, scan>>, pending' = NoClick \/ pending' = pending,
         cur.id = "Scan" => \A r : Listed(r) => r.idx \in 1 .. Len(table') /\ table'[r.idx].addr = r.addr
  PROVE  FoundInv'
  BY RowActs DEF FoundInv, Listed

LEMMA PollFound == ASSUME FoundInv, TableTypes, QueueTypes, Poll PROVE FoundInv'
<1>1. UNCHANGED <<cur, focus, scan, pending>>
  BY DEF Poll
<1>2. CASE cur.id # "Scan"
  BY <1>1, <1>2, SameFound
<1>3. CASE cur.id = "Scan" /\ PollDone
  BY <1>1, <1>3, SameFound DEF PollDone, Listed
<1>4. CASE cur.id = "Scan" /\ PollHit
  <2>1. Len(hits) \in Nat /\ Len(hits) > 0 /\ Head(hits) \in Adverts
    BY <1>4, EmptySeq DEF PollHit, QueueTypes
  <2>2. table' = MergeHit(table, Head(hits))
    BY <1>4 DEF PollHit
  <2>3. /\ Len(table) \in Nat /\ Len(table') \in Nat /\ Len(table) <= Len(table')
        /\ \A i \in 1 .. Len(table) : table'[i].addr = table[i].addr
    <3>1. MergeHit(table, Head(hits)) \in Seq(Entries)
      BY <2>1, MergeKeepsAddresses DEF TableTypes
    <3> QED
      BY <2>1, <2>2, <3>1, MergeKeepsAddresses DEF TableTypes
  <2>4. \A r : Listed(r) => r.idx \in 1 .. Len(table') /\ table'[r.idx].addr = r.addr
    BY <2>3 DEF Listed
  <2> QED
    BY <1>1, <2>4, SameFound
<1> QED
  BY <1>2, <1>3, <1>4 DEF Poll

\* Which row takes the focus while the scan goes on.
LEMMA RefocusRows ==
  ASSUME NEW s \in Scans, Refocus(s), scan.rows \subseteq s.rows
  PROVE  /\ scan'.rows = s.rows /\ scan'.kind = s.kind /\ scan'.phase = s.phase
         /\ focus' = focus \/ focus' \in {Row("AGAIN"), Row("BACK")} \/ \E f \in s.rows : focus' = DeviceRow(f)
<1>1. scan'.rows = s.rows /\ scan'.kind = s.kind /\ scan'.phase = s.phase
  BY DEF Refocus, Scans
<1>2. s.rows # scan.rows => s.rows # {}
  OBVIOUS
<1>3. \/ focus' = focus \/ focus' = Row("AGAIN") \/ focus' = Row("BACK")
      \/ s.rows # {} /\ focus' = FirstFound(s.rows)
  BY <1>2 DEF Refocus
<1>4. s.rows \in SUBSET FoundAt
  BY DEF Scans, FoundAt
<1> QED
  BY <1>1, <1>3, <1>4, FirstFoundIsFound

LEMMA LiveFound == ASSUME FoundInv, GripInv, TableTypes, ScanTypes, Live PROVE FoundInv'
<1>1. UNCHANGED <<cur, pending>> /\ pending = NoClick
  BY DEF Live, GripInv
<1>2. CASE UNCHANGED <<scan, focus, grip, radio, hits, table>>
  BY <1>1, <1>2, SameFound DEF Listed
<1>3. ASSUME NEW s \in Scans, Refocus(s), s.rows = scan.rows, s.kind = scan.kind, cur.id = "Scan", scan.phase = "Starting"
      PROVE  FoundInv'
  <2>1. scan.rows = {} /\ focus.act # "PICK" /\ scan.kind = cur.kind
    BY <1>3 DEF FoundInv
  <2>2. scan'.rows = {} /\ scan'.kind = cur.kind /\ focus' \in {focus, Row("AGAIN"), Row("BACK")}
    BY <1>3, <2>1, RefocusRows
  <2>3. focus'.act # "PICK"
    BY <2>1, <2>2, RowActs
  <2> QED
    BY <1>1, <2>2, <2>3, RowActs DEF FoundInv
<1>4. ASSUME NEW s \in Scans, Refocus(s), s.rows = scan.rows \cup NewRows(scan), s.kind = scan.kind,
             s.phase # "Starting", UNCHANGED table, cur.id = "Scan"
      PROVE  FoundInv'
  <2>1. \A f \in s.rows : Listed(f)
    BY <1>4, NewRowsAreListed DEF FoundInv
  <2>2. /\ scan'.rows = s.rows /\ scan'.kind = cur.kind /\ scan'.phase # "Starting"
        /\ focus' = focus \/ focus' \in {Row("AGAIN"), Row("BACK")} \/ \E f \in s.rows : focus' = DeviceRow(f)
    BY <1>4, RefocusRows DEF FoundInv
  <2>3. focus'.act = "PICK" => Listed(focus')
    <3>1. CASE focus' = focus
      BY <3>1 DEF FoundInv
    <3>2. CASE focus' \in {Row("AGAIN"), Row("BACK")}
      BY <3>2, RowActs
    <3>3. CASE \E f \in s.rows : focus' = DeviceRow(f)
      BY <2>1, <3>3, RowActs DEF Listed
    <3> QED
      BY <2>2, <3>1, <3>2, <3>3
  <2>4. \A r : Listed(r) => r.idx \in 1 .. Len(table') /\ table'[r.idx].addr = r.addr
    BY <1>4 DEF Listed
  <2> QED
    BY <1>1, <1>4, <2>1, <2>2, <2>3, <2>4, RowActs DEF FoundInv, Listed
<1> QED
  BY <1>2, <1>3, <1>4, LiveCases

\* The rows the dial can reach on each screen, as far as the store is concerned.
LEMMA DialledRow ==
  ASSUME cur \in Screens, NEW r \in GroupRows
  PROVE  /\ r.act = "PICK" => cur.id = "Scan" /\ \E f \in scan.rows : r = DeviceRow(f)
         /\ r.act = "YES" => cur.id = "Confirm" /\ r = Row("YES")
<1>1. cur.id \in Ids
  BY DEF Screens
<1>2. CASE cur.id \in {"Home", "Setup", "Device", "Actions"} /\ ~freed
  BY <1>2, RowActs DEF GroupRows
<1>3. CASE cur.id = "Confirm" /\ ~freed
  BY <1>3, RowActs DEF GroupRows
<1>4. CASE cur.id = "Scan" /\ ~freed
  BY <1>4, RowActs DEF GroupRows
<1>5. CASE freed
  BY <1>5, RowActs DEF GroupRows, NoRow
<1> QED
  BY <1>1, <1>2, <1>3, <1>4, <1>5 DEF Ids

LEMMA LvglFound == ASSUME NavInv, GripInv, FoundInv, Lvgl PROVE FoundInv'
<1>1. UNCHANGED <<cur, scan, table>> /\ pending = NoClick /\ cur \in Screens
  BY DEF Lvgl, GripInv, NavInv
<1>2. focus' = focus \/ focus' \in GroupRows
  BY DEF Lvgl, Read
<1>3. pending' = NoClick \/ (pending'.row = focus /\ pending'.on = cur)
  BY <1>1 DEF Lvgl, Read, Click
<1>4. focus'.act = "PICK" => cur.id = "Scan" /\ Listed(focus') /\ scan.phase # "Starting"
  <2>1. CASE focus' = focus
    BY <2>1 DEF FoundInv
  <2>2. CASE focus' \in GroupRows
    <3> SUFFICES ASSUME focus'.act = "PICK" PROVE cur.id = "Scan" /\ Listed(focus') /\ scan.phase # "Starting"
      OBVIOUS
    <3>1. cur.id = "Scan" /\ \E f \in scan.rows : focus' = DeviceRow(f)
      BY <1>1, <2>2, DialledRow
    <3> QED
      BY <3>1, RowActs DEF FoundInv, Listed
  <2> QED
    BY <1>2, <2>1, <2>2
<1>5. \A r : Listed(r) => r.idx \in 1 .. Len(table') /\ table'[r.idx].addr = r.addr
  BY <1>1 DEF Listed
<1> QED
  BY <1>1, <1>3, <1>4, <1>5, RowActs DEF FoundInv, Listed

LEMMA NextFound == ScreenInv /\ GripInv /\ Types /\ KindInv /\ FoundInv /\ [Next]_vars => FoundInv'
<1> SUFFICES ASSUME ScreenInv, GripInv, Types, KindInv, FoundInv, [Next]_vars PROVE FoundInv'
  OBVIOUS
<1>0. NavInv /\ TableTypes /\ QueueTypes /\ ScanTypes /\ cur.kind \in Kinds \cup {"unknown"}
  BY DEF ScreenInv, Types, NavInv, Screens
<1>1. ASSUME UNCHANGED <<cur, focus, scan, table>>, pending' = NoClick \/ pending' = pending PROVE FoundInv'
  BY <1>1, SameFound DEF Listed
<1>2. ASSUME NEW id \in Ids, NEW kind \in Kinds \cup {"unknown"}, Go(id, kind),
             pending' = NoClick \/ (pending' = pending /\ id # "Scan")
      PROVE  FoundInv'
  <2>1. [id |-> id, kind |-> kind] \in Screens /\ Enter([id |-> id, kind |-> kind])
    BY <1>2 DEF Screens, Go
  <2> QED
    BY <1>2, <2>1, EnterFound
<1>3. ASSUME GoBack, UNCHANGED table, pending' = NoClick \/ pending' = pending PROVE FoundInv'
  <2>1. CASE nav = <<>>
    BY <1>1, <1>3, <2>1 DEF GoBack, StayHere
  <2>2. CASE nav # <<>>
    <3>1. cur' \in Screens /\ cur'.id # "Scan" /\ Enter(cur')
      BY <1>0, <1>3, <2>2, BackKind
    <3> QED
      BY <1>3, <3>1, EnterFound
  <2> QED
    BY <2>1, <2>2
<1>4. CASE Advertise \/ ScanEnds \/ ClockTurns \/ UNCHANGED vars
  BY <1>1, <1>4 DEF Advertise, ScanEnds, ClockTurns, vars
<1>5. CASE Back
  BY <1>1, <1>3, <1>5 DEF Back, StayHere
<1>6. CASE Dial
  <2>1. /\ UNCHANGED <<cur, focus, pending, table>>
        /\ scan' = scan \/ scan' = [scan EXCEPT !.moved = TRUE]
    BY <1>6 DEF Dial
  <2>2. scan'.rows = scan.rows /\ scan'.kind = scan.kind /\ scan'.phase = scan.phase
    BY <1>0, <2>1 DEF ScanTypes, Scans
  <2>3. \A r : Listed(r) => r.idx \in 1 .. Len(table') /\ table'[r.idx].addr = r.addr
    BY <2>1 DEF Listed
  <2> QED
    BY <2>1, <2>2, <2>3 DEF FoundInv, Listed
<1>7. CASE Push \/ Hold
  <2>1. StayHere \/ Go("Actions", "unknown") \/ Go("Setup", "unknown")
    BY <1>7 DEF Push, PushDown, PushUp, Hold
  <2>2. UNCHANGED <<pending, table>>
    BY <1>7 DEF Push, Hold
  <2>3. CASE StayHere
    BY <1>1, <2>2, <2>3 DEF StayHere
  <2>4. CASE Go("Actions", "unknown") \/ Go("Setup", "unknown")
    BY <1>2, <2>2, <2>4 DEF Ids
  <2> QED
    BY <2>1, <2>3, <2>4
<1>8. CASE Action
  <2>1. RunAction(pending.row) /\ pending' = NoClick /\ UNCHANGED table
    BY <1>8 DEF Action
  <2>2. CASE \E kind \in Kinds : Go("Device", kind)
    BY <1>2, <2>1, <2>2 DEF Ids
  <2>3. CASE Go("Scan", cur.kind) \/ Go("Confirm", cur.kind)
    BY <1>0, <1>2, <2>1, <2>3 DEF Ids
  <2>4. CASE GoBack
    BY <1>3, <2>1, <2>4
  <2>5. CASE StayHere \/ (ScanAgain /\ scan.phase \in {"Starting", "Scanning"})
    BY <1>1, <2>1, <2>5 DEF StayHere, ScanAgain
  <2>6. CASE ScanAgain /\ scan.phase \notin {"Starting", "Scanning"}
    <3>1. /\ scan' = [NewScan(scan.kind) EXCEPT !.again = scan.again]
          /\ focus' \in {NoRow, Row("AGAIN"), Row("BACK")} /\ UNCHANGED cur
      BY <2>6 DEF ScanAgain
    <3>2. scan'.rows = {} /\ scan'.kind = scan.kind
      BY <3>1 DEF NewScan
    <3>3. focus'.act # "PICK"
      BY <3>1, RowActs DEF NoRow
    <3> QED
      BY <2>1, <3>1, <3>2, <3>3, RowActs DEF FoundInv
  <2> QED
    BY <1>0, <2>1, <2>2, <2>3, <2>4, <2>5, <2>6, ActionKinds
<1>9. CASE Poll
  BY <1>0, <1>9, PollFound
<1>10. CASE Live
  BY <1>0, <1>10, LiveFound
<1>11. CASE Lvgl
  BY <1>0, <1>11, LvglFound
<1>12. CASE Crash
  BY <1>12, CrashPurpose
<1> QED
  BY <1>4, <1>5, <1>6, <1>7, <1>8, <1>9, <1>10, <1>11, <1>12 DEF Next, MainLoop

\* A screen that is entered offers the safe choice; the confirmation opens after a release only.
LEMMA EnterYes ==
  ASSUME YesInv, NEW s \in Screens, Enter(s), UNCHANGED lvPressed, s.id = "Confirm" => ~lvPressed,
         pending' = NoClick \/ (pending' = pending /\ s.kind \in {cur.kind, "unknown"})
  PROVE  YesInv'
<1>1. cur' = s /\ focus' = FirstRow(s.id) /\ s.id \in Ids
  BY DEF Enter, Screens
<1>2. focus'.act # "YES"
  BY <1>1, FirstRowIsHarmless
<1>3. pending'.row.act = "YES" => pending' = pending /\ s.kind \in {cur.kind, "unknown"}
  BY RowActs
<1> QED
  BY <1>1, <1>2, <1>3 DEF YesInv

LEMMA SameYes ==
  ASSUME YesInv, UNCHANGED <<cur, focus, dialled, lvPressed, grip>>, pending' = NoClick \/ pending' = pending
  PROVE  YesInv'
  BY RowActs DEF YesInv

LEMMA LvglYes == ASSUME NavInv, GripInv, YesInv, Lvgl PROVE YesInv'
<1>1. UNCHANGED cur /\ pending = NoClick /\ cur \in Screens
  BY DEF Lvgl, GripInv, NavInv
<1>2. CASE UNCHANGED <<lvPressed, turned, pending, grip, focus, dialled, backed>>
  BY <1>1, <1>2, SameYes
<1>3. CASE Read
  <2>1. focus'.act = "YES" => focus' = Row("YES") /\ cur.id = "Confirm" /\ dialled'
    <3>1. CASE UNCHANGED <<focus, dialled>>
      BY <3>1 DEF YesInv
    <3>2. CASE focus' \in GroupRows /\ dialled' = (cur.id = "Confirm")
      <4>1. focus'.act = "YES" => cur.id = "Confirm" /\ focus' = Row("YES")
        BY <1>1, <3>2, DialledRow
      <4> QED
        BY <3>2, <4>1
    <3> QED
      BY <1>3, <3>1, <3>2 DEF Read
  <2>2. lvPressed' /\ cur.id = "Confirm" => grip'.firm
    <3>1. lvPressed' => Forward /\ grip' = IF ~lvPressed THEN [firm |-> TRUE, moved |-> scan.moved] ELSE grip
      BY <1>3 DEF Read
    <3> QED
      BY <3>1 DEF YesInv
  <2>3. \/ pending' = NoClick
        \/ lvPressed /\ pending' = [row |-> focus, on |-> cur, grip |-> grip, dialled |-> dialled, backed |-> backed]
    BY <1>1, <1>3 DEF Read, Click
  <2>4. pending'.row.act = "YES" =>
          /\ pending'.row = Row("YES") /\ pending'.on.id = "Confirm" /\ pending'.grip.firm /\ pending'.dialled
          /\ cur.kind \in {pending'.on.kind, "unknown"}
    BY <2>3, RowActs DEF YesInv
  <2> QED
    BY <1>1, <2>1, <2>2, <2>4 DEF YesInv
<1> QED
  BY <1>2, <1>3 DEF Lvgl

LEMMA LiveYes == ASSUME YesInv, GripInv, TableTypes, ScanTypes, Live PROVE YesInv'
<1>1. UNCHANGED <<cur, pending, lvPressed, dialled>>
  BY DEF Live
<1>2. CASE UNCHANGED <<focus, grip>>
  BY <1>1, <1>2, SameYes
<1>3. ASSUME NEW s \in Scans, Refocus(s), scan.rows \subseteq s.rows, cur.id = "Scan" PROVE YesInv'
  <2>1. focus' = focus \/ focus' \in {Row("AGAIN"), Row("BACK")} \/ \E f \in s.rows : focus' = DeviceRow(f)
    BY <1>3, RefocusRows
  <2>2. focus'.act # "YES"
    BY <1>3, <2>1, RowActs DEF YesInv
  <2> QED
    BY <1>1, <1>3, <2>2 DEF YesInv
<1> QED
  BY <1>2, <1>3, LiveCases

LEMMA NextYes == ScreenInv /\ GripInv /\ Types /\ KindInv /\ YesInv /\ [Next]_vars => YesInv'
<1> SUFFICES ASSUME ScreenInv, GripInv, Types, KindInv, YesInv, [Next]_vars PROVE YesInv'
  OBVIOUS
<1>0. NavInv /\ TableTypes /\ ScanTypes /\ cur.kind \in Kinds \cup {"unknown"}
  BY DEF ScreenInv, Types, NavInv, Screens
<1>1. ASSUME NEW id \in Ids, NEW kind \in Kinds \cup {"unknown"}, Go(id, kind), UNCHANGED lvPressed,
             id = "Confirm" => ~lvPressed,
             pending' = NoClick \/ (pending' = pending /\ kind = "unknown")
      PROVE  YesInv'
  <2>1. [id |-> id, kind |-> kind] \in Screens /\ Enter([id |-> id, kind |-> kind])
    BY <1>1 DEF Screens, Go
  <2> QED
    BY <1>1, <2>1, EnterYes
<1>2. ASSUME GoBack, UNCHANGED lvPressed, pending' = NoClick \/ pending' = pending PROVE YesInv'
  <2>1. CASE nav = <<>>
    BY <1>2, <2>1, SameYes DEF GoBack, StayHere
  <2>2. CASE nav # <<>>
    <3>1. cur' \in Screens /\ cur'.id # "Confirm" /\ Enter(cur') /\ cur'.kind \in {cur.kind, "unknown"}
      BY <1>0, <1>2, <2>2, BackKind
    <3> QED
      BY <1>2, <3>1, EnterYes
  <2> QED
    BY <2>1, <2>2
<1>3. CASE Poll \/ Dial \/ Advertise \/ ScanEnds \/ ClockTurns \/ UNCHANGED vars
  BY <1>3, SameYes DEF Poll, Dial, Advertise, ScanEnds, ClockTurns, vars
<1>4. CASE Back
  BY <1>2, <1>4, SameYes DEF Back, StayHere
<1>5. CASE Push \/ Hold
  <2>1. StayHere \/ Go("Actions", "unknown") \/ Go("Setup", "unknown")
    BY <1>5 DEF Push, PushDown, PushUp, Hold
  <2>2. UNCHANGED <<pending, lvPressed>>
    BY <1>5 DEF Push, Hold
  <2>3. CASE StayHere
    BY <2>2, <2>3, SameYes DEF StayHere
  <2>4. CASE Go("Actions", "unknown") \/ Go("Setup", "unknown")
    BY <1>1, <2>2, <2>4 DEF Ids
  <2> QED
    BY <2>1, <2>3, <2>4
<1>6. CASE Action
  <2>1. RunAction(pending.row) /\ pending' = NoClick /\ UNCHANGED lvPressed
    BY <1>6 DEF Action
  <2>2. CASE \E kind \in Kinds : Go("Device", kind)
    BY <1>1, <2>1, <2>2 DEF Ids
  <2>3. CASE Go("Scan", cur.kind)
    BY <1>0, <1>1, <2>1, <2>3 DEF Ids
  <2>4. CASE Go("Confirm", cur.kind) /\ pending.row.act = "FORGET"
    <3>1. ~lvPressed
      BY <2>4, RowActs DEF GripInv
    <3> QED
      BY <1>0, <1>1, <2>1, <2>4, <3>1 DEF Ids
  <2>5. CASE GoBack
    BY <1>2, <2>1, <2>5
  <2>6. CASE StayHere \/ (ScanAgain /\ scan.phase \in {"Starting", "Scanning"})
    BY <2>1, <2>6, SameYes DEF StayHere, ScanAgain
  <2>7. CASE ScanAgain /\ scan.phase \notin {"Starting", "Scanning"}
    <3>1. focus' \in {NoRow, Row("AGAIN"), Row("BACK")} /\ UNCHANGED <<cur, grip, dialled>>
      BY <2>7 DEF ScanAgain
    <3>2. focus'.act # "YES"
      BY <3>1, RowActs DEF NoRow
    <3> QED
      BY <2>1, <3>1, <3>2, RowActs DEF YesInv
  <2> QED
    BY <1>0, <2>1, <2>2, <2>3, <2>4, <2>5, <2>6, <2>7, ActionKinds
<1>7. CASE Live
  BY <1>0, <1>7, LiveYes
<1>8. CASE Lvgl
  BY <1>0, <1>8, LvglYes
<1>9. CASE Crash
  BY <1>9, CrashPurpose
<1> QED
  BY <1>3, <1>4, <1>5, <1>6, <1>7, <1>8, <1>9 DEF Next, MainLoop

SetupInv == ScreenInv /\ FreedInv /\ GripInv /\ Types /\ ClockTypes /\ KindInv /\ FoundInv /\ YesInv

LEMMA SetupHolds == Spec => []SetupInv
<1>1. Init => SetupInv
  BY FreshScreens, FreshGrip, InitTypes, FreshPurpose DEF SetupInv, Init, Fresh, FreedInv, ClockTypes
<1>2. SetupInv /\ [Next]_vars => SetupInv'
  BY NextScreens, NextFreed, NextGrip, NextTypes, NextClock, NextKind, NextFound, NextYes DEF SetupInv
<1> QED
  BY <1>1, <1>2, PTL DEF Spec

\* Every variable keeps its type, the scan its limit of attempts, and queue, table and stack theirs.
THEOREM TypeCorrect == Spec => []TypeOK
<1>1. SetupInv => TypeOK
  <2> SUFFICES ASSUME SetupInv PROVE TypeOK
    OBVIOUS
  <2>1. NavInv /\ ClickTypes /\ FocusTypes /\ ScanTypes /\ ClockTypes /\ TableTypes /\ StoreTypes /\ QueueTypes
    BY DEF SetupInv, ScreenInv, Types
  <2>2. Len(nav) <= NavMax
    <3>1. Len(nav) \in Nat /\ Len(nav) <= Rank(cur.id) /\ Rank(cur.id) \in 0 .. 3
      BY <2>1, RankRange DEF NavInv
    <3> QED
      BY <3>1 DEF NavMax
  <2> QED
    BY <2>1, <2>2 DEF TypeOK, NavInv, ClickTypes, FocusTypes, ScanTypes, ClockTypes, TableTypes, StoreTypes,
       QueueTypes
<1> QED
  BY <1>1, SetupHolds, PTL

\* A record changes by a step of the main loop that carries out a click on "Yes" or on a device.
LEMMA RecordChanges ==
  ASSUME SetupInv, [Next]_vars, NEW k \in Kinds, stored'[k] # stored[k]
  PROVE  \/ pending.row.act = "YES" /\ k = cur.kind /\ stored'[k] = None
         \/ /\ pending.row.act = "PICK" /\ cur.id = "Scan" /\ k = scan.kind
            /\ pending.row.idx \in 1 .. Len(table) /\ stored'[k] = table[pending.row.idx].addr
<1>1. Action
  BY DEF vars, Next, MainLoop, Poll, Back, Dial, Push, Hold, Crash, Live, Lvgl, Advertise, ScanEnds, ClockTurns
<1>2. RunAction(pending.row)
  BY <1>1 DEF Action
<1>3. StoreTypes
  BY DEF SetupInv, Types
<1>4. CASE pending.row.act = "YES"
  <2>1. stored' = [stored EXCEPT ![cur.kind] = None]
    BY <1>2, <1>4 DEF RunAction, Forget, Erase
  <2> QED
    BY <1>3, <1>4, <2>1 DEF StoreTypes
<1>5. CASE pending.row.act = "PICK"
  <2>1. cur.id = "Scan" /\ stored' = [stored EXCEPT ![scan.kind] = table[pending.row.idx].addr]
    BY <1>2, <1>5 DEF RunAction, Pick, Save
  <2>2. pending.row.idx \in 1 .. Len(table)
    BY <1>5, <2>1 DEF SetupInv, FoundInv, Listed
  <2> QED
    BY <1>3, <1>5, <2>1, <2>2 DEF StoreTypes
<1>6. CASE pending.row.act \notin {"YES", "PICK"}
  BY <1>2, <1>6 DEF RunAction
<1> QED
  BY <1>4, <1>5, <1>6

\* A record is erased by "Yes" on the confirmation of its kind only, after the dial, and replaced
\* only by the device whose address stood in the row that was clicked on the scan of its kind.
THEOREM RecordsChangeOnPurpose == Spec => StoreIsDeliberate
<1>1. SetupInv /\ [Next]_vars =>
        [\A k \in Kinds : stored'[k] # stored[k] =>
           IF stored'[k] = None
           THEN /\ pending.row = Row("YES") /\ pending.on = [id |-> "Confirm", kind |-> k]
                /\ pending.grip.firm /\ pending.dialled
           ELSE /\ pending.row.act = "PICK" /\ pending.on = [id |-> "Scan", kind |-> k]
                /\ stored'[k] = pending.row.addr]_vars
  <2> SUFFICES ASSUME SetupInv, [Next]_vars, NEW k \in Kinds, stored'[k] # stored[k]
               PROVE  IF stored'[k] = None
                      THEN /\ pending.row = Row("YES") /\ pending.on = [id |-> "Confirm", kind |-> k]
                           /\ pending.grip.firm /\ pending.dialled
                      ELSE /\ pending.row.act = "PICK" /\ pending.on = [id |-> "Scan", kind |-> k]
                           /\ stored'[k] = pending.row.addr
    OBVIOUS
  <2>0. pending.on \in Screens /\ cur \in Screens /\ k # "unknown"
    BY DEF SetupInv, Types, ClickTypes, ScreenInv, NavInv, Kinds
  <2>1. CASE pending.row.act = "YES" /\ k = cur.kind /\ stored'[k] = None
    <3>1. /\ pending.row = Row("YES") /\ pending.on.id = "Confirm" /\ pending.grip.firm /\ pending.dialled
          /\ pending.on.kind = k
      BY <2>0, <2>1 DEF SetupInv, YesInv
    <3>2. pending.on = [id |-> "Confirm", kind |-> k]
      BY <2>0, <3>1 DEF Screens
    <3> QED
      BY <2>1, <3>1, <3>2
  <2>2. CASE /\ pending.row.act = "PICK" /\ cur.id = "Scan" /\ k = scan.kind
             /\ pending.row.idx \in 1 .. Len(table) /\ stored'[k] = table[pending.row.idx].addr
    <3>1. cur = pending.on /\ stored'[k] = pending.row.addr /\ k = cur.kind
      BY <2>2 DEF SetupInv, FoundInv, Listed
    <3>2. pending.on = [id |-> "Scan", kind |-> k]
      BY <2>0, <2>2, <3>1 DEF Screens
    <3>3. table[pending.row.idx] \in Entries
      BY <2>2 DEF SetupInv, Types, TableTypes
    <3>4. stored'[k] # None
      BY <2>2, <3>3, SetupAssumption DEF Entries
    <3> QED
      BY <2>2, <3>1, <3>2, <3>4
  <2> QED
    BY <2>1, <2>2, RecordChanges
<1> QED
  BY <1>1, SetupHolds, PTL DEF Spec, StoreIsDeliberate
=============================================================================
