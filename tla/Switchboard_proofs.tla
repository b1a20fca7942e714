------------------------- MODULE Switchboard_proofs -------------------------
(***************************************************************************)
(* Proofs about the inputs, MOSFETs, relays and outputs of the             *)
(* switchboard, for every configuration of the board: any number of        *)
(* inputs, MOSFETs, relays, outputs and clients, any resolution of the     *)
(* duty, any threshold and pace of the analog samples, any period of the   *)
(* clock, any length of the timer queue and any number of faults.  The     *)
(* first part is about BoardValues, the second about SwitchboardOutputs.   *)
(***************************************************************************)
EXTENDS BoardValues, SwitchboardOutputs, TLAPS

Masks == [Inputs -> BOOLEAN]
Values == [Mosfets -> 0 .. MaxPercent]

----------------------------------------------------------------------------
(* Duties                                                                  *)

\* Division rounds down.
LEMMA Division ==
    ASSUME NEW x \in Nat, NEW n \in Nat \ {0}
    PROVE  x \div n \in Nat /\ (x \div n) * n <= x /\ x < (x \div n) * n + n
  OBVIOUS

\* Half a percent, rounded down.
LEMMA HalfPercent ==
    /\ MaxPercent \div 2 \in Nat
    /\ 2 * (MaxPercent \div 2) <= MaxPercent
    /\ MaxPercent <= 2 * (MaxPercent \div 2) + 1
  BY ValuesAssumption

LEMMA Product == ASSUME NEW a \in Nat, NEW b \in Nat PROVE a * b \in Nat
  OBVIOUS

LEMMA ProductGrows ==
    ASSUME NEW a \in Nat, NEW b \in Nat, NEW c \in Nat, a <= b
    PROVE  a * c <= b * c
<1>1. PICK d \in Nat : b = a + d
  BY b - a \in Nat
<1>2. b * c = a * c + d * c
  BY <1>1
<1> QED
  BY <1>2, Product

\* percent_to_duty() rounds to the nearest duty, and stays within the resolution.
LEMMA DutyIsNearest ==
    ASSUME NEW p \in 0 .. MaxPercent
    PROVE  /\ PercentToDuty(p) \in 0 .. MaxDuty
           /\ 2 * (PercentToDuty(p) * MaxPercent - p * MaxDuty) <= MaxPercent
           /\ -2 * (PercentToDuty(p) * MaxPercent - p * MaxDuty) <= MaxPercent
<1> DEFINE half == MaxPercent \div 2
           scaled == p * MaxDuty
           duties == PercentToDuty(p)
           back == duties * MaxPercent
<1>1. p \in Nat /\ p <= MaxPercent /\ MaxPercent \in Nat \ {0} /\ MaxDuty \in Nat
  BY ValuesAssumption
<1>2. scaled \in Nat /\ scaled <= MaxPercent * MaxDuty
  BY <1>1, Product, ProductGrows
<1>3. half \in Nat /\ 2 * half <= MaxPercent /\ MaxPercent <= 2 * half + 1
  BY HalfPercent
<1>4. duties \in Nat /\ back <= scaled + half /\ scaled + half < back + MaxPercent
  <2>1. scaled + half \in Nat
    BY <1>2, <1>3
  <2> HIDE DEF half, scaled
  <2>2. duties = (scaled + half) \div MaxPercent
    BY DEF PercentToDuty, half, scaled
  <2> QED
    BY <2>1, <2>2, <1>1, Division
<1>5. back \in Nat
  BY <1>1, <1>4, Product
<1>6. duties <= MaxDuty
  <2>1. SUFFICES ASSUME duties >= MaxDuty + 1 PROVE FALSE
    BY <1>1, <1>4
  <2>2. (MaxDuty + 1) * MaxPercent <= back
    <3> HIDE DEF duties
    <3> QED
      BY <1>1, <1>4, <2>1, ProductGrows
  <2>3. (MaxDuty + 1) * MaxPercent = MaxPercent * MaxDuty + MaxPercent
    BY <1>1
  <2>4. MaxPercent * MaxDuty \in Nat
    BY <1>1, Product
  <2> HIDE DEF back, scaled, half
  <2> QED
    BY <1>1, <1>2, <1>3, <1>4, <1>5, <2>2, <2>3, <2>4
<1> HIDE DEF back, scaled, half, duties
<1>7. 2 * (back - scaled) <= MaxPercent /\ -2 * (back - scaled) <= MaxPercent
  BY <1>1, <1>2, <1>3, <1>4, <1>5
<1> QED
  BY <1>1, <1>4, <1>6, <1>7 DEF back, scaled, duties

LEMMA DutyOfZero == PercentToDuty(0) = 0
<1>1. MaxPercent \in Nat \ {0} /\ MaxDuty \in Nat
  BY ValuesAssumption
<1>2. 0 * MaxDuty = 0
  BY <1>1
<1>3. MaxPercent \div 2 \in Nat /\ MaxPercent \div 2 < MaxPercent
  BY <1>1
<1>4. (MaxPercent \div 2) \div MaxPercent = 0
  BY <1>1, <1>3
<1> QED
  BY <1>2, <1>3, <1>4 DEF PercentToDuty

----------------------------------------------------------------------------
(* Types                                                                   *)

\* What setup() holds between taking a value and writing it.
BufferOK ==
    /\ setupPc = "pushMosfets" => setupBuf \in Values
    /\ setupPc = "pushInputs" => setupBuf \in Masks

Types == TypeOK /\ BufferOK

LEMMA NoInput == Inactive \in Masks
  BY DEF Inactive, Masks

LEMMA AllDark == Off \in Values
  BY ValuesAssumption DEF Off, Values

LEMMA TypesInit == Init => Types
<1> SUFFICES ASSUME Init PROVE Types
  OBVIOUS
<1>1. 0 \in 0 .. MaxPercent /\ 0 \in 0 .. MaxDuty /\ 0 \in 0 .. MaxLevel /\ 0 \in 0 .. MaxClients
      /\ 0 \in 0 .. Wrap - 1 /\ 0 \in 0 .. MinInterval + 1
  BY ValuesAssumption
<1>2. duty \in [Mosfets -> 0 .. MaxDuty]
  BY <1>1 DEF Init, Off
<1> QED
  BY <1>1, <1>2, NoInput, AllDark DEF Init, Types, TypeOK, BufferOK, Masks, Values

\* The duties that belong to values are duties.
LEMMA DutiesType ==
    ASSUME NEW values \in Values
    PROVE  [m \in Mosfets |-> PercentToDuty(values[m])] \in [Mosfets -> 0 .. MaxDuty]
  BY DutyIsNearest DEF Values

LEMMA SetupTypes == ASSUME Types, Setup PROVE Types'
<1> USE DEF Types, TypeOK, BufferOK, Masks, Values, setupVars, inputVars, mosfetVars, analogVars
<1>1. CASE InputsInit
  BY <1>1 DEF InputsInit
<1>2. CASE Attach
  BY <1>2 DEF Attach
<1>3. CASE GetMosfets
  BY <1>3 DEF GetMosfets
<1>4. CASE PushMosfets
  BY <1>4 DEF PushMosfets
<1>5. CASE GetInputs
  BY <1>5 DEF GetInputs
<1>6. CASE PushInputs
  BY <1>6 DEF PushInputs
<1> QED
  BY <1>1, <1>2, <1>3, <1>4, <1>5, <1>6 DEF Setup

LEMMA InputTypes ==
    ASSUME Types, InputTask \/ \E i \in Inputs : Edge(i)
    PROVE  Types'
<1> USE DEF Types, TypeOK, BufferOK, Masks, Values, setupVars, inputVars, mosfetVars, analogVars
<1>1. ASSUME NEW i \in Inputs, Edge(i) PROVE Types'
  <2>1. pins' \in [Inputs -> BOOLEAN]
    BY <1>1 DEF Edge
  <2>2. edge' \in BOOLEAN /\ missed' \in BOOLEAN
    BY <1>1 DEF Edge
  <2> QED
    BY <1>1, <2>1, <2>2 DEF Edge
<1>2. CASE Wake
  BY <1>2 DEF Wake
<1>3. CASE Settle
  BY <1>3 DEF Settle
<1>4. ASSUME NEW i \in Inputs, ReadPin(i) PROVE Types'
  <2>1. pins[i] \in BOOLEAN
    OBVIOUS
  <2>2. mask' \in [Inputs -> BOOLEAN]
    BY <1>4, <2>1 DEF ReadPin
  <2> QED
    BY <1>4, <2>2 DEF ReadPin
<1>5. CASE Compare
  BY <1>5, NoInput DEF Compare
<1>6. CASE PublishInputs
  BY <1>6, NoInput DEF PublishInputs
<1> QED
  BY <1>1, <1>2, <1>3, <1>4, <1>5, <1>6 DEF InputTask

LEMMA SetPercentTypes ==
    ASSUME Types, NEW values \in Values, SetPercent(values)
    PROVE  /\ percentValue' \in Values /\ snapshot' \in Values
           /\ duty' \in [Mosfets -> 0 .. MaxDuty] /\ hostPc' = "publish"
  BY DutiesType DEF SetPercent

LEMMA HostTypes == ASSUME Types, HostTask PROVE Types'
<1> USE DEF Types, TypeOK, BufferOK, setupVars, inputVars, analogVars
<1>0. clients \in 0 .. MaxClients /\ MaxClients \in Nat
  BY ValuesAssumption
<1>1. ASSUME NEW m \in Mosfets, NEW p \in Percents, WriteMosfet(m, p) PROVE Types'
  <2> DEFINE values == [percentValue EXCEPT ![m] = IF p > MaxPercent THEN MaxPercent ELSE p]
  <2>1. (IF p > MaxPercent THEN MaxPercent ELSE p) \in 0 .. MaxPercent
    BY ValuesAssumption
  <2>2. values \in Values
    BY <2>1 DEF Values
  <2>3. SetPercent(values)
    BY <1>1 DEF WriteMosfet
  <2> HIDE DEF values
  <2>4. /\ percentValue' \in Values /\ snapshot' \in Values
        /\ duty' \in [Mosfets -> 0 .. MaxDuty] /\ hostPc' = "publish"
    BY <2>2, <2>3, SetPercentTypes
  <2> QED
    BY <1>1, <2>4 DEF WriteMosfet, Values, Masks
<1>2. CASE WriteIgnored
  BY <1>2 DEF WriteIgnored, Values, Masks
<1>3. CASE PublishMosfets
  BY <1>3, AllDark DEF PublishMosfets, Values, Masks
<1>4. CASE Connect
  <2>1. clients' \in 0 .. MaxClients
    BY <1>4, <1>0 DEF Connect
  <2> QED
    BY <1>4, <2>1 DEF Connect, Values, Masks
<1>5. CASE Disconnect
  <2>1. clients' \in 0 .. MaxClients
    BY <1>5, <1>0 DEF Disconnect
  <2>2. /\ percentValue' \in Values /\ snapshot' \in Values
        /\ duty' \in [Mosfets -> 0 .. MaxDuty] /\ hostPc' \in {"idle", "publish"}
    BY <1>5, AllDark, SetPercentTypes DEF Disconnect, Values
  <2> QED
    BY <1>5, <2>1, <2>2 DEF Disconnect, Values, Masks
<1> QED
  BY <1>1, <1>2, <1>3, <1>4, <1>5 DEF HostTask

LEMMA SampleTypes == ASSUME Types, NEW v \in 0 .. MaxLevel, Sample(v) PROVE Types'
<1>1. sinceNotify' \in 0 .. Wrap - 1
  <2>1. Wrap \in Nat \ {0} /\ sinceNotify \in 0 .. Wrap - 1
    BY ValuesAssumption DEF Types, TypeOK
  <2>2. (sinceNotify + 1) % Wrap \in 0 .. Wrap - 1 /\ 0 \in 0 .. Wrap - 1
    BY <2>1
  <2> QED
    BY <2>2 DEF Sample
<1>2. /\ {latest', analogChar', notified'} \subseteq 0 .. MaxLevel
      /\ first' \in BOOLEAN
  BY DEF Sample, Types, TypeOK
<1>3. offFor' \in 0 .. MinInterval + 1
  BY ValuesAssumption DEF Sample, CountOff, Types, TypeOK
<1> QED
  BY <1>1, <1>2, <1>3 DEF Sample, Types, TypeOK, BufferOK, Masks, Values, setupVars, inputVars, mosfetVars

LEMMA TypesStep == Types /\ [Next]_vars => Types'
<1> SUFFICES ASSUME Types, [Next]_vars PROVE Types'
  OBVIOUS
<1>1. CASE UNCHANGED vars
  BY <1>1 DEF vars, setupVars, inputVars, mosfetVars, analogVars, Types, TypeOK, BufferOK, Masks, Values
<1> QED
  BY <1>1, SetupTypes, InputTypes, HostTypes, SampleTypes DEF Next, AnalogTask

LEMMA TypesHold == Spec => []Types
  BY TypesInit, TypesStep, PTL DEF Spec

\* Type correctness, with the number of clients within its limit and every duty within its resolution.
THEOREM TypeCorrect == Spec => []TypeOK
  BY TypesHold, PTL DEF Types

----------------------------------------------------------------------------
(* Inputs                                                                  *)

\* Once an input has been read, it has its level in the mask, or an edge is waiting, or one was
\* missed. A report under way carries the current mask.
InputInv ==
    /\ dinPc = "read" => \A i \in Inputs \ unread : mask[i] = pins[i] \/ edge \/ missed
    /\ dinPc = "publish" => mask = currentMask
    /\ dinPc \in {"sleep", "publish"} /\ ~edge /\ ~missed => currentMask = pins
    /\ dinPc # "publish" /\ setupPc = "loop" /\ "inputs" \notin overtaken => inputChar = currentMask
    /\ dinPc = "none" <=> setupPc = "inputsInit"

LEMMA InputInit == Init => InputInv
  BY DEF Init, InputInv

LEMMA InputStep == Types /\ InputInv /\ [Next]_vars => InputInv'
<1> SUFFICES ASSUME Types, InputInv, [Next]_vars PROVE InputInv'
  OBVIOUS
<1>0. /\ pins \in [Inputs -> BOOLEAN] /\ mask \in [Inputs -> BOOLEAN]
      /\ currentMask \in [Inputs -> BOOLEAN] /\ edge \in BOOLEAN /\ missed \in BOOLEAN
      /\ unread \subseteq Inputs
  BY DEF Types, TypeOK
<1> USE DEF InputInv, setupVars, inputVars, mosfetVars, analogVars
<1>1. CASE Setup
  <2>1. CASE InputsInit
    BY <2>1 DEF InputsInit
  <2>2. CASE Attach
    BY <2>2 DEF Attach
  <2>3. CASE GetMosfets
    BY <2>3 DEF GetMosfets
  <2>4. CASE PushMosfets
    BY <2>4 DEF PushMosfets
  <2>5. CASE GetInputs
    BY <2>5 DEF GetInputs
  <2>6. CASE PushInputs
    BY <2>6 DEF PushInputs
  <2> QED
    BY <1>1, <2>1, <2>2, <2>3, <2>4, <2>5, <2>6 DEF Setup
<1>2. ASSUME NEW i \in Inputs, Edge(i) PROVE InputInv'
  \* Either the interrupt is attached and wakes the task, or the edge is missed.
  <2>1. edge' \/ missed'
    BY <1>2 DEF Edge
  <2> QED
    BY <1>2, <2>1 DEF Edge
<1>3. CASE InputTask
  <2>1. CASE Wake
    BY <2>1 DEF Wake
  <2>2. CASE Settle
    BY <2>2 DEF Settle
  <2>3. ASSUME NEW i \in Inputs, ReadPin(i) PROVE InputInv'
    <3>1. mask'[i] = pins[i] /\ \A j \in Inputs \ {i} : mask'[j] = mask[j]
      BY <1>0, <2>3 DEF ReadPin
    <3>2. \A j \in Inputs \ unread' : j = i \/ j \in Inputs \ unread
      BY <2>3 DEF ReadPin
    <3> QED
      BY <2>3, <3>1, <3>2 DEF ReadPin
  <2>4. CASE Compare
    \* Every input has been read: the mask is what the inputs are, or an edge tells otherwise.
    <3>1. ~edge /\ ~missed => mask = pins
      <4>1. \A i \in Inputs : mask[i] = pins[i] \/ edge \/ missed
        BY <2>4 DEF Compare
      <4> QED
        BY <1>0, <4>1
    <3> QED
      BY <2>4, <3>1 DEF Compare
  <2>5. CASE PublishInputs
    BY <2>5 DEF PublishInputs
  <2> QED
    BY <1>3, <2>1, <2>2, <2>3, <2>4, <2>5 DEF InputTask
<1>4. CASE HostTask
  BY <1>4 DEF HostTask, WriteMosfet, SetPercent, WriteIgnored, PublishMosfets, Connect, Disconnect
<1>5. CASE AnalogTask
  BY <1>5 DEF AnalogTask, Sample
<1>6. CASE UNCHANGED vars
  BY <1>6 DEF vars
<1> QED
  BY <1>1, <1>2, <1>3, <1>4, <1>5, <1>6 DEF Next

\* Whatever the contacts do while edges are dropped and the inputs are read one by one, a sleeping
\* task has the last mask and clients have it too, with the two exceptions the property names.
THEOREM LastChangeIsReported == Spec => []InputsAreReported
<1>1. InputInv => InputsAreReported
  BY DEF InputInv, InputsAreReported
<1> QED
  BY <1>1, TypesHold, InputInit, InputStep, PTL DEF Spec

----------------------------------------------------------------------------
(* MOSFETs                                                                 *)

\* The duties are those of the values; a report under way carries the values, and what was
\* reported last are the values, unless setup() or an ignored write came after it.
MosfetInv ==
    /\ duty = [m \in Mosfets |-> PercentToDuty(percentValue[m])]
    /\ hostPc = "publish" => snapshot = percentValue
    /\ hostPc = "idle" /\ ~written /\ "mosfets" \notin overtaken => mosfetChar = percentValue
    /\ clients = 0 => percentValue = Off

LEMMA MosfetInit == Init => MosfetInv
  BY DutyOfZero DEF Init, MosfetInv, Off

LEMMA MosfetStep == Types /\ MosfetInv /\ [Next]_vars => MosfetInv'
<1> SUFFICES ASSUME Types, MosfetInv, [Next]_vars PROVE MosfetInv'
  OBVIOUS
<1> USE DEF MosfetInv, setupVars, inputVars, mosfetVars, analogVars
<1>0. clients \in Nat
  BY ValuesAssumption DEF Types, TypeOK
<1>1. CASE Setup
  BY <1>1 DEF Setup, InputsInit, Attach, GetMosfets, PushMosfets, GetInputs, PushInputs
<1>2. CASE InputTask \/ \E i \in Inputs : Edge(i)
  BY <1>2 DEF InputTask, Edge, Wake, Settle, ReadPin, Compare, PublishInputs
<1>3. CASE HostTask
  <2>1. ASSUME NEW m \in Mosfets, NEW p \in Percents, WriteMosfet(m, p) PROVE MosfetInv'
    BY <1>0, <2>1 DEF WriteMosfet, SetPercent
  <2>2. CASE WriteIgnored
    BY <2>2 DEF WriteIgnored
  <2>3. CASE PublishMosfets
    BY <2>3 DEF PublishMosfets
  <2>4. CASE Connect
    BY <1>0, <2>4 DEF Connect
  <2>5. CASE Disconnect
    <3>1. CASE clients' = 0
      BY <2>5, <3>1 DEF Disconnect, SetPercent
    <3>2. CASE clients' # 0
      BY <2>5, <3>2 DEF Disconnect
    <3> QED
      BY <3>1, <3>2
  <2> QED
    BY <1>3, <2>1, <2>2, <2>3, <2>4, <2>5 DEF HostTask
<1>4. CASE AnalogTask
  BY <1>4 DEF AnalogTask, Sample
<1>5. CASE UNCHANGED vars
  BY <1>5 DEF vars
<1> QED
  BY <1>1, <1>2, <1>3, <1>4, <1>5 DEF Next

LEMMA MosfetHolds == Spec => []MosfetInv
  BY TypesHold, MosfetInit, MosfetStep, PTL DEF Spec

\* What clients read of the MOSFETs is within half a percent of the duty that is applied, unless
\* setup() wrote an older value over it or an ignored write left its bytes.
THEOREM DutiesAreReported == Spec => []MosfetsAreReported
<1>1. Types /\ MosfetInv => MosfetsAreReported
  <2> SUFFICES ASSUME Types, MosfetInv, hostPc = "idle", ~written, "mosfets" \notin overtaken,
                      NEW m \in Mosfets
               PROVE  /\ 2 * (duty[m] * MaxPercent - mosfetChar[m] * MaxDuty) <= MaxPercent
                      /\ -2 * (duty[m] * MaxPercent - mosfetChar[m] * MaxDuty) <= MaxPercent
    BY DEF MosfetsAreReported
  <2>1. mosfetChar[m] = percentValue[m] /\ percentValue[m] \in 0 .. MaxPercent
    BY DEF Types, TypeOK, MosfetInv
  <2>2. duty[m] = PercentToDuty(percentValue[m])
    BY DEF MosfetInv
  <2> QED
    BY <2>1, <2>2, DutyIsNearest
<1> QED
  BY <1>1, TypesHold, MosfetHolds, PTL

\* Without clients every MOSFET is dark, also when the last one leaves while setup() still runs.
THEOREM NobodyNoPower == Spec => []NoClientNoPower
<1>1. MosfetInv => NoClientNoPower
  BY DutyOfZero DEF MosfetInv, NoClientNoPower, Off
<1> QED
  BY <1>1, MosfetHolds, PTL

----------------------------------------------------------------------------
(* Analog inputs                                                           *)

\* What was notified is what clients read. While it is off by the threshold, the interval is not
\* over, and it began at least as many samples ago.
AnalogInv ==
    /\ ~first => analogChar = notified
    /\ first => offFor = 0
    /\ offFor > 0 => offFor <= sinceNotify + 1 /\ sinceNotify < MinInterval

LEMMA AnalogStep == Types /\ AnalogInv /\ [Next]_vars => AnalogInv'
<1> SUFFICES ASSUME Types, AnalogInv, [Next]_vars PROVE AnalogInv'
  OBVIOUS
<1> USE DEF AnalogInv, setupVars, inputVars, mosfetVars, analogVars
<1>1. ASSUME NEW v \in 0 .. MaxLevel, Sample(v) PROVE AnalogInv'
  <2> DEFINE age == (sinceNotify + 1) % Wrap
             due == first \/ (Differs(v, notified) /\ age >= MinInterval)
  <2>1. ~Differs(v, v)
    BY ValuesAssumption DEF Differs
  <2>2. /\ MinInterval \in Nat /\ Wrap \in Nat /\ MinInterval < Wrap
        /\ sinceNotify \in 0 .. Wrap - 1 /\ offFor \in 0 .. MinInterval + 1 /\ age \in 0 .. Wrap - 1
    BY ValuesAssumption DEF Types, TypeOK
  <2>3. CASE due
    BY <1>1, <2>1, <2>3 DEF Sample, CountOff
  <2>4. CASE ~due
    <3>1. /\ ~first /\ ~first' /\ sinceNotify' = age /\ analogChar' = analogChar
          /\ notified' = notified /\ latest' = v /\ analogChar = notified
      BY <1>1, <2>4 DEF Sample
    <3>2. CASE ~Differs(v, notified)
      BY <3>1, <3>2, <1>1 DEF Sample, CountOff
    <3>3. CASE Differs(v, notified)
      <4>1. age < MinInterval
        BY <2>4, <3>1, <3>3, <2>2
      <4>2. offFor' = IF offFor > MinInterval THEN offFor ELSE offFor + 1
        BY <1>1, <3>1, <3>3 DEF Sample, CountOff
      <4>3. age = sinceNotify + 1 \/ (age = 0 /\ sinceNotify = Wrap - 1)
        BY <2>2
      <4>4. offFor' <= age + 1
        BY <2>2, <4>2, <4>3
      <4> QED
        BY <3>1, <4>1, <4>4
    <3> QED
      BY <3>2, <3>3
  <2> QED
    BY <2>3, <2>4
<1>2. CASE Setup
  BY <1>2 DEF Setup, InputsInit, Attach, GetMosfets, PushMosfets, GetInputs, PushInputs
<1>3. CASE InputTask \/ \E i \in Inputs : Edge(i)
  BY <1>3 DEF InputTask, Edge, Wake, Settle, ReadPin, Compare, PublishInputs
<1>4. CASE HostTask
  BY <1>4 DEF HostTask, WriteMosfet, SetPercent, WriteIgnored, PublishMosfets, Connect, Disconnect
<1>5. CASE UNCHANGED vars
  BY <1>5 DEF vars
<1> QED
  BY <1>1, <1>2, <1>3, <1>4, <1>5 DEF Next, AnalogTask

\* However slowly a level drifts, whatever the threshold, the throttle and the period of the clock,
\* at most as many samples in a row as the shortest interval has leave clients off by the threshold.
THEOREM LevelsAreClose == Spec => []AnalogIsClose
<1>1. Init => AnalogInv
  BY DEF Init, AnalogInv
<1>2. Types /\ AnalogInv => AnalogIsClose
  BY ValuesAssumption DEF AnalogInv, AnalogIsClose, Types, TypeOK
<1> QED
  BY <1>1, <1>2, AnalogStep, TypesHold, PTL DEF Spec

----------------------------------------------------------------------------
(* Relays, outputs and the expander task: SwitchboardOutputs               *)

Commands == [cmd : {"start", "stop"}, relay : Relays]

\* A command joins the timer queue if there is room, and is lost otherwise.
LEMMA SendTimerType ==
    ASSUME OutputsTypeOK, NEW cmd \in {"start", "stop"}, NEW r \in Relays, SendTimer(cmd, r)
    PROVE  timerQueue' \in Seq(Commands) /\ Len(timerQueue') <= TimerQueueLength
<1>1. [cmd |-> cmd, relay |-> r] \in Commands
  BY DEF Commands
<1>2. timerQueue \in Seq(Commands) /\ Len(timerQueue) <= TimerQueueLength
  BY DEF OutputsTypeOK, Commands
<1>3. CASE Len(timerQueue) < TimerQueueLength
  BY <1>1, <1>2, <1>3, OutputsAssumption DEF SendTimer
<1>4. CASE ~(Len(timerQueue) < TimerQueueLength)
  BY <1>2, <1>4 DEF SendTimer
<1> QED
  BY <1>3, <1>4

\* A pin takes the level that belongs to its state.
LEMMA SetTypes ==
    ASSUME OutputsTypeOK
    PROVE  /\ \A c, s : s \in States /\ SetOutput(c, s) =>
                 /\ state' \in [Channels -> States] /\ shadow' \in [Channels -> BOOLEAN]
                 /\ mcpNotified' \in BOOLEAN
           /\ \A r \in Relays, s \in States : SetRelay(r, s) =>
                 /\ state' \in [Channels -> States] /\ shadow' \in [Channels -> BOOLEAN]
                 /\ timerQueue' \in Seq(Commands) /\ Len(timerQueue') <= TimerQueueLength
                 /\ mcpNotified' \in BOOLEAN
<1>1. \A c, s : s \in States /\ SetOutput(c, s) =>
         /\ state' \in [Channels -> States] /\ shadow' \in [Channels -> BOOLEAN]
         /\ mcpNotified' \in BOOLEAN
  BY DEF OutputsTypeOK, SetOutput, SetPin
<1>2. ASSUME NEW r \in Relays, NEW s \in States, SetRelay(r, s)
      PROVE  /\ state' \in [Channels -> States] /\ shadow' \in [Channels -> BOOLEAN]
             /\ timerQueue' \in Seq(Commands) /\ Len(timerQueue') <= TimerQueueLength
             /\ mcpNotified' \in BOOLEAN
  <2>1. timerQueue' \in Seq(Commands) /\ Len(timerQueue') <= TimerQueueLength
    BY <1>2, SendTimerType DEF SetRelay
  <2> QED
    BY <1>2, <2>1 DEF OutputsTypeOK, SetRelay, SetPin
<1> QED
  BY <1>1, <1>2

LEMMA OutputsTypeInit == OutputsInit => OutputsTypeOK
<1> SUFFICES ASSUME OutputsInit PROVE OutputsTypeOK
  OBVIOUS
<1> USE OutputsAssumption DEF OutputsInit
<1>1. /\ state \in [Channels -> States] /\ shadow \in [Channels -> BOOLEAN]
      /\ copy \in [Channels -> BOOLEAN] /\ relayChar \in [Relays -> States]
      /\ outputChar \in [Outputs -> States]
      /\ latch \in [Channels -> BOOLEAN]
  BY DEF BootState, AllOff, AllLow, States, ResetLatch
<1>2. timerQueue \in Seq(Commands) /\ Len(timerQueue) <= TimerQueueLength
  OBVIOUS
<1>3. /\ next \in 1 .. NumRelays + NumOutputs + 1 /\ connected \in 0 .. MaxClients
      /\ faults \in 0 .. MaxFaults
  OBVIOUS
<1> HIDE OutputsAssumption
<1> QED
  BY <1>1, <1>2, <1>3 DEF OutputsTypeOK, Commands

\* The host task.  The all-off loops stay within the channels.
LEMMA OutputsTypeHost == OutputsTypeOK /\ OutputsHostTask => OutputsTypeOK'
<1> SUFFICES ASSUME OutputsTypeOK, OutputsHostTask PROVE OutputsTypeOK'
  OBVIOUS
<1> USE OutputsAssumption DEF OutputsTypeOK, softVars, timerVars, hostVars, charVars, mcpVars,
   chipVars
<1>1. CASE ClientConnects \/ ClientDisconnects \/ RelayWriteIgnored \/ OutputWriteIgnored
  BY <1>1 DEF ClientConnects, ClientDisconnects, RelayWriteIgnored, OutputWriteIgnored
<1>2. CASE RelayOff
  <2>1. next \in Relays
    BY <1>2 DEF RelayOff, Relays
  <2>2. /\ state' \in [Channels -> States] /\ shadow' \in [Channels -> BOOLEAN]
        /\ timerQueue' \in Seq(Commands) /\ Len(timerQueue') <= TimerQueueLength
        /\ mcpNotified' \in BOOLEAN
    BY <1>2, <2>1, SetTypes DEF RelayOff, States
  <2>3. next' \in 1 .. NumRelays + NumOutputs + 1
    BY <1>2 DEF RelayOff
  <2> QED
    BY <1>2, <2>2, <2>3 DEF RelayOff, Commands
<1>3. CASE RelaysOffDone
  BY <1>3 DEF RelaysOffDone
<1>4. CASE PublishRelays
  <2>1. RelayStates \in [Relays -> States]
    BY DEF RelayStates, Channels
  <2> QED
    BY <1>4, <2>1 DEF PublishRelays
<1>5. CASE OutputOff
  <2>1. /\ state' \in [Channels -> States] /\ shadow' \in [Channels -> BOOLEAN]
        /\ mcpNotified' \in BOOLEAN
    BY <1>5, SetTypes DEF OutputOff, States
  <2>2. next' \in 1 .. NumRelays + NumOutputs + 1 /\ outputsPc' \in {"publishOutputs", "outputsOff"}
    BY <1>5 DEF OutputOff
  <2> QED
    BY <1>5, <2>1, <2>2 DEF OutputOff
<1>6. ASSUME NEW r \in Relays, NEW s \in States, WriteRelay(r, s)
      PROVE  OutputsTypeOK'
  <2>1. /\ state' \in [Channels -> States] /\ shadow' \in [Channels -> BOOLEAN]
        /\ timerQueue' \in Seq(Commands) /\ Len(timerQueue') <= TimerQueueLength
        /\ mcpNotified' \in BOOLEAN
    BY <1>6, SetTypes DEF WriteRelay
  <2> QED
    BY <1>6, <2>1 DEF WriteRelay, Commands
<1>7. ASSUME NEW o \in Outputs, NEW s \in {"off", "on"}, WriteOutput(o, s)
      PROVE  OutputsTypeOK'
  <2>1. /\ state' \in [Channels -> States] /\ shadow' \in [Channels -> BOOLEAN]
        /\ mcpNotified' \in BOOLEAN
    BY <1>7, SetTypes DEF WriteOutput, States
  <2> QED
    BY <1>7, <2>1 DEF WriteOutput
<1>8. CASE PublishOutputs
  <2>1. OutputStates \in [Outputs -> States]
    BY DEF OutputStates, Channels
  <2> QED
    BY <1>8, <2>1 DEF PublishOutputs
<1> QED
  BY <1>1, <1>2, <1>3, <1>4, <1>5, <1>6, <1>7, <1>8 DEF OutputsHostTask, HostWork

LEMMA OutputsTypeTimer == OutputsTypeOK /\ TimerTask => OutputsTypeOK'
<1> SUFFICES ASSUME OutputsTypeOK, TimerTask PROVE OutputsTypeOK'
  OBVIOUS
<1> USE DEF softVars, timerVars, hostVars, charVars, mcpVars, chipVars
<1>1. CASE TimerCommand
  <2>1. timerQueue \in Seq(Commands) /\ timerQueue # <<>>
    BY <1>1 DEF TimerCommand, OutputsTypeOK, Commands
  <2>2. /\ Head(timerQueue) \in Commands /\ timerQueue' \in Seq(Commands)
        /\ Len(timerQueue') <= Len(timerQueue)
    BY <1>1, <2>1 DEF TimerCommand
  <2>3. Len(timerQueue') <= TimerQueueLength
    BY <2>1, <2>2, OutputsAssumption DEF OutputsTypeOK
  <2>4. timerOn' \subseteq Relays
    BY <1>1, <2>2 DEF TimerCommand, OutputsTypeOK, Commands
  <2> QED
    BY <1>1, <2>2, <2>3, <2>4 DEF TimerCommand, OutputsTypeOK, Commands
<1>2. ASSUME NEW r \in Relays, Blink(r) PROVE OutputsTypeOK'
  BY <1>2 DEF Blink, SetPin, OutputsTypeOK
<1> QED
  BY <1>1, <1>2 DEF TimerTask

LEMMA OutputsTypeMcp == OutputsTypeOK /\ McpTask => OutputsTypeOK'
<1> SUFFICES ASSUME OutputsTypeOK, McpTask PROVE OutputsTypeOK'
  OBVIOUS
<1> USE DEF OutputsTypeOK, softVars, timerVars, hostVars, charVars, chipVars, EndPass,
   AllLow
<1>1. CASE McpWake
  BY <1>1 DEF McpWake
<1>2. CASE CopyShadow
  BY <1>2 DEF CopyShadow
<1>3. CASE LatchFails
  BY <1>3 DEF LatchFails
<1>4. CASE LatchWritten
  BY <1>4 DEF LatchWritten, Direction
<1>5. CASE DirectionFails
  BY <1>5 DEF DirectionFails
<1>6. CASE DirectionWritten
  BY <1>6 DEF DirectionWritten
<1> QED
  BY <1>1, <1>2, <1>3, <1>4, <1>5, <1>6 DEF McpTask

LEMMA OutputsTypeFaults == OutputsTypeOK /\ (Glitch \/ Restart) => OutputsTypeOK'
<1> SUFFICES ASSUME OutputsTypeOK, Glitch \/ Restart PROVE OutputsTypeOK'
  OBVIOUS
<1>1. /\ next' \in 1 .. NumRelays + NumOutputs + 1 /\ connected' \in 0 .. MaxClients
      /\ faults' \in 0 .. MaxFaults
  BY OutputsAssumption DEF OutputsTypeOK, Glitch, Restart, hostVars
<1> USE DEF OutputsTypeOK, softVars, timerVars, hostVars, charVars, mcpVars, chipVars
<1>2. CASE Glitch
  <2>1. latch' \in [Channels -> BOOLEAN] /\ driven' \in BOOLEAN /\ glitched' \in BOOLEAN
        /\ struck' \in BOOLEAN
    <3>1. ResetLatch \in [Channels -> BOOLEAN]
      BY DEF ResetLatch
    <3> QED
      BY <1>2, <3>1 DEF Glitch
  <2>2. /\ UNCHANGED <<state, shadow, timerOn, timerQueue, outputsPc, next, connected, charVars>>
        /\ UNCHANGED <<mcpNotified, mcpPc, periodic, copy, configured>>
    BY <1>2 DEF Glitch
  <2> QED
    BY <1>1, <2>1, <2>2
<1>3. CASE Restart
  <2>1. /\ state' \in [Channels -> States] /\ shadow' \in [Channels -> BOOLEAN]
        /\ copy' \in [Channels -> BOOLEAN] /\ relayChar' \in [Relays -> States]
        /\ outputChar' \in [Outputs -> States]
    BY <1>3 DEF Restart, BootState, AllOff, AllLow, States
  <2>2. timerQueue' \in Seq(Commands) /\ Len(timerQueue') <= TimerQueueLength
    BY <1>3, OutputsAssumption DEF Restart
  <2> QED
    BY <1>1, <1>3, <2>1, <2>2 DEF Restart, Commands
<1> QED
  BY <1>2, <1>3

LEMMA OutputsTypeStep == OutputsTypeOK /\ [OutputsNext]_outputsVars => OutputsTypeOK'
<1> SUFFICES ASSUME OutputsTypeOK, [OutputsNext]_outputsVars PROVE OutputsTypeOK'
  OBVIOUS
<1>1. CASE UNCHANGED outputsVars
  BY <1>1 DEF outputsVars, OutputsTypeOK, softVars, timerVars, hostVars, charVars,
     mcpVars, chipVars
<1> QED
  BY <1>1, OutputsTypeHost, OutputsTypeTimer, OutputsTypeMcp, OutputsTypeFaults DEF OutputsNext

\* Every variable keeps its type, and the timer queue its limit, in every
\* interleaving of the host task, the timer task, mcp_task and restarts.
THEOREM OutputsTypeCorrect == OutputsSpec => []OutputsTypeOK
BY OutputsTypeInit, OutputsTypeStep, PTL DEF OutputsSpec

----------------------------------------------------------------------------
(* Relays and outputs against their states *)

LEMMA SteadyStep == OutputsTypeOK /\ SteadyIsSteady /\ [OutputsNext]_outputsVars => SteadyIsSteady'
<1> SUFFICES ASSUME OutputsTypeOK, SteadyIsSteady, [OutputsNext]_outputsVars PROVE SteadyIsSteady'
  OBVIOUS
<1> USE DEF SteadyIsSteady
<1>0. state \in [Channels -> States] /\ shadow \in [Channels -> BOOLEAN]
  BY DEF OutputsTypeOK
<1>1. CASE UNCHANGED softVars
  BY <1>1 DEF softVars
<1>2. ASSUME NEW c, NEW s, SetOutput(c, s) PROVE SteadyIsSteady'
  BY <1>0, <1>2 DEF SetOutput, SetPin
<1>3. ASSUME NEW c, NEW s, SetRelay(c, s) PROVE SteadyIsSteady'
  BY <1>0, <1>3 DEF SetRelay, SetPin
<1>4. ASSUME NEW r \in Relays, Blink(r) PROVE SteadyIsSteady'
  BY <1>0, <1>4 DEF Blink, SetPin, Channels
<1>5. CASE Restart
  BY <1>5 DEF Restart, BootState, AllOff, AllLow
<1>6. CASE OutputsHostTask
  BY <1>1, <1>2, <1>3, <1>6 DEF OutputsHostTask, HostWork, ClientConnects, ClientDisconnects,
     RelayOff,
     RelaysOffDone, PublishRelays, OutputOff, WriteRelay, RelayWriteIgnored,
     WriteOutput, PublishOutputs, OutputWriteIgnored, softVars
<1>7. CASE TimerTask
  BY <1>1, <1>4, <1>7 DEF TimerTask, TimerCommand
<1>8. CASE McpTask \/ Glitch
  BY <1>1, <1>8 DEF McpTask, McpWake, CopyShadow, LatchFails, LatchWritten,
     DirectionFails,
     DirectionWritten, Glitch
<1> QED
  BY <1>1, <1>5, <1>6, <1>7, <1>8 DEF OutputsNext, outputsVars, softVars

\* A relay or output that was switched on or off stays so, however late its
\* blink timer expires or is stopped: blink_cb() looks at the state again.
THEOREM SteadyStaysSteady == OutputsSpec => []SteadyIsSteady
<1>1. OutputsInit => SteadyIsSteady
  BY DEF OutputsInit, BootState, AllOff, AllLow, SteadyIsSteady
<1> QED
  BY <1>1, OutputsTypeInit, OutputsTypeStep, SteadyStep, PTL DEF OutputsSpec

----------------------------------------------------------------------------
(* The chip against the shadow.  A pass is only as good as its copy: as    *)
(* long as no notification came since, the copy is the shadow.             *)

ChipInv ==
    /\ configured /\ ~glitched => driven
    /\ mcpPc \in {"latch", "direction"} /\ ~mcpNotified => copy = shadow
    /\ mcpPc = "direction" /\ ~struck => latch = copy
    /\ struck => glitched /\ mcpPc = "direction"
    /\ mcpPc = "wait" /\ ~mcpNotified /\ configured /\ ~glitched => latch = shadow

LEMMA ChipInit == OutputsInit => ChipInv
BY DEF OutputsInit, ChipInv

\* Whoever changes the shadow leaves a notification.
LEMMA Notifies ==
    ASSUME OutputsHostTask \/ TimerTask
    PROVE  /\ shadow' # shadow => mcpNotified'
           /\ mcpNotified => mcpNotified'
           /\ UNCHANGED <<mcpVars, chipVars>>
<1> USE DEF softVars, timerVars, hostVars, charVars, mcpVars, chipVars
<1>1. CASE OutputsHostTask
  BY <1>1 DEF OutputsHostTask, HostWork, ClientConnects, ClientDisconnects, RelayOff,
     RelaysOffDone, PublishRelays,
     OutputOff, PublishOutputs, WriteRelay, RelayWriteIgnored, WriteOutput, OutputWriteIgnored, SetOutput,
     SetRelay, SetPin
<1>2. CASE TimerTask
  BY <1>2 DEF TimerTask, TimerCommand, Blink, SetPin
<1> QED
  BY <1>1, <1>2

LEMMA ChipStep == OutputsTypeOK /\ ChipInv /\ [OutputsNext]_outputsVars => ChipInv'
<1> SUFFICES ASSUME OutputsTypeOK, ChipInv, [OutputsNext]_outputsVars PROVE ChipInv'
  OBVIOUS
<1> USE DEF ChipInv, softVars, mcpVars, chipVars
<1>1. CASE UNCHANGED outputsVars
  BY <1>1 DEF outputsVars
<1>2. CASE OutputsHostTask \/ TimerTask
  BY <1>2, Notifies
<1>3. CASE McpWake
  BY <1>3 DEF McpWake
<1>4. CASE CopyShadow
  BY <1>4 DEF CopyShadow
<1>5. CASE LatchFails
  BY <1>5 DEF LatchFails, EndPass
<1>6. CASE LatchWritten
  BY <1>6 DEF LatchWritten, EndPass, Direction
<1>7. CASE DirectionFails
  BY <1>7 DEF DirectionFails, EndPass
<1>8. CASE DirectionWritten
  BY <1>8 DEF DirectionWritten, EndPass
<1>9. CASE Glitch
  BY <1>9 DEF Glitch
<1>10. CASE Restart
  BY <1>10 DEF Restart
<1> QED
  BY <1>1, <1>2, <1>3, <1>4, <1>5, <1>6, <1>7, <1>8, <1>9, <1>10 DEF OutputsNext, McpTask

LEMMA ChipAlways == OutputsSpec => [](OutputsTypeOK /\ ChipInv)
BY OutputsTypeInit, OutputsTypeStep, ChipInit, ChipStep, PTL DEF OutputsSpec

\* When mcp_task sleeps, has nothing left to do and believes the chip is
\* configured, the chip drives what is wanted, however transactions failed
\* and writes interleaved with them, unless the chip lost its registers.
THEOREM ChipFollowsShadow == OutputsSpec => []ChipFollows
<1>1. ChipInv => ChipFollows
  BY DEF ChipInv, ChipFollows
<1> QED
  BY <1>1, ChipAlways, PTL

\* The pins become outputs only over the levels of this pass, unless the chip lost its registers
\* after this pass wrote them.
THEOREM NoGlitches == OutputsSpec => NoGlitchOnLoads
<1>1. OutputsTypeOK /\ ChipInv /\ [OutputsNext]_outputsVars =>
         [~driven /\ driven' /\ ~struck => \A c \in Channels : latch[c] => copy[c]]_outputsVars
  <2> SUFFICES ASSUME OutputsTypeOK, ChipInv, [OutputsNext]_outputsVars, ~driven, driven', ~struck
               PROVE  latch = copy
    OBVIOUS
  <2>1. mcpPc = "direction"
    <3> USE DEF softVars, mcpVars, chipVars
    <3>1. ~UNCHANGED driven
      OBVIOUS
    <3>2. ~(OutputsHostTask \/ TimerTask) /\ ~UNCHANGED outputsVars
      BY <3>1, Notifies DEF outputsVars
    <3> QED
      BY <3>1, <3>2 DEF OutputsNext, McpTask, McpWake, CopyShadow, LatchFails,
         LatchWritten, DirectionFails,
         DirectionWritten, Glitch, Restart
  <2> QED
    BY <2>1 DEF ChipInv
<1> QED
  BY <1>1, ChipAlways, PTL DEF OutputsSpec, NoGlitchOnLoads
=============================================================================
