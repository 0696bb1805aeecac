-------------------------- MODULE LHRTimersProofs --------------------------
(***************************************************************************)
(* Proofs about LHRTimers.  The argument: a difference that counts down    *)
(* from less than half the clock's range reaches 0 exactly when the        *)
(* deadline is there (RemainingSteps), so a sleeping application always    *)
(* has at most NextUpdateInMs left to sleep (SleepWithinDeadline); and     *)
(* NextUpdateInMs is 0 if update() has something to do, unless a deadline  *)
(* was left alone for half the clock's range.  None is (TimersInv): what   *)
(* is left to do before the device is quiet gets less with every call of   *)
(* update() that finds something to do, and those calls are not far apart. *)
(***************************************************************************)
EXTENDS LHRTimers, TLAPS

-----------------------------------------------------------------------------
(* Arithmetic of the clock *)

Ages   == 0 .. ClockMod - 1
Delays == 0 .. Half - 1

LEMMA HalfFacts ==
  /\ Half \in Nat /\ Half > 1 /\ 2 * Half <= ClockMod
  /\ ClockMod \in Nat \ {0} /\ Half < ClockMod
BY TimersAssumption DEF Half

\* The delays are shorter than half the range of the clock.
LEMMA DelayFacts ==
  /\ BeaconInterval \in Delays /\ RfcnWait \in Delays /\ TxMax \in Delays
  /\ ResendDelay \in Delays /\ 2 * ResendDelay \in Delays
  /\ Jitters \subseteq Delays
BY TimersAssumption, HalfFacts DEF Delays

\* A stamp gets older by one until the clock wraps.
LEMMA OlderFacts ==
  ASSUME NEW age \in Ages
  PROVE  /\ Older(age) \in Ages
         /\ Older(age) = IF age + 1 < ClockMod THEN age + 1 ELSE 0
BY HalfFacts DEF Older, Ages

\* What dueIn() returns is a delay; 0 means that the deadline is there.
LEMMA DueInFacts ==
  ASSUME NEW age \in Ages, NEW d \in Delays
  PROVE  /\ DueIn(age, d) \in Delays
         /\ DueIn(age, d) = 0 => age >= d
         /\ age >= d /\ InReach(age, d) => DueIn(age, d) = 0
BY HalfFacts DEF DueIn, Remaining, InReach, Ages, Delays

\* A deadline to come is a millisecond nearer after a millisecond.
LEMMA RemainingSteps ==
  ASSUME NEW age \in Ages, NEW d \in Delays, DueIn(age, d) > 0
  PROVE  DueIn(Older(age), d) = DueIn(age, d) - 1
<1>1. Older(age) = IF age + 1 < ClockMod THEN age + 1 ELSE 0
  BY OlderFacts
<1>2. Remaining(age, d) < Half /\ Remaining(age, d) > 0
  BY HalfFacts DEF DueIn, Remaining, Ages, Delays
<1>3. Remaining(Older(age), d) = Remaining(age, d) - 1
  BY <1>1, <1>2, HalfFacts DEF Remaining, Ages, Delays
<1> QED
  BY <1>2, <1>3, HalfFacts DEF DueIn, Remaining, Ages, Delays

-----------------------------------------------------------------------------
(* Types *)

\* What _transmit() does to the transmission keeps its types.
LEMMA AttemptTypes ==
  ASSUME TypeOK, Attempt
  PROVE  txInProgress' \in BOOLEAN /\ txDone' \in BOOLEAN /\ txAge' \in Ages
<1>1. CASE txInProgress' = TRUE /\ txAge' = 0 /\ UNCHANGED txDone
  <2>1. txInProgress' \in BOOLEAN
    BY <1>1
  <2> QED
    BY <1>1, <2>1, HalfFacts DEF TypeOK, Ages
<1>2. CASE UNCHANGED txVars
  BY <1>2 DEF TypeOK, Ages, txVars
<1> QED
  BY <1>1, <1>2 DEF Attempt

\* Scheduling an NDAT keeps the types of its timer.
LEMMA ScheduleTypes ==
  ASSUME ScheduleNdat
  PROVE  ndatPending' \in BOOLEAN /\ ndatJitter' \in Jitters /\ ndatAge' \in Ages
<1>1. ndatPending' \in BOOLEAN
  BY DEF ScheduleNdat
<1> QED
  BY <1>1, HalfFacts DEF ScheduleNdat, Ages

\* Ending a retry cycle keeps the types of its state.
LEMMA ResetTypes ==
  ASSUME TypeOK, ResetDataResState
  PROVE  /\ waitingForDataRes' \in BOOLEAN /\ ownDataPending' \in BOOLEAN
         /\ dataResCycleActive' \in BOOLEAN /\ dataResend' \in BOOLEAN
         /\ requestedRFCN' \in BOOLEAN /\ localRetryCount' \in 0 .. MaxRetries
         /\ dataResAge' \in Ages /\ rfcnAge' \in Ages
<1>1. /\ ownDataPending' \in BOOLEAN
      /\ dataResCycleActive' \in BOOLEAN /\ dataResend' \in BOOLEAN
      /\ requestedRFCN' \in BOOLEAN
  BY DEF ResetDataResState
<1>2. waitingForDataRes' \in BOOLEAN
  BY DEF ResetDataResState, TypeOK
<1>3. localRetryCount' \in 0 .. MaxRetries /\ dataResAge' \in Ages /\ rfcnAge' \in Ages
  BY HalfFacts, TimersAssumption DEF ResetDataResState, Ages
<1> QED
  BY <1>1, <1>2, <1>3

\* The types, by the parts of the state that the steps change together.
TxTypes   == txInProgress \in BOOLEAN /\ txDone \in BOOLEAN /\ txAge \in Ages
WaitTypes == waitingForDataRes \in BOOLEAN /\ ownDataPending \in BOOLEAN
CycleTypes ==
  /\ dataResCycleActive \in BOOLEAN /\ dataResend \in BOOLEAN
  /\ requestedRFCN \in BOOLEAN /\ localRetryCount \in 0 .. MaxRetries
  /\ dataResAge \in Ages /\ rfcnAge \in Ages
NdatTypes ==
  ndatPending \in BOOLEAN /\ ndatJitter \in Jitters /\ ndatAge \in Ages
BeaconTypes == beaconDue \in BOOLEAN /\ beaconAge \in Ages
AppTypes ==
  /\ packetReceived \in BOOLEAN
  /\ sleepMs \in Delays /\ late \in 0 .. MaxLate /\ traffic \in 0 .. MaxTraffic

LEMMA TypeParts ==
  /\ TypeOK <=> /\ TxTypes /\ WaitTypes /\ CycleTypes
                /\ NdatTypes /\ BeaconTypes /\ AppTypes
  /\ TypeOK' <=> /\ TxTypes' /\ WaitTypes' /\ CycleTypes'
                 /\ NdatTypes' /\ BeaconTypes' /\ AppTypes'
BY DEF TypeOK, TxTypes, WaitTypes, CycleTypes, NdatTypes, BeaconTypes, AppTypes, Ages, Delays

\* What getNextUpdateInMs() returns is a delay.
LEMMA NextUpdateType ==
  ASSUME TypeOK
  PROVE  /\ NextUpdateInMs \in Delays /\ RetryDueIn \in Delays
         /\ QuietDueIn \in Delays
         /\ NdatDueIn \in Delays /\ BeaconDueIn \in Delays
<1>1. /\ txAge \in Ages /\ dataResAge \in Ages /\ rfcnAge \in Ages
      /\ ndatAge \in Ages /\ beaconAge \in Ages /\ ndatJitter \in Delays
  BY DelayFacts DEF TypeOK, Ages
<1>2. 0 \in Delays
  BY HalfFacts DEF Delays
<1>3. /\ DueIn(txAge, TxMax) \in Delays /\ DueIn(rfcnAge, RfcnWait) \in Delays
      /\ DueIn(dataResAge, ResendDelay) \in Delays
      /\ DueIn(dataResAge, 2 * ResendDelay) \in Delays
  BY <1>1, DelayFacts, DueInFacts
<1>4. NdatDueIn \in Delays /\ BeaconDueIn \in Delays
  BY <1>1, DelayFacts, DueInFacts DEF NdatDueIn, BeaconDueIn
<1>5. RetryDueIn \in Delays
  BY <1>2, <1>3 DEF RetryDueIn
<1>6. QuietDueIn \in Delays
  BY <1>2, <1>4 DEF QuietDueIn
<1> QED
  BY <1>2, <1>3, <1>4, <1>5, <1>6 DEF NextUpdateInMs

\* A call of update() while the application is awake keeps the types of what
\* belongs to the application.
LEMMA CalledTypes ==
  ASSUME TypeOK, Called
  PROVE  sleepMs' \in Delays /\ late' \in 0 .. MaxLate
BY HalfFacts, TimersAssumption DEF TypeOK, Called, Delays

\* Noting a beacon keeps its types.
LEMMA NoteBeaconTypes ==
  ASSUME TypeOK, NoteBeacon
  PROVE  BeaconTypes'
BY DEF TypeOK, NoteBeacon, BeaconTypes, Ages

\* What a step leaves alone keeps its type.
LEMMA UnchangedTypes ==
  ASSUME TypeOK
  PROVE  /\ UNCHANGED txVars => TxTypes'
         /\ UNCHANGED <<waitingForDataRes, ownDataPending>> => WaitTypes'
         /\ UNCHANGED cycleVars => CycleTypes'
         /\ UNCHANGED retryVars => WaitTypes' /\ CycleTypes'
         /\ UNCHANGED ndatVars => NdatTypes'
         /\ UNCHANGED beaconVars => BeaconTypes'
         /\ UNCHANGED traffic => traffic' \in 0 .. MaxTraffic
         /\ UNCHANGED packetReceived => packetReceived' \in BOOLEAN
         /\ UNCHANGED late => late' \in 0 .. MaxLate
BY TypeParts DEF TxTypes, WaitTypes, CycleTypes, NdatTypes, BeaconTypes, AppTypes,
                 txVars, cycleVars, retryVars, ndatVars, beaconVars

\* A call of update() keeps the types.
LEMMA UpdateTypes ==
  ASSUME TypeOK, Update
  PROVE  TypeOK'
<1> USE UnchangedTypes DEF AppTypes
<1>1. CASE UpdateTxEnd
  <2>1. TxTypes'
    <3>1. txInProgress' \in BOOLEAN /\ txDone' \in BOOLEAN
      BY <1>1 DEF UpdateTxEnd
    <3> QED
      BY <1>1, <3>1, HalfFacts DEF UpdateTxEnd, TxTypes, Ages
  <2> QED
    BY <1>1, <2>1, CalledTypes, TypeParts DEF UpdateTxEnd
<1>2. CASE ReadFrame
  <2>1. packetReceived' \in BOOLEAN
    BY <1>2 DEF ReadFrame
  <2>2. TxTypes' /\ WaitTypes' /\ CycleTypes' /\ NdatTypes'
    <3>1. CASE /\ Attempt /\ waitingForDataRes' \in BOOLEAN
               /\ UNCHANGED <<ownDataPending, cycleVars, ndatVars>>
      BY <3>1, AttemptTypes, TypeParts DEF TxTypes, WaitTypes
    <3>2. CASE ScheduleNdat /\ UNCHANGED <<txVars, retryVars>>
      BY <3>2, ScheduleTypes DEF NdatTypes
    <3>3. CASE ResetDataResState /\ UNCHANGED <<txVars, ndatVars>>
      BY <3>3, ResetTypes DEF WaitTypes, CycleTypes
    <3>4. CASE UNCHANGED <<txVars, retryVars, ndatVars>>
      BY <3>4
    <3> QED
      BY <1>2, <3>1, <3>2, <3>3, <3>4 DEF ReadFrame
  <2> QED
    BY <1>2, <2>1, <2>2, CalledTypes, TypeParts DEF ReadFrame
<1>3. CASE GiveUp
  BY <1>3, ResetTypes, CalledTypes, TypeParts DEF GiveUp, WaitTypes, CycleTypes
<1>4. CASE InitialSend
  <2>1. CycleTypes'
    <3>1. /\ dataResCycleActive' \in BOOLEAN /\ dataResend' \in BOOLEAN
          /\ requestedRFCN' \in BOOLEAN
      BY <1>4 DEF InitialSend
    <3>2. localRetryCount' \in 0 .. MaxRetries
      BY <1>4, TimersAssumption DEF InitialSend, Exhausted, NextRetryCount, TypeOK
    <3> QED
      BY <1>4, <3>1, <3>2, HalfFacts DEF InitialSend, CycleTypes, Ages
  <2> QED
    BY <1>4, <2>1, AttemptTypes, NoteBeaconTypes, CalledTypes, TypeParts
    DEF InitialSend, TxTypes
<1>5. CASE Escalate
  <2>1. CycleTypes'
    <3>1. dataResend' \in BOOLEAN /\ requestedRFCN' \in BOOLEAN
      BY <1>5 DEF Escalate
    <3> QED
      BY <1>5, <3>1, HalfFacts DEF Escalate, CycleTypes, Ages, TypeOK
  <2> QED
    BY <1>5, <2>1, AttemptTypes, NoteBeaconTypes, CalledTypes, TypeParts
    DEF Escalate, TxTypes
<1>6. CASE EndCycle
  <2>1. CycleTypes'
    <3>1. /\ dataResCycleActive' \in BOOLEAN /\ dataResend' \in BOOLEAN
          /\ requestedRFCN' \in BOOLEAN
      BY <1>6 DEF EndCycle
    <3> QED
      BY <1>6, <3>1, HalfFacts DEF EndCycle, CycleTypes, Ages, TypeOK
  <2> QED
    BY <1>6, <2>1, NoteBeaconTypes, CalledTypes, TypeParts DEF EndCycle
<1>7. CASE Resend
  <2>1. CycleTypes'
    <3>1. dataResend' \in BOOLEAN
      BY <1>7 DEF Resend
    <3> QED
      BY <1>7, <3>1 DEF Resend, CycleTypes, Ages, TypeOK
  <2> QED
    BY <1>7, <2>1, AttemptTypes, NoteBeaconTypes, CalledTypes, TypeParts
    DEF Resend, TxTypes
<1>8. CASE SendNdat
  <2>1. NdatTypes'
    <3>1. ndatPending' \in BOOLEAN
      BY <1>8 DEF SendNdat
    <3> QED
      BY <1>8, <3>1, HalfFacts DEF SendNdat, NdatTypes, Ages, TypeOK
  <2> QED
    BY <1>8, <2>1, AttemptTypes, CalledTypes, TypeParts DEF SendNdat, TxTypes
<1>9. CASE SendBeacon
  <2>1. BeaconTypes'
    <3>1. beaconDue' \in BOOLEAN
      BY <1>9 DEF SendBeacon
    <3> QED
      BY <1>9, <3>1, HalfFacts DEF SendBeacon, BeaconTypes, Ages
  <2>2. NdatTypes'
    BY <1>9, ScheduleTypes DEF SendBeacon, NdatTypes
  <2>3. traffic' \in 0 .. MaxTraffic
    BY <1>9, TimersAssumption DEF SendBeacon
  <2> QED
    BY <1>9, <2>1, <2>2, <2>3, AttemptTypes, CalledTypes, TypeParts
    DEF SendBeacon, TxTypes
<1>10. CASE UpdateIdle
  BY <1>10, NoteBeaconTypes, CalledTypes, TypeParts DEF UpdateIdle
<1> QED
  BY <1>1, <1>2, <1>3, <1>4, <1>5, <1>6, <1>7, <1>8, <1>9, <1>10 DEF Update

\* A millisecond keeps the types.
LEMMA TickTypes ==
  ASSUME TypeOK, Tick
  PROVE  TypeOK'
<1>1. /\ Older(txAge) \in Ages /\ Older(dataResAge) \in Ages
      /\ Older(rfcnAge) \in Ages /\ Older(ndatAge) \in Ages
      /\ Older(beaconAge) \in Ages
  BY OlderFacts DEF TypeOK, Ages
<1>2. /\ txAge' \in Ages /\ dataResAge' \in Ages /\ rfcnAge' \in Ages
      /\ ndatAge' \in Ages /\ beaconAge' \in Ages
  BY <1>1, HalfFacts DEF Tick, Ages
<1>3. sleepMs' \in Delays /\ late' \in 0 .. MaxLate
  BY HalfFacts, TimersAssumption DEF Tick, TypeOK, Delays
<1> QED
  BY <1>2, <1>3, TypeParts
  DEF Tick, TxTypes, WaitTypes, CycleTypes, NdatTypes, BeaconTypes, AppTypes

\* Every step keeps the types.
LEMMA TypePreserved ==
  ASSUME TypeOK, [Next]_vars
  PROVE  TypeOK'
<1> USE UnchangedTypes DEF AppTypes
<1>1. CASE GoToSleep
  <2>1. sleepMs' \in Delays
    BY <1>1, NextUpdateType, HalfFacts DEF GoToSleep, Delays
  <2> QED
    BY <1>1, <2>1, TypeParts, TimersAssumption DEF GoToSleep
<1>2. CASE TransmissionEnds
  <2>1. txDone' \in BOOLEAN /\ sleepMs' \in Delays
    BY <1>2, HalfFacts DEF TransmissionEnds, Delays
  <2> QED
    BY <1>2, <2>1, TypeParts DEF TransmissionEnds, TxTypes
<1>3. CASE FrameArrives
  <2>1. packetReceived' \in BOOLEAN /\ sleepMs' \in Delays
    BY <1>3, HalfFacts DEF FrameArrives, Delays
  <2>2. traffic' \in 0 .. MaxTraffic
    BY <1>3, TimersAssumption DEF FrameArrives, TypeOK
  <2> QED
    BY <1>3, <2>1, <2>2, TypeParts DEF FrameArrives
<1>4. CASE SendData
  <2>1. WaitTypes'
    BY <1>4, TypeParts DEF SendData, WaitTypes
  <2>2. traffic' \in 0 .. MaxTraffic
    BY <1>4, TimersAssumption DEF SendData, TypeOK
  <2> QED
    BY <1>4, <2>1, <2>2, TypeParts DEF SendData
<1>5. CASE UNCHANGED vars
  BY <1>5, TypeParts DEF vars, appVars
<1> QED
  BY <1>1, <1>2, <1>3, <1>4, <1>5, TickTypes, UpdateTypes DEF Next

\* The program starts with values of the right types.
LEMMA InitTypes ==
  ASSUME Init
  PROVE  TypeOK
<1>1. TxTypes
  <2>1. txInProgress \in BOOLEAN /\ txDone \in BOOLEAN
    BY DEF Init
  <2> QED
    BY <2>1, HalfFacts DEF Init, TxTypes, Ages
<1>2. WaitTypes
  BY DEF Init, WaitTypes
<1>3. CycleTypes
  <2>1. dataResCycleActive \in BOOLEAN /\ dataResend \in BOOLEAN /\ requestedRFCN \in BOOLEAN
    BY DEF Init
  <2> QED
    BY <2>1, HalfFacts, TimersAssumption DEF Init, CycleTypes, Ages
<1>4. NdatTypes
  <2>1. ndatPending \in BOOLEAN
    BY DEF Init
  <2> QED
    BY <2>1, HalfFacts DEF Init, NdatTypes, Ages
<1>5. BeaconTypes
  <2>1. beaconDue \in BOOLEAN
    BY DEF Init
  <2> QED
    BY <2>1, HalfFacts DEF Init, BeaconTypes, Ages
<1>6. AppTypes
  <2>1. packetReceived \in BOOLEAN
    BY DEF Init
  <2> QED
    BY <2>1, HalfFacts, TimersAssumption DEF Init, AppTypes, Delays
<1> QED
  BY <1>1, <1>2, <1>3, <1>4, <1>5, <1>6, TypeParts

\* Timers and flags keep their types for every clock and every choice of
\* delays below half its range.
THEOREM TypeCorrect == Spec => []TypeOK
BY InitTypes, TypePreserved, PTL DEF Spec

-----------------------------------------------------------------------------
(* getNextUpdateInMs() against update() *)

\* What the facts about dueIn() say of the deadlines.
LEMMA DeadlineFacts ==
  ASSUME TypeOK
  PROVE  /\ txAge \in Ages /\ dataResAge \in Ages /\ rfcnAge \in Ages
         /\ ndatAge \in Ages /\ beaconAge \in Ages
         /\ ndatJitter \in Delays
BY DelayFacts DEF TypeOK, Ages

\* 0 is only returned when there is something to do.
LEMMA ZeroMeansWork ==
  ASSUME TypeOK, NextUpdateInMs = 0
  PROVE  HasWork
<1>1. CASE txInProgress
  <2>1. txDone \/ DueIn(txAge, TxMax) = 0
    BY <1>1 DEF NextUpdateInMs
  <2>2. txDone \/ txAge >= TxMax
    BY <2>1, DeadlineFacts, DelayFacts, DueInFacts
  <2> QED
    BY <1>1, <2>2 DEF HasWork, TxOverdue
<1>2. CASE ~ txInProgress /\ packetReceived
  BY <1>2 DEF HasWork
<1>3. CASE Retrying
  <2>1. RetryDueIn = 0
    BY <1>3 DEF NextUpdateInMs, Retrying
  <2>2. RetryIsDue
    <3>1. CASE ~ dataResCycleActive
      BY <3>1 DEF RetryIsDue
    <3>2. CASE dataResCycleActive /\ requestedRFCN
      <4>1. rfcnAge >= RfcnWait
        BY <2>1, <3>2, DeadlineFacts, DelayFacts, DueInFacts DEF RetryDueIn
      <4> QED
        BY <3>2, <4>1 DEF RetryIsDue, RfcnWaitOver
    <3>3. CASE dataResCycleActive /\ ~ requestedRFCN /\ dataResend
      <4>1. dataResAge >= 2 * ResendDelay
        BY <2>1, <3>3, DeadlineFacts, DelayFacts, DueInFacts DEF RetryDueIn
      <4> QED
        BY <3>3, <4>1 DEF RetryIsDue, EscalationDue
    <3>4. CASE dataResCycleActive /\ ~ requestedRFCN /\ ~ dataResend
      <4>1. dataResAge >= ResendDelay
        BY <2>1, <3>4, DeadlineFacts, DelayFacts, DueInFacts DEF RetryDueIn
      <4> QED
        BY <3>4, <4>1 DEF RetryIsDue, ResendDue
    <3> QED
      BY <3>1, <3>2, <3>3, <3>4
  <2> QED
    BY <1>3, <2>2 DEF HasWork
<1>4. CASE Quiet
  <2>1. QuietDueIn = 0
    BY <1>4 DEF NextUpdateInMs, Quiet
  <2>2. beaconDue \/ (ndatPending /\ NdatDueIn = 0) \/ BeaconDueIn = 0
    BY <2>1 DEF QuietDueIn
  <2>3. /\ NdatDueIn = 0 => ndatAge >= ndatJitter
        /\ BeaconDueIn = 0 => beaconAge >= BeaconInterval
    BY DeadlineFacts, DelayFacts, DueInFacts DEF NdatDueIn, BeaconDueIn
  <2> QED
    BY <1>4, <2>2, <2>3 DEF HasWork, NdatIsDue, BeaconIsDue
<1> QED
  BY <1>1, <1>2, <1>3, <1>4 DEF Retrying, Quiet

\* When there is something to do and no deadline is out of reach, 0 is
\* returned.
LEMMA WorkMeansZero ==
  ASSUME TypeOK, NothingForgottenForLong, HasWork
  PROVE  NextUpdateInMs = 0
<1>1. CASE txInProgress /\ txDone
  BY <1>1 DEF NextUpdateInMs
<1>2. CASE txInProgress /\ ~ txDone
  <2>1. txAge >= TxMax
    BY <1>2 DEF HasWork, TxOverdue, Retrying, Quiet
  <2>2. DueIn(txAge, TxMax) = 0
    BY <1>2, <2>1, DeadlineFacts, DelayFacts, DueInFacts DEF NothingForgottenForLong
  <2> QED
    BY <1>2, <2>2 DEF NextUpdateInMs
<1>3. CASE ~ txInProgress /\ packetReceived
  BY <1>3 DEF NextUpdateInMs
<1>4. CASE Retrying
  <2>1. RetryIsDue
    BY <1>4 DEF HasWork, Retrying, Quiet
  <2>2. RetryDueIn = 0
    <3>1. CASE ~ dataResCycleActive
      BY <3>1 DEF RetryDueIn
    <3>2. CASE dataResCycleActive /\ requestedRFCN
      <4>1. rfcnAge >= RfcnWait
        BY <2>1, <3>2 DEF RetryIsDue, EscalationDue, ResendDue, RfcnWaitOver
      <4>2. DueIn(rfcnAge, RfcnWait) = 0
        BY <3>2, <4>1, DeadlineFacts, DelayFacts, DueInFacts DEF NothingForgottenForLong
      <4> QED
        BY <3>2, <4>2 DEF RetryDueIn
    <3>3. CASE dataResCycleActive /\ ~ requestedRFCN /\ dataResend
      <4>1. dataResAge >= 2 * ResendDelay
        BY <2>1, <3>3 DEF RetryIsDue, EscalationDue, ResendDue, RfcnWaitOver
      <4>2. DueIn(dataResAge, 2 * ResendDelay) = 0
        BY <3>3, <4>1, DeadlineFacts, DelayFacts, DueInFacts DEF NothingForgottenForLong
      <4> QED
        BY <3>3, <4>2 DEF RetryDueIn
    <3>4. CASE dataResCycleActive /\ ~ requestedRFCN /\ ~ dataResend
      <4>1. dataResAge >= ResendDelay
        <5>1. EscalationDue => dataResAge >= ResendDelay
          BY DeadlineFacts, TimersAssumption DEF EscalationDue, Ages
        <5> QED
          BY <2>1, <3>4, <5>1 DEF RetryIsDue, ResendDue, RfcnWaitOver
      <4>2. DueIn(dataResAge, ResendDelay) = 0
        BY <3>4, <4>1, DeadlineFacts, DelayFacts, DueInFacts DEF NothingForgottenForLong
      <4> QED
        BY <3>4, <4>2 DEF RetryDueIn
    <3> QED
      BY <3>1, <3>2, <3>3, <3>4
  <2> QED
    BY <1>4, <2>2 DEF NextUpdateInMs, Retrying
<1>5. CASE Quiet
  <2>1. NdatIsDue \/ BeaconIsDue
    BY <1>5 DEF HasWork, Retrying, Quiet
  <2>2. NdatIsDue => NdatDueIn = 0
    BY DeadlineFacts, DueInFacts DEF NdatIsDue, NdatDueIn, NothingForgottenForLong
  <2>3. BeaconIsDue => beaconDue \/ BeaconDueIn = 0
    BY DeadlineFacts, DelayFacts, DueInFacts
    DEF BeaconIsDue, BeaconDueIn, NothingForgottenForLong
  <2>4. QuietDueIn = 0
    <3>1. NdatDueIn \in Nat /\ BeaconDueIn \in Nat
      BY NextUpdateType, HalfFacts DEF Delays
    <3>2. CASE beaconDue
      BY <3>2 DEF QuietDueIn
    <3>3. CASE ~ beaconDue /\ BeaconDueIn = 0
      BY <3>1, <3>3 DEF QuietDueIn
    <3>4. CASE ~ beaconDue /\ BeaconDueIn # 0 /\ ndatPending /\ NdatDueIn = 0
      BY <3>1, <3>4 DEF QuietDueIn
    <3> QED
      BY <2>1, <2>2, <2>3, <3>2, <3>3, <3>4 DEF NdatIsDue
  <2> QED
    BY <1>5, <2>4 DEF NextUpdateInMs, Quiet
<1> QED
  BY <1>1, <1>2, <1>3, <1>4, <1>5 DEF HasWork, Retrying, Quiet

\* For every clock and every choice of delays: a device that has nothing to do
\* is never kept awake.
THEOREM NobodyIsKeptAwake == Spec => []NoIdleWakeups
<1>1. TypeOK => NoIdleWakeups
  BY ZeroMeansWork DEF NoIdleWakeups
<1> QED
  BY <1>1, TypeCorrect, PTL

-----------------------------------------------------------------------------
(* The sleeping application *)

SleepWithinDeadline == sleepMs > 0 => sleepMs <= NextUpdateInMs

\* After a millisecond the next deadline is a millisecond nearer.
LEMMA DeadlineSteps ==
  ASSUME TypeOK, TypeOK', Tick, NextUpdateInMs > 0
  PROVE  /\ NextUpdateInMs' >= NextUpdateInMs - 1
         /\ ~ Quiet => NextUpdateInMs' = NextUpdateInMs - 1
<1>1. /\ UNCHANGED <<txInProgress, txDone, packetReceived, waitingForDataRes,
                     dataResCycleActive, dataResend, requestedRFCN,
                     ndatPending, ndatJitter, beaconDue>>
  BY DEF Tick
<1>2. NextUpdateInMs \in Nat
  BY NextUpdateType, HalfFacts DEF Delays
<1>3. CASE txInProgress
  <2>1. NextUpdateInMs = DueIn(txAge, TxMax) /\ ~ txDone
    BY <1>3 DEF NextUpdateInMs
  <2>2. NextUpdateInMs' = DueIn(Older(txAge), TxMax)
    BY <1>1, <1>3, <2>1 DEF NextUpdateInMs, Tick, DueIn, Remaining
  <2> QED
    BY <1>2, <2>1, <2>2, DeadlineFacts, DelayFacts, RemainingSteps
<1>4. CASE ~ txInProgress /\ packetReceived
  BY <1>4 DEF NextUpdateInMs
<1>5. CASE Retrying
  <2>1. NextUpdateInMs = RetryDueIn /\ NextUpdateInMs' = RetryDueIn'
    BY <1>1, <1>5 DEF NextUpdateInMs, Retrying
  <2>2. dataResCycleActive
    BY <2>1 DEF RetryDueIn
  <2>3. CASE requestedRFCN
    <3>1. RetryDueIn = DueIn(rfcnAge, RfcnWait)
      BY <2>2, <2>3 DEF RetryDueIn
    <3>2. RetryDueIn' = DueIn(Older(rfcnAge), RfcnWait)
      BY <1>1, <2>2, <2>3 DEF RetryDueIn, Tick, DueIn, Remaining
    <3> QED
      BY <1>2, <2>1, <3>1, <3>2, DeadlineFacts, DelayFacts, RemainingSteps
  <2>4. CASE ~ requestedRFCN
    <3> DEFINE d == IF dataResend THEN 2 * ResendDelay ELSE ResendDelay
    <3>1. RetryDueIn = DueIn(dataResAge, d)
      BY <2>2, <2>4 DEF RetryDueIn
    <3>2. RetryDueIn' = DueIn(Older(dataResAge), d)
      BY <1>1, <2>2, <2>4 DEF RetryDueIn, Tick, DueIn, Remaining
    <3>3. d \in Delays
      BY DelayFacts
    <3> HIDE DEF d
    <3> QED
      BY <1>2, <2>1, <3>1, <3>2, <3>3, DeadlineFacts, RemainingSteps
  <2> QED
    BY <2>3, <2>4
<1>6. CASE Quiet
  <2>1. NextUpdateInMs = QuietDueIn /\ NextUpdateInMs' = QuietDueIn'
    BY <1>1, <1>6 DEF NextUpdateInMs, Quiet
  <2>2. ~ beaconDue
    BY <2>1 DEF QuietDueIn
  <2>3. /\ NdatDueIn \in Nat /\ BeaconDueIn \in Nat
        /\ NdatDueIn' \in Nat /\ BeaconDueIn' \in Nat
    <3>1. NdatDueIn' \in Delays /\ BeaconDueIn' \in Delays
      <4>1. ndatAge' \in Ages /\ beaconAge' \in Ages /\ ndatJitter' \in Delays
        BY DelayFacts DEF TypeOK, Ages
      <4>2. DueIn(ndatAge', ndatJitter') \in Delays /\ DueIn(beaconAge', BeaconInterval) \in Delays
        BY <4>1, DelayFacts, DueInFacts
      <4> QED
        BY <4>2 DEF NdatDueIn, BeaconDueIn, DueIn, Remaining
    <3> QED
      BY <3>1, NextUpdateType, HalfFacts DEF Delays
  <2>4. BeaconDueIn > 0 /\ (ndatPending => NdatDueIn > 0)
    BY <2>1, <2>2, <2>3 DEF QuietDueIn
  <2>5. BeaconDueIn' = BeaconDueIn - 1
    <3>1. BeaconDueIn' = DueIn(Older(beaconAge), BeaconInterval)
      BY <1>1, <2>2 DEF BeaconDueIn, Tick, DueIn, Remaining
    <3> QED
      BY <2>4, <3>1, DeadlineFacts, DelayFacts, RemainingSteps DEF BeaconDueIn
  <2>6. ndatPending => NdatDueIn' = NdatDueIn - 1
    <3>1. ndatPending => NdatDueIn' = DueIn(Older(ndatAge), ndatJitter)
      BY <1>1 DEF NdatDueIn, Tick, DueIn, Remaining
    <3> QED
      BY <2>4, <3>1, DeadlineFacts, RemainingSteps DEF NdatDueIn
  <2>7. QuietDueIn' >= QuietDueIn - 1
    BY <1>1, <2>2, <2>3, <2>5, <2>6 DEF QuietDueIn
  <2> QED
    BY <1>6, <2>1, <2>7
<1> QED
  BY <1>3, <1>4, <1>5, <1>6 DEF Retrying, Quiet

\* NextUpdateType for the next state.
LEMMA PrimedNextUpdateType ==
  ASSUME TypeOK'
  PROVE  NextUpdateInMs' \in Delays
<1>1. /\ txAge' \in Ages /\ dataResAge' \in Ages /\ rfcnAge' \in Ages
      /\ ndatAge' \in Ages /\ beaconAge' \in Ages /\ ndatJitter' \in Delays
  BY DelayFacts DEF TypeOK, Ages
<1>2. 0 \in Delays
  BY HalfFacts DEF Delays
<1>3. /\ DueIn(txAge', TxMax) \in Delays /\ DueIn(rfcnAge', RfcnWait) \in Delays
      /\ DueIn(dataResAge', ResendDelay) \in Delays
      /\ DueIn(dataResAge', 2 * ResendDelay) \in Delays
      /\ DueIn(ndatAge', ndatJitter') \in Delays
      /\ DueIn(beaconAge', BeaconInterval) \in Delays
  BY <1>1, DelayFacts, DueInFacts
<1>4. RetryDueIn' \in Delays
  BY <1>2, <1>3 DEF RetryDueIn, DueIn, Remaining
<1>5. QuietDueIn' \in Delays
  BY <1>2, <1>3 DEF QuietDueIn, NdatDueIn, BeaconDueIn, DueIn, Remaining
<1>6. (DueIn(txAge, TxMax))' \in Delays
  BY <1>3 DEF DueIn, Remaining
<1> QED
  BY <1>2, <1>4, <1>5, <1>6 DEF NextUpdateInMs

\* No step makes a sleeping application sleep past the next deadline.
LEMMA SleepPreserved ==
  ASSUME TypeOK, TypeOK', SleepWithinDeadline, [Next]_vars
  PROVE  SleepWithinDeadline'
<1> USE DEF SleepWithinDeadline
<1>1. CASE Tick
  <2>1. sleepMs \in Nat /\ sleepMs' \in Nat /\ NextUpdateInMs \in Nat
    BY NextUpdateType, HalfFacts DEF TypeOK, Delays
  <2>2. CASE sleepMs > 0
    <3>1. NextUpdateInMs' >= NextUpdateInMs - 1
      BY <1>1, <2>1, <2>2, DeadlineSteps
    <3>2. sleepMs' = sleepMs - 1 /\ sleepMs <= NextUpdateInMs
      BY <1>1, <2>2 DEF Tick
    <3>3. NextUpdateInMs' \in Nat
      <4>1. NextUpdateInMs' \in Delays
        BY PrimedNextUpdateType
      <4> QED
        BY <4>1, HalfFacts DEF Delays
    <3> QED
      BY <2>1, <3>1, <3>2, <3>3
  <2>3. CASE sleepMs = 0
    BY <1>1, <2>3 DEF Tick
  <2> QED
    BY <2>1, <2>2, <2>3
<1>2. CASE GoToSleep
  <2>1. NextUpdateInMs' = NextUpdateInMs
    BY <1>2
    DEF GoToSleep, NextUpdateInMs, RetryDueIn, QuietDueIn, NdatDueIn,
        BeaconDueIn, DueIn, Remaining, txVars, retryVars, cycleVars, ndatVars,
        beaconVars
  <2>2. NextUpdateInMs \in Nat
    BY NextUpdateType, HalfFacts DEF Delays
  <2> QED
    BY <1>2, <2>1, <2>2 DEF GoToSleep
<1>3. CASE TransmissionEnds \/ FrameArrives \/ SendData \/ Update
  <2>1. sleepMs' = 0
    BY <1>3
    DEF TransmissionEnds, FrameArrives, SendData, Update, UpdateTxEnd, ReadFrame,
        GiveUp, InitialSend, Escalate, EndCycle, Resend, SendNdat, SendBeacon,
        UpdateIdle, Called
  <2> QED
    BY <2>1
<1>4. CASE UNCHANGED vars
  BY <1>4
  DEF vars, NextUpdateInMs, RetryDueIn, QuietDueIn, NdatDueIn, BeaconDueIn,
      DueIn, Remaining, txVars, retryVars, cycleVars, ndatVars, beaconVars, appVars
<1> QED
  BY <1>1, <1>2, <1>3, <1>4 DEF Next

\* For every clock and every choice of delays below half its range: as long as
\* no deadline is left alone for half the clock's range, an application that
\* sleeps as long as it may never sleeps while update() has something to do.
THEOREM NobodyOversleeps ==
  Spec => [](NothingForgottenForLong => NeverOversleeps)
<1>1. Init => TypeOK /\ SleepWithinDeadline
  <2> SUFFICES ASSUME Init PROVE TypeOK /\ SleepWithinDeadline
    OBVIOUS
  <2>1. SleepWithinDeadline
    BY DEF Init, SleepWithinDeadline
  <2> QED
    BY <2>1, InitTypes
<1>2. TypeOK /\ SleepWithinDeadline /\ [Next]_vars => (TypeOK /\ SleepWithinDeadline)'
  BY TypePreserved, SleepPreserved
<1>3. TypeOK /\ SleepWithinDeadline => (NothingForgottenForLong => NeverOversleeps)
  <2> SUFFICES ASSUME TypeOK, SleepWithinDeadline, NothingForgottenForLong,
                      sleepMs > 0, HasWork
               PROVE  FALSE
    BY DEF NeverOversleeps
  <2>1. NextUpdateInMs = 0 /\ sleepMs <= NextUpdateInMs
    BY WorkMeansZero DEF SleepWithinDeadline
  <2> QED
    BY <2>1 DEF TypeOK
<1> QED
  BY <1>1, <1>2, <1>3, PTL DEF Spec

-----------------------------------------------------------------------------
(* How long a deadline can be left alone.  Calls counts the calls of       *)
(* update() that find something to do before the device is quiet: it falls *)
(* with each of them, and only a beacon, when nothing is overdue, raises   *)
(* it.  Until the next such call no more than Stage milliseconds pass.     *)

\* The calls that the retry cycles of one packet take.
CycleCalls == 1 + 7 * MaxRetries

RetryCalls ==
  IF ~ waitingForDataRes THEN 0
  ELSE 1 + 7 * (MaxRetries - localRetryCount)
         + (IF ~ dataResCycleActive THEN 0
            ELSE IF requestedRFCN THEN 1
            ELSE IF dataResend THEN 3 ELSE 5)

\* A frame is read, answered, and may start a retry cycle.
FrameCalls   == CycleCalls + 2
TrafficCalls == (CycleCalls + 3) * (MaxTraffic - traffic)

TxCalls      == IF txInProgress THEN 1 ELSE 0
PacketCalls  == IF packetReceived THEN FrameCalls ELSE 0
SlotCalls    == IF ownDataPending THEN CycleCalls ELSE 0
NdatCalls    == IF ndatPending THEN 2 ELSE 0

Calls == TxCalls + PacketCalls + RetryCalls + SlotCalls + NdatCalls + TrafficCalls

MaxCalls ==
  1 + FrameCalls + (CycleCalls + 5) + CycleCalls + 2
  + (CycleCalls + 3) * MaxTraffic

\* Between two calls that find something to do.
Stage == 2 * ResendDelay + RfcnWait + TxMax + MaxLate

\* Until the next such call, unless the device is quiet.
Rest ==
  IF HasWork THEN MaxLate - late
  ELSE IF Quiet THEN Stage ELSE NextUpdateInMs + MaxLate

WaitLeft == Calls * Stage + Rest
MaxWait  == (MaxCalls + 1) * Stage

\* A deadline of this age, due d after its stamp, is met in time.
MetInTime(age, d) == age + WaitLeft <= d + MaxWait

ResendDueAfter == IF dataResend THEN 2 * ResendDelay ELSE ResendDelay

DeadlinesMet ==
  /\ txInProgress => MetInTime(txAge, TxMax)
  /\ dataResCycleActive /\ ~ requestedRFCN => MetInTime(dataResAge, ResendDueAfter)
  /\ requestedRFCN => MetInTime(rfcnAge, RfcnWait)
  /\ ndatPending => MetInTime(ndatAge, ndatJitter)
  /\ ~ beaconDue => MetInTime(beaconAge, BeaconInterval)

\* A retry cycle belongs to a packet, the wait after an RFCN to a retry cycle.
CycleHasPacket ==
  (dataResCycleActive => waitingForDataRes) /\ (requestedRFCN => dataResCycleActive)

LEMMA StageFacts ==
  /\ Stage \in Nat /\ Stage >= MaxLate + 1
  /\ Stage >= 2 * ResendDelay + MaxLate /\ Stage >= ResendDelay + MaxLate
  /\ Stage >= RfcnWait + MaxLate /\ Stage >= TxMax + MaxLate
  /\ CycleCalls \in Nat /\ CycleCalls >= 1
  /\ (CycleCalls + 3) * MaxTraffic \in Nat /\ MaxCalls \in Nat
<1>1. /\ ResendDelay \in Nat \ {0} /\ RfcnWait \in Nat /\ TxMax \in Nat /\ MaxLate \in Nat
      /\ MaxRetries \in Nat /\ MaxTraffic \in Nat
  BY TimersAssumption
<1>2. CycleCalls \in Nat /\ CycleCalls >= 1
  BY <1>1 DEF CycleCalls
<1>3. (CycleCalls + 3) * MaxTraffic \in Nat
  BY <1>1, <1>2
<1> QED
  BY <1>1, <1>2, <1>3 DEF Stage, MaxCalls, FrameCalls

\* Fewer calls take a stage less each.
LEMMA StagesOfCalls ==
  ASSUME NEW k \in Nat, NEW n \in Nat, NEW s \in Nat, k + 1 <= n
  PROVE  k * s \in Nat /\ n * s \in Nat /\ k * s + s <= n * s
<1>1. PICK d \in Nat : n = k + 1 + d
  <2>1. n - (k + 1) \in Nat /\ n = k + 1 + (n - (k + 1))
    OBVIOUS
  <2> QED  BY <2>1
<1>2. n * s = k * s + s + d * s
  BY <1>1
<1>3. k * s \in Nat /\ d * s \in Nat
  OBVIOUS
<1> QED  BY <1>2, <1>3

\* What is left of the traffic, and one frame or message less of it.
LEMMA TrafficFacts ==
  ASSUME NEW t \in 0 .. MaxTraffic
  PROVE  /\ (CycleCalls + 3) * (MaxTraffic - t) \in 0 .. (CycleCalls + 3) * MaxTraffic
         /\ t + 1 <= MaxTraffic =>
              (CycleCalls + 3) * (MaxTraffic - (t + 1)) + (CycleCalls + 3)
                <= (CycleCalls + 3) * (MaxTraffic - t)
<1> DEFINE u == CycleCalls + 3
<1>1. u \in Nat /\ MaxTraffic \in Nat /\ t \in Nat /\ t <= MaxTraffic
  BY StageFacts, TimersAssumption
<1> HIDE DEF u
<1>2. MaxTraffic - t \in Nat
  BY <1>1
<1>3. u * (MaxTraffic - t) \in Nat /\ u * t \in Nat /\ u * MaxTraffic = u * t + u * (MaxTraffic - t)
  BY <1>1, <1>2
<1>4. t + 1 <= MaxTraffic => u * (MaxTraffic - (t + 1)) + u = u * (MaxTraffic - t)
  BY <1>1
<1>5. u * (MaxTraffic - t) \in 0 .. u * MaxTraffic
  <2>1. u * MaxTraffic \in Nat
    BY <1>1
  <2> QED  BY <1>3, <2>1
<1>6. t + 1 <= MaxTraffic => u * (MaxTraffic - (t + 1)) \in Nat
  BY <1>1
<1> QED  BY <1>3, <1>4, <1>5, <1>6 DEF u

\* The calls are bounded, now and after a step.
LEMMA CallsFacts ==
  ASSUME TypeOK
  PROVE  /\ RetryCalls \in 0 .. CycleCalls + 5 /\ TrafficCalls \in Nat
         /\ Calls \in Nat /\ Calls <= MaxCalls
<1>1. RetryCalls \in 0 .. CycleCalls + 5
  BY TimersAssumption DEF TypeOK, RetryCalls, CycleCalls
<1>2. TrafficCalls \in 0 .. (CycleCalls + 3) * MaxTraffic
  BY TrafficFacts DEF TypeOK, TrafficCalls
<1>3. (CycleCalls + 3) * MaxTraffic \in Nat /\ CycleCalls \in Nat
  BY StageFacts
<1> QED
  BY <1>1, <1>2, <1>3 DEF Calls, TxCalls, PacketCalls, SlotCalls, NdatCalls, MaxCalls, FrameCalls

\* The state is typed, no deadline has been left alone, and none is slept over.
TimersInv ==
  TypeOK /\ SleepWithinDeadline /\ CycleHasPacket /\ DeadlinesMet

\* Nothing that lasts until the next call lasts longer than a stage.
LEMMA RestFacts ==
  ASSUME TypeOK
  PROVE  Rest \in 0 .. Stage
<1>1. late \in 0 .. MaxLate /\ MaxLate \in Nat
  BY TimersAssumption DEF TypeOK
<1>2. CASE ~ HasWork /\ ~ Quiet
  <2>1. NextUpdateInMs \in Nat
    BY NextUpdateType, HalfFacts DEF Delays
  <2>2. CASE txInProgress
    <3>1. NextUpdateInMs = DueIn(txAge, TxMax) /\ ~ txDone /\ txAge < TxMax
      <4>1. ~ txDone /\ ~ (txAge >= TxMax)
        BY <1>2, <2>2 DEF HasWork, TxOverdue
      <4> QED
        BY <2>2, <4>1, DeadlineFacts, DelayFacts, HalfFacts DEF NextUpdateInMs, Ages, Delays
    <3>2. NextUpdateInMs <= TxMax
      BY <3>1, DeadlineFacts, DelayFacts, HalfFacts DEF DueIn, Remaining, Ages, Delays
    <3> QED
      BY <1>1, <1>2, <2>1, <3>2, StageFacts, TimersAssumption DEF Rest
  <2>3. CASE Retrying
    <3>1. NextUpdateInMs = RetryDueIn
      BY <2>3 DEF NextUpdateInMs, Retrying
    <3>2. dataResCycleActive /\ ~ EscalationDue /\ ~ RfcnWaitOver /\ ~ ResendDue
      BY <1>2, <2>3 DEF HasWork, RetryIsDue
    <3>3. CASE requestedRFCN
      <4>1. rfcnAge < RfcnWait
        BY <3>2, <3>3, DeadlineFacts, DelayFacts DEF RfcnWaitOver, Ages, Delays
      <4>2. NextUpdateInMs <= RfcnWait
        BY <3>1, <3>2, <3>3, <4>1, DeadlineFacts, DelayFacts, HalfFacts
        DEF RetryDueIn, DueIn, Remaining, Ages, Delays
      <4> QED
        BY <1>1, <1>2, <2>1, <4>2, StageFacts, TimersAssumption DEF Rest
    <3>4. CASE ~ requestedRFCN
      <4>1. dataResAge < 2 * ResendDelay
        BY <3>2, <3>4, DeadlineFacts, DelayFacts DEF EscalationDue, Ages, Delays
      <4>2. DueIn(dataResAge, 2 * ResendDelay) <= 2 * ResendDelay
        BY <4>1, DeadlineFacts, DelayFacts, HalfFacts DEF DueIn, Remaining, Ages, Delays
      <4>3. CASE dataResend
        <5>1. NextUpdateInMs <= 2 * ResendDelay
          BY <3>1, <3>2, <3>4, <4>2, <4>3 DEF RetryDueIn
        <5> QED
          BY <1>1, <1>2, <2>1, <5>1, StageFacts, TimersAssumption DEF Rest
      <4>4. CASE ~ dataResend
        <5>1. dataResAge < ResendDelay
          BY <3>2, <3>4, <4>4, DeadlineFacts, DelayFacts DEF ResendDue, Ages, Delays
        <5>2. NextUpdateInMs <= ResendDelay
          BY <3>1, <3>2, <3>4, <4>4, <5>1, DeadlineFacts, DelayFacts, HalfFacts
          DEF RetryDueIn, DueIn, Remaining, Ages, Delays
        <5> QED
          BY <1>1, <1>2, <2>1, <5>2, StageFacts, TimersAssumption DEF Rest
      <4> QED  BY <4>3, <4>4
    <3> QED  BY <3>3, <3>4
  <2> QED
    BY <1>2, <2>2, <2>3 DEF HasWork, Quiet, Retrying
<1>3. CASE HasWork
  BY <1>1, <1>3, StageFacts DEF Rest
<1>4. CASE ~ HasWork /\ Quiet
  BY <1>4, StageFacts DEF Rest
<1> QED  BY <1>2, <1>3, <1>4

LEMMA Bounds == TypeOK => Rest \in 0 .. Stage /\ Calls \in Nat /\ Calls <= MaxCalls
BY RestFacts, CallsFacts

\* The same of the next state.
LEMMA BoundsThen ==
  TypeOK' => Rest' \in 0 .. Stage /\ Calls' \in Nat /\ Calls' <= MaxCalls
<1>1. TypeOK' => (Rest \in 0 .. Stage /\ Calls \in Nat /\ Calls <= MaxCalls)'
  BY Bounds, PTL
<1> QED  BY <1>1

LEMMA CycleHasPacketStep ==
  ASSUME CycleHasPacket, [Next]_vars
  PROVE  CycleHasPacket'
<1> USE DEF CycleHasPacket
<1>1. CASE Tick \/ GoToSleep \/ TransmissionEnds \/ FrameArrives \/ SendData
  BY <1>1
  DEF Tick, GoToSleep, TransmissionEnds, FrameArrives, SendData, retryVars, cycleVars
<1>2. CASE UpdateTxEnd \/ SendNdat \/ SendBeacon \/ UpdateIdle
  BY <1>2 DEF UpdateTxEnd, SendNdat, SendBeacon, UpdateIdle, retryVars, cycleVars
<1>3. CASE ReadFrame
  BY <1>3 DEF ReadFrame, ResetDataResState, retryVars, cycleVars
<1>4. CASE GiveUp
  BY <1>4 DEF GiveUp, ResetDataResState
<1>5. CASE InitialSend \/ Escalate \/ EndCycle \/ Resend
  BY <1>5 DEF InitialSend, Escalate, EndCycle, Resend, Retrying
<1>6. CASE UNCHANGED vars
  BY <1>6 DEF vars, retryVars, cycleVars
<1> QED
  BY <1>1, <1>2, <1>3, <1>4, <1>5, <1>6 DEF Next, Update

\* The packet in the slot takes over the calls it was counted for.
LEMMA ResetCalls ==
  ASSUME TypeOK, ResetDataResState
  PROVE  /\ RetryCalls' = IF ownDataPending THEN CycleCalls ELSE 0
         /\ ownDataPending' = FALSE
BY TimersAssumption DEF ResetDataResState, TypeOK, RetryCalls, CycleCalls

\* Each part of Calls depends on its own variables.
LEMMA CallsUnchanged ==
  /\ UNCHANGED <<waitingForDataRes, cycleVars>> => UNCHANGED RetryCalls
  /\ UNCHANGED traffic => UNCHANGED TrafficCalls
  /\ UNCHANGED txInProgress => UNCHANGED TxCalls
  /\ UNCHANGED packetReceived => UNCHANGED PacketCalls
  /\ UNCHANGED ownDataPending => UNCHANGED SlotCalls
  /\ UNCHANGED ndatPending => UNCHANGED NdatCalls
BY DEF cycleVars, RetryCalls, TrafficCalls, TxCalls, PacketCalls, SlotCalls, NdatCalls

LEMMA PartTypes ==
  TypeOK => /\ TxCalls \in Nat /\ TxCalls <= 1 /\ PacketCalls \in Nat /\ RetryCalls \in Nat
            /\ SlotCalls \in Nat /\ NdatCalls \in Nat /\ NdatCalls <= 2
            /\ TrafficCalls \in Nat
BY StageFacts, CallsFacts DEF TxCalls, PacketCalls, SlotCalls, NdatCalls, FrameCalls

\* The parts are numbers, now and after a step.
LEMMA PartTypesThen ==
  ASSUME TypeOK'
  PROVE  /\ TxCalls' \in Nat /\ TxCalls' <= 1 /\ PacketCalls' \in Nat /\ RetryCalls' \in Nat
         /\ SlotCalls' \in Nat /\ NdatCalls' \in Nat /\ NdatCalls' <= 2
         /\ TrafficCalls' \in Nat
<1>1. (TypeOK => /\ TxCalls \in Nat /\ TxCalls <= 1 /\ PacketCalls \in Nat /\ RetryCalls \in Nat
                 /\ SlotCalls \in Nat /\ NdatCalls \in Nat /\ NdatCalls <= 2
                 /\ TrafficCalls \in Nat)'
  BY PartTypes, PTL
<1> QED  BY <1>1

\* Whatever update() finds to do, but for a beacon, and whatever comes in,
\* there is less to do afterwards.
LEMMA CallsFall ==
  ASSUME TypeOK, TypeOK', CycleHasPacket,
         \/ UpdateTxEnd \/ ReadFrame \/ GiveUp \/ InitialSend \/ Escalate
         \/ EndCycle \/ Resend \/ SendNdat \/ FrameArrives \/ SendData
  PROVE  Calls' + 1 <= Calls
<1>p. PICK tx \in Nat : TxCalls' = tx /\ tx <= 1
  BY PartTypesThen
<1>q. PICK packet \in Nat : PacketCalls' = packet
  BY PartTypesThen
<1>r. PICK retry \in Nat : RetryCalls' = retry
  BY PartTypesThen
<1>s. PICK slot \in Nat : SlotCalls' = slot
  BY PartTypesThen
<1>n. PICK ndat \in Nat : NdatCalls' = ndat /\ ndat <= 2
  BY PartTypesThen
<1>f. PICK rest \in Nat : TrafficCalls' = rest
  BY PartTypesThen
<1>t. /\ TxCalls' = tx /\ tx <= 1 /\ PacketCalls' = packet /\ RetryCalls' = retry
      /\ SlotCalls' = slot /\ NdatCalls' = ndat /\ ndat <= 2 /\ TrafficCalls' = rest
      /\ TxCalls \in Nat /\ PacketCalls \in Nat /\ RetryCalls \in Nat
      /\ SlotCalls \in Nat /\ NdatCalls \in Nat /\ TrafficCalls \in Nat
      /\ Calls = TxCalls + PacketCalls + RetryCalls + SlotCalls + NdatCalls + TrafficCalls
      /\ Calls' = tx + packet + retry + slot + ndat + rest
  BY <1>p, <1>q, <1>r, <1>s, <1>n, <1>f, PartTypes DEF Calls
<1>c. CycleCalls \in Nat /\ CycleCalls >= 1
  BY StageFacts
<1>1. CASE UpdateTxEnd
  <2>1. UNCHANGED <<RetryCalls, TrafficCalls, PacketCalls, SlotCalls, NdatCalls>>
    BY <1>1, CallsUnchanged DEF UpdateTxEnd, retryVars, ndatVars
  <2>2. TxCalls = 1 /\ TxCalls' = 0
    BY <1>1 DEF UpdateTxEnd, TxCalls
  <2> QED
    BY <1>t, <1>c, <2>1, <2>2
<1>2. CASE ReadFrame
  <2>1. UNCHANGED TrafficCalls /\ TxCalls = 0
    BY <1>2, CallsUnchanged DEF ReadFrame, TxCalls
  <2>p. PacketCalls = CycleCalls + 2 /\ PacketCalls' = 0
    BY <1>2 DEF ReadFrame, PacketCalls, FrameCalls
  <2>2. CASE /\ ~ waitingForDataRes /\ Attempt /\ waitingForDataRes' \in BOOLEAN
             /\ UNCHANGED <<ownDataPending, cycleVars, ndatVars>>
    <3>1. RetryCalls' <= CycleCalls /\ RetryCalls' \in Nat
      BY <2>2, TimersAssumption
      DEF CycleHasPacket, RetryCalls, CycleCalls, TypeOK, cycleVars
    <3>2. UNCHANGED <<SlotCalls, NdatCalls>>
      BY <2>2, CallsUnchanged DEF ndatVars
    <3> QED
      BY <1>t, <1>c, <2>1, <2>p, <3>1, <3>2
  <2>3. CASE ScheduleNdat /\ UNCHANGED <<txVars, retryVars>>
    <3>1. UNCHANGED <<RetryCalls, TxCalls, SlotCalls>>
      BY <2>3, CallsUnchanged DEF retryVars, txVars
    <3> QED
      BY <1>t, <1>c, <2>1, <2>p, <3>1
  <2>4. CASE ResetDataResState /\ UNCHANGED <<txVars, ndatVars>>
    <3>1. UNCHANGED <<TxCalls, NdatCalls>>
      BY <2>4, CallsUnchanged DEF txVars, ndatVars
    <3>2. RetryCalls' = SlotCalls /\ SlotCalls' = 0
      BY <2>4, ResetCalls DEF SlotCalls
    <3> QED
      BY <1>t, <1>c, <2>1, <2>p, <3>1, <3>2
  <2>5. CASE UNCHANGED <<txVars, retryVars, ndatVars>>
    <3>1. UNCHANGED <<RetryCalls, TxCalls, SlotCalls, NdatCalls>>
      BY <2>5, CallsUnchanged DEF retryVars, txVars, ndatVars
    <3> QED
      BY <1>t, <1>c, <2>1, <2>p, <3>1
  <2> QED
    BY <1>2, <2>2, <2>3, <2>4, <2>5 DEF ReadFrame
<1>3. CASE GiveUp
  <2>1. UNCHANGED <<TrafficCalls, TxCalls, PacketCalls, NdatCalls>>
    BY <1>3, CallsUnchanged DEF GiveUp, txVars, ndatVars
  <2>2. RetryCalls >= 1
    BY <1>3, TimersAssumption DEF GiveUp, Retrying, RetryCalls, TypeOK
  <2>3. RetryCalls' = SlotCalls /\ SlotCalls' = 0
    BY <1>3, ResetCalls DEF GiveUp, SlotCalls
  <2> QED
    BY <1>t, <1>c, <2>1, <2>2, <2>3
<1>4. CASE InitialSend \/ Escalate \/ EndCycle \/ Resend
  <2>1. UNCHANGED <<TrafficCalls, PacketCalls, SlotCalls, NdatCalls>>
    BY <1>4, CallsUnchanged DEF InitialSend, Escalate, EndCycle, Resend, ndatVars
  <2>2. TxCalls = 0
    BY <1>4 DEF InitialSend, Escalate, EndCycle, Resend, Retrying, TxCalls
  <2>3. CASE InitialSend
    <3>1. RetryCalls' + 2 <= RetryCalls /\ RetryCalls' \in Nat
      <4>1. localRetryCount + 1 <= MaxRetries
        BY <2>3, TimersAssumption DEF InitialSend, Exhausted, NextRetryCount, TypeOK
      <4> QED
        BY <2>3, <4>1, TimersAssumption
        DEF InitialSend, Retrying, RetryCalls, NextRetryCount, TypeOK
    <3> QED
      BY <1>t, <1>c, <2>1, <2>2, <3>1
  <2>4. CASE Escalate
    <3>1. RetryCalls' + 2 <= RetryCalls /\ RetryCalls' \in Nat
      BY <2>4, TimersAssumption DEF Escalate, EscalationDue, Retrying, RetryCalls, TypeOK
    <3> QED
      BY <1>t, <1>c, <2>1, <2>2, <3>1
  <2>5. CASE EndCycle
    <3>1. RetryCalls' + 1 = RetryCalls /\ RetryCalls' \in Nat
      BY <2>5, TimersAssumption
      DEF EndCycle, RfcnWaitOver, Retrying, RetryCalls, TypeOK
    <3>2. UNCHANGED TxCalls
      BY <2>5, CallsUnchanged DEF EndCycle, txVars
    <3> QED
      BY <1>t, <1>c, <2>1, <2>2, <3>1, <3>2
  <2>6. CASE Resend
    <3>1. RetryCalls' + 2 = RetryCalls /\ RetryCalls' \in Nat
      BY <2>6, TimersAssumption DEF Resend, ResendDue, Retrying, RetryCalls, TypeOK
    <3> QED
      BY <1>t, <1>c, <2>1, <2>2, <3>1
  <2> QED
    BY <1>4, <2>3, <2>4, <2>5, <2>6
<1>5. CASE SendNdat
  <2>1. UNCHANGED <<RetryCalls, TrafficCalls, PacketCalls, SlotCalls>>
    BY <1>5, CallsUnchanged DEF SendNdat, retryVars
  <2>2. TxCalls = 0 /\ NdatCalls = 2 /\ NdatCalls' = 0
    BY <1>5 DEF SendNdat, Quiet, NdatIsDue, TxCalls, NdatCalls
  <2> QED
    BY <1>t, <1>c, <2>1, <2>2
<1>6. CASE FrameArrives \/ SendData
  <2>1. TrafficCalls' + (CycleCalls + 3) <= TrafficCalls /\ TrafficCalls' \in Nat
    <3>1. traffic \in 0 .. MaxTraffic /\ traffic + 1 \in 0 .. MaxTraffic
          /\ traffic' = traffic + 1 /\ traffic + 1 <= MaxTraffic
      BY <1>6, TimersAssumption DEF FrameArrives, SendData, TypeOK
    <3>2. /\ (CycleCalls + 3) * (MaxTraffic - (traffic + 1)) + (CycleCalls + 3)
               <= (CycleCalls + 3) * (MaxTraffic - traffic)
          /\ (CycleCalls + 3) * (MaxTraffic - (traffic + 1)) \in Nat
      BY <3>1, TrafficFacts
    <3> QED
      BY <3>1, <3>2 DEF TrafficCalls
  <2>2. CASE FrameArrives
    <3>1. UNCHANGED <<RetryCalls, TxCalls, SlotCalls, NdatCalls>>
      BY <2>2, CallsUnchanged DEF FrameArrives, txVars, retryVars, ndatVars
    <3>2. PacketCalls = 0 /\ PacketCalls' = CycleCalls + 2
      BY <2>2 DEF FrameArrives, PacketCalls, FrameCalls
    <3> QED
      BY <1>t, <1>c, <2>1, <3>1, <3>2
  <2>3. CASE SendData
    <3>1. UNCHANGED <<TxCalls, PacketCalls, NdatCalls>>
      BY <2>3, CallsUnchanged DEF SendData, txVars, ndatVars
    <3>2. CASE ~ waitingForDataRes
      <4>1. RetryCalls = 0 /\ RetryCalls' \in Nat /\ RetryCalls' <= CycleCalls
        BY <2>3, <3>2, TimersAssumption
        DEF SendData, CycleHasPacket, RetryCalls, CycleCalls, TypeOK, cycleVars
      <4>2. UNCHANGED SlotCalls
        BY <2>3, <3>2, CallsUnchanged DEF SendData
      <4> QED
        BY <1>t, <1>c, <2>1, <3>1, <4>1, <4>2
    <3>3. CASE waitingForDataRes
      <4>1. UNCHANGED RetryCalls
        BY <2>3, <3>3, CallsUnchanged DEF SendData
      <4>2. SlotCalls = 0 /\ SlotCalls' = CycleCalls
        BY <2>3, <3>3 DEF SendData, SlotCalls
      <4> QED
        BY <1>t, <1>c, <2>1, <3>1, <4>1, <4>2
    <3> QED  BY <3>2, <3>3
  <2> QED
    BY <1>6, <2>2, <2>3
<1> QED
  BY <1>1, <1>2, <1>3, <1>4, <1>5, <1>6

\* Waiting, sleeping and what the radio announces leave the calls alone.
LEMMA CallsStay ==
  ASSUME Tick \/ GoToSleep \/ TransmissionEnds \/ UpdateIdle
  PROVE  UNCHANGED Calls
<1>1. /\ UNCHANGED <<txInProgress, packetReceived, ownDataPending, ndatPending>>
      /\ UNCHANGED <<waitingForDataRes, dataResCycleActive, dataResend,
                     requestedRFCN, localRetryCount, traffic>>
  BY DEF Tick, GoToSleep, TransmissionEnds, UpdateIdle, txVars, retryVars, cycleVars,
         ndatVars
<1>2. UNCHANGED <<RetryCalls, TrafficCalls, TxCalls, PacketCalls, SlotCalls, NdatCalls>>
  BY <1>1, CallsUnchanged DEF cycleVars, RetryCalls
<1> QED
  BY <1>2 DEF Calls

-----------------------------------------------------------------------------
(* What is left to wait *)

LEMMA WaitFacts == TypeOK => WaitLeft \in Nat /\ WaitLeft <= MaxWait /\ WaitLeft >= Rest
<1> SUFFICES ASSUME TypeOK PROVE WaitLeft \in Nat /\ WaitLeft <= MaxWait /\ WaitLeft >= Rest
  OBVIOUS
<1>1. Calls \in Nat /\ Calls + 1 <= MaxCalls + 1 /\ MaxCalls + 1 \in Nat
      /\ Stage \in Nat /\ Rest \in Nat /\ Rest <= Stage
  BY Bounds, StageFacts
<1>2. Calls * Stage \in Nat /\ (MaxCalls + 1) * Stage \in Nat
      /\ Calls * Stage + Stage <= (MaxCalls + 1) * Stage
  BY <1>1, StagesOfCalls
<1> QED
  BY <1>1, <1>2 DEF WaitLeft, MaxWait

LEMMA WaitFactsThen == TypeOK' => WaitLeft' \in Nat /\ WaitLeft' <= MaxWait
<1>1. (TypeOK => WaitLeft \in Nat /\ WaitLeft <= MaxWait /\ WaitLeft >= Rest)'
  BY WaitFacts, PTL
<1> QED
  BY <1>1 DEF MaxWait, MaxCalls, Stage, FrameCalls, CycleCalls

\* What is there to do gets less, and with it the time that it takes.
LEMMA WaitFalls ==
  ASSUME TypeOK, TypeOK', CycleHasPacket,
         \/ UpdateTxEnd \/ ReadFrame \/ GiveUp \/ InitialSend \/ Escalate
         \/ EndCycle \/ Resend \/ SendNdat \/ FrameArrives \/ SendData
  PROVE  WaitLeft' <= WaitLeft
<1>1. PICK calls \in Nat, rest \in Nat : Calls' = calls /\ Rest' = rest /\ rest <= Stage
  BY BoundsThen, StageFacts
<1>2. calls + 1 <= Calls /\ Calls \in Nat /\ Stage \in Nat /\ Rest \in Nat
  BY <1>1, CallsFall, Bounds, StageFacts
<1>3. calls * Stage \in Nat /\ Calls * Stage \in Nat /\ calls * Stage + Stage <= Calls * Stage
  BY <1>2, StagesOfCalls
<1>4. WaitLeft' = calls * Stage + rest
  BY <1>1 DEF WaitLeft, Stage
<1> QED
  BY <1>1, <1>2, <1>3, <1>4 DEF WaitLeft

\* The application sleeps, or calls in vain, only while there is nothing to
\* do, and what the radio announces is something to do.
LEMMA WaitStays ==
  ASSUME TypeOK, TypeOK', NothingForgottenForLong,
         GoToSleep \/ UpdateIdle \/ TransmissionEnds
  PROVE  WaitLeft' <= WaitLeft
<1>1. UNCHANGED Calls
  BY CallsStay
<1>2. NextUpdateInMs \in Nat /\ late \in Nat /\ late <= MaxLate /\ MaxLate \in Nat
  BY NextUpdateType, HalfFacts, TimersAssumption DEF Delays, TypeOK
<1>3. CASE GoToSleep
  <2>1. ~ HasWork
    <3>1. NextUpdateInMs # 0
      BY <1>2, <1>3 DEF GoToSleep
    <3> QED
      BY <3>1, WorkMeansZero
  <2>2. ~ HasWork' /\ (Quiet' <=> Quiet)
    BY <1>3, <2>1
    DEF GoToSleep, HasWork, TxOverdue, Retrying, RetryIsDue, EscalationDue, ResendDue,
        RfcnWaitOver, Quiet, NdatIsDue, BeaconIsDue, txVars, retryVars, cycleVars,
        ndatVars, beaconVars
  <2>3. NextUpdateInMs' = NextUpdateInMs
    BY <1>3
    DEF GoToSleep, NextUpdateInMs, RetryDueIn, QuietDueIn, NdatDueIn,
        BeaconDueIn, DueIn, Remaining, txVars, retryVars, cycleVars, ndatVars,
        beaconVars
  <2>4. Rest' = Rest
    BY <2>1, <2>2, <2>3 DEF Rest, Stage
  <2> QED
    BY <1>1, <2>4, WaitFacts DEF WaitLeft, Stage
<1>4. CASE UpdateIdle
  <2>1. ~ HasWork /\ UNCHANGED <<txVars, packetReceived, retryVars, ndatVars>>
        /\ (Quiet => UNCHANGED beaconVars)
    BY <1>4 DEF UpdateIdle, Quiet, Retrying
  <2>2. ~ HasWork' /\ (Quiet' <=> Quiet)
    BY <2>1
    DEF HasWork, TxOverdue, Retrying, RetryIsDue, EscalationDue, ResendDue,
        RfcnWaitOver, Quiet, NdatIsDue, BeaconIsDue, txVars, retryVars, cycleVars,
        ndatVars, beaconVars
  <2>3. ~ Quiet => NextUpdateInMs' = NextUpdateInMs
    BY <2>1
    DEF NextUpdateInMs, RetryDueIn, DueIn, Remaining, txVars, retryVars, cycleVars, Quiet
  <2>4. Rest' = Rest
    BY <2>1, <2>2, <2>3 DEF Rest, Stage
  <2> QED
    BY <1>1, <2>4, WaitFacts DEF WaitLeft, Stage
<1>5. CASE TransmissionEnds
  <2>1. HasWork' /\ late' = late /\ ~ Quiet
    BY <1>5 DEF TransmissionEnds, HasWork, Quiet
  <2>2. Rest' = MaxLate - late
    BY <2>1 DEF Rest
  <2>3. PICK rest \in Nat : Rest' = rest /\ rest = MaxLate - late
    BY <1>2, <2>2
  <2>4. rest <= Rest
    BY <1>2, <2>1, <2>3 DEF Rest
  <2>5. Calls * Stage \in Nat /\ Rest \in Nat
    <3>1. Calls \in Nat /\ Stage \in Nat /\ Rest \in Nat
      BY Bounds, StageFacts
    <3> QED  BY <3>1
  <2>6. WaitLeft' = Calls * Stage + rest
    BY <1>1, <2>3 DEF WaitLeft, Stage
  <2> QED
    BY <2>3, <2>4, <2>5, <2>6 DEF WaitLeft
<1> QED
  BY <1>3, <1>4, <1>5

\* A deadline met in time is within reach of the signed difference.
LEMMA MetIsInReach ==
  ASSUME TypeOK, DeadlinesMet, MaxWait <= Half
  PROVE  NothingForgottenForLong
<1>1. WaitLeft \in Nat /\ MaxWait \in Nat /\ Half \in Nat
  BY WaitFacts, StageFacts, HalfFacts DEF MaxWait
<1>2. \A age \in Ages, d \in Delays : MetInTime(age, d) => InReach(age, d)
  BY <1>1 DEF MetInTime, InReach, Ages, Delays
<1> QED
  BY <1>2, DeadlineFacts, DelayFacts DEF DeadlinesMet, NothingForgottenForLong, ResendDueAfter

\* While time passes, something is left to wait, so no clock reading wraps
\* past a stamp that is in use.
LEMMA NoStampWraps ==
  ASSUME TypeOK, DeadlinesMet, SleepWithinDeadline, Tick, MaxWait <= Half
  PROVE  /\ txInProgress => txAge' = txAge + 1
         /\ dataResCycleActive /\ ~ requestedRFCN => dataResAge' = dataResAge + 1
         /\ requestedRFCN => rfcnAge' = rfcnAge + 1
         /\ ndatPending => ndatAge' = ndatAge + 1
         /\ ~ beaconDue => beaconAge' = beaconAge + 1
         /\ HasWork => sleepMs = 0 /\ late < MaxLate /\ late' = late + 1
<1>1. HasWork => sleepMs = 0 /\ late < MaxLate /\ late' = late + 1
  <2>1. HasWork => NextUpdateInMs = 0
    BY MetIsInReach, WorkMeansZero
  <2>2. HasWork => ~ (sleepMs > 0)
    BY <2>1 DEF SleepWithinDeadline, TypeOK
  <2> QED
    BY <2>2 DEF Tick, TypeOK
<1>2. Rest >= 1
  <2>1. late \in Nat /\ MaxLate \in Nat \ {0} /\ NextUpdateInMs \in Nat /\ Stage \in Nat
        /\ Stage >= MaxLate + 1
    BY NextUpdateType, HalfFacts, TimersAssumption, StageFacts DEF Delays, TypeOK
  <2> QED
    BY <1>1, <2>1 DEF Rest
<1>3. WaitLeft \in Nat /\ WaitLeft >= 1 /\ MaxWait \in Nat /\ Half \in Nat
      /\ ClockMod \in Nat /\ 2 * Half <= ClockMod
  BY <1>2, WaitFacts, Bounds, StageFacts, HalfFacts DEF MaxWait
<1>4. \A age \in Ages, d \in Delays : MetInTime(age, d) => Older(age) = age + 1
  <2> SUFFICES ASSUME NEW age \in Ages, NEW d \in Delays, MetInTime(age, d)
               PROVE  Older(age) = age + 1
    OBVIOUS
  <2>1. age + 1 < ClockMod
    BY <1>3 DEF MetInTime, Ages, Delays
  <2> QED
    BY <2>1, OlderFacts
<1>5. ResendDueAfter \in Delays
  BY DelayFacts DEF ResendDueAfter
<1> QED
  BY <1>1, <1>4, <1>5, DeadlineFacts, DelayFacts DEF Tick, DeadlinesMet

\* A millisecond takes one off what is left to wait, unless the device is
\* quiet and nothing is due.
LEMMA WaitTicks ==
  ASSUME TypeOK, TypeOK', DeadlinesMet, SleepWithinDeadline, Tick, MaxWait <= Half,
         HasWork \/ ~ Quiet
  PROVE  WaitLeft' + 1 <= WaitLeft
<1>1. UNCHANGED Calls /\ Calls * Stage \in Nat
  <2>1. Calls \in Nat /\ Stage \in Nat
    BY Bounds, StageFacts
  <2> QED  BY <2>1, CallsStay
<1>2. late \in Nat /\ MaxLate \in Nat /\ late <= MaxLate /\ NextUpdateInMs \in Nat
  BY NextUpdateType, HalfFacts, TimersAssumption DEF Delays, TypeOK
<1>u. UNCHANGED <<txInProgress, txDone, packetReceived, waitingForDataRes,
                  dataResCycleActive, dataResend, requestedRFCN, ndatPending,
                  ndatJitter, beaconDue>>
  BY DEF Tick
<1>3. \E rest \in Nat : Rest' = rest /\ rest + 1 <= Rest
  <2>1. CASE HasWork
    <3>1. late < MaxLate /\ late' = late + 1
      BY <2>1, NoStampWraps
    <3>2. HasWork'
      <4>1. txInProgress /\ txDone => HasWork'
        BY <1>u DEF HasWork
      <4>2. txInProgress /\ TxOverdue => HasWork'
        <5>1. txInProgress /\ TxOverdue => txAge' >= TxMax /\ ~ txDone
          BY NoStampWraps, DeadlineFacts, DelayFacts DEF TxOverdue, Ages, Delays
        <5> QED
          BY <1>u, <5>1 DEF HasWork, TxOverdue
      <4>3. ~ txInProgress /\ packetReceived => HasWork'
        BY <1>u DEF HasWork
      <4>4. Retrying /\ RetryIsDue => HasWork'
        <5>1. Retrying' <=> Retrying
          BY <1>u DEF Retrying
        <5>2. ~ dataResCycleActive => RetryIsDue'
          BY <1>u DEF RetryIsDue
        <5>3. dataResCycleActive /\ EscalationDue => RetryIsDue'
          <6>1. dataResCycleActive /\ EscalationDue => dataResAge' >= 2 * ResendDelay
            BY NoStampWraps, DeadlineFacts, DelayFacts DEF EscalationDue, Ages, Delays
          <6> QED
            BY <1>u, <6>1 DEF RetryIsDue, EscalationDue
        <5>4. RfcnWaitOver => RetryIsDue'
          <6>1. RfcnWaitOver => rfcnAge' >= RfcnWait
            BY NoStampWraps, DeadlineFacts, DelayFacts DEF RfcnWaitOver, Ages, Delays
          <6> QED
            BY <1>u, <6>1 DEF RetryIsDue, RfcnWaitOver
        <5>5. dataResCycleActive /\ ResendDue => RetryIsDue'
          <6>1. dataResCycleActive /\ ResendDue => dataResAge' >= ResendDelay
            BY NoStampWraps, DeadlineFacts, DelayFacts DEF ResendDue, Ages, Delays
          <6> QED
            BY <1>u, <6>1 DEF RetryIsDue, ResendDue
        <5> QED
          BY <5>1, <5>2, <5>3, <5>4, <5>5 DEF HasWork, RetryIsDue
      <4>5. Quiet /\ (NdatIsDue \/ BeaconIsDue) => HasWork'
        <5>1. Quiet' <=> Quiet
          BY <1>u DEF Quiet
        <5>2. NdatIsDue => NdatIsDue'
          <6>1. NdatIsDue => ndatAge' >= ndatJitter
            BY NoStampWraps, DeadlineFacts DEF NdatIsDue, Ages, Delays
          <6> QED
            BY <1>u, <6>1 DEF NdatIsDue
        <5>3. BeaconIsDue => BeaconIsDue'
          <6>1. ~ beaconDue /\ BeaconIsDue => beaconAge' >= BeaconInterval
            BY NoStampWraps, DeadlineFacts, DelayFacts DEF BeaconIsDue, Ages, Delays
          <6> QED
            BY <1>u, <6>1 DEF BeaconIsDue
        <5> QED
          BY <5>1, <5>2, <5>3 DEF HasWork
      <4> QED
        BY <2>1, <4>1, <4>2, <4>3, <4>4, <4>5 DEF HasWork
    <3>3. Rest' = MaxLate - (late + 1) /\ Rest = MaxLate - late
      BY <2>1, <3>1, <3>2 DEF Rest
    <3>4. MaxLate - (late + 1) \in Nat
      BY <1>2, <3>1
    <3> QED
      BY <1>2, <3>3, <3>4
  <2>2. CASE ~ HasWork
    <3>1. ~ Quiet /\ ~ Quiet' /\ NextUpdateInMs > 0
      BY <1>2, <1>u, <2>2, ZeroMeansWork DEF Quiet
    <3>2. NextUpdateInMs' = NextUpdateInMs - 1
      BY <3>1, DeadlineSteps
    <3>3. Rest = NextUpdateInMs + MaxLate
      BY <2>2, <3>1 DEF Rest
    <3>4. CASE HasWork'
      <4>1. late' \in 0 .. MaxLate
        BY DEF TypeOK
      <4>2. PICK l \in 0 .. MaxLate : late' = l
        BY <4>1
      <4>3. Rest' = MaxLate - l /\ MaxLate - l \in Nat
        BY <1>2, <3>4, <4>2 DEF Rest
      <4> QED
        BY <1>2, <3>1, <3>3, <4>2, <4>3
    <3>5. CASE ~ HasWork'
      <4>1. Rest' = NextUpdateInMs - 1 + MaxLate
        BY <3>1, <3>2, <3>5 DEF Rest
      <4>2. NextUpdateInMs - 1 + MaxLate \in Nat
        BY <1>2, <3>1
      <4> QED
        BY <1>2, <3>3, <4>1, <4>2
    <3> QED  BY <3>4, <3>5
  <2> QED  BY <2>1, <2>2
<1>4. PICK rest \in Nat : Rest' = rest /\ rest + 1 <= Rest
  BY <1>3
<1>5. WaitLeft' = Calls * Stage + rest /\ Rest \in Nat
  BY <1>1, <1>4, Bounds DEF WaitLeft, Stage
<1> QED
  BY <1>1, <1>4, <1>5 DEF WaitLeft

-----------------------------------------------------------------------------
(* No deadline is forgotten *)

\* A deadline in use after a step starts with it or was in use before it.
StampsKept ==
  /\ txInProgress' => txAge' = 0 \/ (txInProgress /\ txAge' = txAge)
  /\ dataResCycleActive' /\ ~ requestedRFCN' =>
       \/ dataResAge' = 0
       \/ /\ dataResCycleActive /\ ~ requestedRFCN /\ dataResAge' = dataResAge
          /\ dataResend' = dataResend \/ dataResend'
  /\ requestedRFCN' => rfcnAge' = 0 \/ (requestedRFCN /\ rfcnAge' = rfcnAge)
  /\ ndatPending' =>
       \/ ndatAge' = 0
       \/ ndatPending /\ ndatAge' = ndatAge /\ ndatJitter' = ndatJitter
  /\ ~ beaconDue' => ~ beaconDue /\ beaconAge' = beaconAge

LEMMA StepsKeepStamps ==
  ASSUME \/ UpdateTxEnd \/ ReadFrame \/ GiveUp \/ InitialSend \/ Escalate
         \/ EndCycle \/ Resend \/ SendNdat \/ FrameArrives \/ SendData
         \/ GoToSleep \/ UpdateIdle \/ TransmissionEnds \/ UNCHANGED vars
  PROVE  StampsKept
<1> USE DEF StampsKept, txVars, retryVars, cycleVars, ndatVars, beaconVars
<1>1. CASE UpdateTxEnd \/ FrameArrives \/ SendData \/ GoToSleep \/ TransmissionEnds
           \/ UNCHANGED vars
  BY <1>1 DEF UpdateTxEnd, FrameArrives, SendData, GoToSleep, TransmissionEnds, vars
<1>2. CASE ReadFrame
  BY <1>2 DEF ReadFrame, Attempt, ScheduleNdat, ResetDataResState
<1>3. CASE GiveUp
  BY <1>3 DEF GiveUp, ResetDataResState
<1>n. NoteBeacon => (~ beaconDue' => ~ beaconDue /\ beaconAge' = beaconAge)
  BY Zenon DEF NoteBeacon
<1>4. CASE InitialSend \/ Escalate
  BY <1>4, <1>n DEF InitialSend, Escalate, Attempt
<1>5. CASE EndCycle
  BY <1>5, <1>n DEF EndCycle
<1>6. CASE Resend
  BY <1>6, <1>n DEF Resend, Attempt
<1>7. CASE SendNdat
  BY <1>7 DEF SendNdat, Attempt
<1>8. CASE UpdateIdle
  BY <1>8, <1>n DEF UpdateIdle
<1> QED
  BY <1>1, <1>2, <1>3, <1>4, <1>5, <1>6, <1>7, <1>8

\* Deadlines written out for the next state.
LEMMA MetThen ==
  ASSUME NEW wait \in Nat, WaitLeft' = wait,
         txInProgress' => txAge' + wait <= TxMax + MaxWait,
         dataResCycleActive' /\ ~ requestedRFCN' =>
           dataResAge' + wait <= ResendDueAfter' + MaxWait,
         requestedRFCN' => rfcnAge' + wait <= RfcnWait + MaxWait,
         ndatPending' => ndatAge' + wait <= ndatJitter' + MaxWait,
         ~ beaconDue' => beaconAge' + wait <= BeaconInterval + MaxWait
  PROVE  DeadlinesMet'
<1>1. MaxWait' = MaxWait
  BY DEF MaxWait, MaxCalls, Stage, FrameCalls, CycleCalls
<1> QED
  BY <1>1 DEF DeadlinesMet, MetInTime

\* Stamps that are kept stay in time while what is left to wait does not grow.
LEMMA KeptInTime ==
  ASSUME TypeOK, TypeOK', DeadlinesMet, StampsKept, WaitLeft' <= WaitLeft
  PROVE  DeadlinesMet'
<1>1. PICK wait \in Nat : WaitLeft' = wait /\ wait <= MaxWait /\ wait <= WaitLeft
  BY WaitFactsThen
<1>2. WaitLeft \in Nat /\ MaxWait \in Nat /\ Half \in Nat
  BY WaitFacts, StageFacts, HalfFacts DEF MaxWait
<1>3. \A age \in Ages, d \in Delays :
        /\ MetInTime(age, d) => age + wait <= d + MaxWait
        /\ 0 + wait <= d + MaxWait
  BY <1>1, <1>2 DEF MetInTime, Ages, Delays
<1>4. txInProgress' => txAge' + wait <= TxMax + MaxWait
  BY <1>3, DeadlineFacts, DelayFacts DEF StampsKept, DeadlinesMet
<1>5. dataResCycleActive' /\ ~ requestedRFCN' =>
        dataResAge' + wait <= ResendDueAfter' + MaxWait
  <2>1. ResendDueAfter \in Delays /\ ResendDueAfter' \in Delays
    BY DelayFacts DEF ResendDueAfter
  <2>2. CASE dataResAge' = 0
    <3>1. PICK d \in Nat : ResendDueAfter' = d
      BY <2>1, HalfFacts DEF Delays
    <3> QED
      BY <1>1, <1>2, <2>2, <3>1
  <2>3. CASE /\ dataResCycleActive /\ ~ requestedRFCN /\ dataResAge' = dataResAge
             /\ dataResend' = dataResend \/ dataResend'
    <3>1. dataResAge + wait <= ResendDueAfter + MaxWait
      BY <1>3, <2>1, <2>3, DeadlineFacts DEF DeadlinesMet
    <3>2. PICK d \in Nat : ResendDueAfter' = d /\ ResendDueAfter <= d
      <4>1. ResendDelay \in Nat
        BY TimersAssumption
      <4>2. CASE dataResend'
        BY <4>1, <4>2 DEF ResendDueAfter
      <4>3. CASE dataResend' = dataResend
        BY <4>1, <4>3 DEF ResendDueAfter
      <4> QED  BY <2>3, <4>2, <4>3
    <3>3. ResendDueAfter \in Nat /\ dataResAge \in Nat
      BY <2>1, DeadlineFacts, HalfFacts DEF Ages, Delays
    <3> QED
      BY <1>1, <1>2, <2>3, <3>1, <3>2, <3>3
  <2> QED  BY <2>2, <2>3 DEF StampsKept
<1>6. requestedRFCN' => rfcnAge' + wait <= RfcnWait + MaxWait
  BY <1>3, DeadlineFacts, DelayFacts DEF StampsKept, DeadlinesMet
<1>7. ndatPending' => ndatAge' + wait <= ndatJitter' + MaxWait
  <2>1. ndatJitter' \in Delays
    BY DelayFacts DEF TypeOK
  <2> QED
    BY <1>3, <2>1, DeadlineFacts DEF StampsKept, DeadlinesMet
<1>8. ~ beaconDue' => beaconAge' + wait <= BeaconInterval + MaxWait
  BY <1>3, DeadlineFacts, DelayFacts DEF StampsKept, DeadlinesMet
<1> QED
  BY <1>1, <1>4, <1>5, <1>6, <1>7, <1>8, MetThen

\* A beacon is sent when nothing is overdue but the beacon itself.
LEMMA BeaconInTime ==
  ASSUME TypeOK, TypeOK', CycleHasPacket, SendBeacon
  PROVE  DeadlinesMet'
<1>1. PICK wait \in Nat : WaitLeft' = wait /\ wait <= MaxWait
  BY WaitFactsThen
<1>2. MaxWait \in Nat
  BY StageFacts DEF MaxWait
<1>3. \A age \in Ages, d \in Delays : age <= d => age + wait <= d + MaxWait
  BY <1>1, <1>2 DEF Ages, Delays
<1>4. txInProgress' => txAge' + wait <= TxMax + MaxWait
  <2>1. txInProgress' => txAge' = 0
    BY DEF SendBeacon, Quiet, Attempt, txVars
  <2>2. 0 \in Ages /\ 0 <= TxMax
    BY DelayFacts, HalfFacts DEF Ages, Delays
  <2> QED  BY <1>3, <2>1, <2>2, DelayFacts
<1>5. ~ dataResCycleActive' /\ ~ requestedRFCN'
  BY DEF SendBeacon, Quiet, CycleHasPacket, retryVars, cycleVars
<1>6. ndatPending' => ndatAge' + wait <= ndatJitter' + MaxWait
  <2>1. ndatJitter' \in Delays /\ 0 \in Ages /\ \A d \in Delays : 0 <= d
    BY DelayFacts, HalfFacts DEF TypeOK, Ages, Delays
  <2>2. CASE ScheduleNdat
    <3>1. ndatAge' = 0
      BY <2>2 DEF ScheduleNdat
    <3> QED  BY <1>3, <2>1, <3>1
  <2>3. CASE UNCHANGED ndatVars
    <3>1. ndatPending => ndatAge <= ndatJitter
      BY DeadlineFacts DEF SendBeacon, NdatIsDue, Ages, Delays
    <3> QED  BY <1>3, <2>3, <3>1, DeadlineFacts DEF ndatVars
  <2> QED  BY <2>2, <2>3 DEF SendBeacon
<1>7. beaconAge' + wait <= BeaconInterval + MaxWait
  <2>1. beaconAge' = 0 /\ 0 \in Ages /\ 0 <= BeaconInterval
    BY DelayFacts, HalfFacts DEF SendBeacon, Ages, Delays
  <2> QED  BY <1>3, <2>1, DelayFacts
<1> QED
  BY <1>1, <1>4, <1>5, <1>6, <1>7, MetThen

\* While there is something to do or to wait for, a millisecond makes every
\* stamp older and leaves one less to wait.
LEMMA BusyTickInTime ==
  ASSUME TypeOK, TypeOK', DeadlinesMet, SleepWithinDeadline, Tick, MaxWait <= Half,
         HasWork \/ ~ Quiet
  PROVE  DeadlinesMet'
<1>1. PICK wait \in Nat : WaitLeft' = wait
  BY WaitFactsThen
<1>2. wait + 1 <= WaitLeft /\ WaitLeft \in Nat /\ MaxWait \in Nat
  BY <1>1, WaitTicks, WaitFacts, StageFacts DEF MaxWait
<1>3. \A age \in Ages, d \in Delays :
        MetInTime(age, d) => age + 1 + wait <= d + MaxWait
  BY <1>2 DEF MetInTime, Ages, Delays
<1>4. /\ UNCHANGED <<txInProgress, dataResCycleActive, dataResend, requestedRFCN,
                     ndatPending, ndatJitter, beaconDue>>
      /\ ResendDueAfter' = ResendDueAfter /\ ResendDueAfter \in Delays
  BY DelayFacts DEF Tick, ResendDueAfter
<1>5. /\ txInProgress => txAge + 1 + wait <= TxMax + MaxWait
      /\ dataResCycleActive /\ ~ requestedRFCN =>
           dataResAge + 1 + wait <= ResendDueAfter + MaxWait
      /\ requestedRFCN => rfcnAge + 1 + wait <= RfcnWait + MaxWait
      /\ ndatPending => ndatAge + 1 + wait <= ndatJitter + MaxWait
      /\ ~ beaconDue => beaconAge + 1 + wait <= BeaconInterval + MaxWait
  BY <1>3, <1>4, DeadlineFacts, DelayFacts DEF DeadlinesMet
<1>6. /\ txInProgress' => txAge' + wait <= TxMax + MaxWait
      /\ dataResCycleActive' /\ ~ requestedRFCN' =>
           dataResAge' + wait <= ResendDueAfter' + MaxWait
      /\ requestedRFCN' => rfcnAge' + wait <= RfcnWait + MaxWait
      /\ ndatPending' => ndatAge' + wait <= ndatJitter' + MaxWait
      /\ ~ beaconDue' => beaconAge' + wait <= BeaconInterval + MaxWait
  BY <1>4, <1>5, NoStampWraps
<1> QED
  BY <1>1, <1>6, MetThen

\* On a quiet device with nothing to do, no deadline is there.
LEMMA QuietTickInTime ==
  ASSUME TypeOK, TypeOK', CycleHasPacket, DeadlinesMet, SleepWithinDeadline, Tick,
         MaxWait <= Half, Quiet, ~ HasWork
  PROVE  DeadlinesMet'
<1>1. PICK wait \in Nat : WaitLeft' = wait /\ wait <= MaxWait
  BY WaitFactsThen
<1>2. MaxWait \in Nat
  BY StageFacts DEF MaxWait
<1>3. \A age \in Ages, d \in Delays : ~ (age >= d) => age + 1 + wait <= d + MaxWait
  BY <1>1, <1>2 DEF Ages, Delays
<1>4. /\ UNCHANGED <<ndatPending, ndatJitter, beaconDue>>
      /\ ~ txInProgress' /\ ~ dataResCycleActive' /\ ~ requestedRFCN'
  BY DEF Tick, Quiet, CycleHasPacket
<1>5. /\ ndatPending => ~ (ndatAge >= ndatJitter)
      /\ ~ beaconDue /\ ~ (beaconAge >= BeaconInterval)
  BY DEF HasWork, NdatIsDue, BeaconIsDue
<1>6. /\ ndatPending => ndatAge + 1 + wait <= ndatJitter + MaxWait
      /\ beaconAge + 1 + wait <= BeaconInterval + MaxWait
  BY <1>3, <1>5, DeadlineFacts, DelayFacts
<1>7. /\ ndatPending' => ndatAge' + wait <= ndatJitter' + MaxWait
      /\ ~ beaconDue' => beaconAge' + wait <= BeaconInterval + MaxWait
  BY <1>4, <1>5, <1>6, NoStampWraps
<1> QED
  BY <1>1, <1>4, <1>7, MetThen

\* Every step keeps the deadlines.
LEMMA DeadlinesStep ==
  ASSUME TimersInv, TypeOK', [Next]_vars, MaxWait <= Half
  PROVE  DeadlinesMet'
<1> USE DEF TimersInv
<1>1. CASE \/ UpdateTxEnd \/ ReadFrame \/ GiveUp \/ InitialSend \/ Escalate
           \/ EndCycle \/ Resend \/ SendNdat \/ FrameArrives \/ SendData
  BY <1>1, WaitFalls, StepsKeepStamps, KeptInTime
<1>2. CASE GoToSleep \/ UpdateIdle \/ TransmissionEnds
  BY <1>2, MetIsInReach, WaitStays, StepsKeepStamps, KeptInTime
<1>3. CASE SendBeacon
  BY <1>3, BeaconInTime
<1>4. CASE Tick
  BY <1>4, BusyTickInTime, QuietTickInTime
<1>5. CASE UNCHANGED vars
  <2>1. WaitLeft' = WaitLeft
    <3>1. UNCHANGED Calls
      BY <1>5, CallsUnchanged
      DEF vars, txVars, retryVars, cycleVars, ndatVars, appVars, Calls
    <3>2. UNCHANGED Rest
      <4>1. UNCHANGED <<txVars, packetReceived, retryVars, ndatVars, beaconVars, late>>
        BY <1>5 DEF vars, appVars
      <4>2. (HasWork' <=> HasWork) /\ (Quiet' <=> Quiet)
        BY <4>1
        DEF HasWork, TxOverdue, Retrying, RetryIsDue, EscalationDue, ResendDue,
            RfcnWaitOver, Quiet, NdatIsDue, BeaconIsDue, txVars, retryVars, cycleVars,
            ndatVars, beaconVars
      <4>3. NextUpdateInMs' = NextUpdateInMs
        BY <4>1
        DEF NextUpdateInMs, RetryDueIn, QuietDueIn, NdatDueIn, BeaconDueIn, DueIn,
            Remaining, txVars, retryVars, cycleVars, ndatVars, beaconVars
      <4> QED
        BY <4>1, <4>2, <4>3 DEF Rest, Stage
    <3> QED
      BY <3>1, <3>2 DEF WaitLeft, Stage
  <2>2. WaitLeft' <= WaitLeft
    BY <2>1, WaitFacts
  <2> QED
    BY <1>5, <2>2, StepsKeepStamps, KeptInTime
<1> QED
  BY <1>1, <1>2, <1>3, <1>4, <1>5 DEF Next, Update

LEMMA InitMeetsDeadlines ==
  ASSUME Init
  PROVE  TimersInv
<1>1. SleepWithinDeadline /\ CycleHasPacket /\ DeadlinesMet
  BY DEF Init, SleepWithinDeadline, CycleHasPacket, DeadlinesMet
<1> QED
  BY <1>1, InitTypes DEF TimersInv

LEMMA TimersInvKept ==
  ASSUME MaxWait <= Half
  PROVE  Spec => []TimersInv
<1>1. Init => TimersInv
  BY InitMeetsDeadlines
<1>2. TimersInv /\ [Next]_vars => TimersInv'
  <2> SUFFICES ASSUME TimersInv, [Next]_vars PROVE TimersInv'
    OBVIOUS
  <2>1. TypeOK'
    BY TypePreserved DEF TimersInv
  <2>2. SleepWithinDeadline' /\ CycleHasPacket'
    BY <2>1, SleepPreserved, CycleHasPacketStep DEF TimersInv
  <2>3. DeadlinesMet'
    BY <2>1, DeadlinesStep
  <2> QED
    BY <2>1, <2>2, <2>3 DEF TimersInv
<1> QED
  BY <1>1, <1>2, PTL DEF Spec

\* For every clock whose half range exceeds MaxWait, what the calls between
\* two beacons can hold up a deadline by: the signed difference in
\* getNextUpdateInMs() never takes a deadline that has passed for one to come.
THEOREM NoDeadlineIsForgotten ==
  ASSUME MaxWait <= Half
  PROVE  Spec => []NothingForgottenForLong
<1>1. TimersInv => NothingForgottenForLong
  BY MetIsInReach DEF TimersInv
<1> QED
  BY <1>1, TimersInvKept, PTL

\* On such a clock, an application that sleeps as long as getNextUpdateInMs()
\* allows never sleeps while update() has something to do.
THEOREM SleepersWakeInTime ==
  ASSUME MaxWait <= Half
  PROVE  Spec => []NeverOversleeps
BY NoDeadlineIsForgotten, NobodyOversleeps, PTL
=============================================================================
