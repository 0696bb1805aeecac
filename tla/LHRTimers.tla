----------------------------- MODULE LHRTimers -----------------------------
(***************************************************************************)
(* One device and an application that sleeps between two calls of          *)
(* update() for as long as getNextUpdateInMs() allows, and is woken by     *)
(* DIO1: the deadlines of the transmission watchdog, the retry cycle, the  *)
(* pending advertisement and the beacon, on a clock that wraps.            *)
(*                                                                         *)
(* A time stamp is represented by its age, LHR_MILLIS() minus the stamp,   *)
(* which is what the code computes; the age of a stamp that nothing reads  *)
(* is 0.  Routes, packets and what the radio does are left to the other    *)
(* modules: a frame may have any effect on the timers, and a transmission  *)
(* may or may not get on the air.                                          *)
(***************************************************************************)
EXTENDS Naturals

CONSTANTS
  ClockMod,        \* LHR_MILLIS() counts modulo this
  BeaconInterval,  \* _beaconIntervalMs
  ResendDelay,     \* _dataResendDelayMs
  RfcnWait,        \* _rfcnWaitDelayMs
  TxMax,           \* _txMaxDurationMs
  Jitters,         \* values of _random(0, 501)
  MaxRetries,      \* _maxLocalRetries, below the largest byte
  MaxLate,         \* bound: milliseconds awake between two calls of update()
  MaxTraffic       \* bound: frames and messages between two beacons

Half == ClockMod \div 2

ASSUME TimersAssumption ==
  /\ ClockMod \in Nat
  /\ BeaconInterval \in 1 .. Half - 1 /\ RfcnWait \in 1 .. Half - 1
  /\ ResendDelay \in Nat \ {0} /\ 2 * ResendDelay \in 1 .. Half - 1
  /\ TxMax \in 1 .. Half - 1
  /\ Jitters \subseteq 0 .. Half - 1 /\ Jitters # {}
  /\ MaxRetries \in Nat /\ MaxLate \in Nat \ {0} /\ MaxTraffic \in Nat

VARIABLES
  txInProgress, txDone, txAge,         \* txAge: since _txStartMs
  packetReceived,
  waitingForDataRes, ownDataPending,
  dataResCycleActive, dataResend, requestedRFCN, localRetryCount,
  dataResAge, rfcnAge,                 \* since _dataResStartTime, _rfcnSendTime
  ndatPending, ndatJitter, ndatAge,    \* ndatAge: since _ndatScheduledMs
  beaconDue, beaconAge,                \* beaconAge: since _lastBeaconMs
  sleepMs,                             \* how long the application still sleeps
  late,                                \* how long it has been awake without update()
  traffic                              \* how much of MaxTraffic is used

txVars     == <<txInProgress, txDone, txAge>>
cycleVars  == <<dataResCycleActive, dataResend, requestedRFCN, localRetryCount,
                dataResAge, rfcnAge>>
retryVars  == <<waitingForDataRes, ownDataPending, cycleVars>>
ndatVars   == <<ndatPending, ndatJitter, ndatAge>>
beaconVars == <<beaconDue, beaconAge>>
appVars    == <<sleepMs, late, traffic>>
vars == <<txVars, packetReceived, retryVars, ndatVars, beaconVars, appVars>>

Init ==
  /\ txInProgress = FALSE /\ txDone = FALSE /\ txAge = 0
  /\ packetReceived = FALSE
  /\ waitingForDataRes = FALSE /\ ownDataPending = FALSE
  /\ dataResCycleActive = FALSE /\ dataResend = FALSE /\ requestedRFCN = FALSE
  /\ localRetryCount = 0 /\ dataResAge = 0 /\ rfcnAge = 0
  /\ ndatPending = FALSE /\ ndatJitter \in Jitters /\ ndatAge = 0
  /\ beaconDue = TRUE /\ beaconAge = 0
  /\ sleepMs = 0 /\ late = 0 /\ traffic = 0

-----------------------------------------------------------------------------
(* getNextUpdateInMs() *)

\* dueAtMs - now for a stamp of this age that is due d after it, unsigned.
Remaining(age, d) == IF age <= d THEN d - age ELSE d + ClockMod - age

\* Mutant of DueIn: without the cast to a signed number.
DueInUnsigned(age, d) == Remaining(age, d)

\* dueIn(): from half the range of the clock on, the difference is negative.
DueIn(age, d) == IF Remaining(age, d) < Half THEN Remaining(age, d) ELSE 0

\* Mutant of RetryDueIn: the start of the cycle counts even after the RFCN.
RetryDueInFromStart ==
  IF ~ dataResCycleActive THEN 0
  ELSE IF dataResend \/ requestedRFCN THEN DueIn(dataResAge, 2 * ResendDelay)
  ELSE DueIn(dataResAge, ResendDelay)

RetryDueIn ==
  IF ~ dataResCycleActive THEN 0
  ELSE IF requestedRFCN THEN DueIn(rfcnAge, RfcnWait)
  ELSE IF dataResend THEN DueIn(dataResAge, 2 * ResendDelay)
  ELSE DueIn(dataResAge, ResendDelay)

NdatDueIn   == DueIn(ndatAge, ndatJitter)
BeaconDueIn == DueIn(beaconAge, BeaconInterval)

QuietDueIn ==
  IF beaconDue THEN 0
  ELSE IF ndatPending /\ NdatDueIn < BeaconDueIn THEN NdatDueIn
  ELSE BeaconDueIn

NextUpdateInMs ==
  IF txInProgress THEN IF txDone THEN 0 ELSE DueIn(txAge, TxMax)
  ELSE IF packetReceived THEN 0
  ELSE IF waitingForDataRes THEN RetryDueIn
  ELSE QuietDueIn

-----------------------------------------------------------------------------
(* Time and application *)

Older(age) == (age + 1) % ClockMod

\* A millisecond passes.  While the application is awake, only MaxLate of
\* them do before it calls update().
Tick ==
  /\ IF sleepMs > 0 THEN sleepMs' = sleepMs - 1 /\ UNCHANGED late
     ELSE late < MaxLate /\ late' = late + 1 /\ UNCHANGED sleepMs
  /\ txAge'      = (IF txInProgress THEN Older(txAge) ELSE 0)
  /\ dataResAge' = (IF dataResCycleActive /\ ~ requestedRFCN
                    THEN Older(dataResAge) ELSE 0)
  /\ rfcnAge'    = (IF requestedRFCN THEN Older(rfcnAge) ELSE 0)
  /\ ndatAge'    = (IF ndatPending THEN Older(ndatAge) ELSE 0)
  /\ beaconAge'  = (IF beaconDue THEN 0 ELSE Older(beaconAge))
  /\ UNCHANGED <<txInProgress, txDone, packetReceived, waitingForDataRes,
                 ownDataPending, dataResCycleActive, dataResend, requestedRFCN,
                 localRetryCount, ndatPending, ndatJitter, beaconDue, traffic>>

\* The application may have a deadline of its own that comes first.
GoToSleep ==
  /\ sleepMs = 0
  /\ sleepMs' \in 1 .. NextUpdateInMs
  /\ late' = 0
  /\ UNCHANGED <<txVars, packetReceived, retryVars, ndatVars, beaconVars, traffic>>

\* handleDio1Rise() sets a flag and wakes the application.
TransmissionEnds ==
  /\ txInProgress /\ ~ txDone
  /\ txDone' = TRUE /\ sleepMs' = 0
  /\ UNCHANGED <<txInProgress, txAge, packetReceived, retryVars, ndatVars,
                 beaconVars, late, traffic>>

FrameArrives ==
  /\ ~ txInProgress /\ ~ packetReceived
  /\ traffic < MaxTraffic /\ traffic' = traffic + 1
  /\ packetReceived' = TRUE /\ sleepMs' = 0
  /\ UNCHANGED <<txVars, retryVars, ndatVars, beaconVars, late>>

\* sendData() while nothing is under way, or into the slot.
SendData ==
  /\ sleepMs = 0
  /\ traffic < MaxTraffic /\ traffic' = traffic + 1
  /\ \/ ~ waitingForDataRes /\ waitingForDataRes' = TRUE /\ UNCHANGED ownDataPending
     \/ /\ waitingForDataRes /\ ~ ownDataPending
        /\ ownDataPending' = TRUE /\ UNCHANGED waitingForDataRes
  /\ UNCHANGED <<txVars, packetReceived, cycleVars, ndatVars, beaconVars,
                 sleepMs, late>>

-----------------------------------------------------------------------------
(* update() *)

\* The application calls update().
Called == sleepMs = 0 /\ late' = 0 /\ UNCHANGED sleepMs

\* _transmit(): the frame gets on the air or does not.
Attempt ==
  \/ txInProgress' = TRUE /\ txAge' = 0 /\ UNCHANGED txDone
  \/ UNCHANGED txVars

\* _sendNDAT()
ScheduleNdat == ndatPending' = TRUE /\ ndatJitter' \in Jitters /\ ndatAge' = 0

\* _resetDataResState(): the message in the slot is next.
ResetDataResState ==
  /\ waitingForDataRes' = ownDataPending /\ ownDataPending' = FALSE
  /\ dataResCycleActive' = FALSE /\ dataResend' = FALSE
  /\ requestedRFCN' = FALSE /\ localRetryCount' = 0
  /\ dataResAge' = 0 /\ rfcnAge' = 0

TxOverdue == ~ txDone /\ txAge >= TxMax

\* Completion or watchdog.
UpdateTxEnd ==
  /\ Called
  /\ txInProgress /\ (txDone \/ TxOverdue)
  /\ txInProgress' = FALSE /\ txDone' = FALSE /\ txAge' = 0
  /\ UNCHANGED <<packetReceived, retryVars, ndatVars, beaconVars, traffic>>

\* _checkLoraData(): a DATA is acknowledged and may have to be relayed, an
\* advertisement or a request may call for an NDAT, a DATA_RES may end the
\* retry cycle, and any frame may be discarded.
ReadFrame ==
  /\ Called
  /\ ~ txInProgress /\ packetReceived
  /\ packetReceived' = FALSE
  /\ \/ /\ ~ waitingForDataRes
        /\ Attempt
        /\ waitingForDataRes' \in BOOLEAN
        /\ UNCHANGED <<ownDataPending, cycleVars, ndatVars>>
     \/ /\ ~ waitingForDataRes \/ ~ ndatPending
        /\ ScheduleNdat
        /\ UNCHANGED <<txVars, retryVars>>
     \/ /\ waitingForDataRes
        /\ ResetDataResState
        /\ UNCHANGED <<txVars, ndatVars>>
     \/ UNCHANGED <<txVars, retryVars, ndatVars>>
  /\ UNCHANGED <<beaconVars, traffic>>

\* Nothing is in the way of the retry cycle.
Retrying == ~ txInProgress /\ ~ packetReceived /\ waitingForDataRes

\* If nothing got on the air, update() goes on and notes a beacon that is due.
NoteBeacon ==
  /\ beaconDue' = (beaconDue \/ (~ txInProgress' /\ beaconAge >= BeaconInterval))
  /\ UNCHANGED beaconAge

\* Mutant of NextRetryCount: the count is not kept.
NextRetryCountStuck == localRetryCount

NextRetryCount == localRetryCount + 1

\* Mutant of Exhausted: the count is compared before it is raised.
ExhaustedLate == localRetryCount > MaxRetries

Exhausted == NextRetryCount > MaxRetries

GiveUp ==
  /\ Called /\ Retrying
  /\ ~ dataResCycleActive /\ Exhausted
  /\ ResetDataResState
  /\ UNCHANGED <<txVars, packetReceived, ndatVars, beaconVars, traffic>>

InitialSend ==
  /\ Called /\ Retrying
  /\ ~ dataResCycleActive /\ ~ Exhausted
  /\ dataResCycleActive' = TRUE /\ localRetryCount' = NextRetryCount
  /\ dataResend' = FALSE /\ requestedRFCN' = FALSE
  /\ dataResAge' = 0 /\ rfcnAge' = 0
  /\ Attempt /\ NoteBeacon
  /\ UNCHANGED <<packetReceived, waitingForDataRes, ownDataPending, ndatVars, traffic>>

EscalationDue == ~ requestedRFCN /\ dataResAge >= 2 * ResendDelay
ResendDue     == ~ requestedRFCN /\ ~ dataResend /\ dataResAge >= ResendDelay
RfcnWaitOver  == requestedRFCN /\ rfcnAge >= RfcnWait

Escalate ==
  /\ Called /\ Retrying
  /\ dataResCycleActive /\ EscalationDue
  /\ requestedRFCN' = TRUE /\ rfcnAge' = 0 /\ dataResend' = FALSE
  /\ Attempt /\ NoteBeacon
  /\ UNCHANGED <<packetReceived, waitingForDataRes, ownDataPending,
                 dataResCycleActive, localRetryCount, dataResAge, ndatVars, traffic>>

EndCycle ==
  /\ Called /\ Retrying
  /\ dataResCycleActive /\ RfcnWaitOver
  /\ dataResCycleActive' = FALSE /\ dataResend' = FALSE /\ requestedRFCN' = FALSE
  /\ dataResAge' = 0 /\ rfcnAge' = 0
  /\ UNCHANGED <<txVars, packetReceived, waitingForDataRes, ownDataPending,
                 localRetryCount, ndatVars, traffic>>
  /\ NoteBeacon

Resend ==
  /\ Called /\ Retrying
  /\ dataResCycleActive /\ ResendDue /\ ~ EscalationDue
  /\ dataResend' = TRUE
  /\ Attempt /\ NoteBeacon
  /\ UNCHANGED <<packetReceived, waitingForDataRes, ownDataPending,
                 dataResCycleActive, requestedRFCN, localRetryCount, dataResAge,
                 rfcnAge, ndatVars, traffic>>

\* Nothing is in the way of advertisements.
Quiet == ~ txInProgress /\ ~ packetReceived /\ ~ waitingForDataRes

NdatIsDue   == ndatPending /\ ndatAge >= ndatJitter
BeaconIsDue == beaconDue \/ beaconAge >= BeaconInterval

\* A pending NDAT, which a device without a route keeps to itself.
SendNdat ==
  /\ Called /\ Quiet /\ NdatIsDue
  /\ ndatPending' = FALSE /\ ndatAge' = 0 /\ UNCHANGED ndatJitter
  /\ Attempt
  /\ UNCHANGED <<packetReceived, retryVars, beaconVars, traffic>>

\* Pruning may call for an NDAT, as does a beacon with a route; without one
\* the beacon is an RFCN.
SendBeacon ==
  /\ Called /\ Quiet /\ ~ NdatIsDue /\ BeaconIsDue
  /\ beaconDue' = FALSE /\ beaconAge' = 0 /\ traffic' = 0
  /\ ScheduleNdat \/ UNCHANGED ndatVars
  /\ Attempt
  /\ UNCHANGED <<packetReceived, retryVars>>

\* What update() has to do now.
RetryIsDue == ~ dataResCycleActive \/ EscalationDue \/ RfcnWaitOver \/ ResendDue

HasWork ==
  \/ txInProgress /\ (txDone \/ TxOverdue)
  \/ ~ txInProgress /\ packetReceived
  \/ Retrying /\ RetryIsDue
  \/ Quiet /\ (NdatIsDue \/ BeaconIsDue)

UpdateIdle ==
  /\ Called
  /\ ~ HasWork
  /\ UNCHANGED <<txVars, packetReceived, retryVars, ndatVars, traffic>>
  /\ IF Retrying THEN NoteBeacon ELSE UNCHANGED beaconVars

-----------------------------------------------------------------------------
Update ==
  \/ UpdateTxEnd \/ ReadFrame
  \/ GiveUp \/ InitialSend \/ Escalate \/ EndCycle \/ Resend
  \/ SendNdat \/ SendBeacon \/ UpdateIdle

Next ==
  \/ Update
  \/ Tick \/ GoToSleep \/ TransmissionEnds \/ FrameArrives \/ SendData

Spec == Init /\ [][Next]_vars

\* The clock runs on, and the application calls update() whenever it is awake.
\* No transmission is promised to end, there is the watchdog.
LiveSpec == Spec /\ WF_vars(Tick) /\ WF_vars(Update)

-----------------------------------------------------------------------------
(* Properties *)

\* Every variable keeps to its type.
TypeOK ==
  /\ txInProgress \in BOOLEAN /\ txDone \in BOOLEAN /\ packetReceived \in BOOLEAN
  /\ waitingForDataRes \in BOOLEAN /\ ownDataPending \in BOOLEAN
  /\ dataResCycleActive \in BOOLEAN /\ dataResend \in BOOLEAN
  /\ requestedRFCN \in BOOLEAN /\ localRetryCount \in 0 .. MaxRetries
  /\ ndatPending \in BOOLEAN /\ ndatJitter \in Jitters
  /\ beaconDue \in BOOLEAN
  /\ txAge \in 0 .. ClockMod - 1 /\ dataResAge \in 0 .. ClockMod - 1
  /\ rfcnAge \in 0 .. ClockMod - 1 /\ ndatAge \in 0 .. ClockMod - 1
  /\ beaconAge \in 0 .. ClockMod - 1
  /\ sleepMs \in 0 .. Half - 1 /\ late \in 0 .. MaxLate
  /\ traffic \in 0 .. MaxTraffic

\* An application that sleeps as long as getNextUpdateInMs() allowed never
\* sleeps while update() has something to do.
NeverOversleeps == sleepMs > 0 => ~ HasWork

\* A deadline is not yet, or at most by half the range of the clock, overdue.
InReach(age, d) == age <= d + Half

\* No deadline is left alone for so long that the signed difference in
\* getNextUpdateInMs() takes it for one to come: retry cycles, transmissions
\* and frames hold up what waits behind them for a bounded time.
NothingForgottenForLong ==
  /\ txInProgress => InReach(txAge, TxMax)
  /\ dataResCycleActive /\ ~ requestedRFCN =>
       InReach(dataResAge, IF dataResend THEN 2 * ResendDelay ELSE ResendDelay)
  /\ requestedRFCN => InReach(rfcnAge, RfcnWait)
  /\ ndatPending => InReach(ndatAge, ndatJitter)
  /\ ~ beaconDue => InReach(beaconAge, BeaconInterval)

\* getNextUpdateInMs() returns 0 only when update() has something to do: a
\* device that has nothing to do is never kept awake.
NoIdleWakeups == NextUpdateInMs = 0 => HasWork

\* The application is always called back for the next beacon, however long
\* retry cycles, stuck transmissions and received frames held it up.
BeaconsGoOn == []<><<SendBeacon>>_vars
=============================================================================
