---------------------------- MODULE LHRTransmit ----------------------------
(***************************************************************************)
(* One device, its radio and the interrupt between them: _transmit() and   *)
(* what update() does about a transmission or a received frame, step by    *)
(* step, against handleDio1Rise(), which may run between any two steps;    *)
(* and the airtime budget that _transmit() keeps.  What is sent and what   *)
(* is done with a frame is left to LHRDelivery and LHRRouting: update()    *)
(* may send whenever the code lets it.                                     *)
(*                                                                         *)
(* The radio (RadioLib) is external.  It raises DIO1 when a frame has      *)
(* arrived, when a channel scan ends and when a transmission ends; the     *)
(* interrupt fires on the rising edge only, so while DIO1 is high further  *)
(* events go unannounced.  scanChannel(), startTransmit(),                 *)
(* finishTransmit(), readData() and startReceive() pull DIO1 low.          *)
(*                                                                         *)
(* Airtimes are counted in Fine parts of a millisecond.                    *)
(***************************************************************************)
EXTENDS Naturals

CONSTANTS
  Frames,      \* frames: whole milliseconds of airtime and the rest of it
  Fine,        \* parts of a millisecond
  Limits,      \* airtime budgets, in milliseconds per window
  Window,      \* LHR_DUTY_CYCLE_WINDOW_MS
  ClockMod,    \* LHR_MILLIS() counts modulo this
  Prompt,      \* whether the interrupt runs before the next step of update()
  MaxBegins    \* bound: calls of beginAsHome() or beginAsNode()

ASSUME TransmitAssumption ==
  /\ Fine \in Nat \ {0}
  /\ Frames \subseteq [ms : Nat, rest : 0 .. Fine - 1] /\ Frames # {}
  /\ Limits \subseteq Nat
  /\ Window \in Nat \ {0} /\ ClockMod \in Nat \ {0} /\ Window < ClockMod
  /\ Prompt \in BOOLEAN /\ MaxBegins \in Nat

VARIABLES
  txInProgress, txDone, packetReceived, working,   \* the flags of the same names
  pc,          \* where update() or _transmit() is; "idle" outside of both
  sending,     \* the frame _transmit() is about
  mode,        \* what the radio does
  dio1,        \* whether DIO1 is high
  edge,        \* whether a rising edge still waits for its interrupt
  fresh,       \* begun, and since then neither transmitted nor started to receive
  begins,      \* how much of MaxBegins is used
  limited,     \* _useDutyCycleLimit
  limit,       \* _dutyCycleLimitMs()
  usedMs,      \* _dutyCycleUsedMs
  windowAge,   \* LHR_MILLIS() - _dutyCycleStartTime
  sent, aired  \* frames charged to this window, and their true airtime

flags     == <<txInProgress, txDone, packetReceived, working>>
radioVars == <<mode, dio1, edge>>
beginVars == <<fresh, begins>>
dutyVars  == <<limited, limit, usedMs, windowAge, sent, aired>>
vars == <<flags, pc, sending, radioVars, beginVars, dutyVars>>

Init ==
  /\ txInProgress = FALSE /\ txDone = FALSE
  /\ packetReceived = FALSE /\ working = FALSE
  /\ pc = "idle" /\ sending \in Frames
  /\ mode = "standby" /\ dio1 = FALSE /\ edge = FALSE
  /\ fresh = TRUE /\ begins = 0
  /\ limited = FALSE /\ limit = 0
  /\ usedMs = 0 /\ windowAge \in 0 .. ClockMod - 1
  /\ sent = 0 /\ aired = 0

\* The program takes a step; a prompt interrupt would have come before it.
Step(from, to) ==
  /\ pc = from /\ pc' = to
  /\ Prompt => ~ edge

-----------------------------------------------------------------------------
(* The airtime budget *)

\* _updateDutyCycleWindow()
WindowOver == windowAge >= Window

UpdateDutyCycleWindow ==
  IF WindowOver
  THEN windowAge' = 0 /\ usedMs' = 0 /\ sent' = 0 /\ aired' = 0
  ELSE UNCHANGED <<windowAge, usedMs, sent, aired>>

UsedMsNow == IF WindowOver THEN 0 ELSE usedMs

\* Mutant of Fits: something is left, no matter how little.
FitsSomehow(f) == limited => UsedMsNow < limit

\* _transmit() and sendData() ask _dutyCycleRemainingMs().
Fits(f) == limited => UsedMsNow < limit /\ UsedMsNow + f.ms <= limit

\* Mutant of ChargedMs: the new airtime replaces the old.
ChargedMsLast(f) == f.ms

\* What the frame makes of the account; getTimeOnAir() / 1000 drops the rest.
ChargedMs(f) == UsedMsNow + f.ms

\* _recordDutyCycleUsage()
RecordDutyCycleUsage(f) ==
  IF limited
  THEN /\ windowAge' = (IF WindowOver THEN 0 ELSE windowAge)
       /\ usedMs'    = ChargedMs(f)
       /\ sent'      = (IF WindowOver THEN 0 ELSE sent) + 1
       /\ aired'     = (IF WindowOver THEN 0 ELSE aired) + f.ms * Fine + f.rest
  ELSE UNCHANGED <<windowAge, usedMs, sent, aired>>

\* setDutyCycleLimit() and the setters that call it; 0 percent is no limit.
SetDutyCycleLimit ==
  /\ pc = "idle"
  /\ \/ limited' = TRUE /\ limit' \in Limits
     \/ limited' = FALSE /\ limit' = 0
  /\ windowAge' = 0 /\ usedMs' = 0 /\ sent' = 0 /\ aired' = 0
  /\ UNCHANGED <<flags, pc, sending, radioVars, beginVars>>

\* A getter of the account, or sendData() with a limit.
QueryDutyCycle ==
  /\ pc = "idle"
  /\ UpdateDutyCycleWindow
  /\ UNCHANGED <<flags, pc, sending, radioVars, beginVars, limited, limit>>

\* Mutant of Elapsed: the difference is taken in a wider type.
ElapsedWide == windowAge + 1

\* Unsigned subtraction: the age of a window begins anew when the clock wraps.
Elapsed == (windowAge + 1) % ClockMod

\* A millisecond passes.
Tick ==
  /\ windowAge' = Elapsed
  /\ UNCHANGED <<flags, pc, sending, radioVars, beginVars, limited, limit,
                 usedMs, sent, aired>>

-----------------------------------------------------------------------------
(* Radio and interrupt *)

\* DIO1 goes high; if it was low, that is a rising edge.
Raise == dio1' = TRUE /\ edge' = (edge \/ ~ dio1)

FrameArrives ==
  /\ mode = "rx"
  /\ Raise
  /\ UNCHANGED <<flags, pc, sending, mode, beginVars, dutyVars>>

ScanEnds ==
  /\ mode = "scan"
  /\ mode' = "standby" /\ Raise
  /\ UNCHANGED <<flags, pc, sending, beginVars, dutyVars>>

TransmissionEnds ==
  /\ mode = "tx"
  /\ mode' = "sent" /\ Raise
  /\ UNCHANGED <<flags, pc, sending, beginVars, dutyVars>>

\* What the interrupt takes for a received frame.
AnnouncesFrame == ~ txInProgress /\ ~ working

HandleDio1Rise ==
  /\ edge
  /\ edge' = FALSE
  /\ txDone' = (txDone \/ txInProgress)
  /\ packetReceived' = (packetReceived \/ AnnouncesFrame)
  /\ UNCHANGED <<txInProgress, working, pc, sending, mode, dio1, beginVars, dutyVars>>

\* The radio is told to do m, which clears what it had to announce.
Command(m) == mode' = m /\ dio1' = FALSE

-----------------------------------------------------------------------------
(* _transmit() *)

Transmitting == {"transmit", "scan", "scanning", "start", "charge"}

\* Over budget: the device goes back to listening.
SkipOverBudget ==
  /\ Step("transmit", "receive")
  /\ limited /\ ~ Fits(sending)
  /\ UpdateDutyCycleWindow
  /\ UNCHANGED <<flags, sending, radioVars, beginVars, limited, limit>>

\* Mutant of FlagsForScan: _txInProgress is set before the scan.
FlagsForScanEarly == working' = TRUE /\ txInProgress' = TRUE

\* The interrupt of the scan is neither a frame nor the end of a transmission.
FlagsForScan == working' = TRUE /\ UNCHANGED txInProgress

BeginScan ==
  /\ Step("transmit", "scan")
  /\ Fits(sending)
  /\ IF limited THEN UpdateDutyCycleWindow
     ELSE UNCHANGED <<windowAge, usedMs, sent, aired>>
  /\ FlagsForScan
  /\ UNCHANGED <<txDone, packetReceived, sending, radioVars, beginVars, limited, limit>>

\* scanChannel() blocks until the scan has ended.
ScanChannel ==
  /\ Step("scan", "scanning")
  /\ Command("scan")
  /\ UNCHANGED <<flags, sending, edge, beginVars, dutyVars>>

\* Mutant of FlagsOnFailure: _working is left set.
FlagsOnFailureHalf == txInProgress' = FALSE /\ UNCHANGED working

FlagsOnFailure == txInProgress' = FALSE /\ working' = FALSE

ChannelBusy ==
  /\ Step("scanning", "receive")
  /\ mode = "standby" /\ Command("standby")
  /\ FlagsOnFailure
  /\ UNCHANGED <<txDone, packetReceived, sending, edge, beginVars, dutyVars>>

ChannelFree ==
  /\ Step("scanning", "start")
  /\ mode = "standby" /\ Command("standby")
  /\ txInProgress' = TRUE
  /\ UNCHANGED <<txDone, packetReceived, working, sending, edge, beginVars, dutyVars>>

StartTransmit ==
  /\ Step("start", "charge")
  /\ Command("tx")
  /\ UNCHANGED <<flags, sending, edge, beginVars, dutyVars>>

StartTransmitFails ==
  /\ Step("start", "receive")
  /\ Command("standby")
  /\ FlagsOnFailure
  /\ UNCHANGED <<txDone, packetReceived, sending, edge, beginVars, dutyVars>>

Charge ==
  /\ Step("charge", "idle")
  /\ RecordDutyCycleUsage(sending)
  /\ fresh' = FALSE
  /\ UNCHANGED <<flags, sending, radioVars, begins, limited, limit>>

\* _startReceive()
StartReceive ==
  /\ Step("receive", "idle")
  /\ Command("rx")
  /\ fresh' = FALSE
  /\ UNCHANGED <<flags, sending, edge, begins, dutyVars>>

-----------------------------------------------------------------------------
(* update() *)

\* Mutant of MaySend: what is to be sent goes before what was received.
MaySendFirst == ~ txInProgress

\* update() looks after the transmission and the received frame first.
MaySend == ~ txInProgress /\ ~ packetReceived

\* Something is to be sent: an NDAT, an RFCN, a DATA.
Send ==
  /\ Step("idle", "transmit")
  /\ MaySend
  /\ sending' \in Frames
  /\ UNCHANGED <<flags, radioVars, beginVars, dutyVars>>

\* _checkLoraData() takes note of the announced frame ...
TakeFrame ==
  /\ Step("idle", "read")
  /\ ~ txInProgress /\ packetReceived
  /\ packetReceived' = FALSE
  /\ UNCHANGED <<txInProgress, txDone, working, sending, radioVars, beginVars, dutyVars>>

\* ... reads it, and answers a DATA or goes on listening; one whose length
\* cannot be right is not read.  If the answer to a DATA cannot be built, the
\* radio is left alone.
ReadFrame ==
  /\ \/ Step("read", "receive") /\ Command(mode) /\ UNCHANGED sending
     \/ Step("read", "transmit") /\ Command(mode) /\ sending' \in Frames
     \/ Step("read", "receive") /\ UNCHANGED <<mode, dio1, sending>>
     \/ Step("read", "idle") /\ Command(mode) /\ UNCHANGED sending
  /\ UNCHANGED <<flags, edge, beginVars, dutyVars>>

UpdateTxComplete ==
  /\ Step("idle", "finish")
  /\ txInProgress /\ txDone
  /\ UNCHANGED <<flags, sending, radioVars, beginVars, dutyVars>>

\* Mutant of Overdue: while the device works on it, nothing is overdue.
OverdueUnlessWorking == txInProgress /\ ~ txDone /\ ~ working

\* The transmission takes longer than _txMaxDurationMs.
Overdue == txInProgress /\ ~ txDone

UpdateTxWatchdog ==
  /\ Step("idle", "finish")
  /\ Overdue
  /\ UNCHANGED <<flags, sending, radioVars, beginVars, dutyVars>>

FinishTransmit ==
  /\ Step("finish", "finished")
  /\ Command("standby")
  /\ UNCHANGED <<flags, sending, edge, beginVars, dutyVars>>

\* Mutant of FlagsOnFinish: _txDone survives.
FlagsOnFinishHalf == txInProgress' = FALSE /\ UNCHANGED txDone /\ working' = FALSE

FlagsOnFinish == txInProgress' = FALSE /\ txDone' = FALSE /\ working' = FALSE

ClearTxFlags ==
  /\ Step("finished", "receive")
  /\ FlagsOnFinish
  /\ UNCHANGED <<packetReceived, sending, radioVars, beginVars, dutyVars>>

\* Nothing is to be done.
UpdateIdle ==
  /\ Step("idle", "idle")
  /\ MaySend
  /\ working' = FALSE
  /\ UNCHANGED <<txInProgress, txDone, packetReceived, sending, radioVars,
                 beginVars, dutyVars>>

\* _reset() in beginAsHome() or beginAsNode(): the flags are cleared, the
\* radio goes on with what it does.
Begin ==
  /\ Step("idle", "idle")
  /\ begins < MaxBegins
  /\ begins' = begins + 1 /\ fresh' = TRUE
  /\ txInProgress' = FALSE /\ txDone' = FALSE
  /\ packetReceived' = FALSE /\ working' = FALSE
  /\ UNCHANGED <<sending, radioVars, dutyVars>>

-----------------------------------------------------------------------------
Transmit ==
  \/ SkipOverBudget \/ BeginScan \/ ScanChannel \/ ChannelBusy \/ ChannelFree
  \/ StartTransmit \/ StartTransmitFails \/ Charge

Update ==
  \/ TakeFrame \/ ReadFrame \/ UpdateTxComplete \/ UpdateTxWatchdog
  \/ FinishTransmit \/ ClearTxFlags \/ StartReceive \/ UpdateIdle

Next ==
  \/ Transmit \/ Update \/ Send \/ Begin
  \/ FrameArrives \/ ScanEnds \/ TransmissionEnds \/ HandleDio1Rise
  \/ SetDutyCycleLimit \/ QueryDutyCycle \/ Tick

Spec == Init /\ [][Next]_vars

\* update() is called again and again and runs to its end, the interrupt runs,
\* and a scan ends.  A transmission need not: there is the watchdog.
Fairness ==
  /\ WF_vars(Transmit) /\ WF_vars(Update)
  /\ WF_vars(HandleDio1Rise) /\ WF_vars(ScanEnds)

LiveSpec == Spec /\ Fairness

-----------------------------------------------------------------------------
(* Properties *)

\* Every variable keeps to its type.
TypeOK ==
  /\ txInProgress \in BOOLEAN /\ txDone \in BOOLEAN
  /\ packetReceived \in BOOLEAN /\ working \in BOOLEAN
  /\ pc \in Transmitting \cup {"idle", "read", "finish", "finished", "receive"}
  /\ sending \in Frames
  /\ mode \in {"standby", "rx", "scan", "tx", "sent"}
  /\ dio1 \in BOOLEAN /\ edge \in BOOLEAN
  /\ fresh \in BOOLEAN /\ begins \in 0 .. MaxBegins
  /\ limited \in BOOLEAN /\ limit \in Limits \cup {0}
  /\ usedMs \in Nat /\ windowAge \in 0 .. ClockMod - 1
  /\ sent \in Nat /\ aired \in Nat

\* Between two calls the flags agree with the radio, whichever way the last
\* transmission ended or failed: with _txInProgress it is transmitting or has
\* just finished, without it listens, and _working, which makes the interrupt
\* drop frames, is set only during a transmission.  Only a device that has
\* just been begun may do neither yet.
FlagsFitRadio ==
  pc = "idle" =>
    /\ working <=> txInProgress
    /\ txInProgress => mode \in {"tx", "sent"}
    /\ txDone => txInProgress
    /\ ~ txInProgress /\ ~ fresh => mode = "rx"

\* No announcement is forgotten: while DIO1 stays high no further edge can
\* come, so between two calls a flag must remember it.  Otherwise the device
\* would be deaf, or wait for the watchdog, although the radio works.
NothingForgotten ==
  pc = "idle" /\ dio1 /\ ~ edge /\ ~ fresh =>
    IF txInProgress THEN txDone ELSE packetReceived

\* A transmission that update() takes for complete has left the radio.
CompletionsAreReal ==
  [][pc = "idle" /\ pc' = "finish" /\ txDone => mode = "sent"]_vars

\* What is charged to a window never exceeds the budget, although the check
\* and the charge are apart and the window may end in between; and the true
\* airtime exceeds what is charged by less than a millisecond a frame.  So
\* getDutyCycleUsage() never returns more than 100, where its comment and
\* docs/PROTOCOL_REFERENCE.md:1045 say that it can, momentarily, before the
\* next transmission is blocked: the code blocks before it charges, and a
\* new limit starts with an empty account.
BudgetKept ==
  limited => usedMs <= limit /\ aired <= usedMs * Fine + sent * (Fine - 1)

\* Every transmission ends, with or without the interrupt.
TransmissionsEnd == txInProgress ~> ~ txInProgress

\* An announced frame is taken, however many transmissions are under way.
AnnouncedFramesAreTaken == packetReceived ~> ~ packetReceived
=============================================================================
