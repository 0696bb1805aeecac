------------------------- MODULE LHRTransmitProofs -------------------------
(***************************************************************************)
(* Proofs about LHRTransmit: its types; the airtime budget; and, where the *)
(* interrupt is prompt, that flags and radio agree, that nothing announced *)
(* is forgotten and that completions are real.                             *)
(***************************************************************************)
EXTENDS LHRTransmit, TLAPS

-----------------------------------------------------------------------------
(* Types *)

\* A window is over or is not; either way the account keeps its types.
LEMMA WindowTypes ==
  ASSUME TypeOK, UpdateDutyCycleWindow
  PROVE  /\ windowAge' \in 0 .. ClockMod - 1
         /\ usedMs' \in Nat /\ sent' \in Nat /\ aired' \in Nat
BY TransmitAssumption DEF TypeOK, UpdateDutyCycleWindow, WindowOver

\* A charge keeps the types of the account.
LEMMA ChargeTypes ==
  ASSUME TypeOK, RecordDutyCycleUsage(sending)
  PROVE  /\ windowAge' \in 0 .. ClockMod - 1
         /\ usedMs' \in Nat /\ sent' \in Nat /\ aired' \in Nat
<1>1. sending.ms \in Nat /\ sending.rest \in Nat /\ Fine \in Nat
  BY TransmitAssumption DEF TypeOK
<1>2. sending.ms * Fine \in Nat
  BY <1>1
<1>3. ChargedMs(sending) \in Nat
  BY <1>1 DEF TypeOK, ChargedMs, UsedMsNow
<1> QED
  BY <1>1, <1>2, <1>3, TransmitAssumption DEF TypeOK, RecordDutyCycleUsage

\* The age of a window stays within the clock.
LEMMA ElapsedType ==
  ASSUME TypeOK
  PROVE  Elapsed \in 0 .. ClockMod - 1
BY TransmitAssumption DEF TypeOK, Elapsed

\* Every step of the device, the radio or the clock keeps the types.
LEMMA TypePreserved ==
  ASSUME TypeOK, [Next]_vars
  PROVE  TypeOK'
<1> USE TransmitAssumption
<1>1. CASE Transmit
  <2>1. CASE SkipOverBudget
    BY <2>1, WindowTypes DEF SkipOverBudget, Step, TypeOK, flags, radioVars, beginVars, Transmitting
  <2>2. CASE BeginScan
    BY <2>2, WindowTypes
    DEF BeginScan, FlagsForScan, Step, TypeOK, radioVars, beginVars, Transmitting
  <2>3. CASE ScanChannel
    BY <2>3 DEF ScanChannel, Command, Step, TypeOK, flags, beginVars, dutyVars, Transmitting
  <2>4. CASE ChannelBusy
    BY <2>4 DEF ChannelBusy, FlagsOnFailure, Command, Step, TypeOK, beginVars, dutyVars, Transmitting
  <2>5. CASE ChannelFree
    BY <2>5 DEF ChannelFree, Command, Step, TypeOK, beginVars, dutyVars, Transmitting
  <2>6. CASE StartTransmit
    BY <2>6 DEF StartTransmit, Command, Step, TypeOK, flags, beginVars, dutyVars, Transmitting
  <2>7. CASE StartTransmitFails
    BY <2>7 DEF StartTransmitFails, FlagsOnFailure, Command, Step, TypeOK, beginVars, dutyVars, Transmitting
  <2>8. CASE Charge
    <3>1. pc' = "idle" /\ fresh' \in BOOLEAN
      BY <2>8 DEF Charge, Step
    <3>2. UNCHANGED <<flags, sending, radioVars, begins, limited, limit>>
      BY <2>8 DEF Charge
    <3>3. /\ windowAge' \in 0 .. ClockMod - 1
          /\ usedMs' \in Nat /\ sent' \in Nat /\ aired' \in Nat
      BY <2>8, ChargeTypes DEF Charge
    <3> QED
      BY <3>1, <3>2, <3>3 DEF TypeOK, flags, radioVars
  <2> QED
    BY <1>1, <2>1, <2>2, <2>3, <2>4, <2>5, <2>6, <2>7, <2>8 DEF Transmit
<1>2. CASE Update
  <2>1. CASE TakeFrame
    BY <2>1 DEF TakeFrame, Step, TypeOK, radioVars, beginVars, dutyVars, Transmitting
  <2>2. CASE ReadFrame
    <3>1. pc' \in {"receive", "transmit", "idle"} /\ sending' \in Frames
      BY <2>2 DEF ReadFrame, Command, Step, TypeOK
    <3>2. mode' = mode /\ dio1' \in BOOLEAN
      BY <2>2 DEF ReadFrame, Command, TypeOK
    <3>3. UNCHANGED <<flags, edge, beginVars, dutyVars>>
      BY <2>2 DEF ReadFrame
    <3> QED
      BY <3>1, <3>2, <3>3 DEF TypeOK, flags, beginVars, dutyVars, Transmitting
  <2>3. CASE UpdateTxComplete
    BY <2>3 DEF UpdateTxComplete, Step, TypeOK, flags, radioVars, beginVars, dutyVars, Transmitting
  <2>4. CASE UpdateTxWatchdog
    BY <2>4 DEF UpdateTxWatchdog, Step, TypeOK, flags, radioVars, beginVars, dutyVars, Transmitting
  <2>5. CASE FinishTransmit
    BY <2>5 DEF FinishTransmit, Command, Step, TypeOK, flags, beginVars, dutyVars, Transmitting
  <2>6. CASE ClearTxFlags
    BY <2>6 DEF ClearTxFlags, FlagsOnFinish, Step, TypeOK, radioVars, beginVars, dutyVars, Transmitting
  <2>7. CASE StartReceive
    BY <2>7 DEF StartReceive, Command, Step, TypeOK, flags, dutyVars, Transmitting
  <2>8. CASE UpdateIdle
    <3>1. pc' = "idle" /\ working' \in BOOLEAN
      BY <2>8 DEF UpdateIdle, Step
    <3>2. UNCHANGED <<txInProgress, txDone, packetReceived, sending, radioVars,
                      beginVars, dutyVars>>
      BY <2>8 DEF UpdateIdle
    <3> QED
      BY <3>1, <3>2 DEF TypeOK, radioVars, beginVars, dutyVars
  <2> QED
    BY <1>2, <2>1, <2>2, <2>3, <2>4, <2>5, <2>6, <2>7, <2>8 DEF Update
<1>3. CASE Send
  BY <1>3 DEF Send, Step, TypeOK, flags, radioVars, beginVars, dutyVars, Transmitting
<1>4. CASE Begin
  <2>1. /\ txInProgress' \in BOOLEAN /\ txDone' \in BOOLEAN
        /\ packetReceived' \in BOOLEAN /\ working' \in BOOLEAN
        /\ fresh' \in BOOLEAN
    BY <1>4 DEF Begin
  <2>2. pc' = "idle" /\ UNCHANGED <<sending, radioVars, dutyVars>>
    BY <1>4 DEF Begin, Step
  <2>3. begins' \in 0 .. MaxBegins
    BY <1>4 DEF Begin, TypeOK
  <2> QED
    BY <2>1, <2>2, <2>3 DEF TypeOK, radioVars, dutyVars
<1>5. CASE FrameArrives \/ ScanEnds \/ TransmissionEnds
  <2>1. dio1' \in BOOLEAN /\ edge' \in BOOLEAN
    BY <1>5 DEF FrameArrives, ScanEnds, TransmissionEnds, Raise
  <2>2. mode' \in {"standby", "rx", "sent"}
    BY <1>5 DEF FrameArrives, ScanEnds, TransmissionEnds
  <2>3. UNCHANGED <<flags, pc, sending, beginVars, dutyVars>>
    BY <1>5 DEF FrameArrives, ScanEnds, TransmissionEnds
  <2> QED
    BY <2>1, <2>2, <2>3 DEF TypeOK, flags, beginVars, dutyVars
<1>6. CASE HandleDio1Rise
  <2>1. /\ edge' \in BOOLEAN /\ txDone' \in BOOLEAN /\ packetReceived' \in BOOLEAN
    BY <1>6 DEF HandleDio1Rise
  <2>2. UNCHANGED <<txInProgress, working, pc, sending, mode, dio1, beginVars, dutyVars>>
    BY <1>6 DEF HandleDio1Rise
  <2> QED
    BY <2>1, <2>2 DEF TypeOK, beginVars, dutyVars
<1>7. CASE SetDutyCycleLimit
  <2>1. limited' \in BOOLEAN
    BY <1>7 DEF SetDutyCycleLimit
  <2>2. UNCHANGED <<flags, pc, sending, radioVars, beginVars>>
    BY <1>7 DEF SetDutyCycleLimit
  <2>3. /\ limit' \in Limits \cup {0} /\ windowAge' \in 0 .. ClockMod - 1
        /\ usedMs' \in Nat /\ sent' \in Nat /\ aired' \in Nat
    <3>1. limit' \in Limits \cup {0}
      BY <1>7 DEF SetDutyCycleLimit
    <3>2. windowAge' = 0 /\ usedMs' = 0 /\ sent' = 0 /\ aired' = 0
      BY <1>7 DEF SetDutyCycleLimit
    <3> QED
      BY <3>1, <3>2
  <2> QED
    BY <2>1, <2>2, <2>3 DEF TypeOK, flags, radioVars, beginVars
<1>8. CASE QueryDutyCycle
  BY <1>8, WindowTypes DEF QueryDutyCycle, TypeOK, flags, radioVars, beginVars
<1>9. CASE Tick
  BY <1>9, ElapsedType DEF Tick, TypeOK, flags, radioVars, beginVars
<1>10. CASE UNCHANGED vars
  BY <1>10 DEF vars, TypeOK, flags, radioVars, beginVars, dutyVars
<1> QED
  BY <1>1, <1>2, <1>3, <1>4, <1>5, <1>6, <1>7, <1>8, <1>9, <1>10 DEF Next

\* The program starts with values of the right types.
LEMMA InitTypes ==
  ASSUME Init
  PROVE  TypeOK
<1>1. /\ txInProgress \in BOOLEAN /\ txDone \in BOOLEAN
      /\ packetReceived \in BOOLEAN /\ working \in BOOLEAN
      /\ dio1 \in BOOLEAN /\ edge \in BOOLEAN
      /\ fresh \in BOOLEAN /\ limited \in BOOLEAN
  BY DEF Init
<1>2. begins \in 0 .. MaxBegins /\ usedMs \in Nat /\ sent \in Nat /\ aired \in Nat
  BY TransmitAssumption DEF Init
<1> QED
  BY <1>1, <1>2 DEF Init, TypeOK

\* Flags, radio and account keep their types for all frames, budgets, windows
\* and clocks, prompt interrupt or not.
THEOREM TypeCorrect == Spec => []TypeOK
<1>1. Init => TypeOK
  BY InitTypes
<1>2. TypeOK /\ [Next]_vars => TypeOK'
  BY TypePreserved
<1> QED
  BY <1>1, <1>2, PTL DEF Spec

-----------------------------------------------------------------------------
(* The airtime budget.  Between the check and the charge nothing else is    *)
(* charged and no limit is set; if the window ends in between, what is      *)
(* charged only becomes less.                                               *)

Checked == {"scan", "scanning", "start", "charge"}

\* The frame that passed the check still fits.
CheckedFits ==
  limited /\ pc \in Checked => usedMs + sending.ms <= limit

BudgetInv == TypeOK /\ BudgetKept /\ CheckedFits

\* The sum of whole milliseconds falls behind by less than one a frame.
LEMMA RestAddsUp ==
  ASSUME NEW a \in Nat, NEW u \in Nat, NEW n \in Nat, NEW m \in Nat,
         NEW F \in Nat \ {0}, NEW r \in 0 .. F - 1,
         a <= u * F + n * (F - 1)
  PROVE  a + m * F + r <= (u + m) * F + (n + 1) * (F - 1)
<1>1. (u + m) * F = u * F + m * F
  OBVIOUS
<1>2. (n + 1) * (F - 1) = n * (F - 1) + (F - 1)
  OBVIOUS
<1>3. /\ u * F \in Nat /\ m * F \in Nat /\ n * (F - 1) \in Nat
      /\ F - 1 \in Nat /\ r \in Nat /\ r <= F - 1
  OBVIOUS
<1> DEFINE uF == u * F  mF == m * F  nF == n * (F - 1)  G == F - 1
<1>4. a <= uF + nF /\ uF \in Nat /\ mF \in Nat /\ nF \in Nat /\ G \in Nat /\ r \in Nat /\ r <= G
  BY <1>3
<1>5. a + mF + r <= (uF + mF) + (nF + G)
  <2> HIDE DEF uF, mF, nF, G
  <2> QED
    BY <1>4
<1> QED
  BY <1>1, <1>2, <1>5

\* A window that begins anew owes nothing.
LEMMA WindowKeepsBudget ==
  ASSUME TypeOK, BudgetKept, limited, UpdateDutyCycleWindow
  PROVE  /\ usedMs' = UsedMsNow /\ usedMs' <= usedMs /\ usedMs' <= limit
         /\ aired' <= usedMs' * Fine + sent' * (Fine - 1)
<1> USE TransmitAssumption
<1>1. limit \in Nat
  BY DEF TypeOK
<1>2. CASE WindowOver
  BY <1>1, <1>2 DEF UpdateDutyCycleWindow, UsedMsNow, BudgetKept, TypeOK
<1>3. CASE ~ WindowOver
  BY <1>1, <1>3 DEF UpdateDutyCycleWindow, UsedMsNow, BudgetKept, TypeOK
<1> QED
  BY <1>2, <1>3

\* The charge keeps to the budget, be it in the window of the check or not.
LEMMA ChargeKeepsBudget ==
  ASSUME TypeOK, BudgetKept, limited, usedMs + sending.ms <= limit,
         RecordDutyCycleUsage(sending)
  PROVE  /\ usedMs' <= limit
         /\ aired' <= usedMs' * Fine + sent' * (Fine - 1)
<1> USE TransmitAssumption
<1>1. /\ limit \in Nat /\ sending.ms \in Nat /\ Fine \in Nat \ {0}
      /\ sending.rest \in 0 .. Fine - 1
      /\ usedMs \in Nat /\ sent \in Nat /\ aired \in Nat
  BY DEF TypeOK
<1>2. CASE WindowOver
  <2>1. usedMs' = 0 + sending.ms /\ sent' = 0 + 1
        /\ aired' = 0 + sending.ms * Fine + sending.rest
    BY <1>2 DEF RecordDutyCycleUsage, ChargedMs, UsedMsNow
  <2>2. 0 <= 0 * Fine + 0 * (Fine - 1)
    BY <1>1
  <2>3. aired' <= usedMs' * Fine + sent' * (Fine - 1)
    BY <1>1, <2>1, <2>2, RestAddsUp
  <2>4. usedMs' <= limit
    BY <1>1, <2>1
  <2> QED
    BY <2>3, <2>4
<1>3. CASE ~ WindowOver
  <2>1. usedMs' = usedMs + sending.ms /\ sent' = sent + 1
        /\ aired' = aired + sending.ms * Fine + sending.rest
    BY <1>3 DEF RecordDutyCycleUsage, ChargedMs, UsedMsNow
  <2>2. aired <= usedMs * Fine + sent * (Fine - 1)
    BY DEF BudgetKept
  <2>3. aired' <= usedMs' * Fine + sent' * (Fine - 1)
    BY <1>1, <2>1, <2>2, RestAddsUp
  <2> QED
    BY <2>1, <2>3
<1> QED
  BY <1>2, <1>3

\* Every step keeps to the budget.
LEMMA BudgetPreserved ==
  ASSUME BudgetInv, [Next]_vars
  PROVE  BudgetInv'
<1>1. TypeOK' /\ TypeOK /\ BudgetKept
  BY TypePreserved DEF BudgetInv
<1>2. limit \in Nat /\ sending.ms \in Nat /\ usedMs \in Nat /\ usedMs' \in Nat
  BY <1>1, TransmitAssumption DEF TypeOK
<1>3. (BudgetKept /\ CheckedFits)'
  <2>1. CASE SkipOverBudget
    <3>1. pc' = "receive" /\ UNCHANGED <<limited, limit>> /\ UpdateDutyCycleWindow
      BY <2>1 DEF SkipOverBudget, Step
    <3> QED
      BY <1>1, <3>1, WindowKeepsBudget DEF BudgetKept, CheckedFits, Checked
  <2>2. CASE BeginScan
    <3>1. UNCHANGED <<limited, limit, sending>> /\ Fits(sending)
      BY <2>2 DEF BeginScan
    <3>2. CASE limited
      <4>1. UpdateDutyCycleWindow
        BY <2>2, <3>2 DEF BeginScan
      <4>2. usedMs' + sending.ms <= limit
        BY <1>1, <3>1, <3>2, <4>1, WindowKeepsBudget DEF Fits
      <4> QED
        BY <1>1, <3>1, <3>2, <4>1, <4>2, WindowKeepsBudget DEF BudgetKept, CheckedFits
    <3>3. CASE ~ limited
      BY <3>1, <3>3 DEF BudgetKept, CheckedFits
    <3> QED
      BY <3>2, <3>3
  <2>3. CASE Charge
    <3>1. /\ pc = "charge" /\ pc' = "idle" /\ UNCHANGED <<limited, limit>>
          /\ RecordDutyCycleUsage(sending)
      BY <2>3 DEF Charge, Step
    <3>2. CheckedFits'
      BY <3>1 DEF CheckedFits, Checked
    <3>3. limited => usedMs + sending.ms <= limit
      BY <3>1 DEF BudgetInv, CheckedFits, Checked
    <3> QED
      BY <1>1, <3>1, <3>2, <3>3, ChargeKeepsBudget DEF BudgetKept
  <2>4. CASE ScanChannel \/ ChannelFree \/ StartTransmit
    BY <2>4 DEF ScanChannel, ChannelFree, StartTransmit, Step, dutyVars,
                BudgetInv, BudgetKept, CheckedFits, Checked
  <2>5. CASE ChannelBusy \/ StartTransmitFails \/ Update \/ Send \/ Begin
    <3>1. pc' \notin Checked /\ UNCHANGED dutyVars
      BY <2>5
      DEF ChannelBusy, StartTransmitFails, Update, TakeFrame, ReadFrame,
          UpdateTxComplete, UpdateTxWatchdog, FinishTransmit, ClearTxFlags,
          StartReceive, UpdateIdle, Send, Begin, Step, Checked
    <3> QED
      BY <3>1 DEF dutyVars, BudgetInv, BudgetKept, CheckedFits
  <2>6. CASE FrameArrives \/ ScanEnds \/ TransmissionEnds \/ HandleDio1Rise
    BY <2>6 DEF FrameArrives, ScanEnds, TransmissionEnds, HandleDio1Rise,
                dutyVars, BudgetInv, BudgetKept, CheckedFits
  <2>7. CASE SetDutyCycleLimit
    <3>1. pc' \notin Checked
      BY <2>7 DEF SetDutyCycleLimit, Checked
    <3>2. usedMs' = 0 /\ sent' = 0 /\ aired' = 0
      BY <2>7 DEF SetDutyCycleLimit
    <3>3. limit' \in Nat
      BY <1>1, TransmitAssumption DEF TypeOK
    <3>4. aired' <= usedMs' * Fine + sent' * (Fine - 1)
      BY <3>2, TransmitAssumption
    <3> QED
      BY <3>1, <3>2, <3>4, <3>3 DEF BudgetKept, CheckedFits
  <2>8. CASE QueryDutyCycle
    <3>1. /\ pc = "idle" /\ UNCHANGED <<pc, limited, limit>>
          /\ UpdateDutyCycleWindow
      BY <2>8 DEF QueryDutyCycle
    <3> QED
      BY <1>1, <3>1, WindowKeepsBudget DEF BudgetKept, CheckedFits, Checked
  <2>9. CASE Tick
    BY <2>9 DEF Tick, BudgetInv, BudgetKept, CheckedFits
  <2>10. CASE UNCHANGED vars
    BY <2>10 DEF vars, dutyVars, BudgetInv, BudgetKept, CheckedFits
  <2> QED
    BY <2>1, <2>2, <2>3, <2>4, <2>5, <2>6, <2>7, <2>8, <2>9, <2>10
    DEF Next, Transmit
<1> QED
  BY <1>1, <1>3 DEF BudgetInv

\* In no window is more airtime charged than the limit allows, whatever the
\* frames, the limit, the window, and wherever the window ends; and the true
\* airtime exceeds the charged one by less than a millisecond a frame.
THEOREM BudgetIsKept == Spec => []BudgetKept
<1>1. Init => BudgetInv
  <2> SUFFICES ASSUME Init PROVE BudgetInv
    OBVIOUS
  <2>1. TypeOK
    BY InitTypes
  <2> QED
    BY <2>1 DEF Init, BudgetInv, BudgetKept, CheckedFits
<1>2. BudgetInv /\ [Next]_vars => BudgetInv'
  BY BudgetPreserved
<1>3. BudgetInv => BudgetKept
  BY DEF BudgetInv
<1> QED
  BY <1>1, <1>2, <1>3, PTL DEF Spec

-----------------------------------------------------------------------------
(* Flags and radio, with a prompt interrupt.  Before the program takes a    *)
(* step no edge is waiting, so the edge of a scan is gone before            *)
(* _txInProgress is set, and from then on only the end of the transmission  *)
(* can raise DIO1.                                                          *)

\* What the flags are, by the place of the program.
FlagsByPlace ==
  /\ pc \in {"transmit", "read", "receive"} => ~ txInProgress /\ ~ working
  /\ pc \in {"scan", "scanning"} => ~ txInProgress /\ working
  /\ pc \in {"start", "charge", "finish", "finished"} => txInProgress /\ working
  /\ pc = "idle" => (working <=> txInProgress)
  /\ txDone => txInProgress

\* What the radio does, by the place of the program.
RadioByPlace ==
  /\ pc = "scanning" => mode \in {"scan", "standby"}
  /\ pc = "start" => mode = "standby" /\ ~ edge /\ ~ dio1 /\ ~ txDone
  /\ pc \in {"idle", "charge"} /\ txInProgress =>
       mode = "sent" \/ (mode = "tx" /\ ~ edge /\ ~ dio1 /\ ~ txDone)
  /\ pc \in {"idle", "transmit", "read"} /\ ~ txInProgress /\ ~ fresh => mode = "rx"

\* What DIO1 announces is waiting for its interrupt or kept in a flag.
Remembered ==
  dio1 /\ ~ edge =>
    /\ pc \in {"idle", "charge"} /\ txInProgress => txDone
    /\ pc = "idle" /\ ~ txInProgress /\ ~ fresh => packetReceived

FlagInv == FlagsByPlace /\ RadioByPlace /\ Remembered

\* Every step keeps flags and radio together.
LEMMA FlagsPreserved ==
  ASSUME Prompt, FlagInv, [Next]_vars
  PROVE  FlagInv'
<1> USE DEF FlagInv, FlagsByPlace, RadioByPlace, Remembered
<1>1. CASE Transmit
  <2>1. CASE SkipOverBudget
    BY <2>1 DEF SkipOverBudget, Step, flags, radioVars, beginVars
  <2>2. CASE BeginScan
    BY <2>2 DEF BeginScan, FlagsForScan, Step, radioVars, beginVars
  <2>3. CASE ScanChannel
    BY <2>3 DEF ScanChannel, Command, Step, flags, beginVars
  <2>4. CASE ChannelBusy
    BY <2>4 DEF ChannelBusy, FlagsOnFailure, Command, Step, beginVars
  <2>5. CASE ChannelFree
    BY <2>5 DEF ChannelFree, Command, Step, beginVars
  <2>6. CASE StartTransmit
    BY <2>6 DEF StartTransmit, Command, Step, flags, beginVars
  <2>7. CASE StartTransmitFails
    BY <2>7 DEF StartTransmitFails, FlagsOnFailure, Command, Step, beginVars
  <2>8. CASE Charge
    BY <2>8 DEF Charge, Step, flags, radioVars
  <2> QED
    BY <1>1, <2>1, <2>2, <2>3, <2>4, <2>5, <2>6, <2>7, <2>8 DEF Transmit
<1>2. CASE Update
  <2>1. CASE TakeFrame
    BY <2>1 DEF TakeFrame, Step, radioVars, beginVars
  <2>2. CASE ReadFrame
    BY <2>2 DEF ReadFrame, Command, Step, flags, beginVars
  <2>3. CASE UpdateTxComplete \/ UpdateTxWatchdog
    BY <2>3 DEF UpdateTxComplete, UpdateTxWatchdog, Overdue, Step, flags, radioVars, beginVars
  <2>4. CASE FinishTransmit
    BY <2>4 DEF FinishTransmit, Command, Step, flags, beginVars
  <2>5. CASE ClearTxFlags
    BY <2>5 DEF ClearTxFlags, FlagsOnFinish, Step, radioVars, beginVars
  <2>6. CASE StartReceive
    BY <2>6 DEF StartReceive, Command, Step, flags
  <2>7. CASE UpdateIdle
    BY <2>7 DEF UpdateIdle, MaySend, Step, radioVars, beginVars
  <2> QED
    BY <1>2, <2>1, <2>2, <2>3, <2>4, <2>5, <2>6, <2>7 DEF Update
<1>3. CASE Send
  BY <1>3 DEF Send, MaySend, Step, flags, radioVars, beginVars
<1>4. CASE Begin
  BY <1>4 DEF Begin, Step, radioVars
<1>5. CASE FrameArrives
  BY <1>5 DEF FrameArrives, Raise, flags, beginVars
<1>6. CASE ScanEnds
  BY <1>6 DEF ScanEnds, Raise, flags, beginVars
<1>7. CASE TransmissionEnds
  BY <1>7 DEF TransmissionEnds, Raise, flags, beginVars
<1>8. CASE HandleDio1Rise
  BY <1>8 DEF HandleDio1Rise, AnnouncesFrame, beginVars
<1>9. CASE SetDutyCycleLimit \/ QueryDutyCycle \/ Tick \/ UNCHANGED vars
  <2>1. UNCHANGED <<flags, pc, radioVars, beginVars>>
    BY <1>9 DEF SetDutyCycleLimit, QueryDutyCycle, Tick, vars
  <2> QED
    BY <2>1 DEF flags, radioVars, beginVars
<1> QED
  BY <1>1, <1>2, <1>3, <1>4, <1>5, <1>6, <1>7, <1>8, <1>9 DEF Next

\* A new device satisfies the invariant.
LEMMA InitFlags ==
  ASSUME Init
  PROVE  FlagInv
BY DEF Init, FlagInv, FlagsByPlace, RadioByPlace, Remembered

\* If the interrupt is prompt, flags and radio agree between any two calls,
\* whichever way a transmission ended or failed.
THEOREM FlagsAndRadioAgree ==
  ASSUME Prompt
  PROVE  Spec => []FlagsFitRadio
<1>1. Init => FlagInv
  BY InitFlags
<1>2. FlagInv /\ [Next]_vars => FlagInv'
  BY FlagsPreserved
<1>3. FlagInv => FlagsFitRadio
  BY DEF FlagInv, FlagsByPlace, RadioByPlace, FlagsFitRadio
<1> QED
  BY <1>1, <1>2, <1>3, PTL DEF Spec

\* If the interrupt is prompt, nothing the radio announced is forgotten.
THEOREM NothingIsForgotten ==
  ASSUME Prompt
  PROVE  Spec => []NothingForgotten
<1>1. Init => FlagInv
  BY InitFlags
<1>2. FlagInv /\ [Next]_vars => FlagInv'
  BY FlagsPreserved
<1>3. FlagInv => NothingForgotten
  BY DEF FlagInv, Remembered, NothingForgotten
<1> QED
  BY <1>1, <1>2, <1>3, PTL DEF Spec

\* If the interrupt is prompt, a transmission taken for complete has left the
\* radio: the end of a scan is never mistaken for it.
THEOREM CompletionsHaveLeftTheRadio ==
  ASSUME Prompt
  PROVE  Spec => CompletionsAreReal
<1>1. Init => FlagInv
  BY InitFlags
<1>2. FlagInv /\ [Next]_vars => FlagInv'
  BY FlagsPreserved
<1>3. FlagInv => (pc = "idle" /\ pc' = "finish" /\ txDone => mode = "sent")
  BY DEF FlagInv, FlagsByPlace, RadioByPlace
<1> QED
  BY <1>1, <1>2, <1>3, PTL DEF Spec, CompletionsAreReal

=============================================================================
