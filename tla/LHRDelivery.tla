---------------------------- MODULE LHRDelivery ----------------------------
(***************************************************************************)
(* The data plane of Lighthouse Reckoning: how application data travels    *)
(* hop by hop from the devices that originate it to Home.  Each device     *)
(* runs sendData() and update() of LighthouseReckoning.cpp; devices meet   *)
(* only over the radio.  A frame on the air is heard by its receiver or    *)
(* lost; a heard frame sits in the one receive buffer of the radio until   *)
(* update() reads it or a later frame overwrites it.                       *)
(*                                                                         *)
(* Time is abstract: the resend delay, the escalation at twice that delay  *)
(* and the RFCN wait may elapse at any moment, in the order the code       *)
(* fixes.  The routing table enters through its two results, the best and  *)
(* the second best neighbour, which change as LHRNextHop says: receiving   *)
(* an NDAT replaces them by any two of the radio neighbours in Links.      *)
(***************************************************************************)
EXTENDS Naturals

CONSTANTS
  Nodes,            \* devices started with beginAsNode()
  Home,             \* the device started with beginAsHome()
  Messages,         \* application payloads, each sent at most once
  Origin,           \* Origin[m]: the node whose application sends m
  Links,            \* Links[n]: devices whose NDATs n can hear
  NoId,             \* LHR_FORBIDDEN_NODE_ID
  None,             \* an empty buffer, slot or cache entry
  InitTtl,          \* TTL that sendData() writes
  SeqMod,           \* sequence numbers are modulo SeqMod (256 in the code)
  SeenCacheSize,    \* LHR_SEEN_CACHE_SIZE
  MaxLocalRetries,  \* _maxLocalRetries
  RetryCountMod,    \* _localRetryCount is taken modulo RetryCountMod (256)
  MaxReboots,       \* bound: power cycles, over all devices
  MaxRebegins       \* bound: calls of beginAs...() on a running device

Devices == Nodes \cup {Home}

SeqNums == 0 .. SeqMod - 1

\* A packet as _forwardBuf keeps it; the sender and receiver fields are
\* rewritten by every transmission and are no part of it.
Packets == [src : Nodes, seq : SeqNums, ttl : 0 .. InitTtl, msg : Messages]

\* What the ring of seen packets remembers of a packet.
SeenEntries == [src : Nodes, seq : SeqNums]

ASSUME DeviceAssumption ==
  /\ Home \notin Nodes
  /\ NoId \notin Devices
  /\ Links \in [Nodes -> SUBSET Devices]
  /\ Origin \in [Messages -> Nodes]
  /\ None \notin Messages \cup Packets \cup SeenEntries \cup SeqNums

ASSUME ParameterAssumption ==
  /\ InitTtl \in Nat \ {0}
  /\ SeqMod \in Nat \ {0}
  /\ SeenCacheSize \in Nat \ {0}
  /\ RetryCountMod \in Nat
  /\ MaxLocalRetries \in 1 .. RetryCountMod - 1
  /\ MaxReboots \in Nat
  /\ MaxRebegins \in Nat

VARIABLES
  waitingForDataRes,   \* _waitingForDataRes
  dataResCycleActive,  \* _dataResCycleActive
  dataResend,          \* _dataResend
  requestedRFCN,       \* _requestedRFCN
  localRetryCount,     \* _localRetryCount
  forwardBuf,          \* _forwardBuf and _forwardLen: a packet, or None
  lastPacketSenderId,  \* _lastPacketSenderId
  pendingAckSeqNum,    \* _pendingAckSeqNum
  currentSeqNum,       \* _currentSeqNum
  ownData,             \* _ownDataBuf and _ownDataPending: a message, or None
  seenPackets,         \* _seenPackets: the ring of (source, seq) pairs
  seenIndex,           \* _seenIndex
  route,               \* <<_bestNeighborId, _secondBestNeighborId>>
  txInProgress,        \* _txInProgress
  air,                 \* the frame the radio is sending, or None
  rxFrame,             \* the received frame _packetReceived announces, or None
  number,              \* number[m]: the sequence number m was given, or None
  outcome,             \* what the application of Origin[m] knows of m
  delivered,           \* the messages Home's callback was called with
  since,               \* since[m]: callback calls after the last with m, up to
                       \* SeenCacheSize, the value also when there was none
                       \* or when Home was switched off after it
  aired,               \* <<n, m>>: n has started a transmission of m
  heard,               \* <<n, q, m>>: q has processed a transmission of m by n
  acked,               \* <<n, m>>: a DATA_RES has ended n's retry cycle for m
  reboots, rebegins    \* how much of the two bounds is used

retryVars  == <<waitingForDataRes, dataResCycleActive, dataResend,
                requestedRFCN, localRetryCount>>
bufferVars == <<forwardBuf, lastPacketSenderId, pendingAckSeqNum,
                currentSeqNum, number, ownData>>
seenVars   == <<seenPackets, seenIndex>>
radioVars  == <<txInProgress, air, rxFrame>>
appVars    == <<outcome, delivered, since, heard, acked>>
boundVars  == <<reboots, rebegins>>

vars == <<retryVars, bufferVars, seenVars, route, radioVars, appVars, aired,
          boundVars>>

DataFrames == [type : {"DATA"}, from : Nodes, to : Devices, pkt : Packets]
ResFrames  == [type : {"DATA_RES"}, from : Devices, to : Nodes, seq : SeqNums]
Frames     == DataFrames \cup ResFrames

Routes(n) == {<<NoId, NoId>>} \cup (Links[n] \X Links[n])

Best(n)   == route[n][1]
Second(n) == route[n][2]

EmptyRing == [i \in 0 .. SeenCacheSize - 1 |-> None]

Init ==
  /\ waitingForDataRes  = [d \in Devices |-> FALSE]
  /\ dataResCycleActive = [d \in Devices |-> FALSE]
  /\ dataResend         = [d \in Devices |-> FALSE]
  /\ requestedRFCN      = [d \in Devices |-> FALSE]
  /\ localRetryCount    = [d \in Devices |-> 0]
  /\ forwardBuf         = [d \in Devices |-> None]
  /\ lastPacketSenderId = [d \in Devices |-> NoId]
  /\ pendingAckSeqNum   = [d \in Devices |-> 0]
  /\ currentSeqNum      = [d \in Devices |-> 0]
  /\ number             = [m \in Messages |-> None]
  /\ ownData            = [d \in Devices |-> None]
  /\ seenPackets        = [d \in Devices |-> EmptyRing]
  /\ seenIndex          = [d \in Devices |-> 0]
  /\ route              = [n \in Nodes |-> <<NoId, NoId>>]
  /\ txInProgress       = [d \in Devices |-> FALSE]
  /\ air                = [d \in Devices |-> None]
  /\ rxFrame            = [d \in Devices |-> None]
  /\ outcome            = [m \in Messages |-> "unsent"]
  /\ since              = [m \in Messages |-> SeenCacheSize]
  /\ delivered = {} /\ aired = {} /\ heard = {} /\ acked = {}
  /\ reboots = 0 /\ rebegins = 0

-----------------------------------------------------------------------------
(* The radio *)

\* _transmit(): the frame goes on the air, or a busy channel, an exhausted
\* duty cycle or a radio error prevents it.  A re-begun device may still have
\* a frame on the air that it does not know of; whatever the radio is told
\* to do breaks that off.
Transmit(d, f) ==
  \/ /\ txInProgress' = [txInProgress EXCEPT ![d] = TRUE]
     /\ air' = [air EXCEPT ![d] = f]
  \/ /\ UNCHANGED txInProgress
     /\ air' \in {air, [air EXCEPT ![d] = None]}

\* An RFCN or NDAT occupies the radio of d; nobody's data plane reads it.
TransmitControl(d) == Transmit(d, None)

\* The radio of d can receive.
Listening(d) == ~ txInProgress[d] /\ air[d] = None

\* The transmission of d ends and raises DIO1.  The receiver gets the frame
\* when it is listening, in place of any frame it has not read yet, or not.
TransmissionEnds(d) ==
  /\ air[d] # None
  /\ air' = [air EXCEPT ![d] = None]
  /\ \/ /\ Listening(air[d].to)
        /\ rxFrame' = [rxFrame EXCEPT ![air[d].to] = air[d]]
     \/ UNCHANGED rxFrame
  /\ UNCHANGED <<retryVars, bufferVars, seenVars, route, txInProgress,
                 appVars, aired, boundVars>>

\* update() finds _txDone set.
UpdateTxComplete(d) ==
  /\ txInProgress[d] /\ air[d] = None
  /\ txInProgress' = [txInProgress EXCEPT ![d] = FALSE]
  /\ UNCHANGED <<retryVars, bufferVars, seenVars, route, air, rxFrame,
                 appVars, aired, boundVars>>

\* update() finds the transmission older than _txMaxDurationMs and aborts it.
UpdateTxWatchdog(d) ==
  /\ txInProgress[d] /\ air[d] # None
  /\ txInProgress' = [txInProgress EXCEPT ![d] = FALSE]
  /\ air' = [air EXCEPT ![d] = None]
  /\ UNCHANGED <<retryVars, bufferVars, seenVars, route, rxFrame, appVars,
                 aired, boundVars>>

-----------------------------------------------------------------------------
(* Originating data *)

\* Mutant of NewPacket: the source id is left over from a relayed packet.
NewPacketStaleSource(n, m) ==
  [src |-> IF lastPacketSenderId[n] = NoId THEN n ELSE lastPacketSenderId[n],
   seq |-> currentSeqNum[n], ttl |-> InitTtl, msg |-> m]

NewPacket(n, m) ==
  [src |-> n, seq |-> currentSeqNum[n], ttl |-> InitTtl, msg |-> m]

\* Mutant of StoreOwnPacket: the packet is built but not stored.
StoreOwnPacketForgotten(n, m) ==
  /\ pendingAckSeqNum' = [pendingAckSeqNum EXCEPT ![n] = currentSeqNum[n]]
  /\ currentSeqNum' = [currentSeqNum EXCEPT ![n] = (@ + 1) % SeqMod]
  /\ number' = [number EXCEPT ![m] = currentSeqNum[n]]
  /\ UNCHANGED <<forwardBuf, lastPacketSenderId>>

\* _buildDataHeader() and _storeForwardPacket(), for a message of n's own.
StoreOwnPacket(n, m) ==
  /\ forwardBuf' = [forwardBuf EXCEPT ![n] = NewPacket(n, m)]
  /\ pendingAckSeqNum' = [pendingAckSeqNum EXCEPT ![n] = currentSeqNum[n]]
  /\ currentSeqNum' = [currentSeqNum EXCEPT ![n] = (@ + 1) % SeqMod]
  /\ number' = [number EXCEPT ![m] = currentSeqNum[n]]
  /\ lastPacketSenderId' = [lastPacketSenderId EXCEPT ![n] = NoId]

\* sendData() on an idle node.
SendData(n, m) ==
  /\ Origin[m] = n /\ outcome[m] = "unsent"
  /\ ~ waitingForDataRes[n]
  /\ Best(n) # NoId
  /\ StoreOwnPacket(n, m)
  /\ waitingForDataRes' = [waitingForDataRes EXCEPT ![n] = TRUE]
  /\ outcome' = [outcome EXCEPT ![m] = "pending"]
  /\ UNCHANGED <<dataResCycleActive, dataResend, requestedRFCN,
                 localRetryCount, ownData, seenVars, route, radioVars,
                 delivered, since, heard, acked, aired, boundVars>>

\* sendData() during a retry cycle: the message goes to the one-packet slot.
SendDataToSlot(n, m) ==
  /\ Origin[m] = n /\ outcome[m] = "unsent"
  /\ waitingForDataRes[n] /\ ownData[n] = None
  /\ ownData' = [ownData EXCEPT ![n] = m]
  /\ outcome' = [outcome EXCEPT ![m] = "pending"]
  /\ UNCHANGED <<retryVars, forwardBuf, lastPacketSenderId, pendingAckSeqNum,
                 currentSeqNum, number, seenVars, route, radioVars, delivered,
                 since, heard, acked, aired, boundVars>>

-----------------------------------------------------------------------------
(* The retry cycle *)

\* _resetDataResState(): the cycle ends; a waiting message of n's own, if
\* any, becomes the packet in forwardBuf and starts the next one.
ResetDataResState(n) ==
  /\ dataResCycleActive' = [dataResCycleActive EXCEPT ![n] = FALSE]
  /\ dataResend'         = [dataResend EXCEPT ![n] = FALSE]
  /\ requestedRFCN'      = [requestedRFCN EXCEPT ![n] = FALSE]
  /\ localRetryCount'    = [localRetryCount EXCEPT ![n] = 0]
  /\ waitingForDataRes'  = [waitingForDataRes EXCEPT ![n] = ownData[n] # None]
  /\ ownData'            = [ownData EXCEPT ![n] = None]
  /\ IF ownData[n] # None
     THEN StoreOwnPacket(n, ownData[n])
     ELSE UNCHANGED <<forwardBuf, pendingAckSeqNum, currentSeqNum, number,
                      lastPacketSenderId>>

\* The neighbour _forwardDataPacket() sends to.  With a single usable
\* neighbour the second best is the best, so the code's test for
\* _neighborCount == 1 chooses the same receiver.
NextHop(n) ==
  IF lastPacketSenderId[n] # Best(n) THEN Best(n) ELSE Second(n)

\* _forwardDataPacket()
ForwardDataPacket(n) ==
  IF forwardBuf[n] = None \/ Best(n) = NoId
  THEN UNCHANGED <<pendingAckSeqNum, txInProgress, air, aired>>
  ELSE /\ pendingAckSeqNum' = [pendingAckSeqNum EXCEPT ![n] = forwardBuf[n].seq]
       /\ Transmit(n, [type |-> "DATA", from |-> n, to |-> NextHop(n),
                       pkt |-> forwardBuf[n]])
       /\ aired' = IF txInProgress'[n]
                   THEN aired \cup {<<n, forwardBuf[n].msg>>} ELSE aired

\* update() reaches _confirmDataRes().
ReachesConfirmDataRes(n) ==
  /\ ~ txInProgress[n] /\ rxFrame[n] = None
  /\ waitingForDataRes[n]

\* A message that n itself originated and whose outcome is still open gets one.
Settle(n, m, result) ==
  outcome' = IF Origin[m] = n /\ outcome[m] = "pending"
             THEN [outcome EXCEPT ![m] = result] ELSE outcome

\* Mutant of NextRetryCount: the attempts are not counted.
NextRetryCountStuck(n) == localRetryCount[n]

\* _localRetryCount after the increment that starts a cycle.  At the largest
\* MaxLocalRetries the byte wraps before it exceeds the limit, and the cycle
\* has no end.
NextRetryCount(n) == (localRetryCount[n] + 1) % RetryCountMod

\* First phase of _confirmDataRes(): the initial send of a cycle.
InitialSend(n) ==
  /\ ReachesConfirmDataRes(n)
  /\ ~ dataResCycleActive[n]
  /\ NextRetryCount(n) <= MaxLocalRetries
  /\ localRetryCount' = [localRetryCount EXCEPT ![n] = NextRetryCount(n)]
  /\ dataResCycleActive' = [dataResCycleActive EXCEPT ![n] = TRUE]
  /\ dataResend'    = [dataResend EXCEPT ![n] = FALSE]
  /\ requestedRFCN' = [requestedRFCN EXCEPT ![n] = FALSE]
  /\ ForwardDataPacket(n)
  /\ UNCHANGED <<waitingForDataRes, forwardBuf, lastPacketSenderId,
                 currentSeqNum, number, ownData, seenVars, route, rxFrame,
                 appVars, boundVars>>

\* First phase, retries exhausted: LHR_UPDATE_TX_DATA_FAILED.
GiveUp(n) ==
  /\ ReachesConfirmDataRes(n)
  /\ ~ dataResCycleActive[n]
  /\ NextRetryCount(n) > MaxLocalRetries
  /\ ResetDataResState(n)
  /\ IF forwardBuf[n] = None THEN UNCHANGED outcome
     ELSE Settle(n, forwardBuf[n].msg, "failed")
  /\ UNCHANGED <<seenVars, route, radioVars, delivered, since, heard, acked,
                 aired, boundVars>>

\* Mutant of ResendDue: the resend is not tied to the time before the RFCN.
ResendDueAnytime(n) == dataResCycleActive[n] /\ ~ dataResend[n]

ResendDue(n) == dataResCycleActive[n] /\ ~ requestedRFCN[n] /\ ~ dataResend[n]

\* _dataResendDelayMs has passed.
Resend(n) ==
  /\ ReachesConfirmDataRes(n)
  /\ ResendDue(n)
  /\ ForwardDataPacket(n)
  /\ dataResend' = [dataResend EXCEPT ![n] = TRUE]
  /\ UNCHANGED <<waitingForDataRes, dataResCycleActive, requestedRFCN,
                 localRetryCount, forwardBuf, lastPacketSenderId,
                 currentSeqNum, number, ownData, seenVars, route, rxFrame,
                 appVars, boundVars>>

\* Mutant of EscalationDue: the cycle escalates over and over.
EscalationDueAgain(n) == dataResCycleActive[n]

EscalationDue(n) == dataResCycleActive[n] /\ ~ requestedRFCN[n]

\* Twice _dataResendDelayMs has passed, with or without the resend (a late
\* update() skips it): the neighbour table is emptied and an RFCN sent.
Escalate(n) ==
  /\ ReachesConfirmDataRes(n)
  /\ EscalationDue(n)
  /\ route' = [route EXCEPT ![n] = <<NoId, NoId>>]
  /\ TransmitControl(n)
  /\ requestedRFCN' = [requestedRFCN EXCEPT ![n] = TRUE]
  /\ dataResend' = [dataResend EXCEPT ![n] = FALSE]
  /\ UNCHANGED <<waitingForDataRes, dataResCycleActive, localRetryCount,
                 bufferVars, seenVars, rxFrame, appVars, aired, boundVars>>

\* _rfcnWaitDelayMs has passed since the RFCN.
RfcnWaitElapsed(n) ==
  /\ ReachesConfirmDataRes(n)
  /\ dataResCycleActive[n] /\ requestedRFCN[n]
  /\ dataResCycleActive' = [dataResCycleActive EXCEPT ![n] = FALSE]
  /\ dataResend'    = [dataResend EXCEPT ![n] = FALSE]
  /\ requestedRFCN' = [requestedRFCN EXCEPT ![n] = FALSE]
  /\ UNCHANGED <<waitingForDataRes, localRetryCount, bufferVars, seenVars,
                 route, radioVars, appVars, aired, boundVars>>

-----------------------------------------------------------------------------
(* Receiving: update() dispatches the frame in the receive buffer *)

Received(d, type) ==
  ~ txInProgress[d] /\ rxFrame[d] # None /\ rxFrame[d].type = type

\* Mutant of AcceptsData: a packet being retried does not keep others out.
AcceptsDataAlways(d) == Received(d, "DATA")

\* DATA is handled only outside a retry cycle.
AcceptsData(d) == Received(d, "DATA") /\ ~ waitingForDataRes[d]

\* Mutant of IsDuplicateData: the source is not compared.
IsDuplicateSeq(d, pkt) ==
  \E i \in 0 .. SeenCacheSize - 1 :
     seenPackets[d][i] # None /\ seenPackets[d][i].seq = pkt.seq

\* Mutant of IsDuplicateData: the last place of the ring is not looked at.
IsDuplicateInShorterRing(d, pkt) ==
  [src |-> pkt.src, seq |-> pkt.seq] \in
     {seenPackets[d][i] : i \in 0 .. SeenCacheSize - 2}

IsDuplicateData(d, pkt) ==
  [src |-> pkt.src, seq |-> pkt.seq] \in
     {seenPackets[d][i] : i \in 0 .. SeenCacheSize - 1}

\* The insertion _isDuplicateData() makes on a miss.
RecordSeen(d, pkt) ==
  /\ seenPackets' = [seenPackets EXCEPT
        ![d][seenIndex[d]] = [src |-> pkt.src, seq |-> pkt.seq]]
  /\ seenIndex' = [seenIndex EXCEPT ![d] = (@ + 1) % SeenCacheSize]

\* What every _handleDATA() of a DATA for d does first: remember the
\* previous hop and send it a DATA_RES, which may not get on the air.
AckHop(d, f) ==
  /\ rxFrame' = [rxFrame EXCEPT ![d] = None]
  /\ lastPacketSenderId' = [lastPacketSenderId EXCEPT ![d] = f.from]
  /\ Transmit(d, [type |-> "DATA_RES", from |-> d, to |-> f.from,
                  seq |-> f.pkt.seq])
  /\ heard' = heard \cup {<<f.from, d, f.pkt.msg>>}

\* DATA while a retry cycle runs: dropped without a DATA_RES.
DropDataWhileWaiting(d) ==
  /\ Received(d, "DATA") /\ waitingForDataRes[d]
  /\ rxFrame' = [rxFrame EXCEPT ![d] = None]
  /\ UNCHANGED <<retryVars, bufferVars, seenVars, route, txInProgress, air,
                 appVars, aired, boundVars>>

HandleDuplicateDATA(d) ==
  /\ AcceptsData(d)
  /\ IsDuplicateData(d, rxFrame[d].pkt)
  /\ AckHop(d, rxFrame[d])
  /\ UNCHANGED <<retryVars, forwardBuf, pendingAckSeqNum, currentSeqNum, number,
                 ownData, seenVars, route, outcome, delivered, since, acked,
                 aired, boundVars>>

\* A new packet reaches Home: the application callback.
HandleDATAAtHome ==
  LET pkt == rxFrame[Home].pkt IN
  /\ AcceptsData(Home)
  /\ ~ IsDuplicateData(Home, pkt)
  /\ AckHop(Home, rxFrame[Home])
  /\ RecordSeen(Home, pkt)
  /\ delivered' = delivered \cup {pkt.msg}
  /\ since' = [m \in Messages |->
       IF m = pkt.msg THEN 0
       ELSE IF since[m] < SeenCacheSize THEN since[m] + 1 ELSE since[m]]
  /\ UNCHANGED <<retryVars, forwardBuf, pendingAckSeqNum, currentSeqNum, number,
                 ownData, route, outcome, acked, aired, boundVars>>

\* Mutant of Relayed: the TTL is decremented twice.
RelayedTwice(pkt) ==
  [src |-> pkt.src, seq |-> pkt.seq, ttl |-> pkt.ttl - 2, msg |-> pkt.msg]

\* The packet a relay queues.
Relayed(pkt) ==
  [src |-> pkt.src, seq |-> pkt.seq, ttl |-> pkt.ttl - 1, msg |-> pkt.msg]

\* A new packet reaches a node: queued with its TTL decremented, or dropped
\* when the TTL is used up, in both cases after it was acknowledged.
HandleDATAAtNode(n) ==
  LET pkt == rxFrame[n].pkt IN
  /\ AcceptsData(n)
  /\ ~ IsDuplicateData(n, pkt)
  /\ AckHop(n, rxFrame[n])
  /\ RecordSeen(n, pkt)
  /\ IF pkt.ttl > 0
     THEN /\ forwardBuf' = [forwardBuf EXCEPT ![n] = Relayed(pkt)]
          /\ waitingForDataRes' = [waitingForDataRes EXCEPT ![n] = TRUE]
     ELSE UNCHANGED <<forwardBuf, waitingForDataRes>>
  /\ UNCHANGED <<dataResCycleActive, dataResend, requestedRFCN,
                 localRetryCount, pendingAckSeqNum, currentSeqNum, number,
                 ownData, route, outcome, delivered, since, acked, aired,
                 boundVars>>

\* Mutant of ConfirmsPending: any DATA_RES ends the cycle.
ConfirmsAnything(d) == waitingForDataRes[d]

\* The whole of the test a DATA_RES has to pass: it is not asked who sent
\* it, nor whether the pending packet was ever transmitted.
ConfirmsPending(d) ==
  waitingForDataRes[d] /\ rxFrame[d].seq = pendingAckSeqNum[d]

\* A DATA_RES that does not match, or that finds no retry cycle, is dropped.
IgnoreDATARES(d) ==
  /\ Received(d, "DATA_RES") /\ ~ ConfirmsPending(d)
  /\ rxFrame' = [rxFrame EXCEPT ![d] = None]
  /\ UNCHANGED <<retryVars, bufferVars, seenVars, route, txInProgress, air,
                 appVars, aired, boundVars>>

\* A DATA_RES with the pending sequence number ends the retry cycle,
\* whoever sent it: LHR_UPDATE_TX_DATA_CONFIRMED.
HandleDATARES(n) ==
  /\ Received(n, "DATA_RES") /\ ConfirmsPending(n)
  /\ rxFrame' = [rxFrame EXCEPT ![n] = None]
  /\ ResetDataResState(n)
  /\ IF forwardBuf[n] = None THEN UNCHANGED <<acked, outcome>>
     ELSE /\ acked' = acked \cup {<<n, forwardBuf[n].msg>>}
          /\ Settle(n, forwardBuf[n].msg, "confirmed")
  /\ UNCHANGED <<seenVars, route, txInProgress, air, delivered, since, heard,
                 aired, boundVars>>

-----------------------------------------------------------------------------
(* Routing and beacons, as far as the data plane notices them *)

\* update() handles an NDAT, which took the place of any unread frame.  It
\* came from a device with a route, so n has one afterwards.
HandleNDAT(n) ==
  /\ Listening(n)
  /\ rxFrame' = [rxFrame EXCEPT ![n] = None]
  /\ \E r \in Links[n] \X Links[n] : route' = [route EXCEPT ![n] = r]
  /\ UNCHANGED <<retryVars, bufferVars, seenVars, txInProgress, air, appVars,
                 aired, boundVars>>

\* update() sends a beacon or a pending NDAT; a node prunes its table first.
Advertise(d) ==
  /\ ~ txInProgress[d] /\ rxFrame[d] = None /\ ~ waitingForDataRes[d]
  /\ \/ d \in Nodes /\ \E r \in Routes(d) : route' = [route EXCEPT ![d] = r]
     \/ UNCHANGED route
  /\ TransmitControl(d)
  /\ UNCHANGED <<retryVars, bufferVars, seenVars, rxFrame, appVars, aired,
                 boundVars>>

-----------------------------------------------------------------------------
(* Restarts *)

\* The messages a restart of n takes away from its application.
LoseHeld(n) ==
  outcome' = [m \in Messages |->
     IF Origin[m] = n /\ outcome[m] = "pending" THEN "lost" ELSE outcome[m]]

\* What _reset() and a power cycle have in common: no transmission and no
\* received frame is known of any more.
ForgetFrames(d) ==
  /\ txInProgress' = [txInProgress EXCEPT ![d] = FALSE]
  /\ rxFrame' = [rxFrame EXCEPT ![d] = None]

\* _resetNeighborTable() on any device; Home keeps no table.
ForgetRoutes(d) ==
  route' = [n \in Nodes |-> IF n = d THEN <<NoId, NoId>> ELSE route[n]]

\* A power cycle: nothing of the data plane is persistent.
Reboot(d) ==
  /\ reboots < MaxReboots
  /\ reboots' = reboots + 1
  /\ waitingForDataRes'  = [waitingForDataRes EXCEPT ![d] = FALSE]
  /\ dataResCycleActive' = [dataResCycleActive EXCEPT ![d] = FALSE]
  /\ dataResend'         = [dataResend EXCEPT ![d] = FALSE]
  /\ requestedRFCN'      = [requestedRFCN EXCEPT ![d] = FALSE]
  /\ localRetryCount'    = [localRetryCount EXCEPT ![d] = 0]
  /\ forwardBuf'         = [forwardBuf EXCEPT ![d] = None]
  /\ lastPacketSenderId' = [lastPacketSenderId EXCEPT ![d] = NoId]
  /\ pendingAckSeqNum'   = [pendingAckSeqNum EXCEPT ![d] = 0]
  /\ currentSeqNum'      = [currentSeqNum EXCEPT ![d] = 0]
  /\ ownData'            = [ownData EXCEPT ![d] = None]
  /\ seenPackets'        = [seenPackets EXCEPT ![d] = EmptyRing]
  /\ seenIndex'          = [seenIndex EXCEPT ![d] = 0]
  /\ ForgetRoutes(d)
  /\ ForgetFrames(d)
  /\ air' = [air EXCEPT ![d] = None]
  /\ LoseHeld(d)
  /\ since' = IF d = Home THEN [m \in Messages |-> SeenCacheSize] ELSE since
  /\ UNCHANGED <<number, delivered, aired, heard, acked, rebegins>>

\* beginAsNode() or beginAsHome() on a running device: _reset() runs
\* _resetDataResState(), which moves a waiting message to forwardBuf, and
\* then empties that.  The radio is not told: a frame on the air goes on.
Rebegin(d) ==
  /\ rebegins < MaxRebegins
  /\ rebegins' = rebegins + 1
  /\ dataResCycleActive' = [dataResCycleActive EXCEPT ![d] = FALSE]
  /\ dataResend'         = [dataResend EXCEPT ![d] = FALSE]
  /\ requestedRFCN'      = [requestedRFCN EXCEPT ![d] = FALSE]
  /\ localRetryCount'    = [localRetryCount EXCEPT ![d] = 0]
  /\ waitingForDataRes'  = [waitingForDataRes EXCEPT ![d] = ownData[d] # None]
  /\ ownData'            = [ownData EXCEPT ![d] = None]
  /\ IF ownData[d] # None
     THEN /\ pendingAckSeqNum' =
               [pendingAckSeqNum EXCEPT ![d] = currentSeqNum[d]]
          /\ currentSeqNum' = [currentSeqNum EXCEPT ![d] = (@ + 1) % SeqMod]
          /\ number' = [number EXCEPT ![ownData[d]] = currentSeqNum[d]]
     ELSE UNCHANGED <<pendingAckSeqNum, currentSeqNum, number>>
  /\ forwardBuf'         = [forwardBuf EXCEPT ![d] = None]
  /\ lastPacketSenderId' = [lastPacketSenderId EXCEPT ![d] = NoId]
  /\ ForgetRoutes(d)
  /\ ForgetFrames(d)
  /\ LoseHeld(d)
  /\ UNCHANGED <<seenVars, air, delivered, since, aired, heard, acked, reboots>>

-----------------------------------------------------------------------------
Update(d) ==
  \/ UpdateTxComplete(d) \/ UpdateTxWatchdog(d)
  \/ DropDataWhileWaiting(d) \/ HandleDuplicateDATA(d)
  \/ IgnoreDATARES(d)
  \/ Advertise(d)

\* The calls of _confirmDataRes() that the passage of time brings about.
ConfirmDataRes(n) ==
  \/ InitialSend(n) \/ GiveUp(n) \/ Resend(n) \/ Escalate(n)
  \/ RfcnWaitElapsed(n)

UpdateNode(n) ==
  \/ ConfirmDataRes(n)
  \/ HandleDATAAtNode(n) \/ HandleDATARES(n) \/ HandleNDAT(n)

Next ==
  \/ \E d \in Devices : TransmissionEnds(d) \/ Update(d)
  \/ HandleDATAAtHome
  \/ \E n \in Nodes : UpdateNode(n)
  \/ \E n \in Nodes, m \in Messages : SendData(n, m) \/ SendDataToSlot(n, m)
  \/ \E d \in Devices : Reboot(d) \/ Rebegin(d)

Spec == Init /\ [][Next]_vars

\* Dispatch of a received frame by update().
ReadFrame(d) ==
  \/ DropDataWhileWaiting(d) \/ HandleDuplicateDATA(d) \/ IgnoreDATARES(d)
  \/ d = Home /\ HandleDATAAtHome
  \/ d \in Nodes /\ (HandleDATAAtNode(d) \/ HandleDATARES(d))

\* A transmission takes finite time, and the application calls update() in
\* its loop forever: what is ready to be handled is handled, and a timeout
\* that has to elapse does.  Frames may still be lost forever, and no
\* fairness makes a neighbour advertise or the application send.
Fairness ==
  /\ \A d \in Devices : /\ WF_vars(TransmissionEnds(d))
                        /\ WF_vars(UpdateTxComplete(d))
                        /\ WF_vars(ReadFrame(d))
  /\ \A n \in Nodes : WF_vars(ConfirmDataRes(n))

LiveSpec == Spec /\ Fairness
-----------------------------------------------------------------------------
(* Properties *)

RetryTypeOK ==
  /\ waitingForDataRes  \in [Devices -> BOOLEAN]
  /\ dataResCycleActive \in [Devices -> BOOLEAN]
  /\ dataResend         \in [Devices -> BOOLEAN]
  /\ requestedRFCN      \in [Devices -> BOOLEAN]
  /\ localRetryCount    \in [Devices -> 0 .. MaxLocalRetries]

BufferTypeOK ==
  /\ forwardBuf         \in [Devices -> Packets \cup {None}]
  /\ lastPacketSenderId \in [Devices -> Nodes \cup {NoId}]
  /\ pendingAckSeqNum   \in [Devices -> SeqNums]
  /\ currentSeqNum      \in [Devices -> SeqNums]
  /\ number             \in [Messages -> SeqNums \cup {None}]
  /\ ownData            \in [Devices -> Messages \cup {None}]

SeenTypeOK ==
  /\ seenPackets \in
       [Devices -> [0 .. SeenCacheSize - 1 -> SeenEntries \cup {None}]]
  /\ seenIndex   \in [Devices -> 0 .. SeenCacheSize - 1]

RouteTypeOK ==
  /\ route \in [Nodes -> UNION {Routes(n) : n \in Nodes}]
  /\ \A n \in Nodes : route[n] \in Routes(n)

RadioTypeOK ==
  /\ txInProgress \in [Devices -> BOOLEAN]
  /\ air          \in [Devices -> Frames \cup {None}]
  /\ rxFrame      \in [Devices -> Frames \cup {None}]

HistoryTypeOK ==
  /\ outcome   \in
       [Messages -> {"unsent", "pending", "confirmed", "failed", "lost"}]
  /\ delivered \in SUBSET Messages
  /\ since     \in [Messages -> 0 .. SeenCacheSize]
  /\ aired \in SUBSET (Nodes \X Messages)
  /\ heard \in SUBSET (Nodes \X Devices \X Messages)
  /\ acked \in SUBSET (Nodes \X Messages)
  /\ reboots  \in 0 .. MaxReboots
  /\ rebegins \in 0 .. MaxRebegins

\* Every variable keeps to its type; the routing results name a radio
\* neighbour or nothing, both at once.
TypeOK ==
  /\ RetryTypeOK /\ BufferTypeOK /\ SeenTypeOK
  /\ RouteTypeOK /\ RadioTypeOK /\ HistoryTypeOK

\* The flags of the retry cycle fit together whatever order timeouts, frames,
\* sendData() and restarts come in: an idle node carries nothing over from an
\* earlier cycle, the slot is filled only behind a packet being retried, and
\* the two phases after the initial send exclude each other.
RetryStateCoherent ==
  \A d \in Devices :
    /\ ~ waitingForDataRes[d] =>
         /\ ~ dataResCycleActive[d] /\ localRetryCount[d] = 0
         /\ ownData[d] = None
    /\ dataResend[d] \/ requestedRFCN[d] => dataResCycleActive[d]
    /\ ~ (dataResend[d] /\ requestedRFCN[d])

\* Node n still has m: in the slot, or as the packet it is retrying.
Holds(n, m) ==
  \/ ownData[n] = m
  \/ waitingForDataRes[n] /\ forwardBuf[n] # None /\ forwardBuf[n].msg = m

\* A message sendData() accepted is never dropped without a result: until
\* update() reports it confirmed or failed, or a restart takes it, its origin
\* holds it.  Relayed packets and the slot share one buffer with it.
NoSilentLoss ==
  \A m \in Messages : outcome[m] = "pending" => Holds(Origin[m], m)

\* Nothing is made up on the way: every packet in a buffer or on the air
\* carries a message its source's application really sent, under the
\* source's id, and Home's callback sees only such messages.
GenuinePacket(p) == p.src = Origin[p.msg] /\ outcome[p.msg] # "unsent"

Genuine ==
  /\ \A d \in Devices :
       /\ forwardBuf[d] # None => GenuinePacket(forwardBuf[d])
       /\ air[d] # None /\ air[d].type = "DATA" => GenuinePacket(air[d].pkt)
       /\ rxFrame[d] # None /\ rxFrame[d].type = "DATA" =>
            GenuinePacket(rxFrame[d].pkt)
       /\ ownData[d] # None =>
            Origin[ownData[d]] = d /\ outcome[ownData[d]] # "unsent"
  /\ \A m \in delivered : outcome[m] # "unsent"

\* Home's application receives a message again, from a resend, after a lost
\* DATA_RES or by another path, only when as many other packets as the ring
\* has places came in between, or Home was switched off: the ring forgets
\* nothing sooner.
NoRepeatWithinRing ==
  [][HandleDATAAtHome => since[rxFrame[Home].pkt.msg] = SeenCacheSize]_vars

\* Home never discards a message it has not delivered: a message it has
\* acknowledged is with the application.
AcknowledgedByHomeIsDelivered ==
  \A n \in Nodes, m \in Messages : <<n, Home, m>> \in heard => m \in delivered

\* The application is told "confirmed" of a message only when a next hop has
\* received, from its origin, a packet with the number of the message, however
\* late or duplicated a DATA_RES arrives.  That is the message itself, unless
\* the node has also relayed a packet with that number, or used it before.
ConfirmedToSourceIsHeard ==
  \A m \in Messages : outcome[m] = "confirmed" =>
    \E q \in Devices, k \in Messages :
      <<Origin[m], q, k>> \in heard /\ number[k] = number[m]

Mesh == INSTANCE LHRMesh WITH RingSize <- SeenCacheSize, Numbers <- SeqNums

\* To the applications the devices are the mesh of LHRMesh: whatever the
\* buffers, rings and timers of many devices do, each step shows as one of its
\* actions or not at all.
ImplementsMesh == Mesh!Spec

NextHops == INSTANCE LHRNextHop WITH
  waiting <- [n \in Nodes |-> waitingForDataRes[n]],
  asking  <- [n \in Nodes |-> requestedRFCN[n]]

\* To the routing of its node the data plane is the one of LHRNextHop: a
\* cycle begins and ends without touching the next hops, and only its
\* escalation, once in the cycle, takes them away.
ImplementsNextHop == NextHops!Spec

\* A retry cycle runs for a packet, never for an emptied buffer.
RetryCycleHasPacket ==
  \A d \in Devices : waitingForDataRes[d] => forwardBuf[d] # None

\* A DATA_RES ends the retry cycle of a packet only after that packet went on
\* the air: before, no transmission is outstanding that it could confirm.
ConfirmedIsAired == acked \subseteq aired

\* Every accepted message gets its result: the application is not left
\* waiting forever, with whatever frames lost and routes coming and going.
EveryMessageSettles ==
  \A m \in Messages : outcome[m] = "pending" ~> outcome[m] # "pending"

\* A device that stops accepting DATA because it retries a packet, its own or
\* a relayed one, accepts DATA again once the senders have nothing new: two
\* nodes that drop each other's DATA do not block each other forever.
RetryCyclesEnd ==
  \A n \in Nodes : waitingForDataRes[n] ~> ~ waitingForDataRes[n]

=============================================================================
