--------------------------- MODULE LHRMeshProofs ---------------------------
(***************************************************************************)
(* The devices of LHRDelivery implement the mesh of LHRMesh.  A packet is  *)
(* known to receivers by its source and its sequence number, a DATA_RES to *)
(* its receiver by the sequence number alone, so everything here rests on  *)
(* two things carried through the steps: every packet and every DATA_RES   *)
(* has the number its message was given, and whoever has a message got it  *)
(* from its origin, hop by hop.  Several messages may share a number,      *)
(* except in HomeKeepsItsWord, where no node uses one twice.               *)
(***************************************************************************)
EXTENDS LHRDeliveryProofs, FiniteSetTheorems

USE DeviceAssumption, ParameterAssumption DEF Devices, AcceptsData, ConfirmsPending

-----------------------------------------------------------------------------
(* What a step can do to numbers, frames, buffers and histories *)

\* A message has no number before it is sent, nor while it waits in the slot.
Fresh ==
  \A m \in Messages :
    number[m] # None => outcome[m] # "unsent" /\ ownData[Origin[m]] # m

\* Either no message gets a number, or k gets the next one of its origin.
SameNumbers ==
  /\ UNCHANGED number
  /\ MaxReboots = 0 => UNCHANGED currentSeqNum

NextNumber(k) ==
  /\ number[k] = None /\ outcome'[k] # "unsent" /\ ownData'[Origin[k]] # k
  /\ number' = [number EXCEPT ![k] = currentSeqNum[Origin[k]]]
  /\ currentSeqNum' = [currentSeqNum EXCEPT ![Origin[k]] = (@ + 1) % SeqMod]

\* The end of a cycle gives a number to the message in the slot, if any.
LEMMA ResetNumbers ==
  ASSUME TypeOK, Genuine, Fresh, Next, NEW n \in Nodes, ResetDataResState(n)
  PROVE  SameNumbers \/ (ownData[n] \in Messages /\ NextNumber(ownData[n]))
<1>t. BufferTypeOK
  BY DEF TypeOK
<1>1. CASE ownData[n] = None
  BY <1>1 DEF ResetDataResState, SameNumbers
<1>2. CASE ownData[n] # None
  <2>1. PICK k \in Messages : k = ownData[n] /\ Origin[k] = n /\ outcome[k] # "unsent"
    BY <1>t, <1>2 DEF BufferTypeOK, Genuine
  <2>2. number[k] = None
    BY <2>1 DEF Fresh
  <2>3. outcome'[k] # "unsent"
    BY <2>1, OutcomeStep
  <2>4. ownData'[n] # k
    BY <1>t, <2>1 DEF ResetDataResState, BufferTypeOK
  <2>5. /\ number' = [number EXCEPT ![k] = currentSeqNum[n]]
        /\ currentSeqNum' = [currentSeqNum EXCEPT ![n] = (@ + 1) % SeqMod]
    BY <1>2, <2>1 DEF ResetDataResState, StoreOwnPacket
  <2> QED  BY <2>1, <2>2, <2>3, <2>4, <2>5 DEF NextNumber
<1> QED  BY <1>1, <1>2

\* A message gets its number when its packet is built, and in a re-begin that
\* loses it.
LEMMA NumberSteps ==
  ASSUME TypeOK, RetryStateCoherent, Genuine, Fresh, Next
  PROVE  SameNumbers \/ \E k \in Messages : NextNumber(k)
<1> DEFINE Goal == SameNumbers \/ \E k \in Messages : NextNumber(k)
<1>t. BufferTypeOK /\ HistoryTypeOK
  BY DEF TypeOK
<1>u. UNCHANGED <<number, currentSeqNum>> => Goal
  BY DEF SameNumbers
<1> HIDE DEF Goal
<1> USE DEF bufferVars
<1>1. ASSUME NEW d \in Devices, TransmissionEnds(d) \/ Update(d) PROVE Goal
  BY <1>1, <1>u
     DEF TransmissionEnds, Update, UpdateTxComplete, UpdateTxWatchdog,
         DropDataWhileWaiting, HandleDuplicateDATA, IgnoreDATARES, Advertise
<1>2. ASSUME HandleDATAAtHome PROVE Goal
  BY <1>2, <1>u DEF HandleDATAAtHome
<1>3. ASSUME NEW n \in Nodes, UpdateNode(n) PROVE Goal
  <2>1. CASE InitialSend(n) \/ Resend(n) \/ Escalate(n) \/ RfcnWaitElapsed(n)
               \/ HandleNDAT(n) \/ HandleDATAAtNode(n)
    BY <2>1, <1>u DEF InitialSend, Resend, Escalate, RfcnWaitElapsed, HandleNDAT,
                      HandleDATAAtNode
  <2>2. CASE GiveUp(n) \/ HandleDATARES(n)
    BY <2>2, ResetNumbers DEF GiveUp, HandleDATARES, Goal
  <2> QED  BY <1>3, <2>1, <2>2 DEF UpdateNode, ConfirmDataRes
<1>4. ASSUME NEW n \in Nodes, NEW m \in Messages, SendData(n, m) PROVE Goal
  <2>1. /\ Origin[m] = n /\ outcome[m] = "unsent" /\ number[m] = None
        /\ outcome'[m] = "pending" /\ ownData'[n] = None
    BY <1>t, <1>4 DEF SendData, RetryStateCoherent, Fresh, HistoryTypeOK
  <2>2. /\ number' = [number EXCEPT ![m] = currentSeqNum[n]]
        /\ currentSeqNum' = [currentSeqNum EXCEPT ![n] = (@ + 1) % SeqMod]
    BY <1>4 DEF SendData, StoreOwnPacket
  <2>3. NextNumber(m)
    BY <2>1, <2>2 DEF NextNumber
  <2> QED  BY <2>3 DEF Goal
<1>5. ASSUME NEW n \in Nodes, NEW m \in Messages, SendDataToSlot(n, m) PROVE Goal
  BY <1>5, <1>u DEF SendDataToSlot
<1>6. ASSUME NEW d \in Devices, Rebegin(d) PROVE Goal
  <2>1. CASE ownData[d] = None
    BY <1>6, <1>u, <2>1 DEF Rebegin
  <2>2. CASE ownData[d] # None
    <3>1. PICK k \in Messages : k = ownData[d] /\ Origin[k] = d /\ outcome[k] # "unsent"
      BY <1>t, <2>2 DEF BufferTypeOK, Genuine
    <3>2. number[k] = None /\ outcome'[k] # "unsent"
      BY <3>1, OutcomeStep DEF Fresh
    <3>3. ownData'[d] # k
      BY <1>t, <1>6, <3>1 DEF Rebegin, BufferTypeOK
    <3>4. /\ number' = [number EXCEPT ![k] = currentSeqNum[d]]
          /\ currentSeqNum' = [currentSeqNum EXCEPT ![d] = (@ + 1) % SeqMod]
      BY <1>6, <2>2, <3>1 DEF Rebegin
    <3>5. NextNumber(k)
      BY <3>1, <3>2, <3>3, <3>4 DEF NextNumber
    <3> QED  BY <3>5 DEF Goal
  <2> QED  BY <2>1, <2>2
<1>7. ASSUME NEW d \in Devices, Reboot(d) PROVE Goal
  <2>1. UNCHANGED number
    BY <1>7 DEF Reboot
  <2>2. MaxReboots # 0
    BY <1>t, <1>7 DEF Reboot, HistoryTypeOK
  <2> QED  BY <2>1, <2>2 DEF SameNumbers, Goal
<1>8. Goal
  BY <1>1, <1>2, <1>3, <1>4, <1>5, <1>6, <1>7 DEF Next
<1> QED  BY <1>8 DEF Goal

\* A message keeps the number it has.
LEMMA NumbersStay ==
  ASSUME TypeOK, RetryStateCoherent, Genuine, Fresh, Next,
         NEW m \in Messages, number[m] # None
  PROVE  number'[m] = number[m]
BY NumberSteps DEF SameNumbers, NextNumber, TypeOK, BufferTypeOK

\* The slot takes only messages that were not sent before.
LEMMA SlotSteps ==
  ASSUME TypeOK, Next, NEW d \in Devices
  PROVE  \/ ownData'[d] \in {ownData[d], None}
         \/ ownData'[d] \in Messages /\ outcome[ownData'[d]] = "unsent"
<1> DEFINE Goal == \/ ownData'[d] \in {ownData[d], None}
                   \/ ownData'[d] \in Messages /\ outcome[ownData'[d]] = "unsent"
<1>t. BufferTypeOK
  BY DEF TypeOK
<1>u. UNCHANGED ownData => Goal
  OBVIOUS
<1>r. ASSUME NEW e \in Devices, ownData' = [ownData EXCEPT ![e] = None] PROVE Goal
  BY <1>t, <1>r DEF BufferTypeOK
<1> HIDE DEF Goal
<1> USE DEF bufferVars
<1>1. ASSUME NEW e \in Devices, TransmissionEnds(e) \/ Update(e) PROVE Goal
  BY <1>1, <1>u
     DEF TransmissionEnds, Update, UpdateTxComplete, UpdateTxWatchdog,
         DropDataWhileWaiting, HandleDuplicateDATA, IgnoreDATARES, Advertise
<1>2. ASSUME HandleDATAAtHome PROVE Goal
  BY <1>2, <1>u DEF HandleDATAAtHome
<1>3. ASSUME NEW n \in Nodes, UpdateNode(n) PROVE Goal
  <2>1. CASE GiveUp(n) \/ HandleDATARES(n)
    BY <2>1, <1>r DEF GiveUp, HandleDATARES, ResetDataResState
  <2>2. CASE ~ (GiveUp(n) \/ HandleDATARES(n))
    BY <1>3, <1>u, <2>2
       DEF UpdateNode, ConfirmDataRes, InitialSend, Resend, Escalate,
           RfcnWaitElapsed, HandleNDAT, HandleDATAAtNode
  <2> QED  BY <2>1, <2>2
<1>4. ASSUME NEW n \in Nodes, NEW m \in Messages, SendData(n, m) PROVE Goal
  BY <1>4, <1>u DEF SendData
<1>5. ASSUME NEW n \in Nodes, NEW m \in Messages, SendDataToSlot(n, m) PROVE Goal
  BY <1>t, <1>5 DEF SendDataToSlot, Goal, BufferTypeOK
<1>6. ASSUME NEW e \in Devices, Reboot(e) \/ Rebegin(e) PROVE Goal
  BY <1>6, <1>r DEF Reboot, Rebegin
<1>7. Goal
  BY <1>1, <1>2, <1>3, <1>4, <1>5, <1>6 DEF Next
<1> QED  BY <1>7 DEF Goal

\* Numbers are given to messages that are sent, and only once.
LEMMA FreshStep ==
  ASSUME TypeOK, RetryStateCoherent, Genuine, Fresh, Next
  PROVE  Fresh'
<1> SUFFICES ASSUME NEW m \in Messages, number'[m] # None
             PROVE  outcome'[m] # "unsent" /\ ownData'[Origin[m]] # m
  BY DEF Fresh
<1>1. CASE number[m] # None
  <2>1. outcome[m] # "unsent" /\ ownData[Origin[m]] # m /\ m # None
    BY <1>1 DEF Fresh
  <2>2. ownData'[Origin[m]] # m
    BY <2>1, SlotSteps
  <2> QED  BY <2>1, <2>2, OutcomeStep
<1>2. CASE number[m] = None
  BY <1>2, NumberSteps DEF SameNumbers, NextNumber, TypeOK, BufferTypeOK
<1> QED  BY <1>1, <1>2

\* Where a frame on the air or in a receive buffer comes from: it was there
\* before, or is a packet that is being forwarded, or acknowledges a frame
\* that is being handled.
Forwarded(n, f) ==
  /\ forwardBuf[n] # None
  /\ f = [type |-> "DATA", from |-> n, to |-> NextHop(n), pkt |-> forwardBuf[n]]

Acknowledged(d, f) ==
  /\ Received(d, "DATA") /\ AckHop(d, rxFrame[d])
  /\ f = [type |-> "DATA_RES", from |-> d, to |-> rxFrame[d].from,
          seq |-> rxFrame[d].pkt.seq]

ComesFrom(f) ==
  \/ f = None
  \/ \E d \in Devices : f = air[d] \/ f = rxFrame[d]
  \/ \E n \in Nodes : Forwarded(n, f)
  \/ \E d \in Devices : Acknowledged(d, f)

\* No frame comes from elsewhere.
LEMMA FrameSteps ==
  ASSUME TypeOK, Next, NEW e \in Devices
  PROVE  ComesFrom(air'[e]) /\ ComesFrom(rxFrame'[e])
<1> DEFINE Goal == ComesFrom(air'[e]) /\ ComesFrom(rxFrame'[e])
<1>t. RadioTypeOK
  BY DEF TypeOK
<1>s. /\ \A d \in Devices : ComesFrom(air[d]) /\ ComesFrom(rxFrame[d])
      /\ ComesFrom(None)
  BY DEF ComesFrom
<1>a. ASSUME NEW d \in Devices, NEW f, Transmit(d, f), ComesFrom(f)
      PROVE  ComesFrom(air'[e])
  BY <1>t, <1>s, <1>a DEF Transmit, RadioTypeOK
<1>h. ASSUME NEW d \in Devices, AckHop(d, rxFrame[d]), Received(d, "DATA")
      PROVE  Goal
  <2> DEFINE f == [type |-> "DATA_RES", from |-> d, to |-> rxFrame[d].from,
                   seq |-> rxFrame[d].pkt.seq]
  <2>1. ComesFrom(f)
    BY <1>h DEF ComesFrom, Acknowledged
  <2>2. Transmit(d, f)
    BY <1>h DEF AckHop
  <2>3. ComesFrom(air'[e])
    BY <2>1, <2>2, <1>a
  <2> QED  BY <1>t, <1>s, <1>h, <2>3 DEF AckHop, RadioTypeOK
<1>p. ASSUME NEW n \in Nodes, ForwardDataPacket(n), UNCHANGED rxFrame PROVE Goal
  <2>1. CASE forwardBuf[n] = None \/ Best(n) = NoId
    BY <1>s, <1>p, <2>1 DEF ForwardDataPacket
  <2>2. CASE ~ (forwardBuf[n] = None \/ Best(n) = NoId)
    <3> DEFINE f == [type |-> "DATA", from |-> n, to |-> NextHop(n),
                     pkt |-> forwardBuf[n]]
    <3>1. ComesFrom(f)
      BY <2>2 DEF ComesFrom, Forwarded
    <3>2. Transmit(n, f)
      BY <1>p, <2>2 DEF ForwardDataPacket
    <3>3. ComesFrom(air'[e])
      BY <3>1, <3>2, <1>a
    <3> QED  BY <1>s, <1>p, <3>3
  <2> QED  BY <2>1, <2>2
<1> USE DEF radioVars
<1>1. ASSUME NEW d \in Devices, TransmissionEnds(d) \/ Update(d) PROVE Goal
  <2>1. CASE TransmissionEnds(d)
    BY <1>t, <1>s, <2>1 DEF TransmissionEnds, RadioTypeOK
  <2>2. CASE HandleDuplicateDATA(d)
    BY <1>h, <2>2 DEF HandleDuplicateDATA
  <2>3. CASE UpdateTxComplete(d) \/ UpdateTxWatchdog(d) \/ DropDataWhileWaiting(d)
               \/ IgnoreDATARES(d) \/ Advertise(d)
    BY <1>t, <1>s, <2>3
       DEF UpdateTxComplete, UpdateTxWatchdog, DropDataWhileWaiting,
           IgnoreDATARES, Advertise, TransmitControl, Transmit, RadioTypeOK
  <2> QED  BY <1>1, <2>1, <2>2, <2>3 DEF Update
<1>2. ASSUME HandleDATAAtHome PROVE Goal
  BY <1>2, <1>h DEF HandleDATAAtHome
<1>3. ASSUME NEW n \in Nodes, UpdateNode(n) PROVE Goal
  <2>1. CASE InitialSend(n) \/ Resend(n)
    BY <2>1, <1>p DEF InitialSend, Resend
  <2>2. CASE HandleDATAAtNode(n)
    BY <2>2, <1>h DEF HandleDATAAtNode
  <2>3. CASE GiveUp(n) \/ Escalate(n) \/ RfcnWaitElapsed(n) \/ HandleDATARES(n)
               \/ HandleNDAT(n)
    BY <1>t, <1>s, <2>3
       DEF GiveUp, Escalate, RfcnWaitElapsed, HandleDATARES, HandleNDAT,
           TransmitControl, Transmit, RadioTypeOK
  <2> QED  BY <1>3, <2>1, <2>2, <2>3 DEF UpdateNode, ConfirmDataRes
<1>4. ASSUME NEW n \in Nodes, NEW m \in Messages,
             SendData(n, m) \/ SendDataToSlot(n, m)
      PROVE  Goal
  BY <1>s, <1>4 DEF SendData, SendDataToSlot
<1>5. ASSUME NEW n \in Devices, Reboot(n) \/ Rebegin(n) PROVE Goal
  BY <1>t, <1>s, <1>5 DEF Reboot, Rebegin, ForgetFrames, RadioTypeOK
<1> QED  BY <1>1, <1>2, <1>3, <1>4, <1>5 DEF Next

\* Where a packet in a forward buffer comes from: it was there before, or was
\* built for a message that gets its number now, or is being relayed.
Built(d, k) ==
  /\ Origin[k] = d /\ number'[k] = currentSeqNum[d]
  /\ forwardBuf'[d] = NewPacket(d, k)
  /\ pendingAckSeqNum'[d] = currentSeqNum[d]

TakenOver(d) ==
  /\ Received(d, "DATA") /\ ~ waitingForDataRes[d] /\ AckHop(d, rxFrame[d])
  /\ forwardBuf'[d] = Relayed(rxFrame[d].pkt)
  /\ UNCHANGED outcome

\* A packet is built in the buffer of its origin, and no other buffer changes.
LEMMA StoreBuilds ==
  ASSUME TypeOK, NEW n \in Nodes, NEW k \in Messages, Origin[k] = n,
         StoreOwnPacket(n, k), NEW d \in Devices
  PROVE  \/ forwardBuf'[d] = forwardBuf[d] /\ pendingAckSeqNum'[d] = pendingAckSeqNum[d]
         \/ Built(d, k)
<1>t. BufferTypeOK
  BY DEF TypeOK
<1>1. CASE d # n
  BY <1>t, <1>1 DEF StoreOwnPacket, BufferTypeOK
<1>2. CASE d = n
  BY <1>t, <1>2 DEF StoreOwnPacket, BufferTypeOK, Built
<1> QED  BY <1>1, <1>2

\* The end of a cycle leaves the packet, or builds one for the slot's message.
LEMMA ResetBuilds ==
  ASSUME TypeOK, Genuine, NEW n \in Nodes, ResetDataResState(n), NEW d \in Devices
  PROVE  \/ forwardBuf'[d] = forwardBuf[d] /\ pendingAckSeqNum'[d] = pendingAckSeqNum[d]
         \/ \E k \in Messages : Built(d, k)
<1>1. CASE ownData[n] = None
  BY <1>1 DEF ResetDataResState
<1>2. CASE ownData[n] # None
  <2>1. PICK k \in Messages : k = ownData[n] /\ Origin[k] = n /\ StoreOwnPacket(n, k)
    BY <1>2 DEF TypeOK, BufferTypeOK, Genuine, ResetDataResState
  <2> QED  BY <2>1, StoreBuilds
<1> QED  BY <1>1, <1>2

\* No packet comes from elsewhere, and the pending number stays with it.
LEMMA BufferSteps ==
  ASSUME TypeOK, RetryStateCoherent, Genuine, Next, NEW d \in Devices
  PROVE  \/ forwardBuf'[d] = None
         \/ /\ forwardBuf'[d] = forwardBuf[d]
            /\ pendingAckSeqNum'[d] \in {pendingAckSeqNum[d], forwardBuf[d].seq}
         \/ \E k \in Messages : Built(d, k)
         \/ TakenOver(d)
<1> DEFINE Goal == \/ forwardBuf'[d] = None
                   \/ /\ forwardBuf'[d] = forwardBuf[d]
                      /\ pendingAckSeqNum'[d] \in {pendingAckSeqNum[d], forwardBuf[d].seq}
                   \/ \E k \in Messages : Built(d, k)
                   \/ TakenOver(d)
<1>t. BufferTypeOK /\ HistoryTypeOK
  BY DEF TypeOK
<1>u. UNCHANGED <<forwardBuf, pendingAckSeqNum>> => Goal
  OBVIOUS
<1> HIDE DEF Goal
<1> USE DEF bufferVars, appVars
<1>1. ASSUME NEW e \in Devices, TransmissionEnds(e) \/ Update(e) PROVE Goal
  BY <1>1, <1>u
     DEF TransmissionEnds, Update, UpdateTxComplete, UpdateTxWatchdog,
         DropDataWhileWaiting, HandleDuplicateDATA, IgnoreDATARES, Advertise
<1>2. ASSUME HandleDATAAtHome PROVE Goal
  BY <1>2, <1>u DEF HandleDATAAtHome
<1>3. ASSUME NEW n \in Nodes, UpdateNode(n) PROVE Goal
  <2>1. CASE Escalate(n) \/ RfcnWaitElapsed(n) \/ HandleNDAT(n)
    BY <2>1, <1>u DEF Escalate, RfcnWaitElapsed, HandleNDAT
  <2>2. CASE InitialSend(n) \/ Resend(n)
    <3>1. UNCHANGED forwardBuf /\ ForwardDataPacket(n)
      BY <2>2 DEF InitialSend, Resend
    <3> QED  BY <1>t, <3>1 DEF ForwardDataPacket, Goal, BufferTypeOK
  <2>3. CASE GiveUp(n)
    BY <2>3, ResetBuilds DEF GiveUp, Goal
  <2>4. CASE HandleDATARES(n)
    BY <2>4, ResetBuilds DEF HandleDATARES, Goal
  <2>5. CASE HandleDATAAtNode(n)
    <3>1. CASE d = n /\ rxFrame[n].pkt.ttl > 0
      BY <1>t, <2>5, <3>1 DEF HandleDATAAtNode, Goal, TakenOver, BufferTypeOK
    <3>2. CASE ~ (d = n /\ rxFrame[n].pkt.ttl > 0)
      <4>1. forwardBuf'[d] = forwardBuf[d] /\ UNCHANGED pendingAckSeqNum
        BY <1>t, <2>5, <3>2 DEF HandleDATAAtNode, BufferTypeOK
      <4> QED  BY <4>1 DEF Goal
    <3> QED  BY <3>1, <3>2
  <2> QED  BY <1>3, <2>1, <2>2, <2>3, <2>4, <2>5 DEF UpdateNode, ConfirmDataRes
<1>4. ASSUME NEW n \in Nodes, NEW m \in Messages, SendData(n, m) PROVE Goal
  <2>1. Origin[m] = n /\ StoreOwnPacket(n, m)
    BY <1>4 DEF SendData
  <2> QED  BY <2>1, StoreBuilds DEF Goal
<1>5. ASSUME NEW n \in Nodes, NEW m \in Messages, SendDataToSlot(n, m) PROVE Goal
  BY <1>5, <1>u DEF SendDataToSlot
<1>6. ASSUME NEW e \in Devices, Reboot(e) \/ Rebegin(e) PROVE Goal
  <2>1. CASE d = e
    BY <1>t, <1>6, <2>1 DEF Reboot, Rebegin, BufferTypeOK, Goal
  <2>2. CASE d # e
    <3>1. forwardBuf'[d] = forwardBuf[d]
      BY <1>t, <1>6, <2>2 DEF Reboot, Rebegin, BufferTypeOK
    <3>2. pendingAckSeqNum'[d] = pendingAckSeqNum[d]
      BY <1>t, <1>6, <2>2 DEF Reboot, Rebegin, BufferTypeOK
    <3> QED  BY <3>1, <3>2 DEF Goal
  <2> QED  BY <2>1, <2>2
<1>7. Goal
  BY <1>1, <1>2, <1>3, <1>4, <1>5, <1>6 DEF Next
<1> QED  BY <1>7 DEF Goal

\* What devices have heard and what Home has delivered grows by the frames that
\* are handled; only a power cycle makes Home forget.
LEMMA HeardSteps ==
  ASSUME TypeOK, Next
  PROVE  \/ UNCHANGED <<heard, delivered, since>>
         \/ /\ UNCHANGED <<delivered, since, outcome>>
            /\ \E d \in Devices : HandleDuplicateDATA(d)
         \/ /\ UNCHANGED <<delivered, since, outcome>>
            /\ \E n \in Nodes : HandleDATAAtNode(n)
         \/ HandleDATAAtHome
         \/ Reboot(Home)
<1> DEFINE Same == UNCHANGED <<heard, delivered, since>>
<1> USE DEF appVars
<1>1. ASSUME NEW d \in Devices, TransmissionEnds(d) \/ Update(d),
             ~ HandleDuplicateDATA(d)
      PROVE  Same
  BY <1>1 DEF TransmissionEnds, Update, UpdateTxComplete, UpdateTxWatchdog,
              DropDataWhileWaiting, IgnoreDATARES, Advertise
<1>2. ASSUME NEW d \in Devices, HandleDuplicateDATA(d)
      PROVE  UNCHANGED <<delivered, since, outcome>>
  BY <1>2 DEF HandleDuplicateDATA
<1>3. ASSUME NEW n \in Nodes, UpdateNode(n), ~ HandleDATAAtNode(n) PROVE Same
  BY <1>3 DEF UpdateNode, ConfirmDataRes, InitialSend, GiveUp, Resend, Escalate,
              RfcnWaitElapsed, HandleDATARES, HandleNDAT
<1>4. ASSUME NEW n \in Nodes, HandleDATAAtNode(n)
      PROVE  UNCHANGED <<delivered, since, outcome>>
  BY <1>4 DEF HandleDATAAtNode
<1>5. ASSUME NEW n \in Nodes, NEW m \in Messages,
             SendData(n, m) \/ SendDataToSlot(n, m)
      PROVE  Same
  BY <1>5 DEF SendData, SendDataToSlot
<1>6. ASSUME NEW d \in Devices, Reboot(d), d # Home PROVE Same
  BY <1>6 DEF Reboot
<1>7. ASSUME NEW d \in Devices, Rebegin(d) PROVE Same
  BY <1>7 DEF Rebegin
<1> QED  BY <1>1, <1>2, <1>3, <1>4, <1>5, <1>6, <1>7 DEF Next

\* Whoever acknowledges a hop has heard it, and nobody unhears.
LEMMA HeardGrows ==
  ASSUME TypeOK, Next
  PROVE  heard \subseteq heard'
<1>1. \A d \in Devices : AckHop(d, rxFrame[d]) => heard \subseteq heard'
  BY DEF AckHop
<1>2. Reboot(Home) => heard' = heard
  BY DEF Reboot
<1> QED  BY <1>1, <1>2, HeardSteps
         DEF HandleDuplicateDATA, HandleDATAAtNode, HandleDATAAtHome

\* Home's ring changes when Home delivers, and is emptied when it is switched
\* off.
LEMMA HomeRingSteps ==
  ASSUME TypeOK, Next
  PROVE  \/ /\ UNCHANGED <<delivered, since>>
            /\ seenPackets'[Home] = seenPackets[Home]
            /\ seenIndex'[Home] = seenIndex[Home]
         \/ HandleDATAAtHome
         \/ Reboot(Home)
<1> DEFINE Same == /\ seenPackets'[Home] = seenPackets[Home]
                   /\ seenIndex'[Home] = seenIndex[Home]
<1>t. SeenTypeOK
  BY DEF TypeOK
<1>u. UNCHANGED <<seenPackets, seenIndex>> => Same
  OBVIOUS
<1> HIDE DEF Same
<1> USE DEF seenVars
<1>1. ASSUME NEW d \in Devices, TransmissionEnds(d) \/ Update(d) PROVE Same
  BY <1>1, <1>u
     DEF TransmissionEnds, Update, UpdateTxComplete, UpdateTxWatchdog,
         DropDataWhileWaiting, HandleDuplicateDATA, IgnoreDATARES, Advertise
<1>2. ASSUME NEW n \in Nodes, UpdateNode(n), ~ HandleDATAAtNode(n) PROVE Same
  BY <1>2, <1>u DEF UpdateNode, ConfirmDataRes, InitialSend, GiveUp, Resend,
                    Escalate, RfcnWaitElapsed, HandleDATARES, HandleNDAT
<1>3. ASSUME NEW n \in Nodes, HandleDATAAtNode(n) PROVE Same
  <2>1. n # Home /\ RecordSeen(n, rxFrame[n].pkt)
    BY <1>3 DEF HandleDATAAtNode
  <2> QED  BY <1>t, <2>1 DEF RecordSeen, SeenTypeOK, Same
<1>4. ASSUME NEW n \in Nodes, NEW m \in Messages,
             SendData(n, m) \/ SendDataToSlot(n, m)
      PROVE  Same
  BY <1>4, <1>u DEF SendData, SendDataToSlot
<1>5. ASSUME NEW d \in Devices, Rebegin(d) PROVE Same
  BY <1>5, <1>u DEF Rebegin
<1>6. ASSUME NEW d \in Devices, Reboot(d), d # Home PROVE Same
  BY <1>t, <1>6 DEF Reboot, SeenTypeOK, Same
<1>7. Same \/ HandleDATAAtHome \/ Reboot(Home)
  BY <1>1, <1>2, <1>3, <1>4, <1>5, <1>6 DEF Next
<1>8. CASE Same
  <2>1. ASSUME NEW d \in Devices, HandleDuplicateDATA(d) PROVE UNCHANGED <<delivered, since>>
    BY <2>1 DEF HandleDuplicateDATA
  <2> QED  BY <1>8, HeardSteps DEF Same
<1> QED  BY <1>7, <1>8

-----------------------------------------------------------------------------
(* Where packets, frames and their numbers come from *)

\* Device d is the origin of m, or has received it.
Has(d, m) == Origin[m] = d \/ \E p \in Nodes : <<p, d, m>> \in heard

\* A packet p at d has the number of its message, which has come to d.
TracedPacket(d, p) == number[p.msg] = p.seq /\ Has(d, p.msg)

\* A DATA_RES has the number of a message that its sender heard from its
\* receiver.
TracedAck(f) ==
  \E k \in Messages : <<f.to, f.from, k>> \in heard /\ number[k] = f.seq

TracedFrame(f) ==
  IF f.type = "DATA" THEN TracedPacket(f.from, f.pkt) ELSE TracedAck(f)

BuffersTraced ==
  \A d \in Devices : forwardBuf[d] # None => TracedPacket(d, forwardBuf[d])

FramesTraced ==
  \A d \in Devices : /\ air[d] # None => TracedFrame(air[d])
                     /\ rxFrame[d] # None => TracedFrame(rxFrame[d])

\* The same of a packet or frame as it is now, after the step.
HasThen(d, m) == Origin[m] = d \/ \E p \in Nodes : <<p, d, m>> \in heard'
TracedPacketThen(d, p) == number'[p.msg] = p.seq /\ HasThen(d, p.msg)
TracedAckThen(f) ==
  \E k \in Messages : <<f.to, f.from, k>> \in heard' /\ number'[k] = f.seq
TracedFrameThen(f) ==
  IF f.type = "DATA" THEN TracedPacketThen(f.from, f.pkt) ELSE TracedAckThen(f)

\* What has the fields of a packet or a frame stays traced.
LEMMA TracedStays ==
  ASSUME TypeOK, RetryStateCoherent, Genuine, Fresh, Next
  PROVE  /\ \A d \in Devices, p \in Packets : TracedPacket(d, p) => TracedPacketThen(d, p)
         /\ \A f \in Frames : TracedFrame(f) => TracedFrameThen(f)
<1>n. \A m \in Messages : number[m] # None => number'[m] = number[m]
  BY NumbersStay
<1>s. \A q \in SeqNums : q # None
  BY DeviceAssumption
<1>1. ASSUME NEW d, NEW p \in Packets, TracedPacket(d, p) PROVE TracedPacketThen(d, p)
  <2>1. p.msg \in Messages /\ p.seq \in SeqNums
    BY DEF Packets
  <2>2. number'[p.msg] = p.seq
    BY <1>n, <1>s, <1>1, <2>1 DEF TracedPacket
  <2>3. HasThen(d, p.msg)
    BY <1>1, HeardGrows DEF TracedPacket, Has, HasThen
  <2> QED  BY <2>2, <2>3 DEF TracedPacketThen
<1>2. ASSUME NEW f \in ResFrames, TracedAck(f) PROVE TracedAckThen(f)
  <2>1. PICK k \in Messages : <<f.to, f.from, k>> \in heard /\ number[k] = f.seq
    BY <1>2 DEF TracedAck
  <2>2. f.seq \in SeqNums
    BY DEF ResFrames
  <2> QED  BY <1>n, <1>s, <2>1, <2>2, HeardGrows DEF TracedAckThen
<1>3. ASSUME NEW f \in Frames, TracedFrame(f) PROVE TracedFrameThen(f)
  <2>1. CASE f \in DataFrames
    <3>1. f.type = "DATA" /\ f.pkt \in Packets
      BY <2>1 DEF DataFrames
    <3> QED  BY <1>1, <1>3, <3>1 DEF TracedFrame, TracedFrameThen
  <2>2. CASE f \in ResFrames
    <3>1. f.type # "DATA"
      BY <2>2 DEF ResFrames
    <3> QED  BY <1>2, <1>3, <2>2, <3>1 DEF TracedFrame, TracedFrameThen
  <2> QED  BY <2>1, <2>2 DEF Frames
<1> QED  BY <1>1, <1>3

\* A DATA that waits in a receive buffer, and what is known of it.
LEMMA WaitingPacket ==
  ASSUME TypeOK, Genuine, FramesTraced, NEW d \in Devices, Received(d, "DATA")
  PROVE  LET f == rxFrame[d] IN
         /\ f \in DataFrames /\ f.from \in Nodes /\ f.pkt \in Packets
         /\ f.pkt.msg \in Messages /\ number[f.pkt.msg] = f.pkt.seq
         /\ f.pkt.src = Origin[f.pkt.msg] /\ outcome[f.pkt.msg] # "unsent"
         /\ Has(f.from, f.pkt.msg)
<1>1. rxFrame[d] \in DataFrames /\ rxFrame[d] # None
  BY ReceivedFrame DEF TypeOK, Received
<1>2. /\ rxFrame[d].type = "DATA" /\ rxFrame[d].pkt \in Packets
      /\ rxFrame[d].from \in Nodes
  BY <1>1 DEF DataFrames
<1>3. TracedPacket(rxFrame[d].from, rxFrame[d].pkt) /\ GenuinePacket(rxFrame[d].pkt)
  BY <1>1, <1>2 DEF FramesTraced, TracedFrame, Genuine
<1> QED  BY <1>1, <1>2, <1>3 DEF TracedPacket, GenuinePacket, Packets

\* Every packet that a buffer gets has its number, and came hop by hop.
LEMMA BuffersTracedStep ==
  ASSUME TypeOK, RetryStateCoherent, Genuine, Fresh, BuffersTraced, FramesTraced, Next
  PROVE  BuffersTraced'
<1> SUFFICES ASSUME NEW d \in Devices, forwardBuf'[d] # None
             PROVE  TracedPacketThen(d, forwardBuf'[d])
  BY DEF BuffersTraced, TracedPacket, TracedPacketThen, Has, HasThen
<1>1. CASE forwardBuf'[d] = forwardBuf[d]
  <2>1. forwardBuf[d] \in Packets
    BY <1>1 DEF TypeOK, BufferTypeOK
  <2>2. TracedPacketThen(d, forwardBuf[d])
    BY <1>1, <2>1, TracedStays DEF BuffersTraced
  <2> QED  BY <1>1, <2>2
<1>2. ASSUME NEW k \in Messages, Built(d, k)
      PROVE  TracedPacketThen(d, forwardBuf'[d])
  BY <1>2 DEF Built, NewPacket, TracedPacketThen, HasThen
<1>3. CASE TakenOver(d)
  <2>1. PICK p \in Packets : /\ p = rxFrame[d].pkt /\ number[p.msg] = p.seq
                             /\ p.msg \in Messages /\ p.seq \in SeqNums
                             /\ rxFrame[d].from \in Nodes
    BY <1>3, WaitingPacket DEF TakenOver, Packets
  <2>2. number'[p.msg] = p.seq
    BY <2>1, NumbersStay, DeviceAssumption
  <2>3. HasThen(d, p.msg)
    BY <1>3, <2>1 DEF TakenOver, AckHop, HasThen
  <2> QED  BY <1>3, <2>1, <2>2, <2>3 DEF TakenOver, Relayed, TracedPacketThen
<1> QED  BY <1>1, <1>2, <1>3, BufferSteps

\* And so does every frame that goes on the air.
LEMMA FramesTracedStep ==
  ASSUME TypeOK, RetryStateCoherent, Genuine, Fresh, BuffersTraced, FramesTraced, Next
  PROVE  FramesTraced'
<1>1. ASSUME NEW f, f # None, ComesFrom(f)
      PROVE  TracedFrameThen(f)
  <2>1. ASSUME NEW d \in Devices, f = air[d] \/ f = rxFrame[d]
        PROVE  TracedFrameThen(f)
    <3>1. f \in Frames /\ TracedFrame(f)
      BY <1>1, <2>1 DEF TypeOK, RadioTypeOK, FramesTraced
    <3> QED  BY <3>1, TracedStays
  <2>2. ASSUME NEW n \in Nodes, Forwarded(n, f)
        PROVE  TracedFrameThen(f)
    <3>1. forwardBuf[n] \in Packets /\ TracedPacket(n, forwardBuf[n])
      BY <2>2 DEF Forwarded, TypeOK, BufferTypeOK, BuffersTraced
    <3>2. TracedPacketThen(n, forwardBuf[n])
      BY <3>1, TracedStays
    <3> QED  BY <2>2, <3>2 DEF Forwarded, TracedFrameThen
  <2>3. ASSUME NEW d \in Devices, Acknowledged(d, f)
        PROVE  TracedFrameThen(f)
    <3>1. PICK p \in Packets : /\ p = rxFrame[d].pkt /\ number[p.msg] = p.seq
                               /\ p.msg \in Messages /\ p.seq \in SeqNums
      BY <2>3, WaitingPacket DEF Acknowledged, Packets
    <3>2. number'[p.msg] = p.seq
      BY <3>1, NumbersStay, DeviceAssumption
    <3>3. <<rxFrame[d].from, d, p.msg>> \in heard'
      BY <2>3, <3>1 DEF Acknowledged, AckHop
    <3>4. f.to = rxFrame[d].from /\ f.from = d /\ f.seq = p.seq /\ f.type = "DATA_RES"
      BY <2>3, <3>1 DEF Acknowledged
    <3>5. TracedAckThen(f)
      BY <3>1, <3>2, <3>3, <3>4 DEF TracedAckThen
    <3> QED  BY <3>4, <3>5 DEF TracedFrameThen
  <2> QED  BY <1>1, <2>1, <2>2, <2>3 DEF ComesFrom
<1>2. \A d \in Devices : /\ air'[d] # None => TracedFrameThen(air'[d])
                         /\ rxFrame'[d] # None => TracedFrameThen(rxFrame'[d])
  BY <1>1, FrameSteps
<1> QED  BY <1>2 DEF FramesTraced, TracedFrame, TracedFrameThen, TracedPacket,
                     TracedPacketThen, TracedAck, TracedAckThen, Has, HasThen

\* All packets, buffers and frames are traced to their origins.
Traced == Fresh /\ BuffersTraced /\ FramesTraced

\* Where messages, numbers and DATA_RES come from, in every behaviour.
LEMMA EverythingIsTraced == Spec => []Traced
<1>1. Init => Traced
  BY DEF Init, Traced, Fresh, BuffersTraced, FramesTraced
<1>2. ASSUME TypeOK, RetryStateCoherent, Genuine, Traced, [Next]_vars
      PROVE  Traced'
  <2>1. CASE Next
    BY <1>2, <2>1, FreshStep, BuffersTracedStep, FramesTracedStep DEF Traced
  <2>2. CASE UNCHANGED vars
    <3>1. UNCHANGED <<number, outcome, ownData, forwardBuf, air, rxFrame, heard>>
      BY <2>2 DEF vars, bufferVars, radioVars, appVars
    <3>2. Fresh'
      BY <1>2, <3>1 DEF Traced, Fresh
    <3>3. BuffersTraced'
      BY <1>2, <3>1 DEF Traced, BuffersTraced, TracedPacket, Has
    <3>4. FramesTraced'
      BY <1>2, <3>1 DEF Traced, FramesTraced, TracedFrame, TracedPacket, TracedAck, Has
    <3> QED  BY <3>2, <3>3, <3>4 DEF Traced
  <2> QED  BY <1>2, <2>1, <2>2
<1> QED  BY <1>1, <1>2, TypeCorrect, RetryStateIsCoherent, EverythingIsGenuine,
            PTL DEF Spec

-----------------------------------------------------------------------------
(* What Home remembers *)

RingPlaces == 0 .. SeenCacheSize - 1

\* The ring entry that the packets of m leave.
Entry(m) == [src |-> Origin[m], seq |-> number[m]]

\* The place of the entry after which s others were made, when i is next.
Place(i, s) == IF i > s THEN i - 1 - s ELSE i - 1 - s + SeenCacheSize

\* Going around the ring no entry moves, until its place is taken.
LEMMA Places ==
  ASSUME NEW i \in RingPlaces
  PROVE  /\ (i + 1) % SeenCacheSize \in RingPlaces
         /\ Place((i + 1) % SeenCacheSize, 0) = i
         /\ \A s \in RingPlaces : s + 1 < SeenCacheSize =>
              /\ Place((i + 1) % SeenCacheSize, s + 1) = Place(i, s)
              /\ Place(i, s) # i /\ Place(i, s) \in RingPlaces
<1>1. (i + 1) % SeenCacheSize = IF i + 1 = SeenCacheSize THEN 0 ELSE i + 1
  BY DEF RingPlaces
<1>2. CASE i + 1 = SeenCacheSize
  BY <1>1, <1>2 DEF RingPlaces, Place
<1>3. CASE i + 1 # SeenCacheSize
  BY <1>1, <1>3 DEF RingPlaces, Place
<1> QED  BY <1>2, <1>3

\* The entries of the last SeenCacheSize deliveries are in Home's ring.
RingRemembers ==
  \A m \in Messages : since[m] < SeenCacheSize =>
    /\ number[m] # None
    /\ seenPackets[Home][Place(seenIndex[Home], since[m])] = Entry(m)

\* A delivery overwrites the oldest of them.
LEMMA RingRemembersStep ==
  ASSUME TypeOK, RetryStateCoherent, Genuine, Traced, RingRemembers, Next
  PROVE  RingRemembers'
<1> DEFINE ThenRemembered(m) ==
      /\ number'[m] # None
      /\ seenPackets'[Home][Place(seenIndex'[Home], since'[m])]
           = [src |-> Origin[m], seq |-> number'[m]]
<1>t. SeenTypeOK /\ HistoryTypeOK
  BY DEF TypeOK
<1> SUFFICES ASSUME NEW m \in Messages, since'[m] < SeenCacheSize
             PROVE  ThenRemembered(m)
  BY DEF RingRemembers, Entry, Place
<1>n. number[m] # None => number'[m] = number[m]
  BY NumbersStay DEF Traced
<1>1. CASE /\ UNCHANGED since /\ seenPackets'[Home] = seenPackets[Home]
           /\ seenIndex'[Home] = seenIndex[Home]
  BY <1>n, <1>1 DEF RingRemembers, Entry, Place
<1>2. CASE HandleDATAAtHome
  <2>1. PICK p \in Packets : /\ p = rxFrame[Home].pkt /\ number[p.msg] = p.seq
                             /\ p.seq \in SeqNums /\ p.src = Origin[p.msg]
                             /\ p.msg \in Messages
    BY <1>2, WaitingPacket DEF HandleDATAAtHome, Traced, Packets
  <2>2. PICK i \in RingPlaces : i = seenIndex[Home]
    BY <1>t DEF SeenTypeOK, RingPlaces
  <2>3. /\ seenIndex'[Home] = (i + 1) % SeenCacheSize
        /\ \A j \in RingPlaces :
             seenPackets'[Home][j] = IF j = i THEN [src |-> p.src, seq |-> p.seq]
                                     ELSE seenPackets[Home][j]
    BY <1>t, <1>2, <2>1, <2>2 DEF HandleDATAAtHome, RecordSeen, SeenTypeOK, RingPlaces
  <2>4. since'[m] = IF m = p.msg THEN 0
                    ELSE IF since[m] < SeenCacheSize THEN since[m] + 1 ELSE since[m]
    BY <1>2, <2>1 DEF HandleDATAAtHome
  <2>5. CASE m = p.msg
    BY <1>n, <2>1, <2>2, <2>3, <2>4, <2>5, Places, DeviceAssumption
  <2>6. CASE m # p.msg
    <3>1. PICK s \in RingPlaces : s = since[m] /\ s + 1 < SeenCacheSize /\ since'[m] = s + 1
      <4>1. since[m] \in 0 .. SeenCacheSize
        BY <1>t DEF HistoryTypeOK
      <4>2. \A s \in 0 .. SeenCacheSize :
              (IF s < SeenCacheSize THEN s + 1 ELSE s) < SeenCacheSize =>
                s \in RingPlaces /\ s + 1 < SeenCacheSize
        BY DEF RingPlaces
      <4>3. since[m] \in RingPlaces /\ since[m] + 1 < SeenCacheSize
        BY <2>4, <2>6, <4>1, <4>2
      <4>4. since'[m] = since[m] + 1
        BY <2>4, <2>6, <4>3 DEF RingPlaces
      <4> QED  BY <4>3, <4>4
    <3>2. number[m] # None /\ seenPackets[Home][Place(i, s)] = Entry(m)
      BY <2>2, <3>1 DEF RingRemembers, RingPlaces
    <3>3. /\ Place(seenIndex'[Home], since'[m]) = Place(i, s)
          /\ Place(i, s) # i /\ Place(i, s) \in RingPlaces
      BY <2>3, <3>1, Places
    <3> QED  BY <1>n, <2>3, <3>2, <3>3 DEF Entry
  <2> QED  BY <2>5, <2>6
<1>3. CASE Reboot(Home)
  BY <1>3 DEF Reboot
<1> QED  BY <1>1, <1>2, <1>3, HomeRingSteps

\* Home's ring has what it should, in every behaviour.
LEMMA HomeRemembers == Spec => []RingRemembers
<1>1. Init => RingRemembers
  BY DEF Init, RingRemembers
<1>2. ASSUME TypeOK, RetryStateCoherent, Genuine, Traced, RingRemembers, [Next]_vars
      PROVE  RingRemembers'
  <2>1. CASE Next
    BY <1>2, <2>1, RingRemembersStep
  <2>2. CASE UNCHANGED vars
    BY <1>2, <2>2 DEF vars, bufferVars, seenVars, appVars, RingRemembers, Entry, Place
  <2> QED  BY <1>2, <2>1, <2>2
<1> QED  BY <1>1, <1>2, TypeCorrect, RetryStateIsCoherent, EverythingIsGenuine,
            EverythingIsTraced, PTL DEF Spec

\* Home delivers a message only when it does not remember it.
LEMMA DeliveredIsForgotten ==
  ASSUME TypeOK, Genuine, Traced, RingRemembers, HandleDATAAtHome
  PROVE  since[rxFrame[Home].pkt.msg] = SeenCacheSize
<1>1. PICK p \in Packets : /\ p = rxFrame[Home].pkt /\ number[p.msg] = p.seq
                           /\ p.src = Origin[p.msg] /\ p.msg \in Messages
                           /\ ~ IsDuplicateData(Home, p)
  BY WaitingPacket DEF HandleDATAAtHome, Traced
<1>2. since[p.msg] \in 0 .. SeenCacheSize /\ seenIndex[Home] \in RingPlaces
  BY <1>1 DEF TypeOK, HistoryTypeOK, SeenTypeOK, RingPlaces
<1>3. \A i \in RingPlaces, s \in 0 .. SeenCacheSize :
        s < SeenCacheSize => Place(i, s) \in RingPlaces
  BY DEF RingPlaces, Place
<1>4. ASSUME since[p.msg] < SeenCacheSize PROVE FALSE
  <2>1. Place(seenIndex[Home], since[p.msg]) \in RingPlaces
    BY <1>2, <1>3, <1>4
  <2>2. seenPackets[Home][Place(seenIndex[Home], since[p.msg])]
          = [src |-> p.src, seq |-> p.seq]
    BY <1>1, <1>4 DEF RingRemembers, Entry
  <2> QED  BY <1>1, <2>1, <2>2 DEF IsDuplicateData, RingPlaces
<1> QED  BY <1>1, <1>2, <1>4

\* Home's application gets a message again only after SeenCacheSize others or a
\* power cycle of Home: whatever is resent, lost or relayed on two paths, by
\* however many sources, with however many sequence numbers equal.
THEOREM NothingRepeatsWithinRing == Spec => NoRepeatWithinRing
<1>1. ASSUME TypeOK, Genuine, Traced, RingRemembers, [Next]_vars
      PROVE  [HandleDATAAtHome => since[rxFrame[Home].pkt.msg] = SeenCacheSize]_vars
  BY <1>1, DeliveredIsForgotten
<1> QED  BY <1>1, TypeCorrect, EverythingIsGenuine, EverythingIsTraced, HomeRemembers,
            PTL DEF Spec, NoRepeatWithinRing

-----------------------------------------------------------------------------
(* What the applications hear *)

\* The steps in which the application of a message hears of it.
Accepts(m)  == outcome[m] = "unsent" /\ outcome' = [outcome EXCEPT ![m] = "pending"]
Fails(m)    == outcome[m] = "pending" /\ outcome' = [outcome EXCEPT ![m] = "failed"]
Confirms(n) ==
  /\ HandleDATARES(n) /\ forwardBuf[n] # None
  /\ Origin[forwardBuf[n].msg] = n /\ outcome[forwardBuf[n].msg] = "pending"
  /\ outcome' = [outcome EXCEPT ![forwardBuf[n].msg] = "confirmed"]

\* Applications hear of a message in the steps of its origin only, and no frame
\* is handled there except the DATA_RES that confirms it.
LEMMA OutcomeSteps ==
  ASSUME TypeOK, Next
  PROVE  \/ UNCHANGED outcome
         \/ /\ UNCHANGED <<heard, since>>
            /\ \/ \E m \in Messages : Accepts(m) \/ Fails(m)
               \/ \E n \in Nodes : Confirms(n) \/ LoseHeld(n)
<1> DEFINE Goal == \/ UNCHANGED outcome
                   \/ /\ UNCHANGED <<heard, since>>
                      /\ \/ \E m \in Messages : Accepts(m) \/ Fails(m)
                         \/ \E n \in Nodes : Confirms(n) \/ LoseHeld(n)
<1>p. \A n \in Nodes : forwardBuf[n] # None => forwardBuf[n].msg \in Messages
  BY DEF TypeOK, BufferTypeOK, Packets
<1> USE DEF appVars
<1>1. ASSUME NEW d \in Devices, TransmissionEnds(d) \/ Update(d) PROVE Goal
  BY <1>1
     DEF TransmissionEnds, Update, UpdateTxComplete, UpdateTxWatchdog,
         DropDataWhileWaiting, HandleDuplicateDATA, IgnoreDATARES, Advertise
<1>2. ASSUME HandleDATAAtHome PROVE Goal
  BY <1>2 DEF HandleDATAAtHome
<1>3. ASSUME NEW n \in Nodes, UpdateNode(n) PROVE Goal
  <2>1. CASE InitialSend(n) \/ Resend(n) \/ Escalate(n) \/ RfcnWaitElapsed(n)
               \/ HandleNDAT(n) \/ HandleDATAAtNode(n)
    BY <2>1 DEF InitialSend, Resend, Escalate, RfcnWaitElapsed, HandleNDAT,
                HandleDATAAtNode
  <2>2. CASE GiveUp(n)
    BY <1>p, <2>2 DEF GiveUp, Settle, Fails
  <2>3. CASE HandleDATARES(n)
    <3>1. UNCHANGED outcome \/ Confirms(n)
      BY <2>3 DEF HandleDATARES, Settle, Confirms
    <3>2. UNCHANGED <<heard, since>>
      BY <2>3 DEF HandleDATARES
    <3> QED  BY <3>1, <3>2
  <2> QED  BY <1>3, <2>1, <2>2, <2>3 DEF UpdateNode, ConfirmDataRes
<1>4. ASSUME NEW n \in Nodes, NEW m \in Messages,
             SendData(n, m) \/ SendDataToSlot(n, m)
      PROVE  Goal
  BY <1>4 DEF SendData, SendDataToSlot, Accepts
<1>5. ASSUME NEW n \in Nodes, Reboot(n) \/ Rebegin(n) PROVE Goal
  BY <1>5 DEF Reboot, Rebegin
<1>6. ASSUME Reboot(Home) \/ Rebegin(Home) PROVE Goal
  <2>1. outcome' = [m \in Messages |->
           IF Origin[m] = Home /\ outcome[m] = "pending" THEN "lost" ELSE outcome[m]]
    BY <1>6 DEF Reboot, Rebegin, LoseHeld
  <2>2. UNCHANGED outcome
    BY <2>1 DEF TypeOK, HistoryTypeOK
  <2> QED  BY <2>2
<1> QED  BY <1>1, <1>2, <1>3, <1>4, <1>5, <1>6 DEF Next

\* The number a node waits for is that of its own packet: however long it has
\* relayed before, a DATA_RES for a packet it relayed does not match.
OwnNumberIsPending ==
  \A n \in Nodes :
    LET p == forwardBuf[n] IN
    p # None /\ Origin[p.msg] = n /\ outcome[p.msg] = "pending" =>
      pendingAckSeqNum[n] = p.seq

\* A packet of n's own that comes back to n is not one that n still waits for.
LEMMA OwnNumberStep ==
  ASSUME TypeOK, RetryStateCoherent, NoSilentLoss, Genuine, Next, OwnNumberIsPending
  PROVE  OwnNumberIsPending'
<1> SUFFICES ASSUME NEW n \in Nodes, forwardBuf'[n] # None,
                    Origin[forwardBuf'[n].msg] = n,
                    outcome'[forwardBuf'[n].msg] = "pending"
             PROVE  pendingAckSeqNum'[n] = forwardBuf'[n].seq
  BY DEF OwnNumberIsPending
<1>1. ASSUME forwardBuf'[n] = forwardBuf[n],
             pendingAckSeqNum'[n] \in {pendingAckSeqNum[n], forwardBuf[n].seq}
      PROVE  pendingAckSeqNum'[n] = forwardBuf'[n].seq
  <2>1. PICK m \in Messages : m = forwardBuf[n].msg
    BY <1>1 DEF TypeOK, BufferTypeOK, Packets
  <2>2. outcome[m] # "unsent"
    BY <1>1, <2>1 DEF Genuine, GenuinePacket
  <2>3. outcome[m] = "pending"
    <3>1. outcome'[m] = "pending"
      BY <1>1, <2>1
    <3>2. CASE UNCHANGED outcome
      BY <3>1, <3>2
    <3>3. ASSUME NEW k \in Messages, Accepts(k) \/ Fails(k) PROVE outcome[m] = "pending"
      BY <2>2, <3>1, <3>3 DEF Accepts, Fails, TypeOK, HistoryTypeOK
    <3>4. ASSUME NEW q \in Nodes, Confirms(q) PROVE outcome[m] = "pending"
      BY <3>1, <3>4 DEF Confirms, TypeOK, HistoryTypeOK
    <3>5. ASSUME NEW q \in Nodes, LoseHeld(q) PROVE outcome[m] = "pending"
      BY <3>1, <3>5 DEF LoseHeld
    <3> QED  BY <3>2, <3>3, <3>4, <3>5, OutcomeSteps
  <2> QED  BY <1>1, <2>1, <2>3 DEF OwnNumberIsPending
<1>2. ASSUME NEW k \in Messages, Built(n, k)
      PROVE  pendingAckSeqNum'[n] = forwardBuf'[n].seq
  BY <1>2 DEF Built, NewPacket
<1>3. CASE TakenOver(n)
  <2>1. PICK m \in Messages : m = rxFrame[n].pkt.msg
    BY <1>3, ReceivedFrame DEF TakenOver, TypeOK, DataFrames, Packets
  <2>2. Origin[m] = n /\ outcome[m] = "pending" /\ ~ waitingForDataRes[n]
    BY <1>3, <2>1 DEF TakenOver, Relayed
  <2> QED  BY <2>2, IdleHasNothingPending
<1> QED  BY <1>1, <1>2, <1>3, BufferSteps

\* A frame is received by the device it is addressed to.
InboxIsOwn == \A d \in Devices : rxFrame[d] # None => rxFrame[d].to = d

\* Receive buffers are filled by ending transmissions only.
LEMMA InboxStep ==
  ASSUME TypeOK, Next, InboxIsOwn
  PROVE  InboxIsOwn'
<1>t. RadioTypeOK
  BY DEF TypeOK
<1>u. ASSUME NEW d \in Devices, rxFrame' \in {rxFrame, [rxFrame EXCEPT ![d] = None]}
      PROVE  InboxIsOwn'
  BY <1>t, <1>u DEF InboxIsOwn, RadioTypeOK
<1> USE DEF radioVars
<1>1. ASSUME NEW d \in Devices, TransmissionEnds(d) PROVE InboxIsOwn'
  BY <1>t, <1>1 DEF TransmissionEnds, InboxIsOwn, RadioTypeOK
<1>2. ASSUME NEW d \in Devices, Update(d) PROVE InboxIsOwn'
  BY <1>2, <1>u
     DEF Update, UpdateTxComplete, UpdateTxWatchdog, AckHop,
         DropDataWhileWaiting, HandleDuplicateDATA, IgnoreDATARES, Advertise
<1>3. CASE HandleDATAAtHome
  BY <1>3, <1>u DEF HandleDATAAtHome, AckHop
<1>4. ASSUME NEW n \in Nodes, UpdateNode(n) PROVE InboxIsOwn'
  BY <1>4, <1>u DEF UpdateNode, ConfirmDataRes, InitialSend, GiveUp, Resend, Escalate,
              RfcnWaitElapsed, HandleDATAAtNode, HandleDATARES, HandleNDAT, AckHop
<1>5. ASSUME NEW n \in Nodes, NEW m \in Messages,
             SendData(n, m) \/ SendDataToSlot(n, m)
      PROVE  InboxIsOwn'
  BY <1>5, <1>u DEF SendData, SendDataToSlot
<1>6. ASSUME NEW d \in Devices, Reboot(d) \/ Rebegin(d) PROVE InboxIsOwn'
  BY <1>6, <1>u DEF Reboot, Rebegin, ForgetFrames
<1> QED  BY <1>1, <1>2, <1>3, <1>4, <1>5, <1>6 DEF Next

\* The pending number is that of a node's own packet, in every behaviour.
LEMMA OwnNumberInvariant == Spec => [](OwnNumberIsPending /\ InboxIsOwn)
<1>1. Init => OwnNumberIsPending /\ InboxIsOwn
  BY DEF Init, OwnNumberIsPending, InboxIsOwn
<1>2. ASSUME TypeOK, RetryStateCoherent, NoSilentLoss, Genuine,
             OwnNumberIsPending, InboxIsOwn, [Next]_vars
      PROVE  OwnNumberIsPending' /\ InboxIsOwn'
  <2>1. CASE Next
    BY <1>2, <2>1, OwnNumberStep, InboxStep
  <2>2. CASE UNCHANGED vars
    BY <1>2, <2>2 DEF vars, bufferVars, radioVars, appVars, OwnNumberIsPending, InboxIsOwn
  <2> QED  BY <1>2, <2>1, <2>2
<1> QED  BY <1>1, <1>2, TypeCorrect, RetryStateIsCoherent, NoMessageIsLostSilently,
            EverythingIsGenuine, PTL DEF Spec

\* A DATA_RES that confirms a node's own message was sent for a message with
\* its number, which the node has transmitted.
LEMMA ConfirmsHeard ==
  ASSUME TypeOK, Traced, OwnNumberIsPending, InboxIsOwn, NEW n \in Nodes, Confirms(n),
         NEW m \in Messages, m = forwardBuf[n].msg
  PROVE  /\ number[m] # None
         /\ \E q \in Devices, k \in Messages :
              <<n, q, k>> \in heard /\ number[k] = number[m]
<1>1. /\ Received(n, "DATA_RES") /\ rxFrame[n].seq = pendingAckSeqNum[n]
      /\ forwardBuf[n] # None /\ Origin[m] = n /\ outcome[m] = "pending"
  BY DEF Confirms, HandleDATARES
<1>2. number[m] = rxFrame[n].seq
  BY <1>1 DEF OwnNumberIsPending, Traced, BuffersTraced, TracedPacket
<1>3. rxFrame[n] \in ResFrames /\ rxFrame[n] # None
  BY <1>1, ReceivedFrame DEF TypeOK, Received
<1>4. /\ rxFrame[n].type # "DATA" /\ rxFrame[n].from \in Devices
      /\ rxFrame[n].seq \in SeqNums /\ rxFrame[n].to = n
  BY <1>3 DEF ResFrames, InboxIsOwn
<1>5. TracedAck(rxFrame[n])
  BY <1>3, <1>4 DEF Traced, FramesTraced, TracedFrame
<1> QED  BY <1>2, <1>4, <1>5, DeviceAssumption DEF TracedAck

\* A confirmed message has a number, and some message with that number has been
\* heard from its origin.
HeardByNumber(m) ==
  /\ number[m] # None
  /\ \E q \in Devices, k \in Messages :
       <<Origin[m], q, k>> \in heard /\ number[k] = number[m]

ConfirmedIsHeard == \A m \in Messages : outcome[m] = "confirmed" => HeardByNumber(m)

\* Only the DATA_RES of LHR_UPDATE_TX_DATA_CONFIRMED makes a message confirmed.
LEMMA ConfirmedStep ==
  ASSUME TypeOK, RetryStateCoherent, Genuine, Traced, OwnNumberIsPending, InboxIsOwn,
         ConfirmedIsHeard, Next
  PROVE  ConfirmedIsHeard'
<1> SUFFICES ASSUME NEW m \in Messages, outcome'[m] = "confirmed"
             PROVE  HeardByNumber(m)'
  BY DEF ConfirmedIsHeard
<1>1. HeardByNumber(m)
  <2>1. CASE outcome[m] = "confirmed"
    BY <2>1 DEF ConfirmedIsHeard
  <2>2. CASE outcome[m] # "confirmed"
    <3>1. PICK n \in Nodes : Confirms(n)
      BY <2>2, OutcomeSteps DEF Accepts, Fails, LoseHeld, TypeOK, HistoryTypeOK
    <3>2. m = forwardBuf[n].msg /\ Origin[m] = n
      BY <2>2, <3>1 DEF Confirms, TypeOK, HistoryTypeOK
    <3> QED  BY <3>1, <3>2, ConfirmsHeard DEF HeardByNumber
  <2> QED  BY <2>1, <2>2
<1>2. PICK q \in Devices, k \in Messages :
        <<Origin[m], q, k>> \in heard /\ number[k] = number[m] /\ number[m] # None
  BY <1>1 DEF HeardByNumber
<1>3. number'[m] = number[m] /\ number'[k] = number[k]
  BY <1>2, NumbersStay DEF Traced
<1> QED  BY <1>2, <1>3, HeardGrows DEF HeardByNumber

\* An application is told "confirmed" only of a message a next hop has a packet
\* with the number of, from its origin: however late, lost or repeated the
\* DATA_RES, whatever else the node has relayed, whoever restarts.
THEOREM ConfirmedIsTrue == Spec => []ConfirmedToSourceIsHeard
<1>1. Init => ConfirmedIsHeard
  BY DEF Init, ConfirmedIsHeard
<1>2. ASSUME TypeOK, RetryStateCoherent, Genuine, Traced, OwnNumberIsPending, InboxIsOwn,
             ConfirmedIsHeard, [Next]_vars
      PROVE  ConfirmedIsHeard'
  <2>1. CASE Next
    BY <1>2, <2>1, ConfirmedStep
  <2>2. CASE UNCHANGED vars
    BY <1>2, <2>2 DEF vars, bufferVars, appVars, ConfirmedIsHeard, HeardByNumber
  <2> QED  BY <1>2, <2>1, <2>2
<1>3. ConfirmedIsHeard => ConfirmedToSourceIsHeard
  BY DEF ConfirmedIsHeard, HeardByNumber, ConfirmedToSourceIsHeard
<1> QED  BY <1>1, <1>2, <1>3, TypeCorrect, RetryStateIsCoherent, EverythingIsGenuine,
            EverythingIsTraced, OwnNumberInvariant, PTL DEF Spec

-----------------------------------------------------------------------------
(* The devices implement the mesh *)

\* What numbers get shows in the mesh as it is.
LEMMA MeshNumbering ==
  ASSUME TypeOK, RetryStateCoherent, Genuine, Fresh, Next
  PROVE  Mesh!Numbering
<1>1. CASE SameNumbers
  BY <1>1 DEF SameNumbers, Mesh!Numbering
<1>2. ASSUME NEW k \in Messages, NextNumber(k) PROVE Mesh!Numbering
  <2>1. currentSeqNum[Origin[k]] \in SeqNums
    BY DEF TypeOK, BufferTypeOK
  <2> QED  BY <1>2, <2>1 DEF NextNumber, Mesh!Numbering
<1> QED  BY <1>1, <1>2, NumberSteps

\* Handling a DATA passes its message on, in the terms of LHRMesh.
LEMMA HopPasses ==
  ASSUME TypeOK, Genuine, Traced, UNCHANGED outcome,
         NEW d \in Devices, Received(d, "DATA"), AckHop(d, rxFrame[d])
  PROVE  /\ rxFrame[d].from \in Nodes /\ rxFrame[d].pkt.msg \in Messages
         /\ Mesh!Pass(rxFrame[d].from, d, rxFrame[d].pkt.msg)
<1>1. PICK n \in Nodes, m \in Messages : /\ n = rxFrame[d].from /\ m = rxFrame[d].pkt.msg
                                         /\ number[m] \in SeqNums /\ Has(n, m)
  BY WaitingPacket DEF Traced, Packets
<1>2. number[m] # None
  BY <1>1, DeviceAssumption
<1>3. heard' = heard \cup {<<n, d, m>>}
  BY <1>1 DEF AckHop
<1> QED  BY <1>1, <1>2, <1>3 DEF Has, Mesh!Pass

\* Every step of the devices is a step of the mesh, or none.
LEMMA MeshStep ==
  ASSUME TypeOK, RetryStateCoherent, Genuine, Traced, RingRemembers,
         OwnNumberIsPending, InboxIsOwn, Next
  PROVE  Mesh!Next
<1>n. Mesh!Numbering
  BY MeshNumbering DEF Traced
<1>1. ASSUME UNCHANGED <<outcome, heard, since>> PROVE Mesh!Next
  BY <1>n, <1>1 DEF Mesh!Next
<1>2. CASE UNCHANGED outcome
  <2>1. CASE UNCHANGED <<heard, delivered, since>>
    BY <1>1, <1>2, <2>1
  <2>2. ASSUME NEW d \in Devices, HandleDuplicateDATA(d) \/ (d \in Nodes /\ HandleDATAAtNode(d)),
               UNCHANGED since
        PROVE  Mesh!Next
    <3>1. Received(d, "DATA") /\ AckHop(d, rxFrame[d])
      BY <2>2 DEF HandleDuplicateDATA, HandleDATAAtNode
    <3>2. PICK n \in Nodes, m \in Messages : Mesh!Pass(n, d, m)
      BY <1>2, <3>1, HopPasses
    <3>3. Mesh!Hop(n, d, m) /\ d \in Mesh!Devices
      BY <2>2, <3>2 DEF Mesh!Hop, Mesh!Devices
    <3> QED  BY <1>n, <3>3 DEF Mesh!Next
  <2>3. CASE HandleDATAAtHome
    <3>1. Received(Home, "DATA") /\ AckHop(Home, rxFrame[Home])
      BY <2>3 DEF HandleDATAAtHome
    <3>2. PICK n \in Nodes, m \in Messages : /\ m = rxFrame[Home].pkt.msg
                                             /\ Mesh!Pass(n, Home, m)
      BY <1>2, <3>1, HopPasses
    <3>3. since[m] = SeenCacheSize
      BY <2>3, <3>2, DeliveredIsForgotten
    <3>4. since' = [k \in Messages |->
             IF k = m THEN 0
             ELSE IF since[k] < SeenCacheSize THEN since[k] + 1 ELSE since[k]]
      BY <2>3, <3>2 DEF HandleDATAAtHome
    <3>5. Mesh!Deliver(n, m)
      BY <3>2, <3>3, <3>4 DEF Mesh!Deliver
    <3> QED  BY <1>n, <3>5 DEF Mesh!Next
  <2>4. CASE Reboot(Home)
    <3>1. Mesh!Forget
      BY <1>2, <2>4 DEF Reboot, Mesh!Forget
    <3> QED  BY <1>n, <3>1 DEF Mesh!Next
  <2> QED  BY <2>1, <2>2, <2>3, <2>4, HeardSteps
<1>3. CASE UNCHANGED <<heard, since>>
  <2>1. ASSUME NEW m \in Messages, Accepts(m) PROVE Mesh!Next
    <3>1. Mesh!Accept(m)
      BY <1>3, <2>1 DEF Accepts, Mesh!Accept
    <3> QED  BY <1>n, <3>1 DEF Mesh!Next
  <2>2. ASSUME NEW m \in Messages, Fails(m) PROVE Mesh!Next
    <3>1. Mesh!Fail(m)
      BY <1>3, <2>2 DEF Fails, Mesh!Fail
    <3> QED  BY <1>n, <3>1 DEF Mesh!Next
  <2>3. ASSUME NEW n \in Nodes, Confirms(n) PROVE Mesh!Next
    <3>1. PICK m \in Messages : m = forwardBuf[n].msg /\ Origin[m] = n
      BY <2>3 DEF Confirms, TypeOK, BufferTypeOK, Packets
    <3>2. HeardByNumber(m)
      BY <2>3, <3>1, ConfirmsHeard DEF HeardByNumber
    <3>3. Mesh!Confirm(m)
      BY <1>3, <2>3, <3>1, <3>2 DEF Confirms, HeardByNumber, Mesh!Confirm, Mesh!Devices
    <3> QED  BY <1>n, <3>3 DEF Mesh!Next
  <2>4. ASSUME NEW n \in Nodes, LoseHeld(n) PROVE Mesh!Next
    <3>1. Mesh!Lose(n)
      BY <1>3, <2>4 DEF LoseHeld, Mesh!Lose
    <3> QED  BY <1>n, <3>1 DEF Mesh!Next
  <2>5. CASE UNCHANGED outcome
    BY <1>1, <1>3, <2>5
  <2> QED  BY <2>1, <2>2, <2>3, <2>4, <2>5, OutcomeSteps
<1> QED  BY <1>2, <1>3, OutcomeSteps

\* The devices of LHRDelivery implement LHRMesh: for any number of sources,
\* messages, sequence numbers and places in the ring, any topology, any loss,
\* delay and order of frames, any timing of the retries, any power cycles and
\* calls of beginAsNode().
THEOREM MeshIsImplemented == Spec => ImplementsMesh
<1>1. Init => Mesh!Init
  BY DEF Init, Mesh!Init
<1>2. ASSUME TypeOK, RetryStateCoherent, Genuine, Traced, RingRemembers,
             OwnNumberIsPending, InboxIsOwn, [Next]_vars
      PROVE  [Mesh!Next]_(Mesh!vars)
  <2>1. CASE Next
    BY <1>2, <2>1, MeshStep
  <2>2. CASE UNCHANGED vars
    BY <2>2 DEF vars, bufferVars, appVars, Mesh!vars
  <2> QED  BY <1>2, <2>1, <2>2
<1> QED  BY <1>1, <1>2, TypeCorrect, RetryStateIsCoherent, EverythingIsGenuine,
            EverythingIsTraced, HomeRemembers, OwnNumberInvariant, PTL
         DEF Spec, ImplementsMesh, Mesh!Spec

-----------------------------------------------------------------------------
(* Where no node uses a number twice *)

\* No node gives a sequence number to two messages: it has too few messages
\* for the counter to wrap, and keeps the counter.
NoNumberIsReused ==
  /\ IsFiniteSet(Messages)
  /\ \A n \in Nodes : Cardinality({m \in Messages : Origin[m] = n}) <= SeqMod
  /\ MaxReboots = 0

NumberedOf(n) == {m \in Messages : Origin[m] = n /\ number[m] # None}

\* The counter of a node counts its numbered messages, which have different
\* numbers.
NumbersDiffer ==
  /\ \A n \in Nodes : currentSeqNum[n] = Cardinality(NumberedOf(n)) % SeqMod
  /\ \A m \in Messages :
       number[m] # None => number[m] < Cardinality(NumberedOf(Origin[m]))
  /\ \A m, k \in Messages :
       number[m] # None /\ Entry(m) = Entry(k) => m = k

\* A node that numbers a message has not used up its numbers.
LEMMA RoomForNumber ==
  ASSUME NoNumberIsReused, NEW n \in Nodes, NEW k \in Messages,
         Origin[k] = n, number[k] = None
  PROVE  /\ Cardinality(NumberedOf(n)) \in Nat
         /\ Cardinality(NumberedOf(n) \cup {k}) = Cardinality(NumberedOf(n)) + 1
         /\ Cardinality(NumberedOf(n)) < SeqMod
<1> DEFINE Own == {m \in Messages : Origin[m] = n}
<1>1. IsFiniteSet(Own) /\ Cardinality(Own) <= SeqMod
  BY FS_Subset DEF NoNumberIsReused
<1>2. NumberedOf(n) \cup {k} \in SUBSET Own /\ NumberedOf(n) \in SUBSET Own
  BY DEF NumberedOf
<1>3. k \notin NumberedOf(n)
  BY DEF NumberedOf
<1> HIDE DEF Own
<1>4. IsFiniteSet(NumberedOf(n)) /\ Cardinality(NumberedOf(n) \cup {k}) <= Cardinality(Own)
  BY <1>1, <1>2, FS_Subset
<1>5. Cardinality(NumberedOf(n) \cup {k}) = Cardinality(NumberedOf(n)) + 1
  BY <1>3, <1>4, FS_AddElement
<1>6. Cardinality(NumberedOf(n)) \in Nat /\ Cardinality(Own) \in Nat
  BY <1>1, <1>4, FS_CardinalityType
<1> QED  BY <1>1, <1>4, <1>5, <1>6

\* Every step that gives a number gives a new one.
LEMMA NumbersDifferStep ==
  ASSUME NoNumberIsReused, TypeOK, NumbersDiffer,
         SameNumbers \/ \E k \in Messages : NextNumber(k)
  PROVE  NumbersDiffer'
<1>1. CASE SameNumbers
  <2>1. UNCHANGED <<number, currentSeqNum>>
    BY <1>1 DEF SameNumbers, NoNumberIsReused
  <2>2. \A n \in Nodes : NumberedOf(n)' = NumberedOf(n)
    BY <2>1 DEF NumberedOf
  <2> QED  BY <2>1, <2>2 DEF NumbersDiffer, Entry
<1>2. ASSUME NEW k \in Messages, NextNumber(k)
      PROVE  NumbersDiffer'
  <2>1. PICK n \in Nodes : n = Origin[k]
    OBVIOUS
  <2> DEFINE c == Cardinality(NumberedOf(n))
  <2>2. /\ number[k] = None
        /\ number' = [number EXCEPT ![k] = currentSeqNum[n]]
        /\ currentSeqNum' = [currentSeqNum EXCEPT ![n] = (@ + 1) % SeqMod]
    BY <1>2, <2>1 DEF NextNumber
  <2>3. /\ number'[k] = currentSeqNum[n] /\ currentSeqNum[n] # None
        /\ \A m \in Messages : m # k => number'[m] = number[m]
    BY <2>1, <2>2 DEF TypeOK, BufferTypeOK
  <2>4. NumberedOf(n)' = NumberedOf(n) \cup {k}
    BY <2>1, <2>3 DEF NumberedOf
  <2>5. \A q \in Nodes : q # n => NumberedOf(q)' = NumberedOf(q)
    BY <2>1, <2>3 DEF NumberedOf
  <2>6. c \in Nat /\ c < SeqMod /\ Cardinality(NumberedOf(n)') = c + 1
    BY <2>1, <2>2, <2>4, RoomForNumber
  <2>7. currentSeqNum[n] = c
    BY <2>6 DEF NumbersDiffer
  <2>8. \A q \in Nodes : currentSeqNum'[q] = Cardinality(NumberedOf(q)') % SeqMod
    <3>1. currentSeqNum'[n] = (c + 1) % SeqMod
      BY <2>2, <2>7 DEF TypeOK, BufferTypeOK
    <3>2. \A q \in Nodes : q # n => currentSeqNum'[q] = currentSeqNum[q]
      BY <2>2 DEF TypeOK, BufferTypeOK
    <3> QED  BY <2>5, <2>6, <3>1, <3>2 DEF NumbersDiffer
  <2>9. \A m \in Messages : number[m] # None /\ Origin[m] = n => number[m] < c
    BY DEF NumbersDiffer
  <2> HIDE DEF c
  <2>10. ASSUME NEW m \in Messages, number'[m] # None
         PROVE  number'[m] < Cardinality(NumberedOf(Origin[m])')
    <3>1. CASE m = k
      BY <2>1, <2>3, <2>6, <2>7, <3>1
    <3>2. CASE m # k /\ Origin[m] = n
      <4>1. number[m] \in Nat /\ number'[m] = number[m] /\ number[m] < c
        BY <2>3, <2>9, <2>10, <3>2 DEF TypeOK, BufferTypeOK, SeqNums
      <4> QED  BY <2>6, <3>2, <4>1
    <3>3. CASE m # k /\ Origin[m] # n
      BY <2>3, <2>5, <2>10, <3>3 DEF NumbersDiffer
    <3> QED  BY <3>1, <3>2, <3>3
  <2>11. ASSUME NEW m \in Messages, Origin[m] = n, m # k, number'[m] # None
         PROVE  number'[m] # number'[k]
    <3>1. number[m] \in Nat /\ number'[m] = number[m] /\ number[m] < c
      BY <2>3, <2>9, <2>11 DEF TypeOK, BufferTypeOK, SeqNums
    <3> QED  BY <2>3, <2>6, <2>7, <3>1
  <2>12. ASSUME NEW m \in Messages, NEW l \in Messages, number'[m] # None,
                Origin[m] = Origin[l], number'[m] = number'[l]
         PROVE  m = l
    <3>1. CASE m = k \/ l = k
      BY <2>1, <2>11, <2>12, <3>1
    <3>2. CASE m # k /\ l # k
      BY <2>3, <2>12, <3>2 DEF NumbersDiffer, Entry
    <3> QED  BY <3>1, <3>2
  <2> QED  BY <2>8, <2>10, <2>12 DEF NumbersDiffer, Entry
<1> QED  BY <1>1, <1>2

\* Home records a packet in its ring exactly when it delivers it.
RingIsDelivered ==
  /\ \A m \in delivered : number[m] # None
  /\ \A i \in RingPlaces : seenPackets[Home][i] # None =>
       \E m \in delivered : seenPackets[Home][i] = Entry(m)

LEMMA RingIsDeliveredStep ==
  ASSUME MaxReboots = 0, TypeOK, RetryStateCoherent, Genuine, Traced,
         RingIsDelivered, Next
  PROVE  RingIsDelivered'
<1> DEFINE EntryThen(m) == [src |-> Origin[m], seq |-> number'[m]]
<1>t. SeenTypeOK /\ HistoryTypeOK
  BY DEF TypeOK
<1>n. \A m \in Messages : number[m] # None => number'[m] = number[m]
  BY NumbersStay DEF Traced
<1>d. \A m \in delivered : number'[m] # None /\ EntryThen(m) = Entry(m)
  BY <1>t, <1>n DEF RingIsDelivered, HistoryTypeOK, Entry
<1> SUFFICES /\ \A m \in delivered' : number'[m] # None
             /\ \A i \in RingPlaces : seenPackets'[Home][i] # None =>
                  \E m \in delivered' : seenPackets'[Home][i] = EntryThen(m)
  BY DEF RingIsDelivered, Entry
<1>1. CASE UNCHANGED delivered /\ seenPackets'[Home] = seenPackets[Home]
  BY <1>1, <1>d DEF RingIsDelivered
<1>2. CASE HandleDATAAtHome
  <2>1. PICK p \in Packets : /\ p = rxFrame[Home].pkt /\ number[p.msg] = p.seq
                             /\ p.seq \in SeqNums /\ p.src = Origin[p.msg]
                             /\ p.msg \in Messages
    BY <1>2, WaitingPacket DEF HandleDATAAtHome, Traced, Packets
  <2>2. number'[p.msg] = p.seq /\ p.seq # None
    BY <1>n, <2>1, DeviceAssumption
  <2>3. delivered' = delivered \cup {p.msg}
    BY <1>2, <2>1 DEF HandleDATAAtHome
  <2>4. \A i \in RingPlaces :
          seenPackets'[Home][i] = IF i = seenIndex[Home] THEN EntryThen(p.msg)
                                  ELSE seenPackets[Home][i]
    BY <1>t, <1>2, <2>1, <2>2
       DEF HandleDATAAtHome, RecordSeen, SeenTypeOK, RingPlaces
  <2>5. ASSUME NEW i \in RingPlaces, seenPackets'[Home][i] # None
        PROVE  \E m \in delivered' : seenPackets'[Home][i] = EntryThen(m)
    <3>1. CASE i = seenIndex[Home]
      BY <2>3, <2>4, <3>1
    <3>2. CASE i # seenIndex[Home]
      <4>1. PICK m \in delivered : seenPackets'[Home][i] = Entry(m)
        BY <2>4, <2>5, <3>2 DEF RingIsDelivered
      <4> QED  BY <1>d, <2>3, <4>1
    <3> QED  BY <3>1, <3>2
  <2> QED  BY <1>d, <2>2, <2>3, <2>5
<1>3. ASSUME Reboot(Home) PROVE FALSE
  BY <1>t, <1>3 DEF Reboot, HistoryTypeOK
<1> QED  BY <1>1, <1>2, <1>3, HomeRingSteps

\* What Home takes for a duplicate has been delivered.
LEMMA HeardByHomeStep ==
  ASSUME TypeOK, Genuine, Traced, NumbersDiffer, RingIsDelivered,
         AcknowledgedByHomeIsDelivered, Next
  PROVE  AcknowledgedByHomeIsDelivered'
<1> SUFFICES ASSUME NEW n \in Nodes, NEW m \in Messages, <<n, Home, m>> \in heard'
             PROVE  m \in delivered'
  BY DEF AcknowledgedByHomeIsDelivered
<1>1. CASE <<n, Home, m>> \in heard
  <2>1. delivered \subseteq delivered'
    BY HeardSteps DEF HandleDATAAtHome, Reboot
  <2> QED  BY <1>1, <2>1 DEF AcknowledgedByHomeIsDelivered
<1>2. CASE <<n, Home, m>> \notin heard
  <2>1. ASSUME NEW d \in Devices, AckHop(d, rxFrame[d])
        PROVE  d = Home /\ m = rxFrame[Home].pkt.msg
    BY <1>2, <2>1 DEF AckHop
  <2>2. ASSUME NEW d \in Devices, HandleDuplicateDATA(d), UNCHANGED delivered
        PROVE  m \in delivered'
    <3>1. d = Home /\ Received(Home, "DATA") /\ m = rxFrame[Home].pkt.msg
      BY <2>1, <2>2 DEF HandleDuplicateDATA
    <3>2. PICK p \in Packets : /\ p = rxFrame[Home].pkt /\ number[m] = p.seq
                               /\ p.seq \in SeqNums /\ p.src = Origin[m]
      BY <3>1, WaitingPacket DEF Traced, Packets
    <3>3. PICK i \in RingPlaces : seenPackets[Home][i] = Entry(m)
      BY <2>2, <3>1, <3>2 DEF HandleDuplicateDATA, IsDuplicateData, RingPlaces, Entry
    <3>4. seenPackets[Home][i] # None
      <4>1. Entry(m) \in SeenEntries
        BY <3>2 DEF Entry, SeenEntries
      <4> QED  BY <3>3, <4>1, DeviceAssumption
    <3>5. PICK k \in delivered : Entry(k) = Entry(m) /\ number[k] # None
      BY <3>3, <3>4 DEF RingIsDelivered
    <3>6. k = m
      BY <3>5 DEF NumbersDiffer, TypeOK, HistoryTypeOK
    <3> QED  BY <2>2, <3>5, <3>6
  <2>3. ASSUME NEW d \in Nodes, HandleDATAAtNode(d) PROVE FALSE
    BY <2>1, <2>3 DEF HandleDATAAtNode
  <2>4. CASE HandleDATAAtHome
    BY <2>1, <2>4 DEF HandleDATAAtHome
  <2>5. CASE heard' = heard
    BY <1>2, <2>5
  <2>6. Reboot(Home) => heard' = heard
    BY DEF Reboot
  <2> QED  BY <2>2, <2>3, <2>4, <2>5, <2>6, HeardSteps
<1> QED  BY <1>1, <1>2

\* What Home acknowledges, its application has been given: as long as no node
\* reuses a number, Home takes no new message for a duplicate.
THEOREM HomeKeepsItsWord ==
  ASSUME NoNumberIsReused
  PROVE  Spec => []AcknowledgedByHomeIsDelivered
<1> DEFINE Inv == NumbersDiffer /\ RingIsDelivered /\ AcknowledgedByHomeIsDelivered
<1>1. Init => Inv
  <2> SUFFICES ASSUME Init PROVE Inv
    OBVIOUS
  <2>0. Cardinality({}) = 0
    BY FS_EmptySet
  <2>1. \A n \in Nodes : NumberedOf(n) = {}
    BY DEF Init, NumberedOf
  <2>2. \A n \in Nodes : currentSeqNum[n] = 0 % SeqMod
    <3>1. 0 % SeqMod = 0
      OBVIOUS
    <3> QED  BY <3>1 DEF Init
  <2>3. NumbersDiffer
    BY <2>0, <2>1, <2>2 DEF Init, NumbersDiffer
  <2>4. RingIsDelivered /\ AcknowledgedByHomeIsDelivered
    BY DEF Init, EmptyRing, RingPlaces, RingIsDelivered, AcknowledgedByHomeIsDelivered
  <2> QED  BY <2>3, <2>4
<1>2. ASSUME TypeOK, RetryStateCoherent, Genuine, Traced, Inv, [Next]_vars
      PROVE  Inv'
  <2>1. CASE Next
    <3>1. NumbersDiffer'
      BY <1>2, <2>1, NumberSteps, NumbersDifferStep DEF Traced
    <3>2. RingIsDelivered'
      BY <1>2, <2>1, RingIsDeliveredStep DEF NoNumberIsReused
    <3>3. AcknowledgedByHomeIsDelivered'
      BY <1>2, <2>1, HeardByHomeStep
    <3> QED  BY <3>1, <3>2, <3>3
  <2>2. CASE UNCHANGED vars
    <3>1. UNCHANGED <<number, currentSeqNum, seenPackets, delivered, heard>>
      BY <2>2 DEF vars, bufferVars, seenVars, appVars
    <3>2. \A n \in Nodes : NumberedOf(n)' = NumberedOf(n)
      BY <3>1 DEF NumberedOf
    <3>3. NumbersDiffer'
      BY <1>2, <3>1, <3>2 DEF NumbersDiffer, Entry
    <3>4. RingIsDelivered' /\ AcknowledgedByHomeIsDelivered'
      BY <1>2, <3>1 DEF RingIsDelivered, AcknowledgedByHomeIsDelivered, Entry
    <3> QED  BY <3>3, <3>4
  <2> QED  BY <1>2, <2>1, <2>2
<1> QED  BY <1>1, <1>2, TypeCorrect, RetryStateIsCoherent, EverythingIsGenuine,
            EverythingIsTraced, PTL DEF Spec
=============================================================================
