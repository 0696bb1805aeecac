------------------------- MODULE LHRDeliveryProofs -------------------------
(***************************************************************************)
(* Invariants of LHRDelivery for every set of devices and messages, every  *)
(* topology and every value of the parameters.  Each part of the inductive *)
(* invariant has a lemma of its own: the part is kept by every step of     *)
(* Next, by cases on the actions.                                          *)
(***************************************************************************)
EXTENDS LHRDelivery, TLAPS

USE DeviceAssumption, ParameterAssumption
    DEF Devices, AcceptsData, ConfirmsPending, NextRetryCount, ResendDue,
        EscalationDue

-----------------------------------------------------------------------------
(* Type correctness *)

\* Init is well typed.
LEMMA InitTypeOK == Init => TypeOK
BY DEF Init, TypeOK, RetryTypeOK, BufferTypeOK, SeenTypeOK, RouteTypeOK,
       RadioTypeOK, HistoryTypeOK, EmptyRing, SeqNums, Routes

\* A received frame has the fields of its type.
LEMMA ReceivedFrame ==
  ASSUME RadioTypeOK, NEW d \in Devices
  PROVE  /\ Received(d, "DATA") => rxFrame[d] \in DataFrames
         /\ Received(d, "DATA_RES") => rxFrame[d] \in ResFrames
BY DEF RadioTypeOK, Received, Frames, DataFrames, ResFrames

\* A node with a best neighbour has a next hop.
LEMMA NextHopIsDevice ==
  ASSUME RouteTypeOK, NEW n \in Nodes, Best(n) # NoId
  PROVE  NextHop(n) \in Devices
BY DEF RouteTypeOK, Routes, NextHop, Best, Second

\* The retry flags keep to their types.
LEMMA RetryStep == TypeOK /\ Next => RetryTypeOK'
<1> SUFFICES ASSUME TypeOK, Next PROVE RetryTypeOK'
  OBVIOUS
<1> USE DEF TypeOK, RetryTypeOK, retryVars
<1>1. ASSUME NEW d \in Devices, TransmissionEnds(d) \/ Update(d) PROVE RetryTypeOK'
  BY <1>1 DEF TransmissionEnds, Update, UpdateTxComplete, UpdateTxWatchdog,
              DropDataWhileWaiting, HandleDuplicateDATA, IgnoreDATARES, Advertise
<1>2. CASE HandleDATAAtHome
  BY <1>2 DEF HandleDATAAtHome
<1>3. ASSUME NEW n \in Nodes, UpdateNode(n) PROVE RetryTypeOK'
  <2>1. CASE InitialSend(n)       BY <2>1 DEF InitialSend
  <2>2. CASE GiveUp(n)            BY <2>2 DEF GiveUp, ResetDataResState
  <2>3. CASE Resend(n)            BY <2>3 DEF Resend
  <2>4. CASE Escalate(n)          BY <2>4 DEF Escalate
  <2>5. CASE RfcnWaitElapsed(n)   BY <2>5 DEF RfcnWaitElapsed
  <2>6. CASE HandleDATAAtNode(n)  BY <2>6 DEF HandleDATAAtNode
  <2>7. CASE HandleDATARES(n)     BY <2>7 DEF HandleDATARES, ResetDataResState
  <2>8. CASE HandleNDAT(n)        BY <2>8 DEF HandleNDAT
  <2> QED  BY <1>3, <2>1, <2>2, <2>3, <2>4, <2>5, <2>6, <2>7, <2>8
           DEF UpdateNode, ConfirmDataRes
<1>4. ASSUME NEW n \in Nodes, NEW m \in Messages,
             SendData(n, m) \/ SendDataToSlot(n, m)
      PROVE  RetryTypeOK'
  BY <1>4 DEF SendData, SendDataToSlot
<1>5. ASSUME NEW n \in Devices, Reboot(n) \/ Rebegin(n) PROVE RetryTypeOK'
  <2>1. CASE Reboot(n)   BY <2>1 DEF Reboot
  <2>2. CASE Rebegin(n)  BY <2>2 DEF Rebegin
  <2> QED  BY <1>5, <2>1, <2>2
<1> QED  BY <1>1, <1>2, <1>3, <1>4, <1>5 DEF Next

\* A node's own packet is well typed, and so is the state that holds it.
LEMMA StoreOwnPacketType ==
  ASSUME BufferTypeOK, NEW n \in Nodes, NEW m \in Messages, StoreOwnPacket(n, m)
  PROVE  /\ forwardBuf' \in [Devices -> Packets \cup {None}]
         /\ lastPacketSenderId' \in [Devices -> Nodes \cup {NoId}]
         /\ pendingAckSeqNum' \in [Devices -> SeqNums]
         /\ currentSeqNum' \in [Devices -> SeqNums]
         /\ number' \in [Messages -> SeqNums \cup {None}]
<1>1. currentSeqNum[n] \in SeqNums /\ NewPacket(n, m) \in Packets
  BY DEF BufferTypeOK, NewPacket, Packets
<1>2. \A k \in SeqNums : (k + 1) % SeqMod \in SeqNums
  BY DEF SeqNums
<1>3. /\ forwardBuf' = [forwardBuf EXCEPT ![n] = NewPacket(n, m)]
      /\ lastPacketSenderId' = [lastPacketSenderId EXCEPT ![n] = NoId]
      /\ pendingAckSeqNum' = [pendingAckSeqNum EXCEPT ![n] = currentSeqNum[n]]
      /\ currentSeqNum' =
           [currentSeqNum EXCEPT ![n] = (currentSeqNum[n] + 1) % SeqMod]
      /\ number' = [number EXCEPT ![m] = currentSeqNum[n]]
  BY DEF StoreOwnPacket
<1> QED  BY <1>1, <1>2, <1>3 DEF BufferTypeOK

\* The end of a retry cycle keeps the buffers well typed.
LEMMA ResetDataResStateType ==
  ASSUME BufferTypeOK, NEW n \in Nodes, ResetDataResState(n)
  PROVE  BufferTypeOK'
<1>1. ownData' \in [Devices -> Messages \cup {None}]
  BY DEF BufferTypeOK, ResetDataResState
<1>2. CASE ownData[n] # None
  <2>1. ownData[n] \in Messages /\ StoreOwnPacket(n, ownData[n])
    BY <1>2 DEF BufferTypeOK, ResetDataResState
  <2> QED  BY <1>1, <2>1, StoreOwnPacketType DEF BufferTypeOK
<1>3. CASE ownData[n] = None
  BY <1>1, <1>3 DEF BufferTypeOK, ResetDataResState
<1> QED  BY <1>2, <1>3

\* The packet a relay queues is well typed.
LEMMA RelayedType ==
  ASSUME NEW p \in Packets, p.ttl > 0
  PROVE  Relayed(p) \in Packets
BY DEF Packets, Relayed

\* Forwarding keeps the pending sequence number well typed.
LEMMA ForwardDataPacketType ==
  ASSUME BufferTypeOK, NEW n \in Nodes, ForwardDataPacket(n)
  PROVE  pendingAckSeqNum' \in [Devices -> SeqNums]
BY DEF BufferTypeOK, ForwardDataPacket, Packets

\* The packet buffers, the slot and the sequence numbers keep to their types.
LEMMA BufferStep == TypeOK /\ Next => BufferTypeOK'
<1> SUFFICES ASSUME TypeOK, Next PROVE BufferTypeOK'
  OBVIOUS
<1>b. BufferTypeOK /\ RadioTypeOK
  BY DEF TypeOK
<1>f. \A d \in Devices : Received(d, "DATA") =>
         rxFrame[d].from \in Nodes /\ rxFrame[d].pkt \in Packets
  BY <1>b, ReceivedFrame DEF DataFrames
<1> USE DEF bufferVars
<1>1. ASSUME NEW d \in Devices, TransmissionEnds(d) \/ Update(d) PROVE BufferTypeOK'
  BY <1>1, <1>b, <1>f
     DEF TransmissionEnds, Update, UpdateTxComplete, UpdateTxWatchdog, AckHop,
         DropDataWhileWaiting, HandleDuplicateDATA, IgnoreDATARES, Advertise,
         BufferTypeOK
<1>2. CASE HandleDATAAtHome
  BY <1>2, <1>b, <1>f DEF HandleDATAAtHome, AckHop, BufferTypeOK
<1>3. ASSUME NEW n \in Nodes, UpdateNode(n) PROVE BufferTypeOK'
  <2>1. CASE InitialSend(n)
    BY <2>1, <1>b, ForwardDataPacketType DEF InitialSend, BufferTypeOK
  <2>2. CASE GiveUp(n)
    BY <2>2, <1>b, ResetDataResStateType DEF GiveUp
  <2>3. CASE Resend(n)
    BY <2>3, <1>b, ForwardDataPacketType DEF Resend, BufferTypeOK
  <2>4. CASE Escalate(n) \/ RfcnWaitElapsed(n) \/ HandleNDAT(n)
    BY <2>4, <1>b DEF Escalate, RfcnWaitElapsed, HandleNDAT, BufferTypeOK
  <2>5. CASE HandleDATAAtNode(n)
    BY <2>5, <1>b, <1>f, RelayedType DEF HandleDATAAtNode, AckHop, BufferTypeOK
  <2>6. CASE HandleDATARES(n)
    BY <2>6, <1>b, ResetDataResStateType DEF HandleDATARES
  <2> QED  BY <1>3, <2>1, <2>2, <2>3, <2>4, <2>5, <2>6
           DEF UpdateNode, ConfirmDataRes
<1>4. ASSUME NEW n \in Nodes, NEW m \in Messages,
             SendData(n, m) \/ SendDataToSlot(n, m)
      PROVE  BufferTypeOK'
  BY <1>4, <1>b, StoreOwnPacketType DEF SendData, SendDataToSlot, BufferTypeOK
<1>5. ASSUME NEW n \in Devices, Reboot(n) \/ Rebegin(n) PROVE BufferTypeOK'
  <2>0. 0 \in SeqNums /\ \A k \in SeqNums : (k + 1) % SeqMod \in SeqNums
    BY ParameterAssumption DEF SeqNums
  <2>1. CASE Reboot(n)
    <3>1. number' = number
      BY <2>1 DEF Reboot
    <3> QED  BY <2>0, <2>1, <3>1, <1>b DEF Reboot, BufferTypeOK
  <2>2. CASE Rebegin(n)
    <3>1. /\ forwardBuf' = [forwardBuf EXCEPT ![n] = None]
          /\ lastPacketSenderId' = [lastPacketSenderId EXCEPT ![n] = NoId]
          /\ ownData' = [ownData EXCEPT ![n] = None]
      BY <2>2 DEF Rebegin
    <3>2. pendingAckSeqNum' \in [Devices -> SeqNums]
      BY <2>2, <1>b DEF Rebegin, BufferTypeOK
    <3>3. currentSeqNum' \in [Devices -> SeqNums]
      BY <2>0, <2>2, <1>b DEF Rebegin, BufferTypeOK
    <3>4. number' \in [Messages -> SeqNums \cup {None}]
      BY <2>2, <1>b DEF Rebegin, BufferTypeOK
    <3> QED  BY <3>1, <3>2, <3>3, <3>4, <1>b DEF BufferTypeOK
  <2> QED  BY <1>5, <2>1, <2>2
<1> QED  BY <1>1, <1>2, <1>3, <1>4, <1>5 DEF Next

\* The duplicate cache keeps to its type.
LEMMA SeenStep == TypeOK /\ Next => SeenTypeOK'
<1> SUFFICES ASSUME TypeOK, Next PROVE SeenTypeOK'
  OBVIOUS
<1>b. SeenTypeOK /\ RadioTypeOK
  BY DEF TypeOK
<1>r. ASSUME NEW d \in Devices, NEW p \in Packets, RecordSeen(d, p)
      PROVE  SeenTypeOK'
  <2>1. [src |-> p.src, seq |-> p.seq] \in SeenEntries
    BY DEF Packets, SeenEntries
  <2>2. seenIndex' \in [Devices -> 0 .. SeenCacheSize - 1]
    BY <1>b, <1>r DEF SeenTypeOK, RecordSeen
  <2>3. seenPackets' \in [Devices -> [0 .. SeenCacheSize - 1 -> SeenEntries \cup {None}]]
    BY <1>b, <1>r, <2>1 DEF SeenTypeOK, RecordSeen
  <2> QED  BY <2>2, <2>3 DEF SeenTypeOK
<1>f. \A d \in Devices : Received(d, "DATA") => rxFrame[d].pkt \in Packets
  BY <1>b, ReceivedFrame DEF DataFrames
<1> USE DEF seenVars
<1>1. ASSUME NEW d \in Devices, TransmissionEnds(d) \/ Update(d) PROVE SeenTypeOK'
  BY <1>1, <1>b
     DEF TransmissionEnds, Update, UpdateTxComplete, UpdateTxWatchdog, SeenTypeOK,
         DropDataWhileWaiting, HandleDuplicateDATA, IgnoreDATARES, Advertise
<1>2. CASE HandleDATAAtHome
  BY <1>2, <1>r, <1>f DEF HandleDATAAtHome
<1>3. ASSUME NEW n \in Nodes, UpdateNode(n) PROVE SeenTypeOK'
  <2>1. CASE HandleDATAAtNode(n)
    BY <2>1, <1>r, <1>f DEF HandleDATAAtNode
  <2>2. CASE ConfirmDataRes(n) \/ HandleDATARES(n) \/ HandleNDAT(n)
    BY <2>2, <1>b DEF ConfirmDataRes, InitialSend, GiveUp, Resend, Escalate,
                      RfcnWaitElapsed, HandleDATARES, HandleNDAT, SeenTypeOK
  <2> QED  BY <1>3, <2>1, <2>2 DEF UpdateNode
<1>4. ASSUME NEW n \in Nodes, NEW m \in Messages,
             SendData(n, m) \/ SendDataToSlot(n, m)
      PROVE  SeenTypeOK'
  BY <1>4, <1>b DEF SendData, SendDataToSlot, SeenTypeOK
<1>5. ASSUME NEW n \in Devices, Reboot(n) \/ Rebegin(n) PROVE SeenTypeOK'
  <2>1. EmptyRing \in [0 .. SeenCacheSize - 1 -> SeenEntries \cup {None}]
    BY DEF EmptyRing
  <2>2. CASE Reboot(n)   BY <1>b, <2>1, <2>2 DEF Reboot, SeenTypeOK
  <2>3. CASE Rebegin(n)  BY <1>b, <2>3 DEF Rebegin, SeenTypeOK
  <2> QED  BY <1>5, <2>2, <2>3
<1> QED  BY <1>1, <1>2, <1>3, <1>4, <1>5 DEF Next

\* The routing results are none, or two radio neighbours.
LEMMA RouteStep == TypeOK /\ Next => RouteTypeOK'
<1> SUFFICES ASSUME TypeOK, Next PROVE RouteTypeOK'
  OBVIOUS
<1>b. RouteTypeOK
  BY DEF TypeOK
<1>r. ASSUME NEW n \in Nodes, NEW r \in Routes(n), route' = [route EXCEPT ![n] = r]
      PROVE  RouteTypeOK'
  BY <1>b, <1>r DEF RouteTypeOK
<1>n. \A n \in Nodes : <<NoId, NoId>> \in Routes(n) /\ Links[n] \X Links[n] \subseteq Routes(n)
  BY DEF Routes
<1>u. ASSUME UNCHANGED route PROVE RouteTypeOK'
  BY <1>b, <1>u DEF RouteTypeOK
<1>1. ASSUME NEW d \in Devices, TransmissionEnds(d) \/ Update(d) PROVE RouteTypeOK'
  BY <1>1, <1>r, <1>u
     DEF TransmissionEnds, Update, UpdateTxComplete, UpdateTxWatchdog,
         DropDataWhileWaiting, HandleDuplicateDATA, IgnoreDATARES, Advertise
<1>2. CASE HandleDATAAtHome
  BY <1>2, <1>u DEF HandleDATAAtHome
<1>3. ASSUME NEW n \in Nodes, UpdateNode(n) PROVE RouteTypeOK'
  <2>1. CASE Escalate(n) \/ HandleNDAT(n)
    <3>1. \E r \in Routes(n) : route' = [route EXCEPT ![n] = r]
      BY <2>1, <1>n DEF Escalate, HandleNDAT
    <3> QED  BY <3>1, <1>r
  <2>2. CASE ~ (Escalate(n) \/ HandleNDAT(n))
    BY <1>3, <2>2, <1>u
       DEF UpdateNode, ConfirmDataRes, InitialSend, GiveUp, Resend,
           RfcnWaitElapsed, HandleDATAAtNode, HandleDATARES, radioVars
  <2> QED  BY <2>1, <2>2
<1>4. ASSUME NEW n \in Nodes, NEW m \in Messages,
             SendData(n, m) \/ SendDataToSlot(n, m)
      PROVE  RouteTypeOK'
  BY <1>4, <1>u DEF SendData, SendDataToSlot
<1>5. ASSUME NEW n \in Devices, Reboot(n) \/ Rebegin(n) PROVE RouteTypeOK'
  BY <1>5, <1>b DEF Reboot, Rebegin, ForgetRoutes, RouteTypeOK, Routes
<1> QED  BY <1>1, <1>2, <1>3, <1>4, <1>5 DEF Next

\* Putting a frame on the air keeps the radio well typed.
LEMMA TransmitType ==
  ASSUME RadioTypeOK, NEW d \in Devices, NEW f \in Frames, Transmit(d, f)
  PROVE  /\ txInProgress' \in [Devices -> BOOLEAN]
         /\ air' \in [Devices -> Frames \cup {None}]
<1>1. txInProgress' \in [Devices -> BOOLEAN]
  BY DEF RadioTypeOK, Transmit
<1>2. air' \in [Devices -> Frames \cup {None}]
  BY DEF RadioTypeOK, Transmit
<1> QED  BY <1>1, <1>2

\* Forwarding a packet does, too.
LEMMA ForwardDataPacketRadio ==
  ASSUME TypeOK, NEW n \in Nodes, ForwardDataPacket(n), UNCHANGED rxFrame
  PROVE  RadioTypeOK'
<1>1. CASE forwardBuf[n] = None \/ Best(n) = NoId
  BY <1>1 DEF ForwardDataPacket, TypeOK, RadioTypeOK
<1>2. CASE ~ (forwardBuf[n] = None \/ Best(n) = NoId)
  <2>1. NextHop(n) \in Devices /\ forwardBuf[n] \in Packets
    BY <1>2, NextHopIsDevice DEF TypeOK, BufferTypeOK
  <2>2. [type |-> "DATA", from |-> n, to |-> NextHop(n), pkt |-> forwardBuf[n]] \in Frames
    BY <2>1 DEF Frames, DataFrames
  <2> QED  BY <1>2, <2>2, TransmitType DEF ForwardDataPacket, TypeOK, RadioTypeOK
<1> QED  BY <1>1, <1>2

\* And so does acknowledging a hop.
LEMMA AckHopRadio ==
  ASSUME RadioTypeOK, NEW d \in Devices, NEW f \in DataFrames, AckHop(d, f)
  PROVE  RadioTypeOK'
<1>1. [type |-> "DATA_RES", from |-> d, to |-> f.from, seq |-> f.pkt.seq] \in Frames
  BY DEF Frames, ResFrames, DataFrames, Packets
<1> QED  BY <1>1, TransmitType DEF AckHop, RadioTypeOK

\* The radio state keeps to its types.
LEMMA RadioStep == TypeOK /\ Next => RadioTypeOK'
<1> SUFFICES ASSUME TypeOK, Next PROVE RadioTypeOK'
  OBVIOUS
<1>b. RadioTypeOK
  BY DEF TypeOK
<1> USE DEF radioVars
<1>1. ASSUME NEW d \in Devices, TransmissionEnds(d) \/ Update(d) PROVE RadioTypeOK'
  <2>1. CASE TransmissionEnds(d)
    BY <2>1, <1>b DEF TransmissionEnds, RadioTypeOK
  <2>2. CASE HandleDuplicateDATA(d)
    BY <2>2, <1>b, ReceivedFrame, AckHopRadio DEF HandleDuplicateDATA
  <2>3. CASE UpdateTxComplete(d) \/ UpdateTxWatchdog(d) \/ DropDataWhileWaiting(d)
               \/ IgnoreDATARES(d) \/ Advertise(d)
    BY <2>3, <1>b DEF UpdateTxComplete, UpdateTxWatchdog, DropDataWhileWaiting,
                      IgnoreDATARES, Advertise, TransmitControl, Transmit, RadioTypeOK
  <2> QED  BY <1>1, <2>1, <2>2, <2>3 DEF Update
<1>2. CASE HandleDATAAtHome
  BY <1>2, <1>b, ReceivedFrame, AckHopRadio DEF HandleDATAAtHome
<1>3. ASSUME NEW n \in Nodes, UpdateNode(n) PROVE RadioTypeOK'
  <2>1. CASE InitialSend(n) \/ Resend(n)
    BY <2>1, ForwardDataPacketRadio DEF InitialSend, Resend
  <2>2. CASE HandleDATAAtNode(n)
    BY <2>2, <1>b, ReceivedFrame, AckHopRadio DEF HandleDATAAtNode
  <2>3. CASE GiveUp(n) \/ Escalate(n) \/ RfcnWaitElapsed(n) \/ HandleDATARES(n)
               \/ HandleNDAT(n)
    BY <2>3, <1>b DEF GiveUp, Escalate, RfcnWaitElapsed, HandleDATARES, HandleNDAT,
                      TransmitControl, Transmit, RadioTypeOK
  <2> QED  BY <1>3, <2>1, <2>2, <2>3 DEF UpdateNode, ConfirmDataRes
<1>4. ASSUME NEW n \in Nodes, NEW m \in Messages,
             SendData(n, m) \/ SendDataToSlot(n, m)
      PROVE  RadioTypeOK'
  BY <1>4, <1>b DEF SendData, SendDataToSlot, RadioTypeOK
<1>5. ASSUME NEW n \in Devices, Reboot(n) \/ Rebegin(n) PROVE RadioTypeOK'
  BY <1>5, <1>b DEF Reboot, Rebegin, ForgetFrames, RadioTypeOK
<1> QED  BY <1>1, <1>2, <1>3, <1>4, <1>5 DEF Next

\* What a restart does to the outcomes keeps their type.
LEMMA LoseHeldType ==
  ASSUME HistoryTypeOK, NEW n \in Devices, LoseHeld(n)
  PROVE  outcome' \in [Messages -> {"unsent", "pending", "confirmed", "failed", "lost"}]
BY DEF HistoryTypeOK, LoseHeld

\* The end of a retry cycle settles a message at most once.
LEMMA SettleType ==
  ASSUME HistoryTypeOK, NEW n \in Nodes, NEW m \in Messages,
         NEW result \in {"failed", "confirmed"}, Settle(n, m, result)
  PROVE  outcome' \in [Messages -> {"unsent", "pending", "confirmed", "failed", "lost"}]
BY DEF HistoryTypeOK, Settle

\* The histories and the bounds keep to their types.
LEMMA HistoryStep == TypeOK /\ Next => HistoryTypeOK'
<1> SUFFICES ASSUME TypeOK, Next PROVE HistoryTypeOK'
  OBVIOUS
<1>b. HistoryTypeOK /\ RadioTypeOK
  BY DEF TypeOK
<1>f. \A d \in Devices : Received(d, "DATA") =>
         rxFrame[d].from \in Nodes /\ rxFrame[d].pkt.msg \in Messages
  BY <1>b, ReceivedFrame DEF DataFrames, Packets
<1>p. \A d \in Devices : forwardBuf[d] # None => forwardBuf[d].msg \in Messages
  BY DEF TypeOK, BufferTypeOK, Packets
<1> USE DEF appVars, boundVars
<1>1. ASSUME NEW d \in Devices, TransmissionEnds(d) \/ Update(d) PROVE HistoryTypeOK'
  <2>1. CASE HandleDuplicateDATA(d)
    BY <2>1, <1>b, <1>f DEF HandleDuplicateDATA, AckHop, HistoryTypeOK
  <2>2. CASE ~ HandleDuplicateDATA(d)
    BY <1>1, <2>2, <1>b
       DEF TransmissionEnds, Update, UpdateTxComplete, UpdateTxWatchdog,
           DropDataWhileWaiting, IgnoreDATARES, Advertise, HistoryTypeOK
  <2> QED  BY <2>1, <2>2
<1>2. CASE HandleDATAAtHome
  <2>1. \A k \in 0 .. SeenCacheSize : /\ 0 \in 0 .. SeenCacheSize
                                      /\ k < SeenCacheSize => k + 1 \in 0 .. SeenCacheSize
    BY ParameterAssumption
  <2>2. since' \in [Messages -> 0 .. SeenCacheSize]
    BY <1>2, <1>b, <2>1 DEF HandleDATAAtHome, HistoryTypeOK
  <2>3. delivered' \in SUBSET Messages
    BY <1>2, <1>b, <1>f DEF HandleDATAAtHome, HistoryTypeOK
  <2> QED  BY <1>2, <1>b, <1>f, <2>2, <2>3 DEF HandleDATAAtHome, AckHop, HistoryTypeOK
<1>3. ASSUME NEW n \in Nodes, UpdateNode(n) PROVE HistoryTypeOK'
  <2>1. CASE InitialSend(n) \/ Resend(n)
    BY <2>1, <1>b, <1>p DEF InitialSend, Resend, ForwardDataPacket, HistoryTypeOK
  <2>2. CASE GiveUp(n)
    BY <2>2, <1>b, <1>p, SettleType DEF GiveUp, HistoryTypeOK
  <2>3. CASE HandleDATAAtNode(n)
    BY <2>3, <1>b, <1>f DEF HandleDATAAtNode, AckHop, HistoryTypeOK
  <2>4. CASE HandleDATARES(n)
    BY <2>4, <1>b, <1>p, SettleType DEF HandleDATARES, HistoryTypeOK
  <2>5. CASE Escalate(n) \/ RfcnWaitElapsed(n) \/ HandleNDAT(n)
    BY <2>5, <1>b DEF Escalate, RfcnWaitElapsed, HandleNDAT, HistoryTypeOK
  <2> QED  BY <1>3, <2>1, <2>2, <2>3, <2>4, <2>5 DEF UpdateNode, ConfirmDataRes
<1>4. ASSUME NEW n \in Nodes, NEW m \in Messages,
             SendData(n, m) \/ SendDataToSlot(n, m)
      PROVE  HistoryTypeOK'
  BY <1>4, <1>b DEF SendData, SendDataToSlot, HistoryTypeOK
<1>5. ASSUME NEW n \in Devices, Reboot(n) \/ Rebegin(n) PROVE HistoryTypeOK'
  <2>1. CASE Reboot(n)
    <3>1. SeenCacheSize \in 0 .. SeenCacheSize
      BY ParameterAssumption
    <3>2. since' \in [Messages -> 0 .. SeenCacheSize]
      BY <2>1, <1>b, <3>1 DEF Reboot, HistoryTypeOK
    <3> QED  BY <2>1, <1>b, <3>2, LoseHeldType DEF Reboot, HistoryTypeOK
  <2>2. CASE Rebegin(n)  BY <2>2, <1>b, LoseHeldType DEF Rebegin, HistoryTypeOK
  <2> QED  BY <1>5, <2>1, <2>2
<1> QED  BY <1>1, <1>2, <1>3, <1>4, <1>5 DEF Next

\* Every variable keeps to its type in every behaviour.
THEOREM TypeCorrect == Spec => []TypeOK
<1>1. ASSUME TypeOK, [Next]_vars PROVE TypeOK'
  <2>1. CASE Next
    BY <1>1, <2>1, RetryStep, BufferStep, SeenStep, RouteStep, RadioStep,
       HistoryStep DEF TypeOK
  <2>2. CASE UNCHANGED vars
    BY <1>1, <2>2 DEF vars, retryVars, bufferVars, seenVars, radioVars, appVars,
       boundVars, TypeOK, RetryTypeOK, BufferTypeOK, SeenTypeOK, RouteTypeOK,
       RadioTypeOK, HistoryTypeOK
  <2> QED  BY <1>1, <2>1, <2>2
<1> QED  BY <1>1, InitTypeOK, PTL DEF Spec

-----------------------------------------------------------------------------
(* The retry flags *)

\* Ending a cycle leaves nothing of it behind.
LEMMA ResetIsCoherent ==
  ASSUME TypeOK, RetryStateCoherent, NEW n \in Nodes, ResetDataResState(n)
  PROVE  RetryStateCoherent'
BY DEF TypeOK, RetryTypeOK, BufferTypeOK, RetryStateCoherent, ResetDataResState

\* Every step keeps the retry flags coherent.
LEMMA CoherentStep == TypeOK /\ RetryStateCoherent /\ Next => RetryStateCoherent'
<1> SUFFICES ASSUME TypeOK, RetryStateCoherent, Next PROVE RetryStateCoherent'
  OBVIOUS
<1>t. RetryTypeOK /\ BufferTypeOK
  BY DEF TypeOK
<1> USE DEF retryVars, bufferVars
<1>1. ASSUME NEW d \in Devices, TransmissionEnds(d) \/ Update(d)
      PROVE  RetryStateCoherent'
  BY <1>1
     DEF TransmissionEnds, Update, UpdateTxComplete, UpdateTxWatchdog,
         DropDataWhileWaiting, HandleDuplicateDATA, IgnoreDATARES, Advertise,
         RetryStateCoherent
<1>2. CASE HandleDATAAtHome
  BY <1>2 DEF HandleDATAAtHome, RetryStateCoherent
<1>3. ASSUME NEW n \in Nodes, UpdateNode(n) PROVE RetryStateCoherent'
  <2> USE DEF RetryTypeOK, RetryStateCoherent, ReachesConfirmDataRes
  <2>1. CASE InitialSend(n)      BY <2>1, <1>t DEF InitialSend
  <2>2. CASE GiveUp(n)           BY <2>2, ResetIsCoherent DEF GiveUp
  <2>3. CASE Resend(n)           BY <2>3, <1>t DEF Resend
  <2>4. CASE Escalate(n)         BY <2>4, <1>t DEF Escalate
  <2>5. CASE RfcnWaitElapsed(n)  BY <2>5, <1>t DEF RfcnWaitElapsed
  <2>6. CASE HandleDATAAtNode(n) BY <2>6, <1>t DEF HandleDATAAtNode
  <2>7. CASE HandleDATARES(n)    BY <2>7, ResetIsCoherent DEF HandleDATARES
  <2>8. CASE HandleNDAT(n)       BY <2>8 DEF HandleNDAT
  <2> QED  BY <1>3, <2>1, <2>2, <2>3, <2>4, <2>5, <2>6, <2>7, <2>8
           DEF UpdateNode, ConfirmDataRes
<1>4. ASSUME NEW n \in Nodes, NEW m \in Messages,
             SendData(n, m) \/ SendDataToSlot(n, m)
      PROVE  RetryStateCoherent'
  BY <1>4, <1>t DEF SendData, SendDataToSlot, RetryStateCoherent, RetryTypeOK, BufferTypeOK
<1>5. ASSUME NEW n \in Devices, Reboot(n) \/ Rebegin(n) PROVE RetryStateCoherent'
  <2>1. CASE Reboot(n)
    BY <1>t, <2>1 DEF Reboot, RetryStateCoherent, RetryTypeOK, BufferTypeOK
  <2>2. CASE Rebegin(n)
    BY <1>t, <2>2 DEF Rebegin, RetryStateCoherent, RetryTypeOK, BufferTypeOK
  <2> QED  BY <1>5, <2>1, <2>2
<1> QED  BY <1>1, <1>2, <1>3, <1>4, <1>5 DEF Next

\* Whatever order timeouts, frames, sendData() calls and restarts come in,
\* an idle device carries nothing over from an earlier retry cycle.
THEOREM RetryStateIsCoherent == Spec => []RetryStateCoherent
<1>1. Init => RetryStateCoherent
  BY DEF Init, RetryStateCoherent
<1>2. ASSUME TypeOK, RetryStateCoherent, [Next]_vars PROVE RetryStateCoherent'
  <2>1. CASE Next
    BY <1>2, <2>1, CoherentStep
  <2>2. CASE UNCHANGED vars
    BY <1>2, <2>2 DEF vars, retryVars, bufferVars, RetryStateCoherent
  <2> QED  BY <1>2, <2>1, <2>2
<1> QED  BY <1>1, <1>2, TypeCorrect, PTL DEF Spec

-----------------------------------------------------------------------------
(* No accepted message is lost without a result *)

\* An idle node has no message without a result.
LEMMA IdleHasNothingPending ==
  ASSUME RetryStateCoherent, NoSilentLoss, NEW m \in Messages,
         ~ waitingForDataRes[Origin[m]]
  PROVE  outcome[m] # "pending"
BY DEF RetryStateCoherent, NoSilentLoss, Holds

\* Ending a cycle settles the packet it was for and keeps the slot's message.
LEMMA ResetLosesNothing ==
  ASSUME TypeOK, RetryStateCoherent, NoSilentLoss, NEW n \in Nodes,
         ResetDataResState(n), NEW result \in {"failed", "confirmed"},
         IF forwardBuf[n] = None THEN UNCHANGED outcome
         ELSE Settle(n, forwardBuf[n].msg, result)
  PROVE  NoSilentLoss'
<1> SUFFICES ASSUME NEW m \in Messages, outcome'[m] = "pending"
             PROVE  Holds(Origin[m], m)'
  BY DEF NoSilentLoss
<1>1. outcome[m] = "pending"
  BY DEF Settle, TypeOK, HistoryTypeOK, BufferTypeOK, Packets
<1>2. Holds(Origin[m], m) /\ Origin[m] \in Nodes
  BY <1>1 DEF NoSilentLoss
<1>3. CASE Origin[m] # n
  BY <1>2, <1>3 DEF Holds, ResetDataResState, StoreOwnPacket, TypeOK,
                    BufferTypeOK, RetryTypeOK
<1>4. CASE Origin[m] = n
  <2>1. ~ (forwardBuf[n] # None /\ forwardBuf[n].msg = m)
    BY <1>1, <1>4 DEF Settle, TypeOK, HistoryTypeOK
  <2>2. ownData[n] = m
    BY <1>2, <1>4, <2>1 DEF Holds
  <2>3. StoreOwnPacket(n, m) /\ waitingForDataRes'[n]
    BY <2>2 DEF ResetDataResState, TypeOK, RetryTypeOK
  <2>4. forwardBuf'[n] = NewPacket(n, m) /\ NewPacket(n, m) \in Packets
    BY <2>3 DEF StoreOwnPacket, NewPacket, TypeOK, BufferTypeOK, Packets
  <2> QED  BY <1>4, <2>3, <2>4 DEF Holds, NewPacket
<1> QED  BY <1>3, <1>4

\* A step that leaves the outcomes, the packet buffers and the waiting flags
\* alone takes no message away.
LEMMA UntouchedLosesNothing ==
  ASSUME NoSilentLoss,
         UNCHANGED <<outcome, ownData, forwardBuf, waitingForDataRes>>
  PROVE  NoSilentLoss'
BY DEF NoSilentLoss, Holds

\* Every step keeps each pending message with its origin.
LEMMA NoSilentLossStep ==
  TypeOK /\ RetryStateCoherent /\ NoSilentLoss /\ Next => NoSilentLoss'
<1> SUFFICES ASSUME TypeOK, RetryStateCoherent, NoSilentLoss, Next
             PROVE  NoSilentLoss'
  OBVIOUS
<1>t. RetryTypeOK /\ BufferTypeOK /\ HistoryTypeOK
  BY DEF TypeOK
<1> USE DEF retryVars, bufferVars, appVars
<1>1. ASSUME NEW d \in Devices, TransmissionEnds(d) \/ Update(d) PROVE NoSilentLoss'
  BY <1>1, UntouchedLosesNothing
     DEF TransmissionEnds, Update, UpdateTxComplete, UpdateTxWatchdog,
         DropDataWhileWaiting, HandleDuplicateDATA, IgnoreDATARES, Advertise
<1>2. CASE HandleDATAAtHome
  BY <1>2, UntouchedLosesNothing DEF HandleDATAAtHome
<1>3. ASSUME NEW n \in Nodes, UpdateNode(n) PROVE NoSilentLoss'
  <2>1. CASE InitialSend(n) \/ Resend(n) \/ Escalate(n) \/ RfcnWaitElapsed(n)
               \/ HandleNDAT(n)
    BY <2>1, UntouchedLosesNothing
       DEF InitialSend, Resend, Escalate, RfcnWaitElapsed, HandleNDAT
  <2>2. CASE GiveUp(n)
    BY <2>2, ResetLosesNothing DEF GiveUp
  <2>3. CASE HandleDATARES(n)
    BY <2>3, ResetLosesNothing DEF HandleDATARES
  <2>4. CASE HandleDATAAtNode(n)
    <3> SUFFICES ASSUME NEW m \in Messages, outcome'[m] = "pending"
                 PROVE  Holds(Origin[m], m)'
      BY DEF NoSilentLoss
    <3>1. outcome[m] = "pending" /\ ~ waitingForDataRes[n]
      BY <2>4 DEF HandleDATAAtNode
    <3>2. Origin[m] # n /\ Holds(Origin[m], m)
      BY <3>1, IdleHasNothingPending DEF NoSilentLoss
    <3> QED  BY <1>t, <2>4, <3>2 DEF HandleDATAAtNode, Holds, BufferTypeOK, RetryTypeOK
  <2> QED  BY <1>3, <2>1, <2>2, <2>3, <2>4 DEF UpdateNode, ConfirmDataRes
<1>4. ASSUME NEW n \in Nodes, NEW k \in Messages,
             SendData(n, k) \/ SendDataToSlot(n, k)
      PROVE  NoSilentLoss'
  <2> SUFFICES ASSUME NEW m \in Messages, outcome'[m] = "pending"
               PROVE  Holds(Origin[m], m)'
    BY DEF NoSilentLoss
  <2>1. CASE SendData(n, k)
    <3>1. CASE m = k
      <4>1. forwardBuf'[n] = NewPacket(n, k) /\ NewPacket(n, k) \in Packets
        BY <1>t, <2>1 DEF SendData, StoreOwnPacket, NewPacket, BufferTypeOK, Packets
      <4> QED  BY <1>t, <2>1, <3>1, <4>1 DEF SendData, Holds, NewPacket, RetryTypeOK
    <3>2. CASE m # k
      <4>1. outcome[m] = "pending" /\ ~ waitingForDataRes[n]
        BY <1>t, <2>1, <3>2 DEF SendData, HistoryTypeOK
      <4>2. Origin[m] # n /\ Holds(Origin[m], m)
        BY <4>1, IdleHasNothingPending DEF NoSilentLoss
      <4> QED  BY <1>t, <2>1, <4>2 DEF SendData, StoreOwnPacket, Holds,
                                      BufferTypeOK, RetryTypeOK
    <3> QED  BY <3>1, <3>2
  <2>2. CASE SendDataToSlot(n, k)
    BY <1>t, <2>2 DEF SendDataToSlot, NoSilentLoss, Holds, BufferTypeOK, HistoryTypeOK
  <2> QED  BY <1>4, <2>1, <2>2
<1>5. ASSUME NEW n \in Devices, Reboot(n) \/ Rebegin(n) PROVE NoSilentLoss'
  <2> SUFFICES ASSUME NEW m \in Messages, outcome'[m] = "pending"
               PROVE  Holds(Origin[m], m)'
    BY DEF NoSilentLoss
  <2>1. Origin[m] # n /\ outcome[m] = "pending"
    BY <1>5 DEF Reboot, Rebegin, LoseHeld
  <2>2. Holds(Origin[m], m) /\ Origin[m] \in Devices
    BY <2>1 DEF NoSilentLoss
  <2>3. CASE Reboot(n)
    BY <1>t, <2>1, <2>2, <2>3 DEF Reboot, Holds, BufferTypeOK, RetryTypeOK
  <2>4. CASE Rebegin(n)
    BY <1>t, <2>1, <2>2, <2>4 DEF Rebegin, Holds, BufferTypeOK, RetryTypeOK
  <2> QED  BY <1>5, <2>3, <2>4
<1> QED  BY <1>1, <1>2, <1>3, <1>4, <1>5 DEF Next

\* A message sendData() accepted stays with its origin until the application
\* has a result for it or a restart takes it.
THEOREM NoMessageIsLostSilently == Spec => []NoSilentLoss
<1>1. Init => NoSilentLoss
  BY DEF Init, NoSilentLoss
<1>2. ASSUME TypeOK, RetryStateCoherent, NoSilentLoss, [Next]_vars
      PROVE  NoSilentLoss'
  <2>1. CASE Next
    BY <1>2, <2>1, NoSilentLossStep
  <2>2. CASE UNCHANGED vars
    BY <1>2, <2>2, UntouchedLosesNothing DEF vars, retryVars, bufferVars, appVars
  <2> QED  BY <1>2, <2>1, <2>2
<1> QED  BY <1>1, <1>2, TypeCorrect, RetryStateIsCoherent, PTL DEF Spec

-----------------------------------------------------------------------------
(* Retry cycles have a packet *)

\* Every step keeps a packet behind every retry cycle, calls of
\* beginAsNode() on a running node excepted.
LEMMA HasPacketStep ==
  TypeOK /\ RetryStateCoherent /\ RetryCycleHasPacket /\ MaxRebegins = 0 /\ Next
     => RetryCycleHasPacket'
<1> SUFFICES ASSUME TypeOK, RetryStateCoherent, RetryCycleHasPacket,
                    MaxRebegins = 0, Next
             PROVE  RetryCycleHasPacket'
  OBVIOUS
<1>t. RetryTypeOK /\ BufferTypeOK /\ RadioTypeOK /\ rebegins = 0
  BY DEF TypeOK, HistoryTypeOK
<1>s. ASSUME NEW n \in Nodes, NEW m \in Messages
      PROVE  NewPacket(n, m) \in Packets
  BY <1>t DEF BufferTypeOK, NewPacket, Packets
<1>r. ASSUME NEW n \in Nodes, ResetDataResState(n) PROVE RetryCycleHasPacket'
  BY <1>t, <1>r, <1>s DEF ResetDataResState, StoreOwnPacket, RetryCycleHasPacket,
                          RetryTypeOK, BufferTypeOK
<1>u. UNCHANGED <<forwardBuf, waitingForDataRes>> => RetryCycleHasPacket'
  BY DEF RetryCycleHasPacket
<1> USE DEF retryVars, bufferVars
<1>1. ASSUME NEW d \in Devices, TransmissionEnds(d) \/ Update(d)
      PROVE  RetryCycleHasPacket'
  BY <1>1, <1>u
     DEF TransmissionEnds, Update, UpdateTxComplete, UpdateTxWatchdog,
         DropDataWhileWaiting, HandleDuplicateDATA, IgnoreDATARES, Advertise
<1>2. CASE HandleDATAAtHome
  BY <1>2, <1>u DEF HandleDATAAtHome
<1>3. ASSUME NEW n \in Nodes, UpdateNode(n) PROVE RetryCycleHasPacket'
  <2>1. CASE InitialSend(n) \/ Resend(n) \/ Escalate(n) \/ RfcnWaitElapsed(n)
               \/ HandleNDAT(n)
    BY <2>1, <1>u DEF InitialSend, Resend, Escalate, RfcnWaitElapsed, HandleNDAT
  <2>2. CASE GiveUp(n) \/ HandleDATARES(n)
    BY <2>2, <1>r DEF GiveUp, HandleDATARES
  <2>3. CASE HandleDATAAtNode(n)
    <3>1. rxFrame[n].pkt \in Packets
      BY <1>t, <2>3, ReceivedFrame DEF HandleDATAAtNode, DataFrames
    <3> QED  BY <1>t, <2>3, <3>1, RelayedType
             DEF HandleDATAAtNode, RetryCycleHasPacket, RetryTypeOK, BufferTypeOK
  <2> QED  BY <1>3, <2>1, <2>2, <2>3 DEF UpdateNode, ConfirmDataRes
<1>4. ASSUME NEW n \in Nodes, NEW m \in Messages,
             SendData(n, m) \/ SendDataToSlot(n, m)
      PROVE  RetryCycleHasPacket'
  BY <1>4, <1>t, <1>u, <1>s DEF SendData, SendDataToSlot, StoreOwnPacket,
     RetryCycleHasPacket, RetryTypeOK, BufferTypeOK
<1>5. ASSUME NEW n \in Devices, Reboot(n) \/ Rebegin(n) PROVE RetryCycleHasPacket'
  BY <1>5, <1>t DEF Reboot, Rebegin, RetryCycleHasPacket, RetryTypeOK, BufferTypeOK
<1> QED  BY <1>1, <1>2, <1>3, <1>4, <1>5 DEF Next

\* As long as beginAsNode() is called once per power-up, no retry cycle
\* ever runs for an empty buffer.
THEOREM RetryCyclesHavePackets ==
  ASSUME MaxRebegins = 0
  PROVE  Spec => []RetryCycleHasPacket
<1>1. Init => RetryCycleHasPacket
  BY DEF Init, RetryCycleHasPacket
<1>2. ASSUME TypeOK, RetryStateCoherent, RetryCycleHasPacket, [Next]_vars
      PROVE  RetryCycleHasPacket'
  <2>1. CASE Next
    BY <1>2, <2>1, HasPacketStep
  <2>2. CASE UNCHANGED vars
    BY <1>2, <2>2 DEF vars, retryVars, bufferVars, RetryCycleHasPacket
  <2> QED  BY <1>2, <2>1, <2>2
<1> QED  BY <1>1, <1>2, TypeCorrect, RetryStateIsCoherent, PTL DEF Spec

-----------------------------------------------------------------------------
(* Nothing is made up on the way *)

\* Genuine is a state of its parts, so a step may be checked part by part.
GenuineBuffers ==
  \A d \in Devices :
    /\ forwardBuf[d] # None => GenuinePacket(forwardBuf[d])
    /\ ownData[d] # None => Origin[ownData[d]] = d /\ outcome[ownData[d]] # "unsent"

GenuineRadio ==
  \A d \in Devices :
    /\ air[d] # None /\ air[d].type = "DATA" => GenuinePacket(air[d].pkt)
    /\ rxFrame[d] # None /\ rxFrame[d].type = "DATA" => GenuinePacket(rxFrame[d].pkt)

GenuineDelivery == \A m \in delivered : outcome[m] # "unsent"

\* No message's application forgets that it sent it.
LEMMA OutcomeStep ==
  ASSUME TypeOK, Next, NEW m \in Messages, outcome[m] # "unsent"
  PROVE  outcome'[m] # "unsent"
<1>t. HistoryTypeOK
  BY DEF TypeOK
<1> USE DEF appVars
<1>1. ASSUME NEW d \in Devices, TransmissionEnds(d) \/ Update(d)
      PROVE  outcome'[m] # "unsent"
  BY <1>1
     DEF TransmissionEnds, Update, UpdateTxComplete, UpdateTxWatchdog,
         DropDataWhileWaiting, HandleDuplicateDATA, IgnoreDATARES, Advertise
<1>2. CASE HandleDATAAtHome
  BY <1>2 DEF HandleDATAAtHome
<1>3. ASSUME NEW n \in Nodes, UpdateNode(n) PROVE outcome'[m] # "unsent"
  BY <1>3, <1>t
     DEF UpdateNode, ConfirmDataRes, InitialSend, GiveUp, Resend, Escalate,
         RfcnWaitElapsed, HandleDATAAtNode, HandleDATARES, HandleNDAT, Settle,
         HistoryTypeOK
<1>4. ASSUME NEW n \in Nodes, NEW k \in Messages,
             SendData(n, k) \/ SendDataToSlot(n, k)
      PROVE  outcome'[m] # "unsent"
  BY <1>4, <1>t DEF SendData, SendDataToSlot, HistoryTypeOK
<1>5. ASSUME NEW n \in Devices, Reboot(n) \/ Rebegin(n) PROVE outcome'[m] # "unsent"
  BY <1>5 DEF Reboot, Rebegin, LoseHeld
<1> QED  BY <1>1, <1>2, <1>3, <1>4, <1>5 DEF Next

\* Packet p, as it is now, is genuine after the step.
StaysGenuine(p) == p.src = Origin[p.msg] /\ outcome'[p.msg] # "unsent"

\* The packets a step finds in a buffer, in a frame or in the slot stay genuine.
LEMMA GenuineStays ==
  ASSUME TypeOK, Genuine, Next, NEW d \in Devices
  PROVE  /\ forwardBuf[d] # None => StaysGenuine(forwardBuf[d])
         /\ air[d] # None /\ air[d].type = "DATA" => StaysGenuine(air[d].pkt)
         /\ rxFrame[d] # None /\ rxFrame[d].type = "DATA" =>
              StaysGenuine(rxFrame[d].pkt)
         /\ ownData[d] # None =>
              Origin[ownData[d]] = d /\ outcome'[ownData[d]] # "unsent"
<1>1. /\ forwardBuf[d] # None => forwardBuf[d].msg \in Messages
      /\ ownData[d] # None => ownData[d] \in Messages
  BY DEF TypeOK, BufferTypeOK, Packets
<1>2. /\ air[d] # None /\ air[d].type = "DATA" => air[d].pkt.msg \in Messages
      /\ rxFrame[d] # None /\ rxFrame[d].type = "DATA" =>
           rxFrame[d].pkt.msg \in Messages
  BY DEF TypeOK, RadioTypeOK, Frames, DataFrames, ResFrames, Packets
<1> QED  BY <1>1, <1>2, OutcomeStep DEF Genuine, GenuinePacket, StaysGenuine

\* Own packets are genuine.
LEMMA NewPacketGenuine ==
  ASSUME NEW n \in Nodes, NEW m \in Messages, Origin[m] = n, outcome'[m] # "unsent"
  PROVE  StaysGenuine(NewPacket(n, m))
BY DEF NewPacket, StaysGenuine

\* Every step keeps the buffers genuine.
LEMMA GenuineBuffersStep == TypeOK /\ Genuine /\ Next => GenuineBuffers'
<1> SUFFICES ASSUME TypeOK, Genuine, Next, NEW e \in Devices
             PROVE  /\ forwardBuf'[e] # None => StaysGenuine(forwardBuf'[e])
                    /\ ownData'[e] # None =>
                         /\ Origin[ownData'[e]] = e
                         /\ outcome'[ownData'[e]] # "unsent"
  BY DEF GenuineBuffers, GenuinePacket, StaysGenuine
<1> DEFINE Goal == /\ forwardBuf'[e] # None => StaysGenuine(forwardBuf'[e])
                   /\ ownData'[e] # None =>
                        /\ Origin[ownData'[e]] = e
                        /\ outcome'[ownData'[e]] # "unsent"
<1>t. BufferTypeOK /\ HistoryTypeOK /\ RadioTypeOK
  BY DEF TypeOK
<1>s. /\ \A d \in Devices : forwardBuf[d] # None => StaysGenuine(forwardBuf[d])
      /\ \A d \in Devices : Received(d, "DATA") => StaysGenuine(rxFrame[d].pkt)
      /\ \A d \in Devices : ownData[d] # None =>
              Origin[ownData[d]] = d /\ outcome'[ownData[d]] # "unsent"
  BY GenuineStays DEF Received
<1>u. ASSUME UNCHANGED <<forwardBuf, ownData>> PROVE Goal
  BY <1>s, <1>u
<1>r. ASSUME NEW n \in Nodes, ResetDataResState(n) PROVE Goal
  <2>1. CASE ownData[n] = None
    BY <1>t, <1>s, <1>r, <2>1 DEF ResetDataResState, BufferTypeOK
  <2>2. CASE ownData[n] # None
    <3>1. ownData[n] \in Messages /\ StoreOwnPacket(n, ownData[n])
      BY <1>t, <1>r, <2>2 DEF BufferTypeOK, ResetDataResState
    <3>2. StaysGenuine(NewPacket(n, ownData[n]))
      BY <1>s, <2>2, <3>1, NewPacketGenuine
    <3> QED  BY <1>t, <1>s, <1>r, <3>1, <3>2
             DEF StoreOwnPacket, ResetDataResState, BufferTypeOK
  <2> QED  BY <2>1, <2>2
<1> HIDE DEF Goal
<1> USE DEF bufferVars
<1>1. ASSUME NEW d \in Devices, TransmissionEnds(d) \/ Update(d) PROVE Goal
  BY <1>1, <1>u
     DEF TransmissionEnds, Update, UpdateTxComplete, UpdateTxWatchdog,
         DropDataWhileWaiting, HandleDuplicateDATA, IgnoreDATARES, Advertise
<1>2. ASSUME HandleDATAAtHome PROVE Goal
  <2>1. UNCHANGED <<forwardBuf, ownData>>
    BY <1>2 DEF HandleDATAAtHome
  <2> QED  BY <2>1, <1>u
<1>3. ASSUME NEW n \in Nodes, UpdateNode(n) PROVE Goal
  <2>1. CASE InitialSend(n) \/ Resend(n) \/ Escalate(n) \/ RfcnWaitElapsed(n)
               \/ HandleNDAT(n)
    BY <2>1, <1>u DEF InitialSend, Resend, Escalate, RfcnWaitElapsed, HandleNDAT
  <2>2. CASE GiveUp(n) \/ HandleDATARES(n)
    BY <2>2, <1>r DEF GiveUp, HandleDATARES
  <2>3. CASE HandleDATAAtNode(n)
    <3>1. StaysGenuine(Relayed(rxFrame[n].pkt))
      BY <2>3, <1>s DEF HandleDATAAtNode, Relayed, StaysGenuine
    <3> QED  BY <1>t, <1>s, <2>3, <3>1 DEF HandleDATAAtNode, BufferTypeOK, Goal
  <2> QED  BY <1>3, <2>1, <2>2, <2>3 DEF UpdateNode, ConfirmDataRes
<1>4. ASSUME NEW n \in Nodes, NEW m \in Messages,
             SendData(n, m) \/ SendDataToSlot(n, m)
      PROVE  Goal
  <2>1. Origin[m] = n /\ outcome'[m] # "unsent"
    BY <1>t, <1>4 DEF SendData, SendDataToSlot, HistoryTypeOK
  <2>2. CASE SendData(n, m)
    BY <1>t, <1>s, <2>1, <2>2, NewPacketGenuine
       DEF SendData, StoreOwnPacket, BufferTypeOK, Goal
  <2>3. CASE SendDataToSlot(n, m)
    BY <1>t, <1>s, <2>1, <2>3 DEF SendDataToSlot, BufferTypeOK, Goal
  <2> QED  BY <1>4, <2>2, <2>3
<1>5. ASSUME NEW n \in Devices, Reboot(n) \/ Rebegin(n) PROVE Goal
  <2>1. CASE Reboot(n)   BY <1>t, <1>s, <2>1 DEF Reboot, BufferTypeOK, Goal
  <2>2. CASE Rebegin(n)  BY <1>t, <1>s, <2>2 DEF Rebegin, BufferTypeOK, Goal
  <2> QED  BY <1>5, <2>1, <2>2
<1>6. Goal
  BY <1>1, <1>2, <1>3, <1>4, <1>5 DEF Next
<1> QED  BY <1>6 DEF Goal

\* Every step keeps the frames genuine.
LEMMA GenuineRadioStep == TypeOK /\ Genuine /\ Next => GenuineRadio'
<1> SUFFICES ASSUME TypeOK, Genuine, Next, NEW e \in Devices
             PROVE  /\ air'[e] # None /\ air'[e].type = "DATA" =>
                         StaysGenuine(air'[e].pkt)
                    /\ rxFrame'[e] # None /\ rxFrame'[e].type = "DATA" =>
                         StaysGenuine(rxFrame'[e].pkt)
  BY DEF GenuineRadio, GenuinePacket, StaysGenuine
<1> DEFINE Ok(f) == f # None /\ f.type = "DATA" => StaysGenuine(f.pkt)
           Goal  == Ok(air'[e]) /\ Ok(rxFrame'[e])
<1>t. RadioTypeOK
  BY DEF TypeOK
<1>s. /\ \A d \in Devices : Ok(air[d]) /\ Ok(rxFrame[d])
      /\ \A d \in Devices : forwardBuf[d] # None => StaysGenuine(forwardBuf[d])
      /\ Ok(None)
  BY GenuineStays
<1> HIDE DEF Ok
<1> USE DEF Goal
<1>a. ASSUME NEW d \in Devices, NEW f, Transmit(d, f), Ok(f) PROVE Ok(air'[e])
  BY <1>t, <1>s, <1>a DEF Transmit, RadioTypeOK
<1>h. ASSUME NEW d \in Devices, AckHop(d, rxFrame[d]) PROVE Goal
  <2>1. Ok([type |-> "DATA_RES", from |-> d, to |-> rxFrame[d].from,
            seq |-> rxFrame[d].pkt.seq])
    BY DEF Ok
  <2>2. Ok(air'[e])
    BY <1>h, <2>1, <1>a DEF AckHop
  <2> QED  BY <1>t, <1>s, <1>h, <2>2 DEF AckHop, RadioTypeOK
<1>p. ASSUME NEW n \in Nodes, ForwardDataPacket(n), UNCHANGED rxFrame PROVE Goal
  <2>1. CASE forwardBuf[n] = None \/ Best(n) = NoId
    BY <1>s, <1>p, <2>1 DEF ForwardDataPacket
  <2>2. CASE ~ (forwardBuf[n] = None \/ Best(n) = NoId)
    <3>1. Ok([type |-> "DATA", from |-> n, to |-> NextHop(n), pkt |-> forwardBuf[n]])
      BY <1>s, <2>2 DEF Ok
    <3>2. Ok(air'[e])
      BY <1>p, <2>2, <3>1, <1>a DEF ForwardDataPacket
    <3> QED  BY <1>s, <1>p, <3>2
  <2> QED  BY <2>1, <2>2
<1> USE DEF radioVars
<1>1. ASSUME NEW d \in Devices, TransmissionEnds(d) \/ Update(d) PROVE Goal
  <2>1. CASE TransmissionEnds(d)
    BY <1>t, <1>s, <2>1 DEF TransmissionEnds, RadioTypeOK
  <2>2. CASE HandleDuplicateDATA(d)
    BY <1>h, <2>2 DEF HandleDuplicateDATA
  <2>3. CASE UpdateTxComplete(d) \/ UpdateTxWatchdog(d) \/ DropDataWhileWaiting(d)
               \/ IgnoreDATARES(d) \/ Advertise(d)
    BY <1>t, <1>s, <2>3
       DEF UpdateTxComplete, UpdateTxWatchdog, DropDataWhileWaiting,
           IgnoreDATARES, Advertise, TransmitControl, Transmit, RadioTypeOK
  <2> QED  BY <1>1, <2>1, <2>2, <2>3 DEF Update
<1>2. ASSUME HandleDATAAtHome PROVE Goal
  BY <1>2, <1>h DEF HandleDATAAtHome
<1>3. ASSUME NEW n \in Nodes, UpdateNode(n) PROVE Goal
  <2>1. CASE InitialSend(n) \/ Resend(n)
    BY <2>1, <1>p DEF InitialSend, Resend
  <2>2. CASE HandleDATAAtNode(n)
    BY <2>2, <1>h DEF HandleDATAAtNode
  <2>3. CASE GiveUp(n) \/ Escalate(n) \/ RfcnWaitElapsed(n) \/ HandleDATARES(n)
               \/ HandleNDAT(n)
    BY <1>t, <1>s, <2>3
       DEF GiveUp, Escalate, RfcnWaitElapsed, HandleDATARES, HandleNDAT,
           TransmitControl, Transmit, RadioTypeOK
  <2> QED  BY <1>3, <2>1, <2>2, <2>3 DEF UpdateNode, ConfirmDataRes
<1>4. ASSUME NEW n \in Nodes, NEW m \in Messages,
             SendData(n, m) \/ SendDataToSlot(n, m)
      PROVE  Goal
  BY <1>s, <1>4 DEF SendData, SendDataToSlot
<1>5. ASSUME NEW n \in Devices, Reboot(n) \/ Rebegin(n) PROVE Goal
  BY <1>t, <1>s, <1>5 DEF Reboot, Rebegin, ForgetFrames, RadioTypeOK
<1>6. Goal
  BY <1>1, <1>2, <1>3, <1>4, <1>5 DEF Next
<1> QED  BY <1>6 DEF Ok

\* Every step delivers only what was sent.
LEMMA GenuineDeliveryStep == TypeOK /\ Genuine /\ Next => GenuineDelivery'
<1> SUFFICES ASSUME TypeOK, Genuine, Next, NEW m \in delivered'
             PROVE  outcome'[m] # "unsent"
  BY DEF GenuineDelivery
<1>t. delivered \in SUBSET Messages
  BY DEF TypeOK, HistoryTypeOK
<1>1. CASE m \in delivered
  BY <1>t, <1>1, OutcomeStep DEF Genuine
<1>2. CASE m \notin delivered
  <2>1. HandleDATAAtHome
    <3>1. delivered' # delivered
      BY <1>2
    <3> QED
      BY <3>1
         DEF Next, TransmissionEnds, Update, UpdateTxComplete, UpdateTxWatchdog,
             DropDataWhileWaiting, HandleDuplicateDATA, IgnoreDATARES, Advertise,
             UpdateNode, ConfirmDataRes, InitialSend, GiveUp, Resend, Escalate,
             RfcnWaitElapsed, HandleDATAAtNode, HandleDATARES, HandleNDAT,
             SendData, SendDataToSlot, Reboot, Rebegin, appVars
  <2>2. m = rxFrame[Home].pkt.msg
    BY <1>2, <2>1 DEF HandleDATAAtHome
  <2>3. Received(Home, "DATA") /\ Home \in Devices
    BY <2>1 DEF HandleDATAAtHome
  <2> QED  BY <2>2, <2>3, GenuineStays DEF Received, StaysGenuine
<1> QED  BY <1>1, <1>2

\* Every packet anywhere, and every delivery at Home, is of a message the
\* application of the packet's source really sent.
THEOREM EverythingIsGenuine == Spec => []Genuine
<1>1. Init => Genuine
  BY DEF Init, Genuine
<1>2. ASSUME TypeOK, Genuine, [Next]_vars PROVE Genuine'
  <2>1. CASE Next
    <3>1. GenuineBuffers' /\ GenuineRadio' /\ GenuineDelivery'
      BY <1>2, <2>1, GenuineBuffersStep, GenuineRadioStep, GenuineDeliveryStep
    <3> QED  BY <3>1 DEF Genuine, GenuineBuffers, GenuineRadio, GenuineDelivery
  <2>2. CASE UNCHANGED vars
    BY <1>2, <2>2 DEF vars, bufferVars, radioVars, appVars, Genuine, GenuinePacket
  <2> QED  BY <1>2, <2>1, <2>2
<1> QED  BY <1>1, <1>2, TypeCorrect, PTL DEF Spec
-----------------------------------------------------------------------------
(* What the data plane promises routing *)

\* The flags of the nodes, as LHRNextHop has them.
Flags(f) == [n \in Nodes |-> f[n]]

\* A flag of a node changes among the nodes as it does among the devices.
LEMMA FlagChange ==
  ASSUME NEW f \in [Devices -> BOOLEAN], NEW d \in Devices, NEW b
  PROVE  LET g == [f EXCEPT ![d] = b]
         IN IF d \in Nodes THEN Flags(g) = [Flags(f) EXCEPT ![d] = b]
            ELSE Flags(g) = Flags(f)
<1>1. CASE d \in Nodes
  BY <1>1 DEF Flags
<1>2. CASE d \notin Nodes
  BY <1>2 DEF Flags
<1> QED  BY <1>1, <1>2

\* Nothing is told to the other side.
LEMMA NextHopsStutter ==
  ASSUME UNCHANGED route,
         Flags(waitingForDataRes)' = Flags(waitingForDataRes),
         Flags(requestedRFCN)' = Flags(requestedRFCN)
  PROVE  UNCHANGED NextHops!vars
BY DEF Flags, NextHops!vars

\* The end of a cycle ends it for routing, too, or, with a message in the
\* slot, starts the next one in the same step.
LEMMA ResetEndsRetry ==
  ASSUME TypeOK, RetryStateCoherent, NEW n \in Nodes, waitingForDataRes[n],
         ResetDataResState(n), UNCHANGED route
  PROVE  NextHops!Next \/ UNCHANGED NextHops!vars
<1>1. /\ waitingForDataRes \in [Devices -> BOOLEAN]
      /\ requestedRFCN \in [Devices -> BOOLEAN]
  BY DEF TypeOK, RetryTypeOK
<1>2. requestedRFCN' = [requestedRFCN EXCEPT ![n] = FALSE]
  BY DEF ResetDataResState
<1>3. Flags(requestedRFCN)' = [Flags(requestedRFCN) EXCEPT ![n] = FALSE]
  BY <1>1, <1>2, FlagChange
<1>4. CASE ownData[n] = None
  <2>1. waitingForDataRes' = [waitingForDataRes EXCEPT ![n] = FALSE]
    BY <1>4 DEF ResetDataResState
  <2>2. Flags(waitingForDataRes)' = [Flags(waitingForDataRes) EXCEPT ![n] = FALSE]
    BY <1>1, <2>1, FlagChange
  <2>3. NextHops!EndRetry(n)
    BY <1>3, <2>2 DEF Flags, NextHops!EndRetry
  <2> QED  BY <2>3 DEF NextHops!Next
<1>5. CASE ownData[n] # None
  <2>1. waitingForDataRes' = [waitingForDataRes EXCEPT ![n] = TRUE]
    BY <1>5 DEF ResetDataResState
  <2>2. UNCHANGED waitingForDataRes
    BY <1>1, <2>1
  <2>3. CASE requestedRFCN[n]
    <3>1. NextHops!StopAsking(n)
      BY <1>3, <2>2, <2>3 DEF Flags, NextHops!StopAsking
    <3> QED  BY <3>1 DEF NextHops!Next
  <2>4. CASE ~ requestedRFCN[n]
    <3>1. UNCHANGED requestedRFCN
      BY <1>1, <1>2, <2>4
    <3> QED  BY <2>2, <3>1, NextHopsStutter DEF Flags
  <2> QED  BY <2>3, <2>4
<1> QED  BY <1>4, <1>5

\* A restart of a node is one to routing; that of Home does not concern it.
LEMMA RestartIsRestart ==
  ASSUME TypeOK, RetryStateCoherent, NEW d \in Devices, Reboot(d) \/ Rebegin(d)
  PROVE  NextHops!Next \/ UNCHANGED NextHops!vars
<1>1. /\ waitingForDataRes \in [Devices -> BOOLEAN]
      /\ requestedRFCN \in [Devices -> BOOLEAN]
      /\ route \in [Nodes -> UNION {Routes(n) : n \in Nodes}]
  BY DEF TypeOK, RetryTypeOK, RouteTypeOK
<1>2. /\ requestedRFCN' = [requestedRFCN EXCEPT ![d] = FALSE]
      /\ ForgetRoutes(d)
  BY DEF Reboot, Rebegin
<1>3. \/ UNCHANGED waitingForDataRes
      \/ waitingForDataRes' = [waitingForDataRes EXCEPT ![d] = FALSE]
  <2>1. CASE Reboot(d)
    BY <2>1 DEF Reboot
  <2>2. CASE Rebegin(d)
    <3>1. CASE ownData[d] = None
      BY <2>2, <3>1 DEF Rebegin
    <3>2. CASE ownData[d] # None
      <4>1. waitingForDataRes[d]
        BY <3>2 DEF RetryStateCoherent
      <4>2. waitingForDataRes' = [waitingForDataRes EXCEPT ![d] = TRUE]
        BY <2>2, <3>2 DEF Rebegin
      <4> QED  BY <1>1, <4>1, <4>2
    <3> QED  BY <3>1, <3>2
  <2> QED  BY <2>1, <2>2
<1>4. CASE d \in Nodes
  <2>1. Flags(requestedRFCN)' = [Flags(requestedRFCN) EXCEPT ![d] = FALSE]
    BY <1>1, <1>2, <1>4, FlagChange
  <2>2. Flags(waitingForDataRes)' \in
          {Flags(waitingForDataRes), [Flags(waitingForDataRes) EXCEPT ![d] = FALSE]}
    BY <1>1, <1>3, <1>4, FlagChange
  <2>3. route' = [route EXCEPT ![d] = NextHops!Nowhere]
    BY <1>1, <1>2, <1>4 DEF ForgetRoutes, NextHops!Nowhere
  <2>4. NextHops!Restart(d)
    BY <2>1, <2>2, <2>3 DEF Flags, NextHops!Restart
  <2> QED  BY <1>4, <2>4 DEF NextHops!Next
<1>5. CASE d \notin Nodes
  <2>1. UNCHANGED route
    BY <1>1, <1>2, <1>5 DEF ForgetRoutes
  <2>2. Flags(requestedRFCN)' = Flags(requestedRFCN)
    BY <1>1, <1>2, <1>5, FlagChange
  <2>3. Flags(waitingForDataRes)' = Flags(waitingForDataRes)
    BY <1>1, <1>3, <1>5, FlagChange
  <2> QED  BY <2>1, <2>2, <2>3, NextHopsStutter
<1> QED  BY <1>4, <1>5

LEMMA NextHopsStep ==
  ASSUME TypeOK, RetryStateCoherent, Next
  PROVE  NextHops!Next \/ UNCHANGED NextHops!vars
<1>t. /\ waitingForDataRes \in [Devices -> BOOLEAN]
      /\ requestedRFCN \in [Devices -> BOOLEAN]
  BY DEF TypeOK, RetryTypeOK
<1>s. ASSUME UNCHANGED <<route, waitingForDataRes, requestedRFCN>>
      PROVE  UNCHANGED NextHops!vars
  BY <1>s, NextHopsStutter DEF Flags
<1>r. ASSUME NEW n \in Nodes, waitingForDataRes' = [waitingForDataRes EXCEPT ![n] = TRUE],
             ~ waitingForDataRes[n], UNCHANGED <<route, requestedRFCN>>
      PROVE  NextHops!Next
  <2>1. Flags(waitingForDataRes)' = [Flags(waitingForDataRes) EXCEPT ![n] = TRUE]
    BY <1>t, <1>r, FlagChange
  <2>2. NextHops!StartRetry(n)
    BY <1>r, <2>1 DEF Flags, NextHops!StartRetry
  <2> QED  BY <2>2 DEF NextHops!Next
<1>1. ASSUME NEW d \in Devices, TransmissionEnds(d) \/ Update(d)
      PROVE  NextHops!Next \/ UNCHANGED NextHops!vars
  <2>1. CASE Advertise(d) /\ ~ UNCHANGED route
    <3>1. PICK r \in Routes(d) : d \in Nodes /\ route' = [route EXCEPT ![d] = r]
      BY <2>1 DEF Advertise
    <3>2. ~ waitingForDataRes[d] /\ UNCHANGED <<waitingForDataRes, requestedRFCN>>
      BY <2>1 DEF Advertise, retryVars
    <3>3. r \in NextHops!Heard(d) \cup {NextHops!Nowhere}
      BY DEF Routes, NextHops!Heard, NextHops!Nowhere
    <3>4. NextHops!Prune(d)
      BY <3>1, <3>2, <3>3 DEF NextHops!Prune
    <3> QED  BY <3>1, <3>4 DEF NextHops!Next
  <2>2. CASE ~ (Advertise(d) /\ ~ UNCHANGED route)
    BY <1>1, <1>s, <2>2
       DEF TransmissionEnds, Update, UpdateTxComplete, UpdateTxWatchdog, retryVars,
           DropDataWhileWaiting, HandleDuplicateDATA, IgnoreDATARES, Advertise
  <2> QED  BY <2>1, <2>2
<1>2. CASE HandleDATAAtHome
  BY <1>2, <1>s DEF HandleDATAAtHome, retryVars
<1>3. ASSUME NEW n \in Nodes, UpdateNode(n)
      PROVE  NextHops!Next \/ UNCHANGED NextHops!vars
  <2>1. CASE InitialSend(n)
    <3>1. ~ requestedRFCN[n]
      BY <2>1 DEF InitialSend, RetryStateCoherent
    <3>2. UNCHANGED <<route, waitingForDataRes>>
          /\ requestedRFCN' = [requestedRFCN EXCEPT ![n] = FALSE]
      BY <2>1 DEF InitialSend
    <3> QED  BY <1>t, <1>s, <3>1, <3>2
  <2>2. CASE GiveUp(n)
    BY <2>2, ResetEndsRetry DEF GiveUp, ReachesConfirmDataRes
  <2>3. CASE Resend(n)
    BY <1>s, <2>3 DEF Resend
  <2>4. CASE Escalate(n)
    <3>1. /\ waitingForDataRes[n] /\ ~ requestedRFCN[n]
          /\ route' = [route EXCEPT ![n] = NextHops!Nowhere]
          /\ requestedRFCN' = [requestedRFCN EXCEPT ![n] = TRUE]
          /\ UNCHANGED waitingForDataRes
      BY <2>4 DEF Escalate, ReachesConfirmDataRes, NextHops!Nowhere
    <3>2. Flags(requestedRFCN)' = [Flags(requestedRFCN) EXCEPT ![n] = TRUE]
      BY <1>t, <3>1, FlagChange
    <3>3. NextHops!Forget(n)
      BY <3>1, <3>2 DEF Flags, NextHops!Forget
    <3> QED  BY <3>3 DEF NextHops!Next
  <2>5. CASE RfcnWaitElapsed(n)
    <3>1. /\ requestedRFCN[n]
          /\ requestedRFCN' = [requestedRFCN EXCEPT ![n] = FALSE]
          /\ UNCHANGED <<route, waitingForDataRes>>
      BY <2>5 DEF RfcnWaitElapsed
    <3>2. Flags(requestedRFCN)' = [Flags(requestedRFCN) EXCEPT ![n] = FALSE]
      BY <1>t, <3>1, FlagChange
    <3>3. NextHops!StopAsking(n)
      BY <3>1, <3>2 DEF Flags, NextHops!StopAsking
    <3> QED  BY <3>3 DEF NextHops!Next
  <2>6. CASE HandleDATAAtNode(n)
    <3>1. ~ waitingForDataRes[n] /\ UNCHANGED <<route, requestedRFCN>>
      BY <2>6 DEF HandleDATAAtNode
    <3>2. \/ UNCHANGED waitingForDataRes
          \/ waitingForDataRes' = [waitingForDataRes EXCEPT ![n] = TRUE]
      BY <2>6 DEF HandleDATAAtNode
    <3> QED  BY <1>r, <1>s, <3>1, <3>2
  <2>7. CASE HandleDATARES(n)
    BY <2>7, ResetEndsRetry DEF HandleDATARES
  <2>8. CASE HandleNDAT(n)
    <3>1. PICK r \in Links[n] \X Links[n] : route' = [route EXCEPT ![n] = r]
      BY <2>8 DEF HandleNDAT
    <3>2. UNCHANGED <<waitingForDataRes, requestedRFCN>>
      BY <2>8 DEF HandleNDAT, retryVars
    <3>3. NextHops!Hear(n)
      BY <3>1, <3>2 DEF NextHops!Hear, NextHops!Heard
    <3> QED  BY <3>3 DEF NextHops!Next
  <2> QED  BY <1>3, <2>1, <2>2, <2>3, <2>4, <2>5, <2>6, <2>7, <2>8
           DEF UpdateNode, ConfirmDataRes
<1>4. ASSUME NEW n \in Nodes, NEW m \in Messages,
             SendData(n, m) \/ SendDataToSlot(n, m)
      PROVE  NextHops!Next \/ UNCHANGED NextHops!vars
  <2>1. CASE SendData(n, m)
    BY <1>r, <2>1 DEF SendData
  <2>2. CASE SendDataToSlot(n, m)
    BY <1>s, <2>2 DEF SendDataToSlot, retryVars
  <2> QED  BY <1>4, <2>1, <2>2
<1>5. ASSUME NEW d \in Devices, Reboot(d) \/ Rebegin(d)
      PROVE  NextHops!Next \/ UNCHANGED NextHops!vars
  BY <1>5, RestartIsRestart
<1> QED  BY <1>1, <1>2, <1>3, <1>4, <1>5 DEF Next

\* To routing the data plane is the abstract user of next hops: of all it
\* does only the escalation of a retry cycle, at most once before the RFCN
\* wait ends, and restarts take the next hops of a node away.
THEOREM NextHopsAreUsedAsPromised == Spec => ImplementsNextHop
<1>1. Init => NextHops!Init
  BY DEF Init, NextHops!Init, NextHops!Nowhere
<1>2. ASSUME TypeOK, RetryStateCoherent, [Next]_vars
      PROVE  [NextHops!Next]_(NextHops!vars)
  <2>1. CASE Next
    BY <1>2, <2>1, NextHopsStep
  <2>2. CASE UNCHANGED vars
    BY <2>2 DEF vars, retryVars, NextHops!vars
  <2> QED  BY <1>2, <2>1, <2>2
<1> QED
  BY <1>1, <1>2, TypeCorrect, RetryStateIsCoherent, PTL
     DEF Spec, ImplementsNextHop, NextHops!Spec
=============================================================================
