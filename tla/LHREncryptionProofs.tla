------------------------ MODULE LHREncryptionProofs ------------------------
(***************************************************************************)
(* Proofs about LHREncryption.  Two arguments.  Every step of a device is  *)
(* a step of its nonce counter or leaves it alone, so all that holds of    *)
(* the counter alone holds here.  And the frame on the air is, at every    *)
(* moment, the packet it stands for, built in plain or with some key and   *)
(* a counter below the search bound of the receivers.                      *)
(***************************************************************************)
EXTENDS LHREncryption, LHRNonceProofs

-----------------------------------------------------------------------------
(* The nonce counter *)

\* A step that builds a frame takes at most one counter.
LEMMA BuildIsNonceStep ==
  ASSUME NEW p, NEW m, BuildAndTransmit(p, m)
  PROVE  [Next]_vars
BY DEF BuildAndTransmit, NonceExhausted, Next

\* Every step of the device is one of its nonce counter, or none.
LEMMA EncStepIsNonceStep == [EncNext]_encVars => [Next]_vars
<1> SUFFICES ASSUME [EncNext]_encVars PROVE [Next]_vars
  OBVIOUS
<1>1. CASE SendNDAT
  BY <1>1, BuildIsNonceStep DEF SendNDAT
<1>2. CASE SendRFCN
  BY <1>2, BuildIsNonceStep DEF SendRFCN
<1>3. CASE SendData
  BY <1>3 DEF SendData
<1>4. CASE ForwardDataPacket
  BY <1>4, BuildIsNonceStep DEF ForwardDataPacket
<1>5. CASE TransmissionEnds
  BY <1>5 DEF TransmissionEnds
<1>6. CASE HandleDATA
  <2>1. PICK f \in PeerFrames :
          LET p == Read(enabled, key, f) IN
          BuildAndTransmit(DataRes(Self, p.sender, p.body.seq),
                           DataRes(Self, p.sender, p.body.seq))
    BY <1>6 DEF HandleDATA
  <2> QED
    BY <2>1, BuildIsNonceStep
<1>7. CASE HandleDATARES \/ GiveUp
  BY <1>7 DEF HandleDATARES, GiveUp, EndCycle
<1>8. CASE SetKey
  BY <1>8 DEF SetKey, Next
<1>9. CASE SwitchEncryption
  BY <1>9 DEF SwitchEncryption, Next
<1>10. CASE SetRoutingDataEnabled
  BY <1>10 DEF SetRoutingDataEnabled
<1>11. CASE RestartDevice
  BY <1>11 DEF RestartDevice, Next
<1>12. CASE UNCHANGED encVars
  BY <1>12 DEF encVars
<1> QED
  BY <1>1, <1>2, <1>3, <1>4, <1>5, <1>6, <1>7, <1>8, <1>9, <1>10, <1>11, <1>12
     DEF EncNext

\* A device that encrypts keeps to the specification of its nonce counter:
\* no frame, sent or not, built for the first time or again, takes a counter
\* in another way (_buildNonce() is the only caller of _nextNonceCounter()).
THEOREM EncryptionKeepsNonceSpec == EncSpec => Spec
<1>1. EncInit => Init
  BY DEF EncInit
<1>2. [EncNext]_encVars => [Next]_vars
  BY EncStepIsNonceStep
<1> QED
  BY <1>1, <1>2, PTL DEF EncSpec, Spec

\* No two frames of a device are encrypted under the same nonce, whatever it
\* sends, resends and fails to send, and however often it restarts, until it
\* encrypts after an enableEncryption(true) that failed with encryption on, or
\* fails to find a value in its store.
THEOREM NoncesAreUnique == EncSpec => []UniqueUntilLapse
BY EncryptionKeepsNonceSpec, CountersAreUnique, PTL

LEMMA TimesIsMonotone ==
  ASSUME NEW a \in Nat, NEW b \in Nat, NEW n \in Nat, a >= b
  PROVE  a * n >= b * n
<1>1. PICK d \in Nat : a = b + d
  <2>1. a - b \in Nat /\ a = b + (a - b)
    OBVIOUS
  <2> QED
    BY <2>1
<1>2. a * n = b * n + d * n
  BY <1>1
<1>3. b * n \in Nat /\ d * n \in Nat
  OBVIOUS
<1> QED
  BY <1>2, <1>3

\* The counter is found again by the search over the upper byte.
LEMMA CounterIsFound ==
  ASSUME NEW c \in Nat, c < CounterMax
  PROVE  c \in CounterGuesses(c % LowRange)
<1> DEFINE upper == c \div LowRange
<1>1. /\ LowRange \in Nat /\ LowRange > 0 /\ MaxAttempts \in Nat
      /\ CounterMax = MaxAttempts * LowRange - 1
  BY EncryptionAssumption
<1>2. /\ upper \in Nat /\ c % LowRange \in 0 .. LowRange - 1
      /\ c = (upper * LowRange) + (c % LowRange)
  BY <1>1
<1>3. upper <= MaxAttempts - 1
  <2>1. SUFFICES ASSUME upper >= MaxAttempts PROVE FALSE
    BY <1>1, <1>2
  <2> HIDE DEF upper
  <2>2. upper * LowRange >= MaxAttempts * LowRange
    BY <1>1, <1>2, <2>1, TimesIsMonotone
  <2>3. upper * LowRange \in Nat /\ MaxAttempts * LowRange \in Nat
    BY <1>1, <1>2
  <2> QED
    BY <1>1, <1>2, <2>2, <2>3
<1>4. upper \in 0 .. MaxAttempts - 1
  BY <1>1, <1>2, <1>3
<1>5. CounterGuesses(c % LowRange) =
        {u * LowRange + (c % LowRange) : u \in 0 .. MaxAttempts - 1}
  BY DEF CounterGuesses
<1> HIDE DEF upper
<1> QED
  BY <1>2, <1>4, <1>5, Zenon

-----------------------------------------------------------------------------
(* What is on the air *)

\* A packet whose body is what its type calls for.
WellFormed(p) ==
  /\ p \in Packets
  /\ p.type = "DATA" => p.body \in Contents

\* The frame on the air is the packet it stands for, in plain or encrypted
\* with a counter that receivers search, and fits the radio.
AirIsMeant ==
  air # Nothing =>
    /\ WellFormed(meant)
    /\ \/ air = PlainFrame(meant) /\ FrameLen(FALSE, meant) <= PhyMax
       \/ /\ FrameLen(TRUE, meant) <= PhyMax
          /\ \E k \in Keys, c \in Nat : c < CounterMax /\ air = SealedFrame(k, c, meant)

\* The packet being retried is the one accepted, but for its hop metadata.
BufferIsAccepted ==
  forwardBuf # Nothing =>
    /\ forwardBuf.source = accepted.source /\ forwardBuf.seq = accepted.seq
    /\ PlainLen.DATA + forwardBuf.len <= PhyMax

KeyWhileEnabled == enabled => keySet

\* EncTypeOK in three parts: configuration, retry buffer and air.
ConfigOK ==
  /\ key \in Keys \cup {NoKey} /\ (keySet => key \in Keys)
  /\ routingDataEnabled \in BOOLEAN /\ sealedThen \in BOOLEAN
BufferOK ==
  /\ forwardBuf \in Contents \cup {Nothing} /\ accepted \in Contents \cup {Nothing}
  /\ (forwardBuf = Nothing) <=> (accepted = Nothing)
AirOK ==
  /\ air \in Frames \cup {Nothing} /\ meant \in Packets \cup {Nothing}
  /\ (air = Nothing) <=> (meant = Nothing)

LinkInv ==
  /\ TypeOK /\ ConfigOK /\ BufferOK /\ AirOK
  /\ AirIsMeant /\ BufferIsAccepted /\ KeyWhileEnabled

\* A packet of each type is well formed.
LEMMA PacketsAreWellFormed ==
  /\ \A from \in Ids, to \in Ids, content \in Contents : WellFormed(Data(from, to, content))
  /\ \A from \in Ids, to \in Ids, q \in SeqNums \cup {Garbled} :
       WellFormed(DataRes(from, to, q))
  /\ \A from \in Ids, h \in Hops : WellFormed(Ndat(from, h))
  /\ \A sealed \in BOOLEAN : WellFormed(Rfcn(sealed))
<1>1. ASSUME NEW type \in Types, NEW from \in Ids, NEW to \in Ids, NEW body \in Bodies,
             type = "DATA" => body \in Contents
      PROVE  WellFormed([type |-> type, sender |-> from, receiver |-> to, body |-> body])
  BY <1>1 DEF WellFormed, Packets
<1>2. \A content \in Contents : content \in Bodies
  BY DEF Bodies
<1>3. \A q \in SeqNums \cup {Garbled} : [seq |-> q] \in Bodies
  BY DEF Bodies
<1>4. \A h \in Hops : [hops |-> h] \in Bodies
  BY DEF Bodies
<1>5. Nothing \in Bodies /\ NoId \in Ids /\ Self \in Ids
  BY DEF Bodies, Ids
<1>6. "DATA" \in Types /\ "NDAT" \in Types /\ "RFCN" \in Types /\ "DATA_RES" \in Types
  BY DEF Types
<1>7. \A from \in Ids, to \in Ids, content \in Contents : WellFormed(Data(from, to, content))
  BY <1>1, <1>2, <1>6 DEF Data
<1>8. \A from \in Ids, to \in Ids, q \in SeqNums \cup {Garbled} :
        WellFormed(DataRes(from, to, q))
  BY <1>1, <1>3, <1>6 DEF DataRes
<1>9. \A from \in Ids, h \in Hops : WellFormed(Ndat(from, h))
  BY <1>1, <1>4, <1>5, <1>6 DEF Ndat
<1>10. \A sealed \in BOOLEAN : WellFormed(Rfcn(sealed))
  BY <1>1, <1>5, <1>6 DEF Rfcn
<1> QED
  BY <1>7, <1>8, <1>9, <1>10

\* The header lengths of both layouts.
LEMMA HeaderLens ==
  /\ HeaderLen(FALSE, "DATA") = 16 /\ HeaderLen(TRUE, "DATA") = 23
  /\ HeaderLen(FALSE, "NDAT") = 7 /\ HeaderLen(TRUE, "NDAT") = 14
  /\ HeaderLen(FALSE, "RFCN") = 2 /\ HeaderLen(TRUE, "RFCN") = 13
  /\ HeaderLen(FALSE, "DATA_RES") = 11 /\ HeaderLen(TRUE, "DATA_RES") = 18
BY DEF HeaderLen, PlainLen, SealedLen

\* What FrameLen() makes of each packet type.
LEMMA FrameLens ==
  ASSUME NEW p, WellFormed(p)
  PROVE  /\ FrameLen(FALSE, p) \in Nat /\ FrameLen(TRUE, p) \in Nat
         /\ p.type = "NDAT" => FrameLen(FALSE, p) = 7 /\ FrameLen(TRUE, p) = 14
         /\ p.type = "RFCN" => FrameLen(FALSE, p) = 2 /\ FrameLen(TRUE, p) = 13
         /\ p.type = "DATA_RES" => FrameLen(FALSE, p) = 11 /\ FrameLen(TRUE, p) = 18
         /\ p.type = "DATA" => /\ FrameLen(FALSE, p) >= 16
                               /\ FrameLen(TRUE, p) >= 23
BY DEF WellFormed, Packets, Types, Contents, FrameLen, HeaderLen, PlainLen, SealedLen

\* A frame of a packet fits its own layout, and an encrypted one that of
\* plain mode only if it is DATA.
LEMMA LayoutsOfLengths ==
  ASSUME NEW p, WellFormed(p), NEW f,
         f.header.type = p.type, f.len <= PhyMax
  PROVE  /\ f.len = FrameLen(FALSE, p) => FitsLayout(FALSE, f)
         /\ f.len = FrameLen(TRUE, p) =>
              /\ FitsLayout(TRUE, f)
              /\ p.type # "DATA" => ~ FitsLayout(FALSE, f)
<1>1. p.type \in Types /\ PhyMax \in Nat
  BY EncryptionAssumption DEF WellFormed, Packets
<1> DEFINE t == f.header.type  n == f.len
<1>2. /\ FitsLayout(FALSE, f) <=> /\ n \in 2 .. PhyMax
                                  /\ t = "DATA" => n >= 16
                                  /\ t # "DATA" => n = PlainLen[t]
      /\ FitsLayout(TRUE, f) <=> /\ n \in 13 .. PhyMax
                                 /\ t = "DATA" => n >= 23
                                 /\ t # "DATA" => n = SealedLen[t]
  BY DEF FitsLayout, HeaderLen, PlainLen, SealedLen
<1>3. t = p.type /\ t \in Types /\ n <= PhyMax /\ PhyMax \in Nat
  BY <1>1
<1>4. ASSUME n = FrameLen(FALSE, p) PROVE FitsLayout(FALSE, f)
  <2>1. /\ n \in Nat
        /\ t = "NDAT" => n = 7
        /\ t = "RFCN" => n = 2
        /\ t = "DATA_RES" => n = 11
        /\ t = "DATA" => n >= 16
    BY <1>3, <1>4, FrameLens
  <2> HIDE DEF t, n
  <2>2. n \in 2 .. PhyMax
    BY <1>3, <2>1 DEF Types
  <2>3. t # "DATA" => n = PlainLen[t]
    BY <1>3, <2>1 DEF Types, PlainLen
  <2> QED
    BY <1>2, <2>1, <2>2, <2>3
<1>5. ASSUME n = FrameLen(TRUE, p) PROVE FitsLayout(TRUE, f)
  <2>1. /\ n \in Nat
        /\ t = "NDAT" => n = 14
        /\ t = "RFCN" => n = 13
        /\ t = "DATA_RES" => n = 18
        /\ t = "DATA" => n >= 23
    BY <1>3, <1>5, FrameLens
  <2> HIDE DEF t, n
  <2>2. n \in 13 .. PhyMax
    BY <1>3, <2>1 DEF Types
  <2>3. t # "DATA" => n = SealedLen[t]
    BY <1>3, <2>1 DEF Types, SealedLen
  <2> QED
    BY <1>2, <2>1, <2>2, <2>3
<1>6. ASSUME n = FrameLen(TRUE, p), t # "DATA" PROVE ~ FitsLayout(FALSE, f)
  <2>1. /\ t = "NDAT" => n = 14
        /\ t = "RFCN" => n = 13
        /\ t = "DATA_RES" => n = 18
        /\ t # "DATA"
    BY <1>3, <1>6, FrameLens
  <2> HIDE DEF t, n
  <2>2. n # PlainLen[t]
    BY <1>3, <2>1 DEF Types, PlainLen
  <2> QED
    BY <1>2, <2>1, <2>2
<1> QED
  BY <1>3, <1>4, <1>5, <1>6

\* Reading the header and the body gives the packet back.
LEMMA PacketOfParts ==
  ASSUME NEW p \in Packets
  PROVE  Packet(Header(p), p.body) = p /\ Header(p) \in Headers
BY DEF Packets, Headers, Packet, Header

LEMMA FramesOfPackets ==
  ASSUME NEW p, WellFormed(p)
  PROVE  /\ PlainFrame(p) \in Frames
         /\ \A k \in Keys, c \in Nat : SealedFrame(k, c, p) \in Frames
<1>1. /\ p \in Packets /\ Header(p) \in Headers
      /\ p.body \in Bodies /\ p.sender \in Ids
  BY PacketOfParts DEF WellFormed, Packets
<1>2. FrameLen(FALSE, p) \in Nat /\ FrameLen(TRUE, p) \in Nat
  BY FrameLens
<1>3. PlainFrame(p) \in Frames
  BY <1>1, <1>2 DEF PlainFrame, Frames
<1>4. ASSUME NEW k \in Keys, NEW c \in Nat
      PROVE  SealedFrame(k, c, p) \in Frames
  <2>1. Seal(k, p.sender, c, Header(p), p.body) \in Boxes
    BY <1>1 DEF Seal, Boxes
  <2>2. c % LowRange \in Nat
    BY EncryptionAssumption
  <2> QED
    BY <1>1, <1>2, <2>1, <2>2 DEF SealedFrame, Frames
<1> QED
  BY <1>3, <1>4

-----------------------------------------------------------------------------
(* Reading *)

\* A plain frame is read as the packet it was built from by every device in
\* plain mode, and discarded by every device that encrypts.
LEMMA PlainIsRead ==
  ASSUME NEW p, WellFormed(p), FrameLen(FALSE, p) <= PhyMax, NEW k
  PROVE  /\ Read(FALSE, k, PlainFrame(p)) = p
         /\ Read(TRUE, k, PlainFrame(p)) = Nothing
<1>1. FitsLayout(FALSE, PlainFrame(p))
  <2>1. /\ PlainFrame(p).header.type = p.type
        /\ PlainFrame(p).len = FrameLen(FALSE, p)
    BY DEF PlainFrame, Header
  <2> QED
    BY <2>1, LayoutsOfLengths
<1>2. Read(FALSE, k, PlainFrame(p)) = Packet(Header(p), p.body)
  BY <1>1 DEF Read, PlainFrame
<1>3. ~ Verifies(k, PlainFrame(p))
  BY DEF Verifies, PlainFrame
<1> QED
  BY <1>2, <1>3, PacketOfParts DEF WellFormed, Read

\* An encrypted frame is read as the packet it was built from by every device
\* with its key.
LEMMA SealedIsRead ==
  ASSUME NEW p, WellFormed(p), FrameLen(TRUE, p) <= PhyMax,
         NEW k, NEW c \in Nat, c < CounterMax
  PROVE  Read(TRUE, k, SealedFrame(k, c, p)) = p
<1> DEFINE f == SealedFrame(k, c, p)
<1>1. /\ f.sealed = TRUE /\ f.header = Header(p) /\ f.len = FrameLen(TRUE, p)
      /\ f.wire = c % LowRange /\ f.header.type = p.type /\ f.header.sender = p.sender
      /\ f.box = Seal(k, p.sender, c, Header(p), p.body)
  BY DEF SealedFrame, Header
<1>2. f.box.key = k /\ f.box.nonce = <<p.sender, c>> /\ f.box.aad = Header(p)
      /\ f.box.text = p.body
  BY <1>1 DEF Seal
<1> HIDE DEF f
<1>3. FitsLayout(TRUE, f)
  BY <1>1, LayoutsOfLengths
<1>4. Verifies(k, f)
  BY <1>1, <1>2, CounterIsFound DEF Verifies, Opens
<1>5. Read(TRUE, k, f) = p
  BY <1>1, <1>2, <1>3, <1>4, PacketOfParts DEF Read, WellFormed
<1> QED
  BY <1>5 DEF f

\* A device with another key discards it.
LEMMA OtherKeyDiscards ==
  ASSUME NEW f, NEW k, f.box.key # k
  PROVE  Read(TRUE, k, f) = Nothing
BY DEF Read, Verifies, Opens

\* A device in plain mode discards it unless it is a DATA.
LEMMA PlainDiscardsSealed ==
  ASSUME NEW p, NEW f, NEW k, WellFormed(p), FrameLen(TRUE, p) <= PhyMax,
         p.type # "DATA", f.header.type = p.type, f.len = FrameLen(TRUE, p)
  PROVE  Read(FALSE, k, f) = Nothing
<1>1. ~ FitsLayout(FALSE, f)
  BY LayoutsOfLengths
<1> QED
  BY <1>1 DEF Read

\* The lengths of a DATA frame in terms of its payload.
LEMMA DataLens ==
  ASSUME NEW p, p.type = "DATA"
  PROVE  FrameLen(FALSE, p) = 16 + p.body.len /\ FrameLen(TRUE, p) = 23 + p.body.len
BY DEF FrameLen, HeaderLen, PlainLen, SealedLen

\* What neighbours send is well formed and fits the radio.
LEMMA PeerFramesAreBuilt ==
  ASSUME NEW f \in PeerFrames
  PROVE  /\ f.len \in Nat /\ f.len <= PhyMax
         /\ \E p : /\ WellFormed(p)
                  /\ \/ f = PlainFrame(p)
                     \/ \E k \in Keys, c \in Nat : f = SealedFrame(k, c, p)
<1>1. PICK p \in PeerPackets :
        f = PlainFrame(p) \/ \E k \in Keys, c \in PeerCounters : f = SealedFrame(k, c, p)
  BY DEF PeerFrames
<1>2. WellFormed(p)
  <2>1. Payloads \subseteq Nat
    BY EncryptionAssumption
  <2> DEFINE datas == {Data(Peer, to, [source |-> Peer, seq |-> q, len |-> n]) :
                         to \in {Self, Other}, q \in SeqNums, n \in Payloads}
             dataRess == {DataRes(Peer, to, q) : to \in {Self, Other}, q \in SeqNums}
  <2>2. ASSUME p \in datas PROVE WellFormed(p)
    <3>1. PICK to \in {Self, Other}, q \in SeqNums, n \in Payloads :
                 p = Data(Peer, to, [source |-> Peer, seq |-> q, len |-> n])
      BY <2>2
    <3>2. [source |-> Peer, seq |-> q, len |-> n] \in Contents
      BY <2>1 DEF Contents, Ids
    <3> QED
      BY <3>1, <3>2, PacketsAreWellFormed DEF Ids
  <2>3. ASSUME p \in dataRess PROVE WellFormed(p)
    <3>1. PICK to \in {Self, Other}, q \in SeqNums : p = DataRes(Peer, to, q)
      BY <2>3
    <3> QED
      BY <3>1, PacketsAreWellFormed DEF Ids
  <2>4. PeerPackets = datas \cup dataRess
    BY DEF PeerPackets
  <2> HIDE DEF datas, dataRess
  <2> QED
    BY <2>2, <2>3, <2>4
<1>3. PeerCounters \subseteq Nat
  BY EncryptionAssumption
<1>4. f.len <= PhyMax
  BY DEF PeerFrames
<1>5. f.len \in Nat
  <2>1. ASSUME f = PlainFrame(p) PROVE f.len = FrameLen(FALSE, p)
    BY <2>1 DEF PlainFrame
  <2>2. ASSUME NEW k, NEW c, f = SealedFrame(k, c, p) PROVE f.len = FrameLen(TRUE, p)
    BY <2>2 DEF SealedFrame
  <2>3. FrameLen(FALSE, p) \in Nat /\ FrameLen(TRUE, p) \in Nat
    BY <1>2, FrameLens
  <2> QED
    BY <1>1, <2>1, <2>2, <2>3, Zenon
<1> QED
  BY <1>1, <1>2, <1>3, <1>4, <1>5

\* A DATA frame that is taken in, in whichever mode and from whichever mode,
\* fits its plain layout, and in encrypted mode its encrypted layout.
LEMMA DataTakenIn ==
  ASSUME NEW f \in PeerFrames, NEW sealed \in BOOLEAN, NEW k,
         Read(sealed, k, f) # Nothing, Read(sealed, k, f).type = "DATA"
  PROVE  LET p == Read(sealed, k, f) IN
         /\ p.sender \in Ids /\ p.body \in Contents
         /\ 16 + p.body.len <= PhyMax
         /\ sealed => 23 + p.body.len <= PhyMax
<1>1. PICK p : /\ WellFormed(p)
               /\ \/ f = PlainFrame(p)
                  \/ \E k2 \in Keys, c \in Nat : f = SealedFrame(k2, c, p)
  BY PeerFramesAreBuilt
<1>2. f.len \in Nat /\ f.len <= PhyMax
  BY PeerFramesAreBuilt
<1> DEFINE text == IF sealed THEN f.box.text ELSE IF f.sealed THEN GarbledBody(f) ELSE f.box
<1>3. /\ FitsLayout(sealed, f) /\ (sealed => Verifies(k, f))
      /\ Read(sealed, k, f) = Packet(f.header, text)
  BY DEF Read
<1>4. f.header = Header(p)
  <2>1. ASSUME f = PlainFrame(p) PROVE f.header = Header(p)
    BY <2>1 DEF PlainFrame
  <2>2. ASSUME NEW k2, NEW c, f = SealedFrame(k2, c, p) PROVE f.header = Header(p)
    BY <2>2 DEF SealedFrame
  <2> QED
    BY <1>1, <2>1, <2>2, Zenon
<1>5. /\ p.type = "DATA" /\ p.body \in Contents /\ p.sender \in Ids
      /\ Read(sealed, k, f).sender = p.sender /\ Read(sealed, k, f).body = text
  <2>1. /\ Packet(Header(p), text).type = p.type /\ Packet(Header(p), text).body = text
        /\ Packet(Header(p), text).sender = p.sender
    BY DEF Packet, Header
  <2> QED
    BY <1>1, <1>3, <1>4, <2>1 DEF WellFormed, Packets
<1>6. p.body.len \in Nat
  BY <1>5 DEF Contents
<1>7. CASE sealed
  <2>1. f.sealed = TRUE
    BY <1>3, <1>7 DEF Verifies
  <2>2. PICK k2 \in Keys, c \in Nat : f = SealedFrame(k2, c, p)
    <3>1. ASSUME f = PlainFrame(p) PROVE f.sealed = FALSE
      BY <3>1 DEF PlainFrame
    <3> QED
      BY <1>1, <2>1, <3>1
  <2>3. f.len = 23 + p.body.len
    <3>1. f.len = FrameLen(TRUE, p)
      BY <2>2 DEF SealedFrame
    <3> QED
      BY <1>5, <3>1, DataLens
  <2>4. text = p.body
    <3>1. f.box.text = p.body
      BY <2>2 DEF SealedFrame, Seal
    <3> QED
      BY <1>7, <3>1
  <2> HIDE DEF text
  <2>5. 23 + p.body.len <= PhyMax /\ 16 + p.body.len <= PhyMax
    BY <1>2, <1>6, <2>3, EncryptionAssumption
  <2> QED
    BY <1>5, <2>4, <2>5
<1>8. CASE ~ sealed /\ f.sealed
  <2>1. text = [source |-> Garbled, seq |-> Garbled, len |-> f.len - 16]
    <3>1. f.header.type = "DATA"
      BY <1>4, <1>5 DEF Header
    <3> QED
      BY <1>8, <3>1 DEF GarbledBody, PlainLen
  <2>2. f.len >= 16
    <3>1. f.header.type = "DATA"
      BY <1>4, <1>5 DEF Header
    <3> QED
      BY <1>3, <1>8, <3>1, HeaderLens DEF FitsLayout
  <2>3. text \in Contents
    BY <1>2, <2>1, <2>2 DEF Contents
  <2>4. 16 + text.len <= PhyMax
    BY <1>2, <2>1, <2>2, EncryptionAssumption
  <2> QED
    BY <1>5, <1>8, <2>3, <2>4
<1>9. CASE ~ sealed /\ ~ f.sealed
  <2>1. f = PlainFrame(p)
    <3>1. ASSUME NEW k2, NEW c, f = SealedFrame(k2, c, p) PROVE f.sealed = TRUE
      BY <3>1 DEF SealedFrame
    <3> QED
      BY <1>1, <1>9, <3>1
  <2>2. f.len = 16 + p.body.len
    <3>1. f.len = FrameLen(FALSE, p)
      BY <2>1 DEF PlainFrame
    <3> QED
      BY <1>5, <3>1, DataLens
  <2>3. text = p.body
    <3>1. f.box = p.body
      BY <2>1 DEF PlainFrame
    <3> QED
      BY <1>9, <3>1
  <2> HIDE DEF text
  <2> QED
    BY <1>2, <1>5, <1>9, <2>2, <2>3
<1> QED
  BY <1>7, <1>8, <1>9

-----------------------------------------------------------------------------
(* The inductive invariant *)

\* Building and transmitting a well-formed packet that fits the present
\* layout leaves a frame on the air that stands for it, or nothing new.
LEMMA BuildKeepsAir ==
  ASSUME LinkInv, NEW p, WellFormed(p),
         ~ enabled => FrameLen(FALSE, p) <= PhyMax,
         enabled => FrameLen(TRUE, p) <= PhyMax,
         BuildAndTransmit(p, p)
  PROVE  AirOK' /\ AirIsMeant' /\ keySet' = keySet /\ KeyWhileEnabled'
<1>1. AirOK /\ AirIsMeant /\ KeyWhileEnabled /\ (keySet => key \in Keys)
  BY DEF LinkInv, ConfigOK
<1>2. keySet' = keySet /\ (enabled' = enabled)
  BY DEF BuildAndTransmit, NextNonceCounter, NextNonceCounterFails, NonceExhausted,
         vars, ramVars
<1>3. KeyWhileEnabled'
  BY <1>1, <1>2 DEF KeyWhileEnabled
<1>4. p # Nothing /\ p \in Packets
  BY NothingAssumption DEF WellFormed
<1>5. CASE UNCHANGED airVars
  BY <1>1, <1>2, <1>3, <1>5 DEF airVars, AirOK, AirIsMeant
<1>6. CASE ~ enabled /\ air' = PlainFrame(p) /\ meant' = p
  <2>1. air' \in Frames /\ air' # Nothing
    BY <1>6, FramesOfPackets, NothingAssumption
  <2>2. AirIsMeant'
    BY <1>6 DEF AirIsMeant
  <2> QED
    BY <1>2, <1>3, <1>4, <1>6, <2>1, <2>2 DEF AirOK
<1>7. CASE NextNonceCounter /\ air' = SealedFrame(key, counter, p) /\ meant' = p
  <2>1. enabled /\ key \in Keys /\ counter \in Nat /\ counter < CounterMax
    BY <1>1, <1>7, NonceAssumption
       DEF KeyWhileEnabled, NextNonceCounter, LinkInv, TypeOK, Counters
  <2>2. air' \in Frames /\ air' # Nothing
    BY <1>7, <2>1, FramesOfPackets, NothingAssumption
  <2>3. AirIsMeant'
    BY <1>7, <2>1 DEF AirIsMeant
  <2> QED
    BY <1>2, <1>3, <1>4, <1>7, <2>2, <2>3 DEF AirOK
<1> QED
  BY <1>5, <1>6, <1>7 DEF BuildAndTransmit, Transmit

\* Packets that carry no payload always fit.
LEMMA ShortPacketsFit ==
  ASSUME NEW p, WellFormed(p), p.type # "DATA"
  PROVE  FrameLen(FALSE, p) <= PhyMax /\ FrameLen(TRUE, p) <= PhyMax
<1>1. p.type \in Types
  BY DEF WellFormed, Packets
<1> DEFINE m == FrameLen(FALSE, p)  n == FrameLen(TRUE, p)
<1>2. /\ m \in Nat /\ n \in Nat
      /\ p.type = "NDAT" => m = 7 /\ n = 14
      /\ p.type = "RFCN" => m = 2 /\ n = 13
      /\ p.type = "DATA_RES" => m = 11 /\ n = 18
  BY FrameLens
<1> HIDE DEF m, n
<1>3. m <= PhyMax /\ n <= PhyMax
  BY <1>1, <1>2, EncryptionAssumption DEF Types
<1> QED
  BY <1>3 DEF m, n

LEMMA LinkInit == EncInit => LinkInv
<1> SUFFICES ASSUME EncInit PROVE LinkInv
  OBVIOUS
<1>1. TypeOK
  BY InitIsSafe DEF EncInit, IInv
<1>2. ConfigOK /\ BufferOK /\ AirOK /\ AirIsMeant /\ BufferIsAccepted /\ KeyWhileEnabled
  BY DEF EncInit, Init, ConfigOK, BufferOK, AirOK, AirIsMeant, BufferIsAccepted,
         KeyWhileEnabled
<1> QED
  BY <1>1, <1>2 DEF LinkInv

\* sendData(): what is accepted fits the layout of the mode it is accepted in.
LEMMA SendDataKeepsLink ==
  ASSUME LinkInv, SendData
  PROVE  BufferOK' /\ BufferIsAccepted' /\ sealedThen' \in BOOLEAN
<1>1. PICK q \in SeqNums, n \in Payloads :
        /\ n <= MaxPayload(enabled)
        /\ forwardBuf' = [source |-> Self, seq |-> q, len |-> n]
  BY DEF SendData
<1>2. n \in Nat /\ PhyMax \in Nat
  BY EncryptionAssumption
<1>3. forwardBuf' \in Contents /\ forwardBuf'.len = n
  BY <1>1, <1>2 DEF Contents, Ids
<1>4. accepted' = forwardBuf' /\ sealedThen' = enabled /\ enabled \in BOOLEAN
  BY DEF SendData, LinkInv, TypeOK
<1>5. forwardBuf' # Nothing
  BY <1>3, NothingAssumption
<1>6. CASE enabled
  <2>1. 23 + n <= PhyMax
    BY <1>1, <1>2, <1>6 DEF MaxPayload, HeaderLen, SealedLen
  <2> QED
    BY <1>2, <1>3, <1>4, <1>5, <2>1 DEF BufferOK, BufferIsAccepted, PlainLen, SealedLen
<1>7. CASE ~ enabled
  <2>1. 16 + n <= PhyMax
    BY <1>1, <1>2, <1>7 DEF MaxPayload, HeaderLen, PlainLen
  <2> QED
    BY <1>2, <1>3, <1>4, <1>5, <1>7, <2>1 DEF BufferOK, BufferIsAccepted, PlainLen
<1> QED
  BY <1>6, <1>7

\* _appendHopMetadata() keeps within the plain layout and to the packet.
LEMMA MetadataKeepsPlain ==
  ASSUME NEW content \in Contents, 16 + content.len <= PhyMax
  PROVE  LET c == WithHopMetadata(content) IN
         /\ c \in Contents /\ c.source = content.source /\ c.seq = content.seq
         /\ 16 + c.len <= PhyMax
<1>1. MetaLen \in Nat /\ content.len \in Nat
  BY EncryptionAssumption DEF Contents
<1>2. CASE routingDataEnabled /\ HasRoomForMetadata(content)
  <2>1. WithHopMetadata(content) = [content EXCEPT !.len = content.len + MetaLen]
    BY <1>2 DEF WithHopMetadata
  <2>2. 16 + (content.len + MetaLen) <= PhyMax
    BY <1>1, <1>2, EncryptionAssumption DEF HasRoomForMetadata, PlainLen
  <2> QED
    BY <1>1, <2>1, <2>2 DEF Contents
<1>3. CASE ~ (routingDataEnabled /\ HasRoomForMetadata(content))
  BY <1>3 DEF WithHopMetadata
<1> QED
  BY <1>2, <1>3

\* _handleDATA(): acknowledge and queue.
LEMMA HandleDATAKeepsLink ==
  ASSUME LinkInv, HandleDATA
  PROVE  /\ AirOK' /\ AirIsMeant' /\ keySet' = keySet /\ KeyWhileEnabled'
         /\ BufferOK' /\ BufferIsAccepted' /\ sealedThen' \in BOOLEAN
<1>1. PICK f \in PeerFrames :
        LET p == Read(enabled, key, f) IN
        /\ p # Nothing /\ p.type = "DATA" /\ p.receiver = Self
        /\ BuildAndTransmit(DataRes(Self, p.sender, p.body.seq),
                            DataRes(Self, p.sender, p.body.seq))
        /\ \/ /\ forwardBuf' = WithHopMetadata(p.body)
              /\ accepted' = p.body /\ sealedThen' = enabled
           \/ UNCHANGED <<forwardBuf, accepted, sealedThen>>
  BY DEF HandleDATA
<1> DEFINE p == Read(enabled, key, f)
<1>2. enabled \in BOOLEAN
  BY DEF LinkInv, TypeOK
<1>3. /\ p.sender \in Ids /\ p.body \in Contents
      /\ 16 + p.body.len <= PhyMax
      /\ enabled => 23 + p.body.len <= PhyMax
  BY <1>1, <1>2, DataTakenIn
<1> HIDE DEF p
<1>4. Self \in Ids /\ p.body.seq \in SeqNums \cup {Garbled}
  BY <1>3 DEF Ids, Contents
<1>5. WellFormed(DataRes(Self, p.sender, p.body.seq))
  BY <1>3, <1>4, PacketsAreWellFormed
<1>6. DataRes(Self, p.sender, p.body.seq).type # "DATA"
  BY DEF DataRes
<1>7. AirOK' /\ AirIsMeant' /\ keySet' = keySet /\ KeyWhileEnabled'
  BY <1>1, <1>5, <1>6, ShortPacketsFit, BuildKeepsAir DEF p
<1>8. CASE /\ forwardBuf' = WithHopMetadata(p.body)
           /\ accepted' = p.body /\ sealedThen' = enabled
  <2> DEFINE body == p.body
  <2>1. /\ WithHopMetadata(body) \in Contents
        /\ WithHopMetadata(body).source = body.source
        /\ WithHopMetadata(body).seq = body.seq
        /\ 16 + WithHopMetadata(body).len <= PhyMax
    BY <1>3, MetadataKeepsPlain
  <2>2. body \in Contents /\ (enabled => 23 + body.len <= PhyMax)
    BY <1>3
  <2>3. forwardBuf' = WithHopMetadata(body) /\ accepted' = body /\ sealedThen' = enabled
    BY <1>8
  <2> HIDE DEF body
  <2>4. BufferOK'
    BY <2>1, <2>2, <2>3, NothingAssumption DEF BufferOK
  <2>5. BufferIsAccepted'
    BY <2>1, <2>2, <2>3 DEF BufferIsAccepted, PlainLen, SealedLen
  <2> QED
    BY <1>2, <1>7, <2>3, <2>4, <2>5
<1>9. CASE UNCHANGED <<forwardBuf, accepted, sealedThen>>
  BY <1>7, <1>9 DEF LinkInv, ConfigOK, BufferOK, BufferIsAccepted
<1> QED
  BY <1>1, <1>8, <1>9 DEF p

\* _forwardDataPacket(): the frame says what was accepted, whichever attempt
\* it is and in whichever mode it is built.
LEMMA ForwardKeepsLink ==
  ASSUME LinkInv, ForwardDataPacket
  PROVE  /\ AirOK' /\ AirIsMeant' /\ keySet' = keySet /\ KeyWhileEnabled'
         /\ UNCHANGED <<forwardBuf, accepted, sealedThen>>
<1> DEFINE p == Data(Self, Peer, forwardBuf)
<1>1. /\ forwardBuf \in Contents /\ accepted \in Contents
      /\ forwardBuf.source = accepted.source /\ forwardBuf.seq = accepted.seq
      /\ 16 + forwardBuf.len <= PhyMax
  BY NothingAssumption
     DEF ForwardDataPacket, LinkInv, BufferOK, BufferIsAccepted, PlainLen
<1>2. [accepted EXCEPT !.len = forwardBuf.len] = forwardBuf
  BY <1>1 DEF Contents
<1>3. BuildAndTransmit(p, p)
  BY <1>2 DEF ForwardDataPacket
<1>4. WellFormed(p)
  BY <1>1, PacketsAreWellFormed DEF Ids
<1>5. p.type = "DATA" /\ p.body = forwardBuf
  BY DEF Data
<1>6. enabled => 23 + forwardBuf.len <= PhyMax
  <2>1. enabled => forwardBuf.len <= PhyMax - 23
    BY DEF ForwardDataPacket, MaxPayload, HeaderLen, SealedLen
  <2> QED
    BY <1>1, <2>1, EncryptionAssumption DEF Contents
<1> HIDE DEF p
<1>7. FrameLen(FALSE, p) = 16 + forwardBuf.len /\ FrameLen(TRUE, p) = 23 + forwardBuf.len
  BY <1>5, DataLens
<1>8. AirOK' /\ AirIsMeant' /\ keySet' = keySet /\ KeyWhileEnabled'
  BY <1>1, <1>3, <1>4, <1>6, <1>7, BuildKeepsAir
<1> QED
  BY <1>8 DEF ForwardDataPacket, AfterBuild

\* Every step preserves the invariant.
LEMMA LinkStep == LinkInv /\ [EncNext]_encVars => LinkInv'
<1> SUFFICES ASSUME LinkInv, [EncNext]_encVars PROVE LinkInv'
  OBVIOUS
<1>0. TypeOK'
  BY EncStepIsNonceStep, StepKeepsTypes DEF LinkInv
<1> DEFINE
      Same == UNCHANGED <<key, routingDataEnabled, forwardBuf, accepted, sealedThen>>
<1>a. ASSUME Same, AirOK', AirIsMeant', keySet' = keySet, KeyWhileEnabled'
      PROVE  LinkInv'
  BY <1>0, <1>a DEF LinkInv, ConfigOK, BufferOK, BufferIsAccepted
<1>b. ASSUME UNCHANGED airVars PROVE AirOK' /\ AirIsMeant'
  BY <1>b DEF airVars, LinkInv, AirOK, AirIsMeant
<1>1. CASE SendNDAT
  <2>1. PICK h \in Hops : BuildAndTransmit(Ndat(Self, h), Ndat(Self, h))
    BY <1>1 DEF SendNDAT
  <2>2. WellFormed(Ndat(Self, h)) /\ Ndat(Self, h).type # "DATA"
    BY PacketsAreWellFormed DEF Ndat, Ids
  <2>3. Same
    BY <1>1 DEF SendNDAT, linkVars
  <2> QED
    BY <1>a, <2>1, <2>2, <2>3, ShortPacketsFit, BuildKeepsAir
<1>2. CASE SendRFCN
  <2>1. BuildAndTransmit(Rfcn(enabled), Rfcn(enabled)) /\ enabled \in BOOLEAN
    BY <1>2 DEF SendRFCN, LinkInv, TypeOK
  <2>2. WellFormed(Rfcn(enabled)) /\ Rfcn(enabled).type # "DATA"
    BY <2>1, PacketsAreWellFormed DEF Rfcn
  <2>3. Same
    BY <1>2 DEF SendRFCN, linkVars
  <2> QED
    BY <1>a, <2>1, <2>2, <2>3, ShortPacketsFit, BuildKeepsAir
<1>3. CASE SendData
  <2>1. /\ UNCHANGED <<key, routingDataEnabled, airVars>>
        /\ keySet' = keySet /\ enabled' = enabled
    BY <1>3 DEF SendData, vars, ramVars
  <2>2. ConfigOK' /\ KeyWhileEnabled'
    BY <1>3, <2>1, SendDataKeepsLink DEF LinkInv, ConfigOK, KeyWhileEnabled
  <2> QED
    BY <1>0, <1>3, <1>b, <2>1, <2>2, SendDataKeepsLink DEF LinkInv
<1>4. CASE ForwardDataPacket
  <2>1. Same
    BY <1>4, ForwardKeepsLink DEF ForwardDataPacket
  <2> QED
    BY <1>4, <1>a, <2>1, ForwardKeepsLink
<1>5. CASE TransmissionEnds
  <2>1. Same /\ keySet' = keySet /\ KeyWhileEnabled'
    BY <1>5 DEF TransmissionEnds, linkVars, vars, ramVars, LinkInv, KeyWhileEnabled
  <2>2. AirOK' /\ AirIsMeant'
    BY <1>5 DEF TransmissionEnds, AirOK, AirIsMeant
  <2> QED
    BY <1>a, <2>1, <2>2
<1>6. CASE HandleDATA
  <2>1. UNCHANGED <<key, routingDataEnabled>>
    BY <1>6 DEF HandleDATA
  <2>2. ConfigOK'
    BY <1>6, <2>1, HandleDATAKeepsLink DEF LinkInv, ConfigOK
  <2> QED
    BY <1>0, <1>6, <2>2, HandleDATAKeepsLink DEF LinkInv
<1>7. CASE HandleDATARES \/ GiveUp
  <2>1. EndCycle
    BY <1>7 DEF HandleDATARES, GiveUp
  <2>2. /\ UNCHANGED <<key, routingDataEnabled, sealedThen, airVars>>
        /\ keySet' = keySet /\ enabled' = enabled
        /\ forwardBuf' = Nothing /\ accepted' = Nothing
    BY <2>1 DEF EndCycle, vars, ramVars
  <2>3. ConfigOK' /\ KeyWhileEnabled' /\ BufferOK' /\ BufferIsAccepted'
    BY <2>2 DEF LinkInv, ConfigOK, KeyWhileEnabled, BufferOK, BufferIsAccepted
  <2> QED
    BY <1>0, <1>b, <2>2, <2>3 DEF LinkInv
<1>8. CASE SetKey
  <2>1. /\ keySet' = TRUE /\ enabled' = enabled /\ key' \in Keys
        /\ UNCHANGED <<routingDataEnabled, forwardBuf, accepted, sealedThen, airVars>>
    BY <1>8 DEF SetKey, SetEncryptionKey
  <2>2. ConfigOK' /\ KeyWhileEnabled' /\ BufferOK' /\ BufferIsAccepted'
    BY <2>1 DEF LinkInv, ConfigOK, KeyWhileEnabled, BufferOK, BufferIsAccepted
  <2> QED
    BY <1>0, <1>b, <2>1, <2>2 DEF LinkInv
<1>9. CASE SwitchEncryption
  <2>1. Same /\ UNCHANGED airVars /\ keySet' = keySet
    BY <1>9 DEF SwitchEncryption, EnableEncryption, DisableEncryption, linkVars
  <2>2. KeyWhileEnabled'
    <3>1. CASE EnableEncryption
      BY <3>1 DEF EnableEncryption, KeyWhileEnabled
    <3>2. CASE DisableEncryption
      BY <3>2 DEF DisableEncryption, KeyWhileEnabled
    <3> QED
      BY <1>9, <3>1, <3>2 DEF SwitchEncryption
  <2> QED
    BY <1>a, <1>b, <2>1, <2>2
<1>10. CASE SetRoutingDataEnabled
  <2>1. /\ routingDataEnabled' \in BOOLEAN /\ keySet' = keySet /\ enabled' = enabled
        /\ UNCHANGED <<key, forwardBuf, accepted, sealedThen, airVars>>
    BY <1>10 DEF SetRoutingDataEnabled, vars, ramVars
  <2>2. ConfigOK' /\ KeyWhileEnabled' /\ BufferOK' /\ BufferIsAccepted'
    BY <2>1 DEF LinkInv, ConfigOK, KeyWhileEnabled, BufferOK, BufferIsAccepted
  <2> QED
    BY <1>0, <1>b, <2>1, <2>2 DEF LinkInv
<1>11. CASE RestartDevice
  <2>1. ConfigOK' /\ KeyWhileEnabled' /\ BufferOK' /\ BufferIsAccepted'
    BY <1>11 DEF RestartDevice, PowerCycle, ConfigOK, KeyWhileEnabled, BufferOK,
                 BufferIsAccepted
  <2>2. AirOK' /\ AirIsMeant'
    BY <1>11 DEF RestartDevice, AirOK, AirIsMeant
  <2> QED
    BY <1>0, <2>1, <2>2 DEF LinkInv
<1>12. CASE UNCHANGED encVars
  <2>1. Same /\ UNCHANGED airVars /\ keySet' = keySet /\ KeyWhileEnabled'
    BY <1>12 DEF encVars, linkVars, vars, ramVars, LinkInv, KeyWhileEnabled
  <2> QED
    BY <1>a, <1>b, <2>1
<1> QED
  BY <1>1, <1>2, <1>3, <1>4, <1>5, <1>6, <1>7, <1>8, <1>9, <1>10, <1>11, <1>12
     DEF EncNext

LEMMA LinkInvHolds == EncSpec => []LinkInv
BY LinkInit, LinkStep, PTL DEF EncSpec

-----------------------------------------------------------------------------
(* Theorems *)

\* Every variable keeps to its type, for all keys, payloads and radio sizes.
THEOREM EncTypesKept == EncSpec => []EncTypeOK
<1>1. LinkInv => EncTypeOK
  BY DEF LinkInv, ConfigOK, BufferOK, AirOK, EncTypeOK
<1> QED
  BY <1>1, LinkInvHolds, PTL

\* Devices in the mode of a frame and with its key read it as it was meant,
\* for every counter up to the limit of _nextNonceCounter(), every split of
\* the counter into a wire part and a searched part, and every resend.
THEOREM FramesAreUnderstood == EncSpec => []Understood
<1>1. LinkInv => Understood
  <2> SUFFICES ASSUME LinkInv, air # Nothing,
                      NEW sealed \in BOOLEAN, NEW k \in Keys, BuiltFor(sealed, k)
               PROVE  Read(sealed, k, air) = meant
    BY DEF Understood
  <2>1. WellFormed(meant)
    BY DEF LinkInv, AirIsMeant
  <2>2. CASE air = PlainFrame(meant) /\ FrameLen(FALSE, meant) <= PhyMax
    <3>1. air.sealed = FALSE
      BY <2>2 DEF PlainFrame
    <3>2. sealed = FALSE
      BY <3>1 DEF BuiltFor
    <3> QED
      BY <2>1, <2>2, <3>2, PlainIsRead
  <2>3. CASE /\ FrameLen(TRUE, meant) <= PhyMax
             /\ \E k2 \in Keys, c \in Nat : c < CounterMax /\ air = SealedFrame(k2, c, meant)
    <3>1. PICK k2 \in Keys, c \in Nat : c < CounterMax /\ air = SealedFrame(k2, c, meant)
      BY <2>3
    <3>2. air.sealed = TRUE /\ air.box.key = k2
      BY <3>1 DEF SealedFrame, Seal
    <3>3. sealed = TRUE /\ k = k2
      BY <3>2 DEF BuiltFor
    <3> QED
      BY <2>1, <2>3, <3>1, <3>3, SealedIsRead
  <2> QED
    BY <2>2, <2>3 DEF LinkInv, AirIsMeant
<1> QED
  BY <1>1, LinkInvHolds, PTL

\* No device takes a frame of the other mode or of another key for anything,
\* but for an encrypted DATA that reaches a device in plain mode.
THEOREM FramesAreDiscardedByOthers == EncSpec => []OthersDiscard
<1>1. LinkInv => OthersDiscard
  <2> SUFFICES ASSUME LinkInv, air # Nothing,
                      NEW sealed \in BOOLEAN, NEW k \in Keys, ~ BuiltFor(sealed, k)
               PROVE  \/ Read(sealed, k, air) = Nothing
                      \/ air.sealed /\ ~ sealed /\ air.header.type = "DATA"
    BY DEF OthersDiscard
  <2>1. WellFormed(meant)
    BY DEF LinkInv, AirIsMeant
  <2>2. CASE air = PlainFrame(meant) /\ FrameLen(FALSE, meant) <= PhyMax
    <3>1. air.sealed = FALSE
      BY <2>2 DEF PlainFrame
    <3>2. sealed = TRUE
      BY <3>1 DEF BuiltFor
    <3> QED
      BY <2>1, <2>2, <3>2, PlainIsRead
  <2>3. CASE /\ FrameLen(TRUE, meant) <= PhyMax
             /\ \E k2 \in Keys, c \in Nat : c < CounterMax /\ air = SealedFrame(k2, c, meant)
    <3>1. PICK k2 \in Keys, c \in Nat : c < CounterMax /\ air = SealedFrame(k2, c, meant)
      BY <2>3
    <3>2. /\ air.sealed = TRUE /\ air.box.key = k2
          /\ air.header.type = meant.type /\ air.len = FrameLen(TRUE, meant)
      BY <3>1 DEF SealedFrame, Seal, Header
    <3>3. sealed = FALSE \/ (sealed = TRUE /\ k # k2)
      BY <3>2 DEF BuiltFor
    <3>4. /\ k # k2 => Read(TRUE, k, air) = Nothing
          /\ meant.type # "DATA" => Read(FALSE, k, air) = Nothing
      BY <2>1, <2>3, <3>2, OtherKeyDiscards, PlainDiscardsSealed
    <3>5. CASE sealed = FALSE
      <4>1. meant.type # "DATA" => Read(sealed, k, air) = Nothing
        BY <3>4, <3>5
      <4>2. ~ sealed /\ air.sealed
        BY <3>2, <3>5
      <4> QED
        BY <3>2, <4>1, <4>2
    <3>6. CASE sealed = TRUE /\ k # k2
      BY <3>4, <3>6
    <3> QED
      BY <3>3, <3>5, <3>6
  <2> QED
    BY <2>2, <2>3 DEF LinkInv, AirIsMeant
<1> QED
  BY <1>1, LinkInvHolds, PTL

\* No frame and no stored packet outgrows its buffer, for every radio size,
\* payload length and length of the hop metadata block.
THEOREM BuffersAlwaysHold == EncSpec => []BuffersHold
<1>1. LinkInv => BuffersHold
  <2> SUFFICES ASSUME LinkInv PROVE BuffersHold
    OBVIOUS
  <2>1. ASSUME air # Nothing PROVE air.len <= PhyMax
    <3>1. CASE air = PlainFrame(meant) /\ FrameLen(FALSE, meant) <= PhyMax
      BY <3>1 DEF PlainFrame
    <3>2. ASSUME NEW k, NEW c, air = SealedFrame(k, c, meant),
                 FrameLen(TRUE, meant) <= PhyMax
          PROVE  air.len <= PhyMax
      BY <3>2 DEF SealedFrame
    <3> QED
      BY <2>1, <3>1, <3>2 DEF LinkInv, AirIsMeant
  <2>2. forwardBuf # Nothing => PlainLen.DATA + forwardBuf.len <= PhyMax
    BY DEF LinkInv, BufferIsAccepted
  <2> QED
    BY <2>1, <2>2 DEF BuffersHold
<1> QED
  BY <1>1, LinkInvHolds, PTL
=============================================================================
