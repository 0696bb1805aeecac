--------------------------- MODULE LHREncryption ---------------------------
(***************************************************************************)
(* What goes over the air.  One device, Self, originates and relays DATA,  *)
(* acknowledges it and advertises, in plain or in encrypted mode; its      *)
(* frames are read, and the frames it reads are built, by neighbours in    *)
(* either mode and with any key.  LHRNonce supplies the counter of every   *)
(* encrypted frame; the nonce is the sender's id and that counter, but     *)
(* only the low three bytes of the counter travel.                         *)
(*                                                                         *)
(* The cipher is ideal: what it seals opens under the same key, nonce and  *)
(* authenticated data only.  No field of a frame says in which mode it was *)
(* built: a device parses it in its own, and goes by its length.           *)
(***************************************************************************)
EXTENDS LHRNonce

CONSTANTS
  Self, Peer, Other,  \* device ids: this device, its next hop, one more
  NoId,               \* LHR_FORBIDDEN_NODE_ID: here, every device in range
  Keys, NoKey,        \* encryption keys, and none
  LowRange,           \* 2^24, the values of a wire counter
  MaxAttempts,        \* LHR_NONCE_UPPER_BYTE_MAX_ATTEMPTS
  PhyMax,             \* LORA_PHY_MAX_PACKET_SIZE
  MetaLen,            \* LHR_HOP_META_LEN
  Payloads,           \* bound: payload lengths applications hand to sendData()
  Hops,               \* bound: hop counts that are advertised
  SeqNums,            \* bound: sequence numbers
  PeerCounters,       \* bound: counters of the frames neighbours build
  Nothing, Garbled    \* no frame or packet; a field read from ciphertext

ASSUME EncryptionAssumption ==
  /\ LowRange \in Nat \ {0} /\ MaxAttempts \in Nat \ {0}
  /\ CounterMax = MaxAttempts * LowRange - 1
  /\ PhyMax \in 32 .. 255 /\ MetaLen \in Nat \ {0}
  /\ Payloads \subseteq Nat \ {0}
  /\ PeerCounters \subseteq Nat
  /\ NoKey \notin Keys
  /\ Self \notin {Peer, Other, NoId}

Types    == {"DATA", "NDAT", "RFCN", "DATA_RES"}
Ids      == {Self, Peer, Other, NoId}
Contents == [source : Ids \cup {Garbled}, seq : SeqNums \cup {Garbled}, len : Nat]
Bodies   == Contents \cup [hops : Hops] \cup [seq : SeqNums \cup {Garbled}]
            \cup {Garbled, Nothing}
Headers  == [type : Types, sender : Ids, receiver : Ids]
Packets  == [type : Types, sender : Ids, receiver : Ids, body : Bodies]

\* An encrypted body, with all that went into its encryption.
Boxes    == [key : Keys \cup {NoKey}, nonce : Ids \X Nat, aad : Headers, text : Bodies]
Frames   == [sealed : BOOLEAN, header : Headers, len : Nat, wire : Nat,
             box : Boxes \cup Bodies]

ASSUME NothingAssumption == Nothing \notin Contents \cup Packets \cup Frames

VARIABLES
  key,                 \* _encryptionKey
  routingDataEnabled,  \* _routingDataEnabled
  forwardBuf,          \* the packet being retried, in plain layout, or Nothing
  accepted,            \* the packet in forwardBuf as it came in
  sealedThen,          \* encryption was on when that was accepted
  air,                 \* the frame being transmitted, or Nothing
  meant                \* the packet air stands for

linkVars == <<key, routingDataEnabled, forwardBuf, accepted, sealedThen>>
airVars  == <<air, meant>>
encVars  == <<vars, linkVars, airVars>>

-----------------------------------------------------------------------------
(* Packets and frames *)

\* Length of each packet type without application payload, in either layout.
PlainLen  == [DATA |-> 16, NDAT |-> 7, RFCN |-> 2, DATA_RES |-> 11]
SealedLen == [DATA |-> 23, NDAT |-> 14, RFCN |-> 13, DATA_RES |-> 18]

HeaderLen(sealed, type) == IF sealed THEN SealedLen[type] ELSE PlainLen[type]

\* LHR_MAX_PAYLOAD, LHR_MAX_PAYLOAD_ENC
MaxPayload(sealed) == PhyMax - HeaderLen(sealed, "DATA")

FrameLen(sealed, p) ==
  HeaderLen(sealed, p.type) + (IF p.type = "DATA" THEN p.body.len ELSE 0)

\* A packet is what its sender says; body holds the fields that encrypted
\* mode encrypts.  TTL and payload are part of the source's content.
Data(from, to, content) ==
  [type |-> "DATA", sender |-> from, receiver |-> to, body |-> content]
Ndat(from, hops) ==
  [type |-> "NDAT", sender |-> from, receiver |-> NoId, body |-> [hops |-> hops]]
\* Only the encrypted layout of an RFCN names its sender.
Rfcn(sealed) ==
  [type |-> "RFCN", sender |-> IF sealed THEN Self ELSE NoId,
   receiver |-> NoId, body |-> Nothing]
DataRes(from, to, seq) ==
  [type |-> "DATA_RES", sender |-> from, receiver |-> to, body |-> [seq |-> seq]]

\* Mutant of Header: the receiver is left out of what is authenticated and sent.
HeaderNoReceiver(p) == [type |-> p.type, sender |-> p.sender, receiver |-> NoId]

\* The fields of a frame that are readable, and authenticated, in either mode.
Header(p) == [type |-> p.type, sender |-> p.sender, receiver |-> p.receiver]

PlainFrame(p) ==
  [sealed |-> FALSE, header |-> Header(p), len |-> FrameLen(FALSE, p),
   wire |-> 0, box |-> p.body]

\* _ccmEncrypt() under the nonce of _buildNonce().
Seal(k, from, c, aad, text) ==
  [key |-> k, nonce |-> <<from, c>>, aad |-> aad, text |-> text]

\* _buildEncryptedDataPacket(), ..NDAT(), ..RFCN(), ..DATARES()
SealedFrame(k, c, p) ==
  [sealed |-> TRUE, header |-> Header(p), len |-> FrameLen(TRUE, p),
   wire |-> c % LowRange,
   box |-> Seal(k, p.sender, c, Header(p), p.body)]

-----------------------------------------------------------------------------
(* Reading a frame, in a device whose encryption is on or off *)

\* Mutant of FitsLayout: any length that is long enough will do.
FitsLayoutOrLonger(sealed, f) ==
  f.len \in HeaderLen(sealed, f.header.type) .. PhyMax

\* The length checks of _checkLoraData().
FitsLayout(sealed, f) ==
  /\ f.len \in HeaderLen(sealed, "RFCN") .. PhyMax
  /\ IF f.header.type = "DATA"
     THEN f.len >= HeaderLen(sealed, "DATA")
     ELSE f.len = HeaderLen(sealed, f.header.type)

\* Mutant of CounterGuesses: the last value of the upper byte is not tried.
CounterGuessesTooFew(wire) ==
  {upper * LowRange + wire : upper \in 0 .. MaxAttempts - 2}

\* The counters a receiver tries for a wire counter.
CounterGuesses(wire) ==
  {upper * LowRange + wire : upper \in 0 .. MaxAttempts - 1}

\* _ccmDecrypt() accepts.
Opens(k, from, c, aad, box) ==
  box.key = k /\ box.nonce = <<from, c>> /\ box.aad = aad

\* _verifyAndDecryptDataPacket(), ..NDAT(), _verifyRFCN(), ..DATARES()
Verifies(k, f) ==
  /\ f.sealed
  /\ \E c \in CounterGuesses(f.wire) : Opens(k, f.header.sender, c, f.header, f.box)

\* What plain mode finds where an encrypted frame has ciphertext; the wire
\* counter and the MIC of a DATA count as payload.
GarbledBody(f) ==
  IF f.header.type = "DATA"
  THEN [source |-> Garbled, seq |-> Garbled, len |-> f.len - PlainLen.DATA]
  ELSE Garbled

Packet(h, body) ==
  [type |-> h.type, sender |-> h.sender, receiver |-> h.receiver, body |-> body]

\* The packet a device takes frame f for, or Nothing if it discards f.
Read(sealed, k, f) ==
  IF ~ FitsLayout(sealed, f) \/ (sealed /\ ~ Verifies(k, f)) THEN Nothing
  ELSE Packet(f.header, IF sealed THEN f.box.text
                        ELSE IF f.sealed THEN GarbledBody(f) ELSE f.box)

-----------------------------------------------------------------------------
(* Building and transmitting *)

\* _transmit(): a busy channel, an exhausted duty cycle or a radio error
\* leaves nothing on the air.
Transmit(f, p) ==
  \/ air' = f /\ meant' = p
  \/ UNCHANGED airVars

\* LHR_ERR_NONCE_EXHAUSTED
NonceExhausted ==
  /\ enabled /\ counter + Batch >= CounterMax
  /\ UNCHANGED vars

\* What _sendRFCN(), _sendDATARES(), _forwardDataPacket() and update(), for an
\* NDAT, do with packet p: build the frame of the present mode and transmit
\* it; m is what it is to be read as.  A frame that cannot be built is not
\* sent, and a counter taken for one that is not transmitted is gone.
BuildAndTransmit(p, m) ==
  \/ ~ enabled /\ Transmit(PlainFrame(p), m) /\ UNCHANGED vars
  \/ NextNonceCounter /\ Transmit(SealedFrame(key, counter, p), m)
  \/ (NextNonceCounterFails \/ NonceExhausted) /\ UNCHANGED airVars

\* update() has nothing on the air and comes to a beacon or a pending NDAT.
SendNDAT ==
  /\ air = Nothing /\ forwardBuf = Nothing
  /\ \E h \in Hops : BuildAndTransmit(Ndat(Self, h), Ndat(Self, h))
  /\ UNCHANGED linkVars

\* A beacon without a route, or the escalation of a retry cycle.
SendRFCN ==
  /\ air = Nothing
  /\ BuildAndTransmit(Rfcn(enabled), Rfcn(enabled))
  /\ UNCHANGED linkVars

\* sendData() on an idle node with a route.
SendData ==
  /\ forwardBuf = Nothing
  /\ \E q \in SeqNums, n \in Payloads :
       /\ n <= MaxPayload(enabled)
       /\ forwardBuf' = [source |-> Self, seq |-> q, len |-> n]
  /\ accepted' = forwardBuf' /\ sealedThen' = enabled
  /\ UNCHANGED <<vars, key, routingDataEnabled, airVars>>

\* Mutant of AfterBuild: the frame is encrypted in place.
AfterBuildInPlace ==
  IF enabled THEN [forwardBuf EXCEPT !.source = Garbled] ELSE forwardBuf

\* The buffer a resend will build the next frame from.
AfterBuild == forwardBuf

\* _forwardDataPacket(), for the first time or again.  What is too long for
\* an encrypted frame is never sent.
ForwardDataPacket ==
  /\ air = Nothing /\ forwardBuf # Nothing
  /\ enabled => forwardBuf.len <= MaxPayload(TRUE)
  /\ BuildAndTransmit(Data(Self, Peer, forwardBuf),
                      Data(Self, Peer, [accepted EXCEPT !.len = forwardBuf.len]))
  /\ forwardBuf' = AfterBuild
  /\ UNCHANGED <<key, routingDataEnabled, accepted, sealedThen>>

TransmissionEnds ==
  /\ air # Nothing
  /\ air' = Nothing /\ meant' = Nothing
  /\ UNCHANGED <<vars, linkVars>>

-----------------------------------------------------------------------------
(* Receiving *)

PeerPackets ==
  {Data(Peer, to, [source |-> Peer, seq |-> q, len |-> n]) :
     to \in {Self, Other}, q \in SeqNums, n \in Payloads}
  \cup {DataRes(Peer, to, q) : to \in {Self, Other}, q \in SeqNums}

\* What neighbours send, in either mode and with any key.
PeerFrames ==
  {f \in {PlainFrame(p) : p \in PeerPackets}
         \cup {SealedFrame(k, c, p) : k \in Keys, c \in PeerCounters, p \in PeerPackets} :
     f.len <= PhyMax}

\* Mutant of HasRoomForMetadata: the block is added whatever the length.
HasRoomAlways(content) == TRUE

HasRoomForMetadata(content) == PlainLen.DATA + content.len + MetaLen <= PhyMax

\* _appendHopMetadata()
WithHopMetadata(content) ==
  IF routingDataEnabled /\ HasRoomForMetadata(content)
  THEN [content EXCEPT !.len = @ + MetaLen] ELSE content

\* _handleDATA() outside a retry cycle: acknowledge the hop, then queue the
\* packet, or drop it as a duplicate or for its TTL.  The packet is queued
\* even where no DATA_RES can be built.
HandleDATA ==
  /\ air = Nothing /\ forwardBuf = Nothing
  /\ \E f \in PeerFrames :
       LET p == Read(enabled, key, f) IN
       /\ p # Nothing /\ p.type = "DATA" /\ p.receiver = Self
       /\ BuildAndTransmit(DataRes(Self, p.sender, p.body.seq),
                           DataRes(Self, p.sender, p.body.seq))
       /\ \/ /\ forwardBuf' = WithHopMetadata(p.body)
             /\ accepted' = p.body /\ sealedThen' = enabled
          \/ UNCHANGED <<forwardBuf, accepted, sealedThen>>
  /\ UNCHANGED <<key, routingDataEnabled>>

\* _resetDataResState(): nothing is being retried.
EndCycle ==
  /\ forwardBuf' = Nothing /\ accepted' = Nothing
  /\ UNCHANGED <<vars, key, routingDataEnabled, sealedThen, airVars>>

\* _handleDATARES(): a DATA_RES for this device with the sequence number of
\* the packet being retried.
HandleDATARES ==
  /\ air = Nothing /\ forwardBuf # Nothing
  /\ \E f \in PeerFrames :
       Read(enabled, key, f) = DataRes(Peer, Self, forwardBuf.seq)
  /\ EndCycle

\* _maxLocalRetries cycles have passed.
GiveUp == air = Nothing /\ forwardBuf # Nothing /\ EndCycle

-----------------------------------------------------------------------------
(* Configuration *)

\* Mutant of SetKey: a null key is accepted.
SetKeyUnchecked ==
  /\ SetEncryptionKey /\ key' \in Keys \cup {NoKey}
  /\ UNCHANGED <<routingDataEnabled, forwardBuf, accepted, sealedThen, airVars>>

\* setEncryptionKey(), at any moment.
SetKey ==
  /\ SetEncryptionKey /\ key' \in Keys
  /\ UNCHANGED <<routingDataEnabled, forwardBuf, accepted, sealedThen, airVars>>

\* enableEncryption(), at any moment.
SwitchEncryption ==
  /\ EnableEncryption \/ DisableEncryption
  /\ UNCHANGED <<linkVars, airVars>>

SetRoutingDataEnabled ==
  /\ routingDataEnabled' \in BOOLEAN
  /\ UNCHANGED <<vars, key, forwardBuf, accepted, sealedThen, airVars>>

RestartDevice ==
  /\ PowerCycle
  /\ key' = NoKey /\ routingDataEnabled' = FALSE
  /\ forwardBuf' = Nothing /\ accepted' = Nothing /\ sealedThen' = FALSE
  /\ air' = Nothing /\ meant' = Nothing

-----------------------------------------------------------------------------
EncInit ==
  /\ Init
  /\ key = NoKey /\ routingDataEnabled = FALSE
  /\ forwardBuf = Nothing /\ accepted = Nothing /\ sealedThen = FALSE
  /\ air = Nothing /\ meant = Nothing

EncNext ==
  \/ SendNDAT \/ SendRFCN \/ SendData \/ ForwardDataPacket
  \/ TransmissionEnds
  \/ HandleDATA \/ HandleDATARES \/ GiveUp
  \/ SetKey \/ SwitchEncryption \/ SetRoutingDataEnabled
  \/ RestartDevice

EncSpec == EncInit /\ [][EncNext]_encVars
-----------------------------------------------------------------------------
(* Properties *)

\* Every variable keeps to its type.
EncTypeOK ==
  /\ TypeOK
  /\ key \in Keys \cup {NoKey} /\ (keySet => key \in Keys)
  /\ routingDataEnabled \in BOOLEAN /\ sealedThen \in BOOLEAN
  /\ forwardBuf \in Contents \cup {Nothing} /\ accepted \in Contents \cup {Nothing}
  /\ (forwardBuf = Nothing) <=> (accepted = Nothing)
  /\ air \in Frames \cup {Nothing} /\ meant \in Packets \cup {Nothing}
  /\ (air = Nothing) <=> (meant = Nothing)

\* A frame built for a receiver, that is in its mode and with its key.
BuiltFor(sealed, k) == air.sealed = sealed /\ (sealed => air.box.key = k)

\* Every frame of every type is understood by the devices in its mode and
\* with its key, exactly as it was meant: for every counter that can be taken
\* the upper byte is found again, the fields that are authenticated are the
\* ones rebuilt from the frame, and a resent DATA still says what was accepted.
Understood ==
  air # Nothing =>
    \A sealed \in BOOLEAN, k \in Keys :
      BuiltFor(sealed, k) => Read(sealed, k, air) = meant

\* Devices in the other mode or with another key discard a frame by its
\* length or its MIC, with one exception: plain mode cannot tell an encrypted
\* DATA from a plain one.
OthersDiscard ==
  air # Nothing =>
    \A sealed \in BOOLEAN, k \in Keys :
      \/ BuiltFor(sealed, k)
      \/ Read(sealed, k, air) = Nothing
      \/ air.sealed /\ ~ sealed /\ air.header.type = "DATA"

\* Nothing outgrows its buffer: not the frame that is built, and not the plain
\* packet in _forwardBuf, with its hop metadata and in whichever mode it came.
BuffersHold ==
  /\ air # Nothing => air.len <= PhyMax
  /\ forwardBuf # Nothing => PlainLen.DATA + forwardBuf.len <= PhyMax

\* Hop metadata is left out where the packet, in the mode it came in, has no
\* room for it (docs/PROTOCOL_REFERENCE.md:1112-1115).  It does not hold, so no
\* run lists it: only the plain layout is looked at, and _forwardDataPacket()
\* then refuses to send.  TLC shows it as an invariant in Encryption.cfg.
MetadataFits ==
  forwardBuf # Nothing /\ forwardBuf.len > accepted.len =>
    HeaderLen(sealedThen, "DATA") + forwardBuf.len <= PhyMax

\* A device in the other mode discards every frame
\* (docs/PROTOCOL.md:1033-1040).  It does not hold, by the exception above, and
\* no run lists it either.
OtherModeDiscards ==
  air # Nothing =>
    \A sealed \in BOOLEAN, k \in Keys :
      air.sealed # sealed => Read(sealed, k, air) = Nothing
=============================================================================
