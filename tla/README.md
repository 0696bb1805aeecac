# Lighthouse Reckoning: models, checks and proofs

TLA+ models of the Lighthouse Reckoning library (`src/src/`): a mesh of LoRa
devices that carry application data hop by hop to one device, Home. Every
definition is translated from the C++ source; `PROJECT.json` ("map") names the
lines each one stands for.

## 1. The system

Every device runs one `LighthouseReckoning` object. The application calls
`sendData()` and, in its loop, `update()`; the radio calls `handleDio1Rise()`
from an interrupt. `update()` does at most one thing per call: finish a
transmission, dispatch a received frame, advance the retry cycle, send a pending
advertisement, or send a beacon, in this order. Devices share nothing but the
air.

| Component (source) | State | Operations | What is hard |
|---|---|---|---|
| Data plane (`LighthouseReckoning.cpp`, `LHR_Rx.cpp`, `LHR_Tx.cpp`) | forward buffer, own-data slot, ring of seen packets, sequence counter | `sendData`, `_handleDATA`, `_forwardDataPacket` | relayed and own packets share one buffer; copies by two paths; sequence numbers wrap and restart |
| Retry (`_confirmDataRes`, `_handleDATARES`, `_resetDataResState`) | four flags, retry count, pending sequence number | initial send, resend, RFCN escalation, wait, give up, confirm | late, lost and duplicated DATA_RES; six functions reset the flags |
| Neighbour table (`LHR_Routing.cpp`) | table, best and second best neighbour, hop count | update with eviction, prune, reset, select | cached choice beside the table; full table; ties |
| Advertisement (`_sendBeacon`, `_sendNDAT`, `_sendRFCN`, `_handleNDAT`, `_handleRFCN`, `_sendNdatIfNeeded`) | pending NDAT, last advertised hops | beacon, jittered NDAT, RFCN, triggered update | counting up on stale entries after Home is gone |
| Nonce counter and store (`LHR_Encryption.cpp`, `LHR_EncryptionStore.cpp`) | RAM counter, reservation, stored counter | enable, next, load, store | power loss and failing writes between two steps |
| Radio (`_transmit`, ISR, watchdog) | `_txInProgress`, `_txDone`, `_packetReceived`, `_working` | transmit, completion, interrupt | flags written by an interrupt |
| Duty cycle (`LHR_DutyCycle.cpp`) | window start, used airtime | account, check, configure | rounding, window edges |
| Power management (`getNextUpdateInMs`) | deadlines | when to call `update()` next | clock wrap, a deadline forgotten |
| Encrypted packets (`_buildEncrypted..`, `_verifyAndDecrypt..`, `_checkLoraData`) | key, mode, frame lengths | build, seal, parse, search for the counter, decrypt | nothing in a frame tells its mode; a resend may be built in another one; packets grow at relays |
| AES-CCM, locks, debug output, examples | | | not modelled, see section 7 |

What makes each component correct: a message is accepted, held until its result
is reported, never altered, and delivered to Home's application once as long as
Home's ring remembers it; a retry cycle has a packet and ends; a route choice fits the table it was made
from, hop counts never undercut the radio distance, and routes die with Home; a
nonce is never used twice; a frame is read as it was meant by those it is for,
and by nobody else; nothing outgrows its buffer; the budget is kept; the interrupt's events are
neither lost nor counted twice; the application is woken in time. The hazards
behind these sentences are listed line by line in `PROJECT.json`.

## 2. Modules

| Module | Models | Checked by | Proved in |
|---|---|---|---|
| `LHRDelivery` | data plane, retry cycle, radio as a lossy channel, restarts | `MCDelivery` and five `Delivery*.cfg` | `LHRDeliveryProofs` |
| `LHRRouting` | neighbour table, choice, advertisement over a whole mesh | `MCRouting`, `Routing.cfg`, `RoutingLive.cfg` | `LHRRoutingProofs` |
| `LHRSelection` | the loop of `_findBestNeighbor()` entry by entry | `Selection.cfg` | `LHRSelectionProofs` |
| `LHRNextHop` | abstract: what routing and data plane promise each other | `RoutingLive.cfg` as a property of `LHRRouting`, `DeliveryLive.cfg` of `LHRDelivery` | `LHRRoutingProofs`, `LHRDeliveryProofs` |
| `LHRMesh` | abstract: what the two applications are promised | `DeliveryMerge.cfg`, as a property of `LHRDelivery` | `LHRMeshProofs` |
| `LHRNonce` | nonce counter, reservation, store | `NonceReenable.cfg`; `Encryption.cfg`, through `LHREncryption` | `LHRNonceProofs` |
| `LHREncryption` | frames of all types in both modes, on top of `LHRNonce` | `Encryption.cfg` | `LHREncryptionProofs` |
| `LHRTransmit` | `_transmit()`, completion, watchdog and reception against the interrupt; the airtime budget | `MCTransmit`, `Transmit.cfg` | `LHRTransmitProofs` |
| `LHRTimers` | `getNextUpdateInMs()` and a sleeping application against every deadline of `update()` | `Timers.cfg` | `LHRTimersProofs` |

**LHRDelivery.** One action per branch of `update()`, per phase of
`_confirmDataRes()`, per outcome of a received frame and per path of
`sendData()`. The variables keep the names of the members (without the
underscore); the others (`number`, `outcome`, `delivered`, `since`, `aired`,
`heard`, `acked`) are history: the sequence number a message got, what the
application was told, what Home's callback was given and how many other packets
it was given since, who transmitted, received and confirmed what. `air[d]` is the frame the
radio is sending, `rxFrame[d]` the one frame the radio has received and
`update()` has not read; a newer frame overwrites it, any frame may be lost, and
a DATA_RES may therefore arrive one or more packets late. The routing table
enters only through its two results, which change as `LHRNextHop` says: an NDAT
that is read replaces them by any two heard devices, pruning also by nothing.
Timeouts are nondeterministic: the resend, the escalation and the end of the
RFCN wait happen at any moment their flags allow, so every choice of delays and
every lateness of `update()` is covered. `_localRetryCount` is a byte and wraps
(`RetryCountMod`). `Reboot` is a power cycle, `Rebegin` is
`beginAsHome()`/`beginAsNode()` on a running device, with the order of
`_reset()`. Nothing in it tells the radio to stop, so a frame on the air goes on
and may still arrive; whatever the radio is told next breaks it off (`Transmit`).

**LHRNextHop.** The seam between the two mesh models. Three variables per node:
its two next hops (`route`), whether it is in a retry cycle (`waiting`), whether
that cycle has escalated (`asking`). Routing owns the first, the data plane the
other two, and each leaves the other's any freedom the other takes: `Hear`
chooses any two heard devices, cycles start and end at any time. What remains are
the promises both sides build on: the next hops are heard devices, both or none;
an NDAT never leaves a node without them, not even one that a full table has no
room for; in a retry cycle no pruning takes them, only the escalation, once
before the RFCN wait is over, and a restart. `LHRRouting` and `LHRDelivery` each
instantiate the module and state `ImplementsNextHop`.

**LHRMesh.** The abstract specification of the data plane, with four variables:
what the sender's application knows of a message (`outcome`), the sequence number
the message got (`number`), which device has got it from which (`heard`), and how
many others Home's application has been given since it was given this one
(`since`, up to the length of Home's ring). Its actions let a message travel
only hop by hop from its origin, let Home deliver it again only after as many
others as the ring has places or after a power cycle (`Forget`), and allow a
"confirmed" only where a next hop has heard a message of that number from its
origin. Sources may be many and numbers equal, wrapped or reused. That is also
why the confirmation goes by number: a relay that has passed on a packet with the
number of its own next message can be told "confirmed" of that message by a late
DATA_RES for the relayed one. PROTOCOL.md accepts a DATA_RES by its number alone,
so the code agrees with it, and the abstract specification says what this is
worth. `ImplementsMesh` says that every behaviour of the devices is one of the
mesh. A failed message may still be delivered afterwards, and a confirmed one may
never be: a relay that acknowledged it may drop it. The abstract specification
says so because the code does so.

**LHRRouting.** `neighbors[n][q]` is the table entry of `n` for `q` with the age
counted in beacons of `n`; an entry as old as `StaleBeacons` is pruned at the
next beacon, and because beacons may come late a younger one may be pruned too.
A broadcast reaches any subset of the devices in range. The data plane enters
through `waitingForDataRes`, which blocks advertisements, and `requestedRFCN`; its
escalation empties the table. `Reboot` is a power cycle or a re-begin of a node:
after the latter a message in the slot has it wait on. `RebootHome` is the same on
Home, and `HomeFails` switches Home off for good. Array order is abstracted to a choice among ties, which is
what `LHRSelection` justifies: its theorem says that the loop ends with a best
entry and a best of the others, whatever the order.

**LHRSelection.** Every table of up to `MaxNeighbors` entries, one `Step` per
iteration; index 0 is the code's -1.

**LHRNonce.** `NextNonceCounter` and its failing variant,
`enableEncryption(true)` with every result of `_initNonceCounter()`, and
`PowerCycle`, which leaves only the store. `used` counts how often a value has
encrypted a packet. A write that reports failure may or may not have reached the
store; a power loss in the middle of an operation is its failing variant
followed by `PowerCycle`. `_initNonceCounter()` overwrites counter and reservation
before it writes, so on a device that is already encrypting a failed write leaves
encryption on with a reservation the store never took, and it does not look at
the result of `_loadNonceCounter()`, which leaves 0 when no value is found
(`Loaded`; `LoadMayFail` says whether a value that was stored may not be found).
Both error paths are in `EnableEncryption`. `lapse` is history: whether such a
call has failed ("failed"), whether anything was encrypted after it ("ignored"),
whether a stored value was not found ("unread"). `UniqueUntilLapse` is the claim
that holds, `UniqueCounters` the one of the documents, which does not (section 5).
A call that fails before it reaches the counter changes nothing and is a
stuttering step: without a key, or where `_storageInit()` fails.

`RamValues` are the contents the counter variables may be found with, so that a
run need not count up to the limit from 0. `LHREncryption` extends the module and
takes every counter through its actions.

**LHREncryption.** One device, `Self`, that originates, relays, acknowledges and
advertises, with setters that may change key, mode and hop metadata between any
two calls; its neighbours send and read in either mode with any key. A packet is
what the plain layout says (type, sender, receiver, and a body that encrypted mode
hides); a frame is its header, its length, the three bytes of the counter that
travel (`wire`) and its body, sealed or not. The cipher is ideal: a sealed body
is a record of the key, the nonce, the authenticated fields and the text, and
opens if the receiver rebuilds the first three. The authenticated fields are those
that the code puts into `aad`, rebuilt by the receiver from the frame; the nonce
is the sender's id and the full counter, whose upper byte the receiver searches
(`CounterGuesses`). Lengths are the real ones, because only they tell the modes
apart (`FitsLayout`), and `GarbledBody` is what plain mode makes of ciphertext.
`BuildAndTransmit` is the path common to all four senders: no counter, no frame;
a counter taken for a frame that is not transmitted is gone. The retry cycle is
reduced to what matters for frames: `ForwardDataPacket` builds from the buffer
any number of times, and `HandleDATARES` and `GiveUp` empty it. `accepted`,
`sealedThen` and `meant` are history: the packet as it came in, the mode it came
in under, and what the frame on the air is to be read as.

**LHRTransmit.** One device, one step per statement of `_transmit()`,
`update()` and `_checkLoraData()` that touches the radio or a flag the interrupt
reads; `pc` is where the program is, "idle" between two calls. `HandleDio1Rise`
may run between any two steps. The radio is RadioLib, which is not part of the
repository and is modelled from how the code uses it: DIO1 rises when a frame
has arrived, when a scan ends and when a transmission ends; the interrupt is
attached to the rising edge; `scanChannel()`, `startTransmit()`,
`finishTransmit()`, `readData()` and `startReceive()` pull DIO1 low; `readData()`
leaves a continuous reception going. `mode` is what the radio does. `Prompt` says
whether an interrupt is served before the program's next step, which is what an
interrupt on a microcontroller does; without it the end of the channel scan could
be served after `_txInProgress` is set (`LHR_Tx.cpp:73`), and a transmission would
be taken for complete before it left. TLC finds that with `Prompt = FALSE`; the
run and the theorems about flags state the assumption by name. The airtime
account is kept by the same steps: the check before the scan, the charge after
`startTransmit()`, and `Tick`, which may end the window anywhere in between;
`windowAge` is the unsigned difference of two clock readings, so it wraps with
the clock. `sent` and `aired` are history, the frames of the window and their
true airtime in parts of a millisecond, which the code drops. `fresh` marks a
device that was just begun: nothing tells its radio to receive until the first
transmission has ended or failed, so until then it is promised nothing.

**LHRTimers.** One device and one application, which does what
`examples/ESP32/SleepyNode` does: it asks `getNextUpdateInMs()`, sleeps at most
that long (`sleepMs`; a deadline of its own may come first), is woken by DIO1,
and calls `update()`; awake, it lets at most `MaxLate` milliseconds pass between
two calls. A time stamp is kept as its age, the unsigned difference that the code
computes, modulo `ClockMod`; the age of a stamp that nothing reads is 0.
`update()` is split by what it finds to do; `HasWork` says that it finds
something, with the code's unsigned comparisons, and `NextUpdateInMs` is
translated from `getNextUpdateInMs()`, with its signed ones: the properties
compare the two. A frame that is read may have any effect on the timers that its
handlers can have, a transmission may or may not get on the air, and its end may
never be announced. The intervals are constants: the setters that change them on a
running device are left out.

## 3. Runs

| Run | Question | Instance |
|---|---|---|
| `DeliveryMerge` | Is the retry state coherent, is anything lost silently, made up, acknowledged and dropped, or delivered again before the ring has forgotten it? Is the whole an implementation of `LHRMesh`? | a reaches Home directly and through b; one message of a, two of b; 2 sequence numbers, ring of 1, TTL 1, one retry cycle |
| `DeliveryLive` | Does every message settle, does every cycle end, are the next hops used as `LHRNextHop` says? | two nodes that know only each other, two retry cycles, one power cycle, one re-begin |
| `DeliveryUnsentConfirmed` | violated: PROTOCOL.md:547-549 | see section 5 |
| `DeliveryRebegin` | violated: LighthouseReckoning.h:135-136 | see section 5 |
| `DeliveryReboot` | violated: PROTOCOL.md:276-278 | see section 5 |
| `Routing` | Does the choice fit the table, can eviction harm it? | a hears Home, b and c with room for two; one power cycle |
| `RoutingLive` | Is no node too close, do hop counts only rise and routes vanish without Home, are the next hops what `LHRNextHop` says? | Home - a - b, where a and b feed each other hop counts up to `NoRoute` = 4; one retry cycle with escalations |
| `Selection` | Does the single pass find the best two? | all tables of up to 5 entries, 3 hop counts, 2 strengths |
| `Encryption` | Until an error is ignored or a stored value not found, is a nonce ever reused, and how far is the store ahead? Is every frame understood by those it is for and discarded by the rest, does everything fit? | batch of 2, values up to 7 of which 4 travel, two attempts at the rest; reads and writes of the store may fail; two keys; payloads of 231, 232 and 239 bytes, metadata of 8, frames of 255 |
| `NonceReenable` | violated: PROTOCOL.md:332-334 | see section 5; counter found at 0 or 7, values up to 9, every read succeeds |
| `Timers` | Is a deadline slept over, is a device kept awake for nothing, do beacons go on? | beacon every 5 ms, resend after 2, RFCN wait 1, watchdog 2, jitter 0 or 2, two retry cycles, up to two frames or messages between beacons, clock modulo 128 |
| `Transmit` | Do flags and radio agree, is an announcement forgotten, a completion false, the budget exceeded; do transmissions and receptions get done? | three frames of 1 to 2.5 ms, limits of 0, 2 and 3 ms, window of 2, clock modulo 4, one re-begin |

Why the bounds suffice. Two sources, one of them a relay with two messages, are
the least that lets relayed and own packets compete for the buffer and the slot,
and a late DATA_RES meet another packet. In `DeliveryMerge` numbers and ring are
small enough to be used up: the relay's first message has the number of the packet
it relays, so that a message is confirmed that nobody has heard, and the ring of 1
has its entry overwritten by the other source's packet, so that a copy of the
first is delivered again. The ring of 8 of the code does the same eight packets
later, as PROTOCOL.md says of its bounded history; `NothingRepeatsWithinRing` is
the proof for every length. Restarts are in `DeliveryLive`. TTL 1
lets a packet be relayed once and expire the second time. `NoRoute` = 4 leaves
room for two rounds of counting up; a table of two overflows with three
neighbours. In `Encryption` a batch of 2 gives several batches below the limit of 7,
the limit itself is reached, and the device's own counters occur with both values
of their "upper byte". One sequence number is enough there: what other numbers do
is the subject of `LHRDelivery`. The payloads are the longest that
still grows by a metadata block (231), the longest of an encrypted frame (232) and
of a plain one (239). `RetryCountMod` = 4 leaves room for the
retry limits of 1 and 2 (see section 5 for the limit that it must not reach).
In `Transmit` two frames fill a budget and a third is
refused, the clock wraps within two windows, and one re-begin may hit any state of
the radio. In `Timers` the delays are short, and several deadlines fall on the same call
or on neighbouring ones; the clock must be large against them, because a beacon or an
advertisement waits while retry cycles and frames (`MaxTraffic` of them) go
before it. With a clock modulo 96 it waits for longer than half the clock's
range, `NothingForgottenForLong` fails, and with a clock modulo 32 the device
then sleeps over it. On a device half the range is 24 days. Each bound is a constant named as bound in its module
(`MaxReboots`, `MaxRebegins`, `MaxRetries`,
`StoreMax`, `MaxBegins`, `MaxLate`, `MaxTraffic`); `HomeMayFail` switches the
failure of Home on in `RoutingLive`, which asks about it, and off in `Routing`.

Deadlock is checked in every run except `Selection`, whose loop ends.
`DeliveryMerge` uses symmetry between the messages of one source, `Routing` between
the two nodes next to Home; neither checks liveness. The view of `DeliveryMerge`
leaves out `aired` and `acked`, history that no step reads and only
`ConfirmedIsAired` is about.

## 4. Fairness

`LHRDelivery`: weak fairness of the end of a transmission, of `update()`
noticing it, of reading a received frame, and of the next phase of a retry
cycle. The justification: a transmission takes finite time, the application
calls `update()` in its loop forever, and each delay elapses. No frame is
promised to arrive, no node to advertise.

`LHRRouting`: weak fairness of reading frames and of the end of a retry cycle
(which `RetryCyclesEnd` shows), strong fairness of sending a pending NDAT and of
the beacon. Strong, because under weak fairness a neighbour whose frames fill the
inbox between any two calls of `update()` keeps a node from ever pruning; the
code reads one frame per call, frames take tens of milliseconds on the air and
beacons are seconds apart, so the inbox is empty in some call while the beacon is
due. Retry cycles are bounded: an application that refills the own-data slot
forever does keep a node from its beacons.

`LHRTransmit`: weak fairness of the steps of `_transmit()` and of `update()`
(the application's loop runs on), of the interrupt, and of the end of a channel
scan, for which `scanChannel()` waits. The end of a transmission is not promised:
`TransmissionsEnd` holds because of the watchdog.

`LHRTimers`: weak fairness of the clock and of `update()`, which the application
calls whenever it is awake. Nothing else: sleeping, the ends of transmissions and
traffic are the environment's choice. `BeaconsGoOn` rests on the bound on
traffic between two beacons; without it retry cycles can follow each other
forever, and `update()` sends no beacon during one (`LighthouseReckoning.cpp:388`).

## 5. Findings

1. *A DATA_RES confirms a packet that was never sent* (`DeliveryUnsentConfirmed`).
   A relay sets `_waitingForDataRes` when it queues a packet, while
   `_pendingAckSeqNum` still holds the number of the packet before; a late
   DATA_RES for that one ends the new cycle before its first transmission.
2. *A re-begin starts a cycle for an empty buffer* (`DeliveryRebegin`).
   `_reset()` calls `_resetDataResState()`, which promotes the waiting message
   of the slot and sets `_waitingForDataRes`, and empties the buffer afterwards.
3. *A restarted source is mistaken for its past* (`DeliveryReboot`). The
   sequence counter restarts at 0, the rings of the receivers do not forget:
   Home acknowledges a new message and discards it as a duplicate.

4. *A failed re-enable spends counters the store does not know* (`NonceReenable`).
   `_initNonceCounter()` overwrites counter and reservation before it writes
   (`LHR_Encryption.cpp:68-74`); `enableEncryption(true)` on an encrypting device
   returns the error of a failed write with encryption still on. The device goes
   on, loses power, and uses the same values again, which PROTOCOL.md:332-334
   excludes. `LighthouseReckoning.h:471-473` says of a call without a key that
   "encryption remains disabled"; of a device that is already encrypting neither
   document says what a failed call leaves. An application that switches
   encryption off when the call fails is safe (`UniqueUntilLapse`). A stored value
   that is not found has the same effect (`LoadMayFail`): its loss is silent, as
   the result of the load is not looked at.
5. *Usage never exceeds 100* (`BudgetKept`, run `Transmit`, which passes).
   `LighthouseReckoning.h:319` and PROTOCOL_REFERENCE.md:1045 say that
   `getDutyCycleUsage()` can momentarily exceed 100. It cannot: `_transmit()`
   refuses a frame that would exceed the budget before it charges it, and a new
   limit starts with an empty account. What the documents call possible is no
   claim a run can violate, so the passing run is the evidence.

Found while modelling, with what shows it, and not given a run:

- *Growing out of the frame.* A relay that encrypts and appends hop metadata takes
  in a payload of 225 to 231 bytes, acknowledges it, stores 233 to 239 bytes and
  then fails to build the encrypted frame at every retry;
  PROTOCOL_REFERENCE.md:1112-1114 says that the block is left out where there is no
  room. TLC finds `MetadataFits` violated when it is added to `Encryption.cfg`.
  Encryption switched on with a long packet in the buffer ends the same way,
  without any document against it.
- *Mixed modes.* A device in plain mode takes an encrypted DATA for a plain one:
  acknowledges it, relays it, at Home delivers ciphertext. PROTOCOL.md:1036-1040
  says that such packets are discarded by their length. It is the one exception in
  `OthersDiscard`; `OtherModeDiscards`, without the exception, is violated.
- *A limit of 255 is no limit.* `_localRetryCount` is a byte, so after its
  increment it never exceeds 255 and an undeliverable packet is retried forever
  (`LHR_Tx.cpp:282-283`), though `LighthouseReckoning.h:207-208` speaks of cycles
  "before a queued DATA packet is dropped". In the model this is `MaxLocalRetries =
  RetryCountMod - 1`: with `RetryCountMod = 3` in `DeliveryLive.cfg` TLC finds
  `RetryCyclesEnd` violated. The safety theorems hold for it too.
- *A DATA_RES that cannot be built* for want of a counter leaves a DATA that was
  taken in unacknowledged (`HandleDATA` in `LHREncryption`); the sender retries as
  if the DATA_RES were lost.

## 6. Proofs

`tlapm` checks every theorem below to the last leaf, for every value of the
constants that meets the assumptions of the module.

- `LHRDeliveryProofs`
  - `TypeCorrect`: `TypeOK` is inductive by itself; one lemma per action.
  - `RetryStateIsCoherent`: `TypeOK /\ RetryStateCoherent` is inductive. The
    conjunct about the slot is needed because `_resetDataResState()` decides by
    it whether the next cycle starts.
  - `NoMessageIsLostSilently`: `TypeOK /\ RetryStateCoherent /\ NoSilentLoss`
    is inductive. Coherence is needed because an idle node has an empty slot and
    nothing pending, and because a DATA is accepted for relaying only by a node
    that is not waiting: a relayed packet never overwrites a held one.
  - `RetryCyclesHavePackets`: assumes `MaxRebegins = 0`, which finding 2 shows
    to be necessary.
  - `EverythingIsGenuine`: by induction over buffers, slot, air and receive
    buffers together.
  - `NextHopsAreUsedAsPromised`: every step is one of `LHRNextHop` or none. It
    rests on `RetryStateCoherent`: a cycle that ends or begins has no escalation
    left over, and a re-begin leaves a node waiting only if it was. `FlagChange`
    carries the flags of all devices over to those of the nodes. The run
    `DeliveryLive` checks the property.
- `LHRNonceProofs`: `TypesKept`, `CountersAreUnique`, `StoreStaysAhead`,
  `SkipsAreBounded`, without assumptions beyond `NonceAssumption`. One invariant
  (`IInv`) carries them: while encryption is on and no call has failed, the RAM
  counter lies above every used value and at or below the reservation, which
  never exceeds what the store holds; after a failed call the same with a store
  that lags by a batch at most. The three claims name the lapses they hold up to,
  because the code breaks them afterwards (finding 4).
- `LHRMeshProofs`, over `LHRDeliveryProofs`. Receivers know a packet by its source
  and number, a sender its confirmation by the number alone. `Traced` says that
  every packet in a buffer, on the air or unread carries the number of its
  message, and that every DATA_RES carries the number of a message its sender has
  heard from the receiver; a step gives a number to one message at most
  (`NumberSteps`). All theorems but the last hold for any number of sources, any
  reuse of numbers, rings of any length, power cycles and re-begins.
  - `NothingRepeatsWithinRing`: `RingRemembers`, a message that was delivered
    `since` others ago stands `since` places behind the ring's next free one
    (`Place`), and so is a duplicate.
  - `ConfirmedIsTrue`: the pending number of a node that waits is the number of
    its own message, once that is in the buffer (`OwnNumberIsPending`), and the
    DATA_RES that matches it is `Traced`.
  - `MeshIsImplemented`: every step of `LHRDelivery` maps to a step of `LHRMesh` or
    to none, one action at a time (`OutcomeSteps` says which outcome a step can
    change, `HeardSteps` who hears what).
  - `HomeKeepsItsWord` assumes `NoNumberIsReused`: finitely many messages, no more
    of one node than there are numbers, and no power cycle (finding 3 shows that
    the last is necessary). Then two messages of a node never share a number
    (`NumbersDiffer`, by counting the numbered ones), so what Home takes for a
    duplicate is one (`RingIsDelivered`), however short its ring.
- `LHREncryptionProofs`, for every batch, radio size, key set and split of the
  counter
  - `EncryptionKeepsNonceSpec`: `EncSpec => Spec`; a step of the device is one of
    `LHRNonce` or none, because `BuildAndTransmit` is the only way to a counter.
    `NoncesAreUnique` follows from it and `CountersAreUnique`, up to the same
    lapses.
  - `EncTypesKept`, `FramesAreUnderstood`, `FramesAreDiscardedByOthers`,
    `BuffersAlwaysHold`: one invariant, `LinkInv`, says that
    the frame on the air was built from a well-formed packet that fits, with a counter
    below `CounterMax`, and stands for what was accepted. `CounterIsFound` is the
    arithmetic of the search, `LayoutsOfLengths` says that the lengths of the two
    layouts meet for DATA alone.
- `LHRRoutingProofs`, for meshes of every shape and tables of every size
  - `TypeCorrect`, `ChoicesMatchTables`: `Inv`, that is `TypeOK`, every NDAT in
    an inbox comes from a device in range (else a table could hold a device the
    node does not hear), and `RouteMatchesTable`, is inductive. The step rests
    on `FindChoiceFits` for the steps that choose anew and on `AgedFits` for a
    pruning that forgets nobody and so does not choose.
  - `HopCountsAreHonest`: tables, inboxes and hop counts are honest together; a
    hop count is honest because it fits an honest table (`DistAssumption`: a
    link is one hop). `HopsViaUsable` shows that the one-byte sum never wraps.
  - `RoutesLengthenByNextHop`: `TableSteps` says that a step forgets and ages
    entries or takes in one NDAT; if that NDAT evicts the next hop, it is better
    than the next hop, which was the worst entry, so the route got shorter.
  - `CountsRiseWithoutHome`: the safety core of `RoutesVanish`. A hop count that
    fits its table exceeds the smallest one heard (`CountsExceedHeard`), and
    without Home only such counts are advertised (`NothingLowerIsHeard`), so
    the smallest count around never falls and whatever is fed back is larger.
    That it does rise until it means "no route" takes beacons and pruning, hence
    fairness, and stays with `RoutesVanish`.
  - `NextHopsAreAsPromised`: every step is one of `LHRNextHop` or none. It needs
    one more invariant, that every NDAT on its way carries a real hop count
    (`HeardHaveRoutes`): then its own entry is usable, or a full table holds
    entries at least as good (`NdatLeavesUsable`), and the choice that fits the
    table is not empty. With the theorem about `LHRDelivery` this says that the
    data plane, proved and checked by itself, assumes of routing only what
    routing does, and the other way round.
- `LHRSelectionProofs`: `PassFindsBestTwo`, `PassIsStable`. The loop invariant is
  the claim for the entries seen so far; it rests on `isBetter()` being a strict
  weak order (`IsBetterOrder`).

- `LHRTransmitProofs`
  - `TypeCorrect` and `BudgetIsKept`, for any interrupt. The budget needs
    `CheckedFits`: from the check to the charge the frame still fits, because
    no other frame is charged and no limit set in between, and a window that ends
    there only makes room. `RestAddsUp` is the arithmetic of the dropped parts of
    a millisecond. So `getDutyCycleUsage()` never exceeds 100, against what its
    comment says (finding 5).
  - `FlagsAndRadioAgree`, `NothingIsForgotten`, `CompletionsHaveLeftTheRadio`,
    assuming `Prompt`. One invariant carries all three: what the flags are and
    what the radio does, by the place of the program, and that DIO1, while high,
    has its interrupt waiting or its flag set.
- `LHRTimersProofs`, for every clock and all delays below half its range
  - `TypeCorrect`: each variable group has its own conjunct, each action its
    lemma. `DueInFacts` says what the signed difference yields.
  - `NobodyIsKeptAwake`: 0 is returned only if the deadline that was consulted has
    been reached, for which `update()` has a branch (`ZeroMeansWork`).
  - `NobodyOversleeps`: `SleepWithinDeadline`, the rest of the sleep is at most
    what `getNextUpdateInMs()` would answer now, is inductive, since a
    millisecond takes one off both (`DeadlineSteps`) and every event that brings
    a deadline nearer wakes the application. It yields `NeverOversleeps` in
    states where no deadline is out of reach of the signed difference
    (`NothingForgottenForLong`, the premise of the theorem).
  - `NoDeadlineIsForgotten` discharges that premise, and `SleepersWakeInTime` is
    `NeverOversleeps` without it. `Calls` counts the calls of `update()` that find
    something to do before the device is quiet. Each of them lowers it
    (`CallsFall`); only a beacon, which goes out when nothing else is overdue,
    raises it. Between two of them pass at most `Stage` milliseconds, so
    `WaitLeft`, the stages left, falls with every millisecond (`WaitTicks`) and
    bounds how late any deadline can still become (`DeadlinesMet`, in the
    inductive invariant `TimersInv`). Both theorems assume `MaxWait <= Half`: all
    stages together are at most half the clock's range. The bound is generous, the
    `Timers` run meets `NothingForgottenForLong` on a clock much shorter. With the default
    delays, three retry cycles and a call of `update()` every second, 32 bits are
    enough for 3000 frames and messages between two beacons.

Only model-checked: the liveness properties
(`EveryMessageSettles`, `RetryCyclesEnd`, `RoutesVanish`, `TransmissionsEnd`,
`AnnouncedFramesAreTaken`, `BeaconsGoOn`), which are beyond the prover, as is
ENABLED.

## 7. What is not modelled

- Time as a quantity, except in `LHRTimers` and in the airtime account of
  `LHRTransmit`: elsewhere all delays are nondeterministic. A resend delay of 0,
  which would merge phases into one call of `update()`, adds only the composition
  of two actions.
- Changing intervals on a running device (`setBeaconInterval()` and the like).
- In the mesh models, the interrupt between two statements: `LHRTransmit` has it
  for one device; in `LHRDelivery` a missed interrupt appears as a lost frame or a
  watchdog recovery.
- In the mesh models, a frame announced between the decision to send and the scan
  that precedes the transmission. In `LHRTransmit` it is announced, and read once
  the device has sent; the radio's one buffer then holds what was sent in between,
  so `LHRDelivery` and `LHRRouting` count the frame as lost.
- The float arithmetic between a percentage and a limit in milliseconds.
- Frames heard by devices they are not addressed to: they are discarded by every
  handler, except that they may overwrite an unread frame, which is a lost frame.
- AES-128-CCM: the backend is vendored and its loops are those of the standard;
  `LHREncryption` takes it as ideal. The order of bytes in a frame is left out:
  each field has one encoder and one decoder. In `LHRDelivery` and `LHRRouting`
  all devices are in one mode, and a frame that fails verification is a lost one.
- Locks: the guard in every public function makes a call atomic with respect to
  the others, which is the grain of the actions. The mutex is the platform's (and
  empty on boards with one thread); the interrupt takes none, see `LHRTransmit`.
- A flash write that leaves neither the old nor the new value.
- Signal strengths other than ties in the `Routing` run; `Selection` covers them.
- Test instrumentation (`_minimumAcceptedHops`, the contents of hop metadata,
  whose length is in `LHREncryption`), debug output
  (`printNeighborTable()` on Home), examples, field tests.

## 8. Plan

Done, in this order, each with its proofs: `LHRDelivery`, `LHRNonce`,
`LHRRouting`, `LHRSelection`, `LHRTransmit`, `LHRTimers`, `LHREncryption`,
`LHRMesh`, `LHRNextHop`. Open:

1. Setters that change intervals and limits on a running device.
2. The radio of `LHRDelivery`, one step per frame, as a specification that
   `LHRTransmit` implements under `Prompt`, as `LHRNextHop` is for the table. It
   has to allow for a frame announced just before a transmission (section 7).
