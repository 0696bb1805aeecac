------------------------------ MODULE LHRNonce ------------------------------
(***************************************************************************)
(* The nonce counter of one device (LHR_Encryption.cpp) and its persistent *)
(* copy (LHR_EncryptionStore.cpp).  Every encrypted packet takes the next  *)
(* value of a RAM counter; the store holds the end of a batch of values    *)
(* reserved in advance, so that it is written once per batch.  Power may   *)
(* be lost at any moment, the store may not be readable, and a write may   *)
(* fail, with or without the value having reached the flash.               *)
(***************************************************************************)
EXTENDS Naturals

CONSTANTS
  Batch,        \* LHR_NONCE_BATCH_SIZE
  CounterMax,   \* LHR_NONCE_COUNTER_MAX
  StoreMax,     \* bound: last value of the store that is loaded
  RamValues,    \* bound: what the two counters in RAM may hold, unset
  LoadMayFail   \* whether a value in the store may fail to be read

\* The 32 bits of the code leave room for a reservation above StoreMax.
ASSUME NonceAssumption ==
  /\ Batch \in Nat \ {0}
  /\ CounterMax \in Nat
  /\ StoreMax \in Nat /\ CounterMax <= StoreMax
  /\ RamValues \subseteq 0 .. StoreMax + Batch
  /\ LoadMayFail \in BOOLEAN

VARIABLES
  keySet,    \* _encryptionKeySet
  enabled,   \* _encryptionEnabled
  counter,   \* _encryptionNonceCounter
  reserved,  \* _encryptionNonceReserved
  stored,    \* the counter in NVS or EEPROM; a store never written reads as 0
  used,      \* used[c]: packets encrypted with counter value c, counted up to 2
  lapse      \* history: the worst that has happened to the store, see Lapses

ramVars == <<keySet, enabled, counter, reserved>>
vars == <<ramVars, stored, used, lapse>>

\* "failed": an enableEncryption(true) made while encryption was on has
\* returned an error, and nothing has been encrypted since.  "ignored":
\* something was encrypted after such an error.  "unread": a value in the
\* store was not found.  The last two are never mended.
Lapses == {"none", "failed", "ignored", "unread"}

Counters == 0 .. StoreMax + Batch

\* A new device; the two counters in RAM are not initialised.
Init ==
  /\ keySet = FALSE /\ enabled = FALSE
  /\ counter \in RamValues /\ reserved \in RamValues
  /\ stored = 0
  /\ used = [c \in Counters |-> 0]
  /\ lapse = "none"

SetEncryptionKey ==
  /\ keySet' = TRUE
  /\ UNCHANGED <<enabled, counter, reserved, stored, used, lapse>>

\* A failed call does no harm when encryption is off before the next packet.
Forgiven == IF lapse = "failed" THEN "none" ELSE lapse

DisableEncryption ==
  /\ enabled' = FALSE
  /\ lapse' = Forgiven
  /\ UNCHANGED <<keySet, counter, reserved, stored, used>>

\* _storeNonceCounter() reports failure; the value may be in the store or not.
StoreFails(value) == stored' \in {stored, value}

\* Mutant of EnabledAfter: encryption is switched on before the outcome of
\* _initNonceCounter() is known.
EnabledAfterAnyInit(ok) == TRUE

\* _encryptionEnabled once _initNonceCounter() has returned; an error leaves
\* it as it was.
EnabledAfter(ok) == ok \/ enabled

\* What _loadNonceCounter() may leave in the counter; that it reports failure
\* is not looked at, and a store that cannot be read counts as a new one.
Loaded == {stored} \cup (IF LoadMayFail THEN {0} ELSE {})

LapseAfterEnable(ok) ==
  IF counter' # stored THEN "unread"
  ELSE IF ~ ok /\ enabled /\ lapse = "none" THEN "failed"
  ELSE IF ok THEN Forgiven ELSE lapse

\* enableEncryption(true): _initNonceCounter() loads the counter, which is
\* the end of the last reservation, and reserves the batch above it.  Both
\* have taken effect in RAM when the write fails, even on a device that goes
\* on encrypting.  Without a key, or when the store cannot be opened, nothing
\* changes.
EnableEncryption ==
  /\ keySet
  /\ stored <= StoreMax
  /\ counter' \in Loaded
  /\ reserved' = counter' + Batch
  /\ \E ok \in BOOLEAN :
       /\ IF ok THEN stored' = reserved' ELSE StoreFails(reserved')
       /\ enabled' = EnabledAfter(ok)
       /\ lapse' = LapseAfterEnable(ok)
  /\ UNCHANGED <<keySet, used>>

\* Mutant of ReservationUsedUp: off by one.
ReservationPassed == counter > reserved

ReservationUsedUp == counter >= reserved

\* Mutant of Reservation: counted from what the store is believed to hold.
ReservationAboveStore == stored + Batch

\* The end of the batch _nextNonceCounter() reserves.
Reservation == counter + Batch

\* _nextNonceCounter(), called once for every DATA, NDAT, RFCN and DATA_RES
\* an encrypting device builds: a value is handed out only below the end of
\* the reservation, and none once the search bound of receivers is near.
NextNonceCounter ==
  /\ enabled
  /\ counter + Batch < CounterMax
  /\ IF ReservationUsedUp
     THEN stored' = Reservation /\ reserved' = Reservation
     ELSE UNCHANGED <<stored, reserved>>
  /\ used' = [used EXCEPT ![counter] = IF @ < 2 THEN @ + 1 ELSE @]
  /\ counter' = counter + 1
  /\ lapse' = IF lapse = "failed" THEN "ignored" ELSE lapse
  /\ UNCHANGED <<keySet, enabled>>

\* LHR_ERR_STORE_WRITE_FAIL: no value is handed out.
NextNonceCounterFails ==
  /\ enabled
  /\ counter + Batch < CounterMax
  /\ ReservationUsedUp
  /\ StoreFails(Reservation)
  /\ UNCHANGED <<ramVars, used, lapse>>

\* A power cycle.  One that interrupts an operation after its write is the
\* failing variant of that operation followed by this.
PowerCycle ==
  /\ keySet' = FALSE /\ enabled' = FALSE
  /\ counter' \in RamValues /\ reserved' \in RamValues
  /\ lapse' = Forgiven
  /\ UNCHANGED <<stored, used>>

Next ==
  \/ SetEncryptionKey \/ DisableEncryption \/ EnableEncryption
  \/ NextNonceCounter \/ NextNonceCounterFails
  \/ PowerCycle

Spec == Init /\ [][Next]_vars
-----------------------------------------------------------------------------
\* Every variable keeps to its type.
TypeOK ==
  /\ keySet \in BOOLEAN /\ enabled \in BOOLEAN
  /\ counter \in Counters /\ reserved \in Counters /\ stored \in Counters
  /\ used \in [Counters -> 0 .. 2]
  /\ lapse \in Lapses

\* No counter value ever encrypts two packets.
UniqueCounters == \A c \in Counters : used[c] <= 1

\* Nor does one, however power cycles, failed writes and enableEncryption()
\* calls follow one another, until something is encrypted after an
\* enableEncryption(true) that failed on an encrypting device, or a value in
\* the store is not found.
UniqueUntilLapse == lapse \in {"none", "failed"} => UniqueCounters

\* Until then the store is ahead of every value ever used, so that a power
\* cycle costs nothing but skipped values.  After an error that was ignored
\* it is never more than a batch behind: a power cycle then brings back the
\* values of one batch at most.
StoreIsAhead ==
  \A c \in Counters : used[c] > 0 =>
    /\ lapse \in {"none", "failed"} => c < stored
    /\ lapse = "ignored" => c < stored + Batch

\* While encryption is on, a power cycle skips at most the batch that is
\* reserved.  Each enableEncryption(true) that fails while it is off, but
\* reaches the store, skips one more.
SkipBounded == enabled /\ lapse # "unread" => stored <= counter + Batch
=============================================================================
