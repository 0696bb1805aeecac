--------------------------- MODULE LHRNonceProofs ---------------------------
(***************************************************************************)
(* Proofs about LHRNonce.  The argument: an enabled device hands out       *)
(* values below the reserved end only, the store holds at least that end,  *)
(* and the RAM counter is above every value used.  A disabled device has   *)
(* only the store to rely on, which is above every value used as well.     *)
(* An enableEncryption(true) that fails under encryption that is on moves  *)
(* the reservation past the store, by a batch and no more.                 *)
(***************************************************************************)
EXTENDS LHRNonce, TLAPS

Safe == lapse \in {"none", "failed"}

\* While encryption is on, the RAM counter is past every used value.
RamIsAhead ==
  enabled /\ Safe => \A c \in Counters : used[c] > 0 => c < counter

\* The reservation in RAM exceeds the one in the store by the batch of a
\* failed enableEncryption(true) at most.
ReservationFits ==
  enabled =>
    /\ counter <= reserved
    /\ lapse = "none" => reserved <= stored
    /\ lapse \in {"failed", "ignored"} => reserved <= stored + Batch
    /\ lapse = "failed" => counter < reserved /\ counter <= stored

\* A failed call is remembered while encryption stays on.
FailedIsOn == lapse = "failed" => enabled

IInv ==
  /\ TypeOK /\ UniqueUntilLapse /\ StoreIsAhead /\ SkipBounded
  /\ RamIsAhead /\ ReservationFits /\ FailedIsOn

\* What the arithmetic needs of the constants.
LEMMA Sizes ==
  /\ Batch \in Nat /\ Batch > 0 /\ StoreMax \in Nat
  /\ CounterMax \in Nat /\ CounterMax <= StoreMax
BY NonceAssumption

\* A new device satisfies the inductive invariant.
LEMMA InitIsSafe == Init => IInv
<1> SUFFICES ASSUME Init PROVE IInv
  OBVIOUS
<1>1. \A c \in Counters : used[c] = 0
  BY DEF Init
<1>2. 0 \in Counters /\ counter \in Counters /\ reserved \in Counters
  BY NonceAssumption DEF Init, Counters
<1>3. TypeOK
  <2>1. keySet \in BOOLEAN /\ enabled \in BOOLEAN
    BY DEF Init
  <2>2. used \in [Counters -> 0 .. 2]
    BY DEF Init
  <2> QED
    BY <1>2, <2>1, <2>2 DEF Init, TypeOK, Lapses
<1>4. UniqueUntilLapse /\ StoreIsAhead
  BY <1>1 DEF UniqueUntilLapse, UniqueCounters, StoreIsAhead
<1> QED
  BY <1>3, <1>4
     DEF Init, IInv, SkipBounded, RamIsAhead, ReservationFits, FailedIsOn

\* Loading the counter and reserving a batch keeps the types.
LEMMA EnableKeepsTypes ==
  ASSUME TypeOK, EnableEncryption
  PROVE  TypeOK'
<1> USE Sizes DEF TypeOK, Counters
<1>1. PICK ok \in BOOLEAN :
        /\ IF ok THEN stored' = reserved' ELSE StoreFails(reserved')
        /\ enabled' = EnabledAfter(ok)
        /\ lapse' = LapseAfterEnable(ok)
  BY DEF EnableEncryption
<1>2. /\ counter' \in {0, stored} /\ reserved' = counter' + Batch
      /\ stored' \in {stored, reserved'}
      /\ keySet' = keySet /\ used' = used /\ stored <= StoreMax
  BY <1>1 DEF EnableEncryption, Loaded, StoreFails
<1>3. counter' \in Counters /\ reserved' \in Counters /\ stored' \in Counters
  <2>1. \A x \in {0, stored} : x \in Counters /\ x + Batch \in Counters
    BY <1>2
  <2> QED
    BY <1>2, <2>1
<1>4. enabled' \in BOOLEAN /\ lapse' \in Lapses
  BY <1>1 DEF EnabledAfter, LapseAfterEnable, Forgiven, Lapses
<1> QED
  BY <1>2, <1>3, <1>4

\* The inductive invariant holds then, whether the write fails or not.
LEMMA EnableIsSafe ==
  ASSUME IInv, EnableEncryption
  PROVE  IInv'
<1> USE Sizes DEF Counters
<1>t. TypeOK /\ TypeOK'
  BY EnableKeepsTypes DEF IInv
<1>1. PICK ok \in BOOLEAN :
        /\ IF ok THEN stored' = reserved' ELSE StoreFails(reserved')
        /\ enabled' = EnabledAfter(ok)
        /\ lapse' = LapseAfterEnable(ok)
  BY DEF EnableEncryption
<1>2. /\ counter' \in {0, stored} /\ reserved' = counter' + Batch
      /\ stored' \in {stored, reserved'} /\ used' = used
  BY <1>1 DEF EnableEncryption, Loaded, StoreFails
<1>n. stored \in Nat
  BY <1>t DEF TypeOK
<1>6. CASE counter' # stored
  <2>1. lapse' = "unread"
    BY <1>1, <1>6 DEF LapseAfterEnable
  <2>2. counter' <= reserved'
    <3>1. \A x \in {0, stored} : x <= x + Batch
      BY <1>n
    <3> QED
      BY <1>2, <3>1
  <2> QED
    BY <1>t, <2>1, <2>2
       DEF IInv, UniqueUntilLapse, StoreIsAhead, SkipBounded, RamIsAhead,
           ReservationFits, FailedIsOn, Safe
<1>7. CASE counter' = stored
  <2>1. /\ Safe' <=> Safe
        /\ lapse' \in {"ignored", "unread"} => lapse' = lapse
    BY <1>1, <1>7 DEF LapseAfterEnable, Forgiven, Safe
  <2>2. stored' \in {stored, stored + Batch} /\ reserved' = stored + Batch
    BY <1>2, <1>7
  <2>3. UniqueUntilLapse' /\ StoreIsAhead'
    <3>1. UniqueUntilLapse'
      BY <1>2, <2>1 DEF IInv, UniqueUntilLapse, UniqueCounters, Safe
    <3>2. \A c \in Counters : used'[c] > 0 =>
            /\ Safe' => c < stored'
            /\ lapse' = "ignored" => c < stored' + Batch
      <4> SUFFICES ASSUME NEW c \in Counters, used[c] > 0
                   PROVE  /\ Safe' => c < stored'
                          /\ lapse' = "ignored" => c < stored' + Batch
        BY <1>2
      <4>1. /\ Safe => c < stored
            /\ lapse = "ignored" => c < stored + Batch
        BY DEF IInv, StoreIsAhead, Safe
      <4>2. \A s \in {stored, stored + Batch} :
              /\ Safe => c < s
              /\ lapse = "ignored" => c < s + Batch
        BY <1>n, <4>1
      <4> QED
        BY <2>1, <2>2, <4>2
    <3> QED
      BY <3>1, <3>2 DEF StoreIsAhead, Safe
  <2>4. SkipBounded'
    <3>1. \A s \in {stored, stored + Batch} : s <= stored + Batch
      BY <1>n
    <3> QED
      BY <1>7, <2>2, <3>1 DEF SkipBounded
  <2>5. RamIsAhead'
    BY <1>2, <1>7, <2>1 DEF IInv, StoreIsAhead, RamIsAhead, Safe
  <2>6. ReservationFits'
    <3>1. ok => stored' = reserved'
      BY <1>1
    <3>2. ~ ok /\ enabled' => enabled /\ lapse' # "none"
      BY <1>1, <1>7 DEF EnabledAfter, LapseAfterEnable
    <3>3. /\ counter' <= reserved' /\ counter' < reserved' /\ counter' <= stored'
          /\ reserved' <= stored' + Batch
          /\ reserved' <= reserved'
      <4>1. \A s \in {stored, stored + Batch} :
              /\ stored <= s /\ stored + Batch <= s + Batch
              /\ stored <= stored + Batch /\ stored < stored + Batch
              /\ stored + Batch <= stored + Batch
        BY <1>n
      <4> QED
        BY <1>7, <2>2, <4>1
    <3> QED
      BY <3>1, <3>2, <3>3 DEF ReservationFits
  <2>7. FailedIsOn'
    BY <1>1, <1>7
       DEF IInv, FailedIsOn, EnabledAfter, LapseAfterEnable, Forgiven
  <2> QED
    BY <1>t, <2>3, <2>4, <2>5, <2>6, <2>7 DEF IInv
<1> QED
  BY <1>6, <1>7

\* Handing out a value, the next of the batch or the first of a new one.
LEMMA NextValueIsSafe ==
  ASSUME IInv, NextNonceCounter
  PROVE  IInv'
<1> USE Sizes DEF Counters
<1>t. TypeOK
  BY DEF IInv
<1>1. counter \in Counters /\ counter + 1 \in Counters /\ counter + Batch \in Counters
  BY <1>t DEF NextNonceCounter, TypeOK
<1>2. /\ enabled /\ enabled' = enabled /\ keySet' = keySet
      /\ counter' = counter + 1
      /\ lapse' = IF lapse = "failed" THEN "ignored" ELSE lapse
  BY DEF NextNonceCounter
<1>3. /\ lapse' \in {"none", "ignored", "unread"}
      /\ lapse' = "none" <=> lapse = "none"
      /\ lapse' = "ignored" <=> lapse \in {"failed", "ignored"}
      /\ lapse' = "unread" <=> lapse = "unread"
  BY <1>t, <1>2 DEF TypeOK, Lapses
<1>4. /\ stored' \in Counters /\ reserved' \in Counters /\ counter' <= reserved'
      /\ lapse = "none" => reserved' <= stored'
      /\ lapse' = "ignored" => reserved' <= stored' + Batch
      /\ lapse # "unread" => stored <= stored' /\ stored' <= counter' + Batch
  <2>1. CASE ReservationUsedUp
    <3>1. stored' = counter + Batch /\ reserved' = counter + Batch
      BY <2>1 DEF NextNonceCounter, Reservation
    <3> QED
      BY <1>t, <1>1, <1>2, <3>1 DEF IInv, SkipBounded, TypeOK
  <2>2. CASE ~ ReservationUsedUp
    <3>1. stored' = stored /\ reserved' = reserved /\ counter < reserved
      BY <1>t, <2>2 DEF NextNonceCounter, ReservationUsedUp, TypeOK
    <3> QED
      BY <1>t, <1>1, <1>2, <1>3, <3>1 DEF IInv, SkipBounded, ReservationFits, TypeOK
  <2> QED
    BY <2>1, <2>2
<1>5. used' = [used EXCEPT ![counter] = IF @ < 2 THEN @ + 1 ELSE @]
  BY DEF NextNonceCounter
<1>6. used' \in [Counters -> 0 .. 2]
  BY <1>t, <1>1, <1>5 DEF TypeOK
<1>7. \A c \in Counters : used'[c] > 0 => used[c] > 0 \/ c = counter
  BY <1>t, <1>1, <1>5 DEF TypeOK
<1>8. TypeOK'
  BY <1>t, <1>1, <1>2, <1>3, <1>4, <1>6 DEF TypeOK, Lapses
<1>9. UniqueUntilLapse'
  <2> SUFFICES ASSUME lapse' = "none", NEW c \in Counters PROVE used'[c] <= 1
    BY <1>3 DEF UniqueUntilLapse, UniqueCounters
  <2>1. used[counter] = 0
    BY <1>t, <1>1, <1>2, <1>3 DEF IInv, RamIsAhead, Safe, TypeOK
  <2>2. used[c] <= 1
    BY <1>3 DEF IInv, UniqueUntilLapse, UniqueCounters
  <2> QED
    BY <1>t, <1>1, <1>5, <2>1, <2>2 DEF TypeOK
<1>10. StoreIsAhead'
  <2> SUFFICES ASSUME NEW c \in Counters, used'[c] > 0
               PROVE  /\ lapse' = "none" => c < stored'
                      /\ lapse' = "ignored" => c < stored' + Batch
    BY <1>3 DEF StoreIsAhead
  <2>n. /\ c \in Nat /\ counter \in Nat
        /\ stored \in Nat /\ stored' \in Nat /\ reserved' \in Nat
    BY <1>t, <1>1, <1>4 DEF TypeOK
  <2>1. CASE c = counter
    <3>1. \A r, s \in Nat : counter + 1 <= r =>
            /\ r <= s => counter < s
            /\ r <= s + Batch => counter < s + Batch
      BY <2>n
    <3> QED
      BY <1>2, <1>3, <1>4, <2>1, <2>n, <3>1
  <2>2. CASE used[c] > 0
    <3>1. /\ lapse = "none" \/ lapse = "failed" => c < stored
          /\ lapse = "ignored" => c < stored + Batch
      BY <2>2 DEF IInv, StoreIsAhead
    <3>2. \A s \in Nat : stored <= s =>
            /\ c < stored => c < s /\ c < s + Batch
            /\ c < stored + Batch => c < s + Batch
      BY <2>n
    <3> QED
      BY <1>3, <1>4, <2>n, <3>1, <3>2
  <2> QED
    BY <1>7, <2>1, <2>2
<1>11. RamIsAhead'
  BY <1>1, <1>2, <1>3, <1>7 DEF IInv, RamIsAhead, Safe
<1>12. SkipBounded' /\ ReservationFits' /\ FailedIsOn'
  BY <1>3, <1>4 DEF SkipBounded, ReservationFits, FailedIsOn
<1> QED
  BY <1>8, <1>9, <1>10, <1>11, <1>12 DEF IInv

\* Every step preserves the inductive invariant.
LEMMA StepIsSafe == IInv /\ [Next]_vars => IInv'
<1> SUFFICES ASSUME IInv, [Next]_vars PROVE IInv'
  OBVIOUS
<1> USE Sizes
    DEF TypeOK, UniqueUntilLapse, UniqueCounters, StoreIsAhead, SkipBounded,
        RamIsAhead, ReservationFits, FailedIsOn, Safe, Counters, Lapses
<1>1. CASE SetEncryptionKey
  BY <1>1 DEF IInv, SetEncryptionKey
<1>2. CASE DisableEncryption
  BY <1>2 DEF IInv, DisableEncryption, Forgiven
<1>3. CASE EnableEncryption
  BY <1>3, EnableIsSafe
<1>4. CASE NextNonceCounter
  BY <1>4, NextValueIsSafe
<1>5. CASE NextNonceCounterFails
  <2>1. /\ UNCHANGED <<keySet, enabled, counter, reserved, used, lapse>>
        /\ enabled /\ stored' \in {stored, counter + Batch}
        /\ counter >= reserved /\ counter + Batch < CounterMax
    BY <1>5 DEF NextNonceCounterFails, StoreFails, Reservation, ramVars,
                ReservationUsedUp
  <2>2. /\ stored' \in Counters
        /\ lapse # "unread" => stored <= stored' /\ stored' <= counter + Batch
    BY <2>1 DEF IInv
  <2>3. StoreIsAhead'
    <3>1. \A s \in Counters, c \in Counters : stored <= s =>
            /\ c < stored => c < s
            /\ c < stored + Batch => c < s + Batch
      BY DEF IInv
    <3> QED
      BY <2>1, <2>2, <3>1 DEF IInv
  <2>4. ReservationFits'
    <3>1. lapse # "failed"
      BY <2>1 DEF IInv
    <3>2. \A s \in Counters : stored <= s =>
            /\ reserved <= stored => reserved <= s
            /\ reserved <= stored + Batch => reserved <= s + Batch
      BY DEF IInv
    <3> QED
      BY <2>1, <2>2, <3>1, <3>2 DEF IInv
  <2>5. TypeOK' /\ UniqueUntilLapse' /\ SkipBounded' /\ RamIsAhead' /\ FailedIsOn'
    BY <2>1, <2>2 DEF IInv
  <2> QED
    BY <2>3, <2>4, <2>5 DEF IInv
<1>6. CASE PowerCycle
  BY <1>6, NonceAssumption DEF IInv, PowerCycle, Forgiven
<1>7. CASE UNCHANGED vars
  BY <1>7 DEF IInv, vars, ramVars
<1> QED
  BY <1>1, <1>2, <1>3, <1>4, <1>5, <1>6, <1>7 DEF Next

LEMMA StepKeepsTypes == TypeOK /\ [Next]_vars => TypeOK'
<1> SUFFICES ASSUME TypeOK, [Next]_vars PROVE TypeOK'
  OBVIOUS
<1> USE Sizes DEF TypeOK, Counters, Lapses
<1>1. CASE SetEncryptionKey
  BY <1>1 DEF SetEncryptionKey
<1>2. CASE DisableEncryption
  BY <1>2 DEF DisableEncryption, Forgiven
<1>3. CASE EnableEncryption
  BY <1>3, EnableKeepsTypes
<1>4. CASE NextNonceCounter
  BY <1>4 DEF NextNonceCounter, Reservation
<1>5. CASE NextNonceCounterFails
  BY <1>5 DEF NextNonceCounterFails, StoreFails, Reservation, ramVars
<1>6. CASE PowerCycle
  BY <1>6, NonceAssumption DEF PowerCycle, Forgiven
<1>7. CASE UNCHANGED vars
  BY <1>7 DEF vars, ramVars
<1> QED
  BY <1>1, <1>2, <1>3, <1>4, <1>5, <1>6, <1>7 DEF Next

\* Every variable keeps to its type; in particular no reservation is made
\* beyond what the store can hold, whichever reads and writes fail, for any
\* batch size and search bound (_initNonceCounter(), _nextNonceCounter()).
THEOREM TypesKept == Spec => []TypeOK
<1>1. IInv => TypeOK
  BY DEF IInv
<1> QED
  BY <1>1, InitIsSafe, StepIsSafe, PTL DEF Spec

\* Until something is encrypted after an enableEncryption(true) that failed on
\* an encrypting device, or a value in the store is not found, no counter
\* value encrypts two packets, for any batch size and search bound: values are
\* handed out below a reservation that reaches the store first.
THEOREM CountersAreUnique == Spec => []UniqueUntilLapse
<1>1. IInv => UniqueUntilLapse
  BY DEF IInv
<1> QED
  BY <1>1, InitIsSafe, StepIsSafe, PTL DEF Spec

\* Until then the store is past all used values, so that a power cycle is
\* harmless whenever it comes; after an ignored error it is behind by a batch
\* at most, for as long as the store can be read.
THEOREM StoreStaysAhead == Spec => []StoreIsAhead
<1>1. IInv => StoreIsAhead
  BY DEF IInv
<1> QED
  BY <1>1, InitIsSafe, StepIsSafe, PTL DEF Spec

\* While encryption is on, the store is at most one batch above the next
\* value, whatever failed before, unless a value in it was not found.
THEOREM SkipsAreBounded == Spec => []SkipBounded
<1>1. IInv => SkipBounded
  BY DEF IInv
<1> QED
  BY <1>1, InitIsSafe, StepIsSafe, PTL DEF Spec
=============================================================================
