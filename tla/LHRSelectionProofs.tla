------------------------- MODULE LHRSelectionProofs -------------------------
(* Proofs about LHRSelection: the single pass is right for every table. *)
EXTENDS LHRSelection, TLAPS



IInv == TypeOK /\ RightSoFar /\ FirstOfEquals

LEMMA InitInv == Init => IInv
BY DEF Init, IInv, TypeOK, RightSoFar, FirstOfEquals, BestTwo, Picked

\* IsBetter() is a strict weak order on the entries of the table.
LEMMA IsBetterOrder ==
  ASSUME TypeOK
  PROVE  \A j, k, l \in 1 .. neighborCount :
           /\ ~ IsBetter(j, j)
           /\ IsBetter(j, k) => ~ IsBetter(k, j)
           /\ IsBetter(j, k) /\ ~ IsBetter(l, k) => IsBetter(j, l)
<1>1. ASSUME NEW e \in Entries PROVE e.hops \in Int /\ e.rssi \in Int
  <2>1. e.hops \in 0 .. NoRoute /\ e.rssi \in Rssi
    BY DEF Entries
  <2>2. \A r \in Rssi : r \in Int
    BY SelectionAssumption
  <2>3. \A h \in 0 .. NoRoute : h \in Int
    OBVIOUS
  <2>. QED  BY <2>1, <2>2, <2>3
<1>2. \A j \in 1 .. neighborCount : neighbors[j].hops \in Int /\ neighbors[j].rssi \in Int
  BY <1>1 DEF TypeOK
<1>. SUFFICES ASSUME NEW j \in 1 .. neighborCount, NEW k \in 1 .. neighborCount,
                     NEW l \in 1 .. neighborCount
              PROVE  /\ ~ IsBetter(j, j)
                     /\ IsBetter(j, k) => ~ IsBetter(k, j)
                     /\ IsBetter(j, k) /\ ~ IsBetter(l, k) => IsBetter(j, l)
  OBVIOUS
<1>3. /\ neighbors[j].hops \in Int /\ neighbors[j].rssi \in Int
      /\ neighbors[k].hops \in Int /\ neighbors[k].rssi \in Int
      /\ neighbors[l].hops \in Int /\ neighbors[l].rssi \in Int
  BY <1>2
<1>. QED  BY <1>3 DEF IsBetter

\* What one step makes of the two indices, before the loop moves on.
LEMMA StepExtends ==
  ASSUME IInv, Step
  PROVE  /\ BestTwo(bestIdx', secondIdx', 1 .. i)
         /\ \A j \in 1 .. i :
              Usable(j) /\ bestIdx' # 0 /\ ~ IsBetter(bestIdx', j) => bestIdx' <= j
<1>1. /\ i \in 1 .. neighborCount /\ neighborCount \in Nat
      /\ \A j \in 1 .. i : j \in 1 .. neighborCount
      /\ 1 .. i = (1 .. i - 1) \cup {i}
      /\ i \notin 1 .. i - 1
  BY DEF IInv, TypeOK, Step
<1>2. \A j, k, l \in 1 .. neighborCount :
        /\ ~ IsBetter(j, j)
        /\ IsBetter(j, k) => ~ IsBetter(k, j)
        /\ IsBetter(j, k) /\ ~ IsBetter(l, k) => IsBetter(j, l)
  BY IsBetterOrder DEF IInv
<1>3. BestTwo(bestIdx, secondIdx, 1 .. i - 1) /\ FirstOfEquals
  BY DEF IInv, RightSoFar
<1>4. bestIdx \in Int /\ secondIdx \in Int
  BY DEF IInv, TypeOK
<1>5. CASE ~ Usable(i) /\ UNCHANGED <<bestIdx, secondIdx>>
  BY <1>1, <1>3, <1>5 DEF BestTwo, Picked, FirstOfEquals
<1>6. CASE Usable(i) /\ bestIdx = 0 /\ bestIdx' = i /\ UNCHANGED secondIdx
  BY <1>1, <1>2, <1>3, <1>4, <1>6 DEF BestTwo, Picked, FirstOfEquals
<1>7. CASE /\ Usable(i) /\ bestIdx # 0 /\ BeatsBest(i)
           /\ secondIdx' = Demoted /\ bestIdx' = i
  <2>1. BestTwo(bestIdx', secondIdx', 1 .. i)
    BY <1>1, <1>2, <1>3, <1>4, <1>7 DEF BestTwo, Picked, BeatsBest, Demoted
  <2>2. \A j \in 1 .. i - 1 : Usable(j) => IsBetter(i, j)
    BY <1>1, <1>2, <1>3, <1>4, <1>7 DEF BestTwo, Picked, BeatsBest
  <2>. QED  BY <2>1, <2>2, <1>1, <1>7
<1>8. CASE /\ Usable(i) /\ bestIdx # 0 /\ ~ BeatsBest(i)
           /\ secondIdx' = IF BeatsSecond(i) THEN i ELSE secondIdx
           /\ UNCHANGED bestIdx
  <2>1. BestTwo(bestIdx', secondIdx', 1 .. i)
    BY <1>1, <1>2, <1>3, <1>4, <1>8 DEF BestTwo, Picked, BeatsBest, BeatsSecond
  <2>2. bestIdx <= i
    BY <1>1, <1>3, <1>4, <1>8 DEF BestTwo, Picked
  <2>. QED  BY <2>1, <2>2, <1>1, <1>3, <1>8 DEF FirstOfEquals
<1>. QED  BY <1>5, <1>6, <1>7, <1>8 DEF Step

LEMMA StepInv == IInv /\ [Next]_vars => IInv'
<1>1. ASSUME IInv, UNCHANGED vars PROVE IInv'
  BY <1>1 DEF IInv, TypeOK, RightSoFar, FirstOfEquals, BestTwo, Picked, Usable,
              IsBetter, vars
<1>2. ASSUME IInv, Step PROVE IInv'
  <2>1. /\ i \in 1 .. neighborCount /\ i' = i + 1 /\ neighborCount \in Nat
        /\ neighborCount' = neighborCount /\ neighbors' = neighbors
    BY <1>2 DEF IInv, TypeOK, Step
  <2>2. TypeOK'
    BY <1>2, <2>1 DEF IInv, TypeOK, Step, Demoted
  <2>3. RightSoFar'
    BY <1>2, <2>1, StepExtends DEF RightSoFar, BestTwo, Picked, Usable, IsBetter
  <2>4. FirstOfEquals'
    BY <1>2, <2>1, StepExtends DEF FirstOfEquals, Usable, IsBetter
  <2>. QED  BY <2>2, <2>3, <2>4 DEF IInv
<1>. QED  BY <1>1, <1>2 DEF Next

\* The single pass of _findBestNeighbor() finds the best neighbour and the
\* runner-up of every table, of any size.
THEOREM PassFindsBestTwo == Spec => []FindsBestTwo
<1>1. IInv => FindsBestTwo
  <2>. SUFFICES ASSUME IInv, i > neighborCount PROVE BestTwo(bestIdx, secondIdx, 1 .. neighborCount)
    BY DEF FindsBestTwo
  <2>1. i - 1 = neighborCount
    BY DEF IInv, TypeOK
  <2>. QED  BY <2>1 DEF IInv, RightSoFar
<1>. QED  BY <1>1, InitInv, StepInv, PTL DEF Spec

\* Among neighbours that tie for the best, the pass keeps the first.
THEOREM PassIsStable == Spec => []FirstOfEquals
<1>1. IInv => FirstOfEquals
  BY DEF IInv
<1>. QED  BY <1>1, InitInv, StepInv, PTL DEF Spec
=============================================================================
