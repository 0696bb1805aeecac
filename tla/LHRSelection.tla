---------------------------- MODULE LHRSelection ----------------------------
(***************************************************************************)
(* The loop of _findBestNeighbor(): one pass over the array of neighbours  *)
(* that finds the best of them and the runner-up.  LHRRouting takes what   *)
(* it finds for granted (BestOf, SecondOf); here the loop runs entry by    *)
(* entry over every table.  Index 0 stands for the code's -1, and the      *)
(* array starts at 1.                                                      *)
(***************************************************************************)
EXTENDS Integers

CONSTANTS
  MaxNeighbors,   \* LHR_MAX_NEIGHBORS
  NoRoute,        \* LHR_HOPS_NO_ROUTE
  Rssi            \* signal strengths

ASSUME SelectionAssumption ==
  MaxNeighbors \in Nat /\ NoRoute \in Nat /\ Rssi \subseteq Int

Entries == [hops : 0 .. NoRoute, rssi : Rssi]

VARIABLES
  neighborCount,  \* _neighborCount
  neighbors,      \* _neighbors; what lies behind neighborCount is never read
  i,              \* the loop's index
  bestIdx, secondIdx

vars == <<neighborCount, neighbors, i, bestIdx, secondIdx>>

Init ==
  /\ neighborCount \in 0 .. MaxNeighbors
  /\ neighbors \in [1 .. neighborCount -> Entries]
  /\ i = 1 /\ bestIdx = 0 /\ secondIdx = 0

\* isBetter()
IsBetter(j, k) ==
  \/ neighbors[j].hops < neighbors[k].hops
  \/ /\ neighbors[j].hops = neighbors[k].hops
     /\ neighbors[j].rssi > neighbors[k].rssi

Usable(j) == neighbors[j].hops < NoRoute

\* Mutant of Demoted: the old best is forgotten where there is a runner-up.
DemotedIfNone == IF secondIdx = 0 THEN bestIdx ELSE secondIdx

\* The runner-up once a new best is found.
Demoted ==
  IF secondIdx = 0 \/ IsBetter(bestIdx, secondIdx) THEN bestIdx ELSE secondIdx

\* Mutant of BeatsSecond: the first runner-up stays.
BeatsNobody(j) == secondIdx = 0

BeatsSecond(j) == secondIdx = 0 \/ IsBetter(j, secondIdx)

\* Mutant of BeatsBest: a tie goes to the later entry.
BeatsBestOrTies(j) == ~ IsBetter(bestIdx, j)

BeatsBest(j) == IsBetter(j, bestIdx)

\* One entry of the array.
Step ==
  /\ i <= neighborCount
  /\ i' = i + 1
  /\ \/ /\ ~ Usable(i)
        /\ UNCHANGED <<bestIdx, secondIdx>>
     \/ /\ Usable(i) /\ bestIdx = 0
        /\ bestIdx' = i /\ UNCHANGED secondIdx
     \/ /\ Usable(i) /\ bestIdx # 0 /\ BeatsBest(i)
        /\ secondIdx' = Demoted /\ bestIdx' = i
     \/ /\ Usable(i) /\ bestIdx # 0 /\ ~ BeatsBest(i)
        /\ secondIdx' = IF BeatsSecond(i) THEN i ELSE secondIdx
        /\ UNCHANGED bestIdx
  /\ UNCHANGED <<neighborCount, neighbors>>

Next == Step

Spec == Init /\ [][Next]_vars
-----------------------------------------------------------------------------
(* Properties *)

Picked(S) == {j \in S : Usable(j)}

\* b and s are the best two of the entries S: the best is 0 only if no entry
\* is usable, the runner-up only if none but the best is, and nothing left
\* out is better than either.
BestTwo(b, s, S) ==
  /\ IF b = 0 THEN Picked(S) = {}
     ELSE b \in Picked(S) /\ \A j \in Picked(S) : ~ IsBetter(j, b)
  /\ IF s = 0 THEN Picked(S) \subseteq {b}
     ELSE s \in Picked(S) \ {b} /\ \A j \in Picked(S) \ {b} : ~ IsBetter(j, s)

\* Every variable keeps to its type.
TypeOK ==
  /\ neighborCount \in 0 .. MaxNeighbors
  /\ neighbors \in [1 .. neighborCount -> Entries]
  /\ i \in 1 .. neighborCount + 1
  /\ bestIdx \in 0 .. neighborCount /\ secondIdx \in 0 .. neighborCount

\* The inductive invariant: the two are right for the entries seen so far.
RightSoFar == BestTwo(bestIdx, secondIdx, 1 .. i - 1)

\* When the loop is done, a single pass has found both the best and the
\* second best of the table, in whatever order the entries lie in it and
\* however they tie: demoting the old best loses neither.
FindsBestTwo ==
  i > neighborCount => BestTwo(bestIdx, secondIdx, 1 .. neighborCount)

\* Of neighbours that tie for the best the loop keeps the one that came
\* first, so that news of an equal does not move the route.
FirstOfEquals ==
  \A j \in 1 .. i - 1 :
    Usable(j) /\ bestIdx # 0 /\ ~ IsBetter(bestIdx, j) => bestIdx <= j
=============================================================================
