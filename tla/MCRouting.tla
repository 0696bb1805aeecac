----------------------------- MODULE MCRouting -----------------------------
(* Instances of LHRRouting for TLC. *)
EXTENDS LHRRouting, TLC

CONSTANTS a, b, c, h

\* a hears more devices than its table of two has room for: Home, and b and c
\* next to Home.
MCFanNodes == {a, b, c}
MCFanLinks ==
  [d \in {a, b, c, h} |-> CASE d = a -> {b, c, h} [] d \in {b, c} -> {h} [] d = h -> {}]
MCFanDist == [d \in {a, b, c, h} |-> IF d = h THEN 0 ELSE 1]
MCFanSymmetry == Permutations({b, c})

\* A chain: only a hears Home, and a and b feed each other hop counts.
MCChainNodes == {a, b}
MCChainLinks ==
  [d \in {a, b, h} |-> CASE d = a -> {b, h} [] d = b -> {a} [] d = h -> {a}]
MCChainDist ==
  [d \in {a, b, h} |-> CASE d = a -> 1 [] d = b -> 2 [] d = h -> 0]
=============================================================================
