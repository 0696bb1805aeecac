---------------------------- MODULE MCDelivery -----------------------------
(* Instances of LHRDelivery for TLC. *)
EXTENDS LHRDelivery, TLC

CONSTANTS a, b, h, a1, a2, b1, b2

\* Two nodes and Home; b is the relay, and may point back at a.
MCNodes == {a, b}
MCChain == [n \in MCNodes |-> IF n = a THEN {b} ELSE {a, h}]
MCMessages == {a1, a2}
MCOrigin == [m \in MCMessages |-> a]

\* One node next to Home.
MCStar == [n \in {a} |-> {h}]
MCStarOrigin == [m \in MCMessages |-> a]

\* a reaches Home directly and through b, which has two messages of its own.
MCDiamond == [n \in MCNodes |-> IF n = a THEN {b, h} ELSE {h}]
MCTrio == {a1, b1, b2}
MCTrioOrigin == [m \in MCTrio |-> IF m = a1 THEN a ELSE b]

\* The messages of one source are interchangeable.
MCTrioSymmetry == Permutations({b1, b2})

\* The state without aired and acked, history that no step reads and only
\* ConfirmedIsAired is about.
MCView == <<retryVars, bufferVars, seenVars, route, radioVars,
            outcome, delivered, since, heard, boundVars>>

\* Two nodes that know only each other.
MCMutual == [n \in MCNodes |-> MCNodes \ {n}]

MCSingleOrigin == [m \in {a1} |-> a]
=============================================================================
