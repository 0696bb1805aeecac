----------------------------- MODULE LHRNextHop -----------------------------
(***************************************************************************)
(* What the routing and the data plane of the nodes rely on from each      *)
(* other: the two next hops of a node, whether it is in a retry cycle, and *)
(* whether that cycle has escalated.  The data plane takes every choice of *)
(* next hops that routing may make, routing takes retry cycles whenever    *)
(* they come.  LHRRouting and LHRDelivery both implement this              *)
(* specification (ImplementsNextHop in each), so neither assumes of the    *)
(* other what that does not keep.                                          *)
(***************************************************************************)

CONSTANTS
  Nodes,      \* the devices that forward data
  Links,      \* Links[n]: devices whose NDATs n can hear
  NoId        \* LHR_FORBIDDEN_NODE_ID

VARIABLES
  route,      \* route[n]: the best and the second best neighbour of n
  waiting,    \* waiting[n]: whether n is in a retry cycle
  asking      \* asking[n]: whether that waits for the answers to its RFCN

vars == <<route, waiting, asking>>

Nowhere == <<NoId, NoId>>

Heard(n) == Links[n] \X Links[n]

Init ==
  /\ route   = [n \in Nodes |-> Nowhere]
  /\ waiting = [n \in Nodes |-> FALSE]
  /\ asking  = [n \in Nodes |-> FALSE]

\* n reads an NDAT.  Only a device with a route advertises itself, so that
\* leaves n with somebody to send to, in a retry cycle or not.
Hear(n) ==
  /\ \E r \in Heard(n) : route' = [route EXCEPT ![n] = r]
  /\ UNCHANGED <<waiting, asking>>

\* A beacon is due, never in a retry cycle: n forgets whom it has not heard
\* for long.
Prune(n) ==
  /\ ~ waiting[n]
  /\ \E r \in Heard(n) \cup {Nowhere} : route' = [route EXCEPT ![n] = r]
  /\ UNCHANGED <<waiting, asking>>

\* The retry cycle of n escalates.  In a cycle nothing else short of a
\* restart takes its next hops from a node.
Forget(n) ==
  /\ waiting[n] /\ ~ asking[n]
  /\ route'  = [route EXCEPT ![n] = Nowhere]
  /\ asking' = [asking EXCEPT ![n] = TRUE]
  /\ UNCHANGED waiting

StopAsking(n) ==
  /\ asking[n]
  /\ asking' = [asking EXCEPT ![n] = FALSE]
  /\ UNCHANGED <<route, waiting>>

StartRetry(n) ==
  /\ ~ waiting[n]
  /\ waiting' = [waiting EXCEPT ![n] = TRUE]
  /\ UNCHANGED <<route, asking>>

EndRetry(n) ==
  /\ waiting[n]
  /\ waiting' = [waiting EXCEPT ![n] = FALSE]
  /\ asking'  = [asking EXCEPT ![n] = FALSE]
  /\ UNCHANGED route

\* A power cycle, or a re-begin, after which the next cycle may follow at once.
Restart(n) ==
  /\ route'   = [route EXCEPT ![n] = Nowhere]
  /\ waiting' \in {waiting, [waiting EXCEPT ![n] = FALSE]}
  /\ asking'  = [asking EXCEPT ![n] = FALSE]

Next ==
  \E n \in Nodes :
    \/ Hear(n) \/ Prune(n) \/ Forget(n) \/ StopAsking(n)
    \/ StartRetry(n) \/ EndRetry(n) \/ Restart(n)

Spec == Init /\ [][Next]_vars
=============================================================================
