------------------------------ MODULE LHRMesh -------------------------------
(***************************************************************************)
(* What the mesh promises to the applications at its two ends: the sender  *)
(* of a message is told at most once what became of it, and is told        *)
(* "confirmed" only if a next hop has a message of that number from it;    *)
(* Home gets what has come hop by hop from its origin, and gets a message  *)
(* again only after RingSize others or a restart.  Packets, buffers,       *)
(* routes, retries and frames do not show.  LHRDelivery implements this    *)
(* specification (ImplementsMesh there).                                   *)
(***************************************************************************)
EXTENDS Naturals

CONSTANTS
  Nodes,      \* the devices with a sending application
  Home,       \* the device the messages are for
  Messages,   \* what the applications send
  Origin,     \* Origin[m]: the node m is sent from
  RingSize,   \* how many deliveries Home remembers
  Numbers,    \* the sequence numbers
  None        \* no number yet

Devices == Nodes \cup {Home}

VARIABLES
  outcome,    \* what the application of Origin[m] knows of m
  number,     \* the number Origin[m] gave m; other messages may share it
  heard,      \* <<n, q, m>>: q has received m from n
  since       \* since[m]: deliveries after that of m, up to RingSize, the
              \* value also of a message that Home does not remember

vars == <<outcome, number, heard, since>>

Init ==
  /\ outcome = [m \in Messages |-> "unsent"]
  /\ number  = [m \in Messages |-> None]
  /\ heard   = {}
  /\ since   = [m \in Messages |-> RingSize]

\* A message gets one number, at the latest when it is first transmitted, in
\* the same step as whatever else happens at its node.
Numbering ==
  \/ UNCHANGED number
  \/ \E m \in Messages, s \in Numbers :
       /\ number[m] = None /\ outcome'[m] # "unsent"
       /\ number' = [number EXCEPT ![m] = s]

\* The node takes m over from its application.
Accept(m) ==
  /\ outcome[m] = "unsent"
  /\ outcome' = [outcome EXCEPT ![m] = "pending"]
  /\ UNCHANGED <<heard, since>>

\* n, which is the origin of m or has received it, has passed m to q.
Pass(n, q, m) ==
  /\ number[m] # None
  /\ n = Origin[m] \/ \E p \in Nodes : <<p, n, m>> \in heard
  /\ heard' = heard \cup {<<n, q, m>>}
  /\ UNCHANGED outcome

\* q keeps m to pass it on, or discards it as known or as worn out.
Hop(n, q, m) == Pass(n, q, m) /\ UNCHANGED since

\* The application of Home gets m, which Home does not remember.  The origin
\* may have settled m long before.
Deliver(n, m) ==
  /\ Pass(n, Home, m)
  /\ since[m] = RingSize
  /\ since' = [k \in Messages |-> IF k = m THEN 0
                                  ELSE IF since[k] < RingSize THEN since[k] + 1
                                  ELSE since[k]]

\* The application is told that m was confirmed: by a next hop, not by Home,
\* and by number.
Confirm(m) ==
  /\ outcome[m] = "pending" /\ number[m] # None
  /\ \E q \in Devices, k \in Messages :
       <<Origin[m], q, k>> \in heard /\ number[k] = number[m]
  /\ outcome' = [outcome EXCEPT ![m] = "confirmed"]
  /\ UNCHANGED <<heard, since>>

\* The application is told that m failed, wherever m may have got to.
Fail(m) ==
  /\ outcome[m] = "pending"
  /\ outcome' = [outcome EXCEPT ![m] = "failed"]
  /\ UNCHANGED <<heard, since>>

\* Node n is begun anew; its application hears nothing of what was pending.
Lose(n) ==
  /\ outcome' = [m \in Messages |->
       IF Origin[m] = n /\ outcome[m] = "pending" THEN "lost" ELSE outcome[m]]
  /\ UNCHANGED <<heard, since>>

\* Home is switched off and on and remembers nothing.
Forget ==
  /\ since' = [m \in Messages |-> RingSize]
  /\ UNCHANGED <<outcome, heard>>

Next ==
  /\ Numbering
  /\ \/ UNCHANGED <<outcome, heard, since>>
     \/ \E m \in Messages : Accept(m) \/ Confirm(m) \/ Fail(m)
     \/ \E n \in Nodes, m \in Messages :
          Deliver(n, m) \/ \E q \in Devices : Hop(n, q, m)
     \/ \E n \in Nodes : Lose(n)
     \/ Forget

Spec == Init /\ [][Next]_vars
=============================================================================
