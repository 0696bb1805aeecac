----------------------------- MODULE LHRRouting -----------------------------
(***************************************************************************)
(* Distance-vector routing: how the nodes of a mesh learn and lose their   *)
(* routes to Home.  Devices broadcast NDATs with their hop count, when a   *)
(* beacon is due, when an RFCN asks for one and when their hop count has   *)
(* changed; a node keeps what it heard in a table of limited size and      *)
(* picks its best and second best neighbour from it.                       *)
(*                                                                         *)
(* Time is abstract: a beacon may be due and a jitter may have elapsed at  *)
(* any moment update() is called, and the spacing of triggered NDATs may   *)
(* or may not have passed.  The order of the table's array is abstracted   *)
(* to a choice among neighbours that tie on hops and signal strength       *)
(* (LHRSelection models the loop over the array).  The data plane enters   *)
(* through _waitingForDataRes and _requestedRFCN alone, as LHRNextHop says. *)
(***************************************************************************)
EXTENDS Naturals, FiniteSets

CONSTANTS
  Nodes,          \* devices started with beginAsNode()
  Home,           \* the device started with beginAsHome()
  Links,          \* Links[d]: devices whose frames d can hear
  Dist,           \* Dist[d]: length of a shortest path of links from d to Home
  Rssi,           \* signal strengths
  NoRoute,        \* LHR_HOPS_NO_ROUTE; hop counts are taken modulo NoRoute + 1
  MaxNeighbors,   \* LHR_MAX_NEIGHBORS
  StaleBeacons,   \* beacons after which a silent neighbour is surely pruned
  NoId,           \* LHR_FORBIDDEN_NODE_ID
  None,           \* no table entry, or no frame
  MaxRetries,     \* bound: retry cycles of the data plane, over all nodes
  MaxReboots,     \* bound: power cycles, over all nodes
  HomeMayFail     \* whether Home may be switched off

Devices == Nodes \cup {Home}

HopCounts == 0 .. NoRoute

\* What the table says of a neighbour; age counts the beacons of the table's
\* owner since the neighbour was last heard.
Entries == [hops : HopCounts, rssi : Rssi, age : 0 .. StaleBeacons]

Ndats  == [type : {"NDAT"}, from : Devices, hops : HopCounts]
Frames == Ndats \cup {[type |-> "RFCN"]}

ASSUME MeshAssumption ==
  /\ Home \notin Nodes /\ NoId \notin Devices
  /\ Links \in [Devices -> SUBSET Devices]
  /\ None \notin Entries \cup Frames
  /\ IsFiniteSet(Devices)

ASSUME BoundAssumption ==
  /\ NoRoute \in Nat \ {0} /\ MaxNeighbors \in Nat \ {0}
  /\ StaleBeacons \in Nat \ {0}
  /\ Rssi \subseteq Nat /\ Rssi # {}
  /\ MaxRetries \in Nat /\ MaxReboots \in Nat /\ HomeMayFail \in BOOLEAN

\* A link is one hop, so its ends differ by at most one in distance.
ASSUME DistAssumption ==
  /\ Dist \in [Devices -> HopCounts]
  /\ Dist[Home] = 0
  /\ \A n \in Nodes : \A q \in Links[n] : Dist[n] <= Dist[q] + 1

VARIABLES
  neighbors,           \* neighbors[n][q]: the entry of _neighbors for q, or None
  bestNeighborId,      \* _bestNeighborId
  secondBestNeighborId,\* _secondBestNeighborId
  hopsToHome,          \* _hopsToHome
  lastAdvertisedHops,  \* _lastAdvertisedHops
  ndatPending,         \* _ndatPending
  waitingForDataRes,   \* _waitingForDataRes
  requestedRFCN,       \* _requestedRFCN
  inbox,               \* the received frame _packetReceived announces, or None
  homeOn,              \* whether Home is still running
  retries, reboots     \* how much of the two bounds is used

choiceVars == <<bestNeighborId, secondBestNeighborId, hopsToHome>>
retryVars  == <<waitingForDataRes, requestedRFCN>>
boundVars  == <<homeOn, retries, reboots>>
vars == <<neighbors, choiceVars, lastAdvertisedHops, ndatPending, retryVars,
          inbox, boundVars>>

EmptyTable == [q \in Devices |-> None]

Init ==
  /\ neighbors            = [n \in Nodes |-> EmptyTable]
  /\ bestNeighborId       = [n \in Nodes |-> NoId]
  /\ secondBestNeighborId = [n \in Nodes |-> NoId]
  /\ hopsToHome           = [d \in Devices |-> IF d = Home THEN 0 ELSE NoRoute]
  /\ lastAdvertisedHops   = [d \in Devices |-> NoRoute]
  /\ ndatPending          = [d \in Devices |-> FALSE]
  /\ waitingForDataRes    = [n \in Nodes |-> FALSE]
  /\ requestedRFCN        = [n \in Nodes |-> FALSE]
  /\ inbox                = [d \in Devices |-> None]
  /\ homeOn = TRUE /\ retries = 0 /\ reboots = 0

-----------------------------------------------------------------------------
(* The neighbour table *)

Known(t) == {q \in Devices : t[q] # None}

\* The order of _findBestNeighbor() and of the eviction in _updateNeighbor().
Better(e, f) == e.hops < f.hops \/ (e.hops = f.hops /\ e.rssi > f.rssi)

Usable(t) == {q \in Known(t) : t[q].hops < NoRoute}

BestOf(t) == {b \in Usable(t) : \A q \in Usable(t) : ~ Better(t[q], t[b])}

\* Mutant of SecondOf: a lone neighbour has no stand-in for the second best.
SecondOfOrNone(t, b) ==
  LET others == Usable(t) \ {b}
  IN IF others = {} THEN {NoId}
     ELSE {s \in others : \A q \in others : ~ Better(t[q], t[s])}

\* The runner-up behind b; b itself when there is no other.
SecondOf(t, b) ==
  LET others == Usable(t) \ {b}
  IN IF others = {} THEN {b}
     ELSE {s \in others : \A q \in others : ~ Better(t[q], t[s])}

\* Mutant of HopsVia: the hop is counted by both ends.
HopsViaTwice(e) == e.hops + 2

\* Mutant of HopsVia: the count wraps where it means that there is no route.
HopsViaWrapped(e) == (e.hops + 1) % NoRoute

\* The hop count is one byte.
HopsVia(e) == (e.hops + 1) % (NoRoute + 1)

\* _findBestNeighbor() on table t of n.
FindBestNeighbor(n, t) ==
  IF Usable(t) = {}
  THEN /\ bestNeighborId'       = [bestNeighborId EXCEPT ![n] = NoId]
       /\ secondBestNeighborId' = [secondBestNeighborId EXCEPT ![n] = NoId]
       /\ hopsToHome'           = [hopsToHome EXCEPT ![n] = NoRoute]
  ELSE \E b \in BestOf(t) : \E s \in SecondOf(t, b) :
         /\ bestNeighborId'       = [bestNeighborId EXCEPT ![n] = b]
         /\ secondBestNeighborId' = [secondBestNeighborId EXCEPT ![n] = s]
         /\ hopsToHome'           = [hopsToHome EXCEPT ![n] = HopsVia(t[b])]

\* _sendNdatIfNeeded() after _findBestNeighbor(): the spacing of triggered
\* NDATs may forbid what the new hop count asks for, and then nothing
\* remembers it.
SendNdatIfNeeded(n, t) ==
  IF /\ hopsToHome'[n] # lastAdvertisedHops[n]
     /\ Known(t) # {}
     /\ ~ waitingForDataRes[n]
  THEN ndatPending' \in {ndatPending, [ndatPending EXCEPT ![n] = TRUE]}
  ELSE UNCHANGED ndatPending

WorstOf(t) == {w \in Known(t) : \A q \in Known(t) : ~ Better(t[w], t[q])}

\* Mutant of Updates: a full table gives up any entry for a newcomer.
UpdatesAnySlot(t, q, e) ==
  IF q \in Known(t) \/ Cardinality(Known(t)) < MaxNeighbors
  THEN {[t EXCEPT ![q] = e]}
  ELSE {[t EXCEPT ![w] = None, ![q] = e] : w \in Known(t)}

\* The tables t may become when q is heard with entry e; t itself when the
\* table is full of neighbours at least as good.
Updates(t, q, e) ==
  IF q \in Known(t) \/ Cardinality(Known(t)) < MaxNeighbors
  THEN {[t EXCEPT ![q] = e]}
  ELSE {IF Better(e, t[w]) THEN [t EXCEPT ![w] = None, ![q] = e] ELSE t :
          w \in WorstOf(t)}

\* Mutant of PrunedTables: pruning forgets nobody.
PrunedNever(t) == {t}

\* The tables _pruneStaleNeighbors() may leave of t.  A beacon that comes
\* late finds neighbours stale after fewer beacons.
PrunedTables(t) ==
  {[q \in Devices |->
      IF q \notin Known(t) \/ q \in gone THEN None
      ELSE [t[q] EXCEPT !.age = IF @ < StaleBeacons THEN @ + 1 ELSE @]] :
     gone \in {g \in SUBSET Known(t) :
                 \A q \in Known(t) : t[q].age = StaleBeacons => q \in g}}

-----------------------------------------------------------------------------
(* Sending *)

\* A broadcast reaches any of the devices in range, in place of a frame they
\* have not read yet; reaching none, it may also not have been sent at all.
Broadcast(d, f) ==
  \E hearers \in SUBSET {r \in Devices : d \in Links[r] /\ (r = Home => homeOn)} :
    inbox' = [r \in Devices |-> IF r \in hearers THEN f ELSE inbox[r]]

\* Mutant of MayAdvertise: beacons are sent in retry cycles, too.
MayAdvertiseAnytime(d) == inbox[d] = None /\ (d = Home => homeOn)

\* update() has nothing to read, and no retry cycle keeps d from advertising.
MayAdvertise(d) ==
  /\ inbox[d] = None
  /\ IF d = Home THEN homeOn ELSE ~ waitingForDataRes[d]

\* update(): the jitter of a pending NDAT has elapsed.  Without a route it is
\* dropped; a failed transmission leaves no trace of it either.
SendPendingNdat(d) ==
  /\ MayAdvertise(d)
  /\ ndatPending[d]
  /\ ndatPending' = [ndatPending EXCEPT ![d] = FALSE]
  /\ \/ /\ hopsToHome[d] # NoRoute
        /\ lastAdvertisedHops' = [lastAdvertisedHops EXCEPT ![d] = hopsToHome[d]]
        /\ Broadcast(d, [type |-> "NDAT", from |-> d, hops |-> hopsToHome[d]])
     \/ UNCHANGED <<lastAdvertisedHops, inbox>>
  /\ UNCHANGED <<neighbors, choiceVars, retryVars, boundVars>>

\* update() on Home: a beacon is due.
HomeBeacon ==
  /\ MayAdvertise(Home)
  /\ ndatPending' = [ndatPending EXCEPT ![Home] = TRUE]
  /\ UNCHANGED <<neighbors, choiceVars, lastAdvertisedHops, retryVars,
                 inbox, boundVars>>

\* update() on a node: a beacon is due.  The table is pruned; the beacon is
\* an NDAT, scheduled, or without a route an RFCN, sent at once.
NodeBeacon(n) ==
  /\ MayAdvertise(n)
  /\ \E t \in PrunedTables(neighbors[n]) :
       /\ neighbors' = [neighbors EXCEPT ![n] = t]
       /\ IF Known(t) = Known(neighbors[n])
          THEN UNCHANGED choiceVars ELSE FindBestNeighbor(n, t)
       /\ IF hopsToHome'[n] # NoRoute
          THEN /\ ndatPending' = [ndatPending EXCEPT ![n] = TRUE]
               /\ UNCHANGED inbox
          ELSE /\ IF Known(t) = Known(neighbors[n])
                  THEN UNCHANGED ndatPending ELSE SendNdatIfNeeded(n, t)
               /\ Broadcast(n, [type |-> "RFCN"])
  /\ UNCHANGED <<lastAdvertisedHops, retryVars, boundVars>>

-----------------------------------------------------------------------------
(* Receiving *)

\* update() on a node reads an NDAT: _updateNeighbor().
HandleNDAT(n) ==
  /\ inbox[n] # None /\ inbox[n].type = "NDAT"
  /\ inbox' = [inbox EXCEPT ![n] = None]
  /\ \E r \in Rssi :
       LET e == [hops |-> inbox[n].hops, rssi |-> r, age |-> 0]
       IN \E t \in Updates(neighbors[n], inbox[n].from, e) :
            /\ neighbors' = [neighbors EXCEPT ![n] = t]
            /\ IF t = neighbors[n] /\ inbox[n].from \notin Known(t)
               THEN UNCHANGED <<choiceVars, ndatPending>>
               ELSE FindBestNeighbor(n, t) /\ SendNdatIfNeeded(n, t)
  /\ UNCHANGED <<lastAdvertisedHops, retryVars, boundVars>>

\* Home keeps no table: it drops an NDAT.
HomeDropsNDAT ==
  /\ homeOn
  /\ inbox[Home] # None /\ inbox[Home].type = "NDAT"
  /\ inbox' = [inbox EXCEPT ![Home] = None]
  /\ UNCHANGED <<neighbors, choiceVars, lastAdvertisedHops, ndatPending,
                 retryVars, boundVars>>

\* update() reads an RFCN, and schedules an NDAT if none is pending.
HandleRFCN(d) ==
  /\ d = Home => homeOn
  /\ inbox[d] # None /\ inbox[d].type = "RFCN"
  /\ inbox' = [inbox EXCEPT ![d] = None]
  /\ ndatPending' = [ndatPending EXCEPT ![d] = TRUE]
  /\ UNCHANGED <<neighbors, choiceVars, lastAdvertisedHops, retryVars,
                 boundVars>>

-----------------------------------------------------------------------------
(* What the data plane and the outside do *)

\* sendData() or a DATA to relay starts a retry cycle.
StartRetry(n) ==
  /\ retries < MaxRetries
  /\ ~ waitingForDataRes[n]
  /\ waitingForDataRes' = [waitingForDataRes EXCEPT ![n] = TRUE]
  /\ retries' = retries + 1
  /\ UNCHANGED <<neighbors, choiceVars, lastAdvertisedHops, ndatPending,
                 requestedRFCN, inbox, homeOn, reboots>>

\* _resetNeighborTable()
ResetNeighborTable(n) ==
  /\ neighbors'            = [neighbors EXCEPT ![n] = EmptyTable]
  /\ bestNeighborId'       = [bestNeighborId EXCEPT ![n] = NoId]
  /\ secondBestNeighborId' = [secondBestNeighborId EXCEPT ![n] = NoId]
  /\ hopsToHome'           = [hopsToHome EXCEPT ![n] = NoRoute]

\* _confirmDataRes() escalates: it forgets the table and asks for NDATs.
Escalate(n) ==
  /\ waitingForDataRes[n] /\ ~ requestedRFCN[n]
  /\ inbox[n] = None
  /\ ResetNeighborTable(n)
  /\ Broadcast(n, [type |-> "RFCN"])
  /\ requestedRFCN' = [requestedRFCN EXCEPT ![n] = TRUE]
  /\ UNCHANGED <<lastAdvertisedHops, ndatPending, waitingForDataRes, boundVars>>

\* The RFCN wait is over, or the next message in the slot takes its turn.
StopAsking(n) ==
  /\ requestedRFCN[n]
  /\ requestedRFCN' = [requestedRFCN EXCEPT ![n] = FALSE]
  /\ UNCHANGED <<neighbors, choiceVars, lastAdvertisedHops, ndatPending,
                 waitingForDataRes, inbox, boundVars>>

\* The retry cycle ends, confirmed or given up.
EndRetry(n) ==
  /\ waitingForDataRes[n]
  /\ waitingForDataRes' = [waitingForDataRes EXCEPT ![n] = FALSE]
  /\ requestedRFCN'     = [requestedRFCN EXCEPT ![n] = FALSE]
  /\ UNCHANGED <<neighbors, choiceVars, lastAdvertisedHops, ndatPending, inbox,
                 boundVars>>

\* A power cycle of a node, or a re-begin, after which a message in the slot
\* has the node wait on.
Reboot(n) ==
  /\ reboots < MaxReboots
  /\ reboots' = reboots + 1
  /\ ResetNeighborTable(n)
  /\ lastAdvertisedHops' = [lastAdvertisedHops EXCEPT ![n] = NoRoute]
  /\ ndatPending'        = [ndatPending EXCEPT ![n] = FALSE]
  /\ waitingForDataRes' \in
       {waitingForDataRes, [waitingForDataRes EXCEPT ![n] = FALSE]}
  /\ requestedRFCN'      = [requestedRFCN EXCEPT ![n] = FALSE]
  /\ inbox'              = [inbox EXCEPT ![n] = None]
  /\ UNCHANGED <<homeOn, retries>>

\* The same on Home, which has no table and never waits.
RebootHome ==
  /\ homeOn
  /\ reboots < MaxReboots
  /\ reboots' = reboots + 1
  /\ lastAdvertisedHops' = [lastAdvertisedHops EXCEPT ![Home] = NoRoute]
  /\ ndatPending'        = [ndatPending EXCEPT ![Home] = FALSE]
  /\ inbox'              = [inbox EXCEPT ![Home] = None]
  /\ UNCHANGED <<neighbors, choiceVars, retryVars, homeOn, retries>>

\* Home is switched off for good.
HomeFails ==
  /\ HomeMayFail /\ homeOn
  /\ homeOn' = FALSE
  /\ UNCHANGED <<neighbors, choiceVars, lastAdvertisedHops, ndatPending,
                 retryVars, inbox, retries, reboots>>

-----------------------------------------------------------------------------
UpdateHome == HomeBeacon \/ HomeDropsNDAT \/ RebootHome \/ HomeFails

UpdateNode(n) ==
  \/ NodeBeacon(n) \/ HandleNDAT(n)
  \/ StartRetry(n) \/ Escalate(n) \/ StopAsking(n) \/ EndRetry(n)
  \/ Reboot(n)

Next ==
  \/ \E d \in Devices : SendPendingNdat(d) \/ HandleRFCN(d)
  \/ UpdateHome
  \/ \E n \in Nodes : UpdateNode(n)

Spec == Init /\ [][Next]_vars

\* The application calls update() in its loop forever, beacons fall due again
\* and again, and a retry cycle ends (LHRDelivery checks that it does).  The
\* calls are denser than the frames on the air, so a node that is sent one
\* frame after the other still finds its inbox empty in some calls and gets to
\* what it has to send: strong fairness.  No frame is promised to be heard.
Fairness ==
  \A n \in Nodes : /\ WF_vars(HandleNDAT(n) \/ HandleRFCN(n))
                   /\ SF_vars(SendPendingNdat(n))
                   /\ SF_vars(NodeBeacon(n))
                   /\ WF_vars(EndRetry(n))

LiveSpec == Spec /\ Fairness
-----------------------------------------------------------------------------
(* Properties *)

\* Every variable keeps to its type; in particular the two next hops are
\* devices the node hears, or both nothing, as LHRDelivery takes for granted.
TypeOK ==
  /\ neighbors \in [Nodes -> [Devices -> Entries \cup {None}]]
  /\ bestNeighborId \in [Nodes -> Devices \cup {NoId}]
  /\ secondBestNeighborId \in [Nodes -> Devices \cup {NoId}]
  /\ \A n \in Nodes : Known(neighbors[n]) \subseteq Links[n]
  /\ hopsToHome \in [Devices -> HopCounts]
  /\ lastAdvertisedHops \in [Devices -> HopCounts]
  /\ ndatPending \in [Devices -> BOOLEAN]
  /\ waitingForDataRes \in [Nodes -> BOOLEAN]
  /\ requestedRFCN \in [Nodes -> BOOLEAN]
  /\ inbox \in [Devices -> Frames \cup {None}]
  /\ homeOn \in BOOLEAN
  /\ retries \in 0 .. MaxRetries /\ reboots \in 0 .. MaxReboots

\* The choice n acts on is the right one for the table n has, whatever
\* updates, evictions, pruning and resets came in which order: the best
\* neighbour is usable and none is better, the second best is the best of
\* the others or, without others, the best itself, and the hop count is one
\* more than the best neighbour's.
ChoiceFits(n) ==
  LET t == neighbors[n]
      best == bestNeighborId[n]
      second == secondBestNeighborId[n]
      Has(q) == t[q] # None /\ t[q].hops # NoRoute
  IN IF best = NoId
     THEN second = NoId /\ hopsToHome[n] = NoRoute /\ \A q \in Devices : ~ Has(q)
     ELSE /\ Has(best) /\ \A q \in Devices : Has(q) => ~ Better(t[q], t[best])
          /\ second \in Devices /\ Has(second)
          /\ second = best => \A q \in Devices \ {best} : ~ Has(q)
          /\ second # best => \A q \in Devices \ {best} : Has(q) => ~ Better(t[q], t[second])
          /\ hopsToHome[n] = t[best].hops + 1

RouteMatchesTable == \A n \in Nodes : ChoiceFits(n)

\* No node ever takes itself to be closer to Home than the radio links allow,
\* and none ever hears or remembers such a claim: loops, stale entries and
\* lost NDATs only ever make hop counts too large.
NeverTooClose ==
  /\ \A d \in Devices : hopsToHome[d] >= Dist[d]
  /\ \A n \in Nodes, q \in Devices :
       neighbors[n][q] # None => neighbors[n][q].hops >= Dist[q]
  /\ \A d \in Devices : inbox[d] # None /\ inbox[d].type = "NDAT" =>
       inbox[d].hops >= Dist[inbox[d].from]

\* A route gets longer only when its next hop says that it has become longer,
\* or is forgotten with nobody taking its place: a full table never trades
\* the next hop for a worse neighbour.
OnlyNextHopLengthensRoute ==
  [][\A n \in Nodes : hopsToHome'[n] > hopsToHome[n] =>
       LET t == neighbors[n]
           u == neighbors'[n]
           best == bestNeighborId[n]
       IN IF u[best] = None THEN \A q \in Devices : u[q] # None => t[q] # None
          ELSE u[best].hops > t[best].hops]_vars

\* Every hop count that is still in a table or in an unread NDAT is k or more.
HeardNothingBelow(k) ==
  \A n \in Nodes :
    /\ \A q \in Devices : neighbors[n][q] # None => neighbors[n][q].hops >= k
    /\ inbox[n] # None /\ inbox[n].type = "NDAT" => inbox[n].hops >= k

\* Once Home is gone, the smallest hop count around never falls again, and
\* every node that has a route counts more than that, so whatever it will
\* advertise is larger: nodes that feed each other hop counts count up.
CountsOnlyRise ==
  [][~ homeOn => \A k \in HopCounts : HeardNothingBelow(k) =>
       /\ HeardNothingBelow(k)'
       /\ \A n \in Nodes : hopsToHome'[n] > k \/ hopsToHome'[n] = NoRoute]_vars

\* The two next hops of every node.
Route == [n \in Nodes |-> <<bestNeighborId[n], secondBestNeighborId[n]>>]

NextHops == INSTANCE LHRNextHop WITH
  route <- Route, waiting <- waitingForDataRes, asking <- requestedRFCN

\* To the data plane of its node routing is the one of LHRNextHop: next hops
\* are heard devices, both or none; hearing a neighbour never leaves a node
\* without, and in a retry cycle nothing but its escalation does.
ImplementsNextHop == NextHops!Spec

\* Once Home is gone, every node finds out: hop counts that nodes feed each
\* other do not keep a route alive forever, whatever frames are lost.
RoutesVanish ==
  ~ homeOn ~> [](\A n \in Nodes : hopsToHome[n] = NoRoute)
=============================================================================
