-------------------------- MODULE LHRRoutingProofs --------------------------
(***************************************************************************)
(* Proofs about LHRRouting, for meshes of every shape and size: type       *)
(* correctness, the agreement of a node's choice with its table, the lower *)
(* bound on hop counts, and what can make a route longer.                  *)
(***************************************************************************)
EXTENDS LHRRouting, TLAPS

Tables == [Devices -> Entries \cup {None}]

\* Every NDAT in an inbox comes from a device in range of the reader.
SendersAreHeard ==
  \A d \in Devices : inbox[d] # None /\ inbox[d].type = "NDAT" =>
    inbox[d].from \in Links[d]

TypeInv == TypeOK /\ SendersAreHeard

-----------------------------------------------------------------------------
(* The table *)

\* An NDAT as update() reads it is a frame of the right type.
LEMMA ReadNdat ==
  ASSUME TypeOK, NEW d \in Devices, inbox[d] # None, inbox[d].type = "NDAT"
  PROVE  inbox[d] \in Ndats
BY DEF TypeOK, Frames, Ndats

\* A device in the table is replaced by nothing but a heard one.
LEMMA UpdatesType ==
  ASSUME NEW t \in Tables, NEW q \in Devices, NEW e \in Entries,
         NEW u \in Updates(t, q, e)
  PROVE  u \in Tables /\ Known(u) \subseteq Known(t) \cup {q}
<1>1. CASE u = [t EXCEPT ![q] = e]
  BY <1>1 DEF Tables, Known
<1>2. ASSUME NEW w \in Known(t), u = [t EXCEPT ![w] = None, ![q] = e]
      PROVE  u \in Tables /\ Known(u) \subseteq Known(t) \cup {q}
  BY <1>2 DEF Tables, Known
<1>3. CASE u = t
  BY <1>3 DEF Tables
<1> QED  BY <1>1, <1>2, <1>3 DEF Updates, WorstOf

\* Pruning only forgets neighbours and ages the others.
LEMMA PrunedType ==
  ASSUME NEW t \in Tables, NEW u \in PrunedTables(t)
  PROVE  /\ u \in Tables
         /\ Known(u) \subseteq Known(t)
         /\ \A q \in Known(u) : u[q].hops = t[q].hops /\ u[q].rssi = t[q].rssi
<1>1. PICK gone \in SUBSET Known(t) :
        u = [q \in Devices |->
               IF q \notin Known(t) \/ q \in gone THEN None
               ELSE [t[q] EXCEPT !.age = IF @ < StaleBeacons THEN @ + 1 ELSE @]]
  BY DEF PrunedTables
<1>2. ASSUME NEW q \in Devices, q \in Known(t), q \notin gone
      PROVE  /\ u[q] \in Entries
             /\ u[q].hops = t[q].hops /\ u[q].rssi = t[q].rssi
  <2>1. t[q] \in Entries
    BY <1>2 DEF Tables, Known
  <2>2. u[q] = [t[q] EXCEPT !.age = IF @ < StaleBeacons THEN @ + 1 ELSE @]
    BY <1>1, <1>2
  <2> QED  BY <2>1, <2>2, BoundAssumption DEF Entries
<1>3. \A q \in Devices : q \notin Known(t) \/ q \in gone => u[q] = None
  BY <1>1
<1>4. u \in Tables
  BY <1>1, <1>2, <1>3 DEF Tables
<1> QED  BY <1>2, <1>3, <1>4 DEF Known

\* A usable entry leaves room for one hop more: the count does not wrap.
LEMMA HopsViaUsable ==
  ASSUME NEW e \in Entries, e.hops < NoRoute
  PROVE  HopsVia(e) = e.hops + 1 /\ HopsVia(e) \in HopCounts
<1>1. ASSUME NEW k \in Nat, NEW m \in Nat, k < m
      PROVE  k % m = k
  BY <1>1
<1>2. e.hops \in Nat /\ NoRoute \in Nat
  BY BoundAssumption DEF Entries, HopCounts
<1>3. (e.hops + 1) % (NoRoute + 1) = e.hops + 1
  BY <1>1, <1>2
<1> QED  BY <1>2, <1>3 DEF HopsVia, HopCounts

-----------------------------------------------------------------------------
(* The choice *)

\* _findBestNeighbor() on the new table of n leaves a choice that fits it.
LEMMA FindChoiceFits ==
  ASSUME TypeOK, NEW n \in Nodes, NEW t \in Tables,
         neighbors' = [neighbors EXCEPT ![n] = t], FindBestNeighbor(n, t)
  PROVE  /\ ChoiceFits(n)'
         /\ bestNeighborId' \in [Nodes -> Devices \cup {NoId}]
         /\ secondBestNeighborId' \in [Nodes -> Devices \cup {NoId}]
         /\ hopsToHome' \in [Devices -> HopCounts]
         /\ \A d \in Devices \ {n} : hopsToHome'[d] = hopsToHome[d]
         /\ \A m \in Nodes \ {n} : /\ bestNeighborId'[m] = bestNeighborId[m]
                                   /\ secondBestNeighborId'[m] = secondBestNeighborId[m]
<1>1. neighbors'[n] = t /\ n \in Devices
  BY DEF TypeOK, Devices
<1>2. \A q \in Devices : q \in Usable(t) <=> t[q] # None /\ t[q].hops # NoRoute
  BY BoundAssumption DEF Usable, Known, Tables, Entries, HopCounts
<1>3. Usable(t) \subseteq Devices /\ NoId \notin Devices
  BY MeshAssumption DEF Usable, Known
<1>4. CASE Usable(t) = {}
  <2>1. bestNeighborId' = [bestNeighborId EXCEPT ![n] = NoId]
        /\ secondBestNeighborId' = [secondBestNeighborId EXCEPT ![n] = NoId]
        /\ hopsToHome' = [hopsToHome EXCEPT ![n] = NoRoute]
    BY <1>4 DEF FindBestNeighbor
  <2>2. bestNeighborId'[n] = NoId /\ secondBestNeighborId'[n] = NoId
        /\ hopsToHome'[n] = NoRoute
    BY <2>1, <1>1 DEF TypeOK
  <2>3. ChoiceFits(n)'
    BY <2>2, <1>1, <1>2, <1>4 DEF ChoiceFits
  <2>4. NoRoute \in HopCounts
    BY BoundAssumption DEF HopCounts
  <2> QED  BY <2>1, <2>3, <2>4 DEF TypeOK
<1>5. CASE Usable(t) # {}
  <2>1. PICK b \in BestOf(t) : \E s \in SecondOf(t, b) :
          /\ bestNeighborId' = [bestNeighborId EXCEPT ![n] = b]
          /\ secondBestNeighborId' = [secondBestNeighborId EXCEPT ![n] = s]
          /\ hopsToHome' = [hopsToHome EXCEPT ![n] = HopsVia(t[b])]
    BY <1>5 DEF FindBestNeighbor
  <2>0. PICK s \in SecondOf(t, b) :
          /\ bestNeighborId' = [bestNeighborId EXCEPT ![n] = b]
          /\ secondBestNeighborId' = [secondBestNeighborId EXCEPT ![n] = s]
          /\ hopsToHome' = [hopsToHome EXCEPT ![n] = HopsVia(t[b])]
    BY <2>1
  <2>2. b \in Usable(t) /\ \A q \in Usable(t) : ~ Better(t[q], t[b])
    BY DEF BestOf
  <2>3. s \in Usable(t)
    BY <2>2 DEF SecondOf
  <2>4. s = b => Usable(t) \ {b} = {}
    BY DEF SecondOf
  <2>5. s # b => \A q \in Usable(t) \ {b} : ~ Better(t[q], t[s])
    BY DEF SecondOf
  <2>6. t[b] \in Entries /\ t[b].hops < NoRoute
    BY <2>2 DEF Usable, Known, Tables
  <2>7. HopsVia(t[b]) = t[b].hops + 1 /\ HopsVia(t[b]) \in HopCounts
    BY <2>6, HopsViaUsable
  <2>8. bestNeighborId'[n] = b /\ secondBestNeighborId'[n] = s
        /\ hopsToHome'[n] = t[b].hops + 1
    BY <2>0, <2>7, <1>1 DEF TypeOK
  <2>9. ChoiceFits(n)'
    BY <2>8, <2>2, <2>3, <2>4, <2>5, <1>1, <1>2, <1>3 DEF ChoiceFits, Better
  <2> QED  BY <2>0, <2>2, <2>3, <2>7, <2>9, <1>3 DEF TypeOK
<1> QED  BY <1>4, <1>5

-----------------------------------------------------------------------------
(* Type correctness *)

\* A broadcast changes the inbox of devices in range only.
LEMMA BroadcastType ==
  ASSUME TypeInv, NEW d \in Devices, NEW f \in Frames, Broadcast(d, f)
  PROVE  /\ inbox' \in [Devices -> Frames \cup {None}]
         /\ \A r \in Devices : inbox'[r] # inbox[r] => inbox'[r] = f /\ d \in Links[r]
<1>1. PICK hearers \in SUBSET {r \in Devices : d \in Links[r] /\ (r = Home => homeOn)} :
        inbox' = [r \in Devices |-> IF r \in hearers THEN f ELSE inbox[r]]
  BY DEF Broadcast
<1> QED  BY <1>1 DEF TypeInv, TypeOK

\* What a device sends about itself, and what asks for it, are frames.
LEMMA SentFrames ==
  ASSUME NEW d \in Devices, NEW k \in HopCounts
  PROVE  /\ [type |-> "NDAT", from |-> d, hops |-> k] \in Frames
         /\ [type |-> "RFCN"] \in Frames
         /\ [type |-> "RFCN"].type = "RFCN"
BY DEF Frames, Ndats

\* Senders stay heard when every new NDAT names its sender.
LEMMA SendersStayHeard ==
  ASSUME TypeInv,
         \A r \in Devices : inbox'[r] # inbox[r] =>
           \/ inbox'[r] = None \/ inbox'[r].type # "NDAT"
           \/ inbox'[r].from \in Links[r]
  PROVE  SendersAreHeard'
BY DEF TypeInv, SendersAreHeard

\* _sendNdatIfNeeded() at most sets the flag of n.
LEMMA SendNdatType ==
  ASSUME TypeOK, NEW n \in Nodes, NEW t, SendNdatIfNeeded(n, t)
  PROVE  ndatPending' \in [Devices -> BOOLEAN]
BY DEF TypeOK, SendNdatIfNeeded, Devices

LEMMA SendPendingNdatType ==
  ASSUME TypeInv, NEW d \in Devices, SendPendingNdat(d)
  PROVE  TypeInv'
<1> DEFINE f == [type |-> "NDAT", from |-> d, hops |-> hopsToHome[d]]
<1>1. f \in Frames /\ f.from = d
  BY SentFrames DEF TypeInv, TypeOK
<1>2. /\ inbox' \in [Devices -> Frames \cup {None}]
      /\ \A r \in Devices : inbox'[r] # inbox[r] => inbox'[r].from \in Links[r]
  <2>1. CASE Broadcast(d, f)
    BY <2>1, <1>1, BroadcastType
  <2>2. CASE UNCHANGED inbox
    BY <2>2 DEF TypeInv, TypeOK
  <2> QED  BY <2>1, <2>2 DEF SendPendingNdat
<1>3. lastAdvertisedHops' \in [Devices -> HopCounts]
  BY DEF TypeInv, TypeOK, SendPendingNdat
<1>4. ndatPending' \in [Devices -> BOOLEAN]
  BY DEF TypeInv, TypeOK, SendPendingNdat
<1>5. SendersAreHeard'
  BY <1>2, SendersStayHeard
<1>6. UNCHANGED <<neighbors, choiceVars, retryVars, boundVars>>
  BY DEF SendPendingNdat
<1> QED  BY <1>2, <1>3, <1>4, <1>5, <1>6 DEF TypeInv, TypeOK, choiceVars, boundVars, retryVars

LEMMA HandleRFCNType ==
  ASSUME TypeInv, NEW d \in Devices, HandleRFCN(d)
  PROVE  TypeInv'
<1>1. UNCHANGED <<neighbors, choiceVars, lastAdvertisedHops, retryVars, boundVars>>
  BY DEF HandleRFCN
<1>2. inbox' = [inbox EXCEPT ![d] = None] /\ ndatPending' = [ndatPending EXCEPT ![d] = TRUE]
  BY DEF HandleRFCN
<1>3. SendersAreHeard'
  BY <1>2, SendersStayHeard DEF TypeInv, TypeOK
<1> QED  BY <1>1, <1>2, <1>3 DEF TypeInv, TypeOK, choiceVars, boundVars, retryVars

\* Home and its own actions.
LEMMA HomeType ==
  ASSUME TypeInv, UpdateHome
  PROVE  TypeInv'
<1>1. UNCHANGED <<neighbors, choiceVars, retryVars, retries>>
  BY DEF UpdateHome, HomeBeacon, HomeDropsNDAT, RebootHome, HomeFails, boundVars
<1>2. /\ inbox' \in {inbox, [inbox EXCEPT ![Home] = None]}
      /\ \E b \in BOOLEAN : ndatPending' \in {ndatPending, [ndatPending EXCEPT ![Home] = b]}
      /\ lastAdvertisedHops' \in
           {lastAdvertisedHops, [lastAdvertisedHops EXCEPT ![Home] = NoRoute]}
      /\ homeOn' \in {homeOn, FALSE}
  BY DEF UpdateHome, HomeBeacon, HomeDropsNDAT, RebootHome, HomeFails, boundVars
<1>3. SendersAreHeard'
  BY <1>2, SendersStayHeard DEF TypeInv, TypeOK
<1>4. NoRoute \in HopCounts /\ Home \in Devices
  BY BoundAssumption DEF HopCounts, Devices
<1>5. reboots' \in 0 .. MaxReboots
  <2>1. reboots' = reboots \/ (reboots < MaxReboots /\ reboots' = reboots + 1)
    BY DEF UpdateHome, HomeBeacon, HomeDropsNDAT, RebootHome, HomeFails, boundVars
  <2> QED  BY <2>1, BoundAssumption DEF TypeInv, TypeOK
<1>6. /\ inbox' \in [Devices -> Frames \cup {None}]
      /\ ndatPending' \in [Devices -> BOOLEAN]
      /\ lastAdvertisedHops' \in [Devices -> HopCounts]
      /\ homeOn' \in BOOLEAN
  BY <1>2, <1>4 DEF TypeInv, TypeOK
<1> QED  BY <1>1, <1>3, <1>5, <1>6 DEF TypeInv, TypeOK, choiceVars, retryVars

-----------------------------------------------------------------------------
(* Steps that change a table *)

\* n gets a table of devices it hears, the others keep theirs.
LEMMA NewTable ==
  ASSUME TypeOK, NEW n \in Nodes, NEW t \in Tables, Known(t) \subseteq Links[n],
         neighbors' = [neighbors EXCEPT ![n] = t]
  PROVE  /\ neighbors' \in [Nodes -> [Devices -> Entries \cup {None}]]
         /\ neighbors'[n] = t
         /\ \A m \in Nodes \ {n} : neighbors'[m] = neighbors[m]
         /\ \A m \in Nodes : Known(neighbors'[m]) \subseteq Links[m]
BY DEF TypeOK, Tables

\* A node whose table and choice are left alone keeps a choice that fits.
LEMMA ChoiceKept ==
  ASSUME NEW m \in Nodes, ChoiceFits(m), neighbors'[m] = neighbors[m],
         bestNeighborId'[m] = bestNeighborId[m],
         secondBestNeighborId'[m] = secondBestNeighborId[m],
         hopsToHome'[m] = hopsToHome[m]
  PROVE  ChoiceFits(m)'
BY DEF ChoiceFits

\* An empty table and no choice fit each other.
LEMMA ResetFits ==
  ASSUME TypeInv, RouteMatchesTable, NEW n \in Nodes, ResetNeighborTable(n)
  PROVE  /\ RouteMatchesTable'
         /\ neighbors' \in [Nodes -> [Devices -> Entries \cup {None}]]
         /\ \A m \in Nodes : Known(neighbors'[m]) \subseteq Links[m]
         /\ bestNeighborId' \in [Nodes -> Devices \cup {NoId}]
         /\ secondBestNeighborId' \in [Nodes -> Devices \cup {NoId}]
         /\ hopsToHome' \in [Devices -> HopCounts]
<1>1. EmptyTable \in Tables /\ Known(EmptyTable) = {}
  BY DEF EmptyTable, Tables, Known
<1>2. NoRoute \in HopCounts /\ n \in Devices
  BY BoundAssumption DEF HopCounts, Devices
<1>3. /\ neighbors' \in [Nodes -> [Devices -> Entries \cup {None}]]
      /\ neighbors'[n] = EmptyTable
      /\ \A m \in Nodes \ {n} : neighbors'[m] = neighbors[m]
      /\ \A m \in Nodes : Known(neighbors'[m]) \subseteq Links[m]
  BY <1>1, NewTable DEF TypeInv, ResetNeighborTable
<1>4. /\ bestNeighborId' = [bestNeighborId EXCEPT ![n] = NoId]
      /\ secondBestNeighborId' = [secondBestNeighborId EXCEPT ![n] = NoId]
      /\ hopsToHome' = [hopsToHome EXCEPT ![n] = NoRoute]
  BY DEF ResetNeighborTable
<1>5. bestNeighborId'[n] = NoId /\ secondBestNeighborId'[n] = NoId /\ hopsToHome'[n] = NoRoute
  BY <1>4, <1>2 DEF TypeInv, TypeOK
<1>6. ChoiceFits(n)'
  BY <1>3, <1>5 DEF ChoiceFits, EmptyTable
<1>7. ASSUME NEW m \in Nodes \ {n} PROVE ChoiceFits(m)'
  <2>1. ChoiceFits(m)
    BY DEF RouteMatchesTable
  <2> QED  BY <2>1, <1>3, <1>4, ChoiceKept DEF TypeInv, TypeOK, Devices
<1> QED  BY <1>2, <1>3, <1>4, <1>6, <1>7 DEF RouteMatchesTable, TypeInv, TypeOK

\* Pruning that forgets nobody leaves the choice as good as it was.
LEMMA AgedFits ==
  ASSUME TypeInv, NEW n \in Nodes, ChoiceFits(n),
         NEW u \in PrunedTables(neighbors[n]), Known(u) = Known(neighbors[n]),
         neighbors'[n] = u, UNCHANGED choiceVars
  PROVE  ChoiceFits(n)'
<1> DEFINE t == neighbors[n]
<1>1. t \in Tables
  BY DEF TypeInv, TypeOK, Tables
<1>2. \A q \in Devices : (u[q] # None <=> t[q] # None)
  BY DEF Known
<1>3. \A q \in Devices : u[q] # None => u[q].hops = t[q].hops /\ u[q].rssi = t[q].rssi
  BY <1>1, PrunedType DEF Known
<1>4. bestNeighborId[n] \in Devices \cup {NoId}
  BY DEF TypeInv, TypeOK
<1> QED  BY <1>2, <1>3, <1>4 DEF ChoiceFits, choiceVars, Better

\* After _findBestNeighbor() on the new table of n every choice fits.
LEMMA FindFits ==
  ASSUME TypeInv, RouteMatchesTable, NEW n \in Nodes, NEW t \in Tables,
         Known(t) \subseteq Links[n],
         neighbors' = [neighbors EXCEPT ![n] = t], FindBestNeighbor(n, t)
  PROVE  /\ RouteMatchesTable'
         /\ bestNeighborId' \in [Nodes -> Devices \cup {NoId}]
         /\ secondBestNeighborId' \in [Nodes -> Devices \cup {NoId}]
         /\ hopsToHome' \in [Devices -> HopCounts]
<1>1. TypeOK
  BY DEF TypeInv
<1>2. /\ ChoiceFits(n)'
      /\ bestNeighborId' \in [Nodes -> Devices \cup {NoId}]
      /\ secondBestNeighborId' \in [Nodes -> Devices \cup {NoId}]
      /\ hopsToHome' \in [Devices -> HopCounts]
      /\ \A d \in Devices \ {n} : hopsToHome'[d] = hopsToHome[d]
      /\ \A m \in Nodes \ {n} : /\ bestNeighborId'[m] = bestNeighborId[m]
                                /\ secondBestNeighborId'[m] = secondBestNeighborId[m]
  BY <1>1, FindChoiceFits
<1>3. ASSUME NEW m \in Nodes \ {n} PROVE ChoiceFits(m)'
  <2>1. ChoiceFits(m) /\ m \in Devices
    BY DEF RouteMatchesTable, Devices
  <2>2. neighbors'[m] = neighbors[m]
    BY <1>1, NewTable
  <2> QED  BY <2>1, <2>2, <1>2, ChoiceKept
<1> QED  BY <1>2, <1>3 DEF RouteMatchesTable

\* What holds in every reachable state, as far as one node is concerned.
Inv == TypeInv /\ RouteMatchesTable

LEMMA NodeBeaconInv ==
  ASSUME Inv, NEW n \in Nodes, NodeBeacon(n)
  PROVE  Inv'
<1>1. TypeOK /\ n \in Devices /\ neighbors[n] \in Tables /\ ChoiceFits(n)
  BY DEF Inv, TypeInv, TypeOK, Tables, Devices, RouteMatchesTable
<1>2. PICK t \in PrunedTables(neighbors[n]) :
       /\ neighbors' = [neighbors EXCEPT ![n] = t]
       /\ IF Known(t) = Known(neighbors[n])
          THEN UNCHANGED choiceVars ELSE FindBestNeighbor(n, t)
       /\ IF hopsToHome'[n] # NoRoute
          THEN /\ ndatPending' = [ndatPending EXCEPT ![n] = TRUE]
               /\ UNCHANGED inbox
          ELSE /\ IF Known(t) = Known(neighbors[n])
                  THEN UNCHANGED ndatPending ELSE SendNdatIfNeeded(n, t)
               /\ Broadcast(n, [type |-> "RFCN"])
  BY DEF NodeBeacon
<1>3. t \in Tables /\ Known(t) \subseteq Links[n]
  BY <1>1, PrunedType DEF TypeOK
<1>4. /\ neighbors' \in [Nodes -> [Devices -> Entries \cup {None}]]
      /\ neighbors'[n] = t
      /\ \A m \in Nodes \ {n} : neighbors'[m] = neighbors[m]
      /\ \A m \in Nodes : Known(neighbors'[m]) \subseteq Links[m]
  BY <1>1, <1>2, <1>3, NewTable
<1>5. /\ RouteMatchesTable'
      /\ bestNeighborId' \in [Nodes -> Devices \cup {NoId}]
      /\ secondBestNeighborId' \in [Nodes -> Devices \cup {NoId}]
      /\ hopsToHome' \in [Devices -> HopCounts]
  <2>1. CASE Known(t) = Known(neighbors[n])
    <3>1. UNCHANGED choiceVars
      BY <1>2, <2>1
    <3>2. ChoiceFits(n)'
      BY <1>1, <1>4, <2>1, <3>1, AgedFits DEF Inv
    <3>3. ASSUME NEW m \in Nodes \ {n} PROVE ChoiceFits(m)'
      BY <1>4, <3>1, ChoiceKept DEF Inv, RouteMatchesTable, choiceVars
    <3> QED  BY <1>1, <3>1, <3>2, <3>3 DEF RouteMatchesTable, TypeOK, choiceVars
  <2>2. CASE Known(t) # Known(neighbors[n])
    BY <1>2, <1>3, <2>2, FindFits DEF Inv
  <2> QED  BY <2>1, <2>2
<1>6. ndatPending' \in [Devices -> BOOLEAN]
  BY <1>1, <1>2, SendNdatType DEF TypeOK
<1>7. /\ inbox' \in [Devices -> Frames \cup {None}]
      /\ \A r \in Devices : inbox'[r] # inbox[r] => inbox'[r].type = "RFCN"
  <2>1. [type |-> "RFCN"] \in Frames /\ [type |-> "RFCN"].type = "RFCN"
    BY DEF Frames
  <2>2. CASE Broadcast(n, [type |-> "RFCN"])
    BY <1>1, <2>1, <2>2, BroadcastType DEF Inv
  <2>3. CASE UNCHANGED inbox
    BY <1>1, <2>3 DEF TypeOK
  <2> QED  BY <1>2, <2>2, <2>3
<1>8. SendersAreHeard'
  BY <1>7, SendersStayHeard DEF Inv
<1>9. UNCHANGED <<lastAdvertisedHops, retryVars, boundVars>>
  BY DEF NodeBeacon
<1> QED  BY <1>1, <1>4, <1>5, <1>6, <1>7, <1>8, <1>9 DEF Inv, TypeInv, TypeOK, boundVars, retryVars

LEMMA HandleNDATInv ==
  ASSUME Inv, NEW n \in Nodes, HandleNDAT(n)
  PROVE  Inv'
<1> DEFINE q == inbox[n].from
<1>1. TypeOK /\ n \in Devices /\ neighbors[n] \in Tables
  BY DEF Inv, TypeInv, TypeOK, Tables, Devices
<1>2. inbox[n] \in Ndats /\ q \in Devices /\ q \in Links[n]
  <2>1. inbox[n] # None /\ inbox[n].type = "NDAT"
    BY DEF HandleNDAT
  <2>2. inbox[n] \in Ndats
    BY <1>1, <2>1, ReadNdat
  <2> QED  BY <1>1, <2>1, <2>2 DEF Inv, TypeInv, SendersAreHeard, Ndats
<1>3. PICK r \in Rssi :
        \E t \in Updates(neighbors[n], q, [hops |-> inbox[n].hops, rssi |-> r, age |-> 0]) :
          /\ neighbors' = [neighbors EXCEPT ![n] = t]
          /\ IF t = neighbors[n] /\ inbox[n].from \notin Known(t)
             THEN UNCHANGED <<choiceVars, ndatPending>>
             ELSE FindBestNeighbor(n, t) /\ SendNdatIfNeeded(n, t)
  BY DEF HandleNDAT
<1> DEFINE e == [hops |-> inbox[n].hops, rssi |-> r, age |-> 0]
<1>4. PICK t \in Updates(neighbors[n], q, e) :
          /\ neighbors' = [neighbors EXCEPT ![n] = t]
          /\ IF t = neighbors[n] /\ inbox[n].from \notin Known(t)
             THEN UNCHANGED <<choiceVars, ndatPending>>
             ELSE FindBestNeighbor(n, t) /\ SendNdatIfNeeded(n, t)
  BY <1>3
<1>5. e \in Entries
  BY <1>2, BoundAssumption DEF Entries, Ndats
<1>6. t \in Tables /\ Known(t) \subseteq Links[n]
  <2>1. t \in Tables /\ Known(t) \subseteq Known(neighbors[n]) \cup {q}
    BY <1>1, <1>2, <1>5, UpdatesType
  <2> QED  BY <2>1, <1>1, <1>2 DEF TypeOK
<1>7. /\ neighbors' \in [Nodes -> [Devices -> Entries \cup {None}]]
      /\ neighbors'[n] = t
      /\ \A m \in Nodes \ {n} : neighbors'[m] = neighbors[m]
      /\ \A m \in Nodes : Known(neighbors'[m]) \subseteq Links[m]
  BY <1>1, <1>4, <1>6, NewTable
<1>8. /\ RouteMatchesTable'
      /\ bestNeighborId' \in [Nodes -> Devices \cup {NoId}]
      /\ secondBestNeighborId' \in [Nodes -> Devices \cup {NoId}]
      /\ hopsToHome' \in [Devices -> HopCounts]
  <2>1. CASE t = neighbors[n] /\ UNCHANGED <<choiceVars, ndatPending>>
    <3>1. ASSUME NEW m \in Nodes PROVE ChoiceFits(m)'
      BY <1>7, <2>1, ChoiceKept DEF Inv, RouteMatchesTable, choiceVars
    <3> QED  BY <1>1, <2>1, <3>1 DEF RouteMatchesTable, TypeOK, choiceVars
  <2>2. CASE FindBestNeighbor(n, t)
    BY <1>4, <1>6, <2>2, FindFits DEF Inv
  <2> QED  BY <1>4, <2>1, <2>2
<1>9. ndatPending' \in [Devices -> BOOLEAN]
  BY <1>1, <1>4, SendNdatType DEF TypeOK
<1>10. inbox' = [inbox EXCEPT ![n] = None]
  BY DEF HandleNDAT
<1>11. SendersAreHeard'
  BY <1>1, <1>10, SendersStayHeard DEF Inv, TypeOK
<1>12. UNCHANGED <<lastAdvertisedHops, retryVars, boundVars>>
  BY DEF HandleNDAT
<1> QED  BY <1>1, <1>7, <1>8, <1>9, <1>10, <1>11, <1>12 DEF Inv, TypeInv, TypeOK, boundVars, retryVars

\* The data plane and power cycles.
LEMMA OutsideInv ==
  ASSUME Inv, NEW n \in Nodes,
         StartRetry(n) \/ Escalate(n) \/ StopAsking(n) \/ EndRetry(n) \/ Reboot(n)
  PROVE  Inv'
<1>1. TypeOK /\ n \in Devices
  BY DEF Inv, TypeInv, Devices
<1>2. CASE StartRetry(n) \/ StopAsking(n) \/ EndRetry(n)
  <2>1. UNCHANGED <<neighbors, choiceVars, lastAdvertisedHops, ndatPending, inbox, homeOn, reboots>>
    BY <1>2 DEF StartRetry, StopAsking, EndRetry, boundVars
  <2>2. /\ waitingForDataRes' \in [Nodes -> BOOLEAN]
        /\ requestedRFCN' \in [Nodes -> BOOLEAN]
        /\ retries' \in 0 .. MaxRetries
    <3>1. /\ waitingForDataRes' \in [Nodes -> BOOLEAN]
          /\ requestedRFCN' \in [Nodes -> BOOLEAN]
      BY <1>1, <1>2 DEF StartRetry, StopAsking, EndRetry, TypeOK
    <3>2. retries' = retries \/ (retries < MaxRetries /\ retries' = retries + 1)
      BY <1>2 DEF StartRetry, StopAsking, EndRetry, boundVars
    <3> QED  BY <1>1, <3>1, <3>2, BoundAssumption DEF TypeOK
  <2>3. TypeInv'
    BY <2>1, <2>2 DEF Inv, TypeInv, TypeOK, SendersAreHeard, choiceVars
  <2>4. RouteMatchesTable'
    BY <2>1, ChoiceKept DEF Inv, RouteMatchesTable, choiceVars
  <2> QED  BY <2>3, <2>4 DEF Inv
<1>3. CASE Escalate(n)
  <2>1. ResetNeighborTable(n)
    BY <1>3 DEF Escalate
  <2>2. /\ inbox' \in [Devices -> Frames \cup {None}]
        /\ \A r \in Devices : inbox'[r] # inbox[r] => inbox'[r].type = "RFCN"
    <3>1. [type |-> "RFCN"] \in Frames /\ [type |-> "RFCN"].type = "RFCN"
      BY DEF Frames
    <3>2. Broadcast(n, [type |-> "RFCN"])
      BY <1>3 DEF Escalate
    <3> QED  BY <1>1, <3>1, <3>2, BroadcastType DEF Inv
  <2>3. SendersAreHeard'
    BY <2>2, SendersStayHeard DEF Inv
  <2>4. /\ UNCHANGED <<lastAdvertisedHops, ndatPending, waitingForDataRes, boundVars>>
        /\ requestedRFCN' = [requestedRFCN EXCEPT ![n] = TRUE]
    BY <1>3 DEF Escalate
  <2> QED  BY <1>1, <2>1, <2>2, <2>3, <2>4, ResetFits DEF Inv, TypeInv, TypeOK, boundVars, retryVars
<1>4. CASE Reboot(n)
  <2>1. ResetNeighborTable(n)
    BY <1>4 DEF Reboot
  <2>2. /\ inbox' = [inbox EXCEPT ![n] = None]
        /\ lastAdvertisedHops' = [lastAdvertisedHops EXCEPT ![n] = NoRoute]
        /\ ndatPending' = [ndatPending EXCEPT ![n] = FALSE]
        /\ waitingForDataRes' \in
             {waitingForDataRes, [waitingForDataRes EXCEPT ![n] = FALSE]}
        /\ requestedRFCN' = [requestedRFCN EXCEPT ![n] = FALSE]
        /\ UNCHANGED <<homeOn, retries>>
    BY <1>4 DEF Reboot
  <2>3. SendersAreHeard'
    BY <1>1, <2>2, SendersStayHeard DEF Inv, TypeOK
  <2>4. reboots' \in 0 .. MaxReboots /\ NoRoute \in HopCounts
    BY <1>1, <1>4, BoundAssumption DEF Reboot, TypeOK, HopCounts
  <2> QED  BY <1>1, <2>1, <2>2, <2>3, <2>4, ResetFits DEF Inv, TypeInv, TypeOK
<1> QED  BY <1>2, <1>3, <1>4

LEMMA InitInv == Init => Inv
<1> SUFFICES ASSUME Init PROVE Inv
  OBVIOUS
<1>1. NoRoute \in HopCounts /\ 0 \in HopCounts /\ Home \in Devices
  BY BoundAssumption DEF HopCounts, Devices
<1>2. EmptyTable \in Tables /\ Known(EmptyTable) = {}
  BY DEF EmptyTable, Tables, Known
<1>3. TypeOK
  BY <1>1, <1>2, BoundAssumption DEF Init, TypeOK, Tables
<1>4. SendersAreHeard
  BY DEF Init, SendersAreHeard
<1>5. RouteMatchesTable
  BY MeshAssumption DEF Init, RouteMatchesTable, ChoiceFits, EmptyTable, Devices
<1> QED  BY <1>3, <1>4, <1>5 DEF Inv, TypeInv

LEMMA NextInv == Inv /\ [Next]_vars => Inv'
<1> SUFFICES ASSUME Inv, [Next]_vars PROVE Inv'
  OBVIOUS
<1>1. ASSUME NEW d \in Devices, SendPendingNdat(d) \/ HandleRFCN(d)
      PROVE  Inv'
  <2>1. TypeInv'
    BY <1>1, SendPendingNdatType, HandleRFCNType DEF Inv
  <2>2. UNCHANGED <<neighbors, choiceVars>>
    BY <1>1 DEF SendPendingNdat, HandleRFCN
  <2> QED  BY <2>1, <2>2, ChoiceKept DEF Inv, RouteMatchesTable, choiceVars
<1>2. ASSUME UpdateHome
      PROVE  Inv'
  <2>1. TypeInv'
    BY <1>2, HomeType DEF Inv
  <2>2. UNCHANGED <<neighbors, choiceVars>>
    BY <1>2 DEF UpdateHome, HomeBeacon, HomeDropsNDAT, RebootHome, HomeFails
  <2> QED  BY <2>1, <2>2, ChoiceKept DEF Inv, RouteMatchesTable, choiceVars
<1>3. ASSUME NEW n \in Nodes, UpdateNode(n)
      PROVE  Inv'
  BY <1>3, NodeBeaconInv, HandleNDATInv, OutsideInv DEF UpdateNode
<1>4. CASE UNCHANGED vars
  BY <1>4 DEF vars, choiceVars, retryVars, boundVars, Inv, TypeInv, TypeOK, SendersAreHeard,
              RouteMatchesTable, ChoiceFits
<1> QED  BY <1>1, <1>2, <1>3, <1>4 DEF Next

-----------------------------------------------------------------------------
(* Theorems *)

LEMMA Invariance == Spec => []Inv
BY InitInv, NextInv, PTL DEF Spec

\* Every variable keeps to its type, whatever the shape and size of the mesh;
\* in particular a node's next hops are always devices it hears.
THEOREM TypeCorrect == Spec => []TypeOK
<1>1. Inv => TypeOK
  BY DEF Inv, TypeInv
<1> QED  BY <1>1, Invariance, PTL

\* Whatever updates, evictions, pruning and resets come in which order, the
\* best and second best neighbour and the hop count that _findBestNeighbor()
\* left behind are the right ones for the table.
THEOREM ChoicesMatchTables == Spec => []RouteMatchesTable
<1>1. Inv => RouteMatchesTable
  BY DEF Inv
<1> QED  BY <1>1, Invariance, PTL

\* How a step may change a table: it forgets neighbours and ages others, or
\* it takes in the NDAT that was read.
LEMMA TableSteps ==
  ASSUME Inv, [Next]_vars, NEW n \in Nodes
  PROVE  \/ \A q \in Known(neighbors'[n]) :
               q \in Known(neighbors[n]) /\ neighbors'[n][q].hops = neighbors[n][q].hops
         \/ /\ inbox[n] # None /\ inbox[n].type = "NDAT"
            /\ \E e \in Entries : /\ e.hops = inbox[n].hops
                                 /\ neighbors'[n] \in Updates(neighbors[n], inbox[n].from, e)
<1> DEFINE Forgets == \A q \in Known(neighbors'[n]) :
                        q \in Known(neighbors[n]) /\ neighbors'[n][q].hops = neighbors[n][q].hops
<1>1. TypeOK /\ n \in Devices /\ neighbors[n] \in Tables
  BY DEF Inv, TypeInv, TypeOK, Tables, Devices
<1>2. CASE UNCHANGED neighbors
  BY <1>2
<1>3. ASSUME NEW m \in Nodes \ {n}, NEW t, neighbors' = [neighbors EXCEPT ![m] = t]
      PROVE  Forgets
  BY <1>1, <1>3 DEF TypeOK
<1>4. ASSUME neighbors' = [neighbors EXCEPT ![n] = EmptyTable]
      PROVE  Forgets
  BY <1>1, <1>4 DEF TypeOK, Known, EmptyTable
<1>5. ASSUME NodeBeacon(n) PROVE Forgets
  <2>1. PICK t \in PrunedTables(neighbors[n]) : neighbors' = [neighbors EXCEPT ![n] = t]
    BY <1>5 DEF NodeBeacon
  <2> QED  BY <1>1, <2>1, PrunedType DEF TypeOK
<1>6. CASE HandleNDAT(n)
  <2>1. inbox[n] \in Ndats /\ inbox[n] # None /\ inbox[n].type = "NDAT"
    BY <1>1, <1>6, ReadNdat DEF HandleNDAT
  <2>2. PICK r \in Rssi :
          \E t \in Updates(neighbors[n], inbox[n].from,
                          [hops |-> inbox[n].hops, rssi |-> r, age |-> 0]) :
            neighbors' = [neighbors EXCEPT ![n] = t]
    BY <1>6 DEF HandleNDAT
  <2> DEFINE e == [hops |-> inbox[n].hops, rssi |-> r, age |-> 0]
  <2>3. e \in Entries /\ e.hops = inbox[n].hops
    BY <2>1, BoundAssumption DEF Entries, Ndats
  <2>4. neighbors'[n] \in Updates(neighbors[n], inbox[n].from, e)
    BY <1>1, <2>2 DEF TypeOK
  <2> QED  BY <2>1, <2>3, <2>4
<1>7. ASSUME NEW d \in Devices, SendPendingNdat(d) \/ HandleRFCN(d)
      PROVE  UNCHANGED neighbors
  BY <1>7 DEF SendPendingNdat, HandleRFCN
<1>8. ASSUME UpdateHome
      PROVE  UNCHANGED neighbors
  BY <1>8 DEF UpdateHome, HomeBeacon, HomeDropsNDAT, RebootHome, HomeFails
<1>9. ASSUME NEW m \in Nodes, UpdateNode(m)
      PROVE  UNCHANGED neighbors \/ \E t : neighbors' = [neighbors EXCEPT ![m] = t]
  BY <1>9 DEF UpdateNode, NodeBeacon, HandleNDAT, StartRetry, Escalate, StopAsking, EndRetry,
              Reboot, ResetNeighborTable
<1>10. ASSUME UpdateNode(n)
       PROVE  \/ UNCHANGED neighbors \/ neighbors' = [neighbors EXCEPT ![n] = EmptyTable]
              \/ NodeBeacon(n) \/ HandleNDAT(n)
  BY <1>10 DEF UpdateNode, StartRetry, Escalate, StopAsking, EndRetry, Reboot, ResetNeighborTable
<1>11. CASE UNCHANGED vars
  BY <1>2, <1>11 DEF vars
<1> QED
  BY <1>2, <1>3, <1>4, <1>5, <1>6, <1>7, <1>8, <1>9, <1>10, <1>11 DEF Next

\* A new NDAT in an inbox carries the hop count its sender has, and that is
\* one of a device with a route.
LEMMA InboxSteps ==
  ASSUME Inv, [Next]_vars, NEW r \in Devices,
         inbox'[r] # inbox[r], inbox'[r] # None, inbox'[r].type = "NDAT"
  PROVE  \E d \in Devices : /\ SendPendingNdat(d) /\ hopsToHome[d] # NoRoute
                            /\ inbox'[r].from = d /\ inbox'[r].hops = hopsToHome[d]
<1>1. TypeOK
  BY DEF Inv, TypeInv
<1>2. ASSUME NEW d \in Devices, SendPendingNdat(d)
      PROVE  /\ hopsToHome[d] # NoRoute
             /\ inbox'[r].from = d /\ inbox'[r].hops = hopsToHome[d]
  <2> DEFINE f == [type |-> "NDAT", from |-> d, hops |-> hopsToHome[d]]
  <2>1. Broadcast(d, f) /\ hopsToHome[d] # NoRoute
    BY <1>2 DEF SendPendingNdat
  <2>2. f \in Frames
    BY <1>1, SentFrames DEF TypeOK
  <2>3. inbox'[r] = f
    BY <2>1, <2>2, BroadcastType DEF Inv
  <2> QED  BY <2>1, <2>3
<1>3. ASSUME NEW d \in Devices, Broadcast(d, [type |-> "RFCN"])
      PROVE  FALSE
  <2>1. [type |-> "RFCN"] \in Frames /\ [type |-> "RFCN"].type = "RFCN"
    BY DEF Frames
  <2>2. inbox'[r] = [type |-> "RFCN"]
    BY <1>3, <2>1, BroadcastType DEF Inv
  <2> QED  BY <2>1, <2>2
<1>4. ASSUME NEW d \in Devices, inbox' = [inbox EXCEPT ![d] = None]
      PROVE  FALSE
  BY <1>1, <1>4 DEF TypeOK
<1>5. ASSUME NEW d \in Devices, HandleRFCN(d) PROVE FALSE
  BY <1>4, <1>5 DEF HandleRFCN
<1>6. ASSUME UpdateHome PROVE FALSE
  BY <1>4, <1>6 DEF UpdateHome, HomeBeacon, HomeDropsNDAT, RebootHome, HomeFails, Devices
<1>7. ASSUME NEW n \in Nodes, UpdateNode(n) PROVE FALSE
  <2>1. n \in Devices
    BY DEF Devices
  <2>2. \/ UNCHANGED inbox \/ inbox' = [inbox EXCEPT ![n] = None]
        \/ Broadcast(n, [type |-> "RFCN"])
    BY <1>7 DEF UpdateNode, NodeBeacon, HandleNDAT, StartRetry, Escalate, StopAsking, EndRetry, Reboot
  <2> QED  BY <2>1, <2>2, <1>3, <1>4
<1>8. CASE UNCHANGED vars
  BY <1>8 DEF vars
<1> QED  BY <1>2, <1>5, <1>6, <1>7, <1>8 DEF Next

\* The entries Updates() leaves in a table, and where they come from.
LEMMA UpdatesEntries ==
  ASSUME NEW t \in Tables, NEW p \in Devices, NEW e \in Entries,
         NEW u \in Updates(t, p, e), NEW q \in Devices, u[q] # None
  PROVE  u[q] = t[q] \/ (q = p /\ u[q] = e)
<1>1. CASE u = [t EXCEPT ![p] = e]
  BY <1>1 DEF Tables
<1>2. ASSUME NEW w \in Known(t), u = [t EXCEPT ![w] = None, ![p] = e]
      PROVE  u[q] = t[q] \/ (q = p /\ u[q] = e)
  BY <1>2 DEF Tables, Known
<1> QED  BY <1>1, <1>2 DEF Updates, WorstOf

\* Hop counts that fit the tables are as honest as the tables.
LEMMA HonestTablesHonestCounts ==
  ASSUME TypeOK', RouteMatchesTable', NEW n \in Nodes,
         \A q \in Devices : neighbors'[n][q] # None => neighbors'[n][q].hops >= Dist[q]
  PROVE  hopsToHome'[n] >= Dist[n]
<1> DEFINE best == bestNeighborId'[n]
<1>1. Dist[n] \in Nat /\ Dist[n] <= NoRoute /\ NoRoute \in Nat
  BY DistAssumption, BoundAssumption DEF HopCounts, Devices
<1>2. CASE best = NoId
  BY <1>1, <1>2 DEF RouteMatchesTable, ChoiceFits
<1>3. CASE best # NoId
  <2>1. /\ best \in Devices /\ neighbors'[n][best] # None
        /\ hopsToHome'[n] = neighbors'[n][best].hops + 1
    BY <1>3 DEF TypeOK, RouteMatchesTable, ChoiceFits
  <2>2. best \in Links[n] /\ Dist[best] \in Nat
    BY <2>1, DistAssumption DEF TypeOK, Known, HopCounts
  <2>3. neighbors'[n][best] \in Entries
    BY <2>1 DEF TypeOK
  <2>4. neighbors'[n][best].hops \in Nat
    BY <2>3 DEF Entries, HopCounts
  <2>5. Dist[n] <= Dist[best] + 1
    BY <2>2, DistAssumption
  <2>6. neighbors'[n][best].hops >= Dist[best]
    BY <2>1
  <2> QED  BY <1>1, <2>1, <2>2, <2>4, <2>5, <2>6
<1> QED  BY <1>2, <1>3

\* Home counts no hops.
HomeIsClosest == hopsToHome[Home] = 0

LEMMA HomeStaysClosest == Inv /\ HomeIsClosest /\ [Next]_vars => HomeIsClosest'
<1> SUFFICES ASSUME Inv, HomeIsClosest, [Next]_vars PROVE HomeIsClosest'
  OBVIOUS
<1>1. hopsToHome \in [Devices -> HopCounts] /\ Home \in Devices
  BY DEF Inv, TypeInv, TypeOK, Devices
<1>2. \/ UNCHANGED hopsToHome
      \/ \E n \in Nodes : \E k : hopsToHome' = [hopsToHome EXCEPT ![n] = k]
  <2>1. ASSUME NEW n \in Nodes, UpdateNode(n)
        PROVE  \/ UNCHANGED hopsToHome
               \/ \E k : hopsToHome' = [hopsToHome EXCEPT ![n] = k]
    BY <2>1 DEF UpdateNode, NodeBeacon, HandleNDAT, StartRetry, Escalate, StopAsking, EndRetry,
                Reboot, ResetNeighborTable, FindBestNeighbor, choiceVars
  <2>2. ASSUME NEW d \in Devices, SendPendingNdat(d) \/ HandleRFCN(d)
        PROVE  UNCHANGED hopsToHome
    BY <2>2 DEF SendPendingNdat, HandleRFCN, choiceVars
  <2>3. ASSUME UpdateHome
        PROVE  UNCHANGED hopsToHome
    BY <2>3 DEF UpdateHome, HomeBeacon, HomeDropsNDAT, RebootHome, HomeFails, choiceVars
  <2> QED  BY <2>1, <2>2, <2>3 DEF Next, vars, choiceVars
<1> QED  BY <1>1, <1>2, MeshAssumption DEF HomeIsClosest

LEMMA NeverTooCloseStep ==
  Inv /\ HomeIsClosest /\ NeverTooClose /\ [Next]_vars => NeverTooClose'
<1> SUFFICES ASSUME Inv, HomeIsClosest, NeverTooClose, [Next]_vars
             PROVE  NeverTooClose'
  OBVIOUS
<1>1. Inv' /\ HomeIsClosest' /\ TypeOK /\ TypeOK' /\ RouteMatchesTable'
  BY NextInv, HomeStaysClosest DEF Inv, TypeInv
<1>2. ASSUME NEW n \in Nodes, NEW q \in Devices, neighbors'[n][q] # None
      PROVE  neighbors'[n][q].hops >= Dist[q]
  <2>1. neighbors[n] \in Tables /\ n \in Devices
    BY <1>1 DEF TypeOK, Tables, Devices
  <2>2. CASE neighbors[n][q] # None /\ neighbors'[n][q].hops = neighbors[n][q].hops
    BY <2>2 DEF NeverTooClose
  <2>3. ASSUME inbox[n] # None, inbox[n].type = "NDAT", NEW e \in Entries,
               e.hops = inbox[n].hops, neighbors'[n] \in Updates(neighbors[n], inbox[n].from, e)
        PROVE  neighbors'[n][q].hops >= Dist[q]
    <3>1. inbox[n].from \in Devices
      BY <1>1, <2>1, <2>3, ReadNdat DEF Ndats
    <3>2. \/ neighbors'[n][q] = neighbors[n][q]
          \/ q = inbox[n].from /\ neighbors'[n][q] = e
      BY <1>2, <2>1, <2>3, <3>1, UpdatesEntries
    <3> QED  BY <1>2, <2>1, <2>3, <3>2 DEF NeverTooClose
  <2> QED  BY <1>2, <2>2, <2>3, TableSteps DEF Known
<1>3. ASSUME NEW r \in Devices, inbox'[r] # None, inbox'[r].type = "NDAT"
      PROVE  inbox'[r].hops >= Dist[inbox'[r].from]
  <2>1. CASE inbox'[r] = inbox[r]
    BY <1>3, <2>1 DEF NeverTooClose
  <2>2. CASE inbox'[r] # inbox[r]
    BY <1>3, <2>2, InboxSteps DEF NeverTooClose
  <2> QED  BY <2>1, <2>2
<1>4. ASSUME NEW d \in Devices PROVE hopsToHome'[d] >= Dist[d]
  <2>1. CASE d = Home
    BY <1>1, <2>1, DistAssumption DEF HomeIsClosest
  <2>2. CASE d \in Nodes
    BY <1>1, <1>2, <2>2, HonestTablesHonestCounts
  <2> QED  BY <2>1, <2>2 DEF Devices
<1> QED  BY <1>2, <1>3, <1>4 DEF NeverTooClose

\* No node takes itself to be closer to Home than the links allow, whatever
\* is lost, stale, evicted or fed back.
THEOREM HopCountsAreHonest == Spec => []NeverTooClose
<1>1. Init => HomeIsClosest /\ NeverTooClose
  <2> SUFFICES ASSUME Init PROVE HomeIsClosest /\ NeverTooClose
    OBVIOUS
  <2>1. hopsToHome = [d \in Devices |-> IF d = Home THEN 0 ELSE NoRoute]
        /\ Home \in Devices
    BY DEF Init, Devices
  <2>2. \A d \in Devices : hopsToHome[d] >= Dist[d]
    BY <2>1, DistAssumption, BoundAssumption DEF HopCounts
  <2>3. \A n \in Nodes, q \in Devices : neighbors[n][q] = None
    BY DEF Init, EmptyTable
  <2>4. \A d \in Devices : inbox[d] = None
    BY DEF Init
  <2> QED  BY <2>1, <2>2, <2>3, <2>4 DEF HomeIsClosest, NeverTooClose
<1> QED
  BY <1>1, Invariance, HomeStaysClosest, NeverTooCloseStep, PTL DEF Spec

\* A usable entry in the new table of n bounds its new hop count.
LEMMA UsableBounds ==
  ASSUME TypeOK', RouteMatchesTable', NEW n \in Nodes, NEW q \in Devices,
         neighbors'[n][q] # None, neighbors'[n][q].hops < NoRoute
  PROVE  hopsToHome'[n] <= neighbors'[n][q].hops + 1
<1> DEFINE u == neighbors'[n]
           best == bestNeighborId'[n]
<1>1. u[q] \in Entries /\ u[q].hops \in Nat /\ u[q].hops # NoRoute
  BY BoundAssumption DEF TypeOK, Entries, HopCounts
<1>2. best # NoId
  BY <1>1 DEF RouteMatchesTable, ChoiceFits
<1>3. /\ best \in Devices /\ u[best] # None
      /\ ~ Better(u[q], u[best]) /\ hopsToHome'[n] = u[best].hops + 1
  BY <1>1, <1>2 DEF TypeOK, RouteMatchesTable, ChoiceFits
<1>4. u[best] \in Entries /\ u[best].hops \in Nat
  BY <1>3 DEF TypeOK, Entries, HopCounts
<1> QED  BY <1>1, <1>3, <1>4 DEF Better

LEMMA LengtheningStep ==
  ASSUME Inv, Inv', [Next]_vars, NEW n \in Nodes, hopsToHome'[n] > hopsToHome[n]
  PROVE  LET t == neighbors[n]
             u == neighbors'[n]
             best == bestNeighborId[n]
         IN IF u[best] = None THEN \A q \in Devices : u[q] # None => t[q] # None
            ELSE u[best].hops > t[best].hops
<1> DEFINE t == neighbors[n]
           u == neighbors'[n]
           best == bestNeighborId[n]
<1>1. TypeOK /\ TypeOK' /\ RouteMatchesTable /\ RouteMatchesTable' /\ n \in Devices
  BY DEF Inv, TypeInv, Devices
<1>2. /\ hopsToHome[n] \in HopCounts /\ hopsToHome'[n] \in HopCounts
      /\ NoRoute \in Nat /\ t \in Tables
  BY <1>1, BoundAssumption DEF TypeOK, Tables
<1>3. hopsToHome[n] < NoRoute
  BY <1>2 DEF HopCounts
<1>4. best # NoId
  BY <1>1, <1>2, <1>3 DEF RouteMatchesTable, ChoiceFits, HopCounts
<1>5. /\ best \in Devices /\ t[best] # None /\ hopsToHome[n] = t[best].hops + 1
  BY <1>1, <1>4 DEF TypeOK, RouteMatchesTable, ChoiceFits
<1>6. t[best] \in Entries /\ t[best].hops \in Nat /\ t[best].hops < NoRoute
  BY <1>2, <1>3, <1>5 DEF Tables, Entries, HopCounts
<1>7. ASSUME u[best] # None PROVE u[best].hops > t[best].hops
  <2>1. u[best] \in Entries /\ u[best].hops \in Nat
    BY <1>1, <1>5, <1>7 DEF TypeOK, Entries, HopCounts
  <2>2. u[best].hops < NoRoute => hopsToHome'[n] <= u[best].hops + 1
    BY <1>1, <1>5, <1>7, UsableBounds
  <2> QED  BY <1>2, <1>5, <1>6, <2>1, <2>2 DEF HopCounts
<1>8. ASSUME u[best] = None, NEW q \in Devices, u[q] # None
      PROVE  t[q] # None
  <2>1. CASE \A p \in Known(u) : p \in Known(t) /\ u[p].hops = t[p].hops
    BY <1>8, <2>1 DEF Known
  <2>2. ASSUME inbox[n] # None, inbox[n].type = "NDAT", NEW e \in Entries,
               u \in Updates(t, inbox[n].from, e)
        PROVE  t[q] # None
    <3> DEFINE p == inbox[n].from
    <3>1. p \in Devices
      BY <1>1, <1>2, <2>2, ReadNdat DEF Ndats
    <3>2. CASE u = t
      BY <1>8, <3>2
    <3>3. CASE u = [t EXCEPT ![p] = e]
      BY <1>2, <1>5, <1>8, <3>1, <3>3, MeshAssumption DEF Tables
    <3>4. ASSUME NEW w \in Known(t), p \notin Known(t), Better(e, t[w]),
                 u = [t EXCEPT ![w] = None, ![p] = e]
          PROVE  FALSE
      <4>1. w \in Devices /\ w # p /\ u[p] = e /\ e # None
        BY <1>2, <3>1, <3>4, MeshAssumption DEF Known, Tables
      <4>2. best = w
        BY <1>2, <1>5, <1>8, <3>1, <3>4, <4>1 DEF Tables
      <4>3. e.hops \in Nat /\ e.hops <= t[best].hops
        BY <1>6, <3>4, <4>2 DEF Better, Entries, HopCounts
      <4>4. hopsToHome'[n] <= e.hops + 1
        BY <1>1, <1>2, <1>6, <3>1, <4>1, <4>3, UsableBounds
      <4> QED  BY <1>2, <1>5, <1>6, <4>3, <4>4 DEF HopCounts
    <3> QED  BY <2>2, <3>2, <3>3, <3>4 DEF Updates, WorstOf
  <2> QED  BY <1>1, <2>1, <2>2, TableSteps
<1> QED  BY <1>7, <1>8

\* A route gets longer only by word of its next hop, or because the next hop
\* is forgotten while nobody new comes into the table; in particular eviction
\* never gives up the next hop for something worse.
THEOREM RoutesLengthenByNextHop == Spec => OnlyNextHopLengthensRoute
<1>1. Inv /\ Inv' /\ [Next]_vars =>
        [\A n \in Nodes : hopsToHome'[n] > hopsToHome[n] =>
           LET t == neighbors[n]
               u == neighbors'[n]
               best == bestNeighborId[n]
           IN IF u[best] = None THEN \A q \in Devices : u[q] # None => t[q] # None
              ELSE u[best].hops > t[best].hops]_vars
  BY LengtheningStep
<1> QED  BY <1>1, Invariance, PTL DEF Spec, OnlyNextHopLengthensRoute
-----------------------------------------------------------------------------
(* Without Home *)

\* A hop count that fits its table exceeds the smallest one heard.
LEMMA CountsExceedHeard ==
  TypeOK /\ RouteMatchesTable =>
    \A k \in HopCounts, n \in Nodes :
      HeardNothingBelow(k) => hopsToHome[n] > k \/ hopsToHome[n] = NoRoute
<1> SUFFICES ASSUME TypeOK, RouteMatchesTable, NEW k \in HopCounts, NEW n \in Nodes,
                    HeardNothingBelow(k), hopsToHome[n] # NoRoute
             PROVE  hopsToHome[n] > k
  OBVIOUS
<1> DEFINE best == bestNeighborId[n]
<1>1. /\ best \in Devices /\ neighbors[n][best] # None
      /\ hopsToHome[n] = neighbors[n][best].hops + 1
  BY DEF TypeOK, RouteMatchesTable, ChoiceFits
<1>2. neighbors[n][best] \in Entries
  BY <1>1 DEF TypeOK
<1>3. neighbors[n][best].hops \in Nat /\ k \in Nat
  BY <1>2 DEF Entries, HopCounts
<1>4. neighbors[n][best].hops >= k
  BY <1>1 DEF HeardNothingBelow
<1> QED  BY <1>1, <1>3, <1>4

\* What is heard without Home was counted by a node, and exceeds what that
\* node has heard.
LEMMA NothingLowerIsHeard ==
  ASSUME Inv, [Next]_vars, ~ homeOn, NEW k \in HopCounts, HeardNothingBelow(k)
  PROVE  HeardNothingBelow(k)'
<1>1. TypeOK /\ RouteMatchesTable
  BY DEF Inv, TypeInv
<1>2. ASSUME NEW n \in Nodes, NEW q \in Devices, neighbors'[n][q] # None
      PROVE  neighbors'[n][q].hops >= k
  <2>1. neighbors[n] \in Tables /\ n \in Devices
    BY <1>1 DEF TypeOK, Tables, Devices
  <2>2. CASE neighbors[n][q] # None /\ neighbors'[n][q].hops = neighbors[n][q].hops
    BY <2>2 DEF HeardNothingBelow
  <2>3. ASSUME inbox[n] # None, inbox[n].type = "NDAT", NEW e \in Entries,
               e.hops = inbox[n].hops, neighbors'[n] \in Updates(neighbors[n], inbox[n].from, e)
        PROVE  neighbors'[n][q].hops >= k
    <3>1. inbox[n].from \in Devices
      BY <1>1, <2>1, <2>3, ReadNdat DEF Ndats
    <3>2. \/ neighbors'[n][q] = neighbors[n][q]
          \/ q = inbox[n].from /\ neighbors'[n][q] = e
      BY <1>2, <2>1, <2>3, <3>1, UpdatesEntries
    <3> QED  BY <1>2, <2>1, <2>3, <3>2 DEF HeardNothingBelow
  <2> QED  BY <1>2, <2>2, <2>3, TableSteps DEF Known
<1>3. ASSUME NEW r \in Nodes, inbox'[r] # None, inbox'[r].type = "NDAT"
      PROVE  inbox'[r].hops >= k
  <2>1. CASE inbox'[r] = inbox[r]
    BY <1>3, <2>1 DEF HeardNothingBelow
  <2>2. CASE inbox'[r] # inbox[r]
    <3>1. PICK d \in Devices : /\ SendPendingNdat(d) /\ hopsToHome[d] # NoRoute
                               /\ inbox'[r].hops = hopsToHome[d]
      BY <1>3, <2>2, InboxSteps DEF Devices
    <3>2. d \in Nodes
      BY <3>1 DEF SendPendingNdat, MayAdvertise, Devices
    <3>3. hopsToHome[d] > k
      BY <1>1, <3>1, <3>2, CountsExceedHeard
    <3>4. hopsToHome[d] \in Nat /\ k \in Nat
      BY <1>1 DEF TypeOK, HopCounts
    <3> QED  BY <3>1, <3>3, <3>4
  <2> QED  BY <2>1, <2>2
<1> QED  BY <1>2, <1>3 DEF HeardNothingBelow

\* Without Home no hop count ever undercuts the smallest that is still heard,
\* and that one only rises: what nodes feed each other counts up, in every
\* mesh, with every table size, and whatever frames are lost.
THEOREM CountsRiseWithoutHome == Spec => CountsOnlyRise
<1>1. (TypeOK /\ RouteMatchesTable =>
         \A k \in HopCounts, n \in Nodes :
           HeardNothingBelow(k) => hopsToHome[n] > k \/ hopsToHome[n] = NoRoute)'
  BY CountsExceedHeard, PTL
<1>2. Inv /\ Inv' /\ [Next]_vars =>
        [~ homeOn => \A k \in HopCounts : HeardNothingBelow(k) =>
           /\ HeardNothingBelow(k)'
           /\ \A n \in Nodes : hopsToHome'[n] > k \/ hopsToHome'[n] = NoRoute]_vars
  <2> SUFFICES ASSUME Inv, Inv', [Next]_vars, ~ homeOn,
                      NEW k \in HopCounts, HeardNothingBelow(k)
               PROVE  /\ HeardNothingBelow(k)'
                      /\ \A n \in Nodes : hopsToHome'[n] > k \/ hopsToHome'[n] = NoRoute
    OBVIOUS
  <2>1. HeardNothingBelow(k)'
    BY NothingLowerIsHeard
  <2>2. TypeOK' /\ RouteMatchesTable'
    BY DEF Inv, TypeInv
  <2> QED  BY <1>1, <2>1, <2>2
<1> QED  BY <1>2, Invariance, PTL DEF Spec, CountsOnlyRise
-----------------------------------------------------------------------------
(* What routing promises the data plane *)

\* Every NDAT in an inbox comes from a device that had a route.
HeardHaveRoutes ==
  \A d \in Devices : inbox[d] # None /\ inbox[d].type = "NDAT" => inbox[d].hops # NoRoute

LEMMA HeardHaveRoutesStep == Inv /\ HeardHaveRoutes /\ [Next]_vars => HeardHaveRoutes'
<1> SUFFICES ASSUME Inv, HeardHaveRoutes, [Next]_vars,
                    NEW d \in Devices, inbox'[d] # None, inbox'[d].type = "NDAT"
             PROVE  inbox'[d].hops # NoRoute
  BY DEF HeardHaveRoutes
<1>1. CASE inbox'[d] = inbox[d]
  BY <1>1 DEF HeardHaveRoutes
<1>2. CASE inbox'[d] # inbox[d]
  BY <1>2, InboxSteps
<1> QED  BY <1>1, <1>2

\* An NDAT leaves a usable entry in the table: its own, or, in a table full
\* of neighbours at least as good, theirs.
LEMMA NdatLeavesUsable ==
  ASSUME NEW t \in Tables, NEW q \in Devices, NEW e \in Entries, e.hops # NoRoute,
         NEW u \in Updates(t, q, e)
  PROVE  \E p \in Devices : u[p] # None /\ u[p].hops # NoRoute
<1>1. e # None /\ e.hops \in 0 .. NoRoute /\ NoRoute \in Nat
  BY MeshAssumption, BoundAssumption DEF Entries, HopCounts
<1>2. CASE u = [t EXCEPT ![q] = e]
  BY <1>1, <1>2 DEF Tables
<1>3. ASSUME NEW w \in Known(t), u = [t EXCEPT ![w] = None, ![q] = e]
      PROVE  \E p \in Devices : u[p] # None /\ u[p].hops # NoRoute
  BY <1>1, <1>3 DEF Tables
<1>4. ASSUME NEW w \in Known(t), ~ Better(e, t[w]), u = t
      PROVE  \E p \in Devices : u[p] # None /\ u[p].hops # NoRoute
  <2>1. w \in Devices /\ t[w] # None /\ t[w] \in Entries
    BY DEF Known, Tables
  <2>2. t[w].hops \in 0 .. NoRoute /\ ~ (e.hops < t[w].hops)
    BY <1>4, <2>1 DEF Better, Entries, HopCounts
  <2> QED  BY <1>1, <1>4, <2>1, <2>2
<1> QED  BY <1>2, <1>3, <1>4 DEF Updates, WorstOf

\* A node's next hops are both devices it hears, or both nothing.
HeardOrNowhere ==
  \A n \in Nodes :
    /\ bestNeighborId[n] = NoId => Route[n] = NextHops!Nowhere
    /\ bestNeighborId[n] # NoId => Route[n] \in NextHops!Heard(n)

LEMMA RoutesAreHeard == TypeOK /\ RouteMatchesTable => HeardOrNowhere
<1> SUFFICES ASSUME TypeOK, RouteMatchesTable, NEW n \in Nodes
             PROVE  /\ bestNeighborId[n] = NoId => Route[n] = NextHops!Nowhere
                    /\ bestNeighborId[n] # NoId => Route[n] \in NextHops!Heard(n)
  BY DEF HeardOrNowhere
<1>1. ChoiceFits(n) /\ bestNeighborId[n] \in Devices \cup {NoId}
  BY DEF RouteMatchesTable, TypeOK
<1>2. Route[n] = <<bestNeighborId[n], secondBestNeighborId[n]>>
  BY DEF Route
<1>3. CASE bestNeighborId[n] = NoId
  BY <1>1, <1>2, <1>3 DEF ChoiceFits, NextHops!Nowhere
<1>4. CASE bestNeighborId[n] # NoId
  <2>1. /\ bestNeighborId[n] \in Known(neighbors[n])
        /\ secondBestNeighborId[n] \in Known(neighbors[n])
    BY <1>1, <1>4 DEF ChoiceFits, Known
  <2>2. Known(neighbors[n]) \subseteq Links[n]
    BY DEF TypeOK
  <2> QED  BY <1>2, <1>4, <2>1, <2>2 DEF NextHops!Heard
<1> QED  BY <1>3, <1>4

\* Only the choice of n changes, if any.
LEMMA RouteChange ==
  ASSUME NEW n \in Nodes,
         \A m \in Nodes \ {n} : /\ bestNeighborId'[m] = bestNeighborId[m]
                                /\ secondBestNeighborId'[m] = secondBestNeighborId[m]
  PROVE  Route' = [Route EXCEPT ![n] = Route'[n]]
BY DEF Route

\* The choices of the others are theirs in every step of n.
LEMMA OthersKeepChoice ==
  ASSUME TypeOK, NEW n \in Nodes, UpdateNode(n)
  PROVE  \A m \in Nodes \ {n} : /\ bestNeighborId'[m] = bestNeighborId[m]
                                /\ secondBestNeighborId'[m] = secondBestNeighborId[m]
<1>1. \/ UNCHANGED <<bestNeighborId, secondBestNeighborId>>
      \/ \E b, s : /\ bestNeighborId' = [bestNeighborId EXCEPT ![n] = b]
                   /\ secondBestNeighborId' = [secondBestNeighborId EXCEPT ![n] = s]
  BY DEF UpdateNode, NodeBeacon, HandleNDAT, StartRetry, Escalate, StopAsking, EndRetry,
         Reboot, ResetNeighborTable, FindBestNeighbor, choiceVars
<1> QED  BY <1>1 DEF TypeOK

\* Reading an NDAT ends with a route.
LEMMA NdatGivesRoute ==
  ASSUME Inv, Inv', HeardHaveRoutes, NEW n \in Nodes, HandleNDAT(n)
  PROVE  bestNeighborId'[n] # NoId
<1>1. TypeOK /\ n \in Devices /\ neighbors[n] \in Tables
  BY DEF Inv, TypeInv, TypeOK, Tables, Devices
<1>2. inbox[n] \in Ndats /\ inbox[n].hops # NoRoute
  BY <1>1, ReadNdat DEF HandleNDAT, HeardHaveRoutes
<1>3. PICK r \in Rssi :
        \E t \in Updates(neighbors[n], inbox[n].from,
                        [hops |-> inbox[n].hops, rssi |-> r, age |-> 0]) :
          neighbors' = [neighbors EXCEPT ![n] = t]
  BY DEF HandleNDAT
<1> DEFINE e == [hops |-> inbox[n].hops, rssi |-> r, age |-> 0]
<1>4. e \in Entries /\ e.hops # NoRoute /\ inbox[n].from \in Devices
  BY <1>2, BoundAssumption DEF Entries, Ndats
<1>5. neighbors'[n] \in Updates(neighbors[n], inbox[n].from, e)
  BY <1>1, <1>3 DEF TypeOK
<1>6. \E p \in Devices : neighbors'[n][p] # None /\ neighbors'[n][p].hops # NoRoute
  BY <1>1, <1>4, <1>5, NdatLeavesUsable
<1> QED  BY <1>6 DEF Inv, RouteMatchesTable, ChoiceFits

LEMMA NextHopsStep ==
  Inv /\ Inv' /\ HeardHaveRoutes /\ [Next]_vars => [NextHops!Next]_(NextHops!vars)
<1>0. TypeOK' /\ RouteMatchesTable' => HeardOrNowhere'
  BY RoutesAreHeard, PTL
<1> SUFFICES ASSUME Inv, Inv', HeardHaveRoutes, [Next]_vars
             PROVE  NextHops!Next \/ UNCHANGED NextHops!vars
  OBVIOUS
<1> USE DEF NextHops!Next
<1>1. TypeOK /\ TypeOK' /\ RouteMatchesTable'
  BY DEF Inv, TypeInv
<1>2. ASSUME UNCHANGED <<choiceVars, retryVars>>
      PROVE  UNCHANGED NextHops!vars
  BY <1>2 DEF choiceVars, retryVars, Route, NextHops!vars
<1>3. ASSUME NEW d \in Devices, SendPendingNdat(d) \/ HandleRFCN(d)
      PROVE  UNCHANGED NextHops!vars
  BY <1>2, <1>3 DEF SendPendingNdat, HandleRFCN
<1>4. ASSUME UpdateHome PROVE UNCHANGED NextHops!vars
  BY <1>2, <1>4 DEF UpdateHome, HomeBeacon, HomeDropsNDAT, RebootHome, HomeFails
<1>5. ASSUME NEW n \in Nodes, UpdateNode(n)
      PROVE  NextHops!Next
  <2>1. Route' = [Route EXCEPT ![n] = Route'[n]]
    BY <1>1, <1>5, OthersKeepChoice, RouteChange
  <2>2. /\ bestNeighborId'[n] = NoId => Route'[n] = NextHops!Nowhere
        /\ bestNeighborId'[n] # NoId => Route'[n] \in NextHops!Heard(n)
    BY <1>0, <1>1 DEF HeardOrNowhere
  <2>3. CASE HandleNDAT(n)
    <3>1. Route'[n] \in NextHops!Heard(n)
      BY <2>2, <2>3, NdatGivesRoute
    <3>2. UNCHANGED retryVars
      BY <2>3 DEF HandleNDAT
    <3>3. NextHops!Hear(n)
      BY <2>1, <3>1, <3>2 DEF NextHops!Hear, retryVars
    <3> QED  BY <3>3
  <2>4. CASE NodeBeacon(n)
    <3>1. UNCHANGED retryVars /\ ~ waitingForDataRes[n]
      BY <2>4, MeshAssumption DEF NodeBeacon, MayAdvertise
    <3>2. NextHops!Prune(n)
      BY <2>1, <2>2, <3>1 DEF NextHops!Prune, retryVars
    <3> QED  BY <3>2
  <2>5. CASE StartRetry(n) \/ StopAsking(n) \/ EndRetry(n)
    <3>1. UNCHANGED Route
      BY <2>5 DEF StartRetry, StopAsking, EndRetry, choiceVars, Route
    <3>2. NextHops!StartRetry(n) \/ NextHops!StopAsking(n) \/ NextHops!EndRetry(n)
      BY <2>5, <3>1 DEF StartRetry, StopAsking, EndRetry,
                        NextHops!StartRetry, NextHops!StopAsking, NextHops!EndRetry
    <3> QED  BY <3>2
  <2>6. CASE Escalate(n) \/ Reboot(n)
    <3>1. ResetNeighborTable(n)
      BY <2>6 DEF Escalate, Reboot
    <3>2. bestNeighborId'[n] = NoId
      BY <1>1, <3>1 DEF ResetNeighborTable, TypeOK
    <3>3. Route' = [Route EXCEPT ![n] = NextHops!Nowhere]
      BY <2>1, <2>2, <3>2
    <3>4. NextHops!Forget(n) \/ NextHops!Restart(n)
      BY <2>6, <3>3 DEF Escalate, Reboot, NextHops!Forget, NextHops!Restart
    <3> QED  BY <3>4
  <2> QED  BY <1>5, <2>3, <2>4, <2>5, <2>6 DEF UpdateNode
<1>6. CASE UNCHANGED vars
  BY <1>2, <1>6 DEF vars
<1> QED  BY <1>3, <1>4, <1>5, <1>6 DEF Next

\* To the data plane of its node, routing is the abstract supplier of next
\* hops: only heard devices, both or none; nothing heard takes a route away;
\* and in a retry cycle only the escalation and a restart do.
THEOREM NextHopsAreAsPromised == Spec => ImplementsNextHop
<1>1. Init => NextHops!Init /\ HeardHaveRoutes
  BY DEF Init, Route, HeardHaveRoutes, NextHops!Init, NextHops!Nowhere
<1> QED
  BY <1>1, Invariance, HeardHaveRoutesStep, NextHopsStep, PTL
     DEF Spec, ImplementsNextHop, NextHops!Spec
=============================================================================
