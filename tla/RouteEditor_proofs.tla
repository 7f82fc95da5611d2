------------------------- MODULE RouteEditor_proofs -------------------------
(***************************************************************************)
(* Theorems about RouteEditor, for any stops, fields, values and bounds.   *)
(***************************************************************************)
EXTENDS RouteEditor, FiniteSetTheorems, TLAPS

-----------------------------------------------------------------------------
(* Constants and operators *)

StopMaps == UNION {[S -> Stop] : S \in SUBSET StopIds}
PlaceMaps == UNION {[S -> Orders] : S \in SUBSET StopIds}

\* What the assumptions say of the constants.
LEMMA Constants ==
  /\ IsFiniteSet(StopIds) /\ Cardinality(StopIds) \in Nat \ {0}
  /\ SomeStop \in InitStops /\ SomeStop \in StopIds
  /\ SomeDetail \in Details /\ Fill \in [Fields -> Values]
  /\ 0 \in Orders
<1>1. SomeStop \in InitStops /\ SomeStop \in StopIds
  BY StopsAssumption DEF SomeStop
<1>2. SomeDetail \in Details
  BY DetailsAssumption DEF SomeDetail
<1>3. Fill \in [Fields -> Values]
  BY DetailsAssumption DEF Fill
<1>4. IsFiniteSet(StopIds) /\ Cardinality(StopIds) \in Nat
  BY StopsAssumption, FS_CardinalityType
<1>5. Cardinality(StopIds) # 0
  BY <1>1, <1>4, FS_EmptySet
<1>6. 0 \in Orders
  BY <1>4, <1>5 DEF Orders
<1> QED BY <1>1, <1>2, <1>3, <1>4, <1>5, <1>6

\* A map of stops, by its domain and its values.
LEMMA StopMap ==
  ASSUME NEW f
  PROVE  f \in StopMaps <=> /\ f = [x \in DOMAIN f |-> f[x]]
                            /\ DOMAIN f \subseteq StopIds
                            /\ \A x \in DOMAIN f : f[x] \in Stop
<1>1. ASSUME f \in StopMaps
      PROVE  /\ f = [x \in DOMAIN f |-> f[x]]
             /\ DOMAIN f \subseteq StopIds
             /\ \A x \in DOMAIN f : f[x] \in Stop
  <2>1. PICK S \in SUBSET StopIds : f \in [S -> Stop]
    BY <1>1 DEF StopMaps
  <2> QED BY <2>1
<1>2. ASSUME /\ f = [x \in DOMAIN f |-> f[x]]
             /\ DOMAIN f \subseteq StopIds
             /\ \A x \in DOMAIN f : f[x] \in Stop
      PROVE  f \in StopMaps
  <2>1. f \in [DOMAIN f -> Stop]
    BY <1>2
  <2> QED BY <1>2, <2>1 DEF StopMaps
<1> QED BY <1>1, <1>2

LEMMA PlaceMap ==
  ASSUME NEW D \in SUBSET StopIds, NEW f \in [D -> Orders]
  PROVE  f \in PlaceMaps
BY DEF PlaceMaps

\* Stops that are added, removed or moved are stops.
LEMMA NewStops ==
  ASSUME NEW stops \in StopMaps, NEW s \in StopIds, NEW o \in Orders, NEW d \in Details
  PROVE  New(stops, s, o, d) \in StopMaps /\ DOMAIN New(stops, s, o, d) = DOMAIN stops \cup {s}
<1>1. DOMAIN stops \subseteq StopIds /\ \A x \in DOMAIN stops : stops[x] \in Stop
  BY StopMap
<1>2. [order |-> o, detail |-> d] \in Stop
  BY DEF Stop
<1>3. New(stops, s, o, d) \in [DOMAIN stops \cup {s} -> Stop]
  BY <1>1, <1>2 DEF New
<1>4. DOMAIN stops \cup {s} \in SUBSET StopIds
  BY <1>1
<1> QED BY <1>3, <1>4 DEF StopMaps

LEMMA FewerStops ==
  ASSUME NEW stops \in StopMaps, NEW s \in StopIds
  PROVE  Without(stops, s) \in StopMaps /\ DOMAIN Without(stops, s) = DOMAIN stops \ {s}
<1>1. DOMAIN stops \subseteq StopIds /\ \A x \in DOMAIN stops : stops[x] \in Stop
  BY StopMap
<1>2. Without(stops, s) \in [DOMAIN stops \ {s} -> Stop]
  BY <1>1 DEF Without
<1>3. DOMAIN stops \ {s} \in SUBSET StopIds
  BY <1>1
<1> QED BY <1>2, <1>3 DEF StopMaps

LEMMA RenumberedStops ==
  ASSUME NEW stops \in StopMaps, NEW order \in PlaceMaps, DOMAIN order = DOMAIN stops
  PROVE  /\ Renumbered(stops, order) \in StopMaps
         /\ DOMAIN Renumbered(stops, order) = DOMAIN stops
<1>1. DOMAIN stops \subseteq StopIds /\ \A x \in DOMAIN stops : stops[x] \in Stop
  BY StopMap
<1>2. \A x \in DOMAIN order : order[x] \in Orders
  BY DEF PlaceMaps
<1>3. \A x \in DOMAIN stops : [stops[x] EXCEPT !.order = order[x]] \in Stop
  BY <1>1, <1>2 DEF Stop
<1>4. Renumbered(stops, order) \in [DOMAIN stops -> Stop]
  BY <1>3 DEF Renumbered
<1> QED BY <1>1, <1>4 DEF StopMaps

\* A stop that is edited stays a stop.
LEMMA EditedStops ==
  ASSUME NEW stops \in StopMaps, NEW s \in DOMAIN stops, NEW d \in Details
  PROVE  LET new == [stops EXCEPT ![s].detail = d]
         IN new \in StopMaps /\ DOMAIN new = DOMAIN stops
<1>1. DOMAIN stops \subseteq StopIds /\ stops \in [DOMAIN stops -> Stop]
  BY StopMap
<1>2. [stops[s] EXCEPT !.detail = d] \in Stop
  BY <1>1 DEF Stop
<1>3. [stops EXCEPT ![s].detail = d] \in [DOMAIN stops -> Stop]
  BY <1>1, <1>2
<1> QED BY <1>1, <1>3 DEF StopMaps

\* The place of a stop among those shown is one of the places there are.
LEMMA PlaceIsAPlace ==
  ASSUME query.data.stops \in StopMaps, NEW s \in DOMAIN query.data.stops
  PROVE  Place(s) \in Orders
<1> DEFINE D == DOMAIN query.data.stops
           B == {x \in D : query.data.stops[x].order < query.data.stops[s].order}
<1>1. D \subseteq StopIds /\ query.data.stops[s].order \in Orders
  BY StopMap DEF Stop
<1>2. Cardinality(StopIds) \in Nat \ {0} /\ IsFiniteSet(StopIds)
  BY Constants
<1>3. query.data.stops[s].order \in Nat
  BY <1>1, <1>2 DEF Orders
<1>4. B \in SUBSET (StopIds \ {s})
  BY <1>1, <1>3
<1>5. IsFiniteSet(StopIds \ {s}) /\ Cardinality(StopIds \ {s}) = Cardinality(StopIds) - 1
  BY <1>1, <1>2, FS_RemoveElement
<1>6. Cardinality(B) \in Nat /\ Cardinality(B) <= Cardinality(StopIds) - 1
  BY <1>4, <1>5, FS_Subset, FS_CardinalityType
<1>7. Place(s) = Cardinality(B)
  BY DEF Place, Data
<1> HIDE DEF B
<1> QED BY <1>2, <1>6, <1>7 DEF Orders

Queries == [at : {"idle", "sent", "replied"}, got : Route, ok : BOOLEAN,
            has : BOOLEAN, data : Route, error : BOOLEAN]
DialogStates == [kind : Dialogs, stop : StopIds, named : BOOLEAN, looking : BOOLEAN,
                 busy : BOOLEAN]

\* No request, no dialog.
LEMMA Blank ==
  NoReq \in Requests /\ NoReq.at = "none" /\ NoDialog \in DialogStates
<1>1. [s \in {} |-> 0] \in [{} -> Orders]
  OBVIOUS
<1>2. [s \in {} |-> 0] \in UNION {[S -> Orders] : S \in SUBSET StopIds}
  BY <1>1, PlaceMap DEF PlaceMaps
<1>3. 0 \in 0..MaxWrites
  BY BoundsAssumption
<1> QED BY <1>2, <1>3, Constants DEF NoReq, Requests, Dialogs, NoDialog, DialogStates

-----------------------------------------------------------------------------
(* What the requests in flight may still write *)

Sent == {k \in Kinds : req[k].at = "sent"}

\* There are finitely many requests in flight.
LEMMA Counted ==
  ASSUME TypeOK
  PROVE  IsFiniteSet(Sent) /\ Cardinality(Sent) \in Nat
<1>1. IsFiniteSet({"reorder", "dialog", "save"})
  <2>1. IsFiniteSet({"reorder"})
    BY FS_Singleton
  <2>2. IsFiniteSet({"reorder"} \cup {"dialog"})
    BY <2>1, FS_AddElement
  <2>3. IsFiniteSet(({"reorder"} \cup {"dialog"}) \cup {"save"})
    BY <2>2, FS_AddElement
  <2>4. {"reorder", "dialog", "save"} = ({"reorder"} \cup {"dialog"}) \cup {"save"}
    OBVIOUS
  <2> QED BY <2>3, <2>4
<1>2. Sent \in SUBSET {"reorder", "dialog", "save"}
  BY DEF Sent, Kinds
<1> QED BY <1>1, <1>2, FS_Subset, FS_CardinalityType

\* One request changes: how many are in flight then.
LEMMA OneMoreOneLess ==
  ASSUME TypeOK, NEW k \in Kinds, NEW r \in Requests, req' = [req EXCEPT ![k] = r]
  PROVE  /\ req' \in [Kinds -> Requests]
         /\ r.at = "sent" /\ req[k].at # "sent" => Cardinality(Sent') = Cardinality(Sent) + 1
         /\ r.at # "sent" /\ req[k].at = "sent" => Cardinality(Sent') = Cardinality(Sent) - 1
         /\ (r.at = "sent" <=> req[k].at = "sent") => Sent' = Sent
<1>1. req' \in [Kinds -> Requests] /\ req \in [Kinds -> Requests]
  BY DEF TypeOK
<1>2. \A j \in Kinds : req'[j] = IF j = k THEN r ELSE req[j]
  BY <1>1
<1>3. r.at = "sent" /\ req[k].at # "sent" => Sent' = Sent \cup {k} /\ k \notin Sent
  BY <1>2 DEF Sent
<1>4. r.at # "sent" /\ req[k].at = "sent" => Sent' = Sent \ {k} /\ k \in Sent
  BY <1>2 DEF Sent
<1>5. (r.at = "sent" <=> req[k].at = "sent") => Sent' = Sent
  BY <1>2 DEF Sent
<1>6. IsFiniteSet(Sent)
  BY Counted
<1>7. Sent' = Sent \cup {k} /\ k \notin Sent => Cardinality(Sent') = Cardinality(Sent) + 1
  BY <1>6, FS_AddElement
<1>8. Sent' = Sent \ {k} /\ k \in Sent => Cardinality(Sent') = Cardinality(Sent) - 1
  BY <1>6, FS_RemoveElement
<1> QED BY <1>1, <1>3, <1>4, <1>5, <1>7, <1>8

\* No version without a write, and every request in flight has room to be accepted.
Accounted == route.version <= writes /\ writes + Cardinality(Sent) <= MaxWrites

\* The stops the page knows of are stops of the route, or deleted ones.
Remembered ==
  \A r \in {query.got, query.data} : DOMAIN r.stops \subseteq DOMAIN route.stops \cup route.gone

TInv == TypeOK /\ Accounted /\ Remembered

\* A request that is answered is no longer in flight.
LEMMA Answered ==
  ASSUME TypeOK, NEW k \in Kinds, req[k].at = "sent",
         NEW at \in {"ok", "error", "conflict"}, Answers(k, at)
  PROVE  /\ req' \in [Kinds -> Requests] /\ losses' \in 0..MaxLosses
         /\ Cardinality(Sent') = Cardinality(Sent) - 1
<1>1. req[k] \in Requests /\ losses \in 0..MaxLosses /\ MaxLosses \in Nat
  BY BoundsAssumption DEF TypeOK
<1>2. losses' \in 0..MaxLosses
  BY <1>1 DEF Answers
<1>3. PICK a \in {"ok", "error", "conflict"} : req' = [req EXCEPT ![k] = [req[k] EXCEPT !.at = a]]
  BY DEF Answers
<1>4. [req[k] EXCEPT !.at = a] \in Requests /\ [req[k] EXCEPT !.at = a].at = a
  BY <1>1 DEF Requests
<1>5. a # "sent"
  OBVIOUS
<1> QED BY <1>2, <1>3, <1>4, <1>5, OneMoreOneLess

\* A request that is sent had room to be accepted.
LEMMA SentOff ==
  ASSUME TypeOK, Accounted, NEW k \in Kinds, NEW r \in Requests, r.at = "sent", Send(k, r)
  PROVE  req' \in [Kinds -> Requests] /\ writes + Cardinality(Sent') <= MaxWrites
<1>1. req' = [req EXCEPT ![k] = r] /\ req[k].at = "none" /\ Room
  BY DEF Send
<1>2. req' \in [Kinds -> Requests] /\ Cardinality(Sent') = Cardinality(Sent) + 1
  BY <1>1, OneMoreOneLess
<1>3. writes + Cardinality(Sent) < MaxWrites
  BY <1>1 DEF Room, Sent
<1>4. writes \in Nat /\ Cardinality(Sent) \in Nat /\ MaxWrites \in Nat
  BY Counted, BoundsAssumption DEF TypeOK
<1> QED BY <1>2, <1>3, <1>4

\* A request that is forgotten was no longer in flight.
LEMMA Settled ==
  ASSUME TypeOK, NEW k \in Kinds, req[k].at # "sent", req' = [req EXCEPT ![k] = NoReq]
  PROVE  req' \in [Kinds -> Requests] /\ Sent' = Sent
BY Blank, OneMoreOneLess

\* A request in flight leaves room for one more write.
LEMMA RoomLeft ==
  ASSUME TInv, NEW k \in Kinds, req[k].at = "sent"
  PROVE  /\ writes + 1 \in 0..MaxWrites /\ route.version + 1 \in 0..MaxWrites
         /\ Cardinality(Sent) \in Nat \ {0}
<1>1. IsFiniteSet(Sent) /\ Cardinality(Sent) \in Nat
  BY Counted DEF TInv
<1>2. Sent # {}
  BY DEF Sent
<1>3. Cardinality(Sent) # 0
  BY <1>1, <1>2, FS_EmptySet
<1>4. writes \in Nat /\ MaxWrites \in Nat /\ route.version \in Nat
  BY BoundsAssumption DEF TInv, TypeOK, Route
<1>5. route.version <= writes /\ writes + Cardinality(Sent) <= MaxWrites
  BY DEF TInv, Accounted
<1> QED BY <1>1, <1>3, <1>4, <1>5

\* The server accepts a request: what it writes is a route that forgets no stop.
LEMMA Accepted ==
  ASSUME TInv, NEW k \in Kinds, req[k].at = "sent", Answers(k, "ok"),
         NEW r \in Route, r.version <= route.version + 1, Write(r),
         DOMAIN route.stops \cup route.gone \subseteq DOMAIN r.stops \cup r.gone,
         UNCHANGED <<query, local, history>>
  PROVE  TInv'
<1>1. writes + 1 \in 0..MaxWrites /\ Cardinality(Sent) \in Nat
  BY RoomLeft
<1>2. route' = r /\ writes' = writes + 1
  BY DEF Write
<1>3. /\ req' \in [Kinds -> Requests] /\ losses' \in 0..MaxLosses
      /\ Cardinality(Sent') = Cardinality(Sent) - 1
  BY Answered DEF TInv
<1>4. TypeOK'
  BY <1>1, <1>2, <1>3 DEF TInv, TypeOK, local, history
<1>5. Accounted'
  <2>1. r.version \in Nat /\ route.version \in Nat /\ writes \in Nat /\ MaxWrites \in Nat
    BY BoundsAssumption DEF TInv, TypeOK, Route
  <2> QED BY <1>1, <1>2, <1>3, <2>1 DEF TInv, Accounted
<1>6. Remembered'
  BY <1>2 DEF TInv, Remembered
<1> QED BY <1>4, <1>5, <1>6 DEF TInv

\* The server refuses a request, or loses it.
LEMMA Refused ==
  ASSUME TInv, NEW k \in Kinds, req[k].at = "sent",
         NEW at \in {"ok", "error", "conflict"}, Answers(k, at), Keep,
         UNCHANGED <<query, local, history>>
  PROVE  TInv'
<1>1. Cardinality(Sent) \in Nat
  BY RoomLeft
<1>2. route' = route /\ writes' = writes
  BY DEF Keep
<1>3. /\ req' \in [Kinds -> Requests] /\ losses' \in 0..MaxLosses
      /\ Cardinality(Sent') = Cardinality(Sent) - 1
  BY Answered DEF TInv
<1>4. TypeOK'
  BY <1>2, <1>3 DEF TInv, TypeOK, local, history
<1>5. Accounted'
  <2>1. writes \in Nat /\ MaxWrites \in Nat
    BY BoundsAssumption DEF TInv, TypeOK
  <2> QED BY <1>1, <1>2, <1>3, <2>1 DEF TInv, Accounted
<1>6. Remembered'
  BY <1>2 DEF TInv, Remembered
<1> QED BY <1>4, <1>5, <1>6 DEF TInv

\* The server's handlers.
LEMMA ServeKeeps ==
  ASSUME TInv, Serve
  PROVE  TInv'
<1> USE DEF Kinds
<1>1. route \in Route /\ route.stops \in StopMaps /\ route.gone \in SUBSET StopIds
      /\ route.version \in 0..MaxWrites
  BY DEF TInv, TypeOK, Route, StopMaps
<1>2. \A k \in Kinds : req[k] \in Requests
  BY DEF TInv, TypeOK
<1>3. CASE ServeUpdate
  <2>1. CASE req["save"].version = route.version
    <3> DEFINE r == [route EXCEPT !.version = @ + 1, !.fields = req["save"].fields]
    <3>1. route.version + 1 \in 0..MaxWrites
      BY <1>3, RoomLeft DEF ServeUpdate
    <3>2. r \in Route /\ r.version = route.version + 1
          /\ r.stops = route.stops /\ r.gone = route.gone
      BY <1>1, <1>2, <3>1 DEF Route, Requests
    <3>3. Write(r) /\ Answers("save", "ok") /\ req["save"].at = "sent"
          /\ UNCHANGED <<query, local, history>>
      BY <1>3, <2>1 DEF ServeUpdate
    <3>4. r.version <= route.version + 1
      BY <1>1, <3>1, <3>2
    <3> QED BY <3>2, <3>3, <3>4, Accepted
  <2>2. CASE req["save"].version # route.version
    BY <1>3, <2>2, Refused DEF ServeUpdate
  <2> QED BY <2>1, <2>2
<1>4. CASE ServeAdd
  <2>1. CASE req["dialog"].place \in OrdersOf(route.stops)
    BY <1>4, <2>1, Refused DEF ServeAdd
  <2>2. CASE req["dialog"].place \notin OrdersOf(route.stops)
    <3>1. PICK s \in Unused :
            /\ Write([route EXCEPT !.stops =
                        New(@, s, req["dialog"].place, req["dialog"].detail)])
            /\ Answers("dialog", "ok")
      BY <1>4, <2>2 DEF ServeAdd
    <3> DEFINE place == req["dialog"].place
               detail == req["dialog"].detail
               new == New(route.stops, s, place, detail)
               r == [route EXCEPT !.stops = new]
    <3>2. s \in StopIds /\ place \in Orders /\ detail \in Details
      BY <1>2, <3>1 DEF Unused, Requests
    <3>3. new \in StopMaps /\ DOMAIN new = DOMAIN route.stops \cup {s}
      <4> HIDE DEF place, detail
      <4> QED BY <1>1, <3>2, NewStops
    <3>4. Write(r) /\ Answers("dialog", "ok") /\ req["dialog"].at = "sent"
          /\ UNCHANGED <<query, local, history>>
      BY <1>4, <3>1 DEF ServeAdd
    <3> HIDE DEF new
    <3>5. r \in Route /\ r.version = route.version /\ r.stops = new /\ r.gone = route.gone
      BY <1>1, <3>3 DEF Route, StopMaps
    <3>6. r.version <= route.version + 1
      BY <1>1, <3>5
    <3>7. DOMAIN route.stops \cup route.gone \subseteq DOMAIN r.stops \cup r.gone
      BY <3>3, <3>5
    <3> HIDE DEF r
    <3> QED BY <3>4, <3>5, <3>6, <3>7, Accepted
  <2> QED BY <2>1, <2>2
<1>5. CASE ServeEdit
  <2>1. CASE req["dialog"].stop \notin DOMAIN route.stops
    BY <1>5, <2>1, Refused DEF ServeEdit
  <2>2. CASE req["dialog"].stop \in DOMAIN route.stops
    <3> DEFINE new == [route.stops EXCEPT ![req["dialog"].stop].detail = req["dialog"].detail]
               r == [route EXCEPT !.stops = new]
    <3>1. req["dialog"].detail \in Details
      BY <1>2 DEF Requests
    <3>2. new \in StopMaps /\ DOMAIN new = DOMAIN route.stops
      BY <1>1, <2>2, <3>1, EditedStops
    <3>3. r = [route EXCEPT !.stops[req["dialog"].stop].detail = req["dialog"].detail]
      OBVIOUS
    <3>4. Write(r) /\ Answers("dialog", "ok") /\ req["dialog"].at = "sent"
          /\ UNCHANGED <<query, local, history>>
      BY <1>5, <2>2, <3>3 DEF ServeEdit
    <3> HIDE DEF new
    <3>5. r \in Route /\ r.version = route.version /\ r.stops = new /\ r.gone = route.gone
      BY <1>1, <3>2 DEF Route, StopMaps
    <3>6. r.version <= route.version + 1
      BY <1>1, <3>5
    <3>7. DOMAIN route.stops \cup route.gone \subseteq DOMAIN r.stops \cup r.gone
      BY <3>2, <3>5
    <3> HIDE DEF r
    <3> QED BY <3>4, <3>5, <3>6, <3>7, Accepted
  <2> QED BY <2>1, <2>2
<1>6. CASE ServeDelete
  <2>1. CASE req["dialog"].stop \notin DOMAIN route.stops
    BY <1>6, <2>1, Refused DEF ServeDelete
  <2>2. CASE req["dialog"].stop \in DOMAIN route.stops
    <3> DEFINE s == req["dialog"].stop
               new == Without(route.stops, s)
               r == [route EXCEPT !.stops = new, !.gone = @ \cup {s}]
    <3>1. s \in StopIds
      BY <1>2 DEF Requests
    <3>2. new \in StopMaps /\ DOMAIN new = DOMAIN route.stops \ {s}
      BY <1>1, <3>1, FewerStops
    <3>3. Write(r) /\ Answers("dialog", "ok") /\ req["dialog"].at = "sent"
          /\ UNCHANGED <<query, local, history>>
      BY <1>6, <2>2 DEF ServeDelete
    <3> HIDE DEF new
    <3>4. r \in Route /\ r.version = route.version /\ r.stops = new
          /\ r.gone = route.gone \cup {s}
      BY <1>1, <3>1, <3>2 DEF Route, StopMaps
    <3>5. r.version <= route.version + 1
      BY <1>1, <3>4
    <3>6. DOMAIN route.stops \cup route.gone \subseteq DOMAIN r.stops \cup r.gone
      BY <3>2, <3>4
    <3> HIDE DEF r
    <3> QED BY <3>3, <3>4, <3>5, <3>6, Accepted
  <2> QED BY <2>1, <2>2
<1>7. CASE ServeReorder
  <2>1. CASE DOMAIN req["reorder"].order # DOMAIN route.stops
    BY <1>7, <2>1, Refused DEF ServeReorder
  <2>2. CASE DOMAIN req["reorder"].order = DOMAIN route.stops
    <3> DEFINE new == Renumbered(route.stops, req["reorder"].order)
               r == [route EXCEPT !.stops = new]
    <3>1. req["reorder"].order \in PlaceMaps
      BY <1>2 DEF Requests, PlaceMaps
    <3>2. new \in StopMaps /\ DOMAIN new = DOMAIN route.stops
      BY <1>1, <2>2, <3>1, RenumberedStops
    <3>3. Write(r) /\ Answers("reorder", "ok") /\ req["reorder"].at = "sent"
          /\ UNCHANGED <<query, local, history>>
      BY <1>7, <2>2 DEF ServeReorder
    <3> HIDE DEF new
    <3>4. r \in Route /\ r.version = route.version /\ r.stops = new /\ r.gone = route.gone
      BY <1>1, <3>2 DEF Route, StopMaps
    <3>5. r.version <= route.version + 1
      BY <1>1, <3>4
    <3>6. DOMAIN route.stops \cup route.gone \subseteq DOMAIN r.stops \cup r.gone
      BY <3>2, <3>4
    <3> HIDE DEF r
    <3> QED BY <3>3, <3>4, <3>5, <3>6, Accepted
  <2> QED BY <2>1, <2>2
<1> QED BY <1>3, <1>4, <1>5, <1>6, <1>7 DEF Serve

-----------------------------------------------------------------------------
(* The page *)

\* A step that leaves the route as it is keeps the invariant, if what it knows of the
\* route it knew before or is the route.
LEMMA RouteKept ==
  ASSUME TInv, route' = route, writes' = writes, losses' \in 0..MaxLosses,
         query' \in Queries, {query'.got, query'.data} \subseteq {query.got, query.data, route},
         form' \in [Fields -> Values], dialog' \in DialogStates, req' \in [Kinds -> Requests],
         writes + Cardinality(Sent') <= MaxWrites,
         chosen' \in [Fields -> Values], seed' \in [Fields -> Values], foreign' \in BOOLEAN
  PROVE  TInv'
<1>1. TypeOK'
  BY DEF TInv, TypeOK, Queries, DialogStates
<1>2. Accounted'
  BY DEF TInv, Accounted
<1>3. Remembered'
  BY DEF TInv, Remembered
<1> QED BY <1>1, <1>2, <1>3 DEF TInv

\* TypeOK, in terms of the sets above.
LEMMA Typed ==
  ASSUME TInv
  PROVE  /\ route \in Route /\ writes \in 0..MaxWrites /\ losses \in 0..MaxLosses
         /\ query \in Queries /\ form \in [Fields -> Values] /\ dialog \in DialogStates
         /\ req \in [Kinds -> Requests] /\ chosen \in [Fields -> Values]
         /\ seed \in [Fields -> Values] /\ foreign \in BOOLEAN
         /\ writes + Cardinality(Sent) <= MaxWrites
BY DEF TInv, TypeOK, Queries, DialogStates, Accounted

\* A fetch that starts keeps what is shown.
LEMMA Fetched ==
  ASSUME query \in Queries
  PROVE  Fetch \in Queries /\ Fetch.got = query.data /\ Fetch.data = query.data
BY DEF Fetch, Queries

\* One step of each kind keeps the invariant.
LEMMA QueryKeeps ==
  ASSUME TInv, ServeQuery \/ Retry
  PROVE  TInv'
<1> USE Typed
<1>1. Sent' = Sent
  BY DEF ServeQuery, Retry, Sent
<1>2. CASE Retry
  BY <1>1, <1>2, Fetched, RouteKept DEF Retry, local, history
<1>3. CASE ServeQuery
  <2>1. /\ query' \in Queries /\ losses' \in 0..MaxLosses
        /\ {query'.got, query'.data} \subseteq {query.got, query.data, route}
    <3>1. query' \in Queries
      BY <1>3 DEF ServeQuery, Queries
    <3>2. query'.got \in {query.got, route} /\ query'.data = query.data
      BY <1>3 DEF ServeQuery, Queries
    <3>3. losses' \in 0..MaxLosses
      BY <1>3, BoundsAssumption DEF ServeQuery
    <3> QED BY <3>1, <3>2, <3>3
  <2> QED BY <1>1, <1>3, <2>1, RouteKept DEF ServeQuery, local, history
<1> QED BY <1>2, <1>3

LEMMA LoseKeeps ==
  ASSUME TInv, NEW k \in Kinds, Lose(k)
  PROVE  TInv'
BY Refused DEF Lose, Answers, Keep

LEMMA ElsewhereKeeps ==
  ASSUME TInv, Elsewhere
  PROVE  TInv'
<1> USE Typed
<1>1. Sent' = Sent
  BY DEF Elsewhere, Sent
<1>2. writes + Cardinality(Sent) < MaxWrites
  BY DEF Elsewhere, Room, Sent
<1>3. /\ writes + 1 \in 0..MaxWrites /\ route.version \in Nat /\ writes \in Nat
      /\ MaxWrites \in Nat /\ Cardinality(Sent) \in Nat /\ route.version <= writes
  BY <1>2, BoundsAssumption, Counted DEF TInv, Accounted, Route
<1>4. PICK r : /\ Write(r) /\ r \in Route /\ r.version <= route.version + 1
               /\ DOMAIN route.stops \cup route.gone \subseteq DOMAIN r.stops \cup r.gone
  <2>1. ASSUME NEW f \in Fields, NEW v \in Values,
               Write([route EXCEPT !.version = @ + 1, !.fields[f] = v])
        PROVE  \E r : /\ Write(r) /\ r \in Route /\ r.version <= route.version + 1
                      /\ DOMAIN route.stops \cup route.gone \subseteq DOMAIN r.stops \cup r.gone
    <3> DEFINE r == [route EXCEPT !.version = @ + 1, !.fields[f] = v]
    <3>1. route.version + 1 \in 0..MaxWrites
      BY <1>3
    <3>2. r \in Route /\ r.version = route.version + 1 /\ r.stops = route.stops
          /\ r.gone = route.gone
      BY <3>1 DEF Route
    <3>3. r.version <= route.version + 1
      BY <1>3, <3>2
    <3> QED BY <2>1, <3>2, <3>3
  <2>2. ASSUME NEW s \in DOMAIN route.stops,
               Write([route EXCEPT !.stops = Without(@, s), !.gone = @ \cup {s}])
        PROVE  \E r : /\ Write(r) /\ r \in Route /\ r.version <= route.version + 1
                      /\ DOMAIN route.stops \cup route.gone \subseteq DOMAIN r.stops \cup r.gone
    <3> DEFINE new == Without(route.stops, s)
               r == [route EXCEPT !.stops = new, !.gone = @ \cup {s}]
    <3>1. route.stops \in StopMaps
      BY DEF Route, StopMaps
    <3>2. s \in StopIds
      BY <3>1, StopMap
    <3>3. new \in StopMaps /\ DOMAIN new = DOMAIN route.stops \ {s}
      BY <3>1, <3>2, FewerStops
    <3>4. Write(r)
      BY <2>2
    <3> HIDE DEF new
    <3>5. r \in Route /\ r.version = route.version /\ r.stops = new
          /\ r.gone = route.gone \cup {s}
      BY <3>2, <3>3 DEF Route, StopMaps
    <3>6. r.version <= route.version + 1
      BY <1>3, <3>5
    <3>7. DOMAIN route.stops \cup route.gone \subseteq DOMAIN r.stops \cup r.gone
      BY <3>3, <3>5
    <3> HIDE DEF r
    <3> QED BY <3>4, <3>5, <3>6, <3>7
  <2> QED BY <2>1, <2>2 DEF Elsewhere
<1>5. route' = r /\ writes' = writes + 1
  BY <1>4 DEF Write
<1>6. TypeOK'
  BY <1>3, <1>4, <1>5 DEF Elsewhere, TypeOK, local, Queries, DialogStates
<1>7. Accounted'
  <2>1. r.version \in Nat
    BY <1>4 DEF Route
  <2> QED BY <1>1, <1>2, <1>3, <1>4, <1>5, <2>1 DEF Accounted
<1>8. Remembered'
  BY <1>4, <1>5 DEF Elsewhere, TInv, Remembered
<1> QED BY <1>6, <1>7, <1>8 DEF TInv

LEMMA QuerySettlesKeeps ==
  ASSUME TInv, QuerySettles
  PROVE  TInv'
<1> USE Typed
<1>1. /\ query' \in Queries
      /\ {query'.got, query'.data} \subseteq {query.got, query.data, route}
  BY DEF QuerySettles, Queries
<1>2. form' \in [Fields -> Values] /\ seed' \in [Fields -> Values]
  <2>1. query'.data.fields \in [Fields -> Values]
    BY <1>1 DEF Queries, Route
  <2> QED BY <2>1 DEF QuerySettles
<1>3. dialog' \in DialogStates
  BY DEF QuerySettles, DialogStates
<1>4. req' \in [Kinds -> Requests] /\ Sent' = Sent
  <2>1. CASE ContentShown'
    <3>1. CASE req["save"].at = "refetch"
      <4>1. req' = [req EXCEPT !["save"] = NoReq]
        BY <2>1, <3>1 DEF QuerySettles
      <4> QED BY <3>1, <4>1, Settled DEF TInv, Kinds
    <3>2. CASE req["save"].at # "refetch"
      BY <2>1, <3>2 DEF QuerySettles, Sent
    <3> QED BY <3>1, <3>2
  <2>2. CASE ~ContentShown'
    <3>1. req' = [k \in Kinds |-> IF req[k].at = "refetch" THEN NoReq
                                  ELSE [req[k] EXCEPT !.mine = FALSE]]
      BY <2>2 DEF QuerySettles
    <3>2. \A k \in Kinds : /\ [req[k] EXCEPT !.mine = FALSE] \in Requests
                           /\ [req[k] EXCEPT !.mine = FALSE].at = req[k].at
      BY DEF Requests
    <3>3. req' \in [Kinds -> Requests]
      BY <3>1, <3>2, Blank
    <3>4. \A k \in Kinds : req'[k].at = "sent" <=> req[k].at = "sent"
      BY <3>1, <3>2, Blank
    <3> QED BY <3>3, <3>4 DEF Sent
  <2> QED BY <2>1, <2>2
<1> QED BY <1>1, <1>2, <1>3, <1>4, RouteKept DEF QuerySettles

LEMMA SettleKeeps ==
  ASSUME TInv, Settle
  PROVE  TInv'
<1> USE Typed, Blank DEF Kinds, history
<1>1. CASE DialogSettles
  <2>1. req' \in [Kinds -> Requests] /\ Sent' = Sent
    BY <1>1, Settled DEF DialogSettles, TInv
  <2>2. query' \in Queries /\ {query'.got, query'.data} \subseteq {query.got, query.data, route}
    BY <1>1, Fetched DEF DialogSettles
  <2>3. dialog' \in DialogStates
    BY <1>1 DEF DialogSettles, DialogStates
  <2> QED BY <1>1, <2>1, <2>2, <2>3, RouteKept DEF DialogSettles
<1>2. CASE ReorderSettles
  <2>1. req' \in [Kinds -> Requests] /\ Sent' = Sent
    BY <1>2, Settled DEF ReorderSettles, TInv
  <2>2. query' \in Queries /\ {query'.got, query'.data} \subseteq {query.got, query.data, route}
    BY <1>2, Fetched DEF ReorderSettles
  <2> QED BY <1>2, <2>1, <2>2, RouteKept DEF ReorderSettles, local
<1>3. CASE SaveSettles
  <2>1. req' \in [Kinds -> Requests] /\ Sent' = Sent
    <3> DEFINE r == IF req["save"].at = "conflict" /\ req["save"].mine
                    THEN [req["save"] EXCEPT !.at = "refetch"] ELSE NoReq
    <3>1. req' = [req EXCEPT !["save"] = r]
      BY <1>3 DEF SaveSettles
    <3>2. r \in Requests /\ r.at # "sent" /\ req["save"].at # "sent"
      BY <1>3 DEF SaveSettles, Requests
    <3> HIDE DEF r
    <3> QED BY <3>1, <3>2, OneMoreOneLess DEF TInv
  <2>2. query' \in Queries /\ {query'.got, query'.data} \subseteq {query.got, query.data, route}
    BY <1>3, Fetched DEF SaveSettles
  <2> QED BY <1>3, <2>1, <2>2, RouteKept DEF SaveSettles, local
<1> QED BY <1>1, <1>2, <1>3 DEF Settle

-----------------------------------------------------------------------------
(* The admin *)

\* Whatever is sent is sent with room for it.
LEMMA SendKeeps ==
  ASSUME TInv, NEW k \in Kinds, NEW r \in Requests, r.at = "sent", Send(k, r),
         dialog' \in DialogStates,
         UNCHANGED <<route, writes, losses, query, form, history>>
  PROVE  TInv'
<1> USE Typed
<1>1. req' \in [Kinds -> Requests] /\ writes + Cardinality(Sent') <= MaxWrites
  BY SentOff DEF TInv
<1>2. {query'.got, query'.data} \subseteq {query.got, query.data, route}
  OBVIOUS
<1> QED BY <1>1, <1>2, RouteKept DEF history

LEMMA MoveKeeps ==
  ASSUME TInv, NEW s \in StopIds, NEW t \in StopIds, Move(s, t)
  PROVE  TInv'
<1> USE Typed DEF Kinds, Data
<1>1. query.data.stops \in StopMaps
  BY DEF Queries, Route, StopMaps
<1>2. DOMAIN query.data.stops \in SUBSET StopIds
  BY <1>1, StopMap
<1>3. \A x \in DOMAIN query.data.stops : Place(x) \in Orders
  BY <1>1, PlaceIsAPlace
<1> DEFINE order == [x \in DOMAIN Data.stops |->
                       IF x = s THEN Place(t) ELSE IF x = t THEN Place(s) ELSE Place(x)]
           r == [Request EXCEPT !.order = order]
<1>4. {s, t} \subseteq DOMAIN query.data.stops /\ Send("reorder", r)
      /\ UNCHANGED <<route, writes, losses, query, local, history>>
  BY DEF Move
<1>5. order \in [DOMAIN query.data.stops -> Orders]
  BY <1>3, <1>4
<1> HIDE DEF order
<1>6. order \in PlaceMaps
  BY <1>2, <1>5, PlaceMap
<1>7. r \in Requests /\ r.at = "sent"
  BY <1>6, Blank DEF Request, Requests, PlaceMaps
<1> HIDE DEF r
<1> QED BY <1>4, <1>7, SendKeeps DEF local

LEMMA DialogKeeps ==
  ASSUME TInv,
         \/ \E kind \in Dialogs \ {"none"}, s \in StopIds : OpenDialog(kind, s)
         \/ CloseDialog
         \/ \E b \in BOOLEAN : Geocoded(b) \/ TypeName(b)
  PROVE  TInv'
<1> USE Typed, Blank
<1>1. UNCHANGED <<route, writes, losses, query, form, req, history>>
  BY DEF OpenDialog, CloseDialog, Geocoded, TypeName
<1>2. dialog' \in DialogStates
  <2>1. ASSUME NEW kind \in Dialogs \ {"none"}, NEW s \in StopIds, OpenDialog(kind, s)
        PROVE  dialog' \in DialogStates
    BY <2>1 DEF OpenDialog, DialogStates
  <2>2. CASE CloseDialog
    BY <2>2 DEF CloseDialog
  <2>3. ASSUME NEW b \in BOOLEAN, Geocoded(b)
        PROVE  dialog' \in DialogStates
    BY <2>3 DEF Geocoded, DialogStates
  <2>4. ASSUME NEW b \in BOOLEAN, TypeName(b)
        PROVE  dialog' \in DialogStates
    BY <2>4 DEF TypeName, DialogStates
  <2> QED BY <2>1, <2>2, <2>3, <2>4
<1>3. Sent' = Sent
  BY <1>1 DEF Sent
<1>4. {query'.got, query'.data} \subseteq {query.got, query.data, route}
  BY <1>1
<1> QED BY <1>1, <1>2, <1>3, <1>4, RouteKept DEF history

\* A new stop is asked for at one of the places there are.
LEMMA RoomForAStop ==
  ASSUME TInv, Unused # {}
  PROVE  NextOrder \in Orders
<1> USE Typed
<1> DEFINE D == DOMAIN query.data.stops
<1>1. D \subseteq StopIds /\ D \subseteq DOMAIN route.stops \cup route.gone
  <2>1. query.data.stops \in StopMaps
    BY DEF Queries, Route, StopMaps
  <2> QED BY <2>1, StopMap DEF TInv, Remembered
<1>2. PICK s \in StopIds : s \notin D
  BY <1>1 DEF Unused
<1>3. D \in SUBSET (StopIds \ {s})
  BY <1>1, <1>2
<1>4. IsFiniteSet(StopIds) /\ Cardinality(StopIds) \in Nat \ {0}
  BY Constants
<1>5. IsFiniteSet(StopIds \ {s}) /\ Cardinality(StopIds \ {s}) = Cardinality(StopIds) - 1
  BY <1>2, <1>4, FS_RemoveElement
<1>6. Cardinality(D) \in Nat /\ Cardinality(D) <= Cardinality(StopIds) - 1
  BY <1>3, <1>5, FS_Subset, FS_CardinalityType
<1> QED BY <1>4, <1>6 DEF NextOrder, Data, Orders

LEMMA SubmitKeeps ==
  ASSUME TInv,
         \/ \E d \in Details : SubmitAdd(d) \/ SubmitEdit(d)
         \/ HandleDeleteStop
  PROVE  TInv'
<1> USE Typed, Blank DEF Kinds
<1>1. [dialog EXCEPT !.busy = TRUE] \in DialogStates /\ dialog.stop \in StopIds
  BY DEF DialogStates
<1>2. Request \in Requests /\ Request.at = "sent"
  BY DEF Request, Requests
<1>3. ASSUME NEW d \in Details, SubmitAdd(d) PROVE TInv'
  <2> DEFINE r == [Request EXCEPT !.kind = "add", !.detail = d, !.place = NextOrder]
  <2>1. NextOrder \in Orders
    BY <1>3, RoomForAStop DEF SubmitAdd
  <2>2. r \in Requests /\ r.at = "sent"
    BY <1>2, <2>1 DEF Requests, Dialogs
  <2>3. Send("dialog", r) /\ dialog' \in DialogStates
        /\ UNCHANGED <<route, writes, losses, query, form, history>>
    BY <1>1, <1>3 DEF SubmitAdd
  <2> HIDE DEF r
  <2> QED BY <2>2, <2>3, SendKeeps
<1>4. ASSUME NEW d \in Details, SubmitEdit(d) PROVE TInv'
  <2> DEFINE r == [Request EXCEPT !.kind = "edit", !.stop = dialog.stop, !.detail = d]
  <2>1. r \in Requests /\ r.at = "sent"
    BY <1>1, <1>2 DEF Requests, Dialogs
  <2>2. Send("dialog", r) /\ dialog' \in DialogStates
        /\ UNCHANGED <<route, writes, losses, query, form, history>>
    BY <1>1, <1>4 DEF SubmitEdit
  <2> HIDE DEF r
  <2> QED BY <2>1, <2>2, SendKeeps
<1>5. CASE HandleDeleteStop
  <2> DEFINE r == [Request EXCEPT !.kind = "delete", !.stop = dialog.stop]
  <2>1. r \in Requests /\ r.at = "sent"
    BY <1>1, <1>2 DEF Requests, Dialogs
  <2>2. Send("dialog", r) /\ dialog' \in DialogStates
        /\ UNCHANGED <<route, writes, losses, query, form, history>>
    BY <1>1, <1>5 DEF HandleDeleteStop
  <2> HIDE DEF r
  <2> QED BY <2>1, <2>2, SendKeeps
<1> QED BY <1>3, <1>4, <1>5

LEMMA FormKeeps ==
  ASSUME TInv, (\E f \in Fields, v \in Values : Choose(f, v)) \/ Save
  PROVE  TInv'
<1> USE Typed, Blank DEF Kinds
<1>1. ASSUME NEW f \in Fields, NEW v \in Values, Choose(f, v) PROVE TInv'
  <2>1. Sent' = Sent
    BY <1>1 DEF Choose, Sent
  <2>2. form' \in [Fields -> Values] /\ chosen' \in [Fields -> Values]
    BY <1>1 DEF Choose
  <2>3. {query'.got, query'.data} \subseteq {query.got, query.data, route}
    BY <1>1 DEF Choose
  <2> QED BY <1>1, <2>1, <2>2, <2>3, RouteKept DEF Choose
<1>2. CASE Save
  <2> DEFINE r == [Request EXCEPT !.fields = form, !.version = Data.version, !.seen = seed]
  <2>1. Data.version \in 0..MaxWrites
    BY DEF Data, Queries, Route
  <2>2. r \in Requests /\ r.at = "sent"
    BY <2>1 DEF Request, Requests
  <2>3. Send("save", r) /\ UNCHANGED <<route, writes, losses, query, local, history>>
    BY <1>2 DEF Save
  <2> HIDE DEF r
  <2> QED BY <2>2, <2>3, SendKeeps DEF local
<1> QED BY <1>1, <1>2

LEMMA InitHolds ==
  ASSUME Init
  PROVE  TInv
<1>1. PICK order \in [InitStops -> 0..(Cardinality(InitStops) - 1)] :
        route = [version |-> 0, fields |-> Fill, gone |-> {},
                 stops |-> [s \in InitStops |-> [order |-> order[s], detail |-> SomeDetail]]]
  BY DEF Init
<1> DEFINE stops == [s \in InitStops |-> [order |-> order[s], detail |-> SomeDetail]]
<1>2. stops \in StopMaps
  <2>1. InitStops \in SUBSET StopIds /\ IsFiniteSet(StopIds)
    BY StopsAssumption
  <2>2. Cardinality(InitStops) \in Nat /\ Cardinality(StopIds) \in Nat
        /\ Cardinality(InitStops) <= Cardinality(StopIds)
    BY <2>1, FS_Subset, FS_CardinalityType
  <2>3. \A s \in InitStops : order[s] \in Orders
    BY <2>2 DEF Orders
  <2>4. stops \in [InitStops -> Stop]
    BY <2>3, Constants DEF Stop
  <2> HIDE DEF stops
  <2> QED BY <2>1, <2>4 DEF StopMaps
<1>3. MaxWrites \in Nat /\ MaxLosses \in Nat
  BY BoundsAssumption
<1>4. route \in Route /\ route.version = 0
  <2> HIDE DEF stops
  <2>1. route = [version |-> 0, fields |-> Fill, gone |-> {}, stops |-> stops]
    BY <1>1 DEF stops
  <2> QED BY <1>2, <1>3, <2>1, Constants DEF Route, StopMaps
<1>5. TypeOK
  <2>1. query = [at |-> "sent", got |-> route, ok |-> TRUE, has |-> FALSE, data |-> route,
                 error |-> FALSE]
    BY DEF Init
  <2>2. query \in Queries
    BY <1>4, <2>1 DEF Queries
  <2>3. writes \in 0..MaxWrites /\ losses \in 0..MaxLosses
    BY <1>3 DEF Init
  <2>4. foreign \in BOOLEAN
    BY DEF Init
  <2>5. form \in [Fields -> Values] /\ chosen \in [Fields -> Values]
        /\ seed \in [Fields -> Values]
    BY Constants DEF Init
  <2>6. dialog \in DialogStates /\ req \in [Kinds -> Requests]
    BY Blank DEF Init
  <2> QED BY <1>4, <2>2, <2>3, <2>4, <2>5, <2>6 DEF TypeOK, Queries, DialogStates
<1>6. Accounted
  <2>1. Sent = {}
    BY Blank DEF Init, Sent
  <2> QED BY <1>3, <1>4, <2>1, FS_EmptySet DEF Init, Accounted
<1>7. Remembered
  BY DEF Init, Remembered
<1> QED BY <1>5, <1>6, <1>7 DEF TInv

LEMMA NextKeeps ==
  ASSUME TInv, [Next]_vars
  PROVE  TInv'
<1>1. CASE Serve
  BY <1>1, ServeKeeps
<1>2. CASE Settle
  BY <1>2, SettleKeeps
<1>3. CASE ServeQuery \/ Retry
  BY <1>3, QueryKeeps
<1>4. CASE QuerySettles
  BY <1>4, QuerySettlesKeeps
<1>5. CASE \E k \in Kinds : Lose(k)
  BY <1>5, LoseKeeps
<1>6. CASE Elsewhere
  BY <1>6, ElsewhereKeeps
<1>7. CASE \E s, t \in StopIds : Move(s, t)
  BY <1>7, MoveKeeps
<1>8. CASE \/ \E kind \in Dialogs \ {"none"}, s \in StopIds : OpenDialog(kind, s)
           \/ CloseDialog
           \/ \E b \in BOOLEAN : Geocoded(b) \/ TypeName(b)
  BY <1>8, DialogKeeps
<1>9. CASE \/ \E d \in Details : SubmitAdd(d) \/ SubmitEdit(d)
           \/ HandleDeleteStop
  BY <1>9, SubmitKeeps
<1>10. CASE (\E f \in Fields, v \in Values : Choose(f, v)) \/ Save
  BY <1>10, FormKeeps
<1>11. CASE UNCHANGED vars
  <2>1. Sent' = Sent
    BY <1>11 DEF Sent, vars
  <2> QED BY <1>11, <2>1, Typed, RouteKept DEF vars, local, history
<1> QED BY <1>1, <1>2, <1>3, <1>4, <1>5, <1>6, <1>7, <1>8, <1>9, <1>10, <1>11 DEF Next

\* Every place the page asks the server for is a place of the route, and every version
\* it knows is one the route has had; whatever the admin, another admin and the network
\* do. (handleMoveUp, handleMoveDown, nextOrder, save)
THEOREM TypeCorrect == Spec => []TypeOK
<1>1. Init => TInv
  BY InitHolds
<1>2. TInv /\ [Next]_vars => TInv'
  BY NextKeeps
<1>3. TInv => TypeOK
  BY DEF TInv
<1> QED BY <1>1, <1>2, <1>3, PTL DEF Spec

-----------------------------------------------------------------------------
(* The optimistic lock *)

\* A version and assignments that were read together: an old version, or the
\* assignments there are.
Fresh(version, fields) ==
  version <= route.version /\ (version = route.version => fields = route.fields)

\* What the page knows, what it was filled from, and what a save in flight was made of
\* are such pairs.
LInv ==
  /\ Fresh(query.got.version, query.got.fields)
  /\ Fresh(query.data.version, query.data.fields)
  /\ req["save"].at = "sent" => Fresh(req["save"].version, req["save"].seen)
  /\ ContentShown => seed = Data.fields

\* The assignments change with the version, and only with it.
LEMMA RouteMoves ==
  ASSUME TInv, [Next]_vars
  PROVE  /\ route.version <= route'.version
         /\ route'.version = route.version => route'.fields = route.fields
<1>1. route \in Route /\ route.version \in Nat
  BY Typed DEF Route
<1>2. CASE route' = route
  BY <1>1, <1>2
<1>3. CASE Serve /\ route' # route
  <2>1. CASE ServeUpdate
    <3>1. route' = [route EXCEPT !.version = @ + 1, !.fields = req["save"].fields]
      BY <1>3, <2>1 DEF ServeUpdate, Write, Keep
    <3> QED BY <1>1, <3>1 DEF Route
  <2>2. CASE ServeAdd \/ ServeEdit \/ ServeDelete \/ ServeReorder
    <3>1. route'.version = route.version /\ route'.fields = route.fields
      BY <1>1, <1>3, <2>2
      DEF ServeAdd, ServeEdit, ServeDelete, ServeReorder, Write, Keep, Route
    <3> QED BY <1>1, <3>1
  <2> QED BY <1>3, <2>1, <2>2 DEF Serve
<1>4. CASE Elsewhere
  <2>1. CASE \E f \in Fields, v \in Values :
               Write([route EXCEPT !.version = @ + 1, !.fields[f] = v])
    <3>1. route'.version = route.version + 1
      BY <1>1, <2>1 DEF Write, Route
    <3> QED BY <1>1, <3>1
  <2>2. CASE \E s \in DOMAIN route.stops :
               Write([route EXCEPT !.stops = Without(@, s), !.gone = @ \cup {s}])
    <3>1. route'.version = route.version /\ route'.fields = route.fields
      BY <1>1, <2>2 DEF Write, Route
    <3> QED BY <1>1, <3>1
  <2> QED BY <1>4, <2>1, <2>2 DEF Elsewhere
<1>5. Serve \/ Elsewhere \/ route' = route
  BY DEF Next, vars, Settle, DialogSettles, ReorderSettles, SaveSettles, ServeQuery,
     QuerySettles, Retry, Lose, Move, OpenDialog, CloseDialog, Geocoded, TypeName,
     SubmitAdd, SubmitEdit, HandleDeleteStop, Choose, Save
<1> QED BY <1>2, <1>3, <1>4, <1>5

\* What was read together stays so.
LEMMA StaysFresh ==
  ASSUME TInv, [Next]_vars, NEW version \in Nat, NEW fields, Fresh(version, fields)
  PROVE  version <= route'.version /\ (version = route'.version => fields = route'.fields)
<1>1. route.version \in Nat /\ route'.version \in Nat
  <2>1. TInv'
    BY NextKeeps
  <2>2. route \in Route /\ route' \in Route
    BY <2>1 DEF TInv, TypeOK
  <2> QED BY <2>2 DEF Route
<1> QED BY <1>1, RouteMoves DEF Fresh

\* What the page gets is the route; what it shows, what it got.
LEMMA QueryMoves ==
  ASSUME TInv, [Next]_vars
  PROVE  \/ query' = query \/ query' = Fetch
         \/ ServeQuery /\ query'.got \in {query.got, route} /\ query'.data = query.data
                       /\ query'.has = query.has /\ query'.error = query.error
         \/ QuerySettles /\ query'.got \in {query.got, query.data}
                         /\ query'.data \in {query.got, query.data}
<1>1. query \in Queries
  BY Typed
<1>2. CASE ServeQuery
  BY <1>1, <1>2 DEF ServeQuery, Queries
<1>3. CASE QuerySettles
  BY <1>1, <1>3 DEF QuerySettles, Queries
<1>4. CASE Settle \/ Retry
  BY <1>4 DEF Settle, DialogSettles, ReorderSettles, SaveSettles, Retry
<1>5. ServeQuery \/ QuerySettles \/ Settle \/ Retry \/ query' = query
  BY DEF Next, vars, Serve, ServeUpdate, ServeAdd, ServeEdit, ServeDelete, ServeReorder,
     Lose, Elsewhere, Move, OpenDialog, CloseDialog, Geocoded, TypeName, SubmitAdd,
     SubmitEdit, HandleDeleteStop, Choose, Save
<1> QED BY <1>2, <1>3, <1>4, <1>5

\* A save in flight stays as it was sent; it is sent with what the form was filled from.
LEMMA SaveMoves ==
  ASSUME TInv, [Next]_vars, req'["save"].at = "sent"
  PROVE  \/ /\ req["save"].at = "sent"
            /\ req'["save"].version = req["save"].version
            /\ req'["save"].seen = req["save"].seen
         \/ /\ ContentShown
            /\ req'["save"].version = Data.version /\ req'["save"].seen = seed
<1> USE Typed DEF Kinds
<1>1. CASE Serve
  <2>1. CASE ServeUpdate
    <3>1. PICK at \in {"ok", "error", "conflict"} : req' = [req EXCEPT !["save"].at = at]
      BY <2>1 DEF ServeUpdate, Answers
    <3>2. req'["save"].at = at
      BY <3>1 DEF Requests
    <3> QED BY <3>2
  <2>2. CASE ServeAdd \/ ServeEdit \/ ServeDelete \/ ServeReorder
    <3>1. req'["save"] = req["save"]
      BY <2>2 DEF ServeAdd, ServeEdit, ServeDelete, ServeReorder, Answers
    <3> QED BY <3>1
  <2> QED BY <1>1, <2>1, <2>2 DEF Serve
<1>2. CASE Settle
  <2>1. CASE SaveSettles
    <3>1. req["save"] \in Requests
      OBVIOUS
    <3>2. [req["save"] EXCEPT !.at = "refetch"].at = "refetch"
      BY <3>1 DEF Requests
    <3>3. req'["save"].at \in {"refetch", "none"}
      BY <2>1, <3>2, Blank DEF SaveSettles
    <3> QED BY <3>3
  <2>2. CASE DialogSettles \/ ReorderSettles
    <3>1. req'["save"] = req["save"]
      BY <2>2 DEF DialogSettles, ReorderSettles
    <3> QED BY <3>1
  <2> QED BY <1>2, <2>1, <2>2 DEF Settle
<1>3. CASE QuerySettles
  <2>1. CASE ContentShown'
    BY <1>3, <2>1, Blank DEF QuerySettles
  <2>2. CASE ~ContentShown'
    <3>1. req' = [k \in Kinds |-> IF req[k].at = "refetch" THEN NoReq
                                  ELSE [req[k] EXCEPT !.mine = FALSE]]
      BY <1>3, <2>2 DEF QuerySettles
    <3>2. req["save"] \in Requests
      OBVIOUS
    <3> QED BY <3>1, <3>2, Blank DEF Requests
  <2> QED BY <2>1, <2>2
<1>4. CASE \E k \in Kinds : Lose(k)
  BY <1>4 DEF Lose
<1>5. CASE \E s, t \in StopIds : Move(s, t)
  BY <1>5 DEF Move, Send
<1>6. CASE \/ \E d \in Details : SubmitAdd(d) \/ SubmitEdit(d)
           \/ HandleDeleteStop
  BY <1>6 DEF SubmitAdd, SubmitEdit, HandleDeleteStop, Send
<1>7. CASE Save
  <2> DEFINE r == [Request EXCEPT !.fields = form, !.version = Data.version, !.seen = seed]
  <2>1. req' = [req EXCEPT !["save"] = r] /\ ContentShown
    BY <1>7 DEF Save, Send, Usable
  <2>2. r.version = Data.version /\ r.seen = seed
    BY DEF Request, NoReq
  <2> HIDE DEF r
  <2> QED BY <2>1, <2>2
<1>8. CASE req' = req
  BY <1>8
<1>9. \/ Serve \/ Settle \/ QuerySettles \/ \E k \in Kinds : Lose(k)
      \/ \E s, t \in StopIds : Move(s, t)
      \/ \E d \in Details : SubmitAdd(d) \/ SubmitEdit(d)
      \/ HandleDeleteStop \/ Save \/ req' = req
  BY DEF Next, vars, ServeQuery, Retry, Elsewhere, OpenDialog, CloseDialog, Geocoded,
     TypeName, Choose
<1> QED BY <1>1, <1>2, <1>3, <1>4, <1>5, <1>6, <1>7, <1>8, <1>9

\* The form is filled again only with the route that is shown.
LEMMA SeedMoves ==
  ASSUME TInv, LInv, [Next]_vars
  PROVE  (ContentShown => seed = Data.fields)'
<1>1. query \in Queries
  BY Typed
<1>2. CASE QuerySettles
  <2>1. CASE Reseeds
    <3>1. seed' = query'.data.fields
      BY <1>2, <2>1 DEF QuerySettles
    <3> QED BY <3>1 DEF Data
  <2>2. CASE ~Reseeds /\ ContentShown'
    <3>1. seed' = seed
      BY <1>2, <2>2 DEF QuerySettles
    <3>2. ContentShown /\ query'.data.fields = query.data.fields
      BY <2>2 DEF Reseeds, Data
    <3>3. seed = query.data.fields
      BY <3>2 DEF LInv, Data
    <3> QED BY <3>1, <3>2, <3>3 DEF Data
  <2> QED BY <2>1, <2>2
<1>3. seed' = seed \/ QuerySettles
  BY DEF Next, vars, history, Serve, ServeUpdate, ServeAdd, ServeEdit, ServeDelete,
     ServeReorder, Settle, DialogSettles, ReorderSettles, SaveSettles, ServeQuery, Retry,
     Lose, Elsewhere, Move, OpenDialog, CloseDialog, Geocoded, TypeName, SubmitAdd,
     SubmitEdit, HandleDeleteStop, Choose, Save
<1>4. CASE seed' = seed /\ ~QuerySettles
  <2>1. query'.has = query.has /\ query'.error = query.error /\ query'.data = query.data
    BY <1>1, <1>4, QueryMoves DEF Fetch, Queries
  <2> QED BY <1>4, <2>1 DEF LInv, ContentShown, Data
<1> QED BY <1>2, <1>3, <1>4

LEMMA LockKeeps ==
  ASSUME TInv, LInv, [Next]_vars
  PROVE  LInv'
<1> DEFINE Kept(version, fields) ==
      version <= route'.version /\ (version = route'.version => fields = route'.fields)
<1>1. query \in Queries /\ route \in Route /\ req \in [Kinds -> Requests]
  BY Typed
<1>2. /\ query.got.version \in Nat /\ query.data.version \in Nat /\ route.version \in Nat
      /\ req["save"].version \in Nat
  BY <1>1 DEF Queries, Route, Requests, Kinds
<1>3. Fresh(query.got.version, query.got.fields) /\ Fresh(query.data.version, query.data.fields)
  BY DEF LInv
<1>4. Fresh(route.version, route.fields)
  BY <1>2 DEF Fresh
<1>5. /\ Kept(query.got.version, query.got.fields)
      /\ Kept(query.data.version, query.data.fields)
      /\ Kept(route.version, route.fields)
  BY <1>2, <1>3, <1>4, StaysFresh
<1>6. /\ query'.got \in {query.got, query.data, route}
      /\ query'.data \in {query.got, query.data}
  BY <1>1, QueryMoves, Fetched
<1>7. Fresh(query.got.version, query.got.fields)' /\ Fresh(query.data.version, query.data.fields)'
  BY <1>5, <1>6 DEF Fresh
<1>8. (req["save"].at = "sent" => Fresh(req["save"].version, req["save"].seen))'
  <2> SUFFICES ASSUME req'["save"].at = "sent"
               PROVE  Kept(req'["save"].version, req'["save"].seen)
    BY DEF Fresh
  <2>1. CASE /\ req["save"].at = "sent"
             /\ req'["save"].version = req["save"].version
             /\ req'["save"].seen = req["save"].seen
    <3>1. Fresh(req["save"].version, req["save"].seen)
      BY <2>1 DEF LInv
    <3>2. Kept(req["save"].version, req["save"].seen)
      BY <1>2, <3>1, StaysFresh
    <3> QED BY <2>1, <3>2
  <2>2. CASE /\ ContentShown
             /\ req'["save"].version = Data.version /\ req'["save"].seen = seed
    <3>1. seed = query.data.fields
      BY <2>2 DEF LInv, Data
    <3> QED BY <1>5, <2>2, <3>1 DEF Data
  <2> QED BY <2>1, <2>2, SaveMoves
<1>9. (ContentShown => seed = Data.fields)'
  BY SeedMoves
<1> QED BY <1>7, <1>8, <1>9 DEF LInv

\* A save is answered and the route changes in one step only when it is accepted.
LEMMA AcceptedAsSeen ==
  ASSUME TInv, LInv, [Next]_vars, req'["save"].at # req["save"].at, route' # route
  PROVE  route.fields = req["save"].seen
<1>1. req \in [Kinds -> Requests]
  BY Typed
<1>2. CASE ServeUpdate
  <2>1. req["save"].at = "sent" /\ req["save"].version = route.version
    BY <1>2 DEF ServeUpdate, Keep
  <2> QED BY <2>1 DEF LInv, Fresh
<1>3. CASE ServeAdd \/ ServeEdit \/ ServeDelete \/ ServeReorder
  <2>1. req'["save"] = req["save"]
    BY <1>1, <1>3 DEF ServeAdd, ServeEdit, ServeDelete, ServeReorder, Answers, Kinds
  <2> QED BY <2>1
<1>4. CASE Elsewhere
  BY <1>4 DEF Elsewhere
<1>5. Serve \/ Elsewhere
  BY DEF Next, vars, Settle, DialogSettles, ReorderSettles, SaveSettles, ServeQuery,
     QuerySettles, Retry, Lose, Move, OpenDialog, CloseDialog, Geocoded, TypeName,
     SubmitAdd, SubmitEdit, HandleDeleteStop, Choose, Save
<1> QED BY <1>2, <1>3, <1>4, <1>5 DEF Serve

\* No admin overwrites assignments he has not seen: the version a save carries and the
\* assignments its form was filled from were read together, through every refetch,
\* conflict, lost answer and stop added meanwhile. (update_route, AssignmentCard)
THEOREM NoLostUpdate == Spec => SaveReplacesWhatWasSeen
<1>1. Init => TInv /\ LInv
  <2> SUFFICES ASSUME Init PROVE TInv /\ LInv
    OBVIOUS
  <2>1. TInv
    BY InitHolds
  <2>2. query.got = route /\ query.data = route /\ query.has = FALSE
        /\ req["save"].at # "sent"
    BY Blank DEF Init, Kinds
  <2>3. route.version \in Nat
    BY <2>1, Typed DEF Route
  <2> QED BY <2>1, <2>2, <2>3 DEF LInv, Fresh, ContentShown
<1>2. TInv /\ LInv /\ [Next]_vars => (TInv /\ LInv)'
  BY NextKeeps, LockKeeps
<1>3. TInv /\ LInv /\ [Next]_vars =>
        [req'["save"].at # req["save"].at /\ route' # route
           => route.fields = req["save"].seen]_vars
  BY AcceptedAsSeen
<1> QED BY <1>1, <1>2, <1>3, PTL DEF Spec, SaveReplacesWhatWasSeen

-----------------------------------------------------------------------------
(* What the page shows of its own writes *)

\* A request that was accepted is still to be followed by a fetch.
Due == \E k \in Kinds : req[k].at = "ok"

\* As long as nothing gets lost and nobody else writes, the page shows the route, is
\* about to, or has yet to fetch it.
WInv ==
  losses = 0 /\ ~foreign =>
    /\ query.ok = TRUE
    /\ \/ query.at = "sent" \/ Due
       \/ query.at = "replied" /\ query.got = route
       \/ query.at = "idle" /\ query.data = route

\* Nothing that was lost is found again.
LEMMA Losing ==
  ASSUME TInv, [Next]_vars
  PROVE  /\ losses' = 0 => losses = 0
         /\ ~foreign' => ~foreign
<1>1. losses \in Nat
  BY Typed, BoundsAssumption
<1>2. losses' \in {losses, losses + 1}
  BY DEF Next, vars, Serve, ServeUpdate, ServeAdd, ServeEdit, ServeDelete, ServeReorder,
     Answers, Settle, DialogSettles, ReorderSettles, SaveSettles, ServeQuery, QuerySettles,
     Retry, Lose, Elsewhere, Move, OpenDialog, CloseDialog, Geocoded, TypeName, SubmitAdd,
     SubmitEdit, HandleDeleteStop, Choose, Save
<1>3. foreign' = foreign \/ foreign' = TRUE
  BY DEF Next, vars, history, Serve, ServeUpdate, ServeAdd, ServeEdit, ServeDelete,
     ServeReorder, Settle, DialogSettles, ReorderSettles, SaveSettles, ServeQuery,
     QuerySettles, Retry, Lose, Elsewhere, Move, OpenDialog, CloseDialog, Geocoded,
     TypeName, SubmitAdd, SubmitEdit, HandleDeleteStop, Choose, Save
<1>4. losses' = 0 => losses = 0
  BY <1>1, <1>2
<1> QED BY <1>3, <1>4

\* An answer that is not lost: the route is as it was, or a fetch is due.
LEMMA ServeShows ==
  ASSUME TInv, Serve, losses' = losses
  PROVE  /\ query' = query
         /\ Due' \/ (route' = route /\ (Due => Due'))
<1> USE Typed DEF Kinds
<1>1. losses \in Nat
  BY BoundsAssumption
<1>2. ASSUME NEW k \in Kinds, NEW a \in {"ok", "error", "conflict"}, Answers(k, a)
      PROVE  /\ req'[k].at = a
             /\ \A j \in Kinds \ {k} : req'[j] = req[j]
  <2>1. req' = [req EXCEPT ![k] = [req[k] EXCEPT !.at = a]]
    BY <1>1, <1>2 DEF Answers
  <2>2. [req[k] EXCEPT !.at = a].at = a
    BY DEF Requests
  <2> QED BY <2>1, <2>2
<1>3. ASSUME NEW k \in Kinds, Answers(k, "ok") PROVE Due'
  BY <1>2, <1>3 DEF Due
<1>4. ASSUME NEW k \in Kinds, req[k].at = "sent", NEW a \in {"error", "conflict"},
             Answers(k, a), Keep
      PROVE  route' = route /\ (Due => Due')
  <2>1. \A j \in Kinds \ {k} : req'[j] = req[j]
    BY <1>2, <1>4
  <2> QED BY <1>4, <2>1 DEF Due, Keep
<1>5. query' = query
  BY DEF Serve, ServeUpdate, ServeAdd, ServeEdit, ServeDelete, ServeReorder
<1>6. PICK k \in Kinds :
        /\ req[k].at = "sent"
        /\ Answers(k, "ok") \/ (Keep /\ \E a \in {"error", "conflict"} : Answers(k, a))
  <2>1. CASE ServeUpdate
    BY <2>1 DEF ServeUpdate
  <2>2. CASE ServeAdd \/ ServeEdit \/ ServeDelete
    <3>1. /\ req["dialog"].at = "sent"
          /\ Answers("dialog", "ok") \/ (Keep /\ Answers("dialog", "error"))
      BY <2>2 DEF ServeAdd, ServeEdit, ServeDelete
    <3> QED BY <3>1
  <2>3. CASE ServeReorder
    BY <2>3 DEF ServeReorder
  <2> QED BY <2>1, <2>2, <2>3 DEF Serve
<1> QED BY <1>3, <1>4, <1>5, <1>6

\* A fetch is sent when a request that was accepted is forgotten.
LEMMA SettleShows ==
  ASSUME TInv, Settle
  PROVE  route' = route /\ (query' = Fetch \/ (query' = query /\ (Due => Due')))
<1> USE Typed DEF Kinds
<1>1. route' = route
  BY DEF Settle, DialogSettles, ReorderSettles, SaveSettles
<1>2. ASSUME NEW k \in Kinds, \A j \in Kinds \ {k} : req'[j] = req[j], req[k].at # "ok"
      PROVE  Due => Due'
  BY <1>2 DEF Due
<1>3. CASE DialogSettles
  <2>1. /\ req["dialog"].at = "ok" => query' = Fetch
        /\ query' = query \/ query' = Fetch
        /\ \A j \in Kinds \ {"dialog"} : req'[j] = req[j]
    BY <1>3 DEF DialogSettles
  <2> QED BY <1>1, <1>2, <2>1
<1>4. CASE ReorderSettles
  <2>1. /\ req["reorder"].at = "ok" => query' = Fetch
        /\ query' = query \/ query' = Fetch
        /\ \A j \in Kinds \ {"reorder"} : req'[j] = req[j]
    BY <1>4 DEF ReorderSettles
  <2> QED BY <1>1, <1>2, <2>1
<1>5. CASE SaveSettles
  <2>1. /\ req["save"].at = "ok" => query' = Fetch
        /\ query' = query \/ query' = Fetch
        /\ \A j \in Kinds \ {"save"} : req'[j] = req[j]
    BY <1>5 DEF SaveSettles
  <2> QED BY <1>1, <1>2, <2>1
<1> QED BY <1>3, <1>4, <1>5 DEF Settle

\* What a send leaves of the requests that are answered.
LEMMA SendShows ==
  ASSUME TInv, NEW k \in Kinds, NEW r, Send(k, r)
  PROVE  Due => Due'
<1>1. req[k].at = "none" /\ req' = [req EXCEPT ![k] = r] /\ req \in [Kinds -> Requests]
  BY Typed DEF Send
<1>2. \A j \in Kinds : req[j].at = "ok" => req'[j] = req[j]
  BY <1>1
<1> QED BY <1>2 DEF Due

LEMMA ShownKeeps ==
  ASSUME TInv, WInv, [Next]_vars
  PROVE  WInv'
<1> SUFFICES ASSUME losses' = 0, ~foreign'
             PROVE  /\ query'.ok = TRUE
                    /\ \/ query'.at = "sent" \/ Due'
                       \/ query'.at = "replied" /\ query'.got = route'
                       \/ query'.at = "idle" /\ query'.data = route'
  BY DEF WInv
<1>1. losses = 0 /\ ~foreign
  BY Losing
<1>2. /\ query.ok = TRUE
      /\ \/ query.at = "sent" \/ Due
         \/ query.at = "replied" /\ query.got = route
         \/ query.at = "idle" /\ query.data = route
  BY <1>1 DEF WInv
<1>3. query \in Queries /\ req \in [Kinds -> Requests]
  BY Typed
<1>4. Fetch.at = "sent" /\ Fetch.ok = TRUE
  BY <1>3 DEF Fetch, Queries
<1>5. CASE Serve
  BY <1>1, <1>2, <1>5, ServeShows
<1>6. CASE Settle
  BY <1>2, <1>4, <1>6, SettleShows
<1>7. CASE Retry
  BY <1>4, <1>7 DEF Retry
<1>8. CASE ServeQuery
  <2>1. query' = [query EXCEPT !.at = "replied", !.got = route] /\ route' = route
    BY <1>1, <1>8 DEF ServeQuery
  <2> QED BY <1>2, <1>3, <2>1 DEF Queries
<1>9. CASE QuerySettles
  <2>1. query' = [query EXCEPT !.at = "idle", !.has = TRUE, !.data = query.got, !.error = FALSE]
        /\ query.at = "replied" /\ route' = route
    BY <1>2, <1>9 DEF QuerySettles
  <2>2. query'.ok = TRUE /\ query'.at = "idle" /\ query'.data = query.got
    BY <1>2, <1>3, <2>1 DEF Queries
  <2>3. Due => Due'
    <3>1. CASE ContentShown'
      <4>1. \A j \in Kinds : req[j].at = "ok" => req'[j] = req[j]
        BY <1>3, <1>9, <3>1 DEF QuerySettles
      <4> QED BY <4>1 DEF Due
    <3>2. CASE ~ContentShown'
      <4>1. req' = [k \in Kinds |-> IF req[k].at = "refetch" THEN NoReq
                                    ELSE [req[k] EXCEPT !.mine = FALSE]]
        BY <1>9, <3>2 DEF QuerySettles
      <4>2. \A k \in Kinds : [req[k] EXCEPT !.mine = FALSE].at = req[k].at
        BY <1>3 DEF Requests
      <4> QED BY <4>1, <4>2 DEF Due
    <3> QED BY <3>1, <3>2
  <2> QED BY <1>2, <2>1, <2>2, <2>3
<1>10. CASE (\E k \in Kinds : Lose(k)) \/ Elsewhere
  <2>1. ~\E k \in Kinds : Lose(k)
    BY <1>1 DEF Lose
  <2>2. ~Elsewhere
    BY DEF Elsewhere
  <2> QED BY <1>10, <2>1, <2>2
<1>11. CASE query' = query /\ route' = route /\ (Due => Due')
  BY <1>2, <1>11
<1>12. CASE \/ \E s, t \in StopIds : Move(s, t)
            \/ \E d \in Details : SubmitAdd(d) \/ SubmitEdit(d)
            \/ HandleDeleteStop \/ Save
  <2>1. query' = query /\ route' = route
    BY <1>12 DEF Move, SubmitAdd, SubmitEdit, HandleDeleteStop, Save
  <2>2. Due => Due'
    <3> USE DEF Kinds
    <3>1. ASSUME NEW s \in StopIds, NEW t \in StopIds, Move(s, t) PROVE Due => Due'
      BY <3>1, SendShows DEF Move
    <3>2. ASSUME NEW d \in Details, SubmitAdd(d) PROVE Due => Due'
      BY <3>2, SendShows DEF SubmitAdd
    <3>3. ASSUME NEW d \in Details, SubmitEdit(d) PROVE Due => Due'
      BY <3>3, SendShows DEF SubmitEdit
    <3>4. CASE HandleDeleteStop
      BY <3>4, SendShows DEF HandleDeleteStop
    <3>5. CASE Save
      BY <3>5, SendShows DEF Save
    <3> QED BY <1>12, <3>1, <3>2, <3>3, <3>4, <3>5
  <2> QED BY <1>11, <2>1, <2>2
<1>13. CASE \/ \E kind \in Dialogs \ {"none"}, s \in StopIds : OpenDialog(kind, s)
            \/ CloseDialog
            \/ \E b \in BOOLEAN : Geocoded(b) \/ TypeName(b)
            \/ \E f \in Fields, v \in Values : Choose(f, v)
            \/ UNCHANGED vars
  <2>1. query' = query /\ route' = route /\ req' = req
    BY <1>13 DEF OpenDialog, CloseDialog, Geocoded, TypeName, Choose, vars
  <2> QED BY <1>11, <2>1 DEF Due
<1> QED BY <1>5, <1>6, <1>7, <1>8, <1>9, <1>10, <1>12, <1>13 DEF Next

\* When the page is at rest it shows the route with all its own writes, whichever of its
\* requests overlapped and however answers and refetches were ordered. (invalidate)
THEOREM OwnWritesShown == Spec => []PageShowsOwnWrites
<1>1. Init => TInv /\ WInv
  <2> SUFFICES ASSUME Init PROVE TInv /\ WInv
    OBVIOUS
  <2>1. query.at = "sent" /\ query.ok = TRUE
    BY DEF Init
  <2> QED BY <2>1, InitHolds DEF WInv
<1>2. TInv /\ WInv /\ [Next]_vars => (TInv /\ WInv)'
  BY NextKeeps, ShownKeeps
<1>3. TInv /\ WInv => PageShowsOwnWrites
  BY DEF WInv, PageShowsOwnWrites, AtRest, Data, Due
<1> QED BY <1>1, <1>2, <1>3, PTL DEF Spec

-----------------------------------------------------------------------------
(* What the form shows *)

\* As long as nothing gets lost, nobody else writes, and the admin waits for the page
\* to change the form: a save in flight carries what the form shows, and assignments
\* that are not those shown are on their way to the form only if they are.
CInv ==
  losses = 0 /\ ~foreign =>
    /\ query.ok = TRUE /\ query.error = FALSE
    /\ form = chosen
    /\ ~query.has => chosen = Data.fields
    /\ req["save"].at # "none" => req["save"].fields = chosen /\ req["save"].mine
    /\ route.fields \in {Data.fields, chosen}
    /\ query.at = "replied" => query.got.fields \in {Data.fields, route.fields}
    /\ \/ query.at = "sent" \/ req["save"].at = "ok"
       \/ query.at = "replied" /\ query.got.fields = route.fields
       \/ query.at = "idle" /\ Data.fields = route.fields

\* A step that leaves the form and the assignments, and fetches what a save changed.
LEMMA FormLeft ==
  ASSUME TInv, CInv, losses = 0, ~foreign,
         form' = form, chosen' = chosen, route'.fields = route.fields,
         req'["save"].at # "none" =>
           /\ req["save"].at # "none"
           /\ req'["save"].fields = req["save"].fields /\ req'["save"].mine = req["save"].mine,
         query' = Fetch \/ (query' = query /\ (req["save"].at = "ok" => req'["save"].at = "ok"))
  PROVE  CInv'
<1>1. query \in Queries
  BY Typed
<1>2. CASE query' = query /\ (req["save"].at = "ok" => req'["save"].at = "ok")
  BY <1>2 DEF CInv, Data
<1>3. CASE query' = Fetch
  <2>1. /\ query'.at = "sent" /\ query'.ok = TRUE /\ query'.error = query.error
        /\ query'.has = query.has /\ query'.data = query.data
    BY <1>1, <1>3 DEF Fetch, Queries
  <2> QED BY <2>1 DEF CInv, Data
<1> QED BY <1>2, <1>3

LEMMA ServeForms ==
  ASSUME TInv, CInv, Serve, losses = 0, losses' = 0, ~foreign
  PROVE  CInv'
<1> USE Typed DEF Kinds
<1>1. losses' # losses + 1
  BY BoundsAssumption
<1>2. query' = query /\ form' = form /\ chosen' = chosen
  BY DEF Serve, ServeUpdate, ServeAdd, ServeEdit, ServeDelete, ServeReorder, local, history
<1>3. CASE ServeAdd \/ ServeEdit \/ ServeDelete \/ ServeReorder
  <2>1. req'["save"] = req["save"]
    BY <1>3 DEF ServeAdd, ServeEdit, ServeDelete, ServeReorder, Answers
  <2>2. route'.fields = route.fields
    BY <1>3 DEF ServeAdd, ServeEdit, ServeDelete, ServeReorder, Write, Keep, Route
  <2> QED BY <1>2, <2>1, <2>2, FormLeft
<1>4. ASSUME NEW a, Answers("save", a)
      PROVE  /\ req'["save"].at = a
             /\ req'["save"].fields = req["save"].fields /\ req'["save"].mine = req["save"].mine
  <2>1. req'["save"] = [req["save"] EXCEPT !.at = a] /\ req["save"] \in Requests
    BY <1>1, <1>4 DEF Answers
  <2> QED BY <2>1 DEF Requests
<1>5. CASE ServeUpdate /\ req["save"].version = route.version
  <2>1. route'.fields = req["save"].fields
    BY <1>5 DEF ServeUpdate, Write, Route
  <2>2. Answers("save", "ok") /\ req["save"].at = "sent"
    BY <1>5 DEF ServeUpdate
  <2> QED BY <1>2, <1>4, <2>1, <2>2 DEF CInv, Data
<1>6. CASE ServeUpdate /\ req["save"].version # route.version
  <2>1. Answers("save", "conflict") /\ req["save"].at = "sent" /\ route' = route
    BY <1>6 DEF ServeUpdate, Keep
  <2> QED BY <1>2, <1>4, <2>1, FormLeft
<1> QED BY <1>3, <1>5, <1>6 DEF Serve

LEMMA SettleForms ==
  ASSUME TInv, CInv, Settle, losses = 0, ~foreign
  PROVE  CInv'
<1> USE Typed DEF Kinds
<1>1. form' = form /\ chosen' = chosen /\ route' = route
  BY DEF Settle, DialogSettles, ReorderSettles, SaveSettles, local, history
<1>2. CASE DialogSettles \/ ReorderSettles
  <2>1. req'["save"] = req["save"] /\ query' \in {query, Fetch}
    BY <1>2 DEF DialogSettles, ReorderSettles
  <2> QED BY <1>1, <2>1, FormLeft
<1>3. CASE SaveSettles
  <2>1. req["save"] \in Requests /\ req["save"].at # "none"
    BY <1>3 DEF SaveSettles
  <2>2. req'["save"] \in {[req["save"] EXCEPT !.at = "refetch"], NoReq}
    BY <1>3 DEF SaveSettles
  <2>3. req'["save"].at # "none" => /\ req'["save"].fields = req["save"].fields
                                    /\ req'["save"].mine = req["save"].mine
    BY <2>1, <2>2, Blank DEF Requests
  <2>4. query' = Fetch \/ (query' = query /\ req["save"].at # "ok")
    BY <1>3 DEF SaveSettles
  <2> QED BY <1>1, <2>1, <2>3, <2>4, FormLeft
<1> QED BY <1>2, <1>3 DEF Settle

\* The form is filled only with what it shows.
LEMMA QueryForms ==
  ASSUME TInv, CInv, ServeQuery \/ QuerySettles, losses = 0, losses' = 0, ~foreign
  PROVE  CInv'
<1> USE Typed DEF Kinds
<1>1. query \in Queries /\ losses' # losses + 1
  BY BoundsAssumption
<1>2. route' = route /\ chosen' = chosen
  BY DEF ServeQuery, QuerySettles, history
<1>3. CASE ServeQuery
  <2>1. query' = [query EXCEPT !.at = "replied", !.got = route]
    BY <1>1, <1>3 DEF ServeQuery
  <2>2. /\ query'.at = "replied" /\ query'.got = route /\ query'.ok = query.ok
        /\ query'.error = query.error /\ query'.has = query.has /\ query'.data = query.data
    BY <1>1, <2>1 DEF Queries
  <2>3. form' = form /\ req' = req
    BY <1>3 DEF ServeQuery, local
  <2> QED BY <1>2, <2>2, <2>3 DEF CInv, Data
<1>4. CASE QuerySettles
  <2>1. /\ query.ok = TRUE /\ query.error = FALSE /\ query.at = "replied" /\ form = chosen
        /\ query.got.fields \in {Data.fields, route.fields} /\ route.fields \in {Data.fields, chosen}
        /\ ~query.has => chosen = Data.fields
    BY <1>4 DEF CInv, QuerySettles
  <2>2. query' = [query EXCEPT !.at = "idle", !.has = TRUE, !.data = query.got, !.error = FALSE]
    BY <1>4, <2>1 DEF QuerySettles
  <2>3. /\ query'.at = "idle" /\ query'.has = TRUE /\ query'.data = query.got
        /\ query'.error = FALSE /\ query'.ok = TRUE
    BY <1>1, <2>1, <2>2 DEF Queries
  <2>4. ContentShown' /\ Data' = query.got
    BY <2>3 DEF ContentShown, Data
  <2>5. req'["save"] = req["save"] \/ (req["save"].at = "refetch" /\ req'["save"] = NoReq)
    BY <1>4, <2>4 DEF QuerySettles
  <2>6. form' = chosen
    <3>1. CASE Reseeds
      <4>1. form' = query.got.fields
        BY <1>4, <2>3, <3>1 DEF QuerySettles
      <4>2. ~query.has \/ query.got.fields # Data.fields
        BY <2>1, <2>4, <3>1 DEF Reseeds, ContentShown
      <4> QED BY <2>1, <4>1, <4>2
    <3>2. CASE ~Reseeds
      BY <1>4, <2>1, <3>2 DEF QuerySettles
    <3> QED BY <3>1, <3>2
  <2>7. route.fields \in {query.got.fields, chosen}
    BY <2>1
  <2>8. req'["save"].at # "none" => req'["save"].fields = chosen /\ req'["save"].mine
    BY <2>5, Blank DEF CInv
  <2>9. req'["save"].at = "ok" \/ query.got.fields = route.fields
    BY <2>1, <2>5 DEF CInv
  <2> QED BY <1>2, <2>3, <2>4, <2>6, <2>7, <2>8, <2>9 DEF CInv
<1> QED BY <1>3, <1>4

\* The admin saves what the form shows, and changes it once nothing is under way.
LEMMA ChoiceForms ==
  ASSUME ~Impatient, TInv, CInv, Save \/ \E f \in Fields, v \in Values : Choose(f, v),
         losses = 0, ~foreign
  PROVE  CInv'
<1> USE Typed DEF Kinds
<1>1. CASE Save
  <2> DEFINE r == [Request EXCEPT !.fields = form, !.version = Data.version, !.seen = seed]
  <2>1. req' = [req EXCEPT !["save"] = r] /\ req["save"].at = "none"
    BY <1>1 DEF Save, Send
  <2>2. r.fields = form /\ r.mine /\ r.at = "sent"
    BY DEF Request, NoReq
  <2>3. form' = form /\ chosen' = chosen /\ query' = query /\ route' = route
    BY <1>1 DEF Save, local, history
  <2> HIDE DEF r
  <2>4. req'["save"].fields = form /\ req'["save"].mine /\ req'["save"].at = "sent"
    BY <2>1, <2>2
  <2> QED BY <2>1, <2>3, <2>4 DEF CInv, Data
<1>2. ASSUME NEW f \in Fields, NEW v \in Values, Choose(f, v) PROVE CInv'
  <2>1. /\ form' = [form EXCEPT ![f] = v] /\ chosen' = [chosen EXCEPT ![f] = v]
        /\ route' = route /\ query' = query /\ req' = req
        /\ ~Pending("save") /\ query.at = "idle" /\ ContentShown
    BY <1>2 DEF Choose, Usable
  <2>2. /\ req["save"].at = "none" /\ query.has /\ Data.fields = route.fields /\ form = chosen
        /\ query.ok = TRUE /\ query.error = FALSE
    BY <2>1 DEF CInv, Pending, ContentShown
  <2> QED BY <2>1, <2>2 DEF CInv, Data
<1> QED BY <1>1, <1>2

LEMMA FormsKeep ==
  ASSUME ~Impatient, TInv, CInv, [Next]_vars
  PROVE  CInv'
<1> SUFFICES ASSUME losses' = 0, ~foreign' PROVE CInv'
  BY DEF CInv
<1> USE Typed DEF Kinds
<1>1. losses = 0 /\ ~foreign
  BY Losing
<1>2. CASE Serve
  BY <1>1, <1>2, ServeForms
<1>3. CASE Settle
  BY <1>1, <1>3, SettleForms
<1>4. CASE ServeQuery \/ QuerySettles
  BY <1>1, <1>4, QueryForms
<1>5. CASE Save \/ \E f \in Fields, v \in Values : Choose(f, v)
  BY <1>1, <1>5, ChoiceForms
<1>6. ~(\E k \in Kinds : Lose(k)) /\ ~Elsewhere
  <2>1. ~\E k \in Kinds : Lose(k)
    BY <1>1 DEF Lose
  <2>2. ~Elsewhere
    BY DEF Elsewhere
  <2> QED BY <2>1, <2>2
<1>7. CASE \/ Retry \/ \E s, t \in StopIds : Move(s, t)
           \/ \E kind \in Dialogs \ {"none"}, s \in StopIds : OpenDialog(kind, s)
           \/ CloseDialog
           \/ \E b \in BOOLEAN : Geocoded(b) \/ TypeName(b)
           \/ \E d \in Details : SubmitAdd(d) \/ SubmitEdit(d)
           \/ HandleDeleteStop \/ UNCHANGED vars
  <2>1. req'["save"] = req["save"]
    BY <1>7 DEF Retry, Move, OpenDialog, CloseDialog, Geocoded, TypeName, SubmitAdd, SubmitEdit,
       HandleDeleteStop, Send, vars
  <2>2. form' = form /\ chosen' = chosen /\ route' = route /\ query' \in {query, Fetch}
    BY <1>7 DEF Retry, Move, OpenDialog, CloseDialog, Geocoded, TypeName, SubmitAdd, SubmitEdit,
       HandleDeleteStop, vars, local, history
  <2> QED BY <1>1, <2>1, <2>2, FormLeft
<1> QED BY <1>2, <1>3, <1>4, <1>5, <1>6, <1>7 DEF Next

\* If the admin changes the form only while nothing is under way: no refetch that
\* follows one of the page's own writes takes an unsaved choice away, whatever
\* conflicts and overlaps there are. (the effect of AssignmentCard)
THEOREM ChoiceShown ==
  ASSUME ~Impatient
  PROVE  Spec => []FormShowsChoice
<1>1. Init => TInv /\ CInv
  <2> SUFFICES ASSUME Init PROVE TInv /\ CInv
    OBVIOUS
  <2>1. /\ query.at = "sent" /\ query.ok = TRUE /\ query.error = FALSE /\ query.data = route
        /\ route.fields = Fill /\ form = Fill /\ chosen = Fill /\ req["save"] = NoReq
    BY DEF Init, Kinds
  <2> QED BY <2>1, InitHolds, Blank DEF CInv, Data
<1>2. TInv /\ CInv /\ [Next]_vars => (TInv /\ CInv)'
  BY NextKeeps, FormsKeep
<1>3. TInv /\ CInv => FormShowsChoice
  BY DEF CInv, FormShowsChoice
<1> QED BY <1>1, <1>2, <1>3, PTL DEF Spec

=============================================================================
