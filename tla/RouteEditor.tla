---------------------------- MODULE RouteEditor ----------------------------
(***************************************************************************)
(* The admin's route editor (frontend/src/features/admin/routes/           *)
(* RouteEditorPage.tsx): the query of one route, the form of its           *)
(* assignments, the dialogs that add, edit and delete a stop, the arrows   *)
(* that reorder them; against the route of the server, which others change *)
(* too.  The server takes one request at a time.                           *)
(*                                                                         *)
(* A query in flight is cancelled and started again when it is             *)
(* invalidated.  If it fails, the page shows an error instead of its       *)
(* content: the card and the dialogs are unmounted and lose their state,   *)
(* while the page remembers which dialog was open.                         *)
(***************************************************************************)
EXTENDS Naturals, FiniteSets

CONSTANTS
  Fields,       \* what AssignmentCard edits: vehicle_id, driver_id, schedule_type
  Values,       \* their values
  StopIds,
  InitStops,    \* the stops there are at first
  Details,      \* name, address and arrival time of a stop, as one value
  MaxWrites,    \* accepted changes of the route (bound)
  MaxLosses,    \* requests or answers the network may lose (bound)
  Impatient     \* whether the admin edits the form while it is being saved

ASSUME StopsAssumption ==
  /\ IsFiniteSet(StopIds) /\ InitStops \subseteq StopIds /\ InitStops # {}
ASSUME DetailsAssumption == Details # {} /\ Values # {}
ASSUME BoundsAssumption ==
  MaxWrites \in Nat /\ MaxLosses \in Nat /\ Impatient \in BOOLEAN

VARIABLES
  route,        \* routes and route_stops: version, fields, stops, stops deleted
  writes, losses,
  query,        \* the query of the route
  form,         \* AssignmentCard: what its selects show
  dialog,       \* the dialog open on the page, with its state
  req,          \* the request of each kind in flight (one of a kind: bound)
  chosen,       \* history: what the admin last chose, by field
  seed,         \* history: what the form was last filled from
  foreign       \* history: somebody else has changed the route

local == <<form, dialog>>
history == <<chosen, seed, foreign>>
vars == <<route, writes, losses, query, local, req, history>>

Orders == 0..(Cardinality(StopIds) - 1)
Stop == [order : Orders, detail : Details]
SomeDetail == CHOOSE d \in Details : TRUE
SomeStop == CHOOSE s \in InitStops : TRUE
Fill == [f \in Fields |-> CHOOSE v \in Values : TRUE]

Kinds == {"reorder", "dialog", "save"}
Dialogs == {"none", "add", "edit", "delete"}

NoDialog == [kind |-> "none", stop |-> SomeStop, named |-> FALSE, looking |-> FALSE,
             busy |-> FALSE]
\* order: the stops sent, with their new places; version and seen: of the route the
\* form was filled from; mine: the component that sent it is still mounted
NoReq == [at |-> "none", kind |-> "none", stop |-> SomeStop, detail |-> SomeDetail,
          place |-> 0, order |-> [s \in {} |-> 0], fields |-> Fill, version |-> 0, seen |-> Fill,
          mine |-> FALSE]

Route == [version : 0..MaxWrites, fields : [Fields -> Values],
          stops : UNION {[S -> Stop] : S \in SUBSET StopIds}, gone : SUBSET StopIds]
Requests == [at : {"none", "sent", "ok", "error", "conflict", "refetch"}, kind : Dialogs,
             stop : StopIds, detail : Details, place : Orders,
             order : UNION {[S -> Orders] : S \in SUBSET StopIds},
             fields : [Fields -> Values], version : 0..MaxWrites, seen : [Fields -> Values],
             mine : BOOLEAN]

\* Types; places that are asked for are places there are, and no more is written than
\* the bound allows.
TypeOK ==
  /\ route \in Route
  /\ writes \in 0..MaxWrites /\ losses \in 0..MaxLosses
  /\ query \in [at : {"idle", "sent", "replied"}, got : Route, ok : BOOLEAN,
                has : BOOLEAN, data : Route, error : BOOLEAN]
  /\ form \in [Fields -> Values]
  /\ dialog \in [kind : Dialogs, stop : StopIds, named : BOOLEAN, looking : BOOLEAN,
                 busy : BOOLEAN]
  /\ req \in [Kinds -> Requests]
  /\ chosen \in [Fields -> Values] /\ seed \in [Fields -> Values]
  /\ foreign \in BOOLEAN

-----------------------------------------------------------------------------
(* The server *)

Unused == StopIds \ (DOMAIN route.stops \cup route.gone)
OrdersOf(stops) == {stops[s].order : s \in DOMAIN stops}
New(stops, s, order, detail) ==
  [x \in DOMAIN stops \cup {s} |->
     IF x = s THEN [order |-> order, detail |-> detail] ELSE stops[x]]
Without(stops, s) == [x \in DOMAIN stops \ {s} |-> stops[x]]
Renumbered(stops, order) == [x \in DOMAIN stops |-> [stops[x] EXCEPT !.order = order[x]]]

\* Nothing is sent that the bound leaves no room to accept.
Room == writes + Cardinality({k \in Kinds : req[k].at = "sent"}) < MaxWrites
Write(r) == route' = r /\ writes' = writes + 1
Keep == route' = route /\ writes' = writes

\* Requests and answers get lost on either way.
Answers(k, at) ==
  \/ req' = [req EXCEPT ![k].at = at] /\ losses' = losses
  \/ /\ losses < MaxLosses /\ losses' = losses + 1
     /\ req' = [req EXCEPT ![k].at = "error"]

\* update_route: the optimistic lock
ServeUpdate ==
  /\ req["save"].at = "sent"
  /\ IF req["save"].version = route.version
     THEN /\ Write([route EXCEPT !.version = @ + 1, !.fields = req["save"].fields])
          /\ Answers("save", "ok")
     ELSE Keep /\ Answers("save", "conflict")
  /\ UNCHANGED <<query, local, history>>

\* add_stop: UNIQUE (route_id, stop_order)
ServeAdd ==
  /\ req["dialog"].at = "sent" /\ req["dialog"].kind = "add"
  /\ IF req["dialog"].place \in OrdersOf(route.stops)
     THEN Keep /\ Answers("dialog", "error")
     ELSE \E s \in Unused :
            /\ Write([route EXCEPT !.stops =
                        New(@, s, req["dialog"].place, req["dialog"].detail)])
            /\ Answers("dialog", "ok")
  /\ UNCHANGED <<query, local, history>>

ServeEdit ==
  /\ req["dialog"].at = "sent" /\ req["dialog"].kind = "edit"
  /\ IF req["dialog"].stop \notin DOMAIN route.stops
     THEN Keep /\ Answers("dialog", "error")
     ELSE /\ Write([route EXCEPT !.stops[req["dialog"].stop].detail = req["dialog"].detail])
          /\ Answers("dialog", "ok")
  /\ UNCHANGED <<query, local, history>>

\* delete_stop: the others keep their order.
ServeDelete ==
  /\ req["dialog"].at = "sent" /\ req["dialog"].kind = "delete"
  /\ IF req["dialog"].stop \notin DOMAIN route.stops
     THEN Keep /\ Answers("dialog", "error")
     ELSE /\ Write([route EXCEPT !.stops = Without(@, req["dialog"].stop),
                                 !.gone = @ \cup {req["dialog"].stop}])
          /\ Answers("dialog", "ok")
  /\ UNCHANGED <<query, local, history>>

\* reorder_stops: all the stops of the route, and no other
ServeReorder ==
  /\ req["reorder"].at = "sent"
  /\ IF DOMAIN req["reorder"].order = DOMAIN route.stops
     THEN /\ Write([route EXCEPT !.stops = Renumbered(@, req["reorder"].order)])
          /\ Answers("reorder", "ok")
     ELSE Keep /\ Answers("reorder", "error")
  /\ UNCHANGED <<query, local, history>>

\* get_route; a request of any kind may also get lost before it is served.
ServeQuery ==
  /\ query.at = "sent"
  /\ \/ query' = [query EXCEPT !.at = "replied", !.got = route] /\ losses' = losses
     \/ /\ losses < MaxLosses /\ losses' = losses + 1
        /\ query' = [query EXCEPT !.at = "replied", !.ok = FALSE]
  /\ UNCHANGED <<route, writes, local, req, history>>

Lose(k) ==
  /\ req[k].at = "sent"
  /\ losses < MaxLosses /\ losses' = losses + 1
  /\ req' = [req EXCEPT ![k].at = "error"]
  /\ UNCHANGED <<route, writes, query, local, history>>

\* Another admin
Elsewhere ==
  /\ Room
  /\ \/ \E f \in Fields, v \in Values : /\ v # route.fields[f]
                                        /\ Write([route EXCEPT !.version = @ + 1, !.fields[f] = v])
     \/ \E s \in DOMAIN route.stops :
          Write([route EXCEPT !.stops = Without(@, s), !.gone = @ \cup {s}])
  /\ foreign' = TRUE
  /\ UNCHANGED <<losses, query, local, req, chosen, seed>>

-----------------------------------------------------------------------------
(* RouteEditorPage *)

Fetch == [query EXCEPT !.at = "sent", !.got = query.data, !.ok = TRUE]

Data == query.data
ContentShown == query.has /\ ~query.error
Place(s) == Cardinality({x \in DOMAIN Data.stops : Data.stops[x].order < Data.stops[s].order})

\* Faults: the effect of the form depends on the whole route; or on nothing.
ReseedsAlways == ContentShown'
ReseedsOnMount == ContentShown' /\ ~ContentShown

\* The card is mounted, or another admin's assignments arrive: the form is
\* filled from the route.
Reseeds == ContentShown' /\ (~ContentShown \/ Data'.fields # Data.fields)

QuerySettles ==
  /\ query.at = "replied"
  /\ query' = IF query.ok
              THEN [query EXCEPT !.at = "idle", !.has = TRUE, !.data = query.got, !.error = FALSE]
              ELSE [query EXCEPT !.at = "idle", !.got = query.data, !.ok = TRUE, !.error = TRUE]
  /\ IF Reseeds THEN form' = query'.data.fields /\ seed' = query'.data.fields
     ELSE UNCHANGED <<form, seed>>
  /\ IF ContentShown'
     THEN /\ req' = IF req["save"].at = "refetch" THEN [req EXCEPT !["save"] = NoReq] ELSE req
          /\ UNCHANGED dialog
     ELSE /\ req' = [k \in Kinds |-> IF req[k].at = "refetch" THEN NoReq
                                     ELSE [req[k] EXCEPT !.mine = FALSE]]
          /\ dialog' = [dialog EXCEPT !.named = FALSE, !.busy = FALSE,
                                      !.looking = (dialog.kind = "add")]
  /\ UNCHANGED <<route, writes, losses, chosen, foreign>>

\* ErrorState
Retry ==
  /\ ~ContentShown /\ query.at = "idle"
  /\ query' = Fetch
  /\ UNCHANGED <<route, writes, losses, local, req, history>>

Usable == ContentShown /\ dialog.kind = "none"
Pending(k) == req[k].at # "none" /\ req[k].mine
Send(k, r) == req[k].at = "none" /\ Room /\ req' = [req EXCEPT ![k] = r]
Request == [NoReq EXCEPT !.at = "sent", !.mine = TRUE]

\* Fault: places are counted from 1.
MoveFromOne(s, t) ==
  /\ Usable
  /\ {s, t} \subseteq DOMAIN Data.stops /\ Place(t) = Place(s) + 1
  /\ Send("reorder", [Request EXCEPT !.order =
       [x \in DOMAIN Data.stops |->
          1 + IF x = s THEN Place(t) ELSE IF x = t THEN Place(s) ELSE Place(x)]])
  /\ UNCHANGED <<route, writes, losses, query, local, history>>

\* The arrows: a stop and the next one change places, all stops are sent.
Move(s, t) ==
  /\ Usable
  /\ {s, t} \subseteq DOMAIN Data.stops /\ Place(t) = Place(s) + 1
  /\ Send("reorder", [Request EXCEPT !.order =
       [x \in DOMAIN Data.stops |-> IF x = s THEN Place(t) ELSE IF x = t THEN Place(s) ELSE Place(x)]])
  /\ UNCHANGED <<route, writes, losses, query, local, history>>

\* The pencil and the bin of a stop, and a click on the map
OpenDialog(kind, s) ==
  /\ Usable
  /\ kind # "add" => s \in DOMAIN Data.stops
  /\ kind = "add" => s = SomeStop
  /\ dialog' = [NoDialog EXCEPT !.kind = kind, !.stop = s, !.named = (kind # "add"),
                                !.looking = (kind = "add")]
  /\ UNCHANGED <<route, writes, losses, query, form, req, history>>

CloseDialog ==
  /\ ContentShown /\ dialog.kind # "none" /\ ~dialog.busy
  /\ dialog' = NoDialog
  /\ UNCHANGED <<route, writes, losses, query, form, req, history>>

-----------------------------------------------------------------------------
(* AddStopDialog, EditStopDialog, ConfirmDialog *)

\* The address of the point is found, or is not; a name typed meanwhile is replaced.
Geocoded(found) ==
  /\ ContentShown /\ dialog.looking
  /\ dialog' = [dialog EXCEPT !.looking = FALSE, !.named = found \/ @]
  /\ UNCHANGED <<route, writes, losses, query, form, req, history>>

TypeName(named) ==
  /\ ContentShown /\ dialog.kind = "add" /\ dialog.named # named
  /\ dialog' = [dialog EXCEPT !.named = named]
  /\ UNCHANGED <<route, writes, losses, query, form, req, history>>

\* A dialog is submitted for the stop it was opened with; a new stop comes after
\* the stops shown now.
NextOrder == Cardinality(DOMAIN Data.stops)

SubmitAdd(d) ==
  /\ ContentShown /\ dialog.kind = "add" /\ dialog.named /\ ~dialog.busy
  /\ Unused # {}   \* bound
  /\ Send("dialog", [Request EXCEPT !.kind = "add", !.detail = d, !.place = NextOrder])
  /\ dialog' = [dialog EXCEPT !.busy = TRUE]
  /\ UNCHANGED <<route, writes, losses, query, form, history>>

SubmitEdit(d) ==
  /\ ContentShown /\ dialog.kind = "edit" /\ dialog.named /\ ~dialog.busy
  /\ Send("dialog", [Request EXCEPT !.kind = "edit", !.stop = dialog.stop, !.detail = d])
  /\ dialog' = [dialog EXCEPT !.busy = TRUE]
  /\ UNCHANGED <<route, writes, losses, query, form, history>>

HandleDeleteStop ==
  /\ ContentShown /\ dialog.kind = "delete" /\ ~dialog.busy
  /\ Send("dialog", [Request EXCEPT !.kind = "delete", !.stop = dialog.stop])
  /\ dialog' = [dialog EXCEPT !.busy = TRUE]
  /\ UNCHANGED <<route, writes, losses, query, form, history>>

\* On success the route is fetched again and the dialog closes; an error is shown.
DialogSettles ==
  /\ req["dialog"].at \in {"ok", "error"}
  /\ req' = [req EXCEPT !["dialog"] = NoReq]
  /\ IF req["dialog"].at = "ok"
     THEN query' = Fetch /\ dialog' = NoDialog
     ELSE query' = query /\ dialog' = [dialog EXCEPT !.busy = FALSE]
  /\ UNCHANGED <<route, writes, losses, form, history>>

\* Fault: the new order is not fetched.
ReorderForgets ==
  /\ req["reorder"].at \in {"ok", "error"}
  /\ req' = [req EXCEPT !["reorder"] = NoReq]
  /\ UNCHANGED <<route, writes, losses, query, local, history>>

ReorderSettles ==
  /\ req["reorder"].at \in {"ok", "error"}
  /\ req' = [req EXCEPT !["reorder"] = NoReq]
  /\ query' = IF req["reorder"].at = "ok" THEN Fetch ELSE query
  /\ UNCHANGED <<route, writes, losses, local, history>>

-----------------------------------------------------------------------------
(* AssignmentCard *)

Dirty == form # Data.fields

Choose(f, v) ==
  /\ Usable
  /\ v # form[f]
  /\ Impatient \/ (~Pending("save") /\ query.at = "idle")
  /\ form' = [form EXCEPT ![f] = v]
  /\ chosen' = [chosen EXCEPT ![f] = v]
  /\ UNCHANGED <<route, writes, losses, query, dialog, req, seed, foreign>>

Save ==
  /\ Usable /\ Dirty
  /\ Send("save", [Request EXCEPT !.fields = form, !.version = Data.version, !.seen = seed])
  /\ UNCHANGED <<route, writes, losses, query, local, history>>

\* Fault: a conflict is handled like any other error.
SaveIgnoresConflict ==
  /\ req["save"].at \in {"ok", "error", "conflict"}
  /\ query' = IF req["save"].at = "ok" THEN Fetch ELSE query
  /\ req' = [req EXCEPT !["save"] = NoReq]
  /\ UNCHANGED <<route, writes, losses, local, history>>

\* A conflict keeps the button busy until the route is fetched.
SaveSettles ==
  /\ req["save"].at \in {"ok", "error", "conflict"}
  /\ query' = IF req["save"].at = "error" THEN query ELSE Fetch
  /\ req' = [req EXCEPT !["save"] = IF req["save"].at = "conflict" /\ req["save"].mine
                                    THEN [@ EXCEPT !.at = "refetch"] ELSE NoReq]
  /\ UNCHANGED <<route, writes, losses, local, history>>

-----------------------------------------------------------------------------

Init ==
  /\ \E order \in [InitStops -> 0..(Cardinality(InitStops) - 1)] :
       /\ \A s, t \in InitStops : s # t => order[s] # order[t]
       /\ route = [version |-> 0, fields |-> Fill, gone |-> {},
                   stops |-> [s \in InitStops |-> [order |-> order[s], detail |-> SomeDetail]]]
  /\ writes = 0 /\ losses = 0
  /\ query = [at |-> "sent", got |-> route, ok |-> TRUE, has |-> FALSE, data |-> route,
              error |-> FALSE]
  /\ form = Fill /\ dialog = NoDialog
  /\ req = [k \in Kinds |-> NoReq]
  /\ chosen = Fill /\ seed = Fill /\ foreign = FALSE

Serve == ServeUpdate \/ ServeAdd \/ ServeEdit \/ ServeDelete \/ ServeReorder
Settle == DialogSettles \/ ReorderSettles \/ SaveSettles

Next ==
  \/ Serve \/ Settle \/ ServeQuery \/ QuerySettles \/ Retry
  \/ (\E k \in Kinds : Lose(k)) \/ Elsewhere
  \/ (\E s, t \in StopIds : Move(s, t))
  \/ (\E kind \in Dialogs \ {"none"}, s \in StopIds : OpenDialog(kind, s)) \/ CloseDialog
  \/ (\E b \in BOOLEAN : Geocoded(b) \/ TypeName(b))
  \/ (\E d \in Details : SubmitAdd(d) \/ SubmitEdit(d)) \/ HandleDeleteStop
  \/ (\E f \in Fields, v \in Values : Choose(f, v)) \/ Save

Spec == Init /\ [][Next]_vars

\* The server answers, the page's callbacks run; the admin closes a dialog,
\* retries a page that failed to load, and saves what he chose.
FairSpec ==
  /\ Spec
  /\ WF_vars(ServeReorder) /\ WF_vars(ServeAdd \/ ServeEdit \/ ServeDelete)
  /\ WF_vars(ServeUpdate) /\ WF_vars(ReorderSettles) /\ WF_vars(DialogSettles)
  /\ WF_vars(SaveSettles) /\ WF_vars(ServeQuery) /\ WF_vars(QuerySettles)
  /\ WF_vars(Retry) /\ SF_vars(CloseDialog) /\ SF_vars(Save)

-----------------------------------------------------------------------------
(* Properties *)

AtRest == query.at = "idle" /\ \A k \in Kinds : req[k].at = "none"

\* A save that is accepted replaces the assignments its admin was looking at:
\* never those that another admin has chosen since, whatever was fetched or
\* conflicted in between. (update_route's version, AssignmentCard's effect)
SaveReplacesWhatWasSeen ==
  [][req'["save"].at # req["save"].at /\ route' # route => route.fields = req["save"].seen]_vars

\* The form shows what the admin last chose, until somebody else changes the
\* assignments: no refetch that follows one of the page's own writes takes an
\* unsaved choice away.  This holds for an admin who changes the form at rest
\* (~Impatient): a choice made while a save or a fetch is under way is discarded
\* by the refetch. (the effect of AssignmentCard)
FormShowsChoice ==
  losses = 0 /\ ~foreign /\ ContentShown => form = chosen

\* At rest the page shows the route with everything it has itself written to
\* it, whichever of its requests overlapped. (invalidate)
PageShowsOwnWrites ==
  AtRest /\ ContentShown /\ losses = 0 /\ ~foreign => Data = route

\* An admin who keeps saving gets a form with nothing left to save, through
\* conflicts and lost answers. (the 409 branch of save)
SaveLands == Dirty ~> ~Dirty \/ writes = MaxWrites

\* routes/services.py:202 gives a stop "the next available stop_order (max + 1, or
\* 0 if no stops)": the order asked for on a page that shows the route as it is
\* is free. (nextOrder, add_stop)
AddFindsAPlace ==
  req["dialog"].at = "sent" /\ req["dialog"].kind = "add" /\ Data = route =>
    req["dialog"].place \notin OrdersOf(route.stops)

=============================================================================
