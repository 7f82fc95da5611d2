------------------------------ MODULE Console ------------------------------
(***************************************************************************)
(* The pages of the school admin, the platform admin and the parent        *)
(* (frontend/src/features/admin, super and parent): lists kept by a query  *)
(* cache, and dialogs and buttons that change them.                        *)
(*                                                                         *)
(* Each component is a record: a page names the queries it shows, polls    *)
(* and filters, and its dialogs and buttons; an operation names what it    *)
(* changes on the server and which queries its success invalidates (by a   *)
(* prefix of their keys) or sets.  The machine below them is the query     *)
(* cache (lib/query.ts) and one tab's user.                                *)
(*                                                                         *)
(* Queries do not interact, so one is watched, any one: `clock' counts the *)
(* accepted changes of what it shows.  The server takes one request at a   *)
(* time.                                                                   *)
(***************************************************************************)
EXTENDS Naturals, SequencesExt, FiniteSets

CONSTANTS
  MaxWrites,    \* accepted changes of what the watched query shows (bound)
  MaxCalls,     \* operations in flight (bound)
  MaxLosses,    \* requests or answers the network may lose (bound)
  Hasty         \* whether the user also acts when an answer read before a change
                \* could still arrive and pass for fresh (see Calm)

ASSUME BoundsAssumption ==
  MaxWrites \in Nat /\ MaxCalls \in Nat \ {0} /\ MaxLosses \in Nat /\ Hasty \in BOOLEAN

-----------------------------------------------------------------------------
(* Queries: what the answers hold, by the first part of the key, or by the *)
(* last of a key below one trip                                            *)

Everything == {"school", "user", "driver", "vehicle", "route", "student", "trip", "alert"}
Shown ==
  [vehicles |-> {"vehicle"}, drivers |-> {"driver"}, driver |-> {"oneDriver"},
   users |-> {"user"}, user |-> {"oneUser"}, schools |-> {"school"}, school |-> {"school"},
   superPlatform |-> Everything, superSchool |-> Everything,
   routes |-> {"route"}, route |-> {"oneRoute"}, students |-> {"student"},
   student |-> {"oneStudent"}, requests |-> {"request"}, complaints |-> {"complaint"},
   feedback |-> {"feedback"}, alerts |-> {"alert"}, trips |-> {"trip"}, trip |-> {"trip"},
   fees |-> {"fee"}, invoices |-> {"invoice"}, platformInvoices |-> {"platformInvoice"},
   platformSummary |-> {"platformInvoice"}, notifications |-> {"notification"}]
Staff == {"user", "driver", "oneUser", "oneDriver"}
Shows(key) == IF Len(key) = 3 THEN {key[3]} ELSE Shown[key[1]]

Bell == <<"notifications", "recent">>
VehicleNames == <<"vehicles", "100">>
DriverNames == <<"drivers", "100">>
SchoolNames == <<"schools", "100">>
AllRoutes == <<"routes", "100">>
MyChildren == <<"students", "mine">>

\* useEntityMap: one query for each id a list refers to
EntityMap(prefix) == {<<prefix, "id">>}

-----------------------------------------------------------------------------
(* Shapes of components *)

\* changes: on the server; invalidates, sets: queries; shows: success shows what the
\* server answered until it is dismissed; always: a failure closes the dialog too;
\* goesTo: the page a success navigates to; single: disabled while it is in flight
Op(does, changes, invalidates) ==
  [does |-> does, changes |-> changes, invalidates |-> invalidates, sets |-> {},
   shows |-> FALSE, always |-> FALSE, goesTo |-> {}, single |-> FALSE]

\* held: not closed while a request of its own is in flight; row: part of the content
\* of a list, unmounted with it
Dialog(operations) ==
  [ops |-> operations, reads |-> {}, held |-> TRUE, row |-> FALSE]
\* ConfirmDialog: held by its own `busy'
ConfirmDialog(op) == Dialog({op})

\* list: the query whose failure replaces the content by ErrorState; filters: queries
\* another filter or offset of the same list hides
Page(list) ==
  [list |-> list, reads |-> list, polls |-> {}, filters |-> {}, dialogs |-> {}, ops |-> {}]
Paginated(list) == [Page(list) EXCEPT !.filters = list]

-----------------------------------------------------------------------------
(* The admin's pages *)

SaveVehicle == Op("SaveVehicle", {"vehicle"}, {<<"vehicles">>})
VehicleFormLoose == [Dialog({SaveVehicle}) EXCEPT !.held = FALSE]
VehicleForm == Dialog({SaveVehicle})
DeleteVehicle == Op("DeleteVehicle", {"vehicle"}, {<<"vehicles">>})
VehiclesPage ==
  [Page({<<"vehicles", "list">>}) EXCEPT
     !.dialogs = {VehicleForm, ConfirmDialog(DeleteVehicle)}]

CreateDriver ==
  [Op("CreateDriver", {"user", "driver"}, {<<"drivers">>}) EXCEPT !.shows = TRUE]
AddDriverForm == Dialog({CreateDriver})
EditDriver == Op("EditDriver", Staff, {<<"drivers">>})
EditDriverForm == Dialog({EditDriver})
\* The server only writes its audit log.
AssignVehicle == Op("AssignVehicle", {}, {<<"drivers">>})
AssignForm == [Dialog({AssignVehicle}) EXCEPT !.reads = {VehicleNames}]
DriversPage ==
  [Page({<<"drivers", "list">>}) EXCEPT
     !.dialogs = {AddDriverForm, EditDriverForm, AssignForm}]

\* StaffControls, shared with the platform admin
AddStaff == [Op("AddStaff", {"user", "driver"}, {<<"users">>}) EXCEPT !.shows = TRUE]
AddStaffDialog == Dialog({AddStaff})
UpdateUser == Op("UpdateUser", Staff, {<<"users">>})
EditUserForm == [Dialog({UpdateUser}) EXCEPT !.row = TRUE]
ActivateUser == Op("ActivateUser", Staff, {<<"users">>})
\* onConfirm catches the error, so the dialog closes as after a success.
Deactivate ==
  [Op("Deactivate", Staff, {<<"users">>}) EXCEPT !.always = TRUE]
DeactivateDialog == [ConfirmDialog(Deactivate) EXCEPT !.row = TRUE]
StaffRowMenu == {EditUserForm, DeactivateDialog}
ResetPassword == Op("ResetPassword", {}, {})
ResetPasswordForm == Dialog({ResetPassword})
PeoplePage ==
  [Paginated({<<"users", "list">>}) EXCEPT
     !.dialogs = {AddStaffDialog, ResetPasswordForm} \cup StaffRowMenu,
     !.ops = {ActivateUser}]

AssignRequest == Op("AssignRequest", {"request"}, {<<"requests">>})
RejectRequest == Op("RejectRequest", {"request"}, {<<"requests">>})
ReadOnlyAssignment == [Dialog({}) EXCEPT !.reads = {<<"route", "id">>}]
ReviewRequest ==
  [Dialog({AssignRequest, RejectRequest}) EXCEPT
     !.reads = {AllRoutes, <<"route", "id">>}]
RequestsPage ==
  [Paginated({<<"requests", "list">>}) EXCEPT
     !.reads = @ \cup EntityMap("student"),
     !.dialogs = {ReviewRequest, ReadOnlyAssignment}]

UpdateComplaint == Op("UpdateComplaint", {"complaint"}, {<<"complaints">>})
ManageDialog == Dialog({UpdateComplaint})
ComplaintsPage ==
  [Paginated({<<"complaints", "list">>}) EXCEPT
     !.reads = @ \cup EntityMap("user"), !.dialogs = {ManageDialog}]

ReviewOfFeedback == Op("ReviewFeedback", {"feedback"}, {<<"feedback">>})
ReviewFeedback == Dialog({ReviewOfFeedback})
FeedbackPage ==
  [Paginated({<<"feedback", "list">>}) EXCEPT
     !.reads = @ \cup EntityMap("driver"), !.dialogs = {ReviewFeedback}]

\* Resolving an alert may complete its trip.  One busyId for all rows: acting on
\* another alert enables the buttons of the first again.
Acknowledge == Op("Acknowledge", {"alert"}, {<<"alerts">>, <<"trips", "active">>})
ResolveForgetsTrips == Op("Resolve", {"alert", "trip"}, {<<"alerts">>})
Resolve == Op("Resolve", {"alert", "trip"}, {<<"alerts">>, <<"trips", "active">>})
AlertsPageOnce ==
  [Paginated({<<"alerts", "list">>}) EXCEPT !.ops = {Acknowledge, Resolve}]
AlertsPage ==
  [Paginated({<<"alerts", "list">>}) EXCEPT
     !.polls = {<<"alerts", "list">>}, !.ops = {Acknowledge, Resolve}]

AddFee == Op("AddFee", {"fee"}, {<<"fees">>})
AddFeeDialog == Dialog({AddFee})
GenerateInvoices == Op("GenerateInvoices", {"invoice"}, {<<"invoices">>})
ToggleFee == Op("ToggleFee", {"fee"}, {<<"fees">>})
FeeCard == {GenerateInvoices, ToggleFee}
\* The tabs of BillingPage are unmounted when they are left: two pages.
FeesTab ==
  [Page({<<"fees", "100">>}) EXCEPT
     !.reads = @ \cup {AllRoutes}, !.dialogs = {AddFeeDialog}, !.ops = FeeCard]
RecordPayment == Op("RecordPayment", {"invoice"}, {<<"invoices">>})
RecordPaymentDialog == Dialog({RecordPayment})
InvoicesTab ==
  [Paginated({<<"invoices", "list">>}) EXCEPT
     !.reads = @ \cup EntityMap("student"), !.dialogs = {RecordPaymentDialog}]
BillingPage == [fees |-> FeesTab, invoices |-> InvoicesTab]

\* onOpenChange is setCreateOpen: nothing holds it open while it submits.
CreateRoute ==
  [Op("CreateRoute", {"route"}, {<<"routes">>}) EXCEPT !.goesTo = {"route"}]
CreateRouteDialog ==
  [Dialog({CreateRoute}) EXCEPT !.reads = {VehicleNames, DriverNames}, !.held = FALSE]
\* onConfirm throws the error again, so after a failure the dialog stays.
DeleteRoute == Op("DeleteRoute", {"route", "oneRoute"}, {<<"routes">>})
RoutesListPage ==
  [Page({AllRoutes}) EXCEPT
     !.reads = @ \cup {VehicleNames, DriverNames},
     !.dialogs = {CreateRouteDialog, ConfirmDialog(DeleteRoute)}]
\* The route editor, by what it reads (RouteEditor has its operations)
RouteEditorPage ==
  [Page({<<"route", "id">>}) EXCEPT !.reads = @ \cup {VehicleNames, DriverNames}]

School == <<"school", "id">>
SaveProfile ==
  [Op("SaveProfile", {"school"}, {}) EXCEPT !.sets = {School}, !.single = TRUE]
SaveSetting ==
  [Op("SaveSetting", {"school"}, {}) EXCEPT !.sets = {School}, !.single = TRUE]
RegenerateCode == Op("RegenerateCode", {"school"}, {School})
SettingsPage ==
  [Page({School}) EXCEPT
     !.dialogs = {ConfirmDialog(RegenerateCode)}, !.ops = {SaveProfile, SaveSetting}]

\* Each step of the wizard has one operation.
SetupProfile ==
  [Op("SetupProfile", {"school"}, {}) EXCEPT !.sets = {School}, !.single = TRUE]
SetupVehicle ==
  [Op("SetupVehicle", {"vehicle"}, {<<"vehicles">>}) EXCEPT !.single = TRUE]
SetupRoute ==
  [Op("SetupRoute", {"route"}, {<<"routes">>}) EXCEPT
     !.goesTo = {"route"}, !.single = TRUE]
SetupWizard ==
  [Page({}) EXCEPT !.reads = {School}, !.ops = {SetupProfile, SetupVehicle, SetupRoute}]

AdminDashboard ==
  [Page({<<"trips", "active">>}) EXCEPT
     !.reads = @ \cup {<<"alerts", "open">>, <<"requests", "pending">>,
                       <<"routes", "1">>, <<"vehicles", "1">>}]
TripListCard == {<<"trip", "id">>}
FleetMapPage ==
  [Page({<<"trips", "active">>}) EXCEPT
     !.reads = @ \cup TripListCard, !.polls = {<<"trips", "active">>}]

adminRoutes ==
  [home |-> AdminDashboard, setup |-> SetupWizard, vehicles |-> VehiclesPage,
   drivers |-> DriversPage, users |-> PeoplePage, settings |-> SettingsPage,
   fleet |-> FleetMapPage, alerts |-> AlertsPage, requests |-> RequestsPage,
   routes |-> RoutesListPage, route |-> RouteEditorPage, feedback |-> FeedbackPage,
   complaints |-> ComplaintsPage, fees |-> BillingPage.fees,
   invoices |-> BillingPage.invoices]

-----------------------------------------------------------------------------
(* The platform admin's pages *)

Platform == <<"superPlatform">>
CreateSchool ==
  [Op("CreateSchool", {"school"}, {<<"schools">>}) EXCEPT !.shows = TRUE]
AddSchoolForm == Dialog({CreateSchool})
SuperDashboard ==
  [Paginated({<<"schools", "list">>}) EXCEPT
     !.reads = @ \cup {Platform}, !.dialogs = {AddSchoolForm}]

SuperPeoplePage ==
  [Paginated({<<"users", "list">>}) EXCEPT
     !.reads = @ \cup {SchoolNames},
     !.dialogs = {AddStaffDialog, ResetPasswordForm} \cup StaffRowMenu,
     !.ops = {ActivateUser}]

SchoolDetailPage == Page({<<"superSchool", "id">>})

PlatformKeys == {<<"platformInvoices">>, <<"platformSummary">>}
GeneratePlatform == Op("GeneratePlatform", {"platformInvoice"}, PlatformKeys)
GenerateDialog == Dialog({GeneratePlatform})
RecordPlatform == Op("RecordPlatform", {"platformInvoice"}, PlatformKeys)
RecordDialog == Dialog({RecordPlatform})
SuperBillingPage ==
  [Paginated({<<"platformInvoices", "list">>}) EXCEPT
     !.reads = @ \cup {<<"platformSummary">>, SchoolNames},
     !.dialogs = {GenerateDialog, RecordDialog}]

superRoutes ==
  [home |-> SuperDashboard, users |-> SuperPeoplePage, school |-> SchoolDetailPage,
   billing |-> SuperBillingPage]

-----------------------------------------------------------------------------
(* The parent's pages *)

AddChild == Op("AddChild", {"student"}, {<<"students">>})
AddChildDialog == Dialog({AddChild})
Complain == Op("Complain", {"complaint"}, {<<"complaints">>})
ComplaintDialog == Dialog({Complain})
MarkAbsent ==
  [Op("MarkAbsent", {"absences"}, {<<"trip", "id", "absences">>}) EXCEPT !.single = TRUE]
Rate == Op("Rate", {"feedback"}, {})
RateTripDialog == [Dialog({Rate}) EXCEPT !.row = TRUE]
ChildTripCard == {<<"trips", "today">>, <<"trip", "id", "absences">>}
DashboardPage ==
  [Page({MyChildren}) EXCEPT
     !.reads = @ \cup {<<"requests", "assigned">>} \cup ChildTripCard,
     !.dialogs = {AddChildDialog, ComplaintDialog, RateTripDialog}, !.ops = {MarkAbsent}]

ParentRequestsPage ==
  [Page({<<"requests", "mine">>}) EXCEPT !.reads = @ \cup {MyChildren}]
RequestTransport ==
  [Op("RequestTransport", {"request"}, {<<"requests">>}) EXCEPT
     !.goesTo = {"requests"}, !.single = TRUE]
RequestTransportPage == [Page({MyChildren}) EXCEPT !.ops = {RequestTransport}]

MarkRead == Op("MarkRead", {"notification"}, {<<"notifications">>})
MarkAllRead == Op("MarkAllRead", {"notification"}, {<<"notifications">>})
NotificationsPage ==
  [Paginated({<<"notifications", "list">>}) EXCEPT !.ops = {MarkRead, MarkAllRead}]

LiveTrackPage ==
  [Page({<<"trip", "id">>}) EXCEPT
     !.reads = @ \cup {<<"trip", "id", "stops">>, <<"trip", "id", "gps-log">>},
     !.polls = {<<"trip", "id">>}]

InvoicesPage ==
  [Page({<<"invoices", "mine">>}) EXCEPT !.reads = @ \cup {MyChildren}]

\* The preferences live in the session's user, not in a query.
SavePreference == [Op("SavePreference", {}, {}) EXCEPT !.single = TRUE]
ParentSettingsPage == [Page({}) EXCEPT !.ops = {SavePreference}]

parentRoutes ==
  [home |-> DashboardPage, requests |-> ParentRequestsPage,
   request |-> RequestTransportPage, notifications |-> NotificationsPage,
   track |-> LiveTrackPage, invoices |-> InvoicesPage, settings |-> ParentSettingsPage]

\* On every page of every portal
BellRead == Op("BellRead", {"notification"}, {<<"notifications">>})
BellReadAll == Op("BellReadAll", {"notification"}, {<<"notifications">>})
NotificationBell == [Page({Bell}) EXCEPT !.polls = {Bell}, !.ops = {BellRead, BellReadAll}]

Portals == [admin |-> adminRoutes, super |-> superRoutes, parent |-> parentRoutes]
Queries(portal) ==
  {Bell} \cup UNION {p.reads \cup UNION {d.reads : d \in p.dialogs} :
                     p \in {Portals[portal][n] : n \in DOMAIN Portals[portal]}}

\* Changes the code leaves the cache of another list in ignorance of, for as long as
\* that one passes for fresh: operations, and queries their success does not invalidate
StaffOps == {"AddStaff", "UpdateUser", "ActivateUser", "Deactivate"}
Gaps ==
       {<<"CreateDriver", <<"users", "list">>>>}
  \cup {"EditDriver"} \X {<<"users", "list">>, <<"user", "id">>, <<"driver", "id">>}
  \cup StaffOps \X {<<"drivers", "list">>, DriverNames, <<"driver", "id">>, <<"user", "id">>}
  \cup (StaffOps \cup {"CreateSchool"}) \X {Platform, <<"superSchool", "id">>}
  \cup {<<"Resolve", <<"trip", "id">>>>, <<"DeleteRoute", <<"route", "id">>>>}

-----------------------------------------------------------------------------
(* The tab *)

VARIABLES
  portal, watched,    \* of this behaviour: the portal and the query that is watched
  clock, losses, event, \* accepted changes of it; lost messages; a notification on its way
  page, here,         \* the page that is open, and whether it shows the watched query's
                      \* filter and offset
  entry,              \* the watched query in the cache
  dialog,             \* the modal dialog
  calls,              \* operations in flight
  own                 \* history: the last change this tab was told has succeeded

server == <<clock, losses, event>>
view == <<page, here, dialog>>
vars == <<portal, watched, server, view, entry, calls, own>>

Slots == 1..MaxCalls
NoCall == [at |-> "none", op |-> Op("none", {}, {}), version |-> 0, from |-> "gone"]
NoDialog == [at |-> "closed", is |-> Dialog({})]
Empty == [at |-> "idle", got |-> 0, ok |-> FALSE, has |-> FALSE, data |-> 0,
          error |-> FALSE, invalid |-> FALSE]

Here == Portals[portal][page]
Operations ==
  NotificationBell.ops \cup
  UNION {p.ops \cup UNION {d.ops : d \in p.dialogs} :
         p \in {Portals[portal][n] : n \in DOMAIN Portals[portal]}}

\* Types; a dialog and a call are of the page that is open, and nothing is known of a
\* change that was not made.
TypeOK ==
  /\ portal \in DOMAIN Portals /\ watched \in Queries(portal)
  /\ clock \in 0..MaxWrites /\ losses \in 0..MaxLosses /\ event \in BOOLEAN
  /\ page \in DOMAIN Portals[portal] /\ here \in BOOLEAN
  /\ entry \in [at : {"idle", "sent", "replied"}, got : 0..MaxWrites, ok : BOOLEAN,
                has : BOOLEAN, data : 0..MaxWrites, error : BOOLEAN, invalid : BOOLEAN]
  /\ entry.data <= clock /\ own <= clock
  /\ dialog = NoDialog \/ (dialog.at \in {"open", "busy", "shown"} /\ dialog.is \in Here.dialogs)
  /\ \A s \in Slots :
       calls[s] = NoCall \/ (/\ calls[s].at \in {"sent", "ok", "error"}
                             /\ calls[s].op \in Operations
                             /\ calls[s].version \in 0..clock
                             /\ calls[s].from \in {"dialog", "page", "gone"})
  /\ own \in 0..MaxWrites

-----------------------------------------------------------------------------
(* The query cache *)

\* A component that uses the watched query is mounted.
Mounted ==
  \/ watched \in NotificationBell.reads \cup dialog.is.reads
  \/ watched \in Here.reads /\ (watched \in Here.filters => here)

\* Refetching cancels the fetch in flight and starts another, except the first one.
Fetched(e) == IF e.at # "idle" /\ ~e.has THEN e
              ELSE [e EXCEPT !.at = "sent", !.got = 0, !.ok = FALSE, !.error = @ /\ e.has]

\* A mount fetches what is missing, invalidated or older than the stale time; it
\* joins a fetch in flight.
Mounts(e) == IF e.at # "idle" THEN {e}
             ELSE IF ~e.has \/ e.invalid THEN {Fetched(e)} ELSE {e, Fetched(e)}

Known(e) == e.has \/ e.error \/ e.at # "idle"
Invalidated(e) ==
  IF Mounted THEN Fetched([e EXCEPT !.invalid = TRUE]) ELSE [e EXCEPT !.invalid = Known(e)]
Matches(prefixes) == \E prefix \in prefixes : IsPrefix(prefix, watched)

Affects(op) == op.changes \cap Shows(watched) # {}
Touches(op) == Affects(op) \/ watched \in op.sets \/ Matches(op.invalidates)

\* Pages without a component that uses or touches the watched query are all the same to
\* it: one of them stands for them.
OpsOf(p) == p.ops \cup UNION {d.ops : d \in p.dialogs}
Concerned(p) ==
  \/ watched \in p.reads \cup UNION {d.reads : d \in p.dialogs}
  \/ \E op \in OpsOf(p) : Touches(op)
Places ==
  LET P == Portals[portal]
      concerned == {n \in DOMAIN P : Concerned(P[n])}
  IN concerned \cup (IF concerned = DOMAIN P THEN {}
                     ELSE {CHOOSE n \in DOMAIN P : n \notin concerned})

\* What the step does to the entry by what it mounts
Renders == entry' \in IF ~Mounted /\ (Mounted)' THEN Mounts(entry) ELSE {entry}

Polled == Mounted /\ watched \in Here.polls \cup NotificationBell.polls
Poll ==
  /\ Polled /\ entry.at = "idle"
  /\ entry' = Fetched(entry)
  /\ UNCHANGED <<portal, watched, server, view, calls, own>>

ServeQuery ==
  /\ entry.at = "sent"
  /\ \/ entry' = [entry EXCEPT !.at = "replied", !.ok = TRUE, !.got = clock] /\ losses' = losses
     \/ /\ losses < MaxLosses /\ losses' = losses + 1
        /\ entry' = [entry EXCEPT !.at = "replied"]
  /\ UNCHANGED <<portal, watched, clock, event, view, calls, own>>

\* What is left of the calls: of the page that is gone (those that can still do
\* something), of the dialog that is closed
Orphaned(cs) ==
  [s \in Slots |-> IF Touches(cs[s].op) \/ cs[s].op.goesTo # {}
                  THEN [cs[s] EXCEPT !.from = "gone"] ELSE NoCall]
Undialogued(cs) ==
  [s \in Slots |-> [cs[s] EXCEPT !.from = IF @ = "dialog" THEN "page" ELSE @]]

\* ErrorState, or a list without the row, takes the dialogs of the row with it.
QuerySettles ==
  /\ entry.at = "replied"
  /\ entry' = IF entry.ok
              THEN [Empty EXCEPT !.has = TRUE, !.data = entry.got]
              ELSE [entry EXCEPT !.at = "idle", !.error = TRUE]
  /\ \/ (dialog.is.row /\ watched \in Here.list => entry.ok) /\ UNCHANGED <<dialog, calls>>
     \/ /\ dialog.is.row /\ watched \in Here.list
        /\ dialog' = NoDialog /\ calls' = Orphaned(calls)
  /\ UNCHANGED <<portal, watched, server, page, here, own>>

ErrorState == watched \in Here.list /\ Mounted /\ entry.error
ContentShown == watched \in Here.list /\ Mounted => entry.has /\ ~entry.error

-----------------------------------------------------------------------------
(* The user *)

\* No answer that was read before a change can arrive after its invalidation and pass
\* for fresh: not the first fetch, which an invalidation joins, nor the fetch of a query
\* nothing shows any more, nor one that would replace what an operation has set.
Calm ==
  \A s \in Slots : calls[s].at # "none" =>
    /\ IF Mounted THEN entry.has ELSE entry.at = "idle"
    /\ watched \in dialog.is.reads => entry.at = "idle"
    /\ watched \in calls[s].op.sets =>
         entry.at = "idle" /\ \A z \in Slots \ {s} : calls[z].at = "none"
    /\ calls[s].op.goesTo # {} => \A z \in Slots \ {s} : calls[z].at = "none"
Patient == Hasty \/ Calm'

GoesUnder(n) == page' = n /\ here' = TRUE /\ dialog' = dialog
Goes(n) == page' = n /\ here' = TRUE /\ dialog' = NoDialog

Open ==
  \E n \in Places \ {page} :
    /\ Goes(n) /\ calls' = Orphaned(calls)
    /\ UNCHANGED <<portal, watched, server, own>>
    /\ Renders /\ Patient

\* usePagination and the filters
Filter ==
  /\ dialog = NoDialog /\ watched \in Here.filters
  /\ here' = ~here
  /\ UNCHANGED <<portal, watched, server, page, dialog, calls, own>>
  /\ Renders /\ Patient

Retry ==
  /\ dialog = NoDialog /\ ErrorState /\ entry.at = "idle"
  /\ entry' = Fetched(entry)
  /\ UNCHANGED <<portal, watched, server, view, calls, own>>
  /\ Patient

OpenDialog ==
  \E d \in {d \in Here.dialogs : Concerned(Here)} :
    /\ dialog = NoDialog /\ (d.row => ContentShown)
    /\ dialog' = [at |-> "open", is |-> d]
    /\ UNCHANGED <<portal, watched, server, page, here, calls, own>>
    /\ Renders /\ Patient

CloseDialog ==
  /\ dialog.at \in {"open", "shown"} \/ (dialog.at = "busy" /\ ~dialog.is.held)
  /\ dialog' = NoDialog /\ calls' = Undialogued(calls)
  /\ UNCHANGED <<portal, watched, server, page, here, entry, own>>
  /\ Patient

\* Nothing is sent that the bound leaves no room to accept.
Room(op) ==
  Affects(op) =>
    clock + Cardinality({s \in Slots : calls[s].at = "sent" /\ Affects(calls[s].op)}) < MaxWrites

Sends(op, from) ==
  \E s \in Slots :
    /\ calls[s].at = "none" /\ \A z \in Slots : z < s => calls[z].at # "none"
    /\ Room(op)
    /\ \A z \in Slots : calls[z].at # "none" =>
         from = "page" /\ calls[z].from = "page" /\ Touches(op) /\ Touches(calls[z].op)
    /\ calls' = [calls EXCEPT ![s] = [at |-> "sent", op |-> op, version |-> 0, from |-> from]]

Submit ==
  /\ dialog.at = "open"
  /\ \E op \in dialog.is.ops : Sends(op, "dialog")
  /\ dialog' = [dialog EXCEPT !.at = "busy"]
  /\ UNCHANGED <<portal, watched, server, page, here, entry, own>>
  /\ Patient

Press ==
  /\ dialog = NoDialog
  /\ \E op \in {o \in NotificationBell.ops : Touches(o) /\ (watched = Bell => entry.has)}
             \cup {o \in Here.ops : Concerned(Here) /\ ContentShown} :
       /\ op.single => \A s \in Slots : ~(calls[s].from = "page" /\ calls[s].op = op)
       /\ Sends(op, "page")
  /\ UNCHANGED <<portal, watched, server, view, entry, own>>
  /\ Patient

-----------------------------------------------------------------------------
(* Operations *)

\* Requests and answers get lost on either way; the server may refuse.
Answers(s, at, version) ==
  \/ calls' = [calls EXCEPT ![s].at = at, ![s].version = version] /\ losses' = losses
  \/ /\ losses < MaxLosses /\ losses' = losses + 1
     /\ calls' = [calls EXCEPT ![s].at = "error"]

Serve(s) ==
  /\ calls[s].at = "sent"
  /\ \/ LET now == IF Affects(calls[s].op) THEN clock + 1 ELSE clock
        IN clock' = now /\ Answers(s, "ok", now)
     \/ clock' = clock /\ Answers(s, "error", 0)
  /\ UNCHANGED <<portal, watched, event, view, entry, own>>

\* What an answer does to the dialogs of its page: a failure enables the one it came
\* from again; a success closes whichever of its kind is open.
Answered(s, at) ==
  LET op == calls[s].op IN
  IF calls[s].from = "gone" \/ op \notin dialog.is.ops THEN dialog
  ELSE IF at = "error" /\ ~op.always
       THEN IF calls[s].from = "dialog" THEN [dialog EXCEPT !.at = "open"] ELSE dialog
       ELSE IF op.shows /\ at = "ok" THEN [dialog EXCEPT !.at = "shown"] ELSE NoDialog

Succeeds(s) ==
  LET op == calls[s].op
      cached == IF watched \in op.sets
                THEN [entry EXCEPT !.has = TRUE, !.data = calls[s].version,
                                   !.error = FALSE, !.invalid = FALSE]
                ELSE IF Matches(op.invalidates) THEN Invalidated(entry) ELSE entry
      after == [calls EXCEPT ![s] = NoCall]
  IN /\ calls[s].at = "ok"
     /\ own' = IF Affects(op) /\ <<op.does, watched>> \notin Gaps
                   /\ calls[s].version > own
               THEN calls[s].version ELSE own
     /\ IF op.goesTo = {}
        THEN page' = page /\ here' = here /\ dialog' = Answered(s, "ok") /\ calls' = after
        ELSE (\E n \in op.goesTo : Goes(n)) /\ calls' = Orphaned(after)
     /\ UNCHANGED <<portal, watched, server>>
     /\ entry' \in IF ~Mounted /\ (Mounted)' THEN Mounts(cached) ELSE {cached}

Fails(s) ==
  /\ calls[s].at = "error"
  /\ dialog' = Answered(s, "error")
  /\ calls' = [calls EXCEPT ![s] = NoCall]
  /\ UNCHANGED <<portal, watched, server, page, here, entry, own>>

-----------------------------------------------------------------------------
(* Everybody else: told apart only where the tab polls or is notified *)

Followed ==
  {Bell} \cup UNION {Portals[portal][n].polls : n \in DOMAIN Portals[portal]}

Foreign ==
  /\ watched \in Followed \/ watched[1] = "notifications"
  /\ Room(Op("foreign", Shows(watched), {}))
  /\ clock' = clock + 1
  /\ event' = (watched[1] = "notifications")
  /\ UNCHANGED <<portal, watched, losses, view, entry, calls, own>>

\* The event may also get lost.
SocketBridge ==
  /\ event /\ event' = FALSE
  /\ entry' \in {entry, IF Matches({<<"notifications">>}) THEN Invalidated(entry) ELSE entry}
  /\ UNCHANGED <<portal, watched, clock, losses, view, calls, own>>

-----------------------------------------------------------------------------

Init ==
  /\ portal \in DOMAIN Portals /\ watched \in Queries(portal)
  /\ clock = 0 /\ losses = 0 /\ event = FALSE
  /\ page \in Places /\ here = TRUE /\ dialog = NoDialog
  /\ calls = [s \in Slots |-> NoCall] /\ own = 0
  /\ entry = IF Mounted THEN Fetched(Empty) ELSE Empty

Next ==
  \/ Open \/ Filter \/ Retry \/ OpenDialog \/ CloseDialog \/ Submit \/ Press
  \/ Poll \/ ServeQuery \/ QuerySettles
  \/ \E s \in Slots : Serve(s) \/ Succeeds(s) \/ Fails(s)
  \/ Foreign \/ SocketBridge

Spec == Init /\ [][Next]_vars

\* The server answers, the tab takes answers and its intervals run; the user need not act.
FairSpec ==
  /\ Spec /\ WF_vars(Poll) /\ WF_vars(ServeQuery) /\ WF_vars(QuerySettles)

-----------------------------------------------------------------------------
(* Properties *)

\* No change that this tab was told has succeeded is missing from what it shows at
\* rest: whatever was invalidated or set while the query was mounted or not, being
\* fetched or failed, on this page or on another.  (onSuccess of the mutations and
\* lib/query.ts; Gaps are the changes the code does not invalidate a query for.)
ReadYourWrites ==
  Mounted /\ entry.at = "idle" /\ entry.has /\ ~entry.error => entry.data >= own

\* A dialog is busy exactly while its own request is in flight: it is never left busy,
\* and an answer never finds its dialog closed or another one in its place, so that
\* what only the answer holds (a temporary password) is shown as long as the page
\* is open.  (onOpenChange of the dialogs; an operation that navigates excepted.)
DialogWaitsForItsCall ==
  /\ dialog.at = "busy" =>
       \E s \in Slots : calls[s].from = "dialog" /\ calls[s].op \in dialog.is.ops
  /\ \A s \in Slots :
       /\ calls[s].from # "gone" /\ calls[s].op.goesTo = {}
       /\ calls[s].op \in UNION {d.ops : d \in Here.dialogs}
       => dialog.at = "busy" /\ calls[s].op \in dialog.is.ops

\* The pages that show something others change while one looks: alerts, the fleet, the
\* bus of one's child, the bell
LiveHere ==
  \/ watched = Bell
  \/ /\ dialog = NoDialog /\ here
     /\ \/ portal = "admin" /\ page = "alerts" /\ watched = <<"alerts", "list">>
        \/ portal = "admin" /\ page = "fleet" /\ watched = <<"trips", "active">>
        \/ portal = "parent" /\ page = "track" /\ watched = <<"trip", "id">>

\* What others change is shown in the end on a page that stays open, failed fetches,
\* lost events and operations in between notwithstanding.  (refetchInterval)
LiveCatchesUp ==
  \A v \in 1..MaxWrites :
    (LiveHere /\ clock >= v) ~> (~LiveHere \/ (entry.has /\ entry.data >= v))

============================================================================
