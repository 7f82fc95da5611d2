----------------------------- MODULE DriverRun -----------------------------
(***************************************************************************)
(* The driver's run page (frontend/src/features/driver/RunTripPage.tsx)    *)
(* and what it keeps: three queries of one trip (detail, roster, absences; *)
(* the stops of the route do not change), the marks of the stop shown, the *)
(* answer of a held end of trip, and four kinds of mutation, against the   *)
(* trip of the server, one request at a time (TripSafeguard has the        *)
(* interleavings of the server).                                           *)
(*                                                                         *)
(* TanStack Query: a query in flight is cancelled and started again when   *)
(* it is invalidated while a component uses it; unused, it is only marked, *)
(* and the mark is lost when a fetch already in flight settles.  On mount  *)
(* it is fetched if it is marked, failed, empty or older than 30 s (a      *)
(* choice here: time is left out).  A query that fails keeps its data.     *)
(*                                                                         *)
(* A child_absent_marked event needs a scheduled trip and a page in its    *)
(* room a started one, so its handler never runs and is left out.          *)
(***************************************************************************)
EXTENDS Naturals, FiniteSets

CONSTANTS
  Students,
  Runs,         \* routes driven: slot, number of stops, stop of each student;
                \* losses: requests or answers the network may lose, haste: what the
                \* driver does on a page that is fetching (bounds of the run)
  MaxPending    \* mutations in flight at once (bound)

ASSUME RunsAssumption ==
  \A r \in Runs : /\ r.slot \in {"morning", "evening"}
                  /\ r.stops \in Nat \ {0}
                  /\ r.at \in [Students -> 1..r.stops]
                  /\ r.losses \in Nat
                  /\ r.haste \subseteq {"tap", "leave"}
ASSUME BoundsAssumption == MaxPending \in Nat \ {0}

VARIABLES
  run,          \* the route driven
  trip,         \* trips.status
  att,          \* attendance_records.status, by student
  dropped,      \* students whose row has dropped_at
  losses,
  page,         \* "today" or "run"
  query,        \* the three queries
  marks,        \* marks of the driver not yet submitted
  endResult,    \* unresolved_students of a held end; {} when there is none
  dialog,       \* the confirmation of "End trip"
  req,          \* the mutation of each kind in flight (one of a kind: bound)
  \* history
  said,         \* the driver's last choice submitted, by student
  early,        \* students named in a stop submitted while the page was fetching,
                \* or while a mutation was unanswered
  foreign,      \* somebody else changed the trip or an attendance
  missed        \* a mutation was answered while a query not in use was in flight

server == <<trip, att, dropped>>
local == <<marks, endResult, dialog>>
history == <<said, early, foreign, missed>>
vars == <<run, server, losses, page, query, local, req, history>>

Statuses == {"scheduled", "in_progress", "pending_safeguard_check", "completed", "cancelled"}
Active == {"in_progress", "pending_safeguard_check"}
Closed == {"completed", "cancelled"}
Marks == {"boarded", "absent"}
Recorded == Marks \cup {"absent_parent_marked", "none"}

Queries == {"trip", "roster", "absences"}
Kinds == {"start", "submit", "drop", "end"}

NoMarks == [s \in Students |-> "none"]
NoData == [trip |-> "none", roster |-> NoMarks, absences |-> {}]
NoQuery == [at |-> "idle", got |-> NoData, ok |-> TRUE,
            has |-> FALSE, data |-> NoData, error |-> FALSE, invalid |-> FALSE]
\* then: the safeguard card ends the trip next; mine: the component that sent it
\* is still mounted
NoReq == [at |-> "none", entries |-> NoMarks, ids |-> {}, status |-> "none", then |-> FALSE,
          mine |-> FALSE]

TypeOK ==
  LET Data == [trip : Statuses \cup {"none"}, roster : [Students -> Recorded],
               absences : SUBSET Students]
  IN /\ run \in Runs
     /\ trip \in Statuses
     /\ att \in [Students -> Recorded]
     /\ dropped \subseteq Students
     /\ losses \in 0..run.losses
     /\ page \in {"today", "run"}
     /\ query \in [Queries -> [at : {"idle", "sent", "replied"}, got : Data, ok : BOOLEAN,
          has : BOOLEAN, data : Data, error : BOOLEAN, invalid : BOOLEAN]]
     /\ marks \in [Students -> Marks \cup {"none"}]
     /\ endResult \subseteq Students
     /\ dialog \in {"closed", "open", "busy"}
     /\ req \in [Kinds -> [at : {"none", "sent", "ok", "error"},
          entries : [Students -> Marks \cup {"none"}], ids : SUBSET Students,
          status : Statuses \cup {"none"}, then : BOOLEAN,
          mine : BOOLEAN]]
     /\ said \in [Students -> Marks \cup {"none"}]
     /\ early \subseteq Students
     /\ {foreign, missed} \subseteq BOOLEAN

-----------------------------------------------------------------------------
(* The server, one request at a time *)

Unaccounted(a, d) == {s \in Students : a[s] = "boarded"} \ d

\* Requests and answers get lost on either way.
Answers(k, ok) ==
  \/ /\ req' = [req EXCEPT ![k] = ok]
     /\ losses' = losses
  \/ /\ losses < run.losses /\ losses' = losses + 1
     /\ req' = [req EXCEPT ![k].at = "error"]

\* Fault: a status that the type does not have.
ServeStartMisnamed ==
  /\ req["start"].at = "sent"
  /\ IF trip = "scheduled"
     THEN trip' = "started" /\ Answers("start", [req["start"] EXCEPT !.at = "ok"])
     ELSE trip' = trip /\ Answers("start", [req["start"] EXCEPT !.at = "error"])
  /\ UNCHANGED <<run, att, dropped, page, query, local, history>>

ServeStart ==
  /\ req["start"].at = "sent"
  /\ IF trip = "scheduled"
     THEN trip' = "in_progress" /\ Answers("start", [req["start"] EXCEPT !.at = "ok"])
     ELSE trip' = trip /\ Answers("start", [req["start"] EXCEPT !.at = "error"])
  /\ UNCHANGED <<run, att, dropped, page, query, local, history>>

\* Taken in any status of the trip.
ServeSubmit ==
  /\ req["submit"].at = "sent"
  /\ att' = [s \in Students |-> IF req["submit"].entries[s] # "none"
                                THEN req["submit"].entries[s] ELSE att[s]]
  /\ Answers("submit", [req["submit"] EXCEPT !.at = "ok"])
  /\ UNCHANGED <<run, trip, dropped, page, query, local, history>>

\* The drop, and the gate that completes a trip with nobody left aboard
ServeDrop ==
  /\ req["drop"].at = "sent"
  /\ IF trip \in Active
     THEN /\ dropped' = dropped \cup {s \in req["drop"].ids : att[s] = "boarded"}
          /\ trip' = IF Unaccounted(att, dropped') = {} THEN "completed" ELSE trip
          /\ Answers("drop", [req["drop"] EXCEPT !.at = "ok"])
     ELSE /\ Answers("drop", [req["drop"] EXCEPT !.at = "error"])
          /\ UNCHANGED <<trip, dropped>>
  /\ UNCHANGED <<run, att, page, query, local, history>>

ServeEnd ==
  /\ req["end"].at = "sent"
  /\ IF trip = "in_progress"
     THEN /\ trip' = IF Unaccounted(att, dropped) = {} THEN "completed"
                     ELSE "pending_safeguard_check"
          /\ Answers("end", [req["end"] EXCEPT !.at = "ok", !.status = trip',
                               !.ids = Unaccounted(att, dropped)])
     ELSE /\ trip' = trip
          /\ Answers("end", [req["end"] EXCEPT !.at = "error"])
  /\ UNCHANGED <<run, att, dropped, page, query, local, history>>

\* A request that never reaches the server
Lose(k) ==
  /\ req[k].at = "sent"
  /\ losses < run.losses /\ losses' = losses + 1
  /\ req' = [req EXCEPT ![k].at = "error"]
  /\ UNCHANGED <<run, server, page, query, local, history>>

\* What a query's endpoint returns
Answer(q) == [NoData EXCEPT ![q] =
  CASE q = "trip" -> trip
    [] q = "roster" -> att
    [] q = "absences" -> {s \in Students : att[s] = "absent_parent_marked"}]

ServeQuery(q) ==
  /\ query[q].at = "sent"
  /\ \/ query' = [query EXCEPT ![q].at = "replied", ![q].got = Answer(q)]
        /\ losses' = losses
     \/ query' = [query EXCEPT ![q].at = "replied", ![q].ok = FALSE]
        /\ losses < run.losses /\ losses' = losses + 1
  /\ UNCHANGED <<run, server, page, local, req, history>>

\* Other people: a parent before departure, an admin
MarkAbsent(s) ==
  /\ trip = "scheduled"
  /\ att' = [att EXCEPT ![s] = "absent_parent_marked"]
  /\ foreign' = TRUE
  /\ UNCHANGED <<run, trip, dropped, losses, page, query, local, req, said, early, missed>>

CancelTrip ==
  /\ trip \notin Closed
  /\ trip' = "cancelled"
  /\ foreign' = TRUE
  /\ UNCHANGED <<run, att, dropped, losses, page, query, local, req, said, early, missed>>

-----------------------------------------------------------------------------
(* TanStack Query *)

\* Components that use q: the run page, and the card of the trip on Today
Mounted(q, p) == p = "run" \/ q = "trip"

Fetch(c) == [c EXCEPT !.at = "sent", !.got = NoData, !.ok = TRUE, !.invalid = FALSE]

\* On mount: what is fetched
Stale(c) == c.invalid \/ c.error \/ ~c.has
\* Fault: a query that failed is not fetched again (retryOnMount: false).
OnMountNoRetry(c, old) ==
  IF c.at # "idle" \/ c.error THEN c ELSE IF Stale(c) \/ old THEN Fetch(c) ELSE c

OnMount(c, old) ==
  IF c.at # "idle" THEN c ELSE IF Stale(c) \/ old THEN Fetch(c) ELSE c

\* The page shows its content, RunTripContent; when it stops to, the content is
\* unmounted and its state is gone.
Loaded(qs) == \A q \in Queries : qs[q].has /\ ~qs[q].error
ContentShown == page = "run" /\ Loaded(query)

KeepOrDropContent(stays) ==
  IF stays THEN UNCHANGED <<local, req>>
  ELSE /\ marks' = NoMarks /\ endResult' = {} /\ dialog' = "closed"
       /\ req' = [k \in Kinds |-> [req[k] EXCEPT !.mine = FALSE]]

QuerySettles(q) ==
  /\ query[q].at = "replied"
  /\ query' = [query EXCEPT ![q] =
       IF @.ok
       THEN [NoQuery EXCEPT !.has = TRUE, !.data = query[q].got]
       ELSE [@ EXCEPT !.at = "idle", !.got = NoData, !.ok = TRUE, !.error = TRUE]]
  /\ KeepOrDropContent(page = "run" /\ Loaded(query'))
  /\ UNCHANGED <<run, server, losses, page, history>>

\* Fault: the detail of the trip only.
InvalidateDetail ==
  /\ query' = [query EXCEPT !["trip"] = Fetch(@)]
  /\ missed' = missed

\* invalidateTrip: the key of the trip is a prefix of those of the other two.
InvalidateTrip ==
  /\ query' = [q \in Queries |-> IF Mounted(q, page) THEN Fetch(query[q])
                                 ELSE [query[q] EXCEPT !.invalid = TRUE]]
  /\ missed' = (missed \/ \E q \in Queries : ~Mounted(q, page) /\ query[q].at # "idle")

-----------------------------------------------------------------------------
(* RunTripPage and TodayPage *)

Refetching == \E q \in Queries : query[q].at # "idle"

\* Everything that the page asked for is answered.
AtRest ==
  /\ ~Refetching
  /\ \A k \in Kinds : req[k].at = "none"

\* TodayPage: the card of the trip leads to its run page.
Open(old) ==
  /\ page = "today"
  /\ page' = "run"
  /\ query' = [q \in Queries |-> OnMount(query[q], old)]
  /\ UNCHANGED <<run, server, losses, local, req, history>>

\* The back buttons
Back(old) ==
  /\ page = "run"
  /\ Refetching => "leave" \in run.haste
  /\ ContentShown => dialog = "closed"
  /\ page' = "today"
  /\ query' = [query EXCEPT !["trip"] = OnMount(@, old)]
  /\ KeepOrDropContent(FALSE)
  /\ UNCHANGED <<run, server, losses, history>>

\* ErrorState: its button fetches the trip's detail, whichever query failed.
Retry ==
  /\ page = "run" /\ ~Loaded(query)
  /\ \E q \in Queries : query[q].error /\ query[q].at = "idle"
  /\ query["trip"].at = "idle"
  /\ query' = [query EXCEPT !["trip"] = Fetch(@)]
  /\ UNCHANGED <<run, server, losses, page, local, req, history>>

\* useGeoBroadcast and useTripRoom are enabled while this holds.
IsRunning == page = "run" /\ query["trip"].data.trip = "in_progress"

-----------------------------------------------------------------------------
(* RunTripContent *)

Status == query["trip"].data.trip
Roster == query["roster"].data.roster
AbsentIds == query["absences"].data.absences

\* trips.current_stop_order is written nowhere: it is NULL.
CurrentStopOrder == 0
ActiveStop == IF CurrentStopOrder \in 1..run.stops THEN CurrentStopOrder ELSE 1
IsLastStop == ActiveStop = run.stops

BoardedIds == {s \in Students : Roster[s] = "boarded"}
StudentsAt(p) == {s \in Students : run.at[s] = p}
\* Fault: an excused child can be marked like the others.
ToggleableAll == StudentsAt(ActiveStop)
Toggleable == StudentsAt(ActiveStop) \ AbsentIds

\* Fault: what is recorded comes before the driver's choice.
RecordedFirst(s) == IF Roster[s] \in Marks THEN Roster[s] ELSE marks[s]

\* The driver's choice, else what the roster shows as recorded
EffectiveMark(s) ==
  IF marks[s] # "none" THEN marks[s] ELSE IF Roster[s] \in Marks THEN Roster[s] ELSE "none"
AllMarked == Toggleable # {} /\ \A s \in Toggleable : EffectiveMark(s) # "none"

\* What is shown lets the driver tap, fetching or not (a dialog covers the rest).
Usable(statuses) ==
  /\ ContentShown /\ Status \in statuses /\ dialog = "closed"
  /\ Refetching => "tap" \in run.haste
Pending(k) == req[k].at # "none" /\ req[k].mine

Free == Cardinality({k \in Kinds : req[k].at # "none"}) < MaxPending
Send(k, r) ==
  /\ req[k].at = "none" /\ Free
  /\ req' = [req EXCEPT ![k] = r]
Request == [NoReq EXCEPT !.at = "sent", !.mine = TRUE]

StartTrip ==
  /\ Usable({"scheduled"})
  /\ Send("start", Request)
  /\ UNCHANGED <<run, server, losses, page, query, local, history>>

\* StudentAttendanceRow: not for a child its parent excused
Mark(s, m) ==
  /\ Usable(Active)
  /\ s \in Toggleable
  /\ ~Pending("submit")
  /\ marks' = [marks EXCEPT ![s] = m]
  /\ UNCHANGED <<run, server, losses, page, query, endResult, dialog, req, history>>

OnSubmitStop ==
  /\ Usable(Active)
  /\ AllMarked
  /\ Send("submit", [Request EXCEPT !.entries =
       [s \in Students |-> IF s \notin Toggleable THEN "none"
                           ELSE IF EffectiveMark(s) = "boarded" THEN "boarded" ELSE "absent"]])
  /\ said' = [s \in Students |-> IF s \in Toggleable /\ marks[s] # "none"
                                 THEN marks[s] ELSE said[s]]
  /\ early' = IF AtRest THEN early ELSE early \cup Toggleable
  /\ UNCHANGED <<run, server, losses, page, query, local, foreign, missed>>

Drop(ids, then) ==
  /\ Usable(Active)
  /\ ids # {}
  /\ Send("drop", [Request EXCEPT !.ids = ids, !.then = then])
  /\ UNCHANGED <<run, server, losses, page, query, local, history>>

\* Evening: those who boarded at the stop shown
DropHere == run.slot = "evening" /\ Drop(BoardedIds \cap StudentsAt(ActiveStop), FALSE)

\* Morning: everyone, at the last stop
DropAllAtSchool == run.slot = "morning" /\ IsLastStop /\ Drop(BoardedIds, FALSE)

\* SafeguardCard, onDropRemaining
SafeguardShown == Status = "pending_safeguard_check" \/ endResult # {}
Remaining == IF endResult # {} THEN endResult ELSE BoardedIds
DropRemaining ==
  /\ SafeguardShown
  /\ IF Remaining # {} THEN Drop(Remaining, TRUE)
     ELSE /\ Usable(Active)
          /\ Send("end", Request)
          /\ UNCHANGED <<run, server, losses, page, query, local, history>>

\* ConfirmDialog: it cannot be closed while its request is in flight.
OpenDialog ==
  /\ Usable(Active)
  /\ ~Pending("end") /\ Free
  /\ dialog' = "open"
  /\ UNCHANGED <<run, server, losses, page, query, marks, endResult, req, history>>

CancelDialog ==
  /\ ContentShown /\ dialog = "open"
  /\ dialog' = "closed"
  /\ UNCHANGED <<run, server, losses, page, query, marks, endResult, req, history>>

ConfirmEnd ==
  /\ ContentShown /\ dialog = "open" /\ Status \in Active
  /\ Send("end", Request)
  /\ dialog' = "busy"
  /\ UNCHANGED <<run, server, losses, page, query, marks, endResult, history>>

-----------------------------------------------------------------------------
(* The mutations settle; an error is only shown *)

Settles(k, at) == req[k].at = at
Gone(k) == [req EXCEPT ![k] = NoReq]

StartSettles ==
  /\ Settles("start", "ok")
  /\ req' = Gone("start")
  /\ InvalidateTrip
  /\ UNCHANGED <<run, server, losses, page, local, said, early, foreign>>

SubmitSettles ==
  /\ Settles("submit", "ok")
  /\ req' = Gone("submit")
  /\ marks' = IF Pending("submit") THEN NoMarks ELSE marks
  /\ InvalidateTrip
  /\ UNCHANGED <<run, server, losses, page, endResult, dialog, said, early, foreign>>

\* The safeguard card then ends the trip, unless an end is in flight (bound).
DropSettles ==
  /\ Settles("drop", "ok")
  /\ InvalidateTrip
  /\ IF Pending("drop") /\ req["drop"].then
     THEN /\ endResult' = {}
          /\ req' = [Gone("drop") EXCEPT !["end"] = IF @.at = "none" THEN Request ELSE @]
     ELSE /\ req' = Gone("drop")
          /\ UNCHANGED endResult
  /\ UNCHANGED <<run, server, losses, page, marks, dialog, said, early, foreign>>

EndSettles ==
  /\ Settles("end", "ok")
  /\ InvalidateTrip
  /\ IF req["end"].status = "completed"
     THEN /\ page' = "today"
          /\ marks' = NoMarks /\ endResult' = {} /\ dialog' = "closed"
          /\ req' = [k \in Kinds |-> [Gone("end")[k] EXCEPT !.mine = FALSE]]
     ELSE /\ req' = Gone("end")
          /\ endResult' = IF Pending("end") THEN req["end"].ids ELSE endResult
          /\ dialog' = IF dialog = "busy" THEN "closed" ELSE dialog
          /\ UNCHANGED <<page, marks>>
  /\ UNCHANGED <<run, server, losses, said, early, foreign>>

Fails(k) ==
  /\ Settles(k, "error")
  /\ req' = Gone(k)
  /\ dialog' = IF k = "end" /\ dialog = "busy" THEN "open" ELSE dialog
  /\ UNCHANGED <<run, server, losses, page, query, marks, endResult, history>>

-----------------------------------------------------------------------------

Init ==
  /\ run \in Runs
  /\ trip = "scheduled"
  /\ att = NoMarks /\ dropped = {} /\ losses = 0
  /\ page = "today"
  /\ query = [q \in Queries |-> IF q = "trip" THEN Fetch(NoQuery) ELSE NoQuery]
  /\ marks = NoMarks /\ endResult = {} /\ dialog = "closed"
  /\ req = [k \in Kinds |-> NoReq]
  /\ said = NoMarks /\ early = {}
  /\ foreign = FALSE /\ missed = FALSE

Serve == ServeStart \/ ServeSubmit \/ ServeDrop \/ ServeEnd
SettleMutation ==
  StartSettles \/ SubmitSettles \/ DropSettles \/ EndSettles \/ \E k \in Kinds : Fails(k)

Next ==
  \/ Serve \/ SettleMutation
  \/ (\E k \in Kinds : Lose(k))
  \/ (\E q \in Queries : ServeQuery(q) \/ QuerySettles(q))
  \/ (\E s \in Students : MarkAbsent(s)) \/ CancelTrip
  \/ (\E old \in BOOLEAN : Open(old) \/ Back(old)) \/ Retry
  \/ StartTrip \/ OnSubmitStop \/ DropHere \/ DropAllAtSchool \/ DropRemaining
  \/ (\E s \in Students, m \in Marks : Mark(s, m))
  \/ OpenDialog \/ CancelDialog \/ ConfirmEnd

Spec == Init /\ [][Next]_vars

\* The server answers and the event loop runs; the driver keeps trying to run
\* the trip, opening its page again when it is of no use, and does not forever
\* submit again before the page has read the status of the trip.
FairSpec ==
  /\ Spec
  /\ WF_vars(Serve) /\ WF_vars(SettleMutation)
  /\ \A q \in Queries : WF_vars(ServeQuery(q)) /\ WF_vars(QuerySettles(q))
  /\ SF_vars(QuerySettles("trip"))
  /\ SF_vars(Back(TRUE)) /\ SF_vars(Open(TRUE)) /\ SF_vars(StartTrip)
  /\ SF_vars(OpenDialog) /\ SF_vars(CancelDialog) /\ SF_vars(ConfirmEnd)
  /\ SF_vars(DropRemaining)

-----------------------------------------------------------------------------
(* Properties *)

\* Once everything is answered, the page shows the trip and the roster as its
\* own actions left them, and shares the location exactly while the trip runs:
\* no answer, refetch, hasty tap or remount leaves it on an older state, unless
\* a mutation was answered after the driver left the page with a query in flight.
\* (invalidateTrip, useQuery)
PageShowsItsOwnActions ==
  AtRest /\ ContentShown /\ losses = 0 /\ ~foreign /\ ~missed =>
    /\ Status = trip
    /\ Roster = att
    /\ IsRunning <=> trip = "in_progress"

\* A child is recorded as the driver last said, unless a stop naming the child
\* was submitted while an answer was still on its way: its unchanged marks are
\* then those of an older roster. (marks, effectiveMark, onSubmitStop)
RecordedAsSaid ==
  losses = 0 /\ ~missed /\ req["submit"].at # "sent" =>
    \A s \in Students : att[s] \in Marks => att[s] = said[s] \/ s \in early

\* An absence that a parent announced is recorded over only for a child named in
\* a stop that was submitted while an answer was still on its way, the list of
\* absences perhaps: from the page at rest, never. (absentIds, toggleable, the
\* refetch at the start of the trip)
ExcuseKept ==
  [][losses = 0 /\ ~missed => \A s \in Students :
       att[s] = "absent_parent_marked" => att'[s] = att[s] \/ s \in early]_vars

\* A driver who keeps trying closes the trip, whoever is aboard and whichever
\* answer was lost, unless the last child aboard of a held trip is corrected to
\* absent. (SafeguardCard, endMutation, dropMutation)
Stuck == trip = "pending_safeguard_check" /\ Unaccounted(att, dropped) = {}
TripCloses == <>(trip \in Closed \/ Stuck)

\* docs/YATRATRACK-BUILD-SPEC.md:1102 gives the run as "Start -> per-stop big
\* Boarded/Absent toggles -> submit stop -> Drop all at school -> End": after
\* the stop shown is recorded, the next stop's children come up.
NextStopComesUp ==
  AtRest /\ ContentShown /\ losses = 0 /\ Status = "in_progress" =>
    \/ IsLastStop
    \/ \E s \in StudentsAt(ActiveStop) : Roster[s] = "none"
    \/ \A s \in Students : run.at[s] > ActiveStop => Roster[s] # "none"

=============================================================================
