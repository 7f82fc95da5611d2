--------------------------- MODULE TripSafeguard ---------------------------
(***************************************************************************)
(* One trip and the HTTP requests that act on it: start, cancel, the       *)
(* parent's absence mark and its withdrawal, the driver's stop attendance, *)
(* end of trip, drop-off, and the admin's resolution of an alert           *)
(* (backend/app/tracking/services.py, safety.py, router.py and             *)
(* alerts/router.py).  Rows of other trips are never touched.              *)
(*                                                                         *)
(* A request runs in one database session.  Its SELECTs take no lock and   *)
(* the isolation is READ COMMITTED, so between any two of its statements   *)
(* other requests may commit.  Each request is therefore a process whose   *)
(* steps are its reads and its commits.  A statement and the COMMIT that   *)
(* follows it directly are one step.  Where a transaction writes and then  *)
(* reads or writes again before it commits, the written rows stay locked   *)
(* in between (Held): other writers of those rows wait.                    *)
(*                                                                         *)
(* A refused request (403, 404, 409, 422) changes nothing and is not a     *)
(* step.  Notification rows, the attendance_update and child_* events and  *)
(* the Redis caches filled by start_trip are left out: no handler here     *)
(* reads them.                                                             *)
(***************************************************************************)
EXTENDS Naturals, FiniteSets

CONSTANTS
  Students,       \* the students of the trip's route
  Stops,          \* the stops of the trip's route
  StopOf,         \* the stop a student is actively assigned to
  Clients,        \* requests that may be in flight at once
  Crashable,      \* those of them that may die half-way
  Endpoints,      \* the requests that are sent (a bound on the environment)
  MaxAlerts,      \* per alert type: alerts of one student at which no further
                  \* request that may raise one is accepted (bound)
  MaxCompletions  \* completions after which no start is accepted (bound)

\* The sixth value of the column's type, "incident", is written nowhere.
TripStatus == {"scheduled", "in_progress", "pending_safeguard_check",
               "completed", "cancelled"}
Active == {"in_progress", "pending_safeguard_check"}

\* "none": there is no attendance row for the student.
AttendanceStatus == {"boarded", "absent", "absent_parent_marked"}
RowStatus == AttendanceStatus \cup {"none"}

AlertType == {"child_not_dropped", "child_not_boarded"}

ASSUME StopsAssumption == StopOf \in [Students -> Stops]
ASSUME ClientsAssumption == IsFiniteSet(Clients) /\ Crashable \subseteq Clients
ASSUME BoundsAssumption ==
  /\ MaxAlerts \in [AlertType -> Nat]
  /\ MaxCompletions \in Nat

VARIABLES
  status,       \* trips.status
  checked,      \* trips.safeguarding_checked
  attendance,   \* attendance_records.status, by student
  dropped,      \* students whose row has dropped_at set
  raised,       \* alert rows inserted so far, by type and student
  open,         \* the alerts <<type, student, number>> with resolved_at NULL
  starts,       \* history: UPDATEs by start_trip
  completions,  \* history: UPDATEs that moved the trip into completed
  ended,        \* history: trip_ended events emitted
  pc,           \* where each request is; "idle" between requests
  named,        \* the students a request names
  found,        \* the students its last read matched and it has yet to handle
  entries,      \* attendance written by a request and not yet committed
  picked,       \* the alert a request resolves or has resolved
  late          \* history: children who came on board after a request's gate
                \* found none, while it is about to complete the trip

tripVars == <<status, checked, starts, completions>>
rowVars == <<attendance, dropped>>
alertVars == <<raised, open>>
locals == <<named, found, entries, picked>>
vars == <<status, checked, attendance, dropped, raised, open, starts,
          completions, ended, pc, named, found, entries, picked, late>>

Alert == AlertType \X Students \X (Nat \ {0})
NoEntries == [s \in Students |-> "none"]

PC == {"idle", "start_write", "cancel_write", "mark_write", "unmark_write",
       "submit_commit", "end_select", "end_hold", "drop_rows", "drop_commit",
       "resolve_commit", "gate_select", "complete", "emit"}

TypeOK ==
  /\ status \in TripStatus
  /\ checked \in BOOLEAN
  /\ attendance \in [Students -> RowStatus]
  /\ dropped \subseteq Students
  /\ raised \in [AlertType -> [Students -> Nat]]
  /\ open \subseteq Alert
  /\ starts \in Nat
  /\ completions \in Nat
  /\ ended \in Nat
  /\ pc \in [Clients -> PC]
  /\ named \in [Clients -> SUBSET Students]
  /\ found \in [Clients -> SUBSET Students]
  /\ entries \in [Clients -> [Students -> RowStatus]]
  /\ picked \in [Clients -> SUBSET Alert]
  /\ late \in [Clients -> SUBSET Students]

Init ==
  /\ status = "scheduled"
  /\ checked = FALSE
  /\ attendance = [s \in Students |-> "none"]
  /\ dropped = {}
  /\ raised = [t \in AlertType |-> [s \in Students |-> 0]]
  /\ open = {}
  /\ starts = 0
  /\ completions = 0
  /\ ended = 0
  /\ pc = [c \in Clients |-> "idle"]
  /\ named = [c \in Clients |-> {}]
  /\ found = [c \in Clients |-> {}]
  /\ entries = [c \in Clients |-> NoEntries]
  /\ picked = [c \in Clients |-> {}]
  /\ late = [c \in Clients |-> {}]

-----------------------------------------------------------------------------
(* Helpers *)

\* The gate's query: status = 'boarded' AND dropped_at IS NULL.
Unaccounted == {s \in Students : attendance[s] = "boarded"} \ dropped

Step(c, from, to) ==
  /\ pc[c] = from
  /\ pc' = [pc EXCEPT ![c] = to]

\* The request returns (or dies): its session is closed, its locals are gone.
Release(c) ==
  /\ named' = [named EXCEPT ![c] = {}]
  /\ found' = [found EXCEPT ![c] = {}]
  /\ entries' = [entries EXCEPT ![c] = NoEntries]
  /\ picked' = [picked EXCEPT ![c] = {}]

Return(c, from) == Step(c, from, "idle") /\ Release(c)

\* Attendance rows that a request has written in a transaction still open.
Listed(e) == {s \in Students : e[s] # "none"}
Held(c) == IF pc[c] = "drop_commit" THEN found[c] ELSE Listed(entries[c])
Unlocked(S, c) == \A d \in Clients \ {c} : Held(d) \cap S = {}

\* Every write of attendance rows ends with this, to keep "late" up to date.
NoteLate ==
  late' = [d \in Clients |->
             IF pc[d] = "complete" THEN late[d] \cup (Unaccounted' \ Unaccounted)
             ELSE {}]

\* An alert of type t is inserted for each student of S; no row is ever
\* looked for first.
Raise(t, S) ==
  /\ raised' = [raised EXCEPT ![t] =
                  [s \in Students |-> IF s \in S THEN raised[t][s] + 1
                                      ELSE raised[t][s]]]
  /\ open' = open \cup {<<t, s, raised[t][s] + 1>> : s \in S}

\* Bound: a request that may raise an alert for S is accepted.
MayRaise(t, S) == \A s \in S : raised[t][s] < MaxAlerts[t]

\* Rows after the upserts of e; dropped_at is not among the columns set.
Upserted(e) ==
  [s \in Students |-> IF e[s] = "none" THEN attendance[s] ELSE e[s]]

-----------------------------------------------------------------------------
(* start_trip and cancel_trip: the status is read, checked, and then written
   by primary key (the ORM's UPDATE has no condition on the old status). *)

StartRead(c) ==
  /\ status = "scheduled"
  /\ completions < MaxCompletions
  /\ Step(c, "idle", "start_write")
  /\ UNCHANGED <<tripVars, rowVars, alertVars, ended, locals, late>>

StartWrite(c) ==
  /\ Return(c, "start_write")
  /\ status' = "in_progress"
  /\ starts' = starts + 1
  /\ UNCHANGED <<checked, completions, rowVars, alertVars, ended, late>>

CancelRead(c) ==
  /\ status \notin {"completed", "cancelled"}
  /\ Step(c, "idle", "cancel_write")
  /\ UNCHANGED <<tripVars, rowVars, alertVars, ended, locals, late>>

CancelWrite(c) ==
  /\ Return(c, "cancel_write")
  /\ status' = "cancelled"
  /\ UNCHANGED <<checked, starts, completions, rowVars, alertVars, ended, late>>

-----------------------------------------------------------------------------
(* mark_student_absent and cancel_student_absent: a parent, for one child. *)

\* Fault: the departure check is missing.
MarkAbsentReadAnyTime(c) ==
  /\ Step(c, "idle", "mark_write")
  /\ \E s \in Students : named' = [named EXCEPT ![c] = {s}]
  /\ UNCHANGED <<tripVars, rowVars, alertVars, ended, found, entries, picked, late>>

MarkAbsentRead(c) ==
  /\ status = "scheduled"
  /\ Step(c, "idle", "mark_write")
  /\ \E s \in Students : named' = [named EXCEPT ![c] = {s}]
  /\ UNCHANGED <<tripVars, rowVars, alertVars, ended, found, entries, picked, late>>

\* Upsert: an existing row, whatever its status, becomes absent_parent_marked.
MarkAbsentWrite(c) ==
  /\ Return(c, "mark_write")
  /\ Unlocked(named[c], c)
  /\ attendance' = [s \in Students |-> IF s \in named[c] THEN "absent_parent_marked"
                                       ELSE attendance[s]]
  /\ UNCHANGED <<tripVars, dropped, alertVars, ended>>
  /\ NoteLate

UnmarkAbsentRead(c) ==
  /\ status = "scheduled"
  /\ Step(c, "idle", "unmark_write")
  /\ \E s \in Students : named' = [named EXCEPT ![c] = {s}]
  /\ UNCHANGED <<tripVars, rowVars, alertVars, ended, found, entries, picked, late>>

\* DELETE ... WHERE status = 'absent_parent_marked': the whole row goes.  Like
\* every conditional write it waits only for the rows that match.
UnmarkAbsentWrite(c) ==
  LET deleted == {s \in named[c] : attendance[s] = "absent_parent_marked"} IN
  /\ Return(c, "unmark_write")
  /\ Unlocked(deleted, c)
  /\ attendance' = [s \in Students |-> IF s \in deleted THEN "none"
                                       ELSE attendance[s]]
  /\ dropped' = dropped \ deleted
  /\ UNCHANGED <<tripVars, alertVars, ended>>
  /\ NoteLate

-----------------------------------------------------------------------------
(* submit_stop_attendance / process_stop_attendance, in any trip status.     *)

\* Fault: a child the parent excused counts as missing.
SubmitUpsertNoExcuse(c) ==
  /\ Step(c, "idle", "submit_commit")
  /\ \E p \in Stops, e \in [Students -> RowStatus] :
       LET missing == {s \in Students : StopOf[s] = p} \ Listed(e)
       IN /\ Unlocked(Listed(e), c)
          /\ MayRaise("child_not_boarded", missing)
          /\ entries' = [entries EXCEPT ![c] = e]
          /\ found' = [found EXCEPT ![c] = missing]
  /\ UNCHANGED <<tripVars, rowVars, alertVars, ended, named, picked, late>>

\* The listed students of a stop submission are upserted; the students
\* assigned to the stop and not listed, unless a parent has marked them
\* absent, are to be alerted about.  Nothing is committed yet.
SubmitUpsert(c) ==
  /\ Step(c, "idle", "submit_commit")
  /\ \E p \in Stops, e \in [Students -> RowStatus] :
       LET missing == {s \in Students : /\ StopOf[s] = p
                                        /\ s \notin Listed(e)
                                        /\ attendance[s] # "absent_parent_marked"}
       IN /\ Unlocked(Listed(e), c)
          /\ MayRaise("child_not_boarded", missing)
          /\ entries' = [entries EXCEPT ![c] = e]
          /\ found' = [found EXCEPT ![c] = missing]
  /\ UNCHANGED <<tripVars, rowVars, alertVars, ended, named, picked, late>>

\* One missing student: the alert is added and notify() commits it, together
\* with the upserts if they are still pending.
SubmitAlert(c) ==
  /\ pc[c] = "submit_commit"
  /\ attendance' = Upserted(entries[c])
  /\ \E s \in found[c] :
       /\ Raise("child_not_boarded", {s})
       /\ found' = [found EXCEPT ![c] = @ \ {s}]
  /\ entries' = [entries EXCEPT ![c] = NoEntries]
  /\ UNCHANGED <<tripVars, dropped, ended, pc, named, picked>>
  /\ NoteLate

\* The last commit of the handler.
SubmitDone(c) ==
  /\ Return(c, "submit_commit")
  /\ found[c] = {}
  /\ attendance' = Upserted(entries[c])
  /\ UNCHANGED <<tripVars, dropped, alertVars, ended>>
  /\ NoteLate

-----------------------------------------------------------------------------
(* end_trip: the safeguarding gate. *)

EndRead(c) ==
  /\ status = "in_progress"
  /\ MayRaise("child_not_dropped", Students)
  /\ Step(c, "idle", "end_select")
  /\ UNCHANGED <<tripVars, rowVars, alertVars, ended, locals, late>>

EndClear(c) ==
  /\ Unaccounted = {}
  /\ Step(c, "end_select", "complete")
  /\ UNCHANGED <<tripVars, rowVars, alertVars, ended, locals, late>>

EndUnaccounted(c) ==
  /\ Unaccounted # {}
  /\ Step(c, "end_select", "end_hold")
  /\ found' = [found EXCEPT ![c] = Unaccounted]
  /\ UNCHANGED <<tripVars, rowVars, alertVars, ended, named, entries, picked, late>>

\* Fault: only one of the children found is alerted about.
EndHoldOneAlert(c) ==
  /\ Return(c, "end_hold")
  /\ \E s \in found[c] : Raise("child_not_dropped", {s})
  /\ status' = IF status = "in_progress" THEN "pending_safeguard_check" ELSE status
  /\ UNCHANGED <<checked, starts, completions, rowVars, ended, late>>

\* Fault: the status is committed without the alerts.
EndHoldNoAlert(c) ==
  /\ Return(c, "end_hold")
  /\ status' = IF status = "in_progress" THEN "pending_safeguard_check" ELSE status
  /\ UNCHANGED <<checked, starts, completions, rowVars, alertVars, ended, late>>

\* The alerts, and UPDATE ... WHERE status = 'in_progress', in one commit.
EndHold(c) ==
  /\ Return(c, "end_hold")
  /\ Raise("child_not_dropped", found[c])
  /\ status' = IF status = "in_progress" THEN "pending_safeguard_check" ELSE status
  /\ UNCHANGED <<checked, starts, completions, rowVars, ended, late>>

-----------------------------------------------------------------------------
(* drop_students *)

DropRead(c) ==
  /\ status \in Active
  /\ Step(c, "idle", "drop_rows")
  /\ \E S \in SUBSET Students : named' = [named EXCEPT ![c] = S]
  /\ UNCHANGED <<tripVars, rowVars, alertVars, ended, found, entries, picked, late>>

\* UPDATE ... WHERE student_id IN (...) AND status = 'boarded': the rows that
\* match are locked until the commit.
DropRows(c) ==
  LET matched == {s \in named[c] : attendance[s] = "boarded"} IN
  /\ Step(c, "drop_rows", "drop_commit")
  /\ Unlocked(matched, c)
  /\ found' = [found EXCEPT ![c] = matched]
  /\ UNCHANGED <<tripVars, rowVars, alertVars, ended, named, entries, picked, late>>

\* Fault: the drop leaves the children's alerts open.
DropCommitKeepsAlerts(c) ==
  /\ Step(c, "drop_commit", "gate_select")
  /\ dropped' = dropped \cup found[c]
  /\ named' = [named EXCEPT ![c] = {}]
  /\ found' = [found EXCEPT ![c] = {}]
  /\ UNCHANGED <<tripVars, attendance, alertVars, ended, entries, picked>>
  /\ NoteLate

\* Fault: the gate is not run again after a drop.
DropCommitNoGate(c) ==
  /\ Return(c, "drop_commit")
  /\ dropped' = dropped \cup found[c]
  /\ open' = {a \in open : ~(a[1] = "child_not_dropped" /\ a[2] \in named[c])}
  /\ UNCHANGED <<tripVars, attendance, raised, ended>>
  /\ NoteLate

\* The unresolved child_not_dropped alerts of the named students, whether or
\* not their rows matched, are resolved in the same transaction.
DropCommit(c) ==
  /\ Step(c, "drop_commit", "gate_select")
  /\ dropped' = dropped \cup found[c]
  /\ open' = {a \in open : ~(a[1] = "child_not_dropped" /\ a[2] \in named[c])}
  /\ named' = [named EXCEPT ![c] = {}]
  /\ found' = [found EXCEPT ![c] = {}]
  /\ UNCHANGED <<tripVars, attendance, raised, ended, entries, picked>>
  /\ NoteLate

-----------------------------------------------------------------------------
(* resolve_alert / resolve_alert_and_maybe_complete, for any type of alert. *)

ResolveRead(c) ==
  /\ Step(c, "idle", "resolve_commit")
  /\ \E a \in open : picked' = [picked EXCEPT ![c] = {a}]
  /\ UNCHANGED <<tripVars, rowVars, alertVars, ended, named, found, entries, late>>

ResolveCommit(c) ==
  /\ Step(c, "resolve_commit", "gate_select")
  /\ open' = open \ picked[c]
  /\ UNCHANGED <<tripVars, rowVars, raised, ended, locals, late>>

-----------------------------------------------------------------------------
(* _complete_if_clear and _complete_trip, shared by end, drop and resolve. *)

\* Fault: the gate does not look.
GateClearBlind(c) ==
  /\ Step(c, "gate_select", "complete")
  /\ UNCHANGED <<tripVars, rowVars, alertVars, ended, locals, late>>

GateClear(c) ==
  /\ Unaccounted = {}
  /\ Step(c, "gate_select", "complete")
  /\ UNCHANGED <<tripVars, rowVars, alertVars, ended, locals, late>>

GateBlocked(c) ==
  /\ Unaccounted # {}
  /\ Return(c, "gate_select")
  /\ UNCHANGED <<tripVars, rowVars, alertVars, ended, late>>

\* Faults: the UPDATE has no condition on the status; it writes a value the
\* status type does not have.
CompleteAnyStatus(c) ==
  /\ Step(c, "complete", "emit")
  /\ status' = "completed"
  /\ checked' = TRUE
  /\ completions' = completions + 1
  /\ late' = [late EXCEPT ![c] = {}]
  /\ UNCHANGED <<starts, rowVars, alertVars, ended, locals>>
CompleteMisnamed(c) ==
  /\ status \in Active
  /\ Step(c, "complete", "emit")
  /\ status' = "ended"
  /\ checked' = TRUE
  /\ completions' = completions + 1
  /\ late' = [late EXCEPT ![c] = {}]
  /\ UNCHANGED <<starts, rowVars, alertVars, ended, locals>>

\* UPDATE ... WHERE status IN ('in_progress', 'pending_safeguard_check');
\* only the request whose UPDATE matched goes on to emit trip_ended.
Complete(c) ==
  /\ status \in Active
  /\ Step(c, "complete", "emit")
  /\ status' = "completed"
  /\ checked' = TRUE
  /\ completions' = completions + 1
  /\ late' = [late EXCEPT ![c] = {}]
  /\ UNCHANGED <<starts, rowVars, alertVars, ended, locals>>

\* Fault: the loser of the UPDATE announces the end as well.
CompleteNoopEmits(c) ==
  /\ status \notin Active
  /\ Step(c, "complete", "emit")
  /\ late' = [late EXCEPT ![c] = {}]
  /\ UNCHANGED <<tripVars, rowVars, alertVars, ended, locals>>

CompleteNoop(c) ==
  /\ status \notin Active
  /\ Return(c, "complete")
  /\ late' = [late EXCEPT ![c] = {}]
  /\ UNCHANGED <<tripVars, rowVars, alertVars, ended>>

EmitTripEnded(c) ==
  /\ Return(c, "emit")
  /\ ended' = ended + 1
  /\ UNCHANGED <<tripVars, rowVars, alertVars, late>>

-----------------------------------------------------------------------------
(* A request dies: the process restarts, or a later statement fails or is
   chosen as a deadlock victim.  What it committed stays.  At "emit" it also
   stands for an emission that raises, which the code catches and logs. *)

Fail(c) ==
  /\ c \in Crashable
  /\ pc[c] # "idle"
  /\ pc' = [pc EXCEPT ![c] = "idle"]
  /\ Release(c)
  /\ late' = [late EXCEPT ![c] = {}]
  /\ UNCHANGED <<tripVars, rowVars, alertVars, ended>>

Begin(c) ==
  \/ "start" \in Endpoints /\ StartRead(c)
  \/ "cancel" \in Endpoints /\ CancelRead(c)
  \/ "absent" \in Endpoints /\ (MarkAbsentRead(c) \/ UnmarkAbsentRead(c))
  \/ "attendance" \in Endpoints /\ SubmitUpsert(c)
  \/ "end" \in Endpoints /\ EndRead(c)
  \/ "drop" \in Endpoints /\ DropRead(c)
  \/ "resolve" \in Endpoints /\ ResolveRead(c)

\* What a request does once it has been accepted.
Continue(c) ==
  \/ StartWrite(c) \/ CancelWrite(c)
  \/ MarkAbsentWrite(c) \/ UnmarkAbsentWrite(c)
  \/ SubmitAlert(c) \/ SubmitDone(c)
  \/ EndClear(c) \/ EndUnaccounted(c) \/ EndHold(c)
  \/ DropRows(c) \/ DropCommit(c)
  \/ ResolveCommit(c)
  \/ GateClear(c) \/ GateBlocked(c)
  \/ Complete(c) \/ CompleteNoop(c) \/ EmitTripEnded(c)

Next == \E c \in Clients : Begin(c) \/ Continue(c) \/ Fail(c)

Spec == Init /\ [][Next]_vars

\* The event loop resumes every handler whose statement has returned, and
\* Postgres grants a row lock to its waiters in the order in which they came,
\* so a request blocked again and again on a row gets its turn (strong
\* fairness).  Nothing obliges anybody to send a request.
FairSpec == Spec /\ \A c \in Clients : SF_vars(Continue(c))

-----------------------------------------------------------------------------
(* Properties that hold however requests interleave and wherever they die. *)

OpenAlert(t, s) == \E a \in open : a[1] = t /\ a[2] = s

\* The only children a completing request can overlook are those whose row
\* turned "boarded" after its own SELECT: nothing a request did before its
\* gate query, and no other path to the UPDATE, gets past the gate
\* (_complete_if_clear and end_trip, then _complete_trip).
GateMissesOnlyLate ==
  \A c \in Clients : pc[c] = "complete" => Unaccounted \subseteq late[c]

\* trip_ended is emitted at most once for each time the trip is completed,
\* whatever number of requests reach _complete_trip together: only the one
\* whose conditional UPDATE matched the row goes on to emit.
Emitters == {c \in Clients : pc[c] = "emit"}
EmittedOncePerCompletion == ended + Cardinality(Emitters) <= completions

\* A trip is completed at most once for each time it was started.  Several
\* starts may have read "scheduled" before one wrote, and a late one puts a
\* completed or cancelled trip back in progress (start_trip writes by primary
\* key); however many gates then race, a start buys one completion, because
\* _complete_trip's UPDATE matches only an active trip.
CompletedOncePerStart == completions <= starts

\* A trip is never held for safeguarding without an alert row that says why:
\* end_trip commits the alerts and the status together, and a request that
\* dies commits neither.
PendingWasAlerted ==
  status = "pending_safeguard_check"
    => \E s \in Students : raised["child_not_dropped"][s] > 0

\* When the drop-offs in flight cover, between them, every child still on
\* board, the active trip ends, whichever commits last and whatever each gate
\* query saw of the others, unless attendance is submitted meanwhile
\* (FairSpec, no request dies).
Dropping == {c \in Clients : pc[c] \in {"drop_rows", "drop_commit"}}
BeingDropped(c) == IF pc[c] = "drop_rows" THEN named[c] ELSE found[c]
LastDropCompletes ==
  (/\ status \in Active
   /\ Dropping # {}
   /\ Unaccounted \subseteq UNION {BeingDropped(c) : c \in Dropping})
    ~> (status \notin Active \/ \E c \in Clients : pc[c] = "submit_commit")

-----------------------------------------------------------------------------
(* Properties that hold when the requests on a trip do not overlap (one
   client), and fail otherwise. *)

\* A trip becomes completed only when every boarded child is dropped.
GateSound ==
  [][status' = "completed" /\ status # "completed" => Unaccounted = {}]_vars

\* When the gate holds a trip, every boarded and undropped child has an
\* unresolved child_not_dropped alert.
HoldAlertsEveryChild ==
  [][(status' = "pending_safeguard_check" /\ status # status')
       => \A s \in Unaccounted : OpenAlert("child_not_dropped", s)']_vars

\* A dropped child has no unresolved child_not_dropped alert: the drop
\* resolves the alert that end_trip raised, and no later one is raised.
DroppedHasNoOpenAlert ==
  \A s \in dropped : ~OpenAlert("child_not_dropped", s)

\* A parent's mark or withdrawal changes the roster only before departure.
AbsenceBeforeDeparture ==
  [][(attendance' # attendance /\ \E c \in Clients :
        pc[c] \in {"mark_write", "unmark_write"} /\ pc'[c] = "idle")
       => status = "scheduled"]_vars

\* No child_not_boarded alert is raised for a child a parent excused.
NoAlertForExcused ==
  [][\A s \in Students :
       raised'["child_not_boarded"][s] # raised["child_not_boarded"][s]
         => attendance'[s] # "absent_parent_marked"]_vars

\* The handlers implement the gate's abstract promise: in particular a
\* completed or cancelled trip stays so, and trip_ended is emitted once.
Lifecycle == INSTANCE TripLifecycle WITH onboard <- Unaccounted, announced <- ended
ImplementsLifecycle == Lifecycle!Spec

=============================================================================
