---------------------------- MODULE GpsTracking ----------------------------
(***************************************************************************)
(* The GPS points of one trip in progress: from the driver's socket to the *)
(* rows of gps_logs, through the Redis list gps:buffer (backend/app/       *)
(* tracking/socket_handlers.py, gps_buffer.py, core/scheduler.py, main.py),*)
(* and what a parent sees who watches the trip: the room the page joins    *)
(* and the "tracking paused" banner (frontend/src/lib/hooks/useTripRoom.ts,*)
(* stores/liveTrip.ts).                                                    *)
(*                                                                         *)
(* Three kinds of coroutine run in one process: a handler per point, the   *)
(* flush loop, and the pause check, of which the scheduler runs one at a   *)
(* time.  A step is one call to Redis or PostgreSQL, or one event emitted; *)
(* reads that follow one another are one step.                             *)
(* Redis and PostgreSQL outlive the process.                               *)
(*                                                                         *)
(* A call may also take effect and its answer be lost.  Where the code     *)
(* then does something else than after either outcome, this is an action   *)
(* of its own (SetLastUnanswered, FlushTrimUnanswered); an RPUSH whose     *)
(* answer is lost is Push followed by SetLastFails, and after an INSERT    *)
(* the code does the same whether it was answered or not.                  *)
(* Points whose coordinates are no numbers are left out.                   *)
(***************************************************************************)
EXTENDS Naturals, Sequences, FiniteSets

CONSTANTS
  Points,       \* the points the driver's phone sends
  Faults,       \* what may happen: "redis" or "db" fails, "shutdown"
  MaxFaults,    \* how often, in all (bound)
  MaxVisits     \* how often the parent opens the page (bound)

ASSUME PointsAssumption == IsFiniteSet(Points)
ASSUME FaultsAssumption == Faults \subseteq {"redis", "db", "shutdown"}
ASSUME BoundsAssumption == MaxFaults \in Nat /\ MaxVisits \in Nat

VARIABLES
  process,     \* "up", "stopping" (the flush loop was cancelled) or "down"
  handler,     \* where the handler of each point is
  buffer,      \* Redis gps:buffer
  rows,        \* how many rows of gps_logs each point has
  flusher,     \* where the flush is
  batch,       \* the points it has read
  last,        \* how old the fix in Redis gps:last is
  flag,        \* Redis gps:paused is set
  checker,     \* where the pause check is
  banner,      \* the parent is shown that tracking is paused
  viewer,      \* the parent's page: "away", "joining" or "joined" the room of
               \* the trip, "offline", or connected but "outside" the room
  visits,      \* how often it was opened
  pushed,      \* history: points pushed to the list
  refiled,     \* history: points written directly though already pushed
  dropped,     \* history: points whose INSERT failed, was cut off or was never
               \* made, in the flush that trimmed them or in their handler
  faults       \* how many faults there have been

store == <<buffer, rows>>
flush == <<flusher, batch>>
pause == <<flag, checker>>
parent == <<banner, viewer, visits>>
history == <<pushed, refiled, dropped>>
vars == <<process, handler, store, flush, last, pause, parent, history, faults>>

HandlerPC == {"unsent", "last", "write", "emit", "done", "gone"}
FlusherPC == {"sleep", "read", "trim", "insert"}
CheckerPC == {"idle", "emit", "set", "clear"}
ViewerState == {"away", "joining", "joined", "offline", "outside"}

TypeOK ==
  /\ process \in {"up", "stopping", "down"}
  /\ handler \in [Points -> HandlerPC]
  /\ buffer \in Seq(Points)
  /\ rows \in [Points -> Nat]
  /\ flusher \in FlusherPC
  /\ batch \in Seq(Points)
  /\ last \in {"none", "fresh", "stale"}
  /\ flag \in BOOLEAN
  /\ checker \in CheckerPC
  /\ banner \in BOOLEAN
  /\ viewer \in ViewerState
  /\ visits \in Nat
  /\ pushed \subseteq Points
  /\ refiled \subseteq Points
  /\ dropped \subseteq Points
  /\ faults \in Nat

Init ==
  /\ process = "up"
  /\ handler = [p \in Points |-> "unsent"]
  /\ buffer = <<>>
  /\ rows = [p \in Points |-> 0]
  /\ flusher = "sleep"
  /\ batch = <<>>
  /\ last = "none"
  /\ flag = FALSE
  /\ checker = "idle"
  /\ banner = FALSE
  /\ viewer = "away"
  /\ visits = 0
  /\ pushed = {}
  /\ refiled = {}
  /\ dropped = {}
  /\ faults = 0

Elements(s) == {s[i] : i \in 1..Len(s)}

Copies(s, p) == Cardinality({i \in 1..Len(s) : s[i] = p})

Fault(kind) ==
  /\ kind \in Faults
  /\ faults < MaxFaults
  /\ faults' = faults + 1

-----------------------------------------------------------------------------
(* location_update *)

Handle(p, from, to) ==
  /\ process # "down"
  /\ handler[p] = from
  /\ handler' = [handler EXCEPT ![p] = to]

\* Not the driver, more than one point in three seconds, or no coordinates.
Refuse(p) ==
  /\ Handle(p, "unsent", "gone")
  /\ UNCHANGED <<process, store, flush, last, pause, parent, history, faults>>

\* The driver's socket, within its rate.
Push(p) ==
  /\ Handle(p, "unsent", "last")
  /\ buffer' = Append(buffer, p)
  /\ pushed' = pushed \cup {p}
  /\ UNCHANGED <<process, rows, flush, last, pause, parent, refiled, dropped,
                 faults>>

\* Redis does not answer, to the question who drives or to the push.
PushFails(p) ==
  /\ Fault("redis")
  /\ Handle(p, "unsent", "write")
  /\ UNCHANGED <<process, store, flush, last, pause, parent, history>>

SetLast(p) ==
  /\ Handle(p, "last", "emit")
  /\ last' = "fresh"
  /\ UNCHANGED <<process, store, flush, pause, parent, history, faults>>

\* The point is in the list, and is written directly as well.
SetLastFails(p) ==
  /\ Fault("redis")
  /\ Handle(p, "last", "write")
  /\ refiled' = refiled \cup {p}
  /\ UNCHANGED <<process, store, flush, last, pause, parent, pushed, dropped>>

\* The SET takes effect and its answer is lost.
SetLastUnanswered(p) ==
  /\ Fault("redis")
  /\ Handle(p, "last", "write")
  /\ last' = "fresh"
  /\ refiled' = refiled \cup {p}
  /\ UNCHANGED <<process, store, flush, pause, parent, pushed, dropped>>

\* _fallback_db_write.
Write(p) ==
  /\ Handle(p, "write", "emit")
  /\ rows' = [rows EXCEPT ![p] = @ + 1]
  /\ UNCHANGED <<process, buffer, flush, last, pause, parent, history, faults>>

\* The error is logged, and the point broadcast all the same.
WriteFails(p) ==
  /\ Fault("db")
  /\ Handle(p, "write", "emit")
  /\ dropped' = dropped \cup {p}
  /\ UNCHANGED <<process, store, flush, last, pause, parent, pushed, refiled>>

\* Broadcast to the room; a fresh fix clears the banner.
Broadcast(p) ==
  /\ Handle(p, "emit", "done")
  /\ banner' = (banner /\ viewer # "joined")
  /\ UNCHANGED <<process, store, flush, last, pause, viewer, visits, history,
                 faults>>

\* A handler on its way, and no call of it fails.
Handler(p) == SetLast(p) \/ Write(p) \/ Broadcast(p)

-----------------------------------------------------------------------------
(* The process ends, and its coroutines and sockets with it. *)

\* Points the flush has trimmed and not inserted.
InFlight == IF flusher = "insert" THEN Elements(batch) ELSE {}

EndProcess ==
  /\ process' = "down"
  /\ handler' = [p \in Points |-> IF handler[p] \in {"unsent", "done"}
                                  THEN handler[p] ELSE "gone"]
  /\ flusher' = "sleep"
  /\ batch' = <<>>
  /\ checker' = "idle"
  /\ viewer' = IF viewer = "away" THEN "away" ELSE "offline"
  /\ dropped' = dropped \cup InFlight
  /\ UNCHANGED <<store, last, flag, banner, visits, pushed, refiled>>

\* lifespan cancels the flush loop: CancelledError is raised where it awaits,
\* the flush it was in is given up, and one more begins.
Shutdown ==
  /\ process = "up"
  /\ Fault("shutdown")
  /\ process' = "stopping"
  /\ flusher' = "read"
  /\ batch' = <<>>
  /\ dropped' = dropped \cup InFlight
  /\ UNCHANGED <<handler, store, last, pause, parent, pushed, refiled>>

\* lifespan does not wait for the loop it cancelled: what is left of it is
\* cancelled once more when the event loop closes.  A process that is killed is
\* Shutdown followed by Exit at once.
Exit ==
  /\ process = "stopping"
  /\ EndProcess
  /\ UNCHANGED faults

Start ==
  /\ process = "down"
  /\ process' = "up"
  /\ UNCHANGED <<handler, store, flush, last, pause, parent, history, faults>>

-----------------------------------------------------------------------------
(* flush_gps_buffer and the loop that sleeps and calls it. *)

FlushStart ==
  /\ process = "up"
  /\ flusher = "sleep"
  /\ flusher' = "read"
  /\ UNCHANGED <<process, handler, store, batch, last, pause, parent, history,
                 faults>>

\* The loop sleeps again, or ends if it was cancelled.
FlushOver ==
  /\ flusher' = "sleep"
  /\ batch' = <<>>
  /\ UNCHANGED <<process, handler, last, pause, parent>>

\* Fault: LRANGE 0 -2.
FlushReadShort ==
  /\ flusher = "read"
  /\ buffer # <<>>
  /\ flusher' = "trim"
  /\ batch' = SubSeq(buffer, 1, Len(buffer) - 1)
  /\ UNCHANGED <<process, handler, store, last, pause, parent, history, faults>>

\* LRANGE 0 -1.
FlushRead ==
  /\ flusher = "read"
  /\ buffer # <<>>
  /\ flusher' = "trim"
  /\ batch' = buffer
  /\ UNCHANGED <<process, handler, store, last, pause, parent, history, faults>>

FlushNothing ==
  /\ flusher = "read"
  /\ buffer = <<>>
  /\ FlushOver
  /\ UNCHANGED <<store, history, faults>>

\* Fault: the list is deleted.
FlushDelete ==
  /\ flusher = "trim"
  /\ flusher' = "insert"
  /\ buffer' = <<>>
  /\ UNCHANGED <<process, handler, rows, batch, last, pause, parent, history,
                 faults>>

\* Fault: LTRIM n-1 -1.
FlushTrimShort ==
  /\ flusher = "trim"
  /\ flusher' = "insert"
  /\ buffer' = SubSeq(buffer, Len(batch), Len(buffer))
  /\ UNCHANGED <<process, handler, rows, batch, last, pause, parent, history,
                 faults>>

\* LTRIM n -1: what was pushed since the read stays.
FlushTrim ==
  /\ flusher = "trim"
  /\ flusher' = "insert"
  /\ buffer' = SubSeq(buffer, Len(batch) + 1, Len(buffer))
  /\ UNCHANGED <<process, handler, rows, batch, last, pause, parent, history,
                 faults>>

\* The LTRIM takes effect and its answer is lost: the flush goes on to the next
\* trip, and the points it had read are nowhere.
FlushTrimUnanswered ==
  /\ flusher = "trim"
  /\ Fault("redis")
  /\ buffer' = SubSeq(buffer, Len(batch) + 1, Len(buffer))
  /\ dropped' = dropped \cup Elements(batch)
  /\ FlushOver
  /\ UNCHANGED <<rows, pushed, refiled>>

\* The call fails, and has no effect.
FlushRedisFails ==
  /\ flusher \in {"read", "trim"}
  /\ Fault("redis")
  /\ FlushOver
  /\ UNCHANGED <<store, history>>

\* Fault: the rows of other points are forgotten.
FlushReplace ==
  /\ flusher = "insert"
  /\ rows' = [p \in Elements(batch) |-> rows[p] + Copies(batch, p)]
  /\ FlushOver
  /\ UNCHANGED <<buffer, history, faults>>

\* One INSERT of all of them, committed.
FlushInsert ==
  /\ flusher = "insert"
  /\ rows' = [p \in Points |-> rows[p] + Copies(batch, p)]
  /\ FlushOver
  /\ UNCHANGED <<buffer, history, faults>>

\* The error is logged; the points are in the list no more.
FlushInsertFails ==
  /\ flusher = "insert"
  /\ Fault("db")
  /\ dropped' = dropped \cup InFlight
  /\ FlushOver
  /\ UNCHANGED <<store, pushed, refiled>>

Flush ==
  FlushStart \/ FlushRead \/ FlushNothing \/ FlushTrim \/ FlushInsert

-----------------------------------------------------------------------------
(* check_tracking_paused *)

Check(from, to) ==
  /\ process # "down"
  /\ checker = from
  /\ checker' = to
  /\ UNCHANGED <<process, handler, store, flush, last, viewer, visits, history>>

\* Announce a silence once; clear a flag left over from the one before.
CheckRead ==
  /\ process = "up"
  /\ \/ last = "stale" /\ ~flag /\ Check("idle", "emit")
     \/ last = "fresh" /\ flag /\ Check("idle", "clear")
  /\ UNCHANGED <<flag, banner, faults>>

CheckEmit ==
  /\ Check("emit", "set")
  /\ banner' = (banner \/ viewer = "joined")
  /\ UNCHANGED <<flag, faults>>

CheckSet ==
  /\ Check("set", "idle")
  /\ flag' = TRUE
  /\ UNCHANGED <<banner, faults>>

CheckClear ==
  /\ Check("clear", "idle")
  /\ flag' = FALSE
  /\ UNCHANGED <<banner, faults>>

CheckFails ==
  /\ checker \in {"set", "clear"}
  /\ Fault("redis")
  /\ Check(checker, "idle")
  /\ UNCHANGED <<flag, banner>>

PauseCheck == CheckRead \/ CheckEmit \/ CheckSet \/ CheckClear

-----------------------------------------------------------------------------
(* Time, and the parent's page *)

\* No fix for GPS_STALE_THRESHOLD_SEC.
Age ==
  /\ last = "fresh"
  /\ last' = "stale"
  /\ UNCHANGED <<process, handler, store, flush, pause, parent, history, faults>>

\* Fault: gps:paused has no expiry.
FlagStays ==
  /\ flag
  /\ UNCHANGED vars

\* gps:paused is set to expire.
FlagExpires ==
  /\ flag
  /\ flag' = FALSE
  /\ UNCHANGED <<process, handler, store, flush, last, checker, parent, history,
                 faults>>

View(from, to) ==
  /\ viewer \in from
  /\ viewer' = to
  /\ UNCHANGED <<process, handler, store, flush, last, pause, history, faults>>

\* useTripRoom mounts: join_trip is sent, or kept until the socket is connected.
Open ==
  /\ visits < MaxVisits
  /\ visits' = visits + 1
  /\ View({"away"}, "joining")
  /\ UNCHANGED banner

\* join_trip: the parent has a child on the route.
Join ==
  /\ process # "down"
  /\ View({"joining"}, "joined")
  /\ UNCHANGED <<banner, visits>>

\* The page unmounts and leaves the room; the store keeps the banner.
Close ==
  /\ View(ViewerState \ {"away"}, "away")
  /\ UNCHANGED <<banner, visits>>

\* The connection is lost (a tunnel, a phone put to sleep), or there is none
\* within the five seconds that join_trip is kept.
Disconnect ==
  /\ View({"joining", "joined", "outside"}, "offline")
  /\ UNCHANGED <<banner, visits>>

\* Socket.IO connects again under a new id, which is in no trip's room; it gives
\* up when the access token has expired.
Reconnect ==
  /\ process = "up"
  /\ View({"offline"}, "outside")
  /\ UNCHANGED <<banner, visits>>

-----------------------------------------------------------------------------

Next ==
  \/ \E p \in Points :
       \/ Refuse(p) \/ Push(p) \/ PushFails(p)
       \/ Handler(p) \/ SetLastFails(p) \/ SetLastUnanswered(p) \/ WriteFails(p)
  \/ Flush \/ FlushTrimUnanswered \/ FlushRedisFails \/ FlushInsertFails
  \/ PauseCheck \/ CheckFails
  \/ Shutdown \/ Exit \/ Start
  \/ Age \/ FlagExpires
  \/ Open \/ Join \/ Close \/ Disconnect \/ Reconnect

Spec == Init /\ [][Next]_vars

\* asyncio resumes every coroutine whose call has returned, the loop and the
\* scheduler fire again and again, keys expire, a process told to stop does stop
\* and is started again.
Fairness ==
  /\ \A p \in Points : WF_vars(Handler(p))
  /\ WF_vars(Flush)
  /\ WF_vars(PauseCheck)
  /\ WF_vars(FlagExpires)
  /\ WF_vars(Exit)
  /\ WF_vars(Start)
  /\ WF_vars(Join)

FairSpec == Spec /\ Fairness

-----------------------------------------------------------------------------
(* Properties *)

Kept(p) == p \in Elements(buffer) \cup InFlight \/ rows[p] > 0

\* A point whose handler got past storing it is in the list, in the flush that
\* trimmed it, or in gps_logs, unless an INSERT of it failed or was cut off, or
\* its flush trimmed it and, unanswered, never came to the INSERT.
\* No point pushed while a flush runs is trimmed by it unread.
KeptUntilInserted ==
  \A p \in Points :
    handler[p] \in {"last", "emit", "done"} \/ p \in pushed
      => Kept(p) \/ p \in dropped

\* A point is stored once, unless Redis failed, or left a call unanswered, between
\* the push and the end of the SET that follows it; then at most twice.
StoredOnce ==
  \A p \in Points :
    rows[p] + Copies(buffer, p) + (IF p \in InFlight THEN 1 ELSE 0)
      <= IF p \in refiled THEN 2 ELSE 1

\* A point that reached the list gets to gps_logs, unless its INSERT failed, was
\* cut off or was never made.
PushedIsStored ==
  \A p \in Points : p \in pushed ~> rows[p] > 0 \/ p \in dropped

\* A parent in the room of a trip whose GPS went silent is told so.
SilenceIsShown ==
  (last = "stale" /\ viewer = "joined" /\ process = "up")
    ~> (banner \/ last # "stale" \/ viewer # "joined" \/ process # "up")

=============================================================================
