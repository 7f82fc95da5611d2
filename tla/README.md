# YatraTrack (BusManagementSystem): verification project

TLA+ modules that model the backend of YatraTrack and the web application in
front of it, TLC configurations that check them on small instances, and theorems
about them that TLAPS checks. Paths below are relative to the repository; `app/`
stands for `backend/app/`, `web/` for `frontend/src/`.

## 1. The system

YatraTrack runs school buses. A FastAPI backend (one uvicorn process, asyncio)
keeps its state in PostgreSQL through async SQLAlchemy sessions and in Redis,
and pushes events over Socket.IO. A React application serves drivers, parents,
school admins and a super admin. APScheduler jobs run in the same process.

Every HTTP request has one database session (`app/database.py`, `get_db`).
The isolation level is PostgreSQL's default, READ COMMITTED; no handler takes a
row lock explicitly; sessions keep loaded objects after a commit
(`expire_on_commit=False`). So a value a handler has read may be stale at its
next statement, and a handler that commits twice can stop in between. Nearly
all that is hard in this code follows from these two facts.

| Component | State | Operations | Interacts with |
|---|---|---|---|
| Trip safeguarding (`app/tracking/safety.py`, `services.py`, `router.py`, `app/alerts/router.py`) | `trips.status`, `attendance_records`, `alerts` | start, cancel, absence mark and withdrawal, stop attendance, end, drop, resolve alert | notifications (commits inside `notify()`), Socket.IO, Redis caches filled at start |
| Trip generation (`app/tracking/services.py`, `jobs.py`) | `trips` | daily job, admin's generation, single creation | routes, vehicles, drivers |
| No-show job (`app/tracking/jobs.py`) | `alerts` | every 5 minutes: alert about overdue scheduled trips | trips, notifications |
| GPS ingestion (`app/tracking/socket_handlers.py`, `gps_buffer.py`) | Redis lists `gps:buffer:*`, `gps:last:*`, `gps:paused:*`; `gps_logs` | `location_update`, 30 s flush, pause check | driver app, trips |
| GPS partitions and retention (`app/tracking/jobs.py`) | partitions of `gps_logs` | nightly DDL and deletes | |
| ETA (`app/tracking/eta.py`) | Redis cache of stops | distance and speed of a point | GPS ingestion |
| Sessions (`app/auth`) | `refresh_tokens`, `auth_tokens`, `users.password_hash` | register, login, refresh, logout, reset request, reset | browser cookie, users |
| Lockout (`app/auth/services.py`) | Redis counter per e-mail | count, check, reset | login |
| Students and assignments (`app/students`) | `students`, `student_route_assignments`, `transport_requests` | assign, request, decide | routes, vehicle capacity |
| Routes (`app/routes`) | `routes.version`, `route_stops` | update with a version check, reorder, soft delete | trips |
| Vehicles (`app/vehicles`) | `vehicles`, compliance records | CRUD, daily expiry job | alerts |
| Payments (`app/payments`), platform billing (`app/super_admin`) | `invoices`, `payments` | bulk generation, recording | assignments |
| Users (`app/users`), schools (`app/schools`) | `users.is_active`, `schools.settings` | deactivate (last-admin guard), merge settings | |
| Feedback, notifications, audit | append-mostly rows | | |
| API client, auth store, guards, auth pages (`web/lib/api/client.ts`, `web/stores/auth.ts`, `web/app`, `web/features/auth`) | access token, one refresh in flight per tab, user and status | attach, refresh on 401, retry once, bootstrap, sign in and out | sessions |
| Query cache (`web/lib/query.ts`, TanStack Query) | per key: data, error, stale, fetch in flight | fetch, invalidate, set, poll | every page |
| Driver's pages (`web/features/driver`) | marks, answer of a held end, dialogs | start, mark, submit, drop, end | safeguarding, query cache |
| Route editor (`web/features/admin/routes`) | form of the assignments, dialogs | save, add, edit, delete, reorder | routes, query cache |
| Pages of admins, platform admins and parents (`web/features/admin`, `super`, `parent`) | dialogs, filters, offsets | lists and the operations on them | the CRUD endpoints, query cache |
| Sockets, GPS broadcast (`web/lib/socket.ts`, `web/lib/hooks/useTripRoom.ts`) | socket connection, last fix | join rooms, send points | GPS ingestion |

### What makes each correct, and what is hard

- **Safeguarding.** No trip ends with a boarded child not dropped; a held trip
  says why; `trip_ended` once per end. Hard: gate query and completing UPDATE
  are separate transactions; attendance is accepted in every status; status
  checks are not repeated by the writes; requests die between commits.
- **Sessions.** A token is exchanged once; reuse of a rotated token ends its
  family; logout and password reset end everything. Hard: revoke and issue are
  two commits, checks are on values read earlier, two tabs share one cookie.
- **GPS.** Each accepted point is stored, once; a parent sees that the bus went
  silent. Hard: trim before insert, shutdown inside a flush, partial Redis
  failures, a flag that silences the pause check, sockets that reconnect.
- **The browser's session.** The tab acts for the user it shows; concurrent calls
  share one refresh; nothing waits for ever. Hard: answers in any order, calls that
  outlive a sign-out, a 401 during the bootstrap.
- **The driver's page.** It shows what its own actions have done, records what the
  driver said, and leads to a closed trip. Hard: three queries and four mutations in
  flight, refetches over local marks, lost answers, parents and admins in between.
- **The route editor.** A save replaces what its admin saw; a refetch takes no unsaved
  choice away. Hard: a form seeded from a query, a version, overlapping reorders.
- **The other pages.** A change the tab was told of is shown; a dialog waits for its
  answer; live pages catch up. Hard: which keys an operation invalidates while a
  query is mounted or not, being fetched or failed.
- **Generation, no-show, capacity, payments, users, settings on the server.** One trip
  per route, day and slot; one open no-show alert per trip; no more children than
  seats; one payment per invoice; never a school without an admin. Hard: every
  one of these is a read followed by a write in another statement.

`PROJECT.json` lists each hazard at its line with the properties that cover it,
or says why none does.

## 2. Modules

| Module | Models |
|---|---|
| `TripLifecycle` | what the gate promises for one trip, without requests: start, hold, complete, announce |
| `TripSafeguard`, `MCTripSafeguard` | the handlers of one trip, statement by statement; it implements `TripLifecycle` when requests do not overlap |
| `Sessions`, `MCSessions` | the refresh tokens of one user: login, refresh, logout, resets, deactivation, statement by statement |
| `GpsTracking`, `MCGpsTracking` | the points of one trip: ingestion, direct write, flush, shutdown; pause check and the page of a parent |
| `ClientSession`, `MCClientSession` | one browser tab against the server's tokens: client, store, guards, auth pages |
| `DriverRun`, `MCDriverRun` | the page of a run against the server's trip |
| `RouteEditor`, `MCRouteEditor` | the page that edits a route against the server's route |
| `Console` | every other page of the admin, the platform admin and the parent against one query of theirs |
| `*_proofs` | theorems about the module of that name |

The modules meet in the state they share. `ClientSession` takes the refresh tokens
as `Sessions` has them when requests do not overlap on the server, and adds what
`Sessions` leaves to its environment: which tokens a browser presents, and when.
`DriverRun` takes the trip as `TripSafeguard` has it, one request at a time.
`RouteEditor` and `Console` share the query cache and the pages around it; the route
editor appears in `Console` by the queries it reads. Interleavings of two requests at
the server's statements stay in the first three modules, interleavings of answers,
fetches and the user's actions in the last four.

### TripSafeguard: correspondence with the code

One trip; its rows in `attendance_records` (`attendance`, `dropped`), its alerts
(`raised` counts rows inserted, `open` is the set with `resolved_at` NULL) and
`trips.status`, `safeguarding_checked`. Each of the `Clients` is a request in
flight, then another: `pc` says which statement it awaits; `named`, `found`,
`entries`, `picked` are the values it carries from one statement to the next
and the rows its open transaction has written.

| Endpoint | Steps | Code |
|---|---|---|
| `PUT /trips/{id}/start` | `StartRead`, `StartWrite` | `tracking/services.py:470` |
| `PUT /trips/{id}/cancel` | `CancelRead`, `CancelWrite` | `tracking/services.py:581` |
| `POST`, `DELETE /trips/{id}/absent/{student}` | `MarkAbsentRead/Write`, `UnmarkAbsentRead/Write` | `tracking/services.py:784`, `:867` |
| `POST /trips/{id}/stops/{stop}/attendance` | `SubmitUpsert`, `SubmitAlert` (once per missing child), `SubmitDone` | `tracking/safety.py:342` |
| `PUT /trips/{id}/end` | `EndRead`, then `EndClear` or `EndUnaccounted`, `EndHold` | `tracking/services.py:743`, `safety.py:123` |
| `POST /trips/{id}/drop` | `DropRead`, `DropRows`, `DropCommit`, gate | `tracking/router.py:250`, `safety.py:213` |
| `PUT /alerts/{id}/resolve` | `ResolveRead`, `ResolveCommit`, gate | `alerts/router.py:173`, `safety.py:309` |
| gate (`_complete_if_clear`) | `GateClear` or `GateBlocked` | `safety.py:274` |
| `_complete_trip` | `Complete` or `CompleteNoop`, `EmitTripEnded` | `safety.py:72` |
| any, at any point | `Fail`: the request dies, its uncommitted work is rolled back | |

*Granularity.* A step is a read, or a write with the commit that follows it
directly. Reads between a check and the next write that cannot change what is
written (names, ownership) are part of the step before. Where a transaction goes on after a write,
the rows it wrote stay locked (`Held`, `Unlocked`): other writers of
those rows wait, readers see the old rows. The statements of one attendance
submission up to its first commit are one step, and so are the alert UPDATEs of one drop-off.

*Inputs.* A stop submission is any partial assignment of the three statuses
the schema allows to the trip's students: `process_stop_attendance` does not
restrict the entries to the stop. A drop names any set of students. Any alert
may be resolved.

*Left out.* Ownership and tenancy checks (a refused request is not a step),
notification rows, the events other than `trip_ended`, Redis caches,
acknowledgement, `started_at` and other timestamps. Every student has a parent
or the school an active admin, so each missing child's alert is committed by a
`notify()` of its own. The trip status `incident` is in the column's type and
written nowhere.

*Histories.* `starts`, `completions`, `ended` (UPDATEs of a start, of a completion,
events), `late` (children boarded after a request's gate query). Only the bounds read
`completions`.

*Bounds.* `MaxAlerts`: no request that may raise an alert is accepted once a
child has that many of the type. `MaxCompletions`: no start is accepted after
that many completions. `Endpoints`: the requests sent. They limit only which
requests arrive, never what an accepted request does.

*Fairness (`FairSpec`).* The event loop resumes every handler whose statement
has returned, and PostgreSQL serves the waiters of a row lock in order, so a
request that was accepted goes on (`SF_vars(Continue(c))`; strong, since a lock
may be taken and released again and again). No fairness on `Begin`: nobody is
obliged to send a request.

### Sessions: correspondence with the code

The rows of `refresh_tokens` of one user: `issued`, `revoked` (`revoked_at` is
set), `family` (named by the token that opened it); `users.is_active`; the
reset links of `auth_tokens`. Requests are processes as above.

| Endpoint | Steps | Code |
|---|---|---|
| `POST /auth/login`, `/register` | `LoginRead`, `Issue` | `auth/router.py:133`, `:73` |
| `POST /auth/refresh` | `RotateRead`, `RotateRevoke`, `Issue`; or `ReuseRead`, `ReuseRevoke` | `auth/services.py:120` |
| `POST /auth/logout` | `LogoutRead`, `RevokeAll` | `auth/router.py:234` |
| `POST /auth/forgot-password` | `ForgotPassword` | `auth/services.py:195` |
| `POST /auth/reset-password` | `ResetRead`, `ResetWrite`, `RevokeAll` | `auth/services.py:242` |
| `POST /users/{id}/reset-password` (admin) | `AdminReset`, `RevokeAll` | `users/services.py:113` |
| `POST /users/{id}/activate`, `/deactivate` | `SetActiveRead`, `Activate` or `Deactivate`, `RevokeAll` | `users/services.py:321` |
| any that is refused or has nothing to do | `Refused` | |
| any, at any point | `Fail` | |

*Histories.* `parent` (what a token was exchanged for), `born` and `birth` (the
epoch of a session), `epoch`, `reused`, and `overtaken`, `escaped`: which
requests were about to issue a token when their session was revoked, and the
tokens that came of it. No action's guard reads them, but for the bound on `epoch`.

*Inputs.* A refresh presents any token ever issued: the browser's, one of another
tab, an older one of a retry, a stolen one. That covers the frontend client,
which refreshes once per page but shares the cookie among tabs.

*Left out.* Expiry (only refuses), passwords, device ids, access tokens
(signed, 15 minutes, stored nowhere), the audit row written with the
deactivation, the guards of `set_user_active` that depend on other users.

*Bounds.* `Tokens`: no login or exchange is accepted without a token left for it
(`MayIssue`). `MaxRevocations`: nothing that revokes all families is accepted
after that many. `Links`: the links mailed.

### GpsTracking: correspondence with the code

One trip in progress. `buffer` is its Redis list, `rows` its rows of `gps_logs`
per point, `last` the age of `gps:last`, `flag` is `gps:paused`. `handler` is the
`location_update` coroutine of each point, `flusher` and `batch` the flush loop,
`checker` the pause check; they share one process, which shuts down and starts
again while Redis and PostgreSQL go on. `viewer` is the page of one parent and
`banner` what it shows.

| Code | Steps | Where |
|---|---|---|
| `location_update` | `Push`, `SetLast`, `Broadcast`; `Refuse` | `tracking/socket_handlers.py:151` |
| its degraded path, `_fallback_db_write` | `PushFails`, `SetLastFails`, `SetLastUnanswered`, `Write`, `WriteFails` | `:252`, `:295` |
| `flush_gps_buffer` | `FlushRead`, `FlushTrim`, `FlushInsert`; `FlushNothing`, `FlushRedisFails`, `FlushTrimUnanswered`, `FlushInsertFails` | `tracking/gps_buffer.py:45` |
| the loop around it, `lifespan` | `FlushStart`, `Shutdown`, `Exit`, `Start` | `core/scheduler.py:46`, `main.py:40` |
| `check_tracking_paused` | `CheckRead`, `CheckEmit`, `CheckSet`, `CheckClear`, `CheckFails` | `gps_buffer.py:186` |
| time | `Age`, `FlagExpires` | `gps_buffer.py:235`, `:258` |
| `useTripRoom`, `join_trip`, `connect` | `Open`, `Join`, `Close`, `Disconnect`, `Reconnect` | `frontend/src/lib/hooks/useTripRoom.ts:43`, `socket_handlers.py:36`, `core/socketio.py:43` |

*Shutdown.* `lifespan` cancels the loop and does not await it. `CancelledError`
is raised where the loop awaits, no `except Exception` catches it, the loop
begins one more flush, and what is left of that is cancelled when the event loop
closes (`Exit`, possible at any point of it). A killed process is the case where
`Exit` follows at once.

*Granularity.* A step is one call that changes Redis or PostgreSQL, or one
emission; reads in a row are one step. A call that took effect and whose answer
is lost is a step of its own where the code then does something else: after the SET
(`SetLastUnanswered`) and after the LTRIM (`FlushTrimUnanswered`). After an RPUSH it is
the push followed by a failure of the SET; after an INSERT nothing is left to do.

*Histories.* `pushed`, `refiled` (pushed, and written directly because the SET
failed), `dropped` (trimmed, and its INSERT failed, was cut off or was never tried). No guard reads them.

*Left out.* Coordinates, and so points that are no numbers (logged and skipped),
the ETA (never fails, changes nothing), the driver cache and the rate limit (one
`Refuse`), other trips (the flush goes from key to key and shares nothing
between them), the phone's clock.

*Bounds.* `Points`; `MaxFaults` faults of the kinds in `Faults`; `MaxVisits`.

*Fairness.* asyncio resumes a coroutine whose call has returned; the loop and the
job fire again and again (30 s each); a key set with `ex=` expires; a process told
to stop does, and is started again by its container. None on the driver's phone,
the parent, or the network: `Reconnect` is not fair, since Socket.IO gives up
when the server refuses an expired access token.

### ClientSession: correspondence with the code

One tab and the people who use its browser. The server is the table of refresh
tokens (`owner`, `family`, `live`) and the cookie in `jar`. `refreshing` is
`refreshPromise` of `client.ts`, `call` the API calls behind the hooks of ky, `boot`
the bootstrap, `form` the auth page's submission, `leaving` the sign-out, `presented`
the cookie it was sent with. A call of a parent's page may be a save of preferences
(`saver`), whose answer sets the user in the store.

| Code | Actions |
|---|---|
| `api` (`beforeRequest`, `afterResponse`) | `StartCall`, `AfterResponse`, `Waiting` (inside `RefreshSettles`) |
| `onSuccess` of `parent/SettingsPage.tsx`, `setUser` | `SetUser` (inside `AfterResponse`) |
| `refreshSession`, `rawRefresh` | `RefreshSession`, `RefreshSettles` |
| `bootstrap`, the unauthorized handler | `BootstrapMe`, `OnUnauthorized` |
| auth pages, `PublicOnly`, `RequireRole` | `LoginPage`, `RegisterPage`, `ForgotPasswordPage`, `ResetPasswordPage`, `Rendered`, `Navigate` |
| `UserMenu`, `logout` | `Logout`, `LogoutSettles` |
| endpoints | `ServeRefresh`, `ServeCall`, `ServeForm`, `ServeLogout` |

What runs in one turn of the event loop is one action: the resolution of the promise
resumes every call that awaits it. A reply, or its loss on either way, is fixed when
the server acts; replies are taken in any order.

*Histories.* `signedOut`, `overlapped`, `restored`, `reused`. *Left out.* Other tabs (their effect
on the tokens is in `Sessions`), the query cache (it is not cleared by a sign-out), the
second attempt of ky for GET requests.
*Fairness.* The server answers or the 20 s timeout of ky fires, and callbacks run;
nobody has to use the page.
*Bounds.* `MaxTokens`, `MaxLosses`.

What the module also shows, by what `ActsForTheUserShown` has to except: a sign-in or
sign-out while a refresh is in flight (`overlapped`) can leave the tab with a token of
somebody else, or with a fresh cookie after a confirmed sign-out, since neither cancels
the refresh; the answer to a parent's save of preferences puts that parent back on the
page after a sign-out, or after somebody else has signed in, with no refresh in flight
(`restored`); and a call of one user that outlives the session is retried with the token
of the next.

### DriverRun: correspondence with the code

`trip`, `att`, `dropped` are the server's; `query` holds the three queries of
`RunTripPage` (detail, roster, absences), `marks`, `endResult`, `dialog` its local
state, `req` the four mutations in flight. `said` is the driver's last word on each
child, `early` the children named in a stop submitted before everything was answered,
`missed` says that a mutation was answered while a fetch was in flight that no mounted
component used.

| Code | Actions |
|---|---|
| the buttons of the page, `StudentAttendanceRow`, `onSubmitStop` | `StartTrip`, `Mark`, `OnSubmitStop`, `DropHere`, `DropAllAtSchool` |
| `SafeguardCard` | `SafeguardShown`, `DropRemaining` |
| the dialog that ends the trip | `OpenDialog`, `CancelDialog`, `ConfirmEnd` |
| `onSuccess`, `onError` of the mutations, `invalidateTrip` | `StartSettles`, `SubmitSettles`, `DropSettles`, `EndSettles`, `Fails`, `InvalidateTrip` |
| TanStack Query | `Fetch`, `OnMount`, `ServeQuery`, `QuerySettles`, `Retry` |
| the server, as in `TripSafeguard` | `ServeStart`, `ServeSubmit`, `ServeDrop`, `ServeEnd` |
| a parent, an admin | `MarkAbsent`, `CancelTrip` |

*Left out.* The geolocation watch and the wake lock; the position of the bus; the
handler of `child_absent_marked`, which never runs (the event needs a scheduled trip, a
page in its room a started one). Alerts are resolved in `TripSafeguard`.
*Fairness.* The server answers and callbacks run. The driver keeps trying to run the
trip: strong fairness on the few actions that lead to its end, because each is enabled
only between refetches. Without a driver who tries, nothing closes a trip: no job does.
Strong fairness also on `QuerySettles("trip")`: every mutation of a hasty driver cancels
the fetch of the trip and starts it again, and nobody submits so fast that no fetch ever
comes through (`SubmitSettles` of the same stop, for ever, within one round trip).
*Bounds.* `MaxPending` mutations in flight, one of a kind. Each route of `Runs` carries
two bounds of its own: `losses`, requests or answers the network may lose, and `haste`,
what the driver does while the page is fetching: `"tap"`, use its buttons; `"leave"`, go
back. The page allows both at any time. The instance has a driver who taps on a fetching
page and loses nothing, and one who waits and loses one message; both at once are 2.4
million states. Leaving a fetching page is in no run; the theorems have all of it.

Three things go wrong when the driver does not wait, and the properties name them instead
of forbidding them. A stop submitted from a list of absences that is still being fetched
records over a parent's excuse, and one submitted from a roster that is still being
fetched sends old marks of children the driver did not touch (`early`). A query whose
fetch no component uses any more is only marked by an invalidation, and the mark is gone
when that fetch settles with what it read before (`missed`).

What `TripCloses` has to except (`Stuck`): when the last child on board of a held trip
is corrected to absent, no child is left to drop, so `SafeguardCard` offers nothing
(`RunTripPage.tsx:370`), and ending again is refused while the trip is held
(`services.py:769`). Smaller things seen on the way: after "Drop remaining" the page ends
the trip a second time, which is always refused, so a success shows an error; the
`ErrorState` of the page refetches the detail only; location sharing stops while a trip
is held; the page does not listen to `trip_ended`.

### RouteEditor: correspondence with the code

`route` is the server's route with its stops, `query` the page's query of it, `form`
what `AssignmentCard` shows, `dialog` the open dialog with its state, `req` the requests
in flight (a reorder, one of a dialog, a save). `chosen` is what the admin last chose,
`seed` what the form was filled from.

| Code | Actions |
|---|---|
| `move`, `reorder` | `Move`, `ReorderSettles` |
| `AddStopDialog` with its geocoder | `OpenDialog`, `TypeName`, `Geocoded`, `SubmitAdd`, `DialogSettles`, `CloseDialog` |
| `EditStopDialog`, `handleDeleteStop` | `SubmitEdit`, `HandleDeleteStop`, `DialogSettles` |
| `AssignmentCard` and its effect | `Choose`, `Save`, `SaveSettles`, `Reseeds` |
| query and error state | `Fetch`, `ServeQuery`, `QuerySettles`, `Retry` |
| `update_route`, `add_stop`, `update_stop`, `delete_stop`, `reorder_stops` | `ServeUpdate`, `ServeAdd`, `ServeEdit`, `ServeDelete`, `ServeReorder` |
| another admin | `Elsewhere` |

*Left out.* Maps, geometry of the path, the selects' lists of vehicles and drivers.
*Fairness.* The server answers and callbacks run; the admin closes a dialog, retries a
page that failed, and saves what was chosen (strong, since a refetch may disable it again
and again).
*Bounds.* `MaxWrites`, `MaxLosses`. `Impatient`: whether the form is edited while it is
being saved. FALSE in the runs, so that `FormShowsChoice` is about an admin who edits at
rest: the page allows more, and the refetch after the save then discards the edit.

Seen on the way: a name typed while the geocoder is asked is overwritten by its answer
(a stale closure, `RouteEditorPage.tsx:310`); reorder, add, edit and delete carry no
version and invalidate nothing when they fail; an arrival time cannot be cleared.

### Console: correspondence with the code

Each page, dialog and operation of `web/features/admin`, `super` and `parent` and of the
shared components is a record under the component's name: the queries it reads, polls
and filters, the operations of its dialogs and buttons, what an operation changes, which
keys it invalidates or sets, where it navigates, what it shows, and whether a dialog is
held open while it runs. The machine below them is the query cache for one watched
query, any of those of the three portals (chosen in `Init`), the open page and dialog,
and `calls` in flight. `clock` counts accepted changes of what the watched query shows,
so data is a number and staleness a comparison.

| Code | Actions |
|---|---|
| `NavList`, filters, `usePagination` | `Open`, `Filter` |
| dialogs, `ConfirmDialog` | `OpenDialog`, `CloseDialog`, `Submit` |
| buttons of rows and pages | `Press` |
| `onSuccess`, `onError` | `Succeeds`, `Fails` |
| TanStack Query, `refetchInterval`, `ErrorState` | `Mounts`, `Invalidated`, `Poll`, `ServeQuery`, `QuerySettles`, `Retry` |
| endpoints; other users; events | `Serve`, `Foreign`, `SocketBridge` |

*Granularity.* Pages that neither use nor touch the watched query are the same to it: one
stands for them (`Places`). Without that, nothing in an instance is smaller than the program.
*Left out.* Fields of forms and their validation, maps, the sound of a critical alert.
The server accepts or refuses; what else it checks is not here.
*Fairness.* The server answers, intervals fire, callbacks run; the user need not act.
*Bounds.* `MaxWrites`, `MaxCalls`, `MaxLosses`. `Hasty`: whether the user also acts when
an answer read before a change could still arrive and pass for fresh (`Calm` says
when). FALSE in the run, since TanStack Query then does show the old value until the
stale time is over: an invalidation joins a first fetch already in flight; the fetch of
a query nothing shows any more clears the invalid mark; `setQueryData` is overwritten by
an older answer still on its way.

`Gaps` lists the changes whose success does not invalidate a list that shows them:
drivers and users are two lists of the same people and their operations invalidate one;
the platform's totals are never invalidated; resolving an alert can complete a trip and
invalidates the active trips but not that trip; deleting a route leaves its own query.
They heal with the stale time (30 s) or the next fetch. Other things seen on the way:
assigning a vehicle to a driver only writes the audit log although the toast says it was
assigned; edit forms send every field without a version, so the later save wins; the
dialog that creates a route can be closed while it submits and navigates all the same;
a temporary password is lost with the page; a lost answer to a creation is retried by
hand as a second creation; the settings form is seeded again, unsaved edits discarded,
when the school is refetched.

## 3. Runs

| Run | Instance | Shows |
|---|---|---|
| `safeguard_serial` (182 568 states) | 1 client, may die; 2 children, 1 stop | The properties of non-overlapping requests (section 5) and the refinement of `TripLifecycle`. Two children are what partial drops, partial alerts and an excused child beside a missing one need. |
| `safeguard_concurrent` (2.6 million) | 2 clients, one may die; 1 child; 2 child_not_dropped alerts, 2 completions | What survives any interleaving: `GateMissesOnlyLate`, `EmittedOncePerCompletion`, `CompletedOncePerStart`, `PendingWasAlerted`. Two requests show every pairwise race; two completions allow a reopened trip. |
| `safeguard_live` (74 248) | 2 clients, no crash; 2 children; start, attendance, drop | `LastDropCompletes`: drop-offs that between them cover everybody end the trip. |
| `safeguard_overlap` | as concurrent | violation: `GateSound` |
| `sessions` (388 203) | 4 tokens up to symmetry, 2 requests, one may die; 1 link; 1 revocation of everything | What survives any interleaving: `PredecessorRevoked`, `OnlyOvertakenSurvive`, `ForkNeedsSharedExchange`. Four tokens allow a session, an exchange of it, a fork and a second session. |
| `gps` (485 892) | 2 points, 2 faults of any kind, 1 visit | Every property of section 5. Two points let one be pushed while the other is flushed; two faults are what a lost direct write takes (Redis, then PostgreSQL). |
| `client_session` (613 thousand) | 2 users of different roles, 2 calls and the bootstrap, 2 tokens, no loss | `ActsForTheUserShown`, `NoFalseTheft`, `CallsSettle`, `BootEnds`. Two calls are what a shared refresh takes, two users what a wrong one takes. A lost reply is left out of the instance for its size; the theorems have it. |
| `driver_run` (304 thousand) | 1 child; a morning run with one stop, with a driver who taps while the page is fetching; an evening run with two stops, with a driver who waits and 1 lost request or answer; a parent's absence, an admin's cancellation | `PageShowsItsOwnActions`, `RecordedAsSaid`, `ExcuseKept`, `TripCloses`. One child is marked, corrected, dropped and held; morning and evening differ in where children are dropped. The exceptions of the first three are reached: without `early` TLC refutes `ExcuseKept` and `RecordedAsSaid` in this instance. |
| `driver_stops` | 2 children, no loss | violation: `NextStopComesUp` |
| `route_editor` (423 thousand) | 2 fields with 2 values, 3 stops of which 2 at first; 2 accepted changes, 1 loss; another admin | `FormShowsChoice`, `PageShowsOwnWrites`, `SaveReplacesWhatWasSeen`, `SaveLands`. Two fields tell a mixed form from an old one; two changes make a conflict and its repair. |
| `route_add` | the same, no loss | violation: `AddFindsAPlace` |
| `console` (477 681) | 3 portals, every query of each watched in turn; 2 changes, 2 operations in flight, 1 loss | `ReadYourWrites`, `DialogWaitsForItsCall`, `LiveCatchesUp`. Two operations overlap on one page or across a navigation; the second change is the one an old answer would hide. |

All runs check deadlock. (A refused request is a
step of an idle client, so what is checked in the first three modules is that no set of
requests blocks one another half-way.) Tokens are interchangeable and no run with
symmetry checks liveness.

## 4. Where the code and its text disagree

With a run each:

1. **The gate can be overtaken** (`safeguard_overlap`, `safety.py:144`). End
   finds nobody on board; before its UPDATE an attendance submission commits a
   boarded child; the trip is completed with the child on board and no alert.
   The endpoint accepts attendance in every status, so it also happens after
   the trip is completed. `GateMissesOnlyLate` (checked and proved) says that
   this is the only way: the gate never overlooks a child whose row it could
   have seen.
2. **The driver's page stays at the first stop** (`driver_stops`,
   `RunTripPage.tsx:189`). The page takes its stop from `trip.current_stop_order`, which
   nothing in the backend writes. Children of the later stops can be neither marked
   nor dropped from it, and "Drop all at school" waits for a last stop that never comes.
3. **After a deletion no stop can be added** (`route_add`, `RouteEditorPage.tsx:255`).
   The page asks for the place `stops.length`; a deletion in the middle leaves the last
   stop there, and the unique constraint refuses every addition until the stops are
   reordered. `add_stop` would have chosen max + 1 if it had not been asked.

Without a run of their own (each was found by a model here, and follows from a short
interleaving):

- A late start reopens a trip (`services.py:494`): of two overlapping starts the slower
  one writes `in_progress` over whatever has happened since, and `trip_ended` is
  announced twice, where `safety.py:83` says once.
- A resolved alert can leave a trip held (`safety.py:291`): the docstring of
  `resolve_alert` completes the trip when no unresolved alert remains; the code counts
  rows. Only a drop from the driver's page closes it then.
- Resolving any alert runs the gate (`safety.py:334`): a `child_not_boarded` alert
  resolved before anybody has boarded ends a trip that has just started.
- A detected reuse can leave its family alive (`auth/services.py:160`): between the commit
  that revokes the presented token and the one that inserts its successor another
  request with the same token finds nothing to revoke. `OnlyOvertakenSurvive` (checked and
  proved) says that this is the only way, `SerialReuse` (proved) that it takes two
  overlapping requests.
- A shutdown can lose points (`gps_buffer.py:108`), against the flush-on-shutdown guarantee
  of `core/scheduler.py:8`: cancelled between trim and insert, the flush forgets them.
  `KeptUntilInserted` (checked and proved) says that this window and a failed INSERT are all.
- A page that reconnects stays outside its room (`useTripRoom.ts:95`): rooms belong to a
  connection, the page joins when it mounts, and nothing joins after a `connect`.
- A lost answer to the LTRIM loses points too (`gps_buffer.py:108`), where line 48 says
  "LRANGE + LTRIM pattern ensures no data loss": `flush_gps_buffer` skips to the next trip
  and the batch it read is in no list and no table (`FlushTrimUnanswered`).
- A late answer puts an earlier user back (`parent/SettingsPage.tsx:77`, `stores/auth.ts:71`):
  a parent saves a preference and signs out, somebody else signs in, the save is answered,
  and the page shows the parent while its token is the other's. The design document of the
  frontend (line 34) says "Role from `/auth/me` drives routing.". `ActsForTheUserShown`
  (checked and proved) says that this answer is the only one that does it.
- An excuse can be recorded over (`RunTripPage.tsx:333`): right after the start the page
  still shows the absences it had before and lets the driver mark and submit, where
  `StudentAttendanceRow.tsx:19` says "Parent-pre-absent students render greyed and are not
  toggleable". `ExcuseKept` (checked and proved) says that it takes a stop submitted before
  everything was answered.
- A sign-out confirmed while a refresh is in flight can leave a fresh token in the cookie,
  where `auth/router.py:240` revokes the family "and clear[s] the cookie"; the same
  docstring speaks of the current family, and the code revokes all of the user's.
- The mailed link of a password reset leads to `/reset?token=`, the web application
  routes `/reset-password`.
- A deactivation that dies between its commit and the revocation is not completed by
  asking again, since `set_user_active` does nothing when the value is already the one
  asked for.

## 5. Properties

### TripSafeguard

However requests interleave, wherever they die:

- `GateMissesOnlyLate`: a request about to complete the trip has overlooked
  only children whose row turned `boarded` after its gate query (`late`).
- `EmittedOncePerCompletion`: events emitted plus requests about to emit never
  exceed the completions.
- `CompletedOncePerStart`: a trip is completed at most once for each start that was
  written, though starts, cancellations and gates overwrite and overtake one another.
- `PendingWasAlerted`: a held trip has had a `child_not_dropped` alert.
- `LastDropCompletes` (no crash: no job runs the gate again for a request that
  died between its commit and its gate).

When requests do not overlap: `GateSound`, `HoldAlertsEveryChild`,
`DroppedHasNoOpenAlert`, `AbsenceBeforeDeparture`, `NoAlertForExcused` and
`ImplementsLifecycle`. They say that each handler does the right thing in any history of
other requests, some of them dead half-way; they say nothing about races. Each fails with
two clients (TLC shows it when they are checked in the instance of
`safeguard_concurrent`; `HoldAlertsEveryChild` needs two children for it): what is left
of them then is the list above.

### Sessions

However requests interleave, wherever they die:

- `PredecessorRevoked`: a token and the one received for it are never both good.
- `OnlyOvertakenSurvive`: a good token of a revoked session (a reuse in its
  family, or everything revoked after it was opened) was issued by a request that
  was past its checks at that moment, or was exchanged for such a token.
- `ForkNeedsSharedExchange`: two good tokens in one family mean that a token
  was exchanged twice, which takes two requests that read it before either
  revoked it.

### GpsTracking

Whatever fails, and however handlers, flush and pause check interleave:

- `KeptUntilInserted`: a point whose handler stored it is in the list, in the
  flush that trimmed it, or in `gps_logs`, unless its INSERT failed, was cut off, or
  was given up because the answer to the LTRIM was lost. No point pushed during a flush is trimmed unread.
- `StoredOnce`: once, or twice if Redis failed between RPUSH and SET, when the
  point is both buffered and written.
- `PushedIsStored`: a pushed point gets to `gps_logs`, across failed flushes and
  restarts, with the same exceptions.
- `SilenceIsShown`: a parent in the room of a silent bus is told, even one who
  joins between the event and the flag, or whose banner a late broadcast cleared:
  it takes until the flag expires (twice the threshold).

### ClientSession

- `ActsForTheUserShown`: unless somebody signed in or out while a refresh was in flight, a
  signed-in tab has an access token, a confirmed sign-out leaves neither token nor cookie of
  the session, and the user shown is the token's, the late answer to a save of preferences
  excepted.
- `NoFalseTheft`: unless a reply is lost, the tab never presents a rotated token: the
  refreshes of concurrent calls are one, across sign-ins and sign-outs.
- `CallsSettle`, `BootEnds`: no call and no page load waits for ever.

### DriverRun

- `PageShowsItsOwnActions`: when everything is answered the page shows trip and roster as
  its own actions left them, and shares the location exactly while the trip runs (`missed`
  excepted).
- `RecordedAsSaid`: a child's row is what the driver last said of it, unless a stop naming it
  was submitted before everything was answered.
- `ExcuseKept`: with the same exception, an absence a parent announced is never recorded over.
- `TripCloses`: a driver who keeps trying closes the trip, whichever answer is lost.

### RouteEditor

- `SaveReplacesWhatWasSeen`: an accepted save replaces the assignments its admin was
  looking at, never newer ones.
- `FormShowsChoice`: a refetch after one of the page's own writes takes no unsaved choice
  away from an admin who edits at rest.
- `PageShowsOwnWrites`: at rest the page has everything it wrote itself.
- `SaveLands`: an admin who keeps saving ends with nothing left to save.

### Console

- `ReadYourWrites`: no change the tab was told of is missing from what it shows at rest,
  `Gaps` excepted.
- `DialogWaitsForItsCall`: a dialog is busy exactly while its own request is in flight, and
  an answer never finds another dialog in its place.
- `LiveCatchesUp`: the live pages show in the end what others changed.

## 6. Proofs

### TripSafeguard_proofs

All for arbitrary students, stops, clients and bounds, from the named
assumptions of `TripSafeguard` (`StopsAssumption`, `ClientsAssumption`,
`BoundsAssumption`), which TLC evaluates in every run.

- `TypeCorrect`: `TypeOK` is inductive; lemmas give the types after `Step`,
  `Release`, `Raise`, `NoteLate` and the upserts.
- `GateMisses`: inductive with `TypeOK`. Five groups of actions: those that
  write rows end with `NoteLate`; the gate finds nobody; those that leave rows
  and `late` alone; those that clear the request's own `late`.
- `EmittedOnce`: one case each for the request that enters `emit` and the one
  that leaves it; cardinalities by `FiniteSetTheorems`, which is why
  `ClientsAssumption` asks for finitely many clients.
- `PendingAlerted`: needs `HoldHasCause`, that a request at `end_hold` has found
  somebody.
- `CompletedOnce`: `CompletedOncePerStart` is inductive with `StartUnspent`: while the trip is
  active, some start has bought no completion yet.
- Under `SoleClient` (at most one request at a time) the lemma `SerialKnowledge` gives
  `SerialInv`, what a lone request read still holds. From it follow
  `SerialGate` (`GateSound`), `SerialHold` (`HoldAlertsEveryChild`) and
  `SerialRefinement`: the initial state maps to an initial state of
  `TripLifecycle`, and every step to one of its steps or a stutter (`StartWrite`
  to `Start`, `CancelWrite` to `Cancel`, `EndHold` to `Hold`, `Complete` to
  `Complete`, `EmitTripEnded` to `Announce`, row writes to `Record`).
- Also under `SoleClient`: `SerialAbsence` (`AbsenceBeforeDeparture`, from `SerialInv`);
  `SerialExcuse` (`NoAlertForExcused`, with `MissingInv`: the children a submission has yet to
  alert about are not in it and not excused); `SerialDropped` (`DroppedHasNoOpenAlert`,
  inductive with `DropsNamed`: the rows a drop commits are of children it names).

### Sessions_proofs

For arbitrary tokens, links, requests and bounds. `NoneAssumption` is the only assumption
used. `TypeOK` says that only issued tokens are revoked, which needs `Carried`: what a
request carries was issued, and what it is about to exchange is revoked. Lemma
`Steps` leaves three kinds of steps that touch tokens (`Issue`, `ReuseRevoke`,
`RevokeAll`); `IssueEffect` says what the first does.

- `ExchangeOnce`: `PredecessorRevoked` is inductive with these.
- `SurvivorsWereOvertaken`: `OnlyOvertakenSurvive` needs `Families` (a family is
  named by an issued token, so a new family was never revoked) and `Overtaking`,
  the same fact about requests that are about to issue.
- `SerialReuse`: with one request in flight nobody is overtaken, so nothing
  survives a detected reuse; the violated `ReusedFamilyDead` then holds.
- `ForkNeedsTwoExchanges`: without a fork a family is a chain with one last
  token (`Chains`), and a good token is last.

### GpsTracking_proofs

For any points, faults and bounds, with no assumption on them. Lemmas `Pushed`,
`Trimmed`, `CopiesOf` say what RPUSH, LTRIM and a count do to a list.

- `TypeCorrect`.
- `Keeping`: `KeptUntilInserted` is inductive with `ReadPrefix`, that a flush
  about to trim has read a prefix of the list.
- `StoringOnce`: `StoredOnce` is not inductive: it needs that points are not
  repeated (`Apart`), what the place of a handler says of its point (`Tracked`),
  and an account of what each handler may have stored (`WithinBudget`).
- `FallbackIsStored`, under `"db" \notin Faults`: a point whose handler took the direct
  write has its row once the handler has gone on, which is what `_fallback_db_write`
  promises. That no failure of Redis loses a point is not so: see section 4.

### RouteEditor_proofs

For any stops, fields, values and bounds, from the three assumptions of `RouteEditor`.
Lemmas say what adding, removing, renumbering and editing do to a map of stops
(`NewStops`, `FewerStops`, `RenumberedStops`, `EditedStops`), that the place of a stop is a
place of the route (`PlaceIsAPlace`), and what an answer, a send and a settled request do to
the requests in flight.

- `TypeCorrect`: `TypeOK` is not inductive. It needs `Accounted` (a version is at most the
  number of writes, and every request in flight has room to be accepted) and `Remembered`
  (a stop the page knows of is on the route or deleted), from which `RoomForAStop` gets that
  the next order on an old page is a place of the route while some stop is unused.
- `NoLostUpdate`: inductive with `LInv`. What the page fetches and shows, and what a save in
  flight was made of, are `Fresh` pairs of a version and assignments: an old version, or the
  assignments there are. `RouteMoves` says that the assignments change with the version and
  only with it; `SeedMoves`, that the form is filled only with what is shown.
- `OwnWritesShown`: inductive with `WInv`. Unless something was lost or somebody else wrote,
  a query is in flight, an accepted request is still to be followed by a fetch (`Due`), or
  what was fetched last is the route.
- `ChoiceShown` (`FormShowsChoice`), under `~Impatient`, the value in its run: with TRUE the
  property is false, since the refetch after a save discards what was edited meanwhile.
  Inductive with `CInv`: the form shows what was chosen, a save in flight carries it, and the
  assignments that were saved but are not shown yet are those chosen, with a fetch of them
  under way or due.

### ClientSession_proofs

For any users, calls and bounds, from `UsersAssumption` and `TokensAssumption` (a browser
may start with a session, so at least one token exists).

- `TypeCorrect`: `TypeOK` with `Writer`, that whoever fills in a form is a user, except for
  a forgotten password.
- `NoTheftSeen` (`NoFalseTheft`): from `LineInv`. A family has the number of its first token
  (`Families`), the answer to a refresh is of the family and the user of the token presented
  (`Rotated`), and, unless a reply was lost, jar, refresh, its answer and form each hold the
  newest token of its family, a family apart from the others' (`Hands`). So the tab presents
  newest ones only.
- `ActsForUserShown` (`ActsForTheUserShown`): from `LineInv` and three more. `BootInv`:
  until bootstrap is done only its refresh and its `/auth/me` are in flight. `PagesInv`:
  signed in, the page is of a role, and a form belongs to nobody signed in. `OwnerInv`: the
  cookie, the refresh and the access token are of one user, never of one who signed out,
  `overlapped` excepted, and the user shown is that one or was put there by a save
  (`restored`).

### DriverRun_proofs

For any students, routes, losses, haste and number of mutations in flight, from
`RunsAssumption` and `BoundsAssumption`: nothing is assumed about the driver.

- `TypeCorrect`.
- `StatusAlwaysShown`: the half of `PageShowsItsOwnActions` about the trip, which needs no
  exception for `missed`: the query of the trip is in use on both pages. The argument,
  `EveryStep`: while nothing is lost a step either `Learns` of a mutation and fetches
  everything mounted, or `Goes` on, moving each query by at most one stage of its fetch. So
  a query `Holds` an answer that is still true, or the page has yet to learn of a mutation
  (`Due`): `Fresh`.
- `OwnActionsShown` (`PageShowsItsOwnActions`): the same for the roster, which may be out of
  use; unless `missed`, what the page learns of reaches a query that is in use or idle
  (`LearnsInUse`).
- `RecordsWhatWasSaid` (`RecordedAsSaid`) and `ExcusesKept` (`ExcuseKept`): from
  `RecordInv`. `RosterInv`: the marks a roster tells are recorded, or the page has yet to
  learn. `AbsencesInv`: once the trip began every absence announced is told, or being
  fetched. `SubmitInv`: for a child that is not in `early`, a stop on its way says what the
  driver said last and never replaces an excuse. `SubmitSays` shows it for a stop submitted
  at rest, `SubmitEarly` for any other, whose children are all in `early`.

### Console_proofs

For any bounds, from `BoundsAssumption`. The pages, dialogs and operations are those of the
code, so their tables are not assumed but proved about, one lemma for each page (`Sound`)
and each group of operations (`Fine`). `PortalFacts` sums them up: an operation sets or
invalidates every query whose answer it changes, unless `Gaps` lists it; it navigates within
its portal; it sets no polled query; a dialog shares no operation with its page or the bell,
and one that is not held only navigates. A page that forgets an invalidation breaks a named
lemma.

- `TypeCorrect`: `TInv` has `TypeOK` and an account of changes: there is room for every call
  in flight to be accepted.
- `DialogsWait` (`DialogWaitsForItsCall`), also for a hasty user: inductive with `DInv`. The
  call of an open dialog is alone in flight (`Answerable`), and no call of the page can be
  taken for it (`Below`).
- `OwnWritesRead` (`ReadYourWrites`), under `~Hasty`, the value in the run: section 2 says
  what goes wrong otherwise. Inductive with `EntryInv` (an entry at rest is not there,
  invalid, failed or up to date; a mounted one is invalid only if it failed) and `CallInv`:
  while a call is in flight, a shown query has its first answer already and one that is not
  shown is not being fetched, so an invalidation either starts a fetch or leaves a mark. A
  call that navigates, or that sets the watched query, is alone.

### Only model-checked

Every invariant and action property of the passing runs is stated by a theorem. The eight
liveness properties (`LastDropCompletes`, `PushedIsStored`, `SilenceIsShown`, `CallsSettle`,
`BootEnds`, `TripCloses`, `SaveLands`, `LiveCatchesUp`) stay with TLC: liveness under
fairness is out of the prover's reach. So do the properties the three violation runs refute.

## 7. Not modelled

- Trip generation and the no-show job: the first is one idempotent insert per route, day and
  slot, guarded by a unique constraint; the second needs a model of time and of its own
  overlapping runs. Its hazards are listed.
- Interleavings at the server's statements of the CRUD handlers (assignments against seats,
  payments, the last-admin guard, the merge of settings, the version check of routes):
  `RouteEditor` and `Console` let the server take one request at a time. The hazards are
  listed with that reason.
- The lockout counter, ETA geometry, GPS partitions, the report of expiring documents, the
  audit log: single statements or arithmetic, with no state that goes wrong over several
  steps.
- Presentation: layout, translations, maps, fields of forms, the offline shell; migrations.
