--------------------------- MODULE ClientSession ---------------------------
(***************************************************************************)
(* The session of one browser tab: the API client with its silent refresh  *)
(* (frontend/src/lib/api/client.ts), the auth store, the route guards, the *)
(* auth pages and the sign-out menu, against the refresh tokens of the     *)
(* server (backend/app/auth, in detail in Sessions).                       *)
(*                                                                         *)
(* A request goes "sent" -> "replied" -> settled.  The server's step       *)
(* already fixes the reply, or its loss on either way (code 0, network     *)
(* error or the 20 s timeout of ky); replies arrive in any order.  What    *)
(* runs in one turn of the event loop is one action: the resolution of the *)
(* refresh promise resumes every call that awaits it.                      *)
(*                                                                         *)
(* Left out: other tabs, which share the cookie jar; wording and layout.   *)
(***************************************************************************)
EXTENDS Naturals

CONSTANTS
  Users,        \* people who use this browser
  NoUser,
  RoleOf,       \* the role of each of them
  Calls,        \* API calls of the pages that may be in flight at once
  Me,           \* the GET /auth/me of bootstrap
  MaxTokens,    \* refresh tokens the server may issue (bound)
  MaxLosses     \* requests or replies the network may lose (bound)

Roles == {"parent", "driver", "school_admin", "super_admin"}

ASSUME UsersAssumption == NoUser \notin Users /\ RoleOf \in [Users -> Roles]
ASSUME CallsAssumption == Me \notin Calls
ASSUME TokensAssumption == MaxTokens \in Nat \ {0} /\ MaxLosses \in Nat

VARIABLES
  \* the server: tokens are numbered as issued
  issued,       \* how many; token 0 is "no cookie"
  owner,        \* user_id of each
  family,       \* family_id of each: the first token of its session
  live,         \* those not revoked
  losses,       \* how many requests and replies were lost
  jar,          \* the refresh_token cookie of the browser
  \* lib/api/client.ts
  accessToken,  \* whose token it is
  refreshing,   \* refreshPromise: where it is, the cookie sent, the reply
  call,         \* every API call behind the hooks of the ky instance
  \* stores/auth.ts and the pages
  status, user, \* useAuthStore
  boot,         \* where bootstrap is
  screen,       \* the route rendered (a role: that role's pages)
  form,         \* the submission of an auth page in flight
  leaving,      \* UserMenu's logout
  presented,    \* the cookie it was sent with
  \* history
  signedOut,    \* a user whose sign-out the server confirmed to this tab
  overlapped,   \* somebody signed in or out while a refresh was in flight
  restored,     \* the user shown was put there by the answer to a save of
                \* preferences, and is not the one whose access token is held
  reused        \* a rotated token was presented: the server sees a theft

server == <<issued, owner, family, live>>
store == <<status, user, boot>>
history == <<signedOut, overlapped, restored, reused>>
vars == <<server, losses, jar, accessToken, refreshing, call, store, screen,
          form, leaving, presented, history>>

AuthPages == {"login", "register", "forgot", "reset"}
Screens == AuthPages \cup Roles
\* 0: no answer; 400: any refusal but 401
Codes == {0, 200, 400, 401}

NoRefresh == [at |-> "none", token |-> 0, got |-> 0]
NoCall == [at |-> "none", as |-> NoUser, saver |-> NoUser, retried |-> FALSE, code |-> 0]
NoForm == [at |-> "edit", page |-> "login", who |-> NoUser, code |-> 0, token |-> 0]

TypeOK ==
  /\ issued \in 0..MaxTokens
  /\ owner \in [1..MaxTokens -> Users \cup {NoUser}]
  /\ family \in [1..MaxTokens -> 0..MaxTokens]
  /\ live \subseteq 1..issued
  /\ jar \in 0..issued
  /\ accessToken \in Users \cup {NoUser}
  /\ refreshing \in [at : {"none", "sent", "replied"}, token : 0..issued, got : 0..issued]
  /\ call \in [Calls \cup {Me} ->
       [at : {"none", "sent", "replied", "waiting"}, as : Users \cup {NoUser},
        saver : Users \cup {NoUser}, retried : BOOLEAN, code : Codes]]
  /\ status \in {"loading", "authenticated", "unauthenticated"}
  /\ user \in Users \cup {NoUser}
  /\ boot \in {"refresh", "me", "done"}
  /\ screen \in Screens
  /\ form \in [at : {"edit", "sent", "replied"}, page : AuthPages,
       who : Users \cup {NoUser}, code : Codes, token : 0..issued]
  /\ leaving \in {"no", "sent", "ok", "error"}
  /\ presented \in 0..issued
  /\ signedOut \in Users \cup {NoUser}
  /\ {overlapped, restored, reused} \subseteq BOOLEAN
  /\ losses \in 0..MaxLosses

-----------------------------------------------------------------------------
(* The routes and their guards *)

\* PublicOnly: while loading it shows the splash and navigates nowhere.
PublicOnly(to, st, u) ==
  IF st = "authenticated" /\ u # NoUser THEN RoleOf[u] ELSE to

\* RequireRole
RequireRole(to, st, u) ==
  CASE st = "loading" -> to
    [] st = "unauthenticated" \/ (st # "loading" /\ u = NoUser) -> "login"
    [] OTHER -> RoleOf[u]

\* The router: what is rendered at an address, for a state of the store.
Route(to, st, u) ==
  CASE to \in AuthPages -> PublicOnly(to, st, u)
    [] to \in Roles -> RequireRole(to, st, u)
    [] OTHER -> to

\* A form can be used only when the page and not the splash is rendered.
Rendered(page) == screen = page /\ status # "loading"
SignedIn == status = "authenticated" /\ screen \in Roles

-----------------------------------------------------------------------------
(* The server *)

\* Fault: the row is written under the number of the last one.
IssuesAgain(u, fam) ==
  /\ issued < MaxTokens
  /\ owner' = [owner EXCEPT ![issued + 1] = u]
  /\ family' = [family EXCEPT ![issued + 1] = IF fam = 0 THEN issued + 1 ELSE fam]
  /\ issued' = issued

\* issue_refresh_token of u, in the family fam (0: a new one)
Issues(u, fam) ==
  /\ issued < MaxTokens
  /\ issued' = issued + 1
  /\ owner' = [owner EXCEPT ![issued + 1] = u]
  /\ family' = [family EXCEPT ![issued + 1] = IF fam = 0 THEN issued + 1 ELSE fam]

TokensOf(u) == {t \in 1..issued : owner[t] = u}
FamilyOf(t) == {s \in 1..issued : t # 0 /\ family[s] = family[t]}

\* A reply may be lost after the server has acted.
Reply(code) == {code} \cup (IF losses < MaxLosses THEN {0} ELSE {})
Loses(code) == losses' = IF code = 0 THEN losses + 1 ELSE losses

\* POST /auth/refresh: a live token is rotated; one that has expired is refused;
\* a revoked one revokes its family.
ServeRefresh ==
  /\ refreshing.at = "sent"
  /\ LET t == refreshing.token IN
       \/ /\ t \in live
          /\ Issues(owner[t], family[t])
          /\ live' = (live \ {t}) \cup {issued + 1}
          /\ \E code \in Reply(200) :
               /\ Loses(code)
               /\ refreshing' = [refreshing EXCEPT !.at = "replied",
                                   !.got = IF code = 200 THEN issued + 1 ELSE 0]
          /\ reused' = reused
       \/ /\ refreshing' = [refreshing EXCEPT !.at = "replied"]
          /\ live' = IF t \in live THEN live \ {t} ELSE live \ FamilyOf(t)
          /\ reused' = (reused \/ \E s \in FamilyOf(t) : t < s)
          /\ UNCHANGED <<issued, owner, family, losses>>
  /\ UNCHANGED <<jar, accessToken, call, store, screen, form, leaving,
                 presented, signedOut, overlapped, restored>>

\* Any other request: without a valid bearer 401 (a token may expire, or its
\* account be disabled, at any moment), else it is executed.
ServeCall(c) ==
  /\ call[c].at = "sent"
  /\ \E code \in (IF call[c].as = NoUser THEN {401} ELSE Reply(200) \cup {401}) :
       /\ call' = [call EXCEPT ![c] = [@ EXCEPT !.at = "replied", !.code = code]]
       /\ Loses(code)
  /\ UNCHANGED <<server, jar, accessToken, refreshing, store, screen, form, leaving,
                 presented, history>>

\* POST /auth/login, /register, /forgot-password and /reset-password
ServeForm ==
  /\ form.at = "sent"
  /\ \/ /\ \E code \in Reply(400) :
             /\ form' = [form EXCEPT !.at = "replied", !.code = code]
             /\ Loses(code)
        /\ UNCHANGED server
     \/ \E code \in Reply(200) :
          /\ Loses(code)
          /\ form' = [form EXCEPT !.at = "replied", !.code = code,
               !.token = IF code = 200 /\ form.page \in {"login", "register"}
                         THEN issued + 1 ELSE 0]
          /\ \/ /\ form.page \in {"login", "register"}
                /\ Issues(form.who, 0)
                /\ live' = live \cup {issued + 1}
             \/ /\ form.page = "reset"
                /\ live' = live \ TokensOf(form.who)
                /\ UNCHANGED <<issued, owner, family>>
             \/ form.page = "forgot" /\ UNCHANGED server
  /\ UNCHANGED <<jar, accessToken, refreshing, call, store, screen, leaving, presented,
                 history>>

\* POST /auth/logout needs no bearer: the cookie it was sent with, if still live,
\* revokes every family of its user, and a revoked one nothing.
ServeLogout ==
  /\ leaving = "sent"
  /\ \E code \in Reply(200) :
       /\ leaving' = IF code = 200 THEN "ok" ELSE "error"
       /\ Loses(code)
       /\ live' \in {IF presented \in live THEN live \ TokensOf(owner[presented]) ELSE live}
                    \cup (IF code = 0 THEN {live} ELSE {})
  /\ UNCHANGED <<issued, owner, family, jar, accessToken, refreshing, call, store,
                 screen, form, presented, history>>

-----------------------------------------------------------------------------
(* lib/api/client.ts *)

\* Fault: every caller sends a refresh of its own.
RefreshEach == refreshing' = [at |-> "sent", token |-> jar, got |-> 0]

\* refreshSession: one refresh at a time, whoever asks
RefreshSession ==
  refreshing' = IF refreshing.at # "none" THEN refreshing
                ELSE [at |-> "sent", token |-> jar, got |-> 0]

\* beforeRequest: the bearer is read when the request leaves
Sent(saver) ==
  [at |-> "sent", as |-> accessToken, saver |-> saver, retried |-> FALSE, code |-> 0]

\* Fault: the store keeps its status.
ForgetToken ==
  /\ accessToken' = NoUser
  /\ user' = NoUser
  /\ UNCHANGED <<status, screen, restored>>

\* The unauthorized handler of the auth store
OnUnauthorized ==
  /\ accessToken' = NoUser
  /\ status' = "unauthenticated"
  /\ user' = NoUser
  /\ screen' = Route(screen, "unauthenticated", NoUser)
  /\ restored' = FALSE

\* setUser, from onSuccess of a save of preferences: the user the page last
\* showed, who is the one who saved, unless the page is still there and shows
\* another.  The status stays.
SetUser(saver) ==
  /\ user' \in {saver, user} \ {NoUser}
  /\ screen' = Route(screen, status, user')
  /\ restored' = (user' # accessToken)

\* afterResponse: a first 401 waits for the refresh, a second one gives up,
\* anything else settles the call.
AfterResponse(c) ==
  /\ c \in Calls
  /\ call[c].at = "replied"
  /\ \/ /\ call[c].code # 401
        /\ call' = [call EXCEPT ![c] = NoCall]
        /\ IF call[c].code = 200 /\ call[c].saver # NoUser
           THEN SetUser(call[c].saver) ELSE UNCHANGED <<user, screen, restored>>
        /\ UNCHANGED <<accessToken, refreshing, status, boot, overlapped>>
     \/ /\ call[c].code = 401 /\ call[c].retried
        /\ call' = [call EXCEPT ![c] = NoCall]
        /\ OnUnauthorized
        /\ overlapped' = (overlapped \/ refreshing.at # "none")
        /\ UNCHANGED <<refreshing, boot>>
     \/ /\ call[c].code = 401 /\ ~call[c].retried
        /\ call' = [call EXCEPT ![c].at = "waiting"]
        /\ RefreshSession
        /\ UNCHANGED <<accessToken, store, screen, overlapped, restored>>
  /\ UNCHANGED <<server, losses, jar, form, leaving, presented, signedOut, reused>>

\* Fault: the promise resumes one of the calls that await it.
FirstWaiting ==
  LET all == {c \in DOMAIN call : call[c].at = "waiting"}
  IN IF all = {} THEN {} ELSE {CHOOSE c \in all : TRUE}

Waiting == {c \in DOMAIN call : call[c].at = "waiting"}

\* rawRefresh resolves.  The cookie and the access token are set first; then
\* every call that awaited the promise is retried with the new token, or, if
\* there is none, reported to the store and settled.
RefreshSettles ==
  /\ refreshing.at = "replied"
  /\ refreshing' = NoRefresh
  /\ IF refreshing.got # 0
     THEN /\ jar' = refreshing.got
          /\ accessToken' = owner[refreshing.got]
          /\ call' = [c \in DOMAIN call |->
               IF c \in Waiting \/ (c = Me /\ boot = "refresh")
               THEN [call[c] EXCEPT !.at = "sent", !.as = accessToken',
                                    !.retried = c \in Waiting, !.code = 0]
               ELSE call[c]]
          /\ boot' = IF boot = "refresh" THEN "me" ELSE boot
          /\ UNCHANGED <<status, user, screen, restored>>
     ELSE /\ call' = [c \in DOMAIN call |-> IF c \in Waiting THEN NoCall ELSE call[c]]
          /\ IF Waiting # {} \/ boot = "refresh"
             THEN OnUnauthorized
             ELSE UNCHANGED <<accessToken, status, user, screen, restored>>
          /\ boot' = IF boot = "refresh" \/ Me \in Waiting THEN "done" ELSE boot
          /\ jar' = jar
  /\ UNCHANGED <<server, losses, form, leaving, presented, signedOut, overlapped, reused>>

\* A page of a signed-in user calls the API; on a parent's pages the call may
\* be a save of preferences.
StartCall(c) ==
  /\ c \in Calls
  /\ SignedIn
  /\ call[c].at = "none"
  /\ \E saver \in {NoUser} \cup (IF screen = "parent" THEN {user} ELSE {}) :
       call' = [call EXCEPT ![c] = Sent(saver)]
  /\ UNCHANGED <<server, losses, jar, accessToken, refreshing, store, screen, form,
                 leaving, presented, history>>

-----------------------------------------------------------------------------
(* stores/auth.ts *)

\* bootstrap, after its refresh: the answer to /auth/me
BootstrapMe ==
  /\ call[Me].at = "replied"
  /\ IF call[Me].code = 401 /\ ~call[Me].retried
     THEN /\ call' = [call EXCEPT ![Me].at = "waiting"]
          /\ RefreshSession
          /\ UNCHANGED <<accessToken, store, screen, restored>>
     ELSE /\ call' = [call EXCEPT ![Me] = NoCall]
          /\ boot' = "done"
          /\ refreshing' = refreshing
          /\ IF call[Me].code = 200
             THEN /\ status' = "authenticated"
                  /\ user' = call[Me].as
                  /\ screen' = Route(screen, "authenticated", call[Me].as)
                  /\ UNCHANGED <<accessToken, restored>>
             ELSE OnUnauthorized
  /\ UNCHANGED <<server, losses, jar, form, leaving, presented, signedOut, overlapped,
                 reused>>

\* UserMenu: handleLogout
Logout ==
  /\ SignedIn
  /\ leaving = "no"
  /\ leaving' = "sent"
  /\ presented' = jar
  /\ UNCHANGED <<server, losses, jar, accessToken, refreshing, call, store, screen, form,
                 history>>

\* Fault: the access token is kept.
LogoutKeepsToken ==
  /\ leaving \in {"ok", "error"}
  /\ leaving' = "no"
  /\ jar' = IF leaving = "ok" THEN 0 ELSE jar
  /\ signedOut' = IF leaving = "ok" THEN accessToken ELSE signedOut
  /\ overlapped' = (overlapped \/ refreshing.at # "none")
  /\ status' = "unauthenticated"
  /\ user' = NoUser
  /\ screen' = "login"
  /\ presented' = 0 /\ restored' = FALSE
  /\ UNCHANGED <<server, losses, accessToken, refreshing, call, boot, form, reused>>

\* logout clears the tab whatever the answer; a confirmed one clears the cookie
LogoutSettles ==
  /\ leaving \in {"ok", "error"}
  /\ leaving' = "no"
  /\ jar' = IF leaving = "ok" THEN 0 ELSE jar
  /\ signedOut' = IF leaving = "ok" THEN accessToken ELSE signedOut
  /\ overlapped' = (overlapped \/ refreshing.at # "none")
  /\ accessToken' = NoUser
  /\ status' = "unauthenticated"
  /\ user' = NoUser
  /\ screen' = "login"
  /\ presented' = 0 /\ restored' = FALSE
  /\ UNCHANGED <<server, losses, refreshing, call, boot, form, reused>>

-----------------------------------------------------------------------------
(* The auth pages; one submission is in flight at a time (bound) *)

Submit(page) ==
  /\ Rendered(page)
  /\ form.at = "edit"
  /\ \E u \in IF page = "forgot" THEN {NoUser} ELSE Users :
       form' = [NoForm EXCEPT !.at = "sent", !.page = page, !.who = u]
  /\ UNCHANGED <<server, losses, jar, accessToken, refreshing, call, store, screen, leaving,
                 presented, history>>

\* The submission has a reply; the form is open again.
Settles(page) ==
  /\ form.at = "replied" /\ form.page = page
  /\ form' = NoForm
  /\ UNCHANGED <<server, losses, refreshing, call, boot, leaving, presented, reused>>

\* login and register of the store, and the pages' way home
SignsIn(page) ==
  /\ Settles(page)
  /\ form.code = 200
  /\ jar' = form.token
  /\ accessToken' = form.who
  /\ status' = "authenticated"
  /\ user' = form.who
  /\ screen' = RoleOf[form.who]
  /\ signedOut' = IF signedOut = form.who THEN NoUser ELSE signedOut
  /\ overlapped' = (overlapped \/ refreshing.at # "none")
  /\ restored' = FALSE

\* The page shows a message and changes nothing else.
Tells(page) ==
  /\ Settles(page)
  /\ UNCHANGED <<jar, accessToken, status, user, screen, signedOut, overlapped, restored>>

Refused(page) == form.code # 200 /\ Tells(page)

LoginPage == Submit("login") \/ SignsIn("login") \/ Refused("login")

RegisterPage == Submit("register") \/ SignsIn("register") \/ Refused("register")

\* Whatever the reply, the page says that a link is on its way.
ForgotPasswordPage == Submit("forgot") \/ Tells("forgot")

\* A new password leads to the sign-in page.
PasswordSet ==
  /\ Settles("reset")
  /\ form.code = 200
  /\ screen' = Route("login", status, user)
  /\ UNCHANGED <<jar, accessToken, status, user, signedOut, overlapped, restored>>

ResetPasswordPage == Submit("reset") \/ PasswordSet \/ Refused("reset")

-----------------------------------------------------------------------------
(* The browser *)

\* RootBoot: the app mounts and bootstrap asks for a refresh.
Init ==
  /\ issued \in {0, 1}
  /\ owner \in {[t \in 1..MaxTokens |-> IF t <= issued THEN u ELSE NoUser] : u \in Users}
  /\ family = [t \in 1..MaxTokens |-> IF t <= issued THEN t ELSE 0]
  /\ live = 1..issued
  /\ jar = issued
  /\ accessToken = NoUser
  /\ refreshing = [at |-> "sent", token |-> jar, got |-> 0]
  /\ call = [c \in Calls \cup {Me} |-> NoCall]
  /\ status = "loading" /\ user = NoUser /\ boot = "refresh"
  /\ screen \in Roles \cup {"login"}
  /\ form = NoForm
  /\ leaving = "no" /\ presented = 0
  /\ signedOut = NoUser
  /\ overlapped = FALSE /\ restored = FALSE /\ losses = 0 /\ reused = FALSE

\* Following a link to another page of the app
Navigate ==
  /\ status # "loading"
  /\ \E to \in AuthPages \cup Roles :
       screen' = Route(to, status, user) /\ screen' # screen
  /\ UNCHANGED <<server, losses, jar, accessToken, refreshing, call, store, form, leaving,
                 presented, history>>

Next ==
  \/ ServeRefresh \/ ServeForm \/ ServeLogout
  \/ \E c \in Calls \cup {Me} : ServeCall(c)
  \/ RefreshSettles \/ BootstrapMe
  \/ \E c \in Calls : StartCall(c) \/ AfterResponse(c)
  \/ Logout \/ LogoutSettles
  \/ LoginPage \/ RegisterPage \/ ForgotPasswordPage \/ ResetPasswordPage
  \/ Navigate

\* Refreshes and API calls are answered, or given up on by the browser, and the
\* event loop runs every reply; users do as they please.
Spec ==
  /\ Init /\ [][Next]_vars
  /\ WF_vars(ServeRefresh) /\ WF_vars(RefreshSettles) /\ WF_vars(BootstrapMe)
  /\ \A c \in Calls \cup {Me} : WF_vars(ServeCall(c))
  /\ \A c \in Calls : WF_vars(AfterResponse(c))

-----------------------------------------------------------------------------
(* Properties *)

\* Unless somebody signed in or out while a refresh was in flight, a signed-in
\* tab holds an access token; it is that of the user shown, unless the answer to
\* an earlier user's save of preferences came last; and a confirmed sign-out
\* leaves nothing of the session: no access token, no cookie that the server
\* would take, and no user, unless such an answer came after it.
\* (stores/auth.ts logout, login and setUser against lib/api/client.ts
\* rawRefresh and parent/SettingsPage.tsx onSuccess)
ActsForTheUserShown ==
  ~overlapped =>
    /\ status = "authenticated" =>
         /\ user # NoUser /\ accessToken # NoUser
         /\ accessToken = user \/ restored
    /\ signedOut # NoUser =>
         /\ signedOut # accessToken
         /\ signedOut # user \/ restored
         /\ ~(jar \in live /\ owner[jar] = signedOut)

\* Unless a reply was lost, the tab never presents a rotated refresh token,
\* which the server takes for theft and answers by ending the session: the
\* refreshes of concurrent calls are one. (refreshSession)
NoFalseTheft == losses = 0 => ~reused

\* No API call and no page load waits forever, whatever other calls, sign-ins
\* and sign-outs do to the token meanwhile. (afterResponse, bootstrap)
CallsSettle == \A c \in Calls : call[c].at # "none" ~> call[c].at = "none"
BootEnds == <>(status # "loading")

=============================================================================
