------------------------ MODULE ClientSession_proofs ------------------------
(***************************************************************************)
(* Proofs about ClientSession, for any number of users, calls, tokens and  *)
(* losses: typing, that the tab acts for the user it shows, and that it    *)
(* never presents a rotated refresh token.                                 *)
(***************************************************************************)
EXTENDS ClientSession, TLAPS

-----------------------------------------------------------------------------
(* Typing *)

\* Whoever fills in a form, except the one for a forgotten password, is a user.
Writer == form.at # "edit" /\ form.page # "forgot" => form.who \in Users

TInv == TypeOK /\ Writer

People == Users \cup {NoUser}
CallType ==
  [at : {"none", "sent", "replied", "waiting"}, as : People, saver : People,
   retried : BOOLEAN, code : Codes]

\* The guards lead to a page of the app.
LEMMA RouteTyped ==
  ASSUME NEW to \in Screens, NEW st, NEW u \in People
  PROVE  Route(to, st, u) \in Screens
BY UsersAssumption
   DEF Route, PublicOnly, RequireRole, Screens, AuthPages, People, Roles

\* A token is issued to its user, under the next number, in its family.
LEMMA IssuesKeeps ==
  ASSUME TypeOK, NEW u \in People, NEW f \in 0..MaxTokens, Issues(u, f)
  PROVE  /\ issued \in Nat /\ issued' = issued + 1 /\ issued' \in 0..MaxTokens
         /\ owner' \in [1..MaxTokens -> People]
         /\ family' \in [1..MaxTokens -> 0..MaxTokens]
         /\ owner'[issued + 1] = u
         /\ family'[issued + 1] = IF f = 0 THEN issued + 1 ELSE f
         /\ \A t \in 1..issued : owner'[t] = owner[t] /\ family'[t] = family[t]
BY TokensAssumption DEF TypeOK, Issues, People

LEMMA InitTyped == Init => TInv
<1> SUFFICES ASSUME Init PROVE TInv
  OBVIOUS
<1>1. Writer
  BY DEF Init, Writer, NoForm
<1>2. TypeOK
  <2>1. /\ issued \in 0..MaxTokens /\ live \subseteq 1..issued
        /\ jar \in 0..issued /\ presented \in 0..issued
    BY TokensAssumption DEF Init
  <2>2. owner \in [1..MaxTokens -> People] /\ family \in [1..MaxTokens -> 0..MaxTokens]
    BY TokensAssumption DEF Init, People
  <2>3. refreshing \in [at : {"none", "sent", "replied"}, token : 0..issued, got : 0..issued]
    BY <2>1 DEF Init
  <2>4. call \in [Calls \cup {Me} -> CallType]
    BY DEF Init, NoCall, CallType, Codes, People
  <2>5. form \in [at : {"edit", "sent", "replied"}, page : AuthPages,
                  who : People, code : Codes, token : 0..issued]
    BY <2>1 DEF Init, NoForm, AuthPages, Codes, People
  <2>6. /\ accessToken \in People /\ user \in People /\ signedOut \in People
        /\ screen \in Screens /\ losses \in 0..MaxLosses
    BY TokensAssumption DEF Init, People, Screens, AuthPages
  <2> QED
    BY <2>1, <2>2, <2>3, <2>4, <2>5, <2>6 DEF Init, TypeOK, CallType, People
<1> QED
  BY <1>1, <1>2 DEF TInv

Refreshings == [at : {"none", "sent", "replied"}, token : 0..issued, got : 0..issued]
Forms == [at : {"edit", "sent", "replied"}, page : AuthPages, who : People, code : Codes,
          token : 0..issued]

\* What the server keeps
ServerTyped ==
  /\ issued \in 0..MaxTokens
  /\ owner \in [1..MaxTokens -> People] /\ family \in [1..MaxTokens -> 0..MaxTokens]
  /\ live \subseteq 1..issued
  /\ losses \in 0..MaxLosses

\* What the tab keeps
TabTyped ==
  /\ jar \in 0..issued
  /\ accessToken \in People
  /\ refreshing \in Refreshings
  /\ call \in [Calls \cup {Me} -> CallType]
  /\ status \in {"loading", "authenticated", "unauthenticated"}
  /\ user \in People
  /\ boot \in {"refresh", "me", "done"}
  /\ screen \in Screens
  /\ form \in Forms
  /\ leaving \in {"no", "sent", "ok", "error"}
  /\ presented \in 0..issued
  /\ signedOut \in People
  /\ overlapped \in BOOLEAN /\ restored \in BOOLEAN /\ reused \in BOOLEAN

\* Typing is that of the two, in a state and in the next one.
LEMMA TypeParts ==
  /\ TypeOK <=> ServerTyped /\ TabTyped
  /\ TypeOK' <=> ServerTyped' /\ TabTyped'
BY DEF TypeOK, ServerTyped, TabTyped, People, CallType, Refreshings, Forms

\* The network loses only what it may.
LEMMA LosesTyped ==
  ASSUME losses \in 0..MaxLosses, NEW ok \in Codes \ {0}, NEW code \in Reply(ok), Loses(code)
  PROVE  losses' \in 0..MaxLosses /\ code \in Codes /\ code \in {ok, 0}
BY TokensAssumption DEF Reply, Loses, Codes

\* A number of a token stays one when more are issued.
LEMMA Grows ==
  ASSUME issued \in Nat, issued' \in Nat, issued <= issued'
  PROVE  /\ 0..issued \subseteq 0..issued'
         /\ Refreshings \subseteq Refreshings' /\ Forms \subseteq Forms'
<1>1. 0..issued \subseteq 0..issued'
  OBVIOUS
<1>2. Refreshings \subseteq Refreshings'
  BY <1>1 DEF Refreshings
<1>3. Forms \subseteq Forms'
  BY <1>1 DEF Forms, People, Codes, AuthPages
<1> QED
  BY <1>1, <1>2, <1>3

LEMMA ServeRefreshTyped == TInv /\ ServeRefresh => TInv'
<1> SUFFICES ASSUME TInv, ServeRefresh PROVE TInv'
  OBVIOUS
<1>1. TypeOK /\ ServerTyped /\ TabTyped
  BY TypeParts DEF TInv
<1> DEFINE t == refreshing.token
<1>2. t \in 0..issued /\ issued \in Nat /\ issued \in 0..MaxTokens
  BY <1>1, TokensAssumption DEF ServerTyped, TabTyped, Refreshings
<1>3. ServerTyped' /\ reused' \in BOOLEAN /\ refreshing' \in Refreshings'
      /\ issued \in Nat /\ issued' \in Nat /\ issued <= issued'
  <2>1. CASE t \in live /\ Issues(owner[t], family[t])
             /\ live' = (live \ {t}) \cup {issued + 1}
             /\ (\E code \in Reply(200) :
                  /\ Loses(code)
                  /\ refreshing' = [refreshing EXCEPT !.at = "replied",
                                      !.got = IF code = 200 THEN issued + 1 ELSE 0])
             /\ reused' = reused
    <3>1. t \in 1..MaxTokens /\ owner[t] \in People /\ family[t] \in 0..MaxTokens
      BY <1>1, <1>2, <2>1, TokensAssumption DEF ServerTyped
    <3> DEFINE u == owner[t]
               f == family[t]
    <3>2. u \in People /\ f \in 0..MaxTokens /\ Issues(u, f)
      BY <2>1, <3>1
    <3> HIDE DEF u, f
    <3>3. /\ issued' = issued + 1 /\ issued' \in 0..MaxTokens
          /\ owner' \in [1..MaxTokens -> People]
          /\ family' \in [1..MaxTokens -> 0..MaxTokens]
      BY <1>1, <3>2, IssuesKeeps
    <3>4. live' \subseteq 1..issued'
      BY <1>1, <1>2, <2>1, <3>3 DEF ServerTyped
    <3>5. losses' \in 0..MaxLosses
      BY <1>1, <2>1, LosesTyped DEF ServerTyped, Codes
    <3>6. refreshing' \in Refreshings'
      <4>1. refreshing \in Refreshings' /\ issued + 1 \in 0..issued' /\ 0 \in 0..issued'
        BY <1>1, <1>2, <3>3, Grows DEF TabTyped
      <4>2. PICK g \in 0..issued' : refreshing' = [refreshing EXCEPT !.at = "replied", !.got = g]
        BY <2>1, <4>1
      <4> QED
        BY <4>1, <4>2 DEF Refreshings
    <3> QED
      BY <1>1, <1>2, <2>1, <3>3, <3>4, <3>5, <3>6 DEF ServerTyped, TabTyped
  <2>2. CASE /\ refreshing' = [refreshing EXCEPT !.at = "replied"]
             /\ live' = IF t \in live THEN live \ {t} ELSE live \ FamilyOf(t)
             /\ reused' = (reused \/ \E s \in FamilyOf(t) : t < s)
             /\ UNCHANGED <<issued, owner, family, losses>>
    <3>1. live' \subseteq live
      BY <2>2
    <3>2. refreshing' \in Refreshings'
      BY <1>1, <2>2 DEF TabTyped, Refreshings
    <3>3. reused' \in BOOLEAN
      BY <1>1, <2>2 DEF TabTyped
    <3> QED
      BY <1>1, <1>2, <2>2, <3>1, <3>2, <3>3 DEF ServerTyped
  <2> QED
    BY <2>1, <2>2 DEF ServeRefresh
<1>4. form' = form /\ form' \in Forms' /\ jar' \in 0..issued' /\ presented' \in 0..issued'
  <2>1. form' = form /\ jar' = jar /\ presented' = presented
    BY DEF ServeRefresh
  <2> QED
    BY <1>1, <1>3, <2>1, Grows DEF TabTyped
<1>5. TabTyped'
  BY <1>1, <1>3, <1>4 DEF ServeRefresh, TabTyped, store
<1>6. Writer'
  BY <1>4 DEF TInv, Writer
<1> QED
  BY <1>3, <1>5, <1>6, TypeParts DEF TInv

LEMMA ServeFormTyped == TInv /\ ServeForm => TInv'
<1> SUFFICES ASSUME TInv, ServeForm PROVE TInv'
  OBVIOUS
<1>1. TypeOK /\ ServerTyped /\ TabTyped
  BY TypeParts DEF TInv
<1>2. issued \in Nat /\ form \in Forms /\ form.at = "sent" /\ form.who \in People
  <2>1. issued \in Nat
    BY <1>1, TokensAssumption DEF ServerTyped
  <2>2. form \in Forms /\ form.at = "sent"
    BY <1>1 DEF TabTyped, ServeForm
  <2> QED
    BY <2>1, <2>2 DEF Forms
<1>3. ServerTyped' /\ form' \in Forms' /\ issued' \in Nat /\ issued <= issued'
      /\ form'.page = form.page /\ form'.who = form.who
  <2>1. CASE /\ \E code \in Reply(400) :
                  /\ form' = [form EXCEPT !.at = "replied", !.code = code]
                  /\ Loses(code)
             /\ UNCHANGED server
    <3>1. PICK code \in Reply(400) :
             /\ form' = [form EXCEPT !.at = "replied", !.code = code]
             /\ Loses(code)
      BY <2>1
    <3>2. losses' \in 0..MaxLosses /\ code \in Codes
      BY <1>1, <3>1, LosesTyped DEF ServerTyped, Codes
    <3>3. form' \in Forms'
      BY <1>2, <2>1, <3>1, <3>2 DEF Forms, server
    <3> QED
      BY <1>1, <1>2, <2>1, <3>1, <3>2, <3>3 DEF ServerTyped, server, Forms
  <2>2. ASSUME NEW code \in Reply(200), Loses(code),
               form' = [form EXCEPT !.at = "replied", !.code = code,
                 !.token = IF code = 200 /\ form.page \in {"login", "register"}
                           THEN issued + 1 ELSE 0],
               \/ /\ form.page \in {"login", "register"}
                  /\ Issues(form.who, 0)
                  /\ live' = live \cup {issued + 1}
               \/ /\ form.page = "reset"
                  /\ live' = live \ TokensOf(form.who)
                  /\ UNCHANGED <<issued, owner, family>>
               \/ form.page = "forgot" /\ UNCHANGED server
        PROVE  ServerTyped' /\ form' \in Forms' /\ issued' \in Nat /\ issued <= issued'
               /\ form'.page = form.page /\ form'.who = form.who
    <3>1. losses' \in 0..MaxLosses /\ code \in Codes
      BY <1>1, <2>2, LosesTyped DEF ServerTyped, Codes
    <3>2. CASE form.page \in {"login", "register"} /\ Issues(form.who, 0)
               /\ live' = live \cup {issued + 1}
      <4> DEFINE u == form.who
      <4>1. u \in People /\ Issues(u, 0) /\ 0 \in 0..MaxTokens
        BY <1>2, <3>2, TokensAssumption
      <4> HIDE DEF u
      <4>2. /\ issued' = issued + 1 /\ issued' \in 0..MaxTokens
            /\ owner' \in [1..MaxTokens -> People]
            /\ family' \in [1..MaxTokens -> 0..MaxTokens]
        BY <1>1, <4>1, IssuesKeeps
      <4>3. live' \subseteq 1..issued'
        BY <1>1, <1>2, <3>2, <4>2 DEF ServerTyped
      <4>4. form' \in Forms'
        <5>1. form \in Forms' /\ issued + 1 \in 0..issued' /\ 0 \in 0..issued'
          BY <1>2, <4>2, Grows
        <5>2. PICK k \in 0..issued' :
                form' = [form EXCEPT !.at = "replied", !.code = code, !.token = k]
          BY <2>2, <5>1
        <5> QED
          BY <3>1, <5>1, <5>2 DEF Forms
      <4> QED
        BY <1>2, <2>2, <3>1, <4>2, <4>3, <4>4 DEF ServerTyped, Forms
    <3>3. CASE ~(form.page \in {"login", "register"})
      <4>1. UNCHANGED <<issued, owner, family>> /\ live' \subseteq live
        BY <2>2, <3>3 DEF server
      <4>2. form' \in Forms'
        <5>1. form' = [form EXCEPT !.at = "replied", !.code = code, !.token = 0]
          BY <2>2, <3>3
        <5>2. 0 \in 0..issued' /\ Forms' = Forms
          BY <1>2, <4>1 DEF Forms
        <5> QED
          BY <1>2, <3>1, <5>1, <5>2 DEF Forms
      <4> QED
        BY <1>1, <1>2, <2>2, <3>1, <4>1, <4>2 DEF ServerTyped, Forms
    <3> QED
      BY <2>2, <3>2, <3>3
  <2> QED
    BY <2>1, <2>2 DEF ServeForm
<1>4. refreshing' \in Refreshings' /\ jar' \in 0..issued' /\ presented' \in 0..issued'
  <2>1. refreshing' = refreshing /\ jar' = jar /\ presented' = presented
    BY DEF ServeForm
  <2> QED
    BY <1>1, <1>2, <1>3, <2>1, Grows DEF TabTyped
<1>5. TabTyped'
  <2>1. UNCHANGED <<accessToken, call, store, screen, leaving, history>>
    BY DEF ServeForm
  <2> QED
    BY <1>1, <1>3, <1>4, <2>1 DEF TabTyped, store, history
<1>6. Writer'
  BY <1>2, <1>3 DEF TInv, Writer
<1> QED
  BY <1>3, <1>5, <1>6, TypeParts DEF TInv

\* While no token is issued the types of the server do not move.
LEMMA QuietTyped ==
  ASSUME ServerTyped, UNCHANGED <<issued, owner, family>>, live' \subseteq live,
         losses' \in 0..MaxLosses
  PROVE  ServerTyped' /\ Refreshings' = Refreshings /\ Forms' = Forms
BY DEF ServerTyped, Refreshings, Forms, People, Codes, AuthPages

LEMMA ServeCallTyped ==
  ASSUME TInv, NEW c \in Calls \cup {Me}, ServeCall(c)
  PROVE  TInv'
<1>1. ServerTyped /\ TabTyped /\ Writer
  BY TypeParts DEF TInv
<1>2. PICK code \in (IF call[c].as = NoUser THEN {401} ELSE Reply(200) \cup {401}) :
        /\ call' = [call EXCEPT ![c] = [@ EXCEPT !.at = "replied", !.code = code]]
        /\ Loses(code)
  BY DEF ServeCall
<1>3. code \in Codes /\ losses' \in 0..MaxLosses
  <2>1. CASE code \in Reply(200)
    BY <1>1, <1>2, <2>1, LosesTyped DEF ServerTyped, Codes
  <2>2. CASE code = 401
    BY <1>1, <1>2, <2>2 DEF ServerTyped, Codes, Loses
  <2> QED
    BY <1>2, <2>1, <2>2
<1>4. call' \in [Calls \cup {Me} -> CallType]
  <2>1. call[c] \in CallType
    BY <1>1 DEF TabTyped
  <2>2. [call[c] EXCEPT !.at = "replied", !.code = code] \in CallType
    BY <1>3, <2>1 DEF CallType
  <2> QED
    BY <1>1, <1>2, <2>2 DEF TabTyped
<1>5. ServerTyped' /\ Refreshings' = Refreshings /\ Forms' = Forms
  BY <1>1, <1>3, QuietTyped DEF ServeCall, server
<1> QED
  BY <1>1, <1>4, <1>5, TypeParts DEF TInv, Writer, ServeCall, server, store, history, TabTyped

LEMMA ServeLogoutTyped == TInv /\ ServeLogout => TInv'
<1> SUFFICES ASSUME TInv, ServeLogout PROVE TInv'
  OBVIOUS
<1>1. ServerTyped /\ TabTyped /\ Writer
  BY TypeParts DEF TInv
<1>2. PICK code \in Reply(200) :
        /\ leaving' = IF code = 200 THEN "ok" ELSE "error"
        /\ Loses(code)
        /\ live' \in {IF presented \in live THEN live \ TokensOf(owner[presented]) ELSE live}
                     \cup (IF code = 0 THEN {live} ELSE {})
  BY DEF ServeLogout
<1>3. losses' \in 0..MaxLosses
  BY <1>1, <1>2, LosesTyped DEF ServerTyped, Codes
<1>4. live' \subseteq live
  BY <1>2
<1>5. ServerTyped' /\ Refreshings' = Refreshings /\ Forms' = Forms
  BY <1>1, <1>3, <1>4, QuietTyped DEF ServeLogout
<1>6. UNCHANGED <<issued, jar, accessToken, refreshing, call, store, screen, form, presented,
                  history>>
  BY DEF ServeLogout
<1> QED
  BY <1>1, <1>2, <1>5, <1>6, TypeParts DEF TInv, Writer, store, history, TabTyped

\* Asked for a refresh, the tab has one in flight: the one it had, or a new one
\* that presents its cookie.
LEMMA RefreshTyped ==
  ASSUME ServerTyped, TabTyped, RefreshSession
  PROVE  refreshing' \in Refreshings
BY TokensAssumption DEF ServerTyped, TabTyped, RefreshSession, Refreshings

\* The store told of a session that ended
LEMMA UnauthorizedTyped ==
  ASSUME TabTyped, OnUnauthorized
  PROVE  /\ accessToken' \in People /\ user' \in People
         /\ status' = "unauthenticated" /\ screen' \in Screens /\ restored' = FALSE
BY RouteTyped DEF TabTyped, OnUnauthorized, People

\* A user put back by a save
LEMMA SetUserTyped ==
  ASSUME TabTyped, NEW saver \in People, SetUser(saver)
  PROVE  user' \in Users /\ screen' \in Screens /\ restored' = (user' # accessToken)
<1>1. user' \in Users /\ user' \in People
  BY DEF SetUser, TabTyped, People
<1> QED
  BY <1>1, RouteTyped DEF SetUser, TabTyped

LEMMA AfterResponseTyped ==
  ASSUME TInv, NEW c \in Calls, AfterResponse(c)
  PROVE  TInv'
<1>1. ServerTyped /\ TabTyped /\ Writer
  BY TypeParts DEF TInv
<1>2. UNCHANGED <<server, losses, jar, form, leaving, presented, signedOut, reused>>
  BY DEF AfterResponse
<1>3. ServerTyped' /\ Refreshings' = Refreshings /\ Forms' = Forms
  BY <1>1, <1>2, QuietTyped DEF server, ServerTyped
<1>4. NoCall \in CallType /\ call[c] \in CallType /\ [call[c] EXCEPT !.at = "waiting"] \in CallType
  BY <1>1 DEF TabTyped, CallType, NoCall, People, Codes
<1> DEFINE Typed(r) == [call EXCEPT ![c] = r]
<1>5. \A r \in CallType : Typed(r) \in [Calls \cup {Me} -> CallType]
  BY <1>1 DEF TabTyped
<1>6. [call EXCEPT ![c].at = "waiting"] = Typed([call[c] EXCEPT !.at = "waiting"])
  OBVIOUS
<1>7. [call EXCEPT ![c] = NoCall] = Typed(NoCall)
  OBVIOUS
<1> HIDE DEF Typed
<1>8. CASE call[c].code # 401
  <2>1. /\ call' = [call EXCEPT ![c] = NoCall]
        /\ SetUser(call[c].saver) \/ UNCHANGED <<user, screen, restored>>
        /\ UNCHANGED <<accessToken, refreshing, status, boot, overlapped>>
    BY <1>8 DEF AfterResponse
  <2>2. call' \in [Calls \cup {Me} -> CallType]
    BY <1>4, <1>5, <1>7, <2>1
  <2>3. user' \in People /\ screen' \in Screens /\ restored' \in BOOLEAN
    <3>1. CASE SetUser(call[c].saver)
      <4> DEFINE saver == call[c].saver
      <4>1. saver \in People /\ SetUser(saver)
        BY <1>4, <3>1 DEF CallType
      <4> HIDE DEF saver
      <4> QED
        BY <1>1, <4>1, SetUserTyped DEF People
    <3>2. CASE UNCHANGED <<user, screen, restored>>
      BY <1>1, <3>2 DEF TabTyped
    <3> QED
      BY <2>1, <3>1, <3>2
  <2> QED
    BY <1>1, <1>2, <1>3, <2>1, <2>2, <2>3, TypeParts DEF TInv, Writer, server, TabTyped
<1>9. CASE call[c].code = 401 /\ call[c].retried
  <2>1. /\ call' = [call EXCEPT ![c] = NoCall] /\ OnUnauthorized
        /\ overlapped' = (overlapped \/ refreshing.at # "none")
        /\ UNCHANGED <<refreshing, boot>>
    BY <1>9 DEF AfterResponse
  <2>2. overlapped' \in BOOLEAN
    BY <2>1
  <2>3. call' \in [Calls \cup {Me} -> CallType]
    BY <1>4, <1>5, <1>7, <2>1
  <2>4. /\ accessToken' \in People /\ user' \in People
        /\ status' = "unauthenticated" /\ screen' \in Screens /\ restored' = FALSE
    BY <1>1, <2>1, UnauthorizedTyped
  <2> QED
    BY <1>1, <1>2, <1>3, <2>1, <2>2, <2>3, <2>4, TypeParts DEF TInv, Writer, server, TabTyped
<1>10. CASE call[c].code = 401 /\ ~call[c].retried
  <2>1. /\ call' = [call EXCEPT ![c].at = "waiting"] /\ RefreshSession
        /\ UNCHANGED <<accessToken, store, screen, overlapped, restored>>
    BY <1>10 DEF AfterResponse
  <2>2. call' \in [Calls \cup {Me} -> CallType]
    BY <1>4, <1>5, <1>6, <2>1
  <2>3. refreshing' \in Refreshings
    BY <1>1, <2>1, RefreshTyped
  <2> QED
    BY <1>1, <1>2, <1>3, <2>1, <2>2, <2>3, TypeParts DEF TInv, Writer, server, store, TabTyped
<1> QED
  BY <1>8, <1>9, <1>10

\* A call sent again with the bearer of somebody
LEMMA RetriedTyped ==
  ASSUME NEW r \in CallType, NEW u \in People, NEW b \in BOOLEAN
  PROVE  [r EXCEPT !.at = "sent", !.as = u, !.retried = b, !.code = 0] \in CallType
BY DEF CallType, Codes

LEMMA RefreshSettlesTyped == TInv /\ RefreshSettles => TInv'
<1> SUFFICES ASSUME TInv, RefreshSettles PROVE TInv'
  OBVIOUS
<1>1. ServerTyped /\ TabTyped /\ Writer
  BY TypeParts DEF TInv
<1>2. UNCHANGED <<server, losses, form, leaving, presented, signedOut, overlapped, reused>>
      /\ refreshing' = NoRefresh
  BY DEF RefreshSettles
<1>3. ServerTyped' /\ Refreshings' = Refreshings /\ Forms' = Forms
  BY <1>1, <1>2, QuietTyped DEF server, ServerTyped
<1>4. refreshing' \in Refreshings
  BY <1>1, <1>2, TokensAssumption DEF NoRefresh, Refreshings, ServerTyped
<1> DEFINE got == refreshing.got
<1>5. got \in 0..issued /\ issued \in 0..MaxTokens
  BY <1>1 DEF TabTyped, ServerTyped, Refreshings
<1>6. CASE got # 0
  <2>1. /\ jar' = got /\ accessToken' = owner[got]
        /\ call' = [c \in DOMAIN call |->
               IF c \in Waiting \/ (c = Me /\ boot = "refresh")
               THEN [call[c] EXCEPT !.at = "sent", !.as = accessToken',
                                    !.retried = c \in Waiting, !.code = 0]
               ELSE call[c]]
        /\ boot' = IF boot = "refresh" THEN "me" ELSE boot
        /\ UNCHANGED <<status, user, screen, restored>>
    BY <1>6 DEF RefreshSettles
  <2>2. owner[got] \in People
    BY <1>1, <1>5, <1>6, TokensAssumption DEF ServerTyped
  <2>3. call' \in [Calls \cup {Me} -> CallType]
    <3>1. DOMAIN call = Calls \cup {Me} /\ \A c \in Calls \cup {Me} : call[c] \in CallType
      BY <1>1 DEF TabTyped
    <3>2. ASSUME NEW r \in CallType, NEW b \in BOOLEAN
          PROVE  [r EXCEPT !.at = "sent", !.as = accessToken', !.retried = b, !.code = 0] \in CallType
      BY <2>1, <2>2, RetriedTyped
    <3>3. ASSUME NEW c \in Calls \cup {Me}
          PROVE  [call[c] EXCEPT !.at = "sent", !.as = accessToken',
                                 !.retried = c \in Waiting, !.code = 0] \in CallType
      <4>1. (c \in Waiting) \in BOOLEAN
        OBVIOUS
      <4> QED
        BY <3>1, <3>2, <4>1
    <3> QED
      BY <2>1, <3>1, <3>3
  <2>4. boot' \in {"refresh", "me", "done"}
    BY <1>1, <2>1 DEF TabTyped
  <2> QED
    BY <1>1, <1>2, <1>3, <1>4, <1>5, <2>1, <2>2, <2>3, <2>4, TypeParts
    DEF TInv, Writer, server, TabTyped
<1>7. CASE got = 0
  <2>1. /\ call' = [c \in DOMAIN call |-> IF c \in Waiting THEN NoCall ELSE call[c]]
        /\ IF Waiting # {} \/ boot = "refresh"
           THEN OnUnauthorized ELSE UNCHANGED <<accessToken, status, user, screen, restored>>
        /\ boot' = IF boot = "refresh" \/ Me \in Waiting THEN "done" ELSE boot
        /\ jar' = jar
    BY <1>7 DEF RefreshSettles
  <2>2. call' \in [Calls \cup {Me} -> CallType]
    <3>1. DOMAIN call = Calls \cup {Me} /\ \A c \in Calls \cup {Me} : call[c] \in CallType
      BY <1>1 DEF TabTyped
    <3>2. NoCall \in CallType
      BY DEF NoCall, CallType, Codes, People
    <3> QED
      BY <2>1, <3>1, <3>2
  <2>3. /\ accessToken' \in People /\ user' \in People /\ screen' \in Screens
        /\ status' \in {"loading", "authenticated", "unauthenticated"} /\ restored' \in BOOLEAN
    BY <1>1, <2>1, UnauthorizedTyped DEF TabTyped
  <2>4. boot' \in {"refresh", "me", "done"}
    BY <1>1, <2>1 DEF TabTyped
  <2> QED
    BY <1>1, <1>2, <1>3, <1>4, <2>1, <2>2, <2>3, <2>4, TypeParts
    DEF TInv, Writer, server, TabTyped
<1> QED
  BY <1>6, <1>7

LEMMA BootstrapMeTyped == TInv /\ BootstrapMe => TInv'
<1> SUFFICES ASSUME TInv, BootstrapMe PROVE TInv'
  OBVIOUS
<1>1. ServerTyped /\ TabTyped /\ Writer
  BY TypeParts DEF TInv
<1>2. UNCHANGED <<server, losses, jar, form, leaving, presented, signedOut, overlapped, reused>>
  BY DEF BootstrapMe
<1>3. ServerTyped' /\ Refreshings' = Refreshings /\ Forms' = Forms
  BY <1>1, <1>2, QuietTyped DEF server, ServerTyped
<1>4. /\ call[Me] \in CallType /\ NoCall \in CallType
      /\ [call[Me] EXCEPT !.at = "waiting"] \in CallType
  BY <1>1 DEF TabTyped, NoCall, CallType, Codes, People
<1>5. CASE call[Me].code = 401 /\ ~call[Me].retried
  <2>1. /\ call' = [call EXCEPT ![Me] = [call[Me] EXCEPT !.at = "waiting"]] /\ RefreshSession
        /\ UNCHANGED <<accessToken, store, screen, restored>>
    BY <1>5 DEF BootstrapMe
  <2>2. call' \in [Calls \cup {Me} -> CallType]
    BY <1>1, <1>4, <2>1 DEF TabTyped
  <2>3. refreshing' \in Refreshings
    BY <1>1, <2>1, RefreshTyped
  <2> QED
    BY <1>1, <1>2, <1>3, <2>1, <2>2, <2>3, TypeParts
    DEF TInv, Writer, server, store, history, TabTyped
<1>6. CASE ~(call[Me].code = 401 /\ ~call[Me].retried)
  <2>1. /\ call' = [call EXCEPT ![Me] = NoCall]
        /\ boot' = "done" /\ refreshing' = refreshing
        /\ IF call[Me].code = 200
             THEN /\ status' = "authenticated"
                  /\ user' = call[Me].as
                  /\ screen' = Route(screen, "authenticated", call[Me].as)
                  /\ UNCHANGED <<accessToken, restored>>
             ELSE OnUnauthorized
    BY <1>6 DEF BootstrapMe
  <2>2. call' \in [Calls \cup {Me} -> CallType]
    BY <1>1, <1>4, <2>1 DEF TabTyped
  <2>3. /\ accessToken' \in People /\ user' \in People /\ screen' \in Screens
        /\ status' \in {"loading", "authenticated", "unauthenticated"} /\ restored' \in BOOLEAN
    <3>1. CASE call[Me].code = 200
      <4>1. call[Me].as \in People /\ screen \in Screens /\ accessToken \in People
            /\ restored \in BOOLEAN
        BY <1>1, <1>4 DEF CallType, TabTyped
      <4>2. Route(screen, "authenticated", call[Me].as) \in Screens
        BY <4>1, RouteTyped
      <4> QED
        BY <2>1, <3>1, <4>1, <4>2
    <3>2. CASE call[Me].code # 200
      BY <1>1, <2>1, <3>2, UnauthorizedTyped
    <3> QED
      BY <3>1, <3>2
  <2> QED
    BY <1>1, <1>2, <1>3, <2>1, <2>2, <2>3, TypeParts
    DEF TInv, Writer, server, history, TabTyped
<1> QED
  BY <1>5, <1>6

\* A call, a sign-out and its end: only the tab moves.
LEMMA TabMovesTyped ==
  ASSUME TInv, (\E c \in Calls : StartCall(c)) \/ Logout \/ LogoutSettles \/ Navigate
  PROVE  TInv'
<1>1. ServerTyped /\ TabTyped /\ Writer
  BY TypeParts DEF TInv
<1>2. UNCHANGED <<server, losses, refreshing, form>>
  BY DEF StartCall, Logout, LogoutSettles, Navigate, store, history
<1>3. ServerTyped' /\ Refreshings' = Refreshings /\ Forms' = Forms
  BY <1>1, <1>2, QuietTyped DEF server, ServerTyped
<1>4. ASSUME NEW c \in Calls, StartCall(c)
      PROVE  TInv'
  <2>1. PICK saver \in People : call' = [call EXCEPT ![c] = Sent(saver)]
    BY <1>1, <1>4 DEF StartCall, TabTyped, People
  <2>4. Sent(saver) \in CallType
    BY <1>1 DEF Sent, CallType, Codes, TabTyped
  <2>2. call' \in [Calls \cup {Me} -> CallType]
    BY <1>1, <2>1, <2>4 DEF TabTyped
  <2>3. UNCHANGED <<jar, accessToken, store, screen, leaving, presented, history>>
    BY <1>4 DEF StartCall
  <2> QED
    BY <1>1, <1>2, <1>3, <2>2, <2>3, TypeParts DEF TInv, Writer, server, store, history, TabTyped
<1>5. CASE Logout
  <2>1. leaving' = "sent" /\ presented' = jar /\ UNCHANGED <<jar, accessToken, call, store, screen, history>>
    BY <1>5 DEF Logout
  <2> QED
    BY <1>1, <1>2, <1>3, <2>1, TypeParts DEF TInv, Writer, server, store, history, TabTyped
<1>6. CASE LogoutSettles
  <2>1. /\ leaving' = "no" /\ jar' \in {0, jar} /\ signedOut' \in {accessToken, signedOut}
        /\ presented' = 0 /\ restored' = FALSE
        /\ accessToken' = NoUser /\ status' = "unauthenticated" /\ user' = NoUser /\ screen' = "login"
        /\ UNCHANGED <<call, boot, reused>>
    BY <1>6 DEF LogoutSettles
  <2>2. overlapped' \in BOOLEAN
    BY <1>6 DEF LogoutSettles
  <2>3. 0 \in 0..issued /\ issued' = issued
    BY <1>1, <1>2, TokensAssumption DEF ServerTyped, server
  <2> QED
    BY <1>1, <1>2, <1>3, <2>1, <2>2, <2>3, TypeParts
    DEF TInv, Writer, TabTyped, People, Screens, AuthPages
<1>7. CASE Navigate
  <2>1. UNCHANGED <<jar, accessToken, call, store, leaving, presented, history>>
    BY <1>7 DEF Navigate
  <2>2. screen' \in Screens
    BY <1>1, <1>7, RouteTyped DEF Navigate, Screens, TabTyped
  <2> QED
    BY <1>1, <1>2, <1>3, <2>1, <2>2, TypeParts DEF TInv, Writer, server, store, history, TabTyped
<1> QED
  BY <1>4, <1>5, <1>6, <1>7

\* The ways a form moves in the tab: it is submitted, signs in, sets a password,
\* or only tells.
FormMoves ==
  \E page \in AuthPages :
    \/ Submit(page) \/ Tells(page)
    \/ page \in {"login", "register"} /\ SignsIn(page)
    \/ PasswordSet

LEMMA PagesMoveForms ==
  LoginPage \/ RegisterPage \/ ForgotPasswordPage \/ ResetPasswordPage => FormMoves
BY DEF LoginPage, RegisterPage, ForgotPasswordPage, ResetPasswordPage, Refused, FormMoves, AuthPages

LEMMA FormMovesTyped == TInv /\ FormMoves => TInv'
<1> SUFFICES ASSUME TInv, FormMoves PROVE TInv'
  OBVIOUS
<1>1. ServerTyped /\ TabTyped /\ Writer
  BY TypeParts DEF TInv
<1>2. UNCHANGED <<server, losses, refreshing, call, boot, leaving, presented, reused>>
  BY DEF FormMoves, Submit, Tells, SignsIn, PasswordSet, Settles, store, history
<1>3. ServerTyped' /\ Refreshings' = Refreshings /\ Forms' = Forms
  BY <1>1, <1>2, QuietTyped DEF server, ServerTyped
<1>4. 0 \in 0..issued /\ issued' = issued
  BY <1>1, <1>2, TokensAssumption DEF ServerTyped, server
<1>5. NoForm \in Forms
  BY <1>4 DEF NoForm, Forms, AuthPages, People, Codes
<1>6. PICK page \in AuthPages :
        \/ Submit(page) \/ Tells(page)
        \/ page \in {"login", "register"} /\ SignsIn(page)
        \/ PasswordSet
  BY DEF FormMoves
<1>7. CASE Submit(page)
  <2>1. PICK u \in (IF page = "forgot" THEN {NoUser} ELSE Users) :
          form' = [NoForm EXCEPT !.at = "sent", !.page = page, !.who = u]
    BY <1>7 DEF Submit
  <2>2. form' \in Forms
    BY <1>5, <2>1 DEF Forms, AuthPages, People
  <2>3. Writer'
    BY <2>1 DEF Writer, NoForm
  <2>4. UNCHANGED <<jar, accessToken, store, screen, history>>
    BY <1>7 DEF Submit
  <2> QED
    BY <1>1, <1>2, <1>3, <1>4, <2>2, <2>3, <2>4, TypeParts DEF TInv, store, history, TabTyped
<1>8. CASE Tells(page)
  <2>1. form' = NoForm /\ UNCHANGED <<jar, accessToken, status, user, screen, signedOut, overlapped,
                                      restored>>
    BY <1>8 DEF Tells, Settles
  <2>2. Writer'
    BY <2>1 DEF Writer, NoForm
  <2> QED
    BY <1>1, <1>2, <1>3, <1>4, <1>5, <2>1, <2>2, TypeParts DEF TInv, TabTyped
<1>9. CASE page \in {"login", "register"} /\ SignsIn(page)
  <2>1. /\ form' = NoForm /\ jar' = form.token /\ accessToken' = form.who
        /\ status' = "authenticated" /\ user' = form.who /\ screen' = RoleOf[form.who]
        /\ signedOut' = IF signedOut = form.who THEN NoUser ELSE signedOut
        /\ overlapped' = (overlapped \/ refreshing.at # "none") /\ restored' = FALSE
        /\ form.at = "replied" /\ form.page = page
    BY <1>9 DEF SignsIn, Settles
  <2>2. form.who \in Users /\ form.token \in 0..issued
    BY <1>1, <1>9, <2>1 DEF Writer, TabTyped, Forms
  <2>3. RoleOf[form.who] \in Screens
    BY <2>2, UsersAssumption DEF Screens
  <2>4. overlapped' \in BOOLEAN
    BY <2>1
  <2>5. Writer'
    BY <2>1 DEF Writer, NoForm
  <2>6. signedOut' \in People
    BY <1>1, <2>1 DEF TabTyped, People
  <2>7. form.who \in People
    BY <2>2 DEF People
  <2> QED
    BY <1>1, <1>2, <1>3, <1>4, <1>5, <2>1, <2>2, <2>3, <2>4, <2>5, <2>6, <2>7, TypeParts
    DEF TInv, TabTyped
<1>10. CASE PasswordSet
  <2>1. /\ form' = NoForm /\ screen' = Route("login", status, user)
        /\ UNCHANGED <<jar, accessToken, status, user, signedOut, overlapped, restored>>
    BY <1>10 DEF PasswordSet, Settles
  <2>2. screen' \in Screens
    BY <1>1, <2>1, RouteTyped DEF Screens, AuthPages, TabTyped
  <2>3. Writer'
    BY <2>1 DEF Writer, NoForm
  <2> QED
    BY <1>1, <1>2, <1>3, <1>4, <1>5, <2>1, <2>2, <2>3, TypeParts DEF TInv, TabTyped
<1> QED
  BY <1>6, <1>7, <1>8, <1>9, <1>10

LEMMA StutterTyped == TInv /\ UNCHANGED vars => TInv'
BY DEF TInv, TypeOK, Writer, vars, server, store, history

LEMMA NextTyped == TInv /\ [Next]_vars => TInv'
BY ServeRefreshTyped, ServeFormTyped, ServeLogoutTyped, ServeCallTyped, RefreshSettlesTyped,
   BootstrapMeTyped, AfterResponseTyped, TabMovesTyped, PagesMoveForms, FormMovesTyped,
   StutterTyped DEF Next

\* Tokens, cookies, calls, forms and pages keep their types: in particular every
\* cookie the tab presents is a token that was issued. (client.ts, auth.ts)
THEOREM TypeCorrect == Spec => []TypeOK
<1>1. Init => TInv
  BY InitTyped
<1>2. TInv /\ [Next]_vars => TInv'
  BY NextTyped
<1>3. TInv => TypeOK
  BY DEF TInv
<1> QED
  BY <1>1, <1>2, <1>3, PTL DEF Spec

-----------------------------------------------------------------------------
(* No rotated token is presented *)

\* The number of a family is that of its first token.
Families == \A t \in 1..issued : family[t] \in 1..t

\* A refresh that was answered with a token got it for the one it presented, of
\* the same family and user.
Rotated ==
  refreshing.got # 0 =>
    /\ refreshing.at = "replied" /\ refreshing.token # 0
    /\ family[refreshing.got] = family[refreshing.token]
    /\ owner[refreshing.got] = owner[refreshing.token]

\* Every token in the hands of the tab is the newest of its family: the cookie
\* (but for one being replaced by the answer to a refresh), the token of a
\* refresh on its way, the one of its answer, the one a form brings.
JarNewest ==
  jar # 0 =>
    \/ \A s \in 1..issued : family[s] = family[jar] => s <= jar
    \/ refreshing.got # 0 /\ jar = refreshing.token
SentNewest ==
  refreshing.at = "sent" /\ refreshing.token # 0 =>
    \A s \in 1..issued : family[s] = family[refreshing.token] => s <= refreshing.token
GotNewest ==
  refreshing.got # 0 =>
    \A s \in 1..issued : family[s] = family[refreshing.got] => s <= refreshing.got
FormNewest ==
  form.token # 0 =>
    \A s \in 1..issued : family[s] = family[form.token] => s <= form.token

\* Those that may meet are of different families: a session that a form brings
\* is new, and a refresh that crosses a sign-in is of the session before.
Apart ==
  /\ refreshing.at # "none" /\ refreshing.token # 0 /\ jar \notin {0, refreshing.token} =>
       family[jar] # family[refreshing.token]
  /\ form.token # 0 =>
       /\ jar # 0 => family[jar] # family[form.token]
       /\ refreshing.at # "none" /\ refreshing.token # 0 =>
            family[refreshing.token] # family[form.token]

Hands == JarNewest /\ SentNewest /\ GotNewest /\ FormNewest /\ Apart
LineInv == Families /\ Rotated /\ (losses = 0 => ~reused /\ Hands)

\* The numbers of the tokens the tab holds
LEMMA HeldTyped ==
  ASSUME TInv
  PROVE  /\ issued \in Nat /\ issued \in 0..MaxTokens
         /\ jar \in 0..issued /\ refreshing.token \in 0..issued
         /\ refreshing.got \in 0..issued /\ form.token \in 0..issued
         /\ family \in [1..MaxTokens -> 0..MaxTokens]
         /\ owner \in [1..MaxTokens -> People]
         /\ losses \in Nat
         /\ \A t \in 1..issued : t \in 1..MaxTokens /\ t \in Nat
<1>1. ServerTyped /\ TabTyped
  BY TypeParts DEF TInv
<1>2. issued \in Nat /\ issued \in 0..MaxTokens /\ losses \in Nat
  BY <1>1, TokensAssumption DEF ServerTyped
<1>3. jar \in 0..issued /\ refreshing.token \in 0..issued
      /\ refreshing.got \in 0..issued /\ form.token \in 0..issued
  BY <1>1 DEF TabTyped, Refreshings, Forms
<1> QED
  BY <1>1, <1>2, <1>3, TokensAssumption DEF ServerTyped

LEMMA InitLine == Init => LineInv
<1> SUFFICES ASSUME Init PROVE LineInv
  OBVIOUS
<1>1. issued \in {0, 1} /\ jar = issued /\ refreshing = [at |-> "sent", token |-> jar, got |-> 0]
      /\ form.token = 0 /\ ~reused
  BY DEF Init, NoForm
<1>2. Families
  BY TokensAssumption DEF Init, Families
<1> QED
  BY <1>1, <1>2 DEF LineInv, Rotated, Hands, JarNewest, SentNewest, GotNewest, FormNewest, Apart

\* A refresh is refused: the token it presented is the newest of its family.
LEMMA RefusedLine ==
  ASSUME TInv, LineInv, refreshing.at = "sent",
         refreshing' = [refreshing EXCEPT !.at = "replied"],
         reused' = (reused \/ \E s \in FamilyOf(refreshing.token) : refreshing.token < s),
         UNCHANGED <<issued, owner, family, losses, jar, form>>
  PROVE  LineInv'
<1>1. /\ issued \in Nat /\ refreshing.token \in 0..issued
      /\ refreshing'.token = refreshing.token /\ refreshing'.got = refreshing.got
      /\ refreshing'.at = "replied" /\ refreshing.got = 0
  BY HeldTyped, TypeParts DEF TInv, TabTyped, Refreshings, LineInv, Rotated
<1>2. Families' /\ Rotated'
  BY <1>1 DEF LineInv, Families, Rotated
<1>3. ASSUME losses = 0
      PROVE  ~reused' /\ Hands'
  <2>1. Hands /\ ~reused
    BY <1>3 DEF LineInv
  <2>2. ~ \E s \in FamilyOf(refreshing.token) : refreshing.token < s
    BY <1>1, <2>1 DEF Hands, SentNewest, FamilyOf
  <2> QED
    BY <1>1, <2>1, <2>2 DEF Hands, JarNewest, SentNewest, GotNewest, FormNewest, Apart
<1> QED
  BY <1>2, <1>3 DEF LineInv

\* A refresh is granted: the new token is the newest of the family, and the one
\* presented is no longer held, or is about to be replaced.
LEMMA GrantedLine ==
  ASSUME TInv, LineInv, refreshing.at = "sent", refreshing.token \in live,
         Issues(owner[refreshing.token], family[refreshing.token]),
         refreshing'.at = "replied", refreshing'.token = refreshing.token,
         refreshing'.got \in {0, issued + 1}, losses' = 0 => refreshing'.got = issued + 1,
         losses' = 0 => losses = 0,
         UNCHANGED <<reused, jar, form>>
  PROVE  LineInv'
<1> DEFINE t == refreshing.token
           n == issued + 1
           u == owner[t]
           f == family[t]
<1>1. /\ issued \in Nat /\ t \in 1..issued /\ jar \in 0..issued /\ form.token \in 0..issued
      /\ TypeOK /\ u \in People /\ f \in 0..MaxTokens
      /\ \A s \in 1..issued : s \in 1..MaxTokens
  <2>1. t \in 1..issued /\ TypeOK
    BY TypeParts DEF TInv, ServerTyped
  <2> QED
    BY <2>1, HeldTyped
<1>2. f \in 1..t /\ f # 0
  BY <1>1 DEF LineInv, Families
<1> HIDE DEF u, f
<1>3. /\ issued' = n /\ owner'[n] = u /\ family'[n] = f
      /\ \A s \in 1..issued : owner'[s] = owner[s] /\ family'[s] = family[s]
  <2>1. Issues(u, f)
    BY DEF u, f
  <2> QED
    BY <1>1, <1>2, <2>1, IssuesKeeps
<1>4. Families'
  <2> SUFFICES ASSUME NEW s \in 1..n PROVE family'[s] \in 1..s
    BY <1>3 DEF Families
  <2>1. CASE s = n
    BY <1>1, <1>2, <1>3, <2>1
  <2>2. CASE s \in 1..issued
    BY <1>3, <2>2 DEF LineInv, Families
  <2> QED
    BY <1>1, <2>1, <2>2
<1>5. Rotated'
  BY <1>1, <1>3 DEF Rotated, u, f
<1>6. ASSUME losses' = 0
      PROVE  ~reused' /\ Hands'
  <2>1. Hands /\ ~reused /\ refreshing'.got = n /\ refreshing.got = 0
    BY <1>6 DEF LineInv, Rotated
  <2>2. \A s \in 1..n : s \in 1..issued \/ s = n
    BY <1>1
  <2>3. GotNewest'
    BY <1>1, <1>3, <2>1 DEF GotNewest
  <2>4. SentNewest'
    BY DEF SentNewest
  <2>5. JarNewest'
    <3>1. CASE jar = t
      BY <1>1, <2>1, <3>1 DEF JarNewest
    <3>2. CASE jar # t /\ jar # 0
      <4>1. family[jar] # f /\ \A s \in 1..issued : family[s] = family[jar] => s <= jar
        BY <1>1, <2>1, <3>2 DEF Hands, Apart, JarNewest, f
      <4> QED
        BY <1>1, <1>3, <2>2, <3>2, <4>1 DEF JarNewest
    <3>3. CASE jar = 0
      BY <3>3 DEF JarNewest
    <3> QED
      BY <3>1, <3>2, <3>3
  <2>6. FormNewest'
    <3>1. CASE form.token # 0
      <4>1. family[form.token] # f /\ \A s \in 1..issued : family[s] = family[form.token] => s <= form.token
        BY <1>1, <2>1, <3>1 DEF Hands, Apart, FormNewest, f
      <4> QED
        BY <1>1, <1>3, <2>2, <3>1, <4>1 DEF FormNewest
    <3>2. CASE form.token = 0
      BY <3>2 DEF FormNewest
    <3> QED
      BY <3>1, <3>2
  <2>7. Apart'
    BY <1>1, <1>3, <2>1 DEF Hands, Apart
  <2> QED
    BY <2>1, <2>3, <2>4, <2>5, <2>6, <2>7 DEF Hands
<1> QED
  BY <1>4, <1>5, <1>6 DEF LineInv

\* A form is answered with a session: its token is the first of a new family.
LEMMA SessionLine ==
  ASSUME TInv, LineInv, NEW who \in People, Issues(who, 0),
         form'.token \in {0, issued + 1}, losses' = 0 => losses = 0,
         UNCHANGED <<reused, jar, refreshing>>
  PROVE  LineInv'
<1> DEFINE n == issued + 1
<1>1. /\ issued \in Nat /\ jar \in 0..issued /\ refreshing.token \in 0..issued
      /\ refreshing.got \in 0..issued /\ TypeOK
      /\ \A s \in 1..issued : family[s] \in 1..s
  BY HeldTyped DEF TInv, LineInv, Families
<1>2. /\ issued' = n /\ family'[n] = n
      /\ \A s \in 1..issued : owner'[s] = owner[s] /\ family'[s] = family[s]
  <2>1. 0 \in 0..MaxTokens
    BY TokensAssumption
  <2> QED
    BY <1>1, <2>1, IssuesKeeps
<1>3. \A s \in 1..n : s \in 1..issued \/ s = n
  BY <1>1
<1>4. \A s \in 1..issued : family'[s] # n
  BY <1>1, <1>2
<1>5. Families'
  <2> SUFFICES ASSUME NEW s \in 1..n PROVE family'[s] \in 1..s
    BY <1>2 DEF Families
  <2>1. CASE s = n
    BY <1>1, <1>2, <2>1
  <2>2. CASE s \in 1..issued
    BY <1>1, <1>2, <2>2
  <2> QED
    BY <1>3, <2>1, <2>2
<1>6. Rotated'
  BY <1>1, <1>2 DEF LineInv, Rotated
<1>7. ASSUME losses' = 0
      PROVE  ~reused' /\ Hands'
  <2>1. Hands /\ ~reused
    BY <1>7 DEF LineInv
  <2>2. JarNewest'
    BY <1>1, <1>2, <1>3, <1>4, <2>1 DEF Hands, JarNewest
  <2>3. SentNewest'
    BY <1>1, <1>2, <1>3, <1>4, <2>1 DEF Hands, SentNewest
  <2>4. GotNewest'
    BY <1>1, <1>2, <1>3, <1>4, <2>1 DEF Hands, GotNewest
  <2>5. FormNewest'
    BY <1>1, <1>2, <1>3 DEF FormNewest
  <2>6. Apart'
    BY <1>1, <1>2, <1>4, <2>1 DEF Hands, Apart
  <2> QED
    BY <2>1, <2>2, <2>3, <2>4, <2>5, <2>6 DEF Hands
<1> QED
  BY <1>5, <1>6, <1>7 DEF LineInv

\* What the tab does with the tokens it holds: a form is submitted or closed, a
\* refresh is asked for, its answer is taken, the cookie is cleared, or a form
\* brings a session.
Forgets == form'.token \in {0, form.token} /\ UNCHANGED <<jar, refreshing>>
Asks == RefreshSession /\ UNCHANGED <<jar, form>>
Takes ==
  /\ refreshing.at = "replied" /\ refreshing' = NoRefresh
  /\ jar' = IF refreshing.got # 0 THEN refreshing.got ELSE jar
  /\ UNCHANGED form
Clears == jar' = 0 /\ UNCHANGED <<refreshing, form>>
Brings == jar' = form.token /\ form' = NoForm /\ UNCHANGED refreshing

LEMMA TabLine ==
  ASSUME TInv, LineInv, Forgets \/ Asks \/ Takes \/ Clears \/ Brings,
         losses' = 0 => losses = 0, UNCHANGED <<issued, owner, family, reused>>
  PROVE  LineInv'
<1>1. /\ issued \in Nat /\ jar \in 0..issued /\ refreshing.token \in 0..issued
      /\ refreshing.got \in 0..issued
  BY HeldTyped
<1>2. Families'
  BY DEF LineInv, Families
<1>3. CASE Forgets
  <2>1. Rotated'
    BY <1>3 DEF LineInv, Rotated, Forgets
  <2>2. ASSUME losses' = 0 PROVE ~reused' /\ Hands'
    BY <1>3, <2>2 DEF LineInv, Forgets, Hands, JarNewest, SentNewest, GotNewest, FormNewest, Apart
  <2> QED
    BY <1>2, <2>1, <2>2 DEF LineInv
<1>4. CASE Asks /\ refreshing.at # "none"
  BY <1>2, <1>4 DEF LineInv, Asks, RefreshSession, Rotated, Hands, JarNewest, SentNewest,
                    GotNewest, FormNewest, Apart
<1>5. CASE Asks /\ refreshing.at = "none"
  <2>1. refreshing' = [at |-> "sent", token |-> jar, got |-> 0] /\ UNCHANGED <<jar, form>>
    BY <1>5 DEF Asks, RefreshSession
  <2>2. Rotated'
    BY <2>1 DEF Rotated
  <2>3. ASSUME losses' = 0 PROVE ~reused' /\ Hands'
    <3>1. Hands /\ ~reused /\ refreshing.got = 0
      BY <1>5, <2>3 DEF LineInv, Rotated
    <3> QED
      BY <2>1, <3>1 DEF Hands, JarNewest, SentNewest, GotNewest, FormNewest, Apart
  <2> QED
    BY <1>2, <2>2, <2>3 DEF LineInv
<1>6. CASE Takes
  <2>1. Rotated'
    BY <1>6 DEF Takes, NoRefresh, Rotated
  <2>2. ASSUME losses' = 0 PROVE ~reused' /\ Hands'
    <3>1. Hands /\ ~reused /\ Rotated
      BY <2>2 DEF LineInv
    <3> QED
      BY <1>6, <3>1 DEF Takes, NoRefresh, Hands, JarNewest, SentNewest, GotNewest, FormNewest,
                        Apart, Rotated
  <2> QED
    BY <1>2, <2>1, <2>2 DEF LineInv
<1>7. CASE Clears
  BY <1>2, <1>7 DEF LineInv, Clears, Rotated, Hands, JarNewest, SentNewest, GotNewest, FormNewest,
                    Apart
<1>8. CASE Brings
  <2>1. Rotated' /\ form'.token = 0
    BY <1>8 DEF Brings, LineInv, Rotated, NoForm
  <2>2. ASSUME losses' = 0 PROVE ~reused' /\ Hands'
    <3>1. Hands /\ ~reused
      BY <2>2 DEF LineInv
    <3> QED
      BY <1>8, <2>1, <3>1 DEF Brings, Hands, JarNewest, SentNewest, GotNewest, FormNewest, Apart
  <2> QED
    BY <1>2, <2>1, <2>2 DEF LineInv
<1> QED
  BY <1>3, <1>4, <1>5, <1>6, <1>7, <1>8

\* Each step is one of those, or an answer of the server.
LEMMA NextLine == TInv /\ LineInv /\ [Next]_vars => LineInv'
<1> SUFFICES ASSUME TInv, LineInv, [Next]_vars PROVE LineInv'
  OBVIOUS
<1>1. issued \in Nat /\ losses \in Nat /\ ServerTyped /\ TabTyped
  BY HeldTyped, TypeParts DEF TInv
<1>2. CASE ServeRefresh
  <2> DEFINE t == refreshing.token
  <2>1. refreshing.at = "sent" /\ UNCHANGED <<jar, form>>
    BY <1>2 DEF ServeRefresh
  <2>2. CASE t \in live /\ Issues(owner[t], family[t])
             /\ (\E code \in Reply(200) :
                  /\ Loses(code)
                  /\ refreshing' = [refreshing EXCEPT !.at = "replied",
                                      !.got = IF code = 200 THEN issued + 1 ELSE 0])
             /\ reused' = reused
    <3>1. PICK code \in Reply(200) :
            /\ Loses(code)
            /\ refreshing' = [refreshing EXCEPT !.at = "replied",
                                !.got = IF code = 200 THEN issued + 1 ELSE 0]
      BY <2>2
    <3>2. code \in {0, 200} /\ losses' = (IF code = 0 THEN losses + 1 ELSE losses)
      BY <3>1 DEF Reply, Loses
    <3>3. refreshing'.at = "replied" /\ refreshing'.token = t
          /\ refreshing'.got = IF code = 200 THEN issued + 1 ELSE 0
      BY <1>1, <3>1 DEF TabTyped, Refreshings
    <3>4. losses' = 0 => losses = 0 /\ refreshing'.got = issued + 1
      BY <1>1, <3>2, <3>3
    <3>5. refreshing'.got \in {0, issued + 1}
      BY <3>2, <3>3
    <3> QED
      BY <2>1, <2>2, <3>3, <3>4, <3>5, GrantedLine
  <2>3. CASE /\ refreshing' = [refreshing EXCEPT !.at = "replied"]
             /\ reused' = (reused \/ \E s \in FamilyOf(t) : t < s)
             /\ UNCHANGED <<issued, owner, family, losses>>
    BY <2>1, <2>3, RefusedLine
  <2> QED
    BY <1>2, <2>2, <2>3 DEF ServeRefresh
<1>3. CASE ServeForm
  <2>1. UNCHANGED <<reused, jar, refreshing>>
    BY <1>3 DEF ServeForm, history
  <2>2. losses' = 0 => losses = 0
    <3>1. \E code : Loses(code)
      BY <1>3 DEF ServeForm
    <3> QED
      BY <1>1, <3>1 DEF Loses
  <2>3. form.who \in People /\ form \in Forms
    BY <1>1 DEF TabTyped, Forms
  <2>4. CASE \E code \in Reply(200) :
               /\ form' = [form EXCEPT !.at = "replied", !.code = code,
                    !.token = IF code = 200 /\ form.page \in {"login", "register"}
                              THEN issued + 1 ELSE 0]
               /\ \/ Issues(form.who, 0) 
                  \/ /\ form.page \notin {"login", "register"}
                     /\ UNCHANGED <<issued, owner, family>>
    <3>1. PICK code \in Reply(200) :
               /\ form' = [form EXCEPT !.at = "replied", !.code = code,
                    !.token = IF code = 200 /\ form.page \in {"login", "register"}
                              THEN issued + 1 ELSE 0]
               /\ \/ Issues(form.who, 0) 
                  \/ /\ form.page \notin {"login", "register"}
                     /\ UNCHANGED <<issued, owner, family>>
      BY <2>4
    <3>2. form'.token = IF code = 200 /\ form.page \in {"login", "register"} THEN issued + 1 ELSE 0
      BY <2>3, <3>1 DEF Forms
    <3>3. CASE Issues(form.who, 0)
      <4> DEFINE w == form.who
      <4>1. w \in People /\ Issues(w, 0) /\ form'.token \in {0, issued + 1}
        BY <2>3, <3>2, <3>3
      <4> HIDE DEF w
      <4> QED
        BY <2>1, <2>2, <4>1, SessionLine
    <3>4. CASE form.page \notin {"login", "register"} /\ UNCHANGED <<issued, owner, family>>
      <4>1. Forgets
        BY <2>1, <3>2, <3>4 DEF Forgets
      <4> QED
        BY <2>1, <2>2, <3>4, <4>1, TabLine
    <3> QED
      BY <3>1, <3>3, <3>4
  <2>5. CASE (\E code \in Reply(400) : form' = [form EXCEPT !.at = "replied", !.code = code])
             /\ UNCHANGED server
    <3>1. Forgets
      BY <2>1, <2>3, <2>5 DEF Forgets, Forms
    <3> QED
      BY <2>1, <2>2, <2>5, <3>1, TabLine DEF server
  <2>6. \/ \E code \in Reply(200) :
               /\ form' = [form EXCEPT !.at = "replied", !.code = code,
                    !.token = IF code = 200 /\ form.page \in {"login", "register"}
                              THEN issued + 1 ELSE 0]
               /\ \/ Issues(form.who, 0) 
                  \/ /\ form.page \notin {"login", "register"}
                     /\ UNCHANGED <<issued, owner, family>>
        \/ (\E code \in Reply(400) : form' = [form EXCEPT !.at = "replied", !.code = code])
             /\ UNCHANGED server
    BY <1>3 DEF ServeForm, server
  <2> QED
    BY <2>4, <2>5, <2>6
<1>4. CASE ~ServeRefresh /\ ~ServeForm
  <2>1. UNCHANGED <<issued, owner, family, reused>> /\ (losses' = 0 => losses = 0)
    <3>1. \A code : Loses(code) => (losses' = 0 => losses = 0)
      BY <1>1 DEF Loses
    <3>2. CASE ServeLogout \/ \E c \in Calls \cup {Me} : ServeCall(c)
      <4>1. losses' = 0 => losses = 0
        <5>1. ServeLogout => \E code : Loses(code)
          BY DEF ServeLogout
        <5>2. ASSUME NEW c \in Calls \cup {Me}, ServeCall(c) PROVE \E code : Loses(code)
          <6>1. PICK code \in (IF call[c].as = NoUser THEN {401} ELSE Reply(200) \cup {401}) :
                  Loses(code)
            BY <5>2 DEF ServeCall
          <6> QED
            BY <6>1
        <5> QED
          BY <3>1, <3>2, <5>1, <5>2
      <4> QED
        BY <3>2, <4>1 DEF ServeLogout, ServeCall, server, history
    <3>3. CASE FormMoves
      BY <3>3 DEF FormMoves, Submit, Tells, SignsIn, PasswordSet, Settles, server, history
    <3>4. CASE \/ RefreshSettles \/ BootstrapMe \/ Logout \/ LogoutSettles \/ Navigate
               \/ \E c \in Calls : StartCall(c) \/ AfterResponse(c)
               \/ UNCHANGED vars
      BY <3>4 DEF RefreshSettles, BootstrapMe, Logout, LogoutSettles, Navigate, StartCall,
                  AfterResponse, vars, server, history
    <3> QED
      BY <1>4, <3>2, <3>3, <3>4, PagesMoveForms DEF Next
  <2>2. Forgets \/ Asks \/ Takes \/ Clears \/ Brings
    <3>1. CASE RefreshSettles
      BY <3>1 DEF RefreshSettles, Takes
    <3>2. CASE BootstrapMe \/ \E c \in Calls : AfterResponse(c)
      BY <3>2 DEF BootstrapMe, AfterResponse, Asks, Forgets
    <3>3. CASE LogoutSettles
      BY <3>3 DEF LogoutSettles, Clears, Forgets
    <3>4. CASE FormMoves
      <4>1. ASSUME NEW page \in AuthPages, Submit(page) PROVE Forgets
        <5>1. PICK w : form' = [NoForm EXCEPT !.at = "sent", !.page = page, !.who = w]
          BY <4>1 DEF Submit
        <5>2. form'.token = 0
          BY <5>1 DEF NoForm
        <5> QED
          BY <4>1, <5>2 DEF Submit, Forgets
      <4>2. NoForm.token = 0
        BY DEF NoForm
      <4>3. ASSUME NEW page, Tells(page) \/ PasswordSet PROVE Forgets
        BY <4>2, <4>3 DEF Tells, PasswordSet, Settles, Forgets
      <4>4. ASSUME NEW page, SignsIn(page) PROVE Brings
        BY <4>4 DEF SignsIn, Settles, Brings
      <4> QED
        BY <3>4, <4>1, <4>3, <4>4 DEF FormMoves
    <3>5. CASE \/ ServeLogout \/ Logout \/ Navigate \/ UNCHANGED vars
               \/ (\E c \in Calls \cup {Me} : ServeCall(c)) \/ \E c \in Calls : StartCall(c)
      BY <3>5 DEF ServeLogout, Logout, Navigate, ServeCall, StartCall, vars, Forgets
    <3> QED
      BY <1>4, <3>1, <3>2, <3>3, <3>4, <3>5, PagesMoveForms DEF Next
  <2> QED
    BY <2>1, <2>2, TabLine
<1> QED
  BY <1>2, <1>3, <1>4

\* Unless a reply was lost, the tab never presents a rotated refresh token: the
\* refreshes of concurrent calls are one, and a sign-in or sign-out that crosses
\* one leaves no used cookie behind. (refreshSession, rawRefresh, login, logout)
THEOREM NoTheftSeen == Spec => []NoFalseTheft
<1>1. Init => TInv /\ LineInv
  BY InitTyped, InitLine
<1>2. TInv /\ LineInv /\ [Next]_vars => TInv' /\ LineInv'
  BY NextTyped, NextLine
<1>3. LineInv => NoFalseTheft
  BY DEF LineInv, NoFalseTheft
<1> QED
  BY <1>1, <1>2, <1>3, PTL DEF Spec

-----------------------------------------------------------------------------
(* The tab acts for the user it shows *)

\* Until bootstrap is done nothing but its own refresh and GET /auth/me is in
\* flight; the answer to the latter waits for the former.
BootInv ==
  /\ boot # "done" <=> status = "loading"
  /\ status = "loading" =>
       /\ user = NoUser /\ form.at = "edit" /\ leaving = "no" /\ signedOut = NoUser
       /\ \A c \in Calls : call[c].at = "none"
  /\ boot = "refresh" => refreshing.at # "none"
  /\ boot = "me" => call[Me].at # "none" /\ (refreshing.at # "none" => call[Me].at = "waiting")
  /\ boot # "me" => call[Me].at = "none"
  /\ call[Me].at = "replied" /\ call[Me].code = 200 => call[Me].as # NoUser

\* Signed in, the pages are those of a role; a form that is filled in belongs to
\* nobody signed in, and the session it brings is of the one who filled it in.
PagesInv ==
  /\ status = "authenticated" => user # NoUser /\ screen \in Roles
  /\ form.at # "edit" => status = "unauthenticated"
  /\ form.token # 0 => form.at = "replied" /\ owner[form.token] = form.who
  /\ form.at = "replied" /\ form.code = 200 /\ form.page \in {"login", "register"} =>
       form.token # 0

LEMMA InitBoot == Init => BootInv /\ PagesInv
BY DEF Init, BootInv, PagesInv, NoForm, NoCall

\* What the tab's calls are
LEMMA CallsTyped ==
  ASSUME TInv
  PROVE  /\ DOMAIN call = Calls \cup {Me}
         /\ \A c \in Calls \cup {Me} : call[c] \in CallType
         /\ refreshing \in Refreshings /\ form \in Forms
         /\ Me \notin Calls /\ \A c \in Calls : c # Me
         /\ status \in {"loading", "authenticated", "unauthenticated"}
         /\ boot \in {"refresh", "me", "done"}
         /\ screen \in Screens
BY TypeParts, CallsAssumption DEF TInv, TabTyped

\* The server answers: nothing of bootstrap moves but the answers themselves.
LEMMA ServeBoot ==
  ASSUME TInv, BootInv,
         ServeRefresh \/ ServeForm \/ ServeLogout \/ \E c \in Calls \cup {Me} : ServeCall(c)
  PROVE  BootInv'
<1> USE CallsTyped
<1>1. CASE ServeRefresh
  <2>1. refreshing.at = "sent" /\ refreshing'.at = "replied"
        /\ UNCHANGED <<call, status, user, boot, form, leaving, signedOut>>
    BY <1>1 DEF ServeRefresh, store, Refreshings
  <2> QED
    BY <2>1 DEF BootInv
<1>2. CASE ServeForm
  <2>1. form.at = "sent" /\ UNCHANGED <<refreshing, call, status, user, boot, leaving, signedOut>>
    BY <1>2 DEF ServeForm, store, history
  <2> QED
    BY <2>1 DEF BootInv
<1>3. CASE ServeLogout
  <2>1. leaving = "sent" /\ UNCHANGED <<refreshing, call, status, user, boot, form, signedOut>>
    BY <1>3 DEF ServeLogout, store, history
  <2> QED
    BY <2>1 DEF BootInv
<1>4. ASSUME NEW c \in Calls \cup {Me}, ServeCall(c) PROVE BootInv'
  <2>1. PICK code \in (IF call[c].as = NoUser THEN {401} ELSE Reply(200) \cup {401}) :
          /\ call' = [call EXCEPT ![c] = [@ EXCEPT !.at = "replied", !.code = code]]
          /\ Loses(code)
    BY <1>4, Zenon DEF ServeCall
  <2>2. /\ call[c].at = "sent"
        /\ UNCHANGED <<refreshing, status, user, boot, form, leaving, signedOut>>
    BY <1>4 DEF ServeCall, store, history
  <2>3. /\ \A d \in Calls \cup {Me} : d # c => call'[d] = call[d]
        /\ call'[c].at = "replied" /\ call'[c].as = call[c].as /\ call'[c].code = code
    BY <2>1 DEF CallType
  <2>4. code = 200 => call[c].as # NoUser
    OBVIOUS
  <2> QED
    BY <2>2, <2>3, <2>4 DEF BootInv
<1> QED
  BY <1>1, <1>2, <1>3, <1>4

\* The API client and bootstrap
LEMMA ClientBoot ==
  ASSUME TInv, BootInv, RefreshSettles \/ BootstrapMe \/ \E c \in Calls : AfterResponse(c)
  PROVE  BootInv'
<1> USE CallsTyped
<1>1. CASE RefreshSettles
  <2>1. refreshing.at = "replied" /\ refreshing' = NoRefresh /\ NoRefresh.at = "none"
        /\ UNCHANGED <<form, leaving, signedOut>>
    BY <1>1 DEF RefreshSettles, NoRefresh
  <2>2. CASE refreshing.got # 0
    <3>1. /\ call' = [c \in DOMAIN call |->
               IF c \in Waiting \/ (c = Me /\ boot = "refresh")
               THEN [call[c] EXCEPT !.at = "sent", !.as = accessToken',
                                    !.retried = c \in Waiting, !.code = 0]
               ELSE call[c]]
          /\ boot' = IF boot = "refresh" THEN "me" ELSE boot
          /\ UNCHANGED <<status, user>>
      BY <1>1, <2>2 DEF RefreshSettles
    <3>0. /\ \A c \in Calls \cup {Me} : c \notin Waiting /\ c # Me => call'[c] = call[c]
          /\ Me \notin Waiting /\ boot # "refresh" => call'[Me] = call[Me]
          /\ Me \in Waiting \/ boot = "refresh" => call'[Me].at = "sent"
      BY <3>1 DEF CallType
    <3>2. boot # "done" => \A c \in Calls : c \notin Waiting
      BY DEF BootInv, Waiting
    <3>3. boot # "done" => \A c \in Calls : call'[c] = call[c]
      BY <3>0, <3>2
    <3>4. boot = "done" => Me \notin Waiting /\ call'[Me] = call[Me]
      BY <3>0 DEF BootInv, Waiting
    <3>5. boot # "done" => call'[Me].at = "sent"
      <4>1. boot = "me" => Me \in Waiting
        BY <2>1 DEF BootInv, Waiting
      <4> QED
        BY <3>0, <4>1
    <3> QED
      BY <2>1, <3>1, <3>3, <3>4, <3>5 DEF BootInv
  <2>3. CASE refreshing.got = 0
    <3>1. /\ call' = [c \in DOMAIN call |-> IF c \in Waiting THEN NoCall ELSE call[c]]
          /\ IF Waiting # {} \/ boot = "refresh"
             THEN OnUnauthorized ELSE UNCHANGED <<accessToken, status, user, screen, restored>>
          /\ boot' = IF boot = "refresh" \/ Me \in Waiting THEN "done" ELSE boot
      BY <1>1, <2>3 DEF RefreshSettles
    <3>2. boot = "me" => Me \in Waiting
      BY <2>1 DEF BootInv, Waiting
    <3>3. boot' = "done" /\ call'[Me].at = "none"
      BY <3>1, <3>2 DEF BootInv, NoCall
    <3>4. status' # "loading"
      BY <3>1, <3>2 DEF BootInv, OnUnauthorized
    <3> QED
      BY <3>3, <3>4 DEF BootInv
  <2> QED
    BY <2>2, <2>3
<1>2. CASE BootstrapMe
  <2>1. call[Me].at = "replied" /\ UNCHANGED <<form, leaving, signedOut>> /\ boot = "me"
    BY <1>2 DEF BootstrapMe, BootInv
  <2>2. CASE call[Me].code = 401 /\ ~call[Me].retried
    <3>1. /\ call' = [call EXCEPT ![Me].at = "waiting"] /\ RefreshSession
          /\ UNCHANGED <<status, user, boot>>
      BY <1>2, <2>2 DEF BootstrapMe, store
    <3>2. call'[Me].at = "waiting" /\ \A c \in Calls : call'[c] = call[c]
      BY <3>1 DEF CallType
    <3> QED
      BY <2>1, <3>1, <3>2 DEF BootInv
  <2>3. CASE ~(call[Me].code = 401 /\ ~call[Me].retried)
    <3>1. boot' = "done" /\ status' \in {"authenticated", "unauthenticated"} /\ call'[Me].at = "none"
      BY <1>2, <2>3 DEF BootstrapMe, OnUnauthorized, NoCall
    <3> QED
      BY <3>1 DEF BootInv
  <2> QED
    BY <2>2, <2>3
<1>3. ASSUME NEW c \in Calls, AfterResponse(c) PROVE BootInv'
  <2>1. call[c].at = "replied" /\ status # "loading" /\ boot = "done"
    BY <1>3 DEF AfterResponse, BootInv
  <2>2. boot' = boot /\ status' # "loading" /\ call'[Me] = call[Me]
    BY <1>3, <2>1 DEF AfterResponse, OnUnauthorized, store
  <2> QED
    BY <2>1, <2>2 DEF BootInv
<1> QED
  BY <1>1, <1>2, <1>3

\* The user and the pages
LEMMA TabBoot ==
  ASSUME TInv, BootInv,
         \/ Logout \/ LogoutSettles \/ Navigate \/ FormMoves \/ UNCHANGED vars
         \/ \E c \in Calls : StartCall(c)
  PROVE  BootInv'
<1> USE CallsTyped
<1>1. CASE Logout
  BY <1>1 DEF Logout, SignedIn, store, history, BootInv
<1>2. CASE LogoutSettles
  BY <1>2 DEF LogoutSettles, BootInv
<1>3. CASE Navigate
  BY <1>3 DEF Navigate, store, history, BootInv
<1>4. CASE FormMoves
  <2>1. boot = "done" /\ status' # "loading" /\ UNCHANGED <<boot, call>>
    BY <1>4 DEF FormMoves, Submit, Rendered, Tells, SignsIn, PasswordSet, Settles, store, BootInv
  <2> QED
    BY <2>1 DEF BootInv
<1>5. CASE UNCHANGED vars
  BY <1>5 DEF vars, store, history, BootInv
<1>6. ASSUME NEW c \in Calls, StartCall(c) PROVE BootInv'
  <2>1. boot = "done" /\ status # "loading" /\ UNCHANGED <<boot, status>> /\ call'[Me] = call[Me]
    BY <1>6 DEF StartCall, SignedIn, store, BootInv
  <2> QED
    BY <2>1 DEF BootInv
<1> QED
  BY <1>1, <1>2, <1>3, <1>4, <1>5, <1>6

LEMMA NextBoot == TInv /\ BootInv /\ [Next]_vars => BootInv'
BY ServeBoot, ClientBoot, TabBoot, PagesMoveForms DEF Next

\* Whoever is signed in is led to the pages of their role.
LEMMA SignedInRoute ==
  ASSUME NEW to \in Screens, NEW u \in Users
  PROVE  Route(to, "authenticated", u) \in Roles
BY UsersAssumption DEF Route, PublicOnly, RequireRole, Screens

\* A token never changes hands.
LEMMA OwnersStay ==
  ASSUME TInv, [Next]_vars
  PROVE  \A t \in 1..issued : owner'[t] = owner[t]
<1>1. TypeOK /\ ServerTyped /\ TabTyped
  BY TypeParts DEF TInv
<1>2. ASSUME NEW u \in People, NEW f \in 0..MaxTokens, Issues(u, f)
      PROVE  \A t \in 1..issued : owner'[t] = owner[t]
  BY <1>1, <1>2, IssuesKeeps
<1>3. CASE ServeRefresh
  <2>1. CASE UNCHANGED owner
    BY <2>1
  <2>2. CASE refreshing.token \in live /\ Issues(owner[refreshing.token], family[refreshing.token])
    <3> DEFINE u == owner[refreshing.token]
               f == family[refreshing.token]
    <3>1. u \in People /\ f \in 0..MaxTokens
      BY <1>1, <2>2, HeldTyped DEF ServerTyped
    <3>2. Issues(u, f)
      BY <2>2
    <3> HIDE DEF u, f
    <3> QED
      BY <1>2, <3>1, <3>2
  <2> QED
    BY <1>3, <2>1, <2>2 DEF ServeRefresh
<1>4. CASE ServeForm
  <2>1. CASE UNCHANGED owner
    BY <2>1
  <2>2. CASE Issues(form.who, 0)
    <3> DEFINE u == form.who
    <3>1. u \in People /\ 0 \in 0..MaxTokens /\ Issues(u, 0)
      BY <1>1, <2>2, TokensAssumption DEF TabTyped, Forms
    <3> HIDE DEF u
    <3> QED
      BY <1>2, <3>1
  <2> QED
    BY <1>4, <2>1, <2>2 DEF ServeForm, server
<1>5. CASE ~ServeRefresh /\ ~ServeForm
  <2>1. CASE FormMoves
    BY <2>1 DEF FormMoves, Submit, Tells, SignsIn, PasswordSet, Settles, server
  <2>2. CASE ServeLogout \/ \E c \in Calls \cup {Me} : ServeCall(c)
    BY <2>2 DEF ServeLogout, ServeCall, server
  <2>3. CASE \/ RefreshSettles \/ BootstrapMe \/ Logout \/ LogoutSettles \/ Navigate
             \/ UNCHANGED vars \/ \E c \in Calls : StartCall(c) \/ AfterResponse(c)
    BY <2>3 DEF RefreshSettles, BootstrapMe, Logout, LogoutSettles, Navigate, StartCall,
                AfterResponse, vars, server
  <2> QED
    BY <1>5, <2>1, <2>2, <2>3, PagesMoveForms DEF Next
<1> QED
  BY <1>3, <1>4, <1>5

LEMMA ServeFormPages == TInv /\ PagesInv /\ ServeForm => PagesInv'
<1> SUFFICES ASSUME TInv, PagesInv, ServeForm PROVE PagesInv'
  OBVIOUS
<1>1. /\ TypeOK /\ form \in Forms /\ form.who \in People /\ form.at = "sent"
      /\ UNCHANGED <<status, user, screen>>
  <2>1. form \in Forms /\ TypeOK
    BY CallsTyped DEF TInv
  <2> QED
    BY <2>1 DEF ServeForm, store, Forms
<1>2. form.token = 0
  BY <1>1 DEF PagesInv
<1>3. CASE \E code \in Reply(400) : form' = [form EXCEPT !.at = "replied", !.code = code]
  <2>1. \A code \in Reply(400) : code # 200
    BY DEF Reply
  <2>2. form'.token = 0 /\ form'.code # 200
    BY <1>1, <1>2, <1>3, <2>1 DEF Forms
  <2> QED
    BY <1>1, <2>2 DEF PagesInv
<1>4. ASSUME NEW code \in Reply(200),
             form' = [form EXCEPT !.at = "replied", !.code = code,
               !.token = IF code = 200 /\ form.page \in {"login", "register"}
                         THEN issued + 1 ELSE 0],
             form.page \in {"login", "register"} => Issues(form.who, 0)
      PROVE  PagesInv'
  <2>1. /\ form'.at = "replied" /\ form'.code = code /\ form'.who = form.who /\ form'.page = form.page
        /\ form'.token = IF code = 200 /\ form.page \in {"login", "register"} THEN issued + 1 ELSE 0
    BY <1>1, <1>4 DEF Forms
  <2>2. CASE form.page \in {"login", "register"}
    <3> DEFINE w == form.who
    <3>1. w \in People /\ 0 \in 0..MaxTokens /\ Issues(w, 0)
      BY <1>1, <1>4, <2>2, TokensAssumption
    <3> HIDE DEF w
    <3>2. owner'[issued + 1] = w /\ issued \in Nat
      BY <1>1, <3>1, IssuesKeeps
    <3>3. owner'[issued + 1] = form.who
      BY <3>2 DEF w
    <3> QED
      BY <1>1, <2>1, <2>2, <3>2, <3>3 DEF PagesInv
  <2>3. CASE form.page \notin {"login", "register"}
    BY <1>1, <2>1, <2>3 DEF PagesInv
  <2> QED
    BY <2>2, <2>3
<1>5. \/ \E code \in Reply(400) : form' = [form EXCEPT !.at = "replied", !.code = code]
      \/ \E code \in Reply(200) :
           /\ form' = [form EXCEPT !.at = "replied", !.code = code,
               !.token = IF code = 200 /\ form.page \in {"login", "register"}
                         THEN issued + 1 ELSE 0]
           /\ form.page \in {"login", "register"} => Issues(form.who, 0)
  BY DEF ServeForm
<1> QED
  BY <1>3, <1>4, <1>5

LEMMA NextPages == TInv /\ BootInv /\ PagesInv /\ [Next]_vars => PagesInv'
<1> SUFFICES ASSUME TInv, BootInv, PagesInv, [Next]_vars PROVE PagesInv'
  OBVIOUS
<1> USE CallsTyped
<1>1. form.token # 0 => owner'[form.token] = owner[form.token]
  <2>1. form.token \in 0..issued /\ issued \in Nat
    BY HeldTyped
  <2> QED
    BY <2>1, OwnersStay
<1>2. CASE ServeForm
  BY <1>2, ServeFormPages
<1>3. CASE \/ ServeRefresh \/ ServeLogout \/ Logout \/ UNCHANGED vars
           \/ (\E c \in Calls \cup {Me} : ServeCall(c)) \/ \E c \in Calls : StartCall(c)
  <2>1. UNCHANGED <<status, user, screen, form>>
    BY <1>3 DEF ServeRefresh, ServeLogout, Logout, ServeCall, StartCall, vars, store
  <2> QED
    BY <1>1, <2>1 DEF PagesInv
<1>8. ASSUME NEW c \in Calls, AfterResponse(c), call[c].code = 200, SetUser(call[c].saver)
      PROVE  PagesInv'
  <2>1. form' = form /\ status' = status
    BY <1>8 DEF AfterResponse, store
  <2> DEFINE saver == call[c].saver
  <2>2. saver \in People /\ SetUser(saver) /\ TabTyped
    BY <1>8, TypeParts DEF CallType, TInv
  <2> HIDE DEF saver
  <2>3. user' \in Users
    BY <2>2, SetUserTyped
  <2>4. status = "authenticated" => screen' \in Roles
    BY <2>2, <2>3, SignedInRoute DEF SetUser
  <2> QED
    BY <1>1, <2>1, <2>3, <2>4, UsersAssumption DEF PagesInv
<1>4. CASE \/ RefreshSettles \/ LogoutSettles
           \/ \E c \in Calls : AfterResponse(c) /\ ~(call[c].code = 200 /\ SetUser(call[c].saver))
  <2>1. form' = form /\ (UNCHANGED <<status, user, screen>> \/ status' = "unauthenticated")
    BY <1>4 DEF RefreshSettles, LogoutSettles, AfterResponse, OnUnauthorized, store
  <2> QED
    BY <1>1, <2>1 DEF PagesInv
<1>5. CASE BootstrapMe
  <2>1. call[Me].at = "replied" /\ boot = "me" /\ status = "loading" /\ form.at = "edit" /\ form' = form
    BY <1>5 DEF BootstrapMe, BootInv
  <2>2. CASE /\ call[Me].code = 200 /\ status' = "authenticated"
             /\ user' = call[Me].as
             /\ screen' = Route(screen, "authenticated", call[Me].as)
    <3>1. call[Me].as \in Users
      BY <2>1, <2>2 DEF BootInv, CallType, People
    <3> QED
      BY <1>1, <2>1, <2>2, <3>1, SignedInRoute, UsersAssumption DEF PagesInv
  <2>3. CASE status' = "unauthenticated" \/ UNCHANGED <<status, user, screen>>
    BY <1>1, <2>1, <2>3 DEF PagesInv
  <2> QED
    BY <1>5, <2>2, <2>3 DEF BootstrapMe, OnUnauthorized, store
<1>6. CASE Navigate
  <2>1. UNCHANGED <<status, user, form>>
    BY <1>6 DEF Navigate, store
  <2>2. CASE status = "authenticated"
    <3>1. user \in Users
      BY <2>2, TypeParts DEF PagesInv, TInv, TabTyped, People
    <3>2. screen' \in Roles
      BY <1>6, <2>2, <3>1, SignedInRoute DEF Navigate, Screens
    <3> QED
      BY <1>1, <2>1, <3>2 DEF PagesInv
  <2> QED
    BY <1>1, <2>1, <2>2 DEF PagesInv
<1>7. CASE FormMoves
  <2>1. PICK page \in AuthPages :
          \/ Submit(page) \/ Tells(page)
          \/ page \in {"login", "register"} /\ SignsIn(page)
          \/ PasswordSet
    BY <1>7 DEF FormMoves
  <2>2. NoForm.at = "edit" /\ NoForm.token = 0
    BY DEF NoForm
  <2>3. CASE Submit(page)
    <3>1. screen = page /\ status # "loading" /\ UNCHANGED <<status, user, screen>>
      BY <2>3 DEF Submit, Rendered, store
    <3>2. status = "unauthenticated"
      BY <3>1 DEF PagesInv, AuthPages, Roles
    <3>3. PICK u : form' = [NoForm EXCEPT !.at = "sent", !.page = page, !.who = u]
      BY <2>3 DEF Submit
    <3>4. form'.token = 0 /\ form'.at = "sent"
      BY <3>3 DEF NoForm
    <3> QED
      BY <3>1, <3>2, <3>4 DEF PagesInv
  <2>4. CASE Tells(page)
    BY <2>2, <2>4 DEF Tells, Settles, PagesInv
  <2>5. CASE page \in {"login", "register"} /\ SignsIn(page)
    <3>1. form.who \in Users
      BY <2>5 DEF SignsIn, Settles, TInv, Writer
    <3> QED
      BY <2>2, <2>5, <3>1, UsersAssumption DEF SignsIn, Settles, PagesInv
  <2>6. CASE PasswordSet
    BY <2>2, <2>6 DEF PasswordSet, Settles, PagesInv
  <2> QED
    BY <2>1, <2>3, <2>4, <2>5, <2>6
<1> QED
  BY <1>2, <1>3, <1>4, <1>5, <1>6, <1>7, <1>8, PagesMoveForms DEF Next

\* The cookie and the refresh on its way are of the one whose access token is
\* held, the user shown unless a save put another back, and never of one who
\* signed out, unless somebody signed in or out while a refresh was in flight.
OwnerInv ==
  /\ boot = "me" =>
       /\ jar # 0 => owner[jar] = accessToken
       /\ refreshing.at # "none" /\ refreshing.token # 0 => owner[refreshing.token] = accessToken
       /\ call[Me].at # "waiting" => call[Me].as = accessToken
  /\ ~overlapped =>
       /\ status = "authenticated" =>
            /\ accessToken # NoUser
            /\ accessToken = user \/ restored
            /\ jar # 0 => owner[jar] = accessToken
            /\ refreshing.at # "none" /\ refreshing.token # 0 =>
                 owner[refreshing.token] = accessToken
       /\ signedOut # NoUser =>
            /\ signedOut # accessToken
            /\ signedOut # user \/ restored
            /\ jar # 0 => owner[jar] # signedOut
            /\ refreshing.at # "none" /\ refreshing.token # 0 =>
                 owner[refreshing.token] # signedOut

LEMMA InitOwner == Init => OwnerInv
BY DEF Init, OwnerInv

\* What the tab holds when a step begins has the same owner when it ends.
LEMMA HeldOwners ==
  ASSUME TInv, [Next]_vars
  PROVE  /\ jar # 0 => owner'[jar] = owner[jar]
         /\ refreshing.token # 0 => owner'[refreshing.token] = owner[refreshing.token]
         /\ form.token # 0 => owner'[form.token] = owner[form.token]
         /\ refreshing.got # 0 => owner'[refreshing.got] = owner[refreshing.got]
<1>1. issued \in Nat /\ jar \in 0..issued /\ refreshing.token \in 0..issued
      /\ form.token \in 0..issued /\ refreshing.got \in 0..issued
  BY HeldTyped
<1> QED
  BY <1>1, OwnersStay

\* Steps that neither touch the session of the tab nor start or end a refresh
Quiet ==
  /\ UNCHANGED <<jar, accessToken, status, user, boot, signedOut, overlapped, restored>>
  /\ refreshing'.token = refreshing.token /\ (refreshing'.at = "none" <=> refreshing.at = "none")
  /\ call'[Me].as = call[Me].as /\ (call'[Me].at = "waiting" <=> call[Me].at = "waiting")

LEMMA QuietOwner == TInv /\ OwnerInv /\ [Next]_vars /\ Quiet => OwnerInv'
BY HeldOwners DEF OwnerInv, Quiet

LEMMA QuietSteps ==
  ASSUME TInv,
         \/ ServeRefresh \/ ServeForm \/ ServeLogout \/ Logout \/ Navigate \/ UNCHANGED vars
         \/ (\E c \in Calls \cup {Me} : ServeCall(c)) \/ (\E c \in Calls : StartCall(c))
         \/ (\E page \in AuthPages : Submit(page) \/ Tells(page)) \/ PasswordSet
  PROVE  Quiet
<1> USE CallsTyped
<1>1. CASE ServeRefresh
  <2>1. /\ UNCHANGED <<jar, accessToken, call, store, signedOut, overlapped, restored>>
        /\ refreshing.at = "sent"
    BY <1>1 DEF ServeRefresh
  <2>2. refreshing'.at = "replied" /\ refreshing'.token = refreshing.token
    BY <1>1 DEF ServeRefresh, Refreshings
  <2> QED
    BY <2>1, <2>2 DEF Quiet, store
<1>2. ASSUME NEW c \in Calls \cup {Me}, ServeCall(c) PROVE Quiet
  <2>1. call[c].at = "sent" /\ UNCHANGED <<jar, accessToken, refreshing, store, history>>
    BY <1>2 DEF ServeCall
  <2>2. PICK code : call' = [call EXCEPT ![c] = [call[c] EXCEPT !.at = "replied", !.code = code]]
    BY <1>2 DEF ServeCall
  <2>3. call'[Me].as = call[Me].as /\ (call'[Me].at = "waiting" <=> call[Me].at = "waiting")
    BY <2>1, <2>2 DEF CallType
  <2> QED
    BY <2>1, <2>3 DEF Quiet, store, history
<1>3. ASSUME NEW c \in Calls, StartCall(c) PROVE Quiet
  BY <1>3 DEF StartCall, Quiet, store, history
<1>4. CASE ServeForm \/ ServeLogout \/ Logout \/ Navigate \/ UNCHANGED vars
  <2>1. UNCHANGED <<jar, accessToken, refreshing, call, status, user, boot, signedOut, overlapped,
                    restored>>
    BY <1>4 DEF ServeForm, ServeLogout, Logout, Navigate, vars, store, history
  <2> QED
    BY <2>1 DEF Quiet
<1>5. CASE (\E page \in AuthPages : Submit(page) \/ Tells(page)) \/ PasswordSet
  <2>1. UNCHANGED <<jar, accessToken, refreshing, call, status, user, boot, signedOut, overlapped,
                    restored>>
    BY <1>5 DEF Submit, Tells, PasswordSet, Settles, store, history
  <2> QED
    BY <2>1 DEF Quiet
<1> QED
  BY <1>1, <1>2, <1>3, <1>4, <1>5

LEMMA NextOwner ==
  TInv /\ LineInv /\ BootInv /\ PagesInv /\ OwnerInv /\ [Next]_vars => OwnerInv'
<1> SUFFICES ASSUME TInv, LineInv, BootInv, PagesInv, OwnerInv, [Next]_vars PROVE OwnerInv'
  OBVIOUS
<1> USE CallsTyped
<1>1. CASE RefreshSettles
  <2>1. /\ refreshing.at = "replied" /\ refreshing'.at = "none"
        /\ UNCHANGED <<owner, signedOut>>
        /\ refreshing.got # 0 => /\ refreshing.token # 0
                                 /\ owner[refreshing.got] = owner[refreshing.token]
    BY <1>1 DEF RefreshSettles, NoRefresh, server, LineInv, Rotated
  <2>2. CASE refreshing.got # 0
    <3>1. /\ jar' = refreshing.got /\ accessToken' = owner[refreshing.got]
          /\ call' = [c \in DOMAIN call |->
               IF c \in Waiting \/ (c = Me /\ boot = "refresh")
               THEN [call[c] EXCEPT !.at = "sent", !.as = accessToken',
                                    !.retried = c \in Waiting, !.code = 0]
               ELSE call[c]]
          /\ boot' = IF boot = "refresh" THEN "me" ELSE boot
          /\ UNCHANGED <<status, user, overlapped, restored>>
      BY <1>1, <2>2 DEF RefreshSettles
    <3>2. boot' = "me" => call'[Me].as = accessToken'
      <4>1. boot = "me" => Me \in Waiting
        BY <2>1 DEF BootInv, Waiting
      <4> QED
        BY <3>1, <4>1 DEF CallType
    <3> QED
      BY <2>1, <2>2, <3>1, <3>2 DEF OwnerInv
  <2>3. CASE refreshing.got = 0
    <3>1. /\ IF Waiting # {} \/ boot = "refresh"
             THEN OnUnauthorized ELSE UNCHANGED <<accessToken, status, user, screen, restored>>
          /\ boot' = IF boot = "refresh" \/ Me \in Waiting THEN "done" ELSE boot
          /\ UNCHANGED <<jar, overlapped>>
      BY <1>1, <2>3 DEF RefreshSettles
    <3>2. boot' # "me"
      BY <2>1, <3>1 DEF BootInv, Waiting
    <3> QED
      BY <2>1, <3>1, <3>2 DEF OwnerInv, OnUnauthorized
  <2> QED
    BY <2>2, <2>3
<1>2. CASE BootstrapMe
  <2>1. /\ call[Me].at = "replied" /\ boot = "me" /\ refreshing.at = "none"
        /\ UNCHANGED <<jar, owner, signedOut, overlapped>> /\ signedOut = NoUser
    BY <1>2 DEF BootstrapMe, server, BootInv
  <2>2. CASE call[Me].code = 401 /\ ~call[Me].retried
    <3>1. /\ call' = [call EXCEPT ![Me].at = "waiting"] /\ RefreshSession
          /\ UNCHANGED <<accessToken, status, user, boot, restored>>
      BY <1>2, <2>2 DEF BootstrapMe, store
    <3>2. call'[Me].at = "waiting"
      BY <3>1 DEF CallType
    <3>3. refreshing' = [at |-> "sent", token |-> jar, got |-> 0]
      BY <2>1, <3>1 DEF RefreshSession
    <3> QED
      BY <2>1, <3>1, <3>2, <3>3 DEF OwnerInv, BootInv
  <2>3. CASE ~(call[Me].code = 401 /\ ~call[Me].retried)
    <3>1. /\ boot' = "done" /\ refreshing' = refreshing
          /\ IF call[Me].code = 200
             THEN status' = "authenticated" /\ user' = call[Me].as /\ accessToken' = accessToken
             ELSE OnUnauthorized
      BY <1>2, <2>3 DEF BootstrapMe
    <3>2. call[Me].code = 200 => call[Me].as = accessToken /\ accessToken # NoUser
      BY <2>1 DEF OwnerInv, BootInv
    <3> QED
      BY <2>1, <3>1, <3>2 DEF OwnerInv, OnUnauthorized
  <2> QED
    BY <2>2, <2>3
<1>3. ASSUME NEW c \in Calls, AfterResponse(c) PROVE OwnerInv'
  <2>1. /\ call[c].at = "replied" /\ boot = "done" /\ boot' = boot
        /\ UNCHANGED <<jar, owner, signedOut>>
    BY <1>3 DEF AfterResponse, server, store, BootInv
  <2>2. CASE call[c].code # 401
    <3>1. /\ UNCHANGED <<accessToken, refreshing, status, overlapped>>
          /\ SetUser(call[c].saver) \/ UNCHANGED <<user, restored>>
      BY <1>3, <2>2 DEF AfterResponse
    <3>2. (user' # accessToken' => restored') \/ UNCHANGED <<user, restored>>
      BY <3>1 DEF SetUser
    <3> QED
      BY <2>1, <3>1, <3>2 DEF OwnerInv
  <2>3. CASE call[c].code = 401 /\ call[c].retried
    <3>1. /\ accessToken' = NoUser /\ status' = "unauthenticated" /\ user' = NoUser
          /\ refreshing' = refreshing /\ overlapped' = (overlapped \/ refreshing.at # "none")
      BY <1>3, <2>3 DEF AfterResponse, OnUnauthorized
    <3> QED
      BY <2>1, <3>1 DEF OwnerInv
  <2>4. CASE call[c].code = 401 /\ ~call[c].retried
    <3>1. RefreshSession /\ UNCHANGED <<accessToken, status, user, overlapped, restored>>
      BY <1>3, <2>4 DEF AfterResponse, store
    <3>2. \/ refreshing' = refreshing
          \/ refreshing.at = "none" /\ refreshing' = [at |-> "sent", token |-> jar, got |-> 0]
      BY <3>1 DEF RefreshSession
    <3> QED
      BY <2>1, <3>1, <3>2 DEF OwnerInv
  <2> QED
    BY <2>2, <2>3, <2>4
<1>4. CASE LogoutSettles
  <2>1. /\ status # "loading" /\ boot = "done" /\ boot' = boot
        /\ UNCHANGED <<owner, refreshing>>
        /\ jar' = IF leaving = "ok" THEN 0 ELSE jar
        /\ signedOut' = IF leaving = "ok" THEN accessToken ELSE signedOut
        /\ overlapped' = (overlapped \/ refreshing.at # "none")
        /\ accessToken' = NoUser /\ status' = "unauthenticated" /\ user' = NoUser
    BY <1>4 DEF LogoutSettles, server, BootInv
  <2> QED
    BY <2>1 DEF OwnerInv
<1>5. ASSUME NEW page \in {"login", "register"}, SignsIn(page) PROVE OwnerInv'
  <2>1. /\ form.at = "replied" /\ form.code = 200
        /\ UNCHANGED <<owner, refreshing, boot>>
        /\ jar' = form.token /\ accessToken' = form.who
        /\ status' = "authenticated" /\ user' = form.who
        /\ signedOut' = IF signedOut = form.who THEN NoUser ELSE signedOut
        /\ overlapped' = (overlapped \/ refreshing.at # "none")
    BY <1>5 DEF SignsIn, Settles, server
  <2>2. boot = "done"
    BY <2>1 DEF BootInv, PagesInv
  <2>3. form.token # 0 => owner[form.token] = form.who
    BY DEF PagesInv
  <2>4. form.who \in Users /\ form.who # NoUser
    BY <1>5, UsersAssumption DEF SignsIn, Settles, TInv, Writer
  <2> QED
    BY <2>1, <2>2, <2>3, <2>4 DEF OwnerInv
<1>6. CASE \/ ServeRefresh \/ ServeForm \/ ServeLogout \/ Logout \/ Navigate \/ UNCHANGED vars
           \/ (\E c \in Calls \cup {Me} : ServeCall(c)) \/ (\E c \in Calls : StartCall(c))
           \/ (\E page \in AuthPages : Submit(page) \/ Tells(page)) \/ PasswordSet
  BY <1>6, QuietSteps, QuietOwner
<1>7. FormMoves => \/ (\E page \in AuthPages : Submit(page) \/ Tells(page)) \/ PasswordSet
                   \/ \E page \in {"login", "register"} : SignsIn(page)
  BY DEF FormMoves
<1> QED
  BY <1>1, <1>2, <1>3, <1>4, <1>5, <1>6, <1>7, PagesMoveForms DEF Next

\* Unless somebody signed in or out while a refresh was in flight, the tab acts
\* for the user it shows, and a confirmed sign-out leaves no access token, no
\* user and no cookie of that user; only the answer to a save of preferences can
\* put another user on the page. (auth.ts logout, login and setUser, client.ts
\* rawRefresh, parent/SettingsPage.tsx onSuccess)
THEOREM ActsForUserShown == Spec => []ActsForTheUserShown
<1>1. Init => TInv /\ LineInv /\ BootInv /\ PagesInv /\ OwnerInv
  BY InitTyped, InitLine, InitBoot, InitOwner
<1>2. TInv /\ LineInv /\ BootInv /\ PagesInv /\ OwnerInv /\ [Next]_vars
      => TInv' /\ LineInv' /\ BootInv' /\ PagesInv' /\ OwnerInv'
  BY NextTyped, NextLine, NextBoot, NextPages, NextOwner
<1>3. TInv /\ PagesInv /\ OwnerInv => ActsForTheUserShown
  <2> SUFFICES ASSUME TInv, PagesInv, OwnerInv PROVE ActsForTheUserShown
    OBVIOUS
  <2>1. jar \in live => jar # 0
    BY HeldTyped, TypeParts DEF TInv, ServerTyped
  <2> QED
    BY <2>1 DEF ActsForTheUserShown, PagesInv, OwnerInv
<1> QED
  BY <1>1, <1>2, <1>3, PTL DEF Spec
=============================================================================
