------------------------------ MODULE Sessions ------------------------------
(***************************************************************************)
(* The refresh tokens of one user (backend/app/auth/services.py, router.py *)
(* and the revocations in backend/app/users/services.py): login, refresh   *)
(* with rotation and reuse detection, logout, password reset by link and   *)
(* by an admin, deactivation and reactivation.  Tokens of other users are  *)
(* never touched.                                                          *)
(*                                                                         *)
(* A request is a process whose steps are its reads and its commits, as in *)
(* TripSafeguard; here no transaction writes, reads again and then         *)
(* commits something that depends on it, so no row lock is visible.        *)
(*                                                                         *)
(* A refused request changes no row: an unknown or expired token, a wrong  *)
(* password, a disabled account, a used or expired link.  So expiry, which *)
(* only ever refuses, and the password itself are left out, as are access  *)
(* tokens: they are signed, live 15 minutes, and nothing can revoke them.  *)
(***************************************************************************)
EXTENDS Naturals, FiniteSets

CONSTANTS
  Tokens,          \* the random strings minted: as many as may be issued (bound)
  None,            \* no token
  Links,           \* the password-reset links mailed
  Requests,        \* requests that may be in flight at once
  Crashable,       \* those of them that may die half-way
  MaxRevocations   \* revocations of all families after which no request that
                   \* revokes all of them is accepted (bound)

ASSUME NoneAssumption == None \notin Tokens
ASSUME RequestsAssumption == Crashable \subseteq Requests
ASSUME RevocationsAssumption == MaxRevocations \in Nat

VARIABLES
  issued,      \* refresh_tokens rows
  revoked,     \* those with revoked_at set
  family,      \* family_id, named by the token that opened it
  active,      \* users.is_active
  links,       \* auth_tokens rows: none, open or used
  pc,          \* where each request is
  presented,   \* the token a request exchanges or reuses
  link,        \* the link a request resets the password with
  parent,      \* history: the token a token was exchanged for (itself: none)
  born,        \* history: "epoch" when the session of a token was opened
  birth,       \* the same for the token a request is about to issue
  epoch,       \* history: how often all families of the user were revoked
  reused,      \* history: families in which a reuse was detected
  overtaken,   \* history: requests about to issue a token when its session
               \* was revoked
  escaped      \* history: tokens they issued, and tokens exchanged for those

rows == <<issued, revoked, family>>
user == <<active, links>>
locals == <<presented, link, birth>>
history == <<parent, born, escaped>>
revocations == <<epoch, reused>>
vars == <<rows, user, pc, locals, history, revocations, overtaken>>

PC == {"idle", "rotate", "reuse", "issue", "reset", "deactivate", "activate",
       "revoke_all"}

TypeOK ==
  /\ issued \subseteq Tokens
  /\ revoked \subseteq issued
  /\ family \in [Tokens -> Tokens]
  /\ active \in BOOLEAN
  /\ links \in [Links -> {"none", "open", "used"}]
  /\ pc \in [Requests -> PC]
  /\ presented \in [Requests -> Tokens \cup {None}]
  /\ link \in [Requests -> SUBSET Links]
  /\ parent \in [Tokens -> Tokens]
  /\ born \in [Tokens -> Nat]
  /\ birth \in [Requests -> Nat]
  /\ epoch \in Nat
  /\ reused \subseteq Tokens
  /\ overtaken \subseteq Requests
  /\ escaped \subseteq Tokens

Init ==
  /\ issued = {}
  /\ revoked = {}
  /\ family = [t \in Tokens |-> t]
  /\ active = TRUE
  /\ links = [l \in Links |-> "none"]
  /\ pc = [c \in Requests |-> "idle"]
  /\ presented = [c \in Requests |-> None]
  /\ link = [c \in Requests |-> {}]
  /\ parent = [t \in Tokens |-> t]
  /\ born = [t \in Tokens |-> 0]
  /\ birth = [c \in Requests |-> 0]
  /\ epoch = 0
  /\ reused = {}
  /\ overtaken = {}
  /\ escaped = {}

Live == issued \ revoked

Step(c, from, to) ==
  /\ pc[c] = from
  /\ pc' = [pc EXCEPT ![c] = to]

\* The request is over: what it carried is gone.
Leave(c) ==
  /\ pc' = [pc EXCEPT ![c] = "idle"]
  /\ presented' = [presented EXCEPT ![c] = None]
  /\ link' = [link EXCEPT ![c] = {}]
  /\ birth' = [birth EXCEPT ![c] = 0]
  /\ overtaken' = overtaken \ {c}

\* Requests that will issue a token whatever happens to the rows they have read.
Issuing == {c \in Requests : pc[c] \in {"rotate", "issue"}}

\* Bound: a request is accepted only if a token is left for it.
MayIssue == Cardinality(Issuing) < Cardinality(Tokens \ issued)

-----------------------------------------------------------------------------
(* Opening a session: login, and the registration of a parent. *)

\* The password is verified and the account is active; the token is inserted
\* two commits later.
LoginRead(c) ==
  /\ active
  /\ MayIssue
  /\ Step(c, "idle", "issue")
  /\ birth' = [birth EXCEPT ![c] = epoch]
  /\ UNCHANGED <<rows, user, presented, link, history, revocations, overtaken>>

\* Fault: a login joins the family of an earlier session.
IssueInOldFamily(c) ==
  /\ pc[c] = "issue"
  /\ \E t \in Tokens \ issued : \E u \in issued \cup {t} :
       /\ issued' = issued \cup {t}
       /\ family' = [family EXCEPT ![t] = family[u]]
       /\ born' = [born EXCEPT ![t] = birth[c]]
  /\ Leave(c)
  /\ UNCHANGED <<revoked, user, parent, escaped, revocations>>

\* issue_refresh_token: a fresh token, in the family of the token presented
\* or in a family of its own.
Issue(c) ==
  LET p == presented[c] IN
  /\ pc[c] = "issue"
  /\ \E t \in Tokens \ issued :
       /\ issued' = issued \cup {t}
       /\ family' = [family EXCEPT ![t] = IF p = None THEN t ELSE family[p]]
       /\ parent' = [parent EXCEPT ![t] = IF p = None THEN t ELSE p]
       /\ born' = [born EXCEPT ![t] = birth[c]]
       /\ escaped' = IF c \in overtaken \/ p \in escaped
                     THEN escaped \cup {t} ELSE escaped
  /\ Leave(c)
  /\ UNCHANGED <<revoked, user, revocations>>

-----------------------------------------------------------------------------
(* rotate_refresh_token, for any token ever issued: the browser's, an older
   one of a retry or of another tab, a stolen one. *)

RotateRead(c) ==
  /\ MayIssue
  /\ Step(c, "idle", "rotate")
  /\ \E t \in Live :
       /\ presented' = [presented EXCEPT ![c] = t]
       /\ birth' = [birth EXCEPT ![c] = born[t]]
  /\ UNCHANGED <<rows, user, link, history, revocations, overtaken>>

\* Fault: the presented token is left unrevoked.
RotateKeep(c) ==
  /\ Step(c, "rotate", "issue")
  /\ UNCHANGED <<rows, user, locals, history, revocations, overtaken>>

\* UPDATE by primary key, committed before the successor is issued.
RotateRevoke(c) ==
  /\ Step(c, "rotate", "issue")
  /\ revoked' = revoked \cup {presented[c]}
  /\ UNCHANGED <<issued, family, user, locals, history, revocations, overtaken>>

ReuseRead(c) ==
  /\ Step(c, "idle", "reuse")
  /\ \E t \in revoked : presented' = [presented EXCEPT ![c] = t]
  /\ UNCHANGED <<rows, user, link, birth, history, revocations, overtaken>>

\* Fault: the reuse is refused, and the rest of the family lives on.
ReuseRefuse(c) ==
  /\ pc[c] = "reuse"
  /\ reused' = reused \cup {family[presented[c]]}
  /\ pc' = [pc EXCEPT ![c] = "idle"]
  /\ presented' = [presented EXCEPT ![c] = None]
  /\ UNCHANGED <<rows, user, link, birth, history, epoch, overtaken>>

\* Reuse detected: every unrevoked token of the family is revoked.
ReuseRevoke(c) ==
  LET f == family[presented[c]] IN
  /\ Step(c, "reuse", "idle")
  /\ revoked' = revoked \cup {t \in issued : family[t] = f}
  /\ reused' = reused \cup {f}
  /\ overtaken' = overtaken \cup {d \in Issuing : /\ presented[d] # None
                                                  /\ family[presented[d]] = f}
  /\ presented' = [presented EXCEPT ![c] = None]
  /\ UNCHANGED <<issued, family, user, link, birth, history, epoch>>

-----------------------------------------------------------------------------
(* What revokes all families of the user: logout, reset, deactivation. *)

MayRevokeAll == epoch < MaxRevocations

\* logout with a token that is not revoked; with a revoked one, or without
\* the cookie, it does nothing.
LogoutRead(c) ==
  /\ Live # {}
  /\ MayRevokeAll
  /\ Step(c, "idle", "revoke_all")
  /\ UNCHANGED <<rows, user, locals, history, revocations, overtaken>>

\* request_password_reset, one link per request.
ForgotPassword ==
  /\ \E l \in Links : /\ links[l] = "none"
                      /\ links' = [links EXCEPT ![l] = "open"]
  /\ UNCHANGED <<rows, active, pc, locals, history, revocations, overtaken>>

ResetRead(c) ==
  /\ MayRevokeAll
  /\ Step(c, "idle", "reset")
  /\ \E l \in Links : links[l] = "open" /\ link' = [link EXCEPT ![c] = {l}]
  /\ UNCHANGED <<rows, user, presented, birth, history, revocations, overtaken>>

\* Fault: the link is marked with a value the model's rows do not have.
ResetMismark(c) ==
  /\ Step(c, "reset", "revoke_all")
  /\ links' = [l \in Links |-> IF l \in link[c] THEN "revoked" ELSE links[l]]
  /\ UNCHANGED <<rows, active, locals, history, revocations, overtaken>>

\* used_at and the new password, in one commit; used_at is not checked again.
ResetWrite(c) ==
  /\ Step(c, "reset", "revoke_all")
  /\ links' = [l \in Links |-> IF l \in link[c] THEN "used" ELSE links[l]]
  /\ UNCHANGED <<rows, active, locals, history, revocations, overtaken>>

\* admin_reset_password: the new password is committed.
AdminReset(c) ==
  /\ MayRevokeAll
  /\ Step(c, "idle", "revoke_all")
  /\ UNCHANGED <<rows, user, locals, history, revocations, overtaken>>

\* set_user_active: nothing is done, and nothing revoked, if the value read is
\* the one asked for.
SetActiveRead(c) ==
  /\ active => MayRevokeAll
  /\ Step(c, "idle", IF active THEN "deactivate" ELSE "activate")
  /\ UNCHANGED <<rows, user, locals, history, revocations, overtaken>>

Deactivate(c) ==
  /\ Step(c, "deactivate", "revoke_all")
  /\ active' = FALSE
  /\ UNCHANGED <<rows, links, locals, history, revocations, overtaken>>

Activate(c) ==
  /\ pc[c] = "activate"
  /\ active' = TRUE
  /\ Leave(c)
  /\ UNCHANGED <<rows, links, history, revocations>>

\* revoke_all_families_for_user.
RevokeAll(c) ==
  /\ Step(c, "revoke_all", "idle")
  /\ revoked' = issued
  /\ epoch' = epoch + 1
  /\ overtaken' = Issuing
  /\ link' = [link EXCEPT ![c] = {}]
  /\ UNCHANGED <<issued, family, user, presented, birth, history, reused>>

-----------------------------------------------------------------------------
\* A request dies between two commits: the process restarts, or the database
\* fails it.  What it committed stays.
Fail(c) ==
  /\ c \in Crashable
  /\ pc[c] # "idle"
  /\ Leave(c)
  /\ UNCHANGED <<rows, user, history, revocations>>

\* A request the handlers refuse, or find nothing to do for.
Refused(c) == pc[c] = "idle" /\ UNCHANGED vars

Request(c) ==
  \/ LoginRead(c) \/ Issue(c)
  \/ RotateRead(c) \/ RotateRevoke(c) \/ ReuseRead(c) \/ ReuseRevoke(c)
  \/ LogoutRead(c) \/ ResetRead(c) \/ ResetWrite(c) \/ AdminReset(c)
  \/ SetActiveRead(c) \/ Deactivate(c) \/ Activate(c) \/ RevokeAll(c)
  \/ Refused(c) \/ Fail(c)

Next == ForgotPassword \/ \E c \in Requests : Request(c)

Spec == Init /\ [][Next]_vars

-----------------------------------------------------------------------------
(* Properties *)

\* A token is exchanged only once it is revoked: wherever the exchange stops,
\* the old and the new token are never both good because of it.
PredecessorRevoked ==
  \A t \in issued : parent[t] # t => parent[t] \in revoked

\* The session of a token was revoked: reuse was detected in its family, or
\* all families of the user were revoked after it was opened.
Barred(t) == family[t] \in reused \/ born[t] < epoch

\* A token outlives the revocation of its session only if a request that had
\* already passed its checks issued it, or if it was exchanged for such a
\* token: no request that starts after a revocation gets around it.
OnlyOvertakenSurvive == {t \in Live : Barred(t)} \subseteq escaped

\* A family has two good tokens only if one of its tokens was exchanged twice,
\* by requests that both read it before either revoked it.
ForkNeedsSharedExchange ==
  \A t, u \in Live :
    (t # u /\ family[t] = family[u])
      => \E x, y \in issued : /\ x # y
                              /\ parent[x] = parent[y]
                              /\ parent[x] \notin {x, y}
                              /\ family[x] = family[t]

\* docs, section 7.1, and test_refresh_rotation.py: the reuse of a revoked
\* token revokes its entire family.  So it does while requests do not overlap;
\* a rotation caught between its two commits leaves a good token in the family.
ReusedFamilyDead == \A t \in Live : family[t] \notin reused

=============================================================================
