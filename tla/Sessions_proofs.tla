-------------------------- MODULE Sessions_proofs --------------------------
(***************************************************************************)
(* Theorems about Sessions, for any tokens, links, requests and bounds.    *)
(* Everything rests on one inductive invariant, SessionInv: what a request *)
(* carries, how families and epochs are assigned, and which of the issuing *)
(* requests a revocation has overtaken.                                    *)
(***************************************************************************)
EXTENDS Sessions, TLAPS

-----------------------------------------------------------------------------
(* What requests carry, and types *)

\* A request between its read and its revocation carries a token that was
\* issued; one about to issue a successor carries a revoked one, and every
\* other request carries none.
Carried ==
  \A c \in Requests :
    /\ pc[c] \in {"rotate", "reuse"} => presented[c] \in issued
    /\ pc[c] = "issue" => presented[c] \in revoked \cup {None}
    /\ pc[c] \notin {"rotate", "reuse", "issue"} => presented[c] = None

\* The request table stays well typed when one request moves on.
LEMMA StepType ==
  ASSUME TypeOK, NEW c \in Requests, NEW from, NEW to \in PC, Step(c, from, to)
  PROVE  pc' \in [Requests -> PC]
  BY DEF TypeOK, Step

\* ... and when one request ends.
LEMMA LeaveType ==
  ASSUME TypeOK, NEW c \in Requests, Leave(c)
  PROVE  /\ pc' \in [Requests -> PC]
         /\ presented' \in [Requests -> Tokens \cup {None}]
         /\ link' \in [Requests -> SUBSET Links]
         /\ birth' \in [Requests -> Nat]
         /\ overtaken' \subseteq Requests
  BY DEF TypeOK, Leave, PC

LEMMA InitType == Init => TypeOK
  BY DEF Init, TypeOK, PC

LEMMA NextType == TypeOK /\ Carried /\ [Next]_vars => TypeOK'
<1> SUFFICES ASSUME TypeOK, Carried, [Next]_vars PROVE TypeOK'
  OBVIOUS
<1> USE DEF TypeOK
<1>1. CASE UNCHANGED vars
  BY <1>1 DEF vars, rows, user, locals, history, revocations
<1>2. CASE ForgotPassword
  BY <1>2 DEF ForgotPassword, rows, locals, history, revocations
<1>3. ASSUME NEW c \in Requests, Request(c) PROVE TypeOK'
  <2>1. CASE LoginRead(c)
    BY <2>1, StepType
    DEF LoginRead, PC, rows, user, history, revocations
  <2>2. CASE Issue(c)
    <3>1. PICK t \in Tokens \ issued :
            /\ issued' = issued \cup {t}
            /\ family' = [family EXCEPT ![t] =
                            IF presented[c] = None THEN t ELSE family[presented[c]]]
            /\ parent' = [parent EXCEPT ![t] =
                            IF presented[c] = None THEN t ELSE presented[c]]
            /\ born' = [born EXCEPT ![t] = birth[c]]
            /\ escaped' = IF c \in overtaken \/ presented[c] \in escaped
                          THEN escaped \cup {t} ELSE escaped
      BY <2>2 DEF Issue
    <3>2. Leave(c) /\ UNCHANGED <<revoked, user, revocations>>
      BY <2>2 DEF Issue
    <3>3. presented[c] \in Tokens \cup {None}
      OBVIOUS
    <3>4. family' \in [Tokens -> Tokens] /\ parent' \in [Tokens -> Tokens]
      BY <3>1, <3>3
    <3> QED
      BY <3>1, <3>2, <3>4, LeaveType DEF user, revocations
  <2>3. CASE RotateRead(c)
    BY <2>3, StepType
    DEF RotateRead, Live, PC, rows, user, history, revocations
  <2>4. CASE RotateRevoke(c)
    <3>1. presented[c] \in issued
      BY <2>4 DEF RotateRevoke, Step, Carried
    <3> QED
      BY <2>4, <3>1, StepType
      DEF RotateRevoke, PC, user, locals, history, revocations
  <2>5. CASE ReuseRead(c)
    BY <2>5, StepType
    DEF ReuseRead, PC, rows, user, history, revocations
  <2>6. CASE ReuseRevoke(c)
    <3>1. family[presented[c]] \in Tokens
      BY <2>6 DEF ReuseRevoke, Step, Carried
    <3> QED
      BY <2>6, <3>1, StepType DEF ReuseRevoke, Issuing, PC, user, history
  <2>7. CASE LogoutRead(c) \/ AdminReset(c)
    BY <2>7, StepType
    DEF LogoutRead, AdminReset, PC, rows, user, locals, history, revocations
  <2>8. CASE ResetRead(c)
    BY <2>8, StepType DEF ResetRead, PC, rows, user, history, revocations
  <2>9. CASE ResetWrite(c)
    BY <2>9, StepType DEF ResetWrite, PC, rows, locals, history, revocations
  <2>10. CASE SetActiveRead(c)
    <3>1. (IF active THEN "deactivate" ELSE "activate") \in PC
      BY DEF PC
    <3>2. Step(c, "idle", IF active THEN "deactivate" ELSE "activate")
      BY <2>10 DEF SetActiveRead
    <3>3. pc' \in [Requests -> PC]
      BY <3>1, <3>2, StepType
    <3> QED
      BY <2>10, <3>3
      DEF SetActiveRead, rows, user, locals, history, revocations
  <2>11. CASE Deactivate(c)
    BY <2>11, StepType
    DEF Deactivate, PC, rows, locals, history, revocations
  <2>12. CASE Activate(c)
    BY <2>12, LeaveType DEF Activate, rows, history, revocations
  <2>13. CASE RevokeAll(c)
    BY <2>13, StepType DEF RevokeAll, Issuing, PC, user, history
  <2>14. CASE Refused(c)
    BY <2>14, <1>1 DEF Refused
  <2>15. CASE Fail(c)
    BY <2>15, LeaveType DEF Fail, rows, user, history, revocations
  <2> QED
    BY <1>3, <2>1, <2>2, <2>3, <2>4, <2>5, <2>6, <2>7, <2>8, <2>9, <2>10,
       <2>11, <2>12, <2>13, <2>14, <2>15 DEF Request
<1> QED
  BY <1>1, <1>2, <1>3 DEF Next

LEMMA InitCarried == Init => Carried
  BY DEF Init, Carried

LEMMA NextCarried == TypeOK /\ Carried /\ [Next]_vars => Carried'
<1> SUFFICES ASSUME TypeOK, Carried, [Next]_vars PROVE Carried'
  OBVIOUS
<1> USE DEF TypeOK, Carried, Step, Leave
<1>1. CASE UNCHANGED vars
  BY <1>1 DEF vars, rows, user, locals, history, revocations
<1>2. CASE ForgotPassword
  BY <1>2 DEF ForgotPassword, rows, locals, history, revocations
<1>3. ASSUME NEW c \in Requests, Request(c) PROVE Carried'
  <2>1. CASE LoginRead(c)
    BY <2>1 DEF LoginRead, rows, user, history, revocations
  <2>2. CASE Issue(c)
    BY <2>2 DEF Issue, user, revocations
  <2>3. CASE RotateRead(c)
    BY <2>3 DEF RotateRead, Live, rows, user, history, revocations
  <2>4. CASE RotateRevoke(c)
    BY <2>4 DEF RotateRevoke, user, locals, history, revocations
  <2>5. CASE ReuseRead(c)
    BY <2>5 DEF ReuseRead, rows, user, history, revocations
  <2>6. CASE ReuseRevoke(c)
    BY <2>6 DEF ReuseRevoke, user, history
  <2>7. CASE LogoutRead(c) \/ AdminReset(c)
    BY <2>7
    DEF LogoutRead, AdminReset, rows, user, locals, history, revocations
  <2>8. CASE ResetRead(c)
    BY <2>8 DEF ResetRead, rows, user, history, revocations
  <2>9. CASE ResetWrite(c)
    BY <2>9 DEF ResetWrite, rows, locals, history, revocations
  <2>10. CASE SetActiveRead(c)
    BY <2>10 DEF SetActiveRead, rows, user, locals, history, revocations
  <2>11. CASE Deactivate(c)
    BY <2>11 DEF Deactivate, rows, locals, history, revocations
  <2>12. CASE Activate(c)
    BY <2>12 DEF Activate, rows, history, revocations
  <2>13. CASE RevokeAll(c)
    BY <2>13 DEF RevokeAll, user, history
  <2>14. CASE Refused(c)
    BY <2>14, <1>1 DEF Refused, vars, rows, user, locals, history, revocations
  <2>15. CASE Fail(c)
    BY <2>15 DEF Fail, rows, user, history, revocations
  <2> QED
    BY <1>3, <2>1, <2>2, <2>3, <2>4, <2>5, <2>6, <2>7, <2>8, <2>9, <2>10,
       <2>11, <2>12, <2>13, <2>14, <2>15 DEF Request
<1> QED
  BY <1>1, <1>2, <1>3 DEF Next

\* Every reachable state of the token rows, the links and the requests is well
\* typed; in particular only issued tokens are ever revoked.
THEOREM TypeCorrect == Spec => []TypeOK
<1>1. Init => TypeOK /\ Carried
  BY InitType, InitCarried
<1>2. TypeOK /\ Carried /\ [Next]_vars => (TypeOK /\ Carried)'
  BY NextType, NextCarried
<1> QED
  BY <1>1, <1>2, PTL DEF Spec

-----------------------------------------------------------------------------
(* What a step can do to tokens and sessions *)

\* A step that neither issues a token nor ends a session: tokens may at most
\* become revoked.
Quiet ==
  /\ UNCHANGED <<issued, family, history, revocations>>
  /\ revoked \subseteq revoked'

\* All other steps are of three kinds.
LEMMA Steps ==
  ASSUME TypeOK, Carried, [Next]_vars
  PROVE  \/ Quiet
         \/ \E c \in Requests : Issue(c) \/ ReuseRevoke(c) \/ RevokeAll(c)
<1> USE DEF Quiet, rows, history, revocations
<1>1. CASE UNCHANGED vars
  BY <1>1 DEF vars
<1>2. CASE ForgotPassword
  BY <1>2 DEF ForgotPassword
<1>3. ASSUME NEW c \in Requests, Request(c),
             ~ Issue(c), ~ ReuseRevoke(c), ~ RevokeAll(c)
      PROVE  Quiet
  BY <1>1, <1>3
  DEF Request, LoginRead, RotateRead, RotateRevoke, ReuseRead, LogoutRead,
      AdminReset, ResetRead, ResetWrite, SetActiveRead, Deactivate, Activate,
      Refused, Fail, vars
<1> QED
  BY <1>1, <1>2, <1>3 DEF Next

\* Issuing a token leaves every other token alone.
LEMMA IssueEffect ==
  ASSUME TypeOK, NEW c \in Requests, Issue(c)
  PROVE  \E t \in Tokens \ issued :
           LET p == presented[c] IN
           /\ issued' = issued \cup {t}
           /\ revoked' = revoked
           /\ \A u \in issued : /\ family'[u] = family[u]
                                /\ parent'[u] = parent[u]
                                /\ born'[u] = born[u]
           /\ family'[t] = IF p = None THEN t ELSE family[p]
           /\ parent'[t] = IF p = None THEN t ELSE p
           /\ born'[t] = birth[c]
           /\ escaped' = IF c \in overtaken \/ p \in escaped
                         THEN escaped \cup {t} ELSE escaped
           /\ UNCHANGED revocations
<1> DEFINE p == presented[c]
<1>1. PICK t \in Tokens \ issued :
        /\ issued' = issued \cup {t}
        /\ family' = [family EXCEPT ![t] = IF p = None THEN t ELSE family[p]]
        /\ parent' = [parent EXCEPT ![t] = IF p = None THEN t ELSE p]
        /\ born' = [born EXCEPT ![t] = birth[c]]
        /\ escaped' = IF c \in overtaken \/ p \in escaped
                      THEN escaped \cup {t} ELSE escaped
  BY DEF Issue
<1>2. \A u \in issued : /\ family'[u] = family[u]
                        /\ parent'[u] = parent[u]
                        /\ born'[u] = born[u]
  BY <1>1 DEF TypeOK
<1>3. /\ family'[t] = IF p = None THEN t ELSE family[p]
      /\ parent'[t] = IF p = None THEN t ELSE p
      /\ born'[t] = birth[c]
  BY <1>1 DEF TypeOK
<1>4. revoked' = revoked /\ UNCHANGED revocations
  BY DEF Issue
<1> QED
  BY <1>1, <1>2, <1>3, <1>4

-----------------------------------------------------------------------------
(* An exchange never leaves both tokens good *)

LEMMA NextPredecessor ==
  TypeOK /\ Carried /\ PredecessorRevoked /\ [Next]_vars => PredecessorRevoked'
<1> SUFFICES ASSUME TypeOK, Carried, PredecessorRevoked, [Next]_vars
             PROVE  PredecessorRevoked'
  OBVIOUS
<1>1. CASE Quiet
  BY <1>1 DEF Quiet, PredecessorRevoked, history
<1>2. ASSUME NEW c \in Requests, Issue(c) PROVE PredecessorRevoked'
  <2>1. presented[c] \in revoked \cup {None}
    BY <1>2 DEF Carried, Issue
  <2>2. PICK t \in Tokens \ issued :
          /\ issued' = issued \cup {t}
          /\ revoked' = revoked
          /\ \A u \in issued : parent'[u] = parent[u]
          /\ parent'[t] = IF presented[c] = None THEN t ELSE presented[c]
    BY <1>2, IssueEffect
  <2> QED
    BY <2>1, <2>2 DEF PredecessorRevoked
<1>3. ASSUME NEW c \in Requests, ReuseRevoke(c) \/ RevokeAll(c)
      PROVE  PredecessorRevoked'
  BY <1>3 DEF ReuseRevoke, RevokeAll, PredecessorRevoked, history, TypeOK
<1> QED
  BY <1>1, <1>2, <1>3, Steps

\* Wherever an exchange stops and however exchanges overlap, the token
\* exchanged and the one received for it are never both good.
THEOREM ExchangeOnce == Spec => []PredecessorRevoked
<1> DEFINE I == TypeOK /\ Carried /\ PredecessorRevoked
<1>1. Init => I
  BY InitType, InitCarried DEF Init, PredecessorRevoked
<1>2. I /\ [Next]_vars => I'
  BY NextType, NextCarried, NextPredecessor
<1> QED
  BY <1>1, <1>2, PTL DEF Spec

-----------------------------------------------------------------------------
(* Families *)

\* A family is named by a token that was issued; a token is in the family of
\* the token it was exchanged for; reuse is detected in such families only.
Families ==
  /\ \A t \in issued : /\ family[t] \in issued
                       /\ parent[t] \in issued
                       /\ family[t] = family[parent[t]]
  /\ reused \subseteq issued

LEMMA NextFamilies ==
  TypeOK /\ Carried /\ Families /\ [Next]_vars => Families'
<1> SUFFICES ASSUME TypeOK, Carried, Families, [Next]_vars PROVE Families'
  OBVIOUS
<1>1. CASE Quiet
  BY <1>1 DEF Quiet, Families, history, revocations
<1>2. ASSUME NEW c \in Requests, Issue(c) PROVE Families'
  <2>1. presented[c] \in issued \cup {None}
    BY <1>2 DEF Carried, Issue, TypeOK
  <2>2. PICK t \in Tokens \ issued :
          /\ issued' = issued \cup {t}
          /\ \A u \in issued : /\ family'[u] = family[u]
                               /\ parent'[u] = parent[u]
          /\ family'[t] = IF presented[c] = None THEN t ELSE family[presented[c]]
          /\ parent'[t] = IF presented[c] = None THEN t ELSE presented[c]
          /\ UNCHANGED revocations
    BY <1>2, IssueEffect
  <2>3. \A u \in issued : /\ family'[u] \in issued'
                          /\ parent'[u] \in issued'
                          /\ family'[u] = family'[parent'[u]]
    BY <2>2 DEF Families
  <2>4. /\ family'[t] \in issued'
        /\ parent'[t] \in issued'
        /\ family'[t] = family'[parent'[t]]
    BY <2>1, <2>2 DEF Families
  <2> QED
    BY <2>2, <2>3, <2>4 DEF Families, revocations
<1>3. ASSUME NEW c \in Requests, ReuseRevoke(c) PROVE Families'
  <2>1. presented[c] \in issued
    BY <1>3 DEF ReuseRevoke, Step, Carried
  <2> QED
    BY <1>3, <2>1 DEF ReuseRevoke, Families, history
<1>4. ASSUME NEW c \in Requests, RevokeAll(c) PROVE Families'
  BY <1>4 DEF RevokeAll, Families, history
<1> QED
  BY <1>1, <1>2, <1>3, <1>4, Steps

-----------------------------------------------------------------------------
(* Revocation and the requests it overtakes *)

\* A request about to issue a token of a revoked session was overtaken by the
\* revocation, or exchanges a token that had escaped one.
Overtaking ==
  \A c \in Issuing :
    (\/ birth[c] < epoch
     \/ presented[c] # None /\ family[presented[c]] \in reused)
      => c \in overtaken \/ presented[c] \in escaped

LEMMA NextOvertaking ==
  /\ TypeOK /\ Carried /\ Families /\ Overtaking /\ OnlyOvertakenSurvive
  /\ [Next]_vars
  => Overtaking'
<1> SUFFICES ASSUME TypeOK, Carried, Families, Overtaking,
                    OnlyOvertakenSurvive, [Next]_vars
             PROVE  Overtaking'
  OBVIOUS
<1> USE DEF TypeOK, Overtaking, Issuing, Step, Leave
<1>1. CASE UNCHANGED vars
  BY <1>1 DEF vars, rows, user, locals, history, revocations
<1>2. CASE ForgotPassword
  BY <1>2 DEF ForgotPassword, rows, locals, history, revocations
<1>3. ASSUME NEW c \in Requests, Request(c) PROVE Overtaking'
  <2>1. CASE LoginRead(c)
    <3>1. presented[c] = None
      BY <2>1 DEF LoginRead, Carried
    <3> QED
      BY <2>1, <3>1 DEF LoginRead, rows, user, history, revocations
  <2>2. CASE Issue(c)
    <3> SUFFICES ASSUME NEW d \in Requests, pc'[d] \in {"rotate", "issue"},
                        \/ birth'[d] < epoch'
                        \/ /\ presented'[d] # None
                           /\ family'[presented'[d]] \in reused'
                 PROVE  d \in overtaken' \/ presented'[d] \in escaped'
      OBVIOUS
    <3>1. d # c
      BY <2>2 DEF Issue
    <3>2. /\ pc[d] \in {"rotate", "issue"}
          /\ birth'[d] = birth[d] /\ presented'[d] = presented[d]
          /\ overtaken' = overtaken \ {c}
      BY <2>2, <3>1 DEF Issue
    <3>3. presented[d] \in issued \cup {None}
      BY <3>2 DEF Carried
    <3>4. /\ \A u \in issued : family'[u] = family[u]
          /\ escaped \subseteq escaped'
          /\ UNCHANGED revocations
      BY <2>2, IssueEffect
    <3> QED
      BY <3>1, <3>2, <3>3, <3>4 DEF revocations
  <2>3. CASE RotateRead(c)
    <3>1. PICK t \in Live : /\ presented' = [presented EXCEPT ![c] = t]
                            /\ birth' = [birth EXCEPT ![c] = born[t]]
      BY <2>3 DEF RotateRead
    <3>2. Barred(t) => t \in escaped
      BY <3>1 DEF OnlyOvertakenSurvive
    <3>3. presented'[c] = t /\ birth'[c] = born[t]
      BY <3>1
    <3> QED
      BY <2>3, <3>1, <3>2, <3>3
      DEF RotateRead, Barred, rows, user, history, revocations
  <2>4. CASE RotateRevoke(c)
    BY <2>4 DEF RotateRevoke, user, locals, history, revocations
  <2>5. CASE ReuseRead(c)
    BY <2>5 DEF ReuseRead, rows, user, history, revocations
  <2>6. CASE ReuseRevoke(c)
    <3> SUFFICES ASSUME NEW d \in Requests, pc'[d] \in {"rotate", "issue"},
                        \/ birth'[d] < epoch'
                        \/ /\ presented'[d] # None
                           /\ family'[presented'[d]] \in reused'
                 PROVE  d \in overtaken' \/ presented'[d] \in escaped'
      OBVIOUS
    <3>1. d # c
      BY <2>6 DEF ReuseRevoke
    <3>2. d \in Issuing /\ presented'[d] = presented[d] /\ birth'[d] = birth[d]
      BY <2>6, <3>1 DEF ReuseRevoke
    <3>3. /\ reused' = reused \cup {family[presented[c]]}
          /\ overtaken' = overtaken \cup
               {e \in Issuing : /\ presented[e] # None
                                /\ family[presented[e]] = family[presented[c]]}
          /\ UNCHANGED <<family, escaped, epoch>>
      BY <2>6 DEF ReuseRevoke, history
    <3> QED
      BY <3>2, <3>3
  <2>7. CASE LogoutRead(c) \/ AdminReset(c)
    BY <2>7
    DEF LogoutRead, AdminReset, rows, user, locals, history, revocations
  <2>8. CASE ResetRead(c)
    BY <2>8 DEF ResetRead, rows, user, history, revocations
  <2>9. CASE ResetWrite(c)
    BY <2>9 DEF ResetWrite, rows, locals, history, revocations
  <2>10. CASE SetActiveRead(c)
    BY <2>10 DEF SetActiveRead, rows, user, locals, history, revocations
  <2>11. CASE Deactivate(c)
    BY <2>11 DEF Deactivate, rows, locals, history, revocations
  <2>12. CASE Activate(c)
    BY <2>12 DEF Activate, rows, history, revocations
  <2>13. CASE RevokeAll(c)
    BY <2>13 DEF RevokeAll, user, history
  <2>14. CASE Refused(c)
    BY <2>14, <1>1 DEF Refused
  <2>15. CASE Fail(c)
    BY <2>15 DEF Fail, rows, user, history, revocations
  <2> QED
    BY <1>3, <2>1, <2>2, <2>3, <2>4, <2>5, <2>6, <2>7, <2>8, <2>9, <2>10,
       <2>11, <2>12, <2>13, <2>14, <2>15 DEF Request
<1> QED
  BY <1>1, <1>2, <1>3 DEF Next

LEMMA NextSurvive ==
  /\ TypeOK /\ Carried /\ Families /\ Overtaking /\ OnlyOvertakenSurvive
  /\ [Next]_vars
  => OnlyOvertakenSurvive'
<1> SUFFICES ASSUME TypeOK, Carried, Families, Overtaking,
                    OnlyOvertakenSurvive, [Next]_vars
             PROVE  OnlyOvertakenSurvive'
  OBVIOUS
<1> USE DEF OnlyOvertakenSurvive, Live, Barred
<1>1. CASE Quiet
  BY <1>1 DEF Quiet, history, revocations
<1>2. ASSUME NEW c \in Requests, Issue(c) PROVE OnlyOvertakenSurvive'
  <2>1. presented[c] \in issued \cup {None}
    BY <1>2 DEF Carried, Issue, TypeOK
  <2>2. PICK t \in Tokens \ issued :
          /\ issued' = issued \cup {t}
          /\ revoked' = revoked
          /\ \A u \in issued : /\ family'[u] = family[u]
                               /\ born'[u] = born[u]
          /\ family'[t] = IF presented[c] = None THEN t ELSE family[presented[c]]
          /\ born'[t] = birth[c]
          /\ escaped' = IF c \in overtaken \/ presented[c] \in escaped
                        THEN escaped \cup {t} ELSE escaped
          /\ UNCHANGED revocations
    BY <1>2, IssueEffect
  <2>3. Barred(t)' => t \in escaped'
    <3>1. c \in Issuing
      BY <1>2 DEF Issue, Issuing
    <3>2. t \notin reused
      BY <2>2 DEF Families
    <3> QED
      BY <2>2, <3>1, <3>2 DEF Overtaking, revocations
  <2>4. \A u \in issued : Barred(u)' => Barred(u)
    BY <2>2 DEF revocations
  <2> QED
    BY <2>2, <2>3, <2>4
<1>3. ASSUME NEW c \in Requests, ReuseRevoke(c) PROVE OnlyOvertakenSurvive'
  BY <1>3 DEF ReuseRevoke, history
<1>4. ASSUME NEW c \in Requests, RevokeAll(c) PROVE OnlyOvertakenSurvive'
  BY <1>4 DEF RevokeAll
<1> QED
  BY <1>1, <1>2, <1>3, <1>4, Steps

SessionInv ==
  TypeOK /\ Carried /\ Families /\ Overtaking /\ OnlyOvertakenSurvive

LEMMA SessionInductive == Spec => []SessionInv
<1>1. Init => SessionInv
  <2> SUFFICES ASSUME Init PROVE SessionInv
    OBVIOUS
  <2>1. Families /\ Overtaking /\ OnlyOvertakenSurvive
    BY DEF Init, Families, Overtaking, Issuing, OnlyOvertakenSurvive, Live
  <2> QED
    BY <2>1, InitType, InitCarried DEF SessionInv
<1>2. SessionInv /\ [Next]_vars => SessionInv'
  BY NextType, NextCarried, NextFamilies, NextOvertaking, NextSurvive
  DEF SessionInv
<1> QED
  BY <1>1, <1>2, PTL DEF Spec

\* After a revocation (a detected reuse, a logout, a reset, a deactivation) a
\* good token of the revoked session descends from a request that was already
\* past its checks when the session was revoked.
THEOREM SurvivorsWereOvertaken == Spec => []OnlyOvertakenSurvive
<1>1. SessionInv => OnlyOvertakenSurvive
  BY DEF SessionInv
<1> QED
  BY <1>1, SessionInductive, PTL

-----------------------------------------------------------------------------
(* Requests that do not overlap *)

SoleRequest == \A c, d \in Requests : c = d

NobodyOvertaken == overtaken = {} /\ escaped = {}

\* What docs, section 7.1, and test_refresh_rotation.py say holds when at most
\* one request is in flight: a family in which a reuse was detected has no good
\* token left.
THEOREM SerialReuse ==
  ASSUME SoleRequest
  PROVE  Spec => []ReusedFamilyDead
<1> DEFINE I == SessionInv /\ NobodyOvertaken
<1>1. Spec => NobodyOvertaken
  BY DEF Spec, Init, NobodyOvertaken
<1>2. SessionInv /\ NobodyOvertaken /\ [Next]_vars => NobodyOvertaken'
  <2> SUFFICES ASSUME SessionInv, NobodyOvertaken, [Next]_vars
               PROVE  NobodyOvertaken'
    OBVIOUS
  <2> USE DEF NobodyOvertaken, Leave, Step, Issuing
  <2>1. CASE UNCHANGED vars
    BY <2>1 DEF vars, history
  <2>2. CASE ForgotPassword
    BY <2>2 DEF ForgotPassword, history
  <2>3. ASSUME NEW c \in Requests, Request(c) PROVE NobodyOvertaken'
    <3>1. CASE ReuseRevoke(c) \/ RevokeAll(c)
      BY <3>1 DEF ReuseRevoke, RevokeAll, history, SoleRequest
    <3>2. CASE ~ ReuseRevoke(c) /\ ~ RevokeAll(c)
      BY <2>1, <2>3, <3>2
      DEF Request, LoginRead, Issue, RotateRead, RotateRevoke, ReuseRead,
          LogoutRead, AdminReset, ResetRead, ResetWrite, SetActiveRead,
          Deactivate, Activate, Refused, Fail, history
    <3> QED
      BY <3>1, <3>2
  <2> QED
    BY <2>1, <2>2, <2>3 DEF Next
<1>3. SessionInv /\ NobodyOvertaken => ReusedFamilyDead
  BY DEF SessionInv, OnlyOvertakenSurvive, Barred, NobodyOvertaken,
         ReusedFamilyDead
<1> QED
  BY <1>1, <1>2, <1>3, SessionInductive, PTL DEF Spec

-----------------------------------------------------------------------------
(* Forks *)

\* Two tokens of a family were exchanged for the same token.
Forked(f) ==
  \E x, y \in issued : /\ x # y
                       /\ parent[x] = parent[y]
                       /\ parent[x] \notin {x, y}
                       /\ family[x] = f

\* A token not exchanged yet.
Last(t) == \A x \in issued : parent[x] = t => x = t

\* A family without a fork is a chain: it has one token that is not exchanged
\* yet.
Chains ==
  \A t, u \in issued :
    t # u /\ family[t] = family[u] /\ Last(t) /\ Last(u) => Forked(family[t])

LEMMA NextChains ==
  TypeOK /\ Carried /\ Families /\ Chains /\ [Next]_vars => Chains'
<1> SUFFICES ASSUME TypeOK, Carried, Families, Chains, [Next]_vars
             PROVE  Chains'
  OBVIOUS
<1>1. CASE Quiet
  BY <1>1 DEF Quiet, Chains, Last, Forked, history
<1>2. ASSUME NEW c \in Requests, Issue(c) PROVE Chains'
  <2> DEFINE p == presented[c]
  <2>1. p \in issued \cup {None}
    BY <1>2 DEF Carried, Issue, TypeOK
  <2>2. PICK t \in Tokens \ issued :
          /\ issued' = issued \cup {t}
          /\ \A u \in issued : /\ family'[u] = family[u]
                               /\ parent'[u] = parent[u]
          /\ family'[t] = IF p = None THEN t ELSE family[p]
          /\ parent'[t] = IF p = None THEN t ELSE p
    BY <1>2, IssueEffect
  <2>3. \A f : Forked(f) => Forked(f)'
    BY <2>2 DEF Forked
  <2>4. \A u \in issued : Last(u)' => Last(u)
    BY <2>2 DEF Last
  <2>5. ASSUME NEW u \in issued, Last(u)', family'[u] = family'[t]
        PROVE  Forked(family[t])'
    <3>1. CASE p = None
      <4>1. family[u] = t
        BY <2>2, <2>5, <3>1
      <4> QED
        BY <4>1, <2>2 DEF Families
    <3>2. CASE p # None
      <4>1. p \in issued /\ family'[t] = family[p] /\ parent'[t] = p
        BY <2>1, <2>2, <3>2
      <4>2. u # p
        BY <2>2, <2>5, <4>1 DEF Last
      <4>3. CASE Last(p)
        <5>1. Forked(family[p])
          BY <2>2, <2>4, <2>5, <4>1, <4>2, <4>3 DEF Chains
        <5> QED
          BY <5>1, <2>3, <4>1
      <4>4. CASE ~ Last(p)
        <5>1. PICK x \in issued : parent[x] = p /\ x # p
          BY <4>4 DEF Last
        <5>2. family[x] = family[p]
          BY <5>1 DEF Families
        <5> QED
          BY <5>1, <5>2, <2>2, <4>1 DEF Forked
      <4> QED
        BY <4>3, <4>4
    <3> QED
      BY <3>1, <3>2
  <2>6. ASSUME NEW u \in issued', NEW v \in issued', u # v,
               family'[u] = family'[v], Last(u)', Last(v)'
        PROVE  Forked(family[u])'
    <3>1. CASE u \in issued /\ v \in issued
      BY <2>2, <2>3, <2>4, <2>6, <3>1 DEF Chains
    <3>2. CASE u = t \/ v = t
      BY <2>2, <2>5, <2>6, <3>2
    <3> QED
      BY <2>2, <3>1, <3>2
  <2> QED
    BY <2>6 DEF Chains
<1>3. ASSUME NEW c \in Requests, ReuseRevoke(c) \/ RevokeAll(c) PROVE Chains'
  BY <1>3 DEF ReuseRevoke, RevokeAll, Chains, Last, Forked, history
<1> QED
  BY <1>1, <1>2, <1>3, Steps

\* Two good tokens of one family mean that one of its tokens was exchanged
\* twice, by requests that both read it before either revoked it: neither
\* retries, nor crashes, nor replays alone give two devices one session.
THEOREM ForkNeedsTwoExchanges == Spec => []ForkNeedsSharedExchange
<1> DEFINE I == TypeOK /\ Carried /\ Families /\ PredecessorRevoked /\ Chains
<1>1. Init => I
  BY InitType, InitCarried DEF Init, Families, PredecessorRevoked, Chains
<1>2. I /\ [Next]_vars => I'
  BY NextType, NextCarried, NextFamilies, NextPredecessor, NextChains
<1>3. I => ForkNeedsSharedExchange
  <2> SUFFICES ASSUME I, NEW t \in Live, NEW u \in Live,
                      t # u, family[t] = family[u]
               PROVE  Forked(family[t])
    BY DEF ForkNeedsSharedExchange, Forked
  <2>1. \A v \in Live : Last(v)
    BY DEF Live, Last, PredecessorRevoked
  <2> QED
    BY <2>1 DEF Chains, Live
<1> QED
  BY <1>1, <1>2, <1>3, PTL DEF Spec

=============================================================================
