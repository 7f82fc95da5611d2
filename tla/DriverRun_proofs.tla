-------------------------- MODULE DriverRun_proofs --------------------------
(***************************************************************************)
(* Proofs about DriverRun, for any students, routes and losses, however    *)
(* hasty the driver and however many mutations are in flight: typing, what *)
(* the page shows once everything is answered, and what it records.        *)
(***************************************************************************)
EXTENDS DriverRun, TLAPS

-----------------------------------------------------------------------------
(* Typing *)

Datas == [trip : Statuses \cup {"none"}, roster : [Students -> Recorded],
          absences : SUBSET Students]
QueryType == [at : {"idle", "sent", "replied"}, got : Datas, ok : BOOLEAN, has : BOOLEAN,
              data : Datas, error : BOOLEAN, invalid : BOOLEAN]
ReqType == [at : {"none", "sent", "ok", "error"}, entries : [Students -> Marks \cup {"none"}],
            ids : SUBSET Students, status : Statuses \cup {"none"}, then : BOOLEAN,
            mine : BOOLEAN]

\* The server, the page, and what people said
TripTyped ==
  /\ run \in Runs
  /\ trip \in Statuses
  /\ att \in [Students -> Recorded]
  /\ dropped \subseteq Students
PageTyped ==
  /\ page \in {"today", "run"}
  /\ marks \in [Students -> Marks \cup {"none"}]
  /\ endResult \subseteq Students
  /\ dialog \in {"closed", "open", "busy"}
PastTyped ==
  /\ said \in [Students -> Marks \cup {"none"}]
  /\ early \subseteq Students
  /\ foreign \in BOOLEAN /\ missed \in BOOLEAN
QueriesTyped == query \in [Queries -> QueryType]
ReqsTyped == req \in [Kinds -> ReqType]
LossesTyped == run \in Runs /\ losses \in 0..run.losses

LEMMA LossesNatural == LossesTyped => losses \in Nat /\ run.losses \in Nat
BY RunsAssumption DEF LossesTyped

\* Typing is that of the parts, in a state and in the next one.
LEMMA TypeParts ==
  /\ TypeOK <=> TripTyped /\ PageTyped /\ PastTyped /\ QueriesTyped /\ ReqsTyped /\ LossesTyped
  /\ TypeOK' <=> TripTyped' /\ PageTyped' /\ PastTyped' /\ QueriesTyped' /\ ReqsTyped'
                 /\ LossesTyped'
BY DEF TypeOK, TripTyped, PageTyped, PastTyped, QueriesTyped, ReqsTyped, LossesTyped,
       QueryType, ReqType, Datas

LEMMA Blank ==
  /\ NoMarks \in [Students -> Marks \cup {"none"}] /\ NoMarks \in [Students -> Recorded]
  /\ NoData \in Datas /\ NoQuery \in QueryType /\ NoReq \in ReqType /\ Request \in ReqType
BY DEF NoMarks, NoData, NoQuery, NoReq, Request, Datas, QueryType, ReqType, Marks, Recorded, Statuses

\* What the endpoint of a query answers, per query
LEMMA AnswerTyped ==
  ASSUME TripTyped, NEW q \in Queries
  PROVE  Answer(q) \in Datas
<1>1. CASE q = "trip"
  BY <1>1, Blank DEF Answer, NoData, Datas, TripTyped
<1>2. CASE q = "roster"
  BY <1>2, Blank DEF Answer, NoData, Datas, TripTyped
<1>3. CASE q = "absences"
  BY <1>3, Blank DEF Answer, NoData, Datas, TripTyped
<1> QED
  BY <1>1, <1>2, <1>3 DEF Queries

LEMMA AnswerFields ==
  ASSUME TripTyped
  PROVE  /\ Answer("trip").trip = trip
         /\ Answer("roster").roster = att
         /\ Answer("roster").trip = "none" /\ Answer("absences").trip = "none"
         /\ Answer("absences").absences = {s \in Students : att[s] = "absent_parent_marked"}
BY DEF Answer, NoData

LEMMA FetchTyped ==
  ASSUME NEW c \in QueryType
  PROVE  /\ Fetch(c) \in QueryType
         /\ [c EXCEPT !.invalid = TRUE] \in QueryType
         /\ \A old \in BOOLEAN : OnMount(c, old) \in QueryType
<1>1. Fetch(c) \in QueryType
  BY Blank DEF Fetch, QueryType
<1>2. [c EXCEPT !.invalid = TRUE] \in QueryType
  BY DEF QueryType
<1> QED
  BY <1>1, <1>2 DEF OnMount

\* An answer to a mutation, or its loss
LEMMA AnswersTyped ==
  ASSUME ReqsTyped, LossesTyped, NEW k \in Kinds, NEW ok \in ReqType, Answers(k, ok),
         run' = run
  PROVE  ReqsTyped' /\ LossesTyped'
<1>1. CASE req' = [req EXCEPT ![k] = ok] /\ losses' = losses
  BY <1>1 DEF ReqsTyped, LossesTyped
<1>2. CASE /\ losses < run.losses /\ losses' = losses + 1
           /\ req' = [req EXCEPT ![k].at = "error"]
  <2>1. [req[k] EXCEPT !.at = "error"] \in ReqType
    BY DEF ReqsTyped, ReqType
  <2>2. ReqsTyped'
    BY <1>2, <2>1 DEF ReqsTyped
  <2>3. LossesTyped'
    BY <1>2, LossesNatural DEF LossesTyped
  <2> QED
    BY <2>2, <2>3
<1> QED
  BY <1>1, <1>2 DEF Answers

LEMMA InitTyped == Init => TypeOK
<1> SUFFICES ASSUME Init PROVE TypeOK
  OBVIOUS
<1> USE Blank DEF Init
<1>1. TripTyped /\ PageTyped /\ PastTyped
  BY DEF TripTyped, PageTyped, PastTyped, Statuses
<1>2. QueriesTyped
  BY FetchTyped DEF QueriesTyped
<1>3. ReqsTyped /\ LossesTyped
  BY RunsAssumption DEF ReqsTyped, LossesTyped
<1> QED
  BY <1>1, <1>2, <1>3, TypeParts

\* The server carries out a mutation, one kind at a time.
LEMMA ServeStartTyped == TypeOK /\ ServeStart => TypeOK'
<1> SUFFICES ASSUME TypeOK, ServeStart PROVE TypeOK'
  OBVIOUS
<1>1. TripTyped /\ PageTyped /\ PastTyped /\ QueriesTyped /\ ReqsTyped /\ LossesTyped
  BY TypeParts
<1>2. PICK ok \in ReqType : Answers("start", ok)
  BY <1>1 DEF ServeStart, ReqsTyped, ReqType, Kinds
<1>3. ReqsTyped' /\ LossesTyped'
  BY <1>1, <1>2, AnswersTyped DEF Kinds, ServeStart, ServeSubmit, ServeDrop
<1>4. TripTyped'
  BY <1>1 DEF ServeStart, TripTyped, Statuses
<1> QED
  BY <1>1, <1>3, <1>4, TypeParts DEF ServeStart, local, history, PageTyped, PastTyped, QueriesTyped

LEMMA ServeSubmitTyped == TypeOK /\ ServeSubmit => TypeOK'
<1> SUFFICES ASSUME TypeOK, ServeSubmit PROVE TypeOK'
  OBVIOUS
<1>1. TripTyped /\ PageTyped /\ PastTyped /\ QueriesTyped /\ ReqsTyped /\ LossesTyped
  BY TypeParts
<1>2. PICK ok \in ReqType : Answers("submit", ok)
  BY <1>1 DEF ServeSubmit, ReqsTyped, ReqType, Kinds
<1>3. ReqsTyped' /\ LossesTyped'
  BY <1>1, <1>2, AnswersTyped DEF Kinds, ServeStart, ServeSubmit, ServeDrop
<1>4. req["submit"].entries \in [Students -> Marks \cup {"none"}]
  BY <1>1 DEF ReqsTyped, ReqType, Kinds
<1>5. TripTyped'
  BY <1>1, <1>4 DEF ServeSubmit, TripTyped, Recorded
<1> QED
  BY <1>1, <1>3, <1>5, TypeParts DEF ServeSubmit, local, history, PageTyped, PastTyped, QueriesTyped

LEMMA ServeDropTyped == TypeOK /\ ServeDrop => TypeOK'
<1> SUFFICES ASSUME TypeOK, ServeDrop PROVE TypeOK'
  OBVIOUS
<1>1. TripTyped /\ PageTyped /\ PastTyped /\ QueriesTyped /\ ReqsTyped /\ LossesTyped
  BY TypeParts
<1>2. PICK ok \in ReqType : Answers("drop", ok)
  BY <1>1 DEF ServeDrop, ReqsTyped, ReqType, Kinds
<1>3. ReqsTyped' /\ LossesTyped'
  BY <1>1, <1>2, AnswersTyped DEF Kinds, ServeStart, ServeSubmit, ServeDrop
<1>4. TripTyped'
  <2>1. /\ run' = run /\ att' = att /\ trip' \in {trip, "completed"}
        /\ dropped' = dropped \/ dropped' = dropped \cup {s \in req["drop"].ids : att[s] = "boarded"}
    BY DEF ServeDrop
  <2>2. req["drop"].ids \subseteq Students
    BY <1>1 DEF ReqsTyped, ReqType, Kinds
  <2> QED
    BY <1>1, <2>1, <2>2 DEF TripTyped, Statuses
<1> QED
  BY <1>1, <1>3, <1>4, TypeParts DEF ServeDrop, local, history, PageTyped, PastTyped, QueriesTyped

LEMMA ServeEndTyped == TypeOK /\ ServeEnd => TypeOK'
<1> SUFFICES ASSUME TypeOK, ServeEnd PROVE TypeOK'
  OBVIOUS
<1>1. TripTyped /\ PageTyped /\ PastTyped /\ QueriesTyped /\ ReqsTyped /\ LossesTyped
  BY TypeParts
<1>2. TripTyped'
  BY <1>1 DEF ServeEnd, TripTyped, Statuses
<1>3. PICK ok \in ReqType : Answers("end", ok)
  <2>1. req["end"] \in ReqType /\ trip' \in Statuses /\ Unaccounted(att, dropped) \subseteq Students
    BY <1>1, <1>2 DEF ReqsTyped, Kinds, TripTyped, Unaccounted
  <2>2. [req["end"] EXCEPT !.at = "error"] \in ReqType
    BY <2>1 DEF ReqType
  <2>3. [req["end"] EXCEPT !.at = "ok", !.status = trip', !.ids = Unaccounted(att, dropped)] \in ReqType
    BY <2>1 DEF ReqType
  <2> QED
    BY <2>2, <2>3 DEF ServeEnd
<1>4. ReqsTyped' /\ LossesTyped'
  BY <1>1, <1>3, AnswersTyped DEF Kinds, ServeEnd
<1> QED
  BY <1>1, <1>2, <1>4, TypeParts DEF ServeEnd, local, history, PageTyped, PastTyped, QueriesTyped

\* The network and the other people
LEMMA OutsideTyped ==
  ASSUME TypeOK,
         (\E k \in Kinds : Lose(k)) \/ (\E q \in Queries : ServeQuery(q))
         \/ (\E s \in Students : MarkAbsent(s)) \/ CancelTrip
  PROVE  TypeOK'
<1>1. TripTyped /\ PageTyped /\ PastTyped /\ QueriesTyped /\ ReqsTyped /\ LossesTyped
  BY TypeParts
<1>2. ASSUME NEW k \in Kinds, Lose(k) PROVE TypeOK'
  <2>1. Answers(k, req[k])
    BY <1>2 DEF Lose, Answers
  <2>2. ReqsTyped' /\ LossesTyped'
    BY <1>1, <1>2, <2>1, AnswersTyped DEF ReqsTyped, Lose
  <2> QED
    BY <1>1, <1>2, <2>2, TypeParts
    DEF Lose, server, local, history, TripTyped, PageTyped, PastTyped, QueriesTyped
<1>3. ASSUME NEW q \in Queries, ServeQuery(q) PROVE TypeOK'
  <2>1. Answer(q) \in Datas /\ query[q] \in QueryType
    BY <1>1, AnswerTyped DEF QueriesTyped
  <2>2. [query[q] EXCEPT !.at = "replied", !.got = Answer(q)] \in QueryType
    BY <2>1 DEF QueryType
  <2>3. [query[q] EXCEPT !.at = "replied", !.ok = FALSE] \in QueryType
    BY <2>1 DEF QueryType
  <2>4. CASE query' = [query EXCEPT ![q].at = "replied", ![q].got = Answer(q)] /\ losses' = losses
    <3>1. query' = [query EXCEPT ![q] = [query[q] EXCEPT !.at = "replied", !.got = Answer(q)]]
      BY <1>1, <2>4 DEF QueriesTyped
    <3> QED
      BY <1>1, <1>3, <2>2, <2>4, <3>1, TypeParts DEF QueriesTyped, LossesTyped, ServeQuery, server, local, history,
         TripTyped, PageTyped, PastTyped, ReqsTyped
  <2>5. CASE query' = [query EXCEPT ![q].at = "replied", ![q].ok = FALSE]
             /\ losses < run.losses /\ losses' = losses + 1
    <3>1. query' = [query EXCEPT ![q] = [query[q] EXCEPT !.at = "replied", !.ok = FALSE]]
      BY <1>1, <2>5 DEF QueriesTyped
    <3>2. LossesTyped'
      BY <1>1, <1>3, <2>5, LossesNatural DEF LossesTyped, ServeQuery
    <3> QED
      BY <1>1, <1>3, <2>3, <3>1, <3>2, TypeParts DEF QueriesTyped, ServeQuery, server, local, history,
         TripTyped, PageTyped, PastTyped, ReqsTyped
  <2> QED
    BY <1>3, <2>4, <2>5 DEF ServeQuery
<1>4. CASE (\E s \in Students : MarkAbsent(s)) \/ CancelTrip
  <2>1. TripTyped' /\ PastTyped'
    BY <1>1, <1>4 DEF MarkAbsent, CancelTrip, TripTyped, PastTyped, Statuses, Recorded
  <2> QED
    BY <1>1, <1>4, <2>1, TypeParts DEF MarkAbsent, CancelTrip, local, PageTyped, QueriesTyped,
       ReqsTyped, LossesTyped
<1> QED
  BY <1>2, <1>3, <1>4

\* The trip's queries, refetched or marked
LEMMA InvalidateTyped ==
  ASSUME QueriesTyped, InvalidateTrip
  PROVE  QueriesTyped' /\ missed' \in BOOLEAN
BY FetchTyped DEF QueriesTyped, InvalidateTrip

\* The content goes away, or stays.
LEMMA ContentTyped ==
  ASSUME PageTyped, ReqsTyped, NEW stays, KeepOrDropContent(stays), page' \in {"today", "run"}
  PROVE  PageTyped' /\ ReqsTyped'
<1>1. CASE UNCHANGED <<local, req>>
  BY <1>1 DEF local, PageTyped, ReqsTyped
<1>2. CASE /\ marks' = NoMarks /\ endResult' = {} /\ dialog' = "closed"
           /\ req' = [k \in Kinds |-> [req[k] EXCEPT !.mine = FALSE]]
  <2>1. \A k \in Kinds : [req[k] EXCEPT !.mine = FALSE] \in ReqType
    BY DEF ReqsTyped, ReqType
  <2> QED
    BY <1>2, <2>1, Blank DEF PageTyped, ReqsTyped
<1> QED
  BY <1>1, <1>2 DEF KeepOrDropContent

LEMMA PagesTyped ==
  ASSUME TypeOK,
         (\E q \in Queries : QuerySettles(q)) \/ (\E old \in BOOLEAN : Open(old) \/ Back(old)) \/ Retry
  PROVE  TypeOK'
<1>1. TripTyped /\ PageTyped /\ PastTyped /\ QueriesTyped /\ ReqsTyped /\ LossesTyped
  BY TypeParts
<1>2. TripTyped' /\ PastTyped' /\ LossesTyped'
  BY <1>1 DEF QuerySettles, Open, Back, Retry, server, history, TripTyped, PastTyped, LossesTyped
<1>3. ASSUME NEW q \in Queries, QuerySettles(q) PROVE TypeOK'
  <2>1. query[q] \in QueryType
    BY <1>1 DEF QueriesTyped
  <2>2. [NoQuery EXCEPT !.has = TRUE, !.data = query[q].got] \in QueryType
    BY <2>1, Blank DEF QueryType
  <2>3. [query[q] EXCEPT !.at = "idle", !.got = NoData, !.ok = TRUE, !.error = TRUE] \in QueryType
    BY <2>1, Blank DEF QueryType
  <2>4. QueriesTyped'
    BY <1>1, <1>3, <2>2, <2>3 DEF QuerySettles, QueriesTyped
  <2>5. PageTyped' /\ ReqsTyped'
    <3> DEFINE stays == page = "run" /\ Loaded(query')
    <3>1. KeepOrDropContent(stays) /\ page' = page
      BY <1>3 DEF QuerySettles
    <3> HIDE DEF stays
    <3> QED
      BY <1>1, <3>1, ContentTyped DEF PageTyped
  <2> QED
    BY <1>2, <2>4, <2>5, TypeParts
<1>4. ASSUME NEW old \in BOOLEAN, Open(old) PROVE TypeOK'
  <2>1. QueriesTyped'
    BY <1>1, <1>4, FetchTyped DEF Open, QueriesTyped
  <2> QED
    BY <1>1, <1>2, <1>4, <2>1, TypeParts DEF Open, local, PageTyped, ReqsTyped
<1>5. ASSUME NEW old \in BOOLEAN, Back(old) PROVE TypeOK'
  <2>1. QueriesTyped'
    BY <1>1, <1>5, FetchTyped DEF Back, QueriesTyped, Queries
  <2>2. PageTyped' /\ ReqsTyped'
    BY <1>1, <1>5, ContentTyped DEF Back
  <2> QED
    BY <1>2, <2>1, <2>2, TypeParts
<1>6. CASE Retry
  <2>1. QueriesTyped'
    BY <1>1, <1>6, FetchTyped DEF Retry, QueriesTyped, Queries
  <2> QED
    BY <1>1, <1>2, <1>6, <2>1, TypeParts DEF Retry, local, PageTyped, ReqsTyped
<1> QED
  BY <1>3, <1>4, <1>5, <1>6

\* The driver taps: a mark, a dialog, or one request.
LEMMA SendTyped ==
  ASSUME ReqsTyped, NEW k \in Kinds, NEW r \in ReqType, Send(k, r)
  PROVE  ReqsTyped'
BY DEF ReqsTyped, Send

LEMMA DropTyped ==
  ASSUME TypeOK, NEW ids \in SUBSET Students, NEW then \in BOOLEAN, Drop(ids, then)
  PROVE  TypeOK'
<1>1. TripTyped /\ PageTyped /\ PastTyped /\ QueriesTyped /\ ReqsTyped /\ LossesTyped
  BY TypeParts
<1> DEFINE r == [Request EXCEPT !.ids = ids, !.then = then]
<1>2. r \in ReqType
  BY Blank DEF ReqType
<1>3. Send("drop", r)
  BY DEF Drop
<1> HIDE DEF r
<1>4. ReqsTyped'
  BY <1>1, <1>2, <1>3, SendTyped DEF Kinds
<1> QED
  BY <1>1, <1>4, TypeParts
  DEF Drop, server, local, history, TripTyped, PageTyped, PastTyped, QueriesTyped, LossesTyped

LEMMA SubmitTyped == TypeOK /\ OnSubmitStop => TypeOK'
<1> SUFFICES ASSUME TypeOK, OnSubmitStop PROVE TypeOK'
  OBVIOUS
<1>1. TripTyped /\ PageTyped /\ PastTyped /\ QueriesTyped /\ ReqsTyped /\ LossesTyped
  BY TypeParts
<1> DEFINE e == [s \in Students |-> IF s \notin Toggleable THEN "none"
                           ELSE IF EffectiveMark(s) = "boarded" THEN "boarded" ELSE "absent"]
           r == [Request EXCEPT !.entries = e]
<1>2. e \in [Students -> Marks \cup {"none"}]
  BY DEF Marks
<1>3. r \in ReqType
  <2> HIDE DEF e
  <2> QED
    BY <1>2, Blank DEF ReqType
<1>4. Send("submit", r)
  BY DEF OnSubmitStop
<1> HIDE DEF e, r
<1>5. ReqsTyped'
  BY <1>1, <1>3, <1>4, SendTyped DEF Kinds
<1>6. PastTyped'
  BY <1>1 DEF OnSubmitStop, PastTyped, PageTyped, Toggleable, StudentsAt
<1> QED
  BY <1>1, <1>5, <1>6, TypeParts
  DEF OnSubmitStop, server, local, TripTyped, PageTyped, QueriesTyped, LossesTyped

LEMMA TapsTyped ==
  ASSUME TypeOK,
         \/ StartTrip \/ DropHere \/ DropAllAtSchool \/ DropRemaining
         \/ (\E s \in Students, m \in Marks : Mark(s, m))
         \/ OpenDialog \/ CancelDialog \/ ConfirmEnd
  PROVE  TypeOK'
<1>1. TripTyped /\ PageTyped /\ PastTyped /\ QueriesTyped /\ ReqsTyped /\ LossesTyped
  BY TypeParts
<1>2. BoardedIds \subseteq Students /\ Remaining \subseteq Students
  BY <1>1 DEF BoardedIds, Remaining, PageTyped
<1>3. \A k \in Kinds : Send(k, Request) => ReqsTyped'
  BY <1>1, Blank, SendTyped
<1>4. CASE StartTrip
  <2>1. ReqsTyped'
    BY <1>3, <1>4 DEF StartTrip, Kinds
  <2> QED
    BY <1>1, <1>4, <2>1, TypeParts DEF StartTrip, server, local, history, TripTyped, PageTyped,
       PastTyped, QueriesTyped, LossesTyped
<1>5. CASE DropHere
  <2> DEFINE ids == BoardedIds \cap StudentsAt(ActiveStop)
  <2>1. ids \in SUBSET Students /\ Drop(ids, FALSE)
    BY <1>2, <1>5 DEF DropHere
  <2> HIDE DEF ids
  <2> QED
    BY <2>1, DropTyped
<1>6. CASE DropAllAtSchool
  <2> DEFINE ids == BoardedIds
  <2>1. ids \in SUBSET Students /\ Drop(ids, FALSE)
    BY <1>2, <1>6 DEF DropAllAtSchool
  <2> HIDE DEF ids
  <2> QED
    BY <2>1, DropTyped
<1>7. CASE DropRemaining
  <2>1. CASE Remaining # {}
    <3> DEFINE ids == Remaining
    <3>1. ids \in SUBSET Students /\ Drop(ids, TRUE)
      BY <1>2, <1>7, <2>1 DEF DropRemaining
    <3> HIDE DEF ids
    <3> QED
      BY <3>1, DropTyped
  <2>2. CASE Remaining = {}
    <3>1. ReqsTyped'
      BY <1>3, <1>7, <2>2 DEF DropRemaining, Kinds
    <3> QED
      BY <1>1, <1>7, <2>2, <3>1, TypeParts DEF DropRemaining, server, local, history, TripTyped,
         PageTyped, PastTyped, QueriesTyped, LossesTyped
  <2> QED
    BY <2>1, <2>2
<1>8. CASE (\E s \in Students, m \in Marks : Mark(s, m)) \/ OpenDialog \/ CancelDialog
  <2>1. PageTyped'
    BY <1>1, <1>8 DEF Mark, OpenDialog, CancelDialog, PageTyped
  <2> QED
    BY <1>1, <1>8, <2>1, TypeParts DEF Mark, OpenDialog, CancelDialog, server, history, TripTyped,
       PastTyped, QueriesTyped, ReqsTyped, LossesTyped
<1>9. CASE ConfirmEnd
  <2>1. ReqsTyped' /\ PageTyped'
    BY <1>1, <1>3, <1>9 DEF ConfirmEnd, Kinds, PageTyped
  <2> QED
    BY <1>1, <1>9, <2>1, TypeParts DEF ConfirmEnd, server, history, TripTyped, PastTyped,
       QueriesTyped, LossesTyped
<1> QED
  BY <1>4, <1>5, <1>6, <1>7, <1>8, <1>9

\* The mutations settle.
LEMMA SettleTyped == TypeOK /\ SettleMutation => TypeOK'
<1> SUFFICES ASSUME TypeOK, SettleMutation PROVE TypeOK'
  OBVIOUS
<1>1. TripTyped /\ PageTyped /\ PastTyped /\ QueriesTyped /\ ReqsTyped /\ LossesTyped
  BY TypeParts
<1>2. \A k \in Kinds : Gone(k) \in [Kinds -> ReqType]
  BY <1>1, Blank DEF Gone, ReqsTyped
<1>3. TripTyped' /\ PastTyped' /\ LossesTyped'
  <2>1. UNCHANGED <<run, server, losses, said, early, foreign>>
    BY DEF SettleMutation, StartSettles, SubmitSettles, DropSettles, EndSettles, Fails, history
  <2>2. InvalidateTrip \/ missed' = missed
    BY DEF SettleMutation, StartSettles, SubmitSettles, DropSettles, EndSettles, Fails, history
  <2>3. missed' \in BOOLEAN
    BY <1>1, <2>2, InvalidateTyped DEF PastTyped
  <2> QED
    BY <1>1, <2>1, <2>3 DEF server, TripTyped, PastTyped, LossesTyped
<1>4. CASE StartSettles
  <2>1. QueriesTyped' /\ ReqsTyped'
    BY <1>1, <1>2, <1>4, InvalidateTyped DEF StartSettles, ReqsTyped, Kinds
  <2> QED
    BY <1>1, <1>3, <1>4, <2>1, TypeParts DEF StartSettles, local, PageTyped
<1>5. CASE SubmitSettles
  <2>1. QueriesTyped' /\ ReqsTyped'
    BY <1>1, <1>2, <1>5, InvalidateTyped DEF SubmitSettles, ReqsTyped, Kinds
  <2> QED
    BY <1>1, <1>3, <1>5, <2>1, Blank, TypeParts DEF SubmitSettles, PageTyped
<1>6. CASE DropSettles
  <2>1. QueriesTyped'
    BY <1>1, <1>6, InvalidateTyped DEF DropSettles
  <2>2. ReqsTyped'
    <3>1. CASE req' = Gone("drop")
      BY <1>2, <3>1 DEF ReqsTyped, Kinds
    <3>2. CASE req' = [Gone("drop") EXCEPT !["end"] = IF @.at = "none" THEN Request ELSE @]
      BY <1>2, <3>2, Blank DEF ReqsTyped, Kinds
    <3> QED
      BY <1>6, <3>1, <3>2 DEF DropSettles
  <2> QED
    BY <1>1, <1>3, <1>6, <2>1, <2>2, TypeParts DEF DropSettles, PageTyped
<1>7. CASE EndSettles
  <2>1. QueriesTyped'
    BY <1>1, <1>7, InvalidateTyped DEF EndSettles
  <2>2. CASE req["end"].status = "completed"
    <3>1. \A k \in Kinds : [Gone("end")[k] EXCEPT !.mine = FALSE] \in ReqType
      <4>1. \A k \in Kinds : Gone("end")[k] \in ReqType
        BY <1>2 DEF Kinds
      <4> QED
        BY <4>1 DEF ReqType
    <3>2. ReqsTyped'
      BY <1>7, <2>2, <3>1 DEF EndSettles, ReqsTyped
    <3> QED
      BY <1>3, <1>7, <2>1, <2>2, <3>2, Blank, TypeParts DEF EndSettles, PageTyped
  <2>3. CASE req["end"].status # "completed"
    <3>1. ReqsTyped'
      BY <1>2, <1>7, <2>3 DEF EndSettles, ReqsTyped, Kinds
    <3>2. req["end"].ids \subseteq Students
      BY <1>1 DEF ReqsTyped, ReqType, Kinds
    <3> QED
      BY <1>1, <1>3, <1>7, <2>1, <2>3, <3>1, <3>2, TypeParts DEF EndSettles, PageTyped
  <2> QED
    BY <2>2, <2>3
<1>8. ASSUME NEW k \in Kinds, Fails(k) PROVE TypeOK'
  <2>1. ReqsTyped'
    BY <1>2, <1>8 DEF Fails, ReqsTyped
  <2> QED
    BY <1>1, <1>3, <1>8, <2>1, TypeParts DEF Fails, PageTyped, QueriesTyped
<1> QED
  BY <1>4, <1>5, <1>6, <1>7, <1>8 DEF SettleMutation

LEMMA StutterTyped == TypeOK /\ UNCHANGED vars => TypeOK'
BY DEF TypeOK, vars, server, local, history

LEMMA NextTyped == TypeOK /\ [Next]_vars => TypeOK'
BY ServeStartTyped, ServeSubmitTyped, ServeDropTyped, ServeEndTyped, OutsideTyped, PagesTyped,
   SubmitTyped, TapsTyped, SettleTyped, StutterTyped DEF Next, Serve

\* The trip, the queries, the requests and what the page keeps have their types:
\* a status or a mark is one of the code's, and only those travel. (RunTripPage,
\* use-driver)
THEOREM TypeCorrect == Spec => []TypeOK
<1>1. Init => TypeOK
  BY InitTyped
<1>2. TypeOK /\ [Next]_vars => TypeOK'
  BY NextTyped
<1> QED
  BY <1>1, <1>2, PTL DEF Spec

-----------------------------------------------------------------------------
(* What a step does to the queries *)

\* The server has carried out a mutation and the page does not know yet.
Due == \E k \in Kinds : req[k].at = "ok"

\* The entry c of a query brings, or is about to fetch, data of the set G.
Holds(c, G) ==
  \/ c.at = "sent"
  \/ c.at = "replied" /\ c.got \in G
  \/ c.at = "idle" /\ (c.invalid \/ ~c.has \/ c.data \in G)

\* An entry that is fetched, answered, settled, or left alone; lost answers apart
Moves(c, d, answer) ==
  \/ d = c
  \/ d = Fetch(c)
  \/ c.at = "sent" /\ d = [c EXCEPT !.at = "replied", !.got = answer]
  \/ c.at = "replied" /\ c.ok /\ d = [NoQuery EXCEPT !.has = TRUE, !.data = c.got]

LEMMA MoveHolds ==
  ASSUME NEW c \in QueryType, NEW d, NEW answer, NEW G, NEW H,
         Holds(c, G), G \subseteq H, answer \in H, Moves(c, d, answer)
  PROVE  Holds(d, H)
<1>1. CASE d = c
  BY <1>1 DEF Holds
<1>2. CASE d = Fetch(c)
  BY <1>2 DEF Holds, Fetch, QueryType
<1>3. CASE c.at = "sent" /\ d = [c EXCEPT !.at = "replied", !.got = answer]
  BY <1>3 DEF Holds, QueryType
<1>4. CASE c.at = "replied" /\ c.ok /\ d = [NoQuery EXCEPT !.has = TRUE, !.data = c.got]
  <2>1. c.got \in G
    BY <1>4 DEF Holds
  <2> QED
    BY <1>4, <2>1 DEF Holds, NoQuery
<1> QED
  BY <1>1, <1>2, <1>3, <1>4 DEF Moves

\* No query failed while nothing was lost.
NoFail == losses = 0 => \A q \in Queries : query[q].ok /\ ~query[q].error

\* What every step is, while nothing is lost: a mutation that the page learns
\* of, or moves of the entries on their own, next to the work of the server and
\* of other people.
Others == (\E s \in Students : MarkAbsent(s)) \/ CancelTrip
Learns ==
  /\ Due /\ InvalidateTrip /\ UNCHANGED <<trip, att>>
  /\ page' \in {page, "today"}
Goes ==
  /\ Due => Due'
  /\ Due' \/ UNCHANGED <<trip, att>> \/ Others
  /\ \A q \in Queries :
       /\ Moves(query[q], query'[q], Answer(q))
       /\ query'[q] # query[q] => UNCHANGED <<trip, att>>
       /\ Mounted(q, page') /\ query'[q] = query[q] /\ query[q].at = "idle" =>
            Mounted(q, page) \/ (query[q].has /\ ~query[q].invalid)

\* A mutation answered without loss is carried out and due, or refused.
LEMMA AnswersDue ==
  ASSUME TypeOK, NEW k \in Kinds, req[k].at = "sent", NEW ok, Answers(k, ok), losses' = 0,
         ok.at \in {"ok", "error"}
  PROVE  /\ losses = 0 /\ req' = [req EXCEPT ![k] = ok]
         /\ ok.at = "ok" => Due'
         /\ Due => Due'
<1>1. losses \in Nat /\ req \in [Kinds -> ReqType]
  BY TypeParts, LossesNatural DEF ReqsTyped
<1>2. losses = 0 /\ req' = [req EXCEPT ![k] = ok]
  BY <1>1 DEF Answers
<1>3. \A j \in Kinds : j # k => req'[j] = req[j]
  BY <1>1, <1>2
<1>4. req'[k] = ok
  BY <1>1, <1>2
<1> QED
  BY <1>2, <1>3, <1>4 DEF Due

LEMMA ServeGoes ==
  ASSUME TypeOK, Serve, losses' = 0
  PROVE  losses = 0 /\ Goes
<1>1. ReqsTyped
  BY TypeParts
<1>2. query' = query /\ page' = page
  BY DEF Serve, ServeStart, ServeSubmit, ServeDrop, ServeEnd
<1>3. \A k \in Kinds : [req[k] EXCEPT !.at = "ok"].at = "ok" /\ [req[k] EXCEPT !.at = "error"].at = "error"
  BY <1>1 DEF ReqsTyped, ReqType
<1>4. CASE ServeStart
  <2>1. CASE trip = "scheduled"
    BY <1>2, <1>3, <1>4, <2>1, AnswersDue DEF ServeStart, Goes, Moves, Kinds
  <2>2. CASE trip # "scheduled"
    BY <1>2, <1>3, <1>4, <2>2, AnswersDue DEF ServeStart, Goes, Moves, Kinds
  <2> QED
    BY <2>1, <2>2
<1>5. CASE ServeSubmit
  BY <1>2, <1>3, <1>5, AnswersDue DEF ServeSubmit, Goes, Moves, Kinds
<1>6. CASE ServeDrop
  <2>1. CASE trip \in Active
    BY <1>2, <1>3, <1>6, <2>1, AnswersDue DEF ServeDrop, Goes, Moves, Kinds
  <2>2. CASE trip \notin Active
    BY <1>2, <1>3, <1>6, <2>2, AnswersDue DEF ServeDrop, Goes, Moves, Kinds
  <2> QED
    BY <2>1, <2>2
<1>7. CASE ServeEnd
  <2>1. CASE trip = "in_progress"
    <3> DEFINE ok == [req["end"] EXCEPT !.at = "ok", !.status = trip',
                               !.ids = Unaccounted(att, dropped)]
    <3>1. ok.at = "ok"
      BY <1>1 DEF ReqsTyped, ReqType, Kinds
    <3>2. Answers("end", ok) /\ req["end"].at = "sent"
      BY <1>7, <2>1 DEF ServeEnd
    <3> HIDE DEF ok
    <3> QED
      BY <1>2, <3>1, <3>2, AnswersDue DEF Goes, Moves, Kinds
  <2>2. CASE trip # "in_progress"
    BY <1>2, <1>3, <1>7, <2>2, AnswersDue DEF ServeEnd, Goes, Moves, Kinds
  <2> QED
    BY <2>1, <2>2
<1> QED
  BY <1>4, <1>5, <1>6, <1>7 DEF Serve

\* A step that leaves the queries, the page and what they tell
LEMMA StillGoes ==
  ASSUME query' = query, page' = page, UNCHANGED <<trip, att>> \/ Others, Due => Due'
  PROVE  Goes
BY DEF Goes, Moves

LEMMA QueryGoes ==
  ASSUME TypeOK, NoFail, losses' = 0, NEW q \in Queries, ServeQuery(q) \/ QuerySettles(q)
  PROVE  losses = 0 /\ Goes
<1>1. query \in [Queries -> QueryType] /\ losses \in Nat /\ req \in [Kinds -> ReqType]
  BY TypeParts, LossesNatural DEF QueriesTyped, ReqsTyped
<1>2. losses = 0
  BY <1>1 DEF ServeQuery, QuerySettles
<1>3. page' = page /\ UNCHANGED <<trip, att>>
  BY DEF ServeQuery, QuerySettles, server
<1>4. \A k \in Kinds : req'[k].at = req[k].at
  <2>1. req' = req \/ req' = [k \in Kinds |-> [req[k] EXCEPT !.mine = FALSE]]
    BY DEF ServeQuery, QuerySettles, KeepOrDropContent
  <2> QED
    BY <1>1, <2>1 DEF ReqType
<1>5. \A p \in Queries : p # q => query'[p] = query[p]
  BY <1>1 DEF ServeQuery, QuerySettles
<1>6. Moves(query[q], query'[q], Answer(q))
  <2>1. CASE ServeQuery(q)
    <3>1. query' = [query EXCEPT ![q].at = "replied", ![q].got = Answer(q)] /\ query[q].at = "sent"
      BY <1>1, <1>2, <2>1 DEF ServeQuery
    <3>2. query'[q] = [query[q] EXCEPT !.at = "replied", !.got = Answer(q)]
      BY <1>1, <3>1
    <3> QED
      BY <3>1, <3>2 DEF Moves
  <2>2. CASE QuerySettles(q)
    <3>1. query[q].ok /\ query[q].at = "replied"
      BY <1>2, <2>2 DEF NoFail, QuerySettles
    <3>2. query'[q] = [NoQuery EXCEPT !.has = TRUE, !.data = query[q].got]
      BY <1>1, <2>2, <3>1 DEF QuerySettles
    <3> QED
      BY <3>1, <3>2 DEF Moves
  <2> QED
    BY <2>1, <2>2
<1>7. \A p \in Queries : Moves(query[p], query'[p], Answer(p))
  BY <1>5, <1>6 DEF Moves
<1>8. Due => Due'
  BY <1>4 DEF Due
<1> QED
  BY <1>2, <1>3, <1>7, <1>8 DEF Goes, Mounted

LEMMA OutsideGoes ==
  ASSUME TypeOK, losses' = 0,
         (\E k \in Kinds : Lose(k)) \/ Others
  PROVE  losses = 0 /\ Goes
<1>1. losses \in Nat
  BY TypeParts, LossesNatural
<1>2. ~ \E k \in Kinds : Lose(k)
  BY <1>1 DEF Lose
<1>3. losses' = losses /\ query' = query /\ page' = page /\ Others /\ req' = req
  BY <1>2 DEF Others, MarkAbsent, CancelTrip
<1> QED
  BY <1>3, StillGoes DEF Due

\* Mounting, leaving, trying again
LEMMA PageGoes ==
  ASSUME TypeOK, losses' = 0, (\E old \in BOOLEAN : Open(old) \/ Back(old)) \/ Retry
  PROVE  losses = 0 /\ Goes
<1>1. query \in [Queries -> QueryType] /\ req \in [Kinds -> ReqType]
  BY TypeParts DEF QueriesTyped, ReqsTyped
<1>2. losses' = losses /\ UNCHANGED <<trip, att>>
  BY DEF Open, Back, Retry, server
<1>3. \A k \in Kinds : req'[k].at = req[k].at
  <2>1. req' = req \/ req' = [k \in Kinds |-> [req[k] EXCEPT !.mine = FALSE]]
    BY DEF Open, Back, Retry, KeepOrDropContent
  <2> QED
    BY <1>1, <2>1 DEF ReqType
<1>4. Due => Due'
  BY <1>3 DEF Due
<1>5. \A c, old : OnMount(c, old) = c \/ OnMount(c, old) = Fetch(c)
  BY DEF OnMount
<1>6. ASSUME NEW old \in BOOLEAN, Open(old) PROVE Goes
  <2>1. \A q \in Queries : Moves(query[q], query'[q], Answer(q))
    BY <1>5, <1>6 DEF Open, Moves
  <2>2. \A q \in Queries : query'[q] = query[q] /\ query[q].at = "idle" => query[q].has /\ ~query[q].invalid
    <3>1. \A c \in QueryType : Fetch(c).at = "sent"
      BY DEF Fetch, QueryType
    <3> QED
      BY <1>1, <1>6, <3>1 DEF Open, OnMount, Stale
  <2> QED
    BY <1>2, <1>4, <2>1, <2>2 DEF Goes
<1>7. CASE (\E old \in BOOLEAN : Back(old)) \/ Retry
  <2>1. \A q \in Queries : query'[q] = query[q] \/ query'[q] = Fetch(query[q])
    BY <1>1, <1>5, <1>7 DEF Back, Retry
  <2>2. \A q \in Queries : Mounted(q, page') => Mounted(q, page)
    BY <1>7 DEF Back, Retry, Mounted
  <2> QED
    BY <1>2, <1>4, <2>1, <2>2 DEF Goes, Moves
<1> QED
  BY <1>2, <1>6, <1>7

\* The driver's taps send at most one request, of a kind not in flight.
Taps ==
  \/ StartTrip \/ OnSubmitStop \/ DropHere \/ DropAllAtSchool \/ DropRemaining
  \/ (\E s \in Students, m \in Marks : Mark(s, m))
  \/ OpenDialog \/ CancelDialog \/ ConfirmEnd

LEMMA DropSends ==
  ASSUME NEW ids, NEW then, Drop(ids, then)
  PROVE  /\ UNCHANGED <<run, server, losses, page, query, local, history>> /\ ContentShown
         /\ Send("drop", [Request EXCEPT !.ids = ids, !.then = then])
         /\ [Request EXCEPT !.ids = ids, !.then = then].at = "sent"
BY DEF Drop, Usable, Request, NoReq

LEMMA TapSends ==
  ASSUME Taps
  PROVE  /\ UNCHANGED <<run, server, losses, page, query, foreign, missed>> /\ ContentShown
         /\ \/ UNCHANGED <<req, said, early>>
            \/ OnSubmitStop
            \/ \E k \in Kinds \ {"submit"} : \E r :
                 Send(k, r) /\ r.at = "sent" /\ UNCHANGED <<said, early>>
<1>1. Request.at = "sent"
  BY DEF Request, NoReq
<1>2. CASE OnSubmitStop
  BY <1>2 DEF OnSubmitStop, Usable
<1>3. CASE (\E s \in Students, m \in Marks : Mark(s, m)) \/ OpenDialog \/ CancelDialog
  BY <1>3 DEF Mark, OpenDialog, CancelDialog, Usable, history
<1>4. CASE StartTrip
  BY <1>1, <1>4 DEF StartTrip, Usable, history, Kinds
<1>5. CASE ConfirmEnd
  BY <1>1, <1>5 DEF ConfirmEnd, history, Kinds
<1>6. ASSUME NEW ids, NEW then, Drop(ids, then)
      PROVE  /\ UNCHANGED <<run, server, losses, page, query, history>> /\ ContentShown
             /\ \E k \in Kinds \ {"submit"} : \E r : Send(k, r) /\ r.at = "sent"
  <2> DEFINE r0 == [Request EXCEPT !.ids = ids, !.then = then]
  <2>1. Send("drop", r0) /\ r0.at = "sent"
    BY <1>6, DropSends
  <2>2. UNCHANGED <<run, server, losses, page, query, local, history>> /\ ContentShown
    BY <1>6, DropSends
  <2> HIDE DEF r0
  <2> QED
    BY <2>1, <2>2 DEF history, Kinds
<1>7. CASE DropHere
  BY <1>6, <1>7 DEF DropHere, history
<1>8. CASE DropAllAtSchool
  BY <1>6, <1>8 DEF DropAllAtSchool, history
<1>9. CASE DropRemaining
  <2>1. CASE Remaining # {}
    BY <1>6, <1>9, <2>1 DEF DropRemaining, history
  <2>2. CASE Remaining = {}
    BY <1>1, <1>9, <2>2 DEF DropRemaining, Usable, history, Kinds
  <2> QED
    BY <2>1, <2>2
<1> QED
  BY <1>2, <1>3, <1>4, <1>5, <1>7, <1>8, <1>9 DEF Taps

LEMMA SendKeepsDue ==
  ASSUME TypeOK, NEW k \in Kinds, NEW r, Send(k, r)
  PROVE  Due => Due'
<1>1. req \in [Kinds -> ReqType]
  BY TypeParts DEF ReqsTyped
<1> QED
  BY <1>1 DEF Due, Send

LEMMA TapGoes ==
  ASSUME TypeOK, losses' = 0, Taps
  PROVE  losses = 0 /\ Goes
<1>1. UNCHANGED <<server, losses, page, query>>
  BY TapSends
<1>2. Due => Due'
  <2>1. OnSubmitStop => \E r : Send("submit", r)
    BY DEF OnSubmitStop
  <2>2. req' = req \/ \E k \in Kinds : \E r : Send(k, r)
    BY <2>1, TapSends DEF Kinds
  <2> QED
    BY <2>2, SendKeepsDue DEF Due
<1> QED
  BY <1>1, <1>2, StillGoes DEF server

\* A mutation settles: the page learns of it, or it had failed.
LEMMA SettleGoes ==
  ASSUME TypeOK, losses' = 0, SettleMutation
  PROVE  losses = 0 /\ (Learns \/ Goes)
<1>1. req \in [Kinds -> ReqType]
  BY TypeParts DEF ReqsTyped
<1>2. losses' = losses
  BY DEF SettleMutation, StartSettles, SubmitSettles, DropSettles, EndSettles, Fails
<1>3. CASE StartSettles \/ SubmitSettles \/ DropSettles
  BY <1>2, <1>3 DEF StartSettles, SubmitSettles, DropSettles, Settles, Learns, Due, server, Kinds
<1>4. CASE EndSettles
  BY <1>2, <1>4 DEF EndSettles, Settles, Learns, Due, server, Kinds
<1>5. ASSUME NEW k \in Kinds, Fails(k) PROVE losses = 0 /\ Goes
  <2>1. Due => Due'
    BY <1>1, <1>5 DEF Fails, Settles, Gone, Due
  <2>2. query' = query /\ page' = page /\ UNCHANGED <<trip, att>>
    BY <1>5 DEF Fails, server
  <2> QED
    BY <1>2, <2>1, <2>2, StillGoes
<1> QED
  BY <1>3, <1>4, <1>5 DEF SettleMutation

\* While nothing is lost, that is every step.
LEMMA EveryStep ==
  ASSUME TypeOK, NoFail, [Next]_vars, losses' = 0
  PROVE  losses = 0 /\ (Learns \/ Goes)
<1>1. CASE UNCHANGED vars
  <2>1. UNCHANGED <<losses, query, page, trip, att, req>>
    BY <1>1 DEF vars, server
  <2> QED
    BY <2>1, StillGoes DEF Due
<1>2. CASE Serve
  BY <1>2, ServeGoes
<1>3. CASE SettleMutation
  BY <1>3, SettleGoes
<1>4. CASE \E q \in Queries : ServeQuery(q) \/ QuerySettles(q)
  BY <1>4, QueryGoes
<1>5. CASE (\E k \in Kinds : Lose(k)) \/ Others
  BY <1>5, OutsideGoes
<1>6. CASE (\E old \in BOOLEAN : Open(old) \/ Back(old)) \/ Retry
  BY <1>6, PageGoes
<1>7. CASE Taps
  BY <1>7, TapGoes
<1> QED
  BY <1>1, <1>2, <1>3, <1>4, <1>5, <1>6, <1>7 DEF Next, Taps, Others

LEMMA ForeignStays == [Next]_vars => (foreign' = foreign /\ ~Others) \/ foreign'
<1> SUFFICES ASSUME [Next]_vars, ~Others PROVE foreign' = foreign
  BY DEF Others, MarkAbsent, CancelTrip
<1>1. Taps => foreign' = foreign
  BY TapSends
<1>2. \/ Serve \/ SettleMutation
      \/ (\E k \in Kinds : Lose(k))
      \/ (\E q \in Queries : ServeQuery(q) \/ QuerySettles(q))
      \/ (\E old \in BOOLEAN : Open(old) \/ Back(old)) \/ Retry \/ UNCHANGED vars
      => foreign' = foreign
  BY DEF Serve, ServeStart, ServeSubmit, ServeDrop, ServeEnd, SettleMutation, StartSettles,
     SubmitSettles, DropSettles, EndSettles, Fails, Lose, ServeQuery, QuerySettles, Open, Back,
     Retry, vars, history
<1> QED
  BY <1>1, <1>2 DEF Next, Taps, Others

\* A mark once lost stays on the record.
LEMMA MissedStays == [Next]_vars /\ missed => missed'
<1> SUFFICES ASSUME [Next]_vars, missed PROVE missed'
  OBVIOUS
<1>1. Taps => missed' = missed
  BY TapSends
<1>2. StartSettles \/ SubmitSettles \/ DropSettles \/ EndSettles => InvalidateTrip
  BY DEF StartSettles, SubmitSettles, DropSettles, EndSettles
<1>3. \/ Serve \/ (\E k \in Kinds : Lose(k) \/ Fails(k))
      \/ (\E q \in Queries : ServeQuery(q) \/ QuerySettles(q))
      \/ (\E s \in Students : MarkAbsent(s)) \/ CancelTrip
      \/ (\E old \in BOOLEAN : Open(old) \/ Back(old)) \/ Retry \/ UNCHANGED vars
      => missed' = missed
  BY DEF Serve, ServeStart, ServeSubmit, ServeDrop, ServeEnd, Fails, Lose, ServeQuery,
     QuerySettles, MarkAbsent, CancelTrip, Open, Back, Retry, vars, history
<1>4. InvalidateTrip => missed'
  BY DEF InvalidateTrip
<1> QED
  BY <1>1, <1>2, <1>3, <1>4 DEF Next, Taps, SettleMutation

-----------------------------------------------------------------------------
(* The status shown *)

\* What is shown of a query in use came with an answer that nothing voided.
Shown ==
  losses = 0 => \A q \in Queries :
    Mounted(q, page) /\ query[q].at = "idle" => query[q].has /\ ~query[q].invalid

\* Every entry in use has, or will fetch, what the server would answer now,
\* unless the page has still to learn of a mutation; and of the queries not in
\* use, as long as no mark was lost.
Fresh(q) == losses = 0 /\ ~foreign /\ (missed => Mounted(q, "today")) => Due \/ Holds(query[q], {Answer(q)})

QueryInv == TypeOK /\ NoFail /\ Shown

LEMMA InitQuery == Init => QueryInv /\ \A q \in Queries : Fresh(q)
<1> SUFFICES ASSUME Init PROVE QueryInv /\ \A q \in Queries : Fresh(q)
  OBVIOUS
<1>1. /\ query["trip"].at = "sent" /\ query["trip"].ok /\ ~query["trip"].error
      /\ \A q \in Queries \ {"trip"} : query[q] = NoQuery
      /\ page = "today"
  BY DEF Init, Queries, Fetch, NoQuery
<1>2. NoFail /\ Shown
  BY <1>1 DEF NoFail, Shown, Mounted, NoQuery
<1>3. \A q \in Queries : Fresh(q)
  BY <1>1 DEF Fresh, Holds, NoQuery
<1> QED
  BY <1>2, <1>3, InitTyped DEF QueryInv

LEMMA NextQuery == QueryInv /\ [Next]_vars => QueryInv'
<1> SUFFICES ASSUME QueryInv, [Next]_vars PROVE QueryInv'
  OBVIOUS
<1>1. TypeOK' /\ query \in [Queries -> QueryType]
  BY NextTyped, TypeParts DEF QueryInv, QueriesTyped
<1>2. ASSUME losses' = 0
      PROVE  /\ \A q \in Queries : query'[q].ok /\ ~query'[q].error
             /\ \A q \in Queries : Mounted(q, page') /\ query'[q].at = "idle" =>
                  query'[q].has /\ ~query'[q].invalid
  <2>1. losses = 0 /\ (Learns \/ Goes)
    BY <1>2, EveryStep DEF QueryInv
  <2>2. \A q \in Queries : /\ query[q].ok /\ ~query[q].error
                           /\ Mounted(q, page) /\ query[q].at = "idle" => query[q].has /\ ~query[q].invalid
    BY <2>1 DEF QueryInv, NoFail, Shown
  <2>3. CASE Learns
    <3>1. ASSUME NEW q \in Queries PROVE query'[q].ok /\ ~query'[q].error
      BY <1>1, <2>2, <2>3 DEF Learns, InvalidateTrip, Fetch, QueryType
    <3>2. ASSUME NEW q \in Queries, Mounted(q, page') PROVE query'[q].at = "sent"
      <4>1. Mounted(q, page)
        BY <2>3, <3>2 DEF Learns, Mounted
      <4>2. query'[q] = Fetch(query[q])
        BY <2>3, <4>1 DEF Learns, InvalidateTrip
      <4> QED
        BY <1>1, <4>2 DEF Fetch, QueryType
    <3> QED
      BY <3>1, <3>2
  <2>4. CASE Goes
    <3>1. ASSUME NEW q \in Queries
          PROVE  /\ query'[q].ok /\ ~query'[q].error
                 /\ Mounted(q, page') /\ query'[q].at = "idle" => query'[q].has /\ ~query'[q].invalid
      <4>1. query[q] \in QueryType /\ Moves(query[q], query'[q], Answer(q))
        BY <1>1, <2>4 DEF Goes
      <4>2. CASE query'[q] = query[q]
        BY <2>2, <2>4, <4>2 DEF Goes
      <4>3. CASE query'[q] = Fetch(query[q])
        BY <2>2, <4>1, <4>3 DEF Fetch, QueryType
      <4>4. CASE query'[q] = [query[q] EXCEPT !.at = "replied", !.got = Answer(q)]
        BY <2>2, <4>1, <4>4 DEF QueryType
      <4>5. CASE query'[q] = [NoQuery EXCEPT !.has = TRUE, !.data = query[q].got]
        BY <4>5 DEF NoQuery
      <4> QED
        BY <4>1, <4>2, <4>3, <4>4, <4>5 DEF Moves
    <3> QED
      BY <3>1
  <2> QED
    BY <2>1, <2>3, <2>4
<1>3. NoFail' /\ Shown'
  BY <1>2 DEF NoFail, Shown, Mounted
<1> QED
  BY <1>1, <1>3 DEF QueryInv

\* A query that is in use or not in flight when the page learns, is fetched anew
\* or marked.
LEMMA LearnsHolds ==
  ASSUME TypeOK, Learns, NEW q \in Queries, Mounted(q, page) \/ query[q].at = "idle", NEW G
  PROVE  Holds(query'[q], G)
<1>1. query[q] \in QueryType
  BY TypeParts DEF QueriesTyped
<1>2. CASE Mounted(q, page)
  BY <1>1, <1>2 DEF Learns, InvalidateTrip, Fetch, Holds, QueryType
<1>3. CASE ~Mounted(q, page)
  BY <1>1, <1>3 DEF Learns, InvalidateTrip, Holds, QueryType
<1> QED
  BY <1>2, <1>3

\* Unless a mark is lost, a query in flight when the page learns is one in use.
LEMMA LearnsInUse ==
  ASSUME Learns, NEW q \in Queries, missed' => Mounted(q, "today")
  PROVE  Mounted(q, page) \/ query[q].at = "idle"
BY DEF Learns, InvalidateTrip, Mounted

LEMMA NextFresh ==
  ASSUME QueryInv, [Next]_vars, NEW q \in Queries, Fresh(q)
  PROVE  Fresh(q)'
<1> SUFFICES ASSUME losses' = 0, ~foreign', missed' => Mounted(q, "today"), ~Due'
             PROVE Holds(query[q], {Answer(q)})'
  BY DEF Fresh, Mounted
<1>1. query \in [Queries -> QueryType] /\ TripTyped
  BY TypeParts DEF QueryInv, QueriesTyped
<1>2. /\ losses = 0 /\ ~foreign /\ (missed => Mounted(q, "today"))
      /\ ~Others /\ (Learns \/ Goes)
  BY EveryStep, ForeignStays, MissedStays DEF QueryInv
<1>3. CASE Learns
  <2>1. \A G : Holds(query'[q], G)
    BY <1>3, LearnsHolds, LearnsInUse DEF QueryInv
  <2> QED
    BY <2>1 DEF Holds
<1>4. CASE Goes
  <2>1. ~Due /\ UNCHANGED <<trip, att>> /\ Moves(query[q], query'[q], Answer(q))
    BY <1>2, <1>4 DEF Goes
  <2>2. Holds(query[q], {Answer(q)}) /\ Answer(q)' = Answer(q)
    BY <1>2, <2>1 DEF Fresh, Answer
  <2>3. Holds(query'[q], {Answer(q)})
    BY <1>1, <2>1, <2>2, MoveHolds
  <2> QED
    BY <2>2, <2>3 DEF Holds
<1> QED
  BY <1>2, <1>3, <1>4

\* Once everything is answered, what is shown is what the server would answer.
LEMMA FreshShown ==
  ASSUME QueryInv, NEW q \in Queries, Fresh(q), AtRest, ContentShown, losses = 0, ~foreign,
         missed => Mounted(q, "today")
  PROVE  query[q].data = Answer(q)
<1>1. ~Due /\ query[q].at = "idle" /\ Mounted(q, page)
  BY DEF AtRest, Refetching, ContentShown, Due, Mounted
<1>2. query[q].has /\ ~query[q].invalid
  BY <1>1 DEF QueryInv, Shown
<1> QED
  BY <1>1, <1>2 DEF Fresh, Holds

\* Wherever the driver goes meanwhile, and whether or not a mark was lost: once everything is answered, the page shows the status of the trip and shares
\* the location exactly while the trip runs. (useTrip, useGeoBroadcast)
StatusShown ==
  AtRest /\ ContentShown /\ losses = 0 /\ ~foreign =>
    Status = trip /\ (IsRunning <=> trip = "in_progress")

THEOREM StatusAlwaysShown == Spec => []StatusShown
<1> DEFINE Inv == QueryInv /\ Fresh("trip")
<1>1. Init => Inv
  BY InitQuery DEF Queries
<1>2. Inv /\ [Next]_vars => Inv'
  BY NextQuery, NextFresh DEF Queries, Mounted
<1>3. Inv => StatusShown
  <2> SUFFICES ASSUME Inv, AtRest, ContentShown, losses = 0, ~foreign
               PROVE  Status = trip /\ (IsRunning <=> trip = "in_progress")
    BY DEF StatusShown
  <2>1. query["trip"].data.trip = trip
    BY FreshShown, AnswerFields, TypeParts DEF QueryInv, Queries, Mounted
  <2> QED
    BY <2>1 DEF Status, IsRunning, ContentShown
<1> QED
  BY <1>1, <1>2, <1>3, PTL DEF Spec

\* Once everything is answered, the page shows the trip and the roster as its own
\* actions left them, and shares the location exactly while the trip runs, unless
\* a mutation was answered while a query not in use was in flight, which loses
\* the mark that the query is void. (invalidateTrip, useQuery)
THEOREM OwnActionsShown == Spec => []PageShowsItsOwnActions
<1> DEFINE Inv == QueryInv /\ Fresh("trip") /\ Fresh("roster")
<1>1. Init => Inv
  BY InitQuery DEF Queries
<1>2. Inv /\ [Next]_vars => Inv'
  BY NextQuery, NextFresh DEF Queries
<1>3. Inv => PageShowsItsOwnActions
  <2> SUFFICES ASSUME Inv, AtRest, ContentShown, losses = 0, ~foreign, ~missed
               PROVE  Status = trip /\ Roster = att /\ (IsRunning <=> trip = "in_progress")
    BY DEF PageShowsItsOwnActions
  <2>1. query["trip"].data.trip = trip /\ query["roster"].data.roster = att
    BY FreshShown, AnswerFields, TypeParts DEF QueryInv, Queries
  <2> QED
    BY <2>1 DEF Status, Roster, IsRunning, ContentShown
<1> QED
  BY <1>1, <1>2, <1>3, PTL DEF Spec

-----------------------------------------------------------------------------
(* What is recorded *)

\* Before the departure nothing is marked, and no page was ever told otherwise.
Sched ==
  trip = "scheduled" =>
    /\ \A s \in Students : att[s] \notin Marks
    /\ query["trip"].got.trip \notin Active /\ query["trip"].data.trip \notin Active
    /\ req["submit"].at = "none"

\* The marks that an answer about the roster tells are the recorded ones.
TrueMarks == {d \in Datas : \A s \in Students : d.roster[s] \in Marks => d.roster[s] = att[s]}
RosterInv == losses = 0 /\ ~missed => Due \/ Holds(query["roster"], TrueMarks)

\* Once the trip began, or the page was told so, every absence announced is told.
Excused == {s \in Students : att[s] = "absent_parent_marked"}
Begun ==
  \/ trip \notin {"scheduled", "cancelled"}
  \/ query["trip"].got.trip \in Active
  \/ query["trip"].data.trip \in Active
AllExcused == {d \in Datas : Excused \subseteq d.absences}
AbsencesInv == losses = 0 /\ ~missed /\ Begun => Due \/ Holds(query["absences"], AllExcused)

\* A stop sent says what the driver said last, of nobody excused, and leaves out
\* only those recorded so already; but for children named too early.
SubmitInv ==
  losses = 0 /\ ~missed /\ req["submit"].at = "sent" => \A s \in Students \ early :
    LET e == req["submit"].entries[s] IN
      /\ e # "none" => e = said[s] /\ att[s] # "absent_parent_marked"
      /\ e = "none" /\ att[s] \in Marks => att[s] = said[s]

RecordInv == QueryInv /\ Sched /\ RosterInv /\ AbsencesInv /\ SubmitInv /\ RecordedAsSaid

\* What a step may do to the stop sent, the marks recorded and the driver's word
LEMMA SubmitStep ==
  ASSUME TypeOK, [Next]_vars
  PROVE  \/ OnSubmitStop
         \/ ServeSubmit
         \/ /\ UNCHANGED <<said, early>>
            /\ att' = att \/ \E s \in Students : MarkAbsent(s)
            /\ \/ req'["submit"].at = req["submit"].at /\ req'["submit"].entries = req["submit"].entries
               \/ req["submit"].at \in {"ok", "error"} /\ req'["submit"].at = "none"
               \/ req["submit"].at = "sent" /\ losses' = losses + 1
<1>1. req \in [Kinds -> ReqType]
  BY TypeParts DEF ReqsTyped
<1> DEFINE Same == /\ UNCHANGED <<said, early, att>>
                   /\ req'["submit"].at = req["submit"].at /\ req'["submit"].entries = req["submit"].entries
<1>2. ASSUME NEW k \in Kinds \ {"submit"}, NEW ok, Answers(k, ok)
      PROVE  req'["submit"] = req["submit"]
  BY <1>1, <1>2 DEF Answers, Kinds
<1>3. CASE ServeStart
  BY <1>2, <1>3 DEF ServeStart, history, Kinds
<1>4. CASE ServeDrop
  BY <1>2, <1>4 DEF ServeDrop, history, Kinds
<1>5. CASE ServeEnd
  BY <1>2, <1>5 DEF ServeEnd, history, Kinds
<1>6. CASE StartSettles
  BY <1>1, <1>6 DEF StartSettles, Gone, server, history, Kinds
<1>7. CASE SubmitSettles
  BY <1>1, <1>7 DEF SubmitSettles, Settles, Gone, NoReq, server, history, Kinds
<1>8. CASE DropSettles
  BY <1>1, <1>8 DEF DropSettles, Gone, server, history, Kinds
<1>9. CASE EndSettles
  <2>1. Gone("end")["submit"] = req["submit"] /\ req["submit"] \in ReqType
    BY <1>1 DEF Gone, Kinds
  <2>2. req'["submit"] = req["submit"] \/ req'["submit"] = [req["submit"] EXCEPT !.mine = FALSE]
    BY <1>9, <2>1 DEF EndSettles, Kinds
  <2>3. req'["submit"].at = req["submit"].at /\ req'["submit"].entries = req["submit"].entries
    BY <2>1, <2>2 DEF ReqType
  <2> QED
    BY <1>9, <2>3 DEF EndSettles, server, history
<1>10. ASSUME NEW k \in Kinds, Fails(k)
       PROVE  Same \/ (/\ UNCHANGED <<said, early, att>>
                       /\ req["submit"].at \in {"ok", "error"} /\ req'["submit"].at = "none")
  BY <1>1, <1>10 DEF Fails, Settles, Gone, NoReq, server, history, Kinds
<1>11. ASSUME NEW k \in Kinds, Lose(k)
       PROVE  Same \/ (/\ UNCHANGED <<said, early, att>>
                       /\ req["submit"].at = "sent" /\ losses' = losses + 1)
  BY <1>1, <1>11 DEF Lose, server, history, Kinds
<1>12. CASE \/ \E q \in Queries : ServeQuery(q) \/ QuerySettles(q)
            \/ (\E s \in Students : MarkAbsent(s)) \/ CancelTrip
            \/ (\E old \in BOOLEAN : Open(old) \/ Back(old)) \/ Retry \/ UNCHANGED vars
  <2>1. /\ req' = req \/ req' = [k \in Kinds |-> [req[k] EXCEPT !.mine = FALSE]]
        /\ UNCHANGED <<said, early>>
        /\ att' = att \/ \E s \in Students : MarkAbsent(s)
    BY <1>12 DEF ServeQuery, QuerySettles, MarkAbsent, CancelTrip, Open, Back, Retry, vars,
       KeepOrDropContent, server, history
  <2>2. req'["submit"].at = req["submit"].at /\ req'["submit"].entries = req["submit"].entries
    BY <1>1, <2>1 DEF ReqType, Kinds
  <2> QED
    BY <2>1, <2>2
<1>13. CASE Taps
  <2>1. CASE \E k \in Kinds \ {"submit"} : \E r : Send(k, r) /\ UNCHANGED <<said, early>>
    BY <1>1, <1>13, <2>1, TapSends DEF Send, server, Kinds
  <2>2. CASE UNCHANGED <<req, said, early>>
    BY <1>13, <2>2, TapSends DEF server
  <2> QED
    BY <1>13, <2>1, <2>2, TapSends
<1> QED
  BY <1>3, <1>4, <1>5, <1>6, <1>7, <1>8, <1>9, <1>10, <1>11, <1>12, <1>13
  DEF Next, Taps, Serve, SettleMutation

\* The page learns the status of the trip only from answers.
LEMMA TripEntry ==
  ASSUME TypeOK, [Next]_vars
  PROVE  /\ query'["trip"].got.trip \in {query["trip"].got.trip, trip, "none"}
         /\ query'["trip"].data.trip \in {query["trip"].data.trip, query["trip"].got.trip}
<1>1. query \in [Queries -> QueryType] /\ "trip" \in Queries /\ TripTyped
  BY TypeParts DEF QueriesTyped, Queries
<1> DEFINE c == query["trip"]
           d == query'["trip"]
<1>2. c \in QueryType
  BY <1>1
<1>3. d = c => d.got.trip = c.got.trip /\ d.data.trip = c.data.trip
  OBVIOUS
<1>4. d = Fetch(c) \/ d = [c EXCEPT !.invalid = TRUE] =>
        d.got.trip \in {c.got.trip, "none"} /\ d.data.trip = c.data.trip
  <2>1. Fetch(c).got = NoData /\ Fetch(c).data = c.data
    BY <1>2 DEF Fetch, QueryType
  <2>2. [c EXCEPT !.invalid = TRUE].got = c.got /\ [c EXCEPT !.invalid = TRUE].data = c.data
    BY <1>2 DEF QueryType
  <2>3. NoData.trip = "none"
    BY DEF NoData
  <2> QED
    BY <2>1, <2>2, <2>3
<1>5. CASE \/ Serve \/ (\E k \in Kinds : Fails(k) \/ Lose(k)) \/ (\E s \in Students : MarkAbsent(s))
           \/ CancelTrip \/ UNCHANGED vars \/ Taps
  <2>1. query' = query
    BY <1>5, TapSends DEF Serve, ServeStart, ServeSubmit, ServeDrop, ServeEnd, Fails, Lose, MarkAbsent,
       CancelTrip, vars
  <2> QED
    BY <2>1
<1>6. CASE StartSettles \/ SubmitSettles \/ DropSettles \/ EndSettles
  <2>1. d = Fetch(c) \/ d = [c EXCEPT !.invalid = TRUE]
    BY <1>1, <1>6 DEF StartSettles, SubmitSettles, DropSettles, EndSettles, InvalidateTrip
  <2> HIDE DEF c, d
  <2> QED
    BY <1>4, <2>1 DEF c, d
<1>7. CASE (\E old \in BOOLEAN : Open(old) \/ Back(old)) \/ Retry
  <2>1. d = c \/ d = Fetch(c)
    BY <1>1, <1>7 DEF Open, Back, Retry, OnMount
  <2> HIDE DEF c, d
  <2> QED
    BY <1>3, <1>4, <2>1 DEF c, d
<1>8. ASSUME NEW q \in Queries, ServeQuery(q) \/ QuerySettles(q)
      PROVE  d.got.trip \in {c.got.trip, trip, "none"} /\ d.data.trip \in {c.data.trip, c.got.trip}
  <2>1. CASE q # "trip"
    <3>1. d = c
      BY <1>1, <1>8, <2>1 DEF ServeQuery, QuerySettles
    <3> QED
      BY <3>1
  <2>2. CASE q = "trip" /\ ServeQuery(q)
    <3>1. d = [c EXCEPT !.at = "replied", !.got = Answer("trip")]
          \/ d = [c EXCEPT !.at = "replied", !.ok = FALSE]
      BY <1>1, <2>2 DEF ServeQuery
    <3>2. d.got \in {c.got, Answer("trip")} /\ d.data = c.data
      BY <1>2, <3>1 DEF QueryType
    <3> QED
      BY <1>1, <3>2, AnswerFields
  <2>3. CASE q = "trip" /\ QuerySettles(q)
    <3>1. d = [NoQuery EXCEPT !.has = TRUE, !.data = c.got]
          \/ d = [c EXCEPT !.at = "idle", !.got = NoData, !.ok = TRUE, !.error = TRUE]
      BY <1>1, <2>3 DEF QuerySettles
    <3>2. d.got = NoData /\ d.data \in {c.got, c.data}
      BY <1>2, <3>1 DEF QueryType, NoQuery
    <3> QED
      BY <3>2 DEF NoData
  <2> QED
    BY <1>8, <2>1, <2>2, <2>3
<1> QED
  BY <1>5, <1>6, <1>7, <1>8 DEF Next, Taps, SettleMutation

\* The trip never returns to scheduled.
LEMMA TripStep == [Next]_vars /\ trip' = "scheduled" => trip = "scheduled"
<1> SUFFICES ASSUME [Next]_vars, trip' # trip PROVE trip' # "scheduled"
  OBVIOUS
<1>1. ~Taps
  BY TapSends DEF server
<1> QED
  BY <1>1 DEF Next, Taps, Serve, ServeStart, ServeSubmit, ServeDrop, ServeEnd, SettleMutation,
     StartSettles, SubmitSettles, DropSettles, EndSettles, Fails, Lose, ServeQuery, QuerySettles,
     MarkAbsent, CancelTrip, Open, Back, Retry, vars, server

LEMMA NextSched == TypeOK /\ Sched /\ [Next]_vars => Sched'
<1> SUFFICES ASSUME TypeOK, Sched, [Next]_vars, trip' = "scheduled"
             PROVE  /\ \A s \in Students : att'[s] \notin Marks
                    /\ query'["trip"].got.trip \notin Active /\ query'["trip"].data.trip \notin Active
                    /\ req'["submit"].at = "none"
  BY DEF Sched
<1>1. /\ \A s \in Students : att[s] \notin Marks
      /\ query["trip"].got.trip \notin Active /\ query["trip"].data.trip \notin Active
      /\ req["submit"].at = "none" /\ trip = "scheduled"
  BY TripStep DEF Sched
<1>2. query'["trip"].got.trip \notin Active /\ query'["trip"].data.trip \notin Active
  BY <1>1, TripEntry DEF Active
<1>3. ~OnSubmitStop /\ ~ServeSubmit
  BY <1>1 DEF OnSubmitStop, Usable, Status, ServeSubmit
<1>4. /\ att' = att \/ \E s \in Students : MarkAbsent(s)
      /\ req'["submit"].at = "none"
  BY <1>1, <1>3, SubmitStep
<1>5. att \in [Students -> Recorded]
  BY TypeParts DEF TripTyped
<1>6. \A s \in Students : att'[s] \notin Marks
  BY <1>1, <1>4, <1>5 DEF MarkAbsent, Marks
<1> QED
  BY <1>2, <1>4, <1>6

LEMMA NextRoster ==
  ASSUME QueryInv, Sched, RosterInv, [Next]_vars
  PROVE  RosterInv'
<1> SUFFICES ASSUME losses' = 0, ~missed', ~Due' PROVE Holds(query["roster"], TrueMarks)'
  BY DEF RosterInv
<1>1. query \in [Queries -> QueryType] /\ TripTyped /\ "roster" \in Queries
  BY TypeParts DEF QueryInv, QueriesTyped, Queries
<1>2. losses = 0 /\ ~missed /\ (Learns \/ Goes)
  BY EveryStep, MissedStays DEF QueryInv
<1>3. CASE Learns
  <2>1. \A G : Holds(query'["roster"], G)
    BY <1>1, <1>3, LearnsHolds, LearnsInUse DEF QueryInv
  <2> QED
    BY <2>1 DEF Holds
<1>4. CASE Goes
  <2>1. /\ ~Due /\ Moves(query["roster"], query'["roster"], Answer("roster"))
        /\ UNCHANGED <<trip, att>> \/ Others
    BY <1>1, <1>4 DEF Goes
  <2>2. Holds(query["roster"], TrueMarks)
    BY <1>2, <2>1 DEF RosterInv
  <2>3. att' = att \/ \A s \in Students : att[s] \notin Marks
    BY <2>1 DEF Others, MarkAbsent, CancelTrip, Sched
  <2>4. TrueMarks \subseteq TrueMarks'
    BY <2>3 DEF TrueMarks
  <2>5. Answer("roster") \in TrueMarks'
    <3>1. Answer("roster") \in Datas /\ Answer("roster").roster = att
      BY <1>1, AnswerTyped, AnswerFields
    <3> QED
      BY <2>3, <3>1 DEF TrueMarks
  <2> DEFINE G == TrueMarks
             H == TrueMarks'
  <2>6. Holds(query["roster"], G) /\ G \subseteq H /\ Answer("roster") \in H
    BY <2>2, <2>4, <2>5
  <2> HIDE DEF G, H
  <2>7. Holds(query'["roster"], H)
    BY <1>1, <2>1, <2>6, MoveHolds
  <2> QED
    BY <2>7 DEF Holds, H
<1> QED
  BY <1>2, <1>3, <1>4

LEMMA NextAbsences ==
  ASSUME QueryInv, Sched, AbsencesInv, [Next]_vars
  PROVE  AbsencesInv'
<1> SUFFICES ASSUME losses' = 0, ~missed', Begun', ~Due' PROVE Holds(query["absences"], AllExcused)'
  BY DEF AbsencesInv
<1>1. query \in [Queries -> QueryType] /\ TripTyped /\ "absences" \in Queries /\ TypeOK
  BY TypeParts DEF QueryInv, QueriesTyped, Queries
<1>2. losses = 0 /\ ~missed /\ (Learns \/ Goes)
  BY EveryStep, MissedStays DEF QueryInv
<1>3. CASE Learns
  <2>1. \A G : Holds(query'["absences"], G)
    BY <1>1, <1>3, LearnsHolds, LearnsInUse DEF QueryInv
  <2> QED
    BY <2>1 DEF Holds
<1>4. CASE Goes
  <2>1. /\ ~Due /\ Moves(query["absences"], query'["absences"], Answer("absences"))
        /\ UNCHANGED <<trip, att>> \/ Others
    BY <1>1, <1>4 DEF Goes
  <2>2. Begun
    <3>1. CASE trip' \notin {"scheduled", "cancelled"}
      BY <2>1, <3>1 DEF Others, MarkAbsent, CancelTrip, Begun
    <3>2. CASE query'["trip"].got.trip \in Active \/ query'["trip"].data.trip \in Active
      BY <1>1, <3>2, TripEntry DEF Begun, Active
    <3> QED
      BY <3>1, <3>2 DEF Begun
  <2>3. att' = att
    BY <2>1, <2>2 DEF Others, MarkAbsent, CancelTrip, Sched, Begun
  <2>4. AllExcused' = AllExcused
    BY <2>3 DEF AllExcused, Excused
  <2>5. Holds(query["absences"], AllExcused)
    BY <1>2, <2>1, <2>2 DEF AbsencesInv
  <2>6. Answer("absences") \in AllExcused
    BY <1>1, AnswerTyped, AnswerFields DEF AllExcused, Excused
  <2>7. Holds(query'["absences"], AllExcused)
    BY <1>1, <2>1, <2>5, <2>6, MoveHolds
  <2> QED
    BY <2>4, <2>7 DEF Holds
<1> QED
  BY <1>2, <1>3, <1>4

\* What is submitted once everything is answered
LEMMA SubmitSays ==
  ASSUME RecordInv, OnSubmitStop, AtRest, losses = 0, ~missed, NEW s \in Students \ early
  PROVE  LET e == req'["submit"].entries[s] IN
         /\ e # "none" => e = said'[s] /\ att[s] # "absent_parent_marked"
         /\ e = "none" /\ att[s] \in Marks => att[s] = said'[s]
<1>1. /\ query \in [Queries -> QueryType] /\ req \in [Kinds -> ReqType] /\ att \in [Students -> Recorded]
      /\ marks \in [Students -> Marks \cup {"none"}]
  BY TypeParts DEF RecordInv, QueryInv, QueriesTyped, ReqsTyped, TripTyped, PageTyped
<1>2. ~Due /\ req["submit"].at # "sent"
  BY DEF AtRest, Due, Kinds
<1>3. \A q \in Queries : query[q].at = "idle" /\ query[q].has /\ ~query[q].invalid
  <2>1. \A q \in Queries : query[q].at = "idle" /\ Mounted(q, page)
    BY DEF OnSubmitStop, Usable, AtRest, Refetching, ContentShown, Mounted
  <2> QED
    BY <2>1 DEF RecordInv, QueryInv, Shown
<1>4. Roster[s] \in Marks => Roster[s] = att[s]
  BY <1>2, <1>3 DEF RecordInv, RosterInv, Holds, TrueMarks, Roster, Queries
<1>5. att[s] = "absent_parent_marked" => s \in AbsentIds
  <2>1. Begun
    BY DEF OnSubmitStop, Usable, Status, Begun
  <2>2. query["absences"].data \in AllExcused
    BY <1>2, <1>3, <2>1 DEF RecordInv, AbsencesInv, Holds, Queries
  <2> QED
    BY <2>2 DEF AllExcused, Excused, AbsentIds
<1>6. att[s] \in Marks => att[s] = said[s]
  BY <1>2 DEF RecordInv, RecordedAsSaid
<1> DEFINE E == [t \in Students |-> IF t \notin Toggleable THEN "none"
                           ELSE IF EffectiveMark(t) = "boarded" THEN "boarded" ELSE "absent"]
<1>7. req'["submit"].entries = E
  <2>1. req'["submit"] = [Request EXCEPT !.entries = E]
    BY <1>1 DEF OnSubmitStop, Send, Kinds
  <2> HIDE DEF E
  <2> QED
    BY <2>1 DEF Request, NoReq
<1>8. said'[s] = IF s \in Toggleable /\ marks[s] # "none" THEN marks[s] ELSE said[s]
  BY DEF OnSubmitStop
<1>9. CASE s \notin Toggleable
  <2>1. E[s] = "none" /\ said'[s] = said[s]
    BY <1>8, <1>9
  <2> QED
    BY <1>6, <1>7, <2>1
<1>10. CASE s \in Toggleable
  <2>1. EffectiveMark(s) # "none" /\ att[s] # "absent_parent_marked"
    BY <1>5, <1>10 DEF OnSubmitStop, AllMarked, Toggleable
  <2>2. EffectiveMark(s) \in Marks
    BY <1>1, <2>1 DEF EffectiveMark
  <2>3. E[s] = EffectiveMark(s)
    BY <1>10, <2>2 DEF Marks
  <2>4. EffectiveMark(s) = said'[s]
    <3>1. CASE marks[s] # "none"
      BY <1>8, <1>10, <3>1 DEF EffectiveMark
    <3>2. CASE marks[s] = "none"
      <4>1. EffectiveMark(s) = Roster[s] /\ Roster[s] \in Marks
        BY <2>1, <3>2 DEF EffectiveMark
      <4> QED
        BY <1>4, <1>6, <1>8, <3>2, <4>1
    <3> QED
      BY <3>1, <3>2
  <2> QED
    BY <1>7, <2>1, <2>2, <2>3, <2>4 DEF Marks
<1> QED
  BY <1>9, <1>10

\* What is submitted before that names only children who are then on the record
\* as named early.
LEMMA SubmitEarly ==
  ASSUME RecordInv, OnSubmitStop, ~AtRest, losses = 0, ~missed, NEW s \in Students \ early'
  PROVE  LET e == req'["submit"].entries[s] IN
         /\ e = "none"
         /\ att[s] \in Marks => att[s] = said'[s]
<1>1. req \in [Kinds -> ReqType]
  BY TypeParts DEF RecordInv, QueryInv, ReqsTyped
<1>2. s \notin Toggleable /\ s \notin early
  BY DEF OnSubmitStop
<1>3. said'[s] = said[s]
  BY <1>2 DEF OnSubmitStop
<1>4. att[s] \in Marks => att[s] = said[s]
  BY <1>2 DEF RecordInv, RecordedAsSaid, OnSubmitStop, Send
<1> DEFINE E == [t \in Students |-> IF t \notin Toggleable THEN "none"
                           ELSE IF EffectiveMark(t) = "boarded" THEN "boarded" ELSE "absent"]
<1>5. E[s] = "none"
  BY <1>2
<1>6. req'["submit"].entries = E
  <2>1. req'["submit"] = [Request EXCEPT !.entries = E]
    BY <1>1 DEF OnSubmitStop, Send, Kinds
  <2> HIDE DEF E
  <2> QED
    BY <2>1 DEF Request, NoReq
<1> QED
  BY <1>3, <1>4, <1>5, <1>6

\* The server records what was said of those the stop names, and leaves the rest.
LEMMA ServeSays ==
  ASSUME TypeOK, SubmitInv, ServeSubmit, losses = 0, ~missed, NEW s \in Students \ early
  PROVE  /\ att'[s] \in Marks => att'[s] = said[s]
         /\ att[s] = "absent_parent_marked" => att'[s] = att[s]
<1>1. att'[s] = IF req["submit"].entries[s] # "none" THEN req["submit"].entries[s] ELSE att[s]
  BY DEF ServeSubmit
<1> QED
  BY <1>1 DEF SubmitInv, ServeSubmit

LEMMA NextSaid ==
  ASSUME RecordInv, [Next]_vars
  PROVE  SubmitInv' /\ RecordedAsSaid'
<1>1. TypeOK /\ losses \in Nat /\ req \in [Kinds -> ReqType] /\ att \in [Students -> Recorded]
  BY TypeParts, LossesNatural DEF RecordInv, QueryInv, LossesTyped, ReqsTyped, TripTyped
<1>2. /\ losses' = 0 => losses = 0
      /\ missed => missed'
  BY <1>1, EveryStep, MissedStays DEF RecordInv, QueryInv
<1>3. CASE OnSubmitStop
  <2>1. req'["submit"].at = "sent" /\ att' = att /\ losses' = losses
    BY <1>1, <1>3 DEF OnSubmitStop, Send, Request, NoReq, server, Kinds
  <2>2. RecordedAsSaid'
    BY <2>1 DEF RecordedAsSaid
  <2>3. early' = IF AtRest THEN early ELSE early \cup Toggleable
    BY <1>3 DEF OnSubmitStop
  <2>4. SubmitInv'
    <3>1. CASE AtRest
      BY <1>2, <1>3, <2>1, <2>3, <3>1, SubmitSays DEF SubmitInv
    <3>2. CASE ~AtRest
      BY <1>2, <1>3, <2>1, <3>2, SubmitEarly DEF SubmitInv
    <3> QED
      BY <3>1, <3>2
  <2> QED
    BY <2>2, <2>4
<1>4. CASE ServeSubmit
  <2>1. UNCHANGED <<said, early, missed>>
    BY <1>4 DEF ServeSubmit, history
  <2>2. losses' = 0 => req'["submit"].at # "sent"
    <3>1. CASE req' = [req EXCEPT !["submit"] = [req["submit"] EXCEPT !.at = "ok"]]
      BY <1>1, <3>1 DEF ReqType, Kinds
    <3>2. CASE losses' = losses + 1
      BY <1>1, <3>2
    <3> QED
      BY <1>4, <3>1, <3>2 DEF ServeSubmit, Answers
  <2>3. losses' = 0 /\ ~missed' => \A s \in Students \ early : att'[s] \in Marks => att'[s] = said'[s]
    BY <1>1, <1>2, <1>4, <2>1, ServeSays DEF RecordInv
  <2> QED
    BY <2>1, <2>2, <2>3 DEF SubmitInv, RecordedAsSaid
<1>5. CASE /\ UNCHANGED <<said, early>>
           /\ att' = att \/ \E s \in Students : MarkAbsent(s)
           /\ \/ req'["submit"].at = req["submit"].at /\ req'["submit"].entries = req["submit"].entries
              \/ req["submit"].at \in {"ok", "error"} /\ req'["submit"].at = "none"
              \/ req["submit"].at = "sent" /\ losses' = losses + 1
  <2>1. losses' = 0 => ~(req["submit"].at = "sent" /\ losses' = losses + 1)
    BY <1>1
  <2>2. \A s \in Students : att'[s] \in Marks => att'[s] = att[s]
    BY <1>1, <1>5 DEF MarkAbsent, Marks
  <2>3. RecordedAsSaid'
    <3> SUFFICES ASSUME losses' = 0, ~missed', req'["submit"].at # "sent",
                        NEW s \in Students, att'[s] \in Marks
                 PROVE  att'[s] = said'[s] \/ s \in early'
      BY DEF RecordedAsSaid
    <3>1. req["submit"].at # "sent"
      BY <1>5, <2>1
    <3> QED
      BY <1>2, <1>5, <2>2, <3>1 DEF RecordInv, RecordedAsSaid
  <2>4. SubmitInv'
    <3> SUFFICES ASSUME losses' = 0, ~missed', req'["submit"].at = "sent" PROVE SubmitInv'
      BY DEF SubmitInv
    <3>1. req'["submit"].at = req["submit"].at /\ req'["submit"].entries = req["submit"].entries
      BY <1>5, <2>1
    <3>2. att' = att
      BY <1>5, <3>1 DEF RecordInv, Sched, MarkAbsent
    <3> QED
      BY <1>2, <1>5, <3>1, <3>2 DEF RecordInv, SubmitInv
  <2> QED
    BY <2>3, <2>4
<1> QED
  BY <1>1, <1>3, <1>4, <1>5, SubmitStep

LEMMA InitRecord == Init => RecordInv
<1> SUFFICES ASSUME Init PROVE RecordInv
  OBVIOUS
<1>1. req["submit"].at = "none" /\ att = NoMarks
  BY DEF Init, NoReq, Kinds
<1>2. query["trip"].got = NoData /\ query["trip"].data = NoData
  BY DEF Init, Queries, Fetch, NoQuery
<1>3. Sched
  BY <1>1, <1>2 DEF Sched, NoMarks, NoData, Marks, Active
<1>4. RosterInv /\ AbsencesInv
  BY DEF Init, RosterInv, AbsencesInv, Holds, NoQuery, Queries
<1>5. SubmitInv /\ RecordedAsSaid
  BY <1>1 DEF SubmitInv, RecordedAsSaid, NoMarks, Marks
<1> QED
  BY <1>3, <1>4, <1>5, InitQuery DEF RecordInv

LEMMA NextRecord == RecordInv /\ [Next]_vars => RecordInv'
BY NextQuery, NextSched, NextRoster, NextAbsences, NextSaid DEF RecordInv, QueryInv

\* However hasty the driver, a child is recorded as the driver last said, unless
\* named in a stop submitted while an answer was still on its way. (marks,
\* effectiveMark, onSubmitStop)
THEOREM RecordsWhatWasSaid == Spec => []RecordedAsSaid
<1>1. Init => RecordInv
  BY InitRecord
<1>2. RecordInv /\ [Next]_vars => RecordInv'
  BY NextRecord
<1>3. RecordInv => RecordedAsSaid
  BY DEF RecordInv
<1> QED
  BY <1>1, <1>2, <1>3, PTL DEF Spec

\* However hasty the driver, an absence that a parent announced is recorded over
\* only for a child named in a stop submitted while an answer was still on its
\* way. (absentIds, toggleable, the refetch at the start of the trip)
THEOREM ExcusesKept == Spec => ExcuseKept
<1>1. Init => RecordInv
  BY InitRecord
<1>2. RecordInv /\ [Next]_vars => RecordInv'
  BY NextRecord
<1>3. RecordInv /\ [Next]_vars =>
        [losses = 0 /\ ~missed => \A s \in Students :
           att[s] = "absent_parent_marked" => att'[s] = att[s] \/ s \in early]_vars
  <2> SUFFICES ASSUME RecordInv, [Next]_vars, losses = 0, ~missed, NEW s \in Students \ early,
                      att[s] = "absent_parent_marked"
               PROVE  att'[s] = att[s]
    OBVIOUS
  <2>1. TypeOK /\ SubmitInv /\ att \in [Students -> Recorded]
    BY TypeParts DEF RecordInv, QueryInv, TripTyped
  <2>2. CASE OnSubmitStop
    BY <2>2 DEF OnSubmitStop, server
  <2>3. CASE ServeSubmit
    BY <2>1, <2>3, ServeSays
  <2>4. CASE att' = att \/ \E t \in Students : MarkAbsent(t)
    BY <2>1, <2>4 DEF MarkAbsent
  <2> QED
    BY <2>1, <2>2, <2>3, <2>4, SubmitStep
<1> QED
  BY <1>1, <1>2, <1>3, PTL DEF Spec, ExcuseKept
=============================================================================
