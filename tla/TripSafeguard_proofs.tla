----------------------- MODULE TripSafeguard_proofs -----------------------
(***************************************************************************)
(* Theorems about TripSafeguard for any students, stops, clients and       *)
(* bounds.                                                                 *)
(***************************************************************************)
EXTENDS TripSafeguard, FiniteSetTheorems, TLAPS

-----------------------------------------------------------------------------
(* Type correctness *)

\* Releasing a request's locals keeps their types.
LEMMA ReleaseType ==
  ASSUME TypeOK, NEW c \in Clients, Release(c)
  PROVE  /\ named' \in [Clients -> SUBSET Students]
         /\ found' \in [Clients -> SUBSET Students]
         /\ entries' \in [Clients -> [Students -> RowStatus]]
         /\ picked' \in [Clients -> SUBSET Alert]
BY DEF TypeOK, Release, NoEntries, RowStatus

\* So does moving a program counter to one of its places.
LEMMA StepType ==
  ASSUME TypeOK, NEW c \in Clients, NEW from, NEW to \in PC, Step(c, from, to)
  PROVE  pc' \in [Clients -> PC]
BY DEF TypeOK, Step

\* Bookkeeping of late boardings and of alerts.
LEMMA NoteLateType ==
  ASSUME TypeOK, NoteLate
  PROVE  late' \in [Clients -> SUBSET Students]
<1>1. Unaccounted' \subseteq Students
  BY DEF Unaccounted
<1> QED
  BY <1>1 DEF TypeOK, NoteLate

LEMMA RaiseType ==
  ASSUME TypeOK, NEW t \in AlertType, NEW S \in SUBSET Students, Raise(t, S)
  PROVE  /\ raised' \in [AlertType -> [Students -> Nat]]
         /\ open' \subseteq Alert
<1>1. raised' \in [AlertType -> [Students -> Nat]]
  BY DEF TypeOK, Raise
<1>2. \A s \in Students : raised[t][s] + 1 \in Nat \ {0}
  BY DEF TypeOK
<1>3. open' \subseteq Alert
  BY <1>2 DEF TypeOK, Raise, Alert
<1> QED
  BY <1>1, <1>3

\* Upserting rows keeps every row's status a legal one.
LEMMA UpsertedType ==
  ASSUME TypeOK, NEW c \in Clients
  PROVE  Upserted(entries[c]) \in [Students -> RowStatus]
BY DEF TypeOK, Upserted

\* Every state of the trip, its rows, alerts and requests is well typed.
THEOREM TypeCorrect == Spec => []TypeOK
<1>1. Init => TypeOK
  <2> SUFFICES ASSUME Init PROVE TypeOK
    OBVIOUS
  <2>1. status \in TripStatus /\ checked \in BOOLEAN
    BY DEF Init, TripStatus
  <2>2. attendance \in [Students -> RowStatus] /\ dropped \subseteq Students
    BY DEF Init, RowStatus
  <2>3. raised \in [AlertType -> [Students -> Nat]] /\ open \subseteq Alert
    BY DEF Init
  <2>4. pc \in [Clients -> PC]
    BY DEF Init, PC
  <2>5. entries \in [Clients -> [Students -> RowStatus]]
    BY DEF Init, NoEntries, RowStatus
  <2> QED
    BY <2>1, <2>2, <2>3, <2>4, <2>5 DEF Init, TypeOK
<1>2. TypeOK /\ [Next]_vars => TypeOK'
  <2> SUFFICES ASSUME TypeOK, [Next]_vars PROVE TypeOK'
    OBVIOUS
  <2>1. CASE UNCHANGED vars
    BY <2>1 DEF vars, TypeOK
  <2>2. ASSUME NEW c \in Clients, Begin(c) PROVE TypeOK'
    <3>1. CASE StartRead(c) \/ CancelRead(c) \/ EndRead(c)
      <4>1. "start_write" \in PC /\ "cancel_write" \in PC /\ "end_select" \in PC
        BY DEF PC
      <4>2. pc' \in [Clients -> PC]
        BY <3>1, <4>1, StepType DEF StartRead, CancelRead, EndRead
      <4> QED
        BY <3>1, <4>2 DEF StartRead, CancelRead, EndRead, TypeOK, tripVars,
           rowVars, alertVars, locals
    <3>2. CASE MarkAbsentRead(c) \/ UnmarkAbsentRead(c) \/ DropRead(c)
      <4>1. "mark_write" \in PC /\ "unmark_write" \in PC /\ "drop_rows" \in PC
        BY DEF PC
      <4>2. pc' \in [Clients -> PC]
        BY <3>2, <4>1, StepType DEF MarkAbsentRead, UnmarkAbsentRead, DropRead
      <4>3. named' \in [Clients -> SUBSET Students]
        BY <3>2 DEF MarkAbsentRead, UnmarkAbsentRead, DropRead, TypeOK
      <4> QED
        BY <3>2, <4>2, <4>3 DEF MarkAbsentRead, UnmarkAbsentRead, DropRead,
           TypeOK, tripVars, rowVars, alertVars
    <3>3. CASE SubmitUpsert(c)
      <4>1. "submit_commit" \in PC
        BY DEF PC
      <4>2. pc' \in [Clients -> PC]
        BY <3>3, <4>1, StepType DEF SubmitUpsert
      <4>3. /\ entries' \in [Clients -> [Students -> RowStatus]]
            /\ found' \in [Clients -> SUBSET Students]
        BY <3>3 DEF SubmitUpsert, TypeOK
      <4> QED
        BY <3>3, <4>2, <4>3 DEF SubmitUpsert, TypeOK, tripVars, rowVars, alertVars
    <3>4. CASE ResolveRead(c)
      <4>1. "resolve_commit" \in PC
        BY DEF PC
      <4>2. pc' \in [Clients -> PC]
        BY <3>4, <4>1, StepType DEF ResolveRead
      <4>3. picked' \in [Clients -> SUBSET Alert]
        BY <3>4 DEF ResolveRead, TypeOK
      <4> QED
        BY <3>4, <4>2, <4>3 DEF ResolveRead, TypeOK, tripVars, rowVars, alertVars
    <3> QED
      BY <2>2, <3>1, <3>2, <3>3, <3>4 DEF Begin
  <2>3. ASSUME NEW c \in Clients, Continue(c) PROVE TypeOK'
    <3> USE <2>3
    <3>0. "idle" \in PC /\ "complete" \in PC /\ "end_hold" \in PC
          /\ "drop_commit" \in PC /\ "gate_select" \in PC /\ "emit" \in PC
      BY DEF PC
    <3>1. CASE StartWrite(c) \/ CancelWrite(c)
      <4>1. pc' \in [Clients -> PC]
        BY <3>0, <3>1, StepType DEF StartWrite, CancelWrite, Return
      <4>2. status' \in TripStatus
        BY <3>1 DEF StartWrite, CancelWrite, TripStatus
      <4>3. Release(c)
        BY <3>1 DEF StartWrite, CancelWrite, Return
      <4>4. starts' \in Nat
        BY <3>1 DEF StartWrite, CancelWrite, TypeOK
      <4> QED
        BY <3>1, <4>1, <4>2, <4>3, <4>4, ReleaseType DEF StartWrite, CancelWrite,
           TypeOK, rowVars, alertVars
    <3>2. CASE MarkAbsentWrite(c)
      <4>1. pc' \in [Clients -> PC] /\ Release(c)
        BY <3>0, <3>2, StepType DEF MarkAbsentWrite, Return
      <4>2. attendance' \in [Students -> RowStatus]
        BY <3>2 DEF MarkAbsentWrite, TypeOK, RowStatus, AttendanceStatus
      <4>3. late' \in [Clients -> SUBSET Students]
        BY <3>2, NoteLateType DEF MarkAbsentWrite
      <4> QED
        BY <3>2, <4>1, <4>2, <4>3, ReleaseType DEF MarkAbsentWrite, TypeOK,
           tripVars, alertVars
    <3>3. CASE UnmarkAbsentWrite(c)
      <4>1. pc' \in [Clients -> PC] /\ Release(c)
        BY <3>0, <3>3, StepType DEF UnmarkAbsentWrite, Return
      <4>2. attendance' \in [Students -> RowStatus] /\ dropped' \subseteq Students
        BY <3>3 DEF UnmarkAbsentWrite, TypeOK, RowStatus
      <4>3. late' \in [Clients -> SUBSET Students]
        BY <3>3, NoteLateType DEF UnmarkAbsentWrite
      <4> QED
        BY <3>3, <4>1, <4>2, <4>3, ReleaseType DEF UnmarkAbsentWrite, TypeOK,
           tripVars, alertVars
    <3>4. CASE SubmitAlert(c)
      <4>1. PICK s \in found[c] : /\ Raise("child_not_boarded", {s})
                                  /\ found' = [found EXCEPT ![c] = @ \ {s}]
        BY <3>4 DEF SubmitAlert
      <4>2. s \in Students /\ found' \in [Clients -> SUBSET Students]
        BY <4>1 DEF TypeOK
      <4>3. raised' \in [AlertType -> [Students -> Nat]] /\ open' \subseteq Alert
        <5>1. "child_not_boarded" \in AlertType /\ {s} \in SUBSET Students
          BY <4>2 DEF AlertType
        <5> QED
          BY <4>1, <5>1, RaiseType
      <4>4. attendance' \in [Students -> RowStatus]
        BY <3>4, UpsertedType DEF SubmitAlert
      <4>5. late' \in [Clients -> SUBSET Students]
        BY <3>4, NoteLateType DEF SubmitAlert
      <4>6. entries' \in [Clients -> [Students -> RowStatus]]
        BY <3>4 DEF SubmitAlert, TypeOK, NoEntries, RowStatus
      <4> QED
        BY <3>4, <4>2, <4>3, <4>4, <4>5, <4>6 DEF SubmitAlert, TypeOK, tripVars
    <3>5. CASE SubmitDone(c)
      <4>1. pc' \in [Clients -> PC] /\ Release(c)
        BY <3>0, <3>5, StepType DEF SubmitDone, Return
      <4>2. attendance' \in [Students -> RowStatus]
        BY <3>5, UpsertedType DEF SubmitDone
      <4>3. late' \in [Clients -> SUBSET Students]
        BY <3>5, NoteLateType DEF SubmitDone
      <4> QED
        BY <3>5, <4>1, <4>2, <4>3, ReleaseType DEF SubmitDone, TypeOK, tripVars,
           alertVars
    <3>6. CASE EndClear(c) \/ GateClear(c)
      <4>1. pc' \in [Clients -> PC]
        BY <3>0, <3>6, StepType DEF EndClear, GateClear
      <4> QED
        BY <3>6, <4>1 DEF EndClear, GateClear, TypeOK, tripVars, rowVars,
           alertVars, locals
    <3>7. CASE EndUnaccounted(c)
      <4>1. pc' \in [Clients -> PC]
        BY <3>0, <3>7, StepType DEF EndUnaccounted
      <4>2. found' \in [Clients -> SUBSET Students]
        BY <3>7 DEF EndUnaccounted, TypeOK, Unaccounted
      <4> QED
        BY <3>7, <4>1, <4>2 DEF EndUnaccounted, TypeOK, tripVars, rowVars, alertVars
    <3>8. CASE EndHold(c)
      <4>1. pc' \in [Clients -> PC] /\ Release(c)
        BY <3>0, <3>8, StepType DEF EndHold, Return
      <4>2. raised' \in [AlertType -> [Students -> Nat]] /\ open' \subseteq Alert
        <5>1. "child_not_dropped" \in AlertType /\ found[c] \in SUBSET Students
          BY DEF AlertType, TypeOK
        <5> QED
          BY <3>8, <5>1, RaiseType DEF EndHold
      <4>3. status' \in TripStatus
        BY <3>8 DEF EndHold, TypeOK, TripStatus
      <4> QED
        BY <3>8, <4>1, <4>2, <4>3, ReleaseType DEF EndHold, TypeOK, rowVars
    <3>9. CASE DropRows(c)
      <4>1. pc' \in [Clients -> PC]
        BY <3>0, <3>9, StepType DEF DropRows
      <4>2. found' \in [Clients -> SUBSET Students]
        BY <3>9 DEF DropRows, TypeOK
      <4> QED
        BY <3>9, <4>1, <4>2 DEF DropRows, TypeOK, tripVars, rowVars, alertVars
    <3>10. CASE DropCommit(c)
      <4>1. pc' \in [Clients -> PC]
        BY <3>0, <3>10, StepType DEF DropCommit
      <4>2. late' \in [Clients -> SUBSET Students]
        BY <3>10, NoteLateType DEF DropCommit
      <4>3. /\ dropped' \subseteq Students
            /\ open' \subseteq Alert
            /\ named' \in [Clients -> SUBSET Students]
            /\ found' \in [Clients -> SUBSET Students]
        BY <3>10 DEF DropCommit, TypeOK
      <4> QED
        BY <3>10, <4>1, <4>2, <4>3 DEF DropCommit, TypeOK, tripVars
    <3>11. CASE ResolveCommit(c)
      <4>1. pc' \in [Clients -> PC]
        BY <3>0, <3>11, StepType DEF ResolveCommit
      <4>2. open' \subseteq Alert
        BY <3>11 DEF ResolveCommit, TypeOK
      <4> QED
        BY <3>11, <4>1, <4>2 DEF ResolveCommit, TypeOK, tripVars, rowVars, locals
    <3>12. CASE GateBlocked(c) \/ CompleteNoop(c) \/ EmitTripEnded(c)
      <4>1. pc' \in [Clients -> PC] /\ Release(c)
        BY <3>0, <3>12, StepType DEF GateBlocked, CompleteNoop, EmitTripEnded, Return
      <4>2. late' \in [Clients -> SUBSET Students] /\ ended' \in Nat
        BY <3>12 DEF GateBlocked, CompleteNoop, EmitTripEnded, TypeOK
      <4> QED
        BY <3>12, <4>1, <4>2, ReleaseType DEF GateBlocked, CompleteNoop,
           EmitTripEnded, TypeOK, tripVars, rowVars, alertVars
    <3>13. CASE Complete(c)
      <4>1. pc' \in [Clients -> PC]
        BY <3>0, <3>13, StepType DEF Complete
      <4>2. /\ status' \in TripStatus /\ checked' \in BOOLEAN
            /\ completions' \in Nat /\ late' \in [Clients -> SUBSET Students]
        BY <3>13 DEF Complete, TypeOK, TripStatus
      <4> QED
        BY <3>13, <4>1, <4>2 DEF Complete, TypeOK, rowVars, alertVars, locals
    <3> QED
      BY <3>1, <3>2, <3>3, <3>4, <3>5, <3>6, <3>7, <3>8, <3>9, <3>10, <3>11,
         <3>12, <3>13 DEF Continue
  <2>4. ASSUME NEW c \in Clients, Fail(c) PROVE TypeOK'
    <3>1. pc' \in [Clients -> PC] /\ Release(c)
      BY <2>4 DEF Fail, TypeOK, PC
    <3>2. late' \in [Clients -> SUBSET Students]
      BY <2>4 DEF Fail, TypeOK
    <3> QED
      BY <2>4, <3>1, <3>2, ReleaseType DEF Fail, TypeOK, tripVars, rowVars, alertVars
  <2> QED
    BY <2>1, <2>2, <2>3, <2>4 DEF Next
<1> QED
  BY <1>1, <1>2, PTL DEF Spec

-----------------------------------------------------------------------------
(* However requests interleave *)

\* A step belongs to one request: the others stay where they are, and keep
\* what they have found.
LEMMA OneRequestMoves ==
  ASSUME TypeOK, Next
  PROVE  \E c \in Clients : /\ Begin(c) \/ Continue(c) \/ Fail(c)
                            /\ \A d \in Clients \ {c} : /\ pc'[d] = pc[d]
                                                        /\ found'[d] = found[d]
<1>1. PICK c \in Clients : Begin(c) \/ Continue(c) \/ Fail(c)
  BY DEF Next
<1>2. \A d \in Clients \ {c} : pc'[d] = pc[d]
  BY <1>1 DEF TypeOK, Begin, Continue, Fail, StartRead, StartWrite, CancelRead,
     CancelWrite, MarkAbsentRead, MarkAbsentWrite, UnmarkAbsentRead,
     UnmarkAbsentWrite, SubmitUpsert, SubmitAlert, SubmitDone, EndRead, EndClear,
     EndUnaccounted, EndHold, DropRead, DropRows, DropCommit, ResolveRead,
     ResolveCommit, GateClear, GateBlocked, Complete, CompleteNoop,
     EmitTripEnded, Return, Step
<1>3. \A d \in Clients \ {c} : found'[d] = found[d]
  BY <1>1 DEF TypeOK, Begin, Continue, Fail, StartRead, StartWrite, CancelRead,
     CancelWrite, MarkAbsentRead, MarkAbsentWrite, UnmarkAbsentRead,
     UnmarkAbsentWrite, SubmitUpsert, SubmitAlert, SubmitDone, EndRead, EndClear,
     EndUnaccounted, EndHold, DropRead, DropRows, DropCommit, ResolveRead,
     ResolveCommit, GateClear, GateBlocked, Complete, CompleteNoop,
     EmitTripEnded, Return, Release, locals
<1> QED
  BY <1>1, <1>2, <1>3

\* The gate overlooks only children who boarded after it looked.
THEOREM GateMisses == Spec => []GateMissesOnlyLate
<1>1. Init => GateMissesOnlyLate
  BY DEF Init, GateMissesOnlyLate
<1>2. TypeOK /\ GateMissesOnlyLate /\ [Next]_vars => GateMissesOnlyLate'
  <2> SUFFICES ASSUME TypeOK, GateMissesOnlyLate, [Next]_vars,
                      NEW d \in Clients, pc'[d] = "complete"
               PROVE  Unaccounted' \subseteq late'[d]
    BY DEF GateMissesOnlyLate
  <2>1. CASE UNCHANGED vars
    BY <2>1 DEF vars, GateMissesOnlyLate, Unaccounted
  <2>2. CASE Next
    <3>1. PICK c \in Clients :
            /\ Begin(c) \/ Continue(c) \/ Fail(c)
            /\ \A e \in Clients \ {c} : pc'[e] = pc[e]
      BY <2>2, OneRequestMoves
    <3>2. CASE MarkAbsentWrite(c) \/ UnmarkAbsentWrite(c) \/ SubmitAlert(c)
               \/ SubmitDone(c) \/ DropCommit(c)
      <4>1. pc'[c] # "complete" /\ NoteLate
        BY <3>2 DEF TypeOK, MarkAbsentWrite, UnmarkAbsentWrite, SubmitAlert,
           SubmitDone, DropCommit, Return, Step
      <4>2. pc[d] = "complete"
        BY <3>1, <4>1
      <4>3. late'[d] = late[d] \cup (Unaccounted' \ Unaccounted)
        BY <4>1, <4>2 DEF NoteLate
      <4> QED
        BY <4>2, <4>3 DEF GateMissesOnlyLate
    <3>3. CASE EndClear(c) \/ GateClear(c)
      <4>1. Unaccounted = {} /\ Unaccounted' = Unaccounted
        BY <3>3 DEF EndClear, GateClear, Unaccounted, rowVars
      <4> QED
        BY <4>1
    <3>4. CASE Begin(c) \/ StartWrite(c) \/ CancelWrite(c) \/ EndUnaccounted(c)
               \/ EndHold(c) \/ DropRows(c) \/ ResolveCommit(c) \/ GateBlocked(c)
               \/ EmitTripEnded(c)
      <4>1. UNCHANGED <<rowVars, late>> /\ pc'[c] # "complete"
        BY <3>4 DEF TypeOK, Begin, StartRead, CancelRead, MarkAbsentRead,
           UnmarkAbsentRead, SubmitUpsert, EndRead, DropRead, ResolveRead,
           StartWrite, CancelWrite, EndUnaccounted, EndHold, DropRows,
           ResolveCommit, GateBlocked, EmitTripEnded, Return, Step
      <4>2. Unaccounted' = Unaccounted
        BY <4>1 DEF Unaccounted, rowVars
      <4> QED
        BY <3>1, <4>1, <4>2 DEF GateMissesOnlyLate
    <3>5. CASE Complete(c) \/ CompleteNoop(c) \/ Fail(c)
      <4>1. /\ UNCHANGED rowVars
            /\ late' = [late EXCEPT ![c] = {}]
            /\ pc'[c] # "complete"
        BY <3>5 DEF TypeOK, Complete, CompleteNoop, Fail, Return, Step
      <4>2. Unaccounted' = Unaccounted
        BY <4>1 DEF Unaccounted, rowVars
      <4>3. d # c /\ late'[d] = late[d]
        BY <4>1 DEF TypeOK
      <4> QED
        BY <3>1, <4>2, <4>3 DEF GateMissesOnlyLate
    <3> QED
      BY <3>1, <3>2, <3>3, <3>4, <3>5 DEF Continue
  <2> QED
    BY <2>1, <2>2
<1> QED
  BY <1>1, <1>2, TypeCorrect, PTL DEF Spec

\* trip_ended is emitted at most once per completion.
THEOREM EmittedOnce == Spec => []EmittedOncePerCompletion
<1>1. Init => EmittedOncePerCompletion
  <2> SUFFICES ASSUME Init PROVE EmittedOncePerCompletion
    OBVIOUS
  <2>1. Emitters = {}
    BY DEF Init, Emitters
  <2>2. Cardinality(Emitters) = 0
    BY <2>1, FS_EmptySet
  <2>3. ended = 0 /\ completions = 0
    BY DEF Init
  <2> QED
    BY <2>2, <2>3 DEF EmittedOncePerCompletion
<1>2. TypeOK /\ EmittedOncePerCompletion /\ [Next]_vars => EmittedOncePerCompletion'
  <2> SUFFICES ASSUME TypeOK, EmittedOncePerCompletion, [Next]_vars
               PROVE  EmittedOncePerCompletion'
    OBVIOUS
  <2>0. IsFiniteSet(Emitters) /\ Cardinality(Emitters) \in Nat
    <3>1. Emitters \subseteq Clients
      BY DEF Emitters
    <3> QED
      BY <3>1, ClientsAssumption, FS_Subset, FS_CardinalityType
  <2>1. CASE UNCHANGED vars
    BY <2>1 DEF vars, EmittedOncePerCompletion, Emitters
  <2>2. CASE Next
    <3>1. PICK c \in Clients :
            /\ Begin(c) \/ Continue(c) \/ Fail(c)
            /\ \A e \in Clients \ {c} : pc'[e] = pc[e]
      BY <2>2, OneRequestMoves
    <3>2. CASE Complete(c)
      <4>1. pc[c] # "emit" /\ pc'[c] = "emit"
        BY <3>2 DEF TypeOK, Complete, Step
      <4>2. c \notin Emitters /\ Emitters' = Emitters \cup {c}
        BY <3>1, <4>1 DEF Emitters
      <4>3. Cardinality(Emitters') = Cardinality(Emitters) + 1
        BY <2>0, <4>2, FS_AddElement
      <4>4. completions' = completions + 1 /\ ended' = ended
        BY <3>2 DEF Complete
      <4> QED
        BY <2>0, <4>3, <4>4 DEF EmittedOncePerCompletion, TypeOK
    <3>3. CASE EmitTripEnded(c)
      <4>1. pc[c] = "emit" /\ pc'[c] # "emit"
        BY <3>3 DEF TypeOK, EmitTripEnded, Return, Step
      <4>2. c \in Emitters /\ Emitters' = Emitters \ {c}
        BY <3>1, <4>1 DEF Emitters
      <4>3. Cardinality(Emitters') = Cardinality(Emitters) - 1
        BY <2>0, <4>2, FS_RemoveElement
      <4>4. completions' = completions /\ ended' = ended + 1
        BY <3>3 DEF EmitTripEnded, tripVars
      <4> QED
        BY <2>0, <4>3, <4>4 DEF EmittedOncePerCompletion, TypeOK
    <3>4. ASSUME pc'[c] # "emit", UNCHANGED <<completions, ended>>
          PROVE  EmittedOncePerCompletion'
      <4>1. Emitters' \subseteq Emitters
        BY <3>1, <3>4 DEF Emitters
      <4>2. Cardinality(Emitters') \in Nat /\ Cardinality(Emitters') <= Cardinality(Emitters)
        BY <2>0, <4>1, FS_Subset, FS_CardinalityType
      <4> QED
        BY <2>0, <3>4, <4>2 DEF EmittedOncePerCompletion, TypeOK
    <3>5. CASE Begin(c)
      <4>1. pc'[c] # "emit" /\ UNCHANGED <<completions, ended>>
        BY <3>5 DEF TypeOK, Begin, StartRead, CancelRead, MarkAbsentRead,
           UnmarkAbsentRead, SubmitUpsert, EndRead, DropRead, ResolveRead, Step,
           tripVars
      <4> QED
        BY <3>4, <4>1
    <3>6. CASE Fail(c)
      <4>1. pc'[c] # "emit" /\ UNCHANGED <<completions, ended>>
        BY <3>6 DEF TypeOK, Fail, tripVars
      <4> QED
        BY <3>4, <4>1
    <3>7. CASE Continue(c) /\ ~Complete(c) /\ ~EmitTripEnded(c)
      <4>1. pc'[c] # "emit"
        BY <3>7 DEF TypeOK, Continue, StartWrite, CancelWrite, MarkAbsentWrite,
           UnmarkAbsentWrite, SubmitAlert, SubmitDone, EndClear, EndUnaccounted,
           EndHold, DropRows, DropCommit, ResolveCommit, GateClear, GateBlocked,
           CompleteNoop, Return, Step
      <4>2. UNCHANGED <<completions, ended>>
        BY <3>7 DEF Continue, StartWrite, CancelWrite, MarkAbsentWrite,
           UnmarkAbsentWrite, SubmitAlert, SubmitDone, EndClear, EndUnaccounted,
           EndHold, DropRows, DropCommit, ResolveCommit, GateClear, GateBlocked,
           CompleteNoop, tripVars
      <4> QED
        BY <3>4, <4>1, <4>2
    <3> QED
      BY <3>1, <3>2, <3>3, <3>5, <3>6, <3>7
  <2> QED
    BY <2>1, <2>2
<1> QED
  BY <1>1, <1>2, TypeCorrect, PTL DEF Spec

\* While a trip is active its last start has not been used up: the strengthening
\* that makes CompletedOncePerStart inductive.
StartUnspent == status \in Active => completions < starts

\* The trip is completed at most once per start, although a start may overwrite
\* a completed trip and any number of requests may reach the completing UPDATE.
\* (start_trip, _complete_trip)
THEOREM CompletedOnce == Spec => []CompletedOncePerStart
<1> DEFINE CInv == CompletedOncePerStart /\ StartUnspent
<1>1. Init => CInv
  BY DEF Init, CompletedOncePerStart, StartUnspent, Active
<1>2. TypeOK /\ CInv /\ [Next]_vars => CInv'
  <2> SUFFICES ASSUME TypeOK, CInv, [Next]_vars PROVE CInv'
    OBVIOUS
  <2>0. completions \in Nat /\ starts \in Nat
    BY DEF TypeOK
  <2>1. ASSUME UNCHANGED <<starts, completions>>, status' \in Active => status \in Active
        PROVE  CInv'
    BY <2>1 DEF CompletedOncePerStart, StartUnspent
  <2>2. CASE UNCHANGED vars
    BY <2>1, <2>2 DEF vars
  <2>3. CASE Next
    <3>1. PICK c \in Clients : Begin(c) \/ Continue(c) \/ Fail(c)
      BY <2>3 DEF Next
    <3>2. CASE StartWrite(c)
      <4>1. starts' = starts + 1 /\ completions' = completions
        BY <3>2 DEF StartWrite
      <4> QED
        BY <2>0, <4>1 DEF CompletedOncePerStart, StartUnspent
    <3>3. CASE Complete(c)
      <4>1. /\ status \in Active /\ status' \notin Active
            /\ completions' = completions + 1 /\ starts' = starts
        BY <3>3 DEF Complete, Active
      <4> QED
        BY <2>0, <4>1 DEF CompletedOncePerStart, StartUnspent
    <3>4. CASE CancelWrite(c) \/ EndHold(c)
      BY <2>1, <3>4 DEF CancelWrite, EndHold, Active
    <3>5. CASE Begin(c) \/ Fail(c)
      BY <2>1, <3>5 DEF Begin, Fail, StartRead, CancelRead, MarkAbsentRead,
         UnmarkAbsentRead, SubmitUpsert, EndRead, DropRead, ResolveRead, tripVars
    <3>6. CASE Continue(c) /\ ~(StartWrite(c) \/ Complete(c) \/ CancelWrite(c) \/ EndHold(c))
      BY <2>1, <3>6 DEF Continue, MarkAbsentWrite, UnmarkAbsentWrite, SubmitAlert,
         SubmitDone, EndClear, EndUnaccounted, DropRows, DropCommit, ResolveCommit,
         GateClear, GateBlocked, CompleteNoop, EmitTripEnded, tripVars
    <3> QED
      BY <3>1, <3>2, <3>3, <3>4, <3>5, <3>6
  <2> QED
    BY <2>2, <2>3
<1> QED
  BY <1>1, <1>2, TypeCorrect, PTL DEF Spec

\* A request about to hold the trip has found somebody: the strengthening
\* that makes PendingWasAlerted inductive.
HoldHasCause == \A c \in Clients : pc[c] = "end_hold" => found[c] # {}

\* A held trip has had an alert, committed no later than the hold.
THEOREM PendingAlerted == Spec => []PendingWasAlerted
<1>1. Init => HoldHasCause /\ PendingWasAlerted
  BY DEF Init, HoldHasCause, PendingWasAlerted
<1>2. TypeOK /\ HoldHasCause /\ [Next]_vars => HoldHasCause'
  <2> SUFFICES ASSUME TypeOK, HoldHasCause, [Next]_vars,
                      NEW d \in Clients, pc'[d] = "end_hold"
               PROVE  found'[d] # {}
    BY DEF HoldHasCause
  <2>1. CASE UNCHANGED vars
    BY <2>1 DEF vars, HoldHasCause
  <2>2. CASE Next
    <3>1. PICK c \in Clients :
            /\ Begin(c) \/ Continue(c) \/ Fail(c)
            /\ \A e \in Clients \ {c} : pc'[e] = pc[e] /\ found'[e] = found[e]
      BY <2>2, OneRequestMoves
    <3>2. CASE d # c
      BY <3>1, <3>2 DEF HoldHasCause
    <3>3. CASE d = c
      <4>1. EndUnaccounted(c)
        BY <3>1, <3>3 DEF TypeOK, Begin, Continue, Fail, StartRead, StartWrite,
           CancelRead, CancelWrite, MarkAbsentRead, MarkAbsentWrite,
           UnmarkAbsentRead, UnmarkAbsentWrite, SubmitUpsert, SubmitAlert,
           SubmitDone, EndRead, EndClear, EndUnaccounted, EndHold, DropRead,
           DropRows, DropCommit, ResolveRead, ResolveCommit, GateClear,
           GateBlocked, Complete, CompleteNoop, EmitTripEnded, Return, Step
      <4> QED
        BY <3>3, <4>1 DEF EndUnaccounted, TypeOK
    <3> QED
      BY <3>2, <3>3
  <2> QED
    BY <2>1, <2>2
<1>3. TypeOK /\ HoldHasCause /\ PendingWasAlerted /\ [Next]_vars => PendingWasAlerted'
  <2> SUFFICES ASSUME TypeOK, HoldHasCause, PendingWasAlerted, [Next]_vars,
                      status' = "pending_safeguard_check"
               PROVE  \E s \in Students : raised'["child_not_dropped"][s] > 0
    BY DEF PendingWasAlerted
  <2>0. "child_not_dropped" \in AlertType
    BY DEF AlertType
  <2>1. CASE UNCHANGED vars
    BY <2>1 DEF vars, PendingWasAlerted
  <2>2. CASE \E c \in Clients : EndHold(c)
    <3>1. PICK c \in Clients : EndHold(c)
      BY <2>2
    <3>2. PICK s \in found[c] : TRUE
      BY <3>1 DEF EndHold, Return, Step, HoldHasCause
    <3>3. s \in Students
      BY <3>2 DEF TypeOK
    <3>4. raised'["child_not_dropped"][s] = raised["child_not_dropped"][s] + 1
      BY <2>0, <3>1, <3>2, <3>3 DEF EndHold, Raise, TypeOK
    <3>5. raised["child_not_dropped"][s] \in Nat
      BY <2>0, <3>3 DEF TypeOK
    <3> QED
      BY <3>3, <3>4, <3>5
  <2>3. CASE \E c \in Clients : SubmitAlert(c)
    <3>1. status = "pending_safeguard_check"
      BY <2>3 DEF SubmitAlert, tripVars
    <3>2. raised'["child_not_dropped"] = raised["child_not_dropped"]
      BY <2>0, <2>3 DEF SubmitAlert, Raise, TypeOK
    <3> QED
      BY <3>1, <3>2 DEF PendingWasAlerted
  <2>4. CASE Next /\ ~(\E c \in Clients : EndHold(c) \/ SubmitAlert(c))
    <3>1. raised' = raised
      BY <2>4 DEF Next, Begin, Continue, Fail, StartRead, StartWrite,
         CancelRead, CancelWrite, MarkAbsentRead, MarkAbsentWrite,
         UnmarkAbsentRead, UnmarkAbsentWrite, SubmitUpsert,
         SubmitDone, EndRead, EndClear, EndUnaccounted, DropRead,
         DropRows, DropCommit, ResolveRead, ResolveCommit, GateClear,
         GateBlocked, Complete, CompleteNoop, EmitTripEnded, alertVars
    <3>2. status = "pending_safeguard_check"
      BY <2>4 DEF Next, Begin, Continue, Fail, StartRead, StartWrite,
         CancelRead, CancelWrite, MarkAbsentRead, MarkAbsentWrite,
         UnmarkAbsentRead, UnmarkAbsentWrite, SubmitUpsert,
         SubmitDone, EndRead, EndClear, EndUnaccounted, DropRead,
         DropRows, DropCommit, ResolveRead, ResolveCommit, GateClear,
         GateBlocked, Complete, CompleteNoop, EmitTripEnded, tripVars
    <3> QED
      BY <3>1, <3>2 DEF PendingWasAlerted
  <2> QED
    BY <2>1, <2>2, <2>3, <2>4
<1> QED
  BY <1>1, <1>2, <1>3, TypeCorrect, PTL DEF Spec

-----------------------------------------------------------------------------
(* When requests on the trip do not overlap *)

\* One request at a time: any number of them, one after the other.
SoleClient == \A c, d \in Clients : c = d

\* What a request knows of the trip between its steps, when no other request
\* can change it: the strengthening from which the theorems
\* below follow.
Knows(c) ==
  /\ pc[c] \in {"start_write", "mark_write", "unmark_write"} => status = "scheduled"
  /\ pc[c] = "cancel_write" => status \notin {"completed", "cancelled"}
  /\ pc[c] = "end_select" => status = "in_progress"
  /\ pc[c] = "end_hold" =>
       status = "in_progress" /\ found[c] = Unaccounted /\ found[c] # {}
  /\ pc[c] = "complete" => Unaccounted = {}
  /\ pc[c] = "emit" => status = "completed" /\ ended = 0

SerialInv ==
  /\ \A c \in Clients : Knows(c)
  /\ ended = 0 \/ (ended = 1 /\ status = "completed")

\* Between its steps a lone request knows what it has read.
LEMMA SerialKnowledge == SoleClient => (Spec => []SerialInv)
<1> SUFFICES ASSUME SoleClient PROVE Spec => []SerialInv
  OBVIOUS
<1>1. Init => SerialInv
  BY DEF Init, SerialInv, Knows
<1>2. TypeOK /\ SerialInv /\ [Next]_vars => SerialInv'
  <2> SUFFICES ASSUME TypeOK, SerialInv, [Next]_vars PROVE SerialInv'
    OBVIOUS
  <2>1. CASE UNCHANGED vars
    BY <2>1 DEF vars, SerialInv, Knows, Unaccounted
  <2>2. CASE Next
    <3>1. PICK c \in Clients : Begin(c) \/ Continue(c) \/ Fail(c)
      BY <2>2 DEF Next
    <3>2. SUFFICES Knows(c)' /\ (ended = 0 \/ (ended = 1 /\ status = "completed"))'
      BY <3>1 DEF SoleClient, SerialInv
    <3>3. Knows(c) /\ (ended = 0 \/ (ended = 1 /\ status = "completed"))
      BY DEF SerialInv
    <3>4. CASE Begin(c)
      <4>1. UNCHANGED <<status, ended>>
        BY <3>4 DEF Begin, StartRead, CancelRead, MarkAbsentRead, UnmarkAbsentRead,
           SubmitUpsert, EndRead, DropRead, ResolveRead, tripVars
      <4>2. Knows(c)'
        BY <3>4 DEF Begin, StartRead, CancelRead, MarkAbsentRead, UnmarkAbsentRead,
           SubmitUpsert, EndRead, DropRead, ResolveRead, Step, TypeOK, Knows, tripVars
      <4> QED
        BY <3>3, <4>1, <4>2
    <3>5. CASE Fail(c)
      <4>1. pc'[c] = "idle" /\ UNCHANGED <<status, ended>>
        BY <3>5 DEF Fail, TypeOK, tripVars
      <4> QED
        BY <3>3, <4>1 DEF Knows
    <3>6. CASE Continue(c) /\ pc'[c] \in {"idle", "submit_commit", "drop_commit", "gate_select"}
      <4>1. Knows(c)'
        BY <3>6 DEF Knows
      <4>2. CASE EmitTripEnded(c)
        BY <3>3, <4>1, <4>2 DEF EmitTripEnded, Return, Step, Knows, tripVars
      <4>3. CASE StartWrite(c) \/ CancelWrite(c) \/ EndHold(c)
        BY <3>3, <4>1, <4>3 DEF StartWrite, CancelWrite, EndHold, Return, Step, Knows
      <4>4. CASE UNCHANGED <<status, ended>>
        BY <3>3, <4>1, <4>4
      <4>5. ~Complete(c)
        BY <3>6 DEF Complete, Step, TypeOK
      <4> QED
        BY <3>6, <4>2, <4>3, <4>4, <4>5 DEF Continue, MarkAbsentWrite, UnmarkAbsentWrite,
           SubmitAlert, SubmitDone, EndClear, EndUnaccounted, DropRows, DropCommit,
           ResolveCommit, GateClear, GateBlocked, CompleteNoop, tripVars
    <3>7. CASE EndClear(c) \/ GateClear(c)
      <4>1. pc'[c] = "complete" /\ Unaccounted' = {} /\ UNCHANGED <<status, ended>>
        BY <3>7 DEF EndClear, GateClear, Step, TypeOK, Unaccounted, tripVars, rowVars
      <4> QED
        BY <3>3, <4>1 DEF Knows
    <3>8. CASE EndUnaccounted(c)
      <4>1. pc[c] = "end_select" /\ pc'[c] = "end_hold" /\ UNCHANGED <<status, ended>>
        BY <3>8 DEF EndUnaccounted, Step, TypeOK, tripVars
      <4>2. found'[c] = Unaccounted /\ Unaccounted # {} /\ Unaccounted' = Unaccounted
        BY <3>8 DEF EndUnaccounted, TypeOK, Unaccounted, rowVars
      <4> QED
        BY <3>3, <4>1, <4>2 DEF Knows
    <3>9. CASE Complete(c)
      <4>1. status \in Active /\ status' = "completed" /\ pc'[c] = "emit" /\ ended' = ended
        BY <3>9 DEF Complete, Step, TypeOK
      <4>2. ended' = 0
        BY <3>3, <4>1 DEF Active
      <4> QED
        BY <4>1, <4>2 DEF Knows
    <3>10. CASE Continue(c) /\ ~(EndClear(c) \/ GateClear(c) \/ EndUnaccounted(c) \/ Complete(c))
      <4>1. pc'[c] \in {"idle", "submit_commit", "drop_commit", "gate_select"}
        BY <3>10 DEF Continue, StartWrite, CancelWrite, MarkAbsentWrite,
           UnmarkAbsentWrite, SubmitAlert, SubmitDone, EndHold, DropRows, DropCommit,
           ResolveCommit, GateBlocked, CompleteNoop, EmitTripEnded, Return, Step, TypeOK
      <4> QED
        BY <3>6, <3>10, <4>1
    <3> QED
      BY <3>1, <3>4, <3>5, <3>7, <3>8, <3>9, <3>10
  <2> QED
    BY <2>1, <2>2
<1> QED
  BY <1>1, <1>2, TypeCorrect, PTL DEF Spec

\* The step that completes the trip, and the only one that can.
LEMMA OnlyCompleteCompletes ==
  ASSUME TypeOK, Next, status' = "completed", status # "completed"
  PROVE  \E c \in Clients : Complete(c)
BY DEF Next, Begin, Continue, Fail, StartRead, StartWrite, CancelRead, CancelWrite,
   MarkAbsentRead, MarkAbsentWrite, UnmarkAbsentRead, UnmarkAbsentWrite,
   SubmitUpsert, SubmitAlert, SubmitDone, EndRead, EndClear, EndUnaccounted,
   EndHold, DropRead, DropRows, DropCommit, ResolveRead, ResolveCommit,
   GateClear, GateBlocked, CompleteNoop, EmitTripEnded, tripVars

\* The gate is sound: no trip is completed with a boarded child who was not
\* dropped.
THEOREM SerialGate == SoleClient => (Spec => GateSound)
<1> SUFFICES ASSUME SoleClient PROVE Spec => GateSound
  OBVIOUS
<1>1. TypeOK /\ SerialInv /\ [Next]_vars
        => [status' = "completed" /\ status # "completed" => Unaccounted = {}]_vars
  <2> SUFFICES ASSUME TypeOK, SerialInv, Next, status' = "completed",
                      status # "completed"
               PROVE  Unaccounted = {}
    OBVIOUS
  <2>1. PICK c \in Clients : Complete(c)
    BY OnlyCompleteCompletes
  <2> QED
    BY <2>1 DEF Complete, Step, SerialInv, Knows
<1> QED
  BY <1>1, TypeCorrect, SerialKnowledge, PTL DEF Spec, GateSound

\* A held trip leaves an unresolved alert for every child still on board.
THEOREM SerialHold == SoleClient => (Spec => HoldAlertsEveryChild)
<1> SUFFICES ASSUME SoleClient PROVE Spec => HoldAlertsEveryChild
  OBVIOUS
<1>1. TypeOK /\ SerialInv /\ [Next]_vars
        => [(status' = "pending_safeguard_check" /\ status # status')
              => \A s \in Unaccounted : OpenAlert("child_not_dropped", s)']_vars
  <2> SUFFICES ASSUME TypeOK, SerialInv, Next, status # status',
                      status' = "pending_safeguard_check", NEW s \in Unaccounted
               PROVE  OpenAlert("child_not_dropped", s)'
    OBVIOUS
  <2>1. PICK c \in Clients : EndHold(c)
    BY DEF Next, Begin, Continue, Fail, StartRead, StartWrite, CancelRead,
       CancelWrite, MarkAbsentRead, MarkAbsentWrite, UnmarkAbsentRead,
       UnmarkAbsentWrite, SubmitUpsert, SubmitAlert, SubmitDone, EndRead, EndClear,
       EndUnaccounted, DropRead, DropRows, DropCommit, ResolveRead,
       ResolveCommit, GateClear, GateBlocked, Complete, CompleteNoop,
       EmitTripEnded, tripVars
  <2>2. found[c] = Unaccounted
    BY <2>1 DEF EndHold, Return, Step, SerialInv, Knows
  <2>3. <<"child_not_dropped", s, raised["child_not_dropped"][s] + 1>> \in open'
    BY <2>1, <2>2 DEF EndHold, Raise
  <2> QED
    BY <2>3 DEF OpenAlert
<1> QED
  BY <1>1, TypeCorrect, SerialKnowledge, PTL DEF Spec, HoldAlertsEveryChild

\* The handlers implement the abstract trip.
THEOREM SerialRefinement == SoleClient => (Spec => ImplementsLifecycle)
<1> SUFFICES ASSUME SoleClient PROVE Spec => ImplementsLifecycle
  OBVIOUS
<1> USE DEF Lifecycle!vars
<1>1. Init => Lifecycle!Init
  BY DEF Init, Lifecycle!Init, Unaccounted
<1>2. TypeOK /\ SerialInv /\ [Next]_vars => [Lifecycle!Next]_(Lifecycle!vars)
  <2> SUFFICES ASSUME TypeOK, SerialInv, [Next]_vars
               PROVE  Lifecycle!Next \/ UNCHANGED Lifecycle!vars
    OBVIOUS
  <2>1. CASE UNCHANGED vars
    BY <2>1 DEF vars, Unaccounted
  <2>2. CASE Next
    <3>1. PICK c \in Clients : Begin(c) \/ Continue(c) \/ Fail(c)
      BY <2>2 DEF Next
    <3>2. Knows(c) /\ (ended = 0 \/ (ended = 1 /\ status = "completed"))
      BY DEF SerialInv
    <3>3. ASSUME UNCHANGED <<status, ended>> PROVE Lifecycle!Next \/ UNCHANGED Lifecycle!vars
      <4>1. Unaccounted' \in SUBSET Students
        BY DEF Unaccounted
      <4> QED
        BY <3>3, <4>1 DEF Lifecycle!Next, Lifecycle!Record
    <3>4. CASE Begin(c)
      BY <3>3, <3>4 DEF Begin, StartRead, CancelRead, MarkAbsentRead,
         UnmarkAbsentRead, SubmitUpsert, EndRead, DropRead, ResolveRead, tripVars
    <3>5. CASE Fail(c)
      BY <3>3, <3>5 DEF Fail, tripVars
    <3>6. CASE StartWrite(c) \/ CancelWrite(c) \/ EndHold(c)
      <4>1. UNCHANGED <<Unaccounted, ended>>
        BY <3>6 DEF StartWrite, CancelWrite, EndHold, rowVars, Unaccounted
      <4> QED
        BY <3>2, <3>6, <4>1 DEF StartWrite, CancelWrite, EndHold, Return, Step,
           Knows, Lifecycle!Next, Lifecycle!Start, Lifecycle!Cancel, Lifecycle!Hold
    <3>7. CASE Complete(c)
      <4>1. UNCHANGED <<Unaccounted, ended>>
        BY <3>7 DEF Complete, rowVars, Unaccounted
      <4> QED
        BY <3>2, <3>7, <4>1 DEF Complete, Step, Knows, Active,
           Lifecycle!Next, Lifecycle!Complete, Lifecycle!Active
    <3>8. CASE EmitTripEnded(c)
      <4>1. UNCHANGED <<Unaccounted, status>>
        BY <3>8 DEF EmitTripEnded, tripVars, rowVars, Unaccounted
      <4> QED
        BY <3>2, <3>8, <4>1 DEF EmitTripEnded, Return, Step, Knows,
           Lifecycle!Next, Lifecycle!Announce
    <3>9. CASE Continue(c) /\ ~(StartWrite(c) \/ CancelWrite(c) \/ EndHold(c)
                               \/ Complete(c) \/ EmitTripEnded(c))
      BY <3>3, <3>9 DEF Continue, MarkAbsentWrite, UnmarkAbsentWrite, SubmitAlert,
         SubmitDone, EndClear, EndUnaccounted, DropRows, DropCommit,
         ResolveCommit, GateClear, GateBlocked, CompleteNoop, tripVars
    <3> QED
      BY <3>1, <3>4, <3>5, <3>6, <3>7, <3>8, <3>9
  <2> QED
    BY <2>1, <2>2
<1> QED
  BY <1>1, <1>2, TypeCorrect, SerialKnowledge, PTL
     DEF Spec, ImplementsLifecycle, Lifecycle!Spec

\* A parent's mark reaches the roster only before departure: the trip is still as the
\* request read it. (mark_student_absent, cancel_student_absent)
THEOREM SerialAbsence == SoleClient => (Spec => AbsenceBeforeDeparture)
<1> SUFFICES ASSUME SoleClient PROVE Spec => AbsenceBeforeDeparture
  OBVIOUS
<1>1. SerialInv /\ [Next]_vars
        => [(attendance' # attendance /\ \E c \in Clients :
               pc[c] \in {"mark_write", "unmark_write"} /\ pc'[c] = "idle")
              => status = "scheduled"]_vars
  BY DEF SerialInv, Knows
<1> QED
  BY <1>1, SerialKnowledge, PTL DEF Spec, AbsenceBeforeDeparture

\* The children a submission has yet to alert about are not in it, and nobody excused
\* them.
MissingInv ==
  \A c \in Clients : pc[c] = "submit_commit" =>
    \A s \in found[c] : entries[c][s] = "none" /\ attendance[s] # "absent_parent_marked"

\* One submission at a time keeps it so.
LEMMA MissingInductive ==
  ASSUME SoleClient, TypeOK, MissingInv, [Next]_vars
  PROVE  MissingInv'
<1>1. CASE UNCHANGED vars
  BY <1>1 DEF vars, MissingInv
<1>2. CASE Next
  <2>1. PICK c \in Clients : Begin(c) \/ Continue(c) \/ Fail(c)
    BY <1>2 DEF Next
  <2>2. SUFFICES ASSUME pc'[c] = "submit_commit", NEW s \in found'[c]
                 PROVE  entries'[c][s] = "none" /\ attendance'[s] # "absent_parent_marked"
    BY DEF SoleClient, MissingInv
  <2>3. CASE SubmitUpsert(c)
    <3>1. PICK p \in Stops, e \in [Students -> RowStatus] :
            /\ entries' = [entries EXCEPT ![c] = e]
            /\ found' = [found EXCEPT ![c] =
                 {x \in Students : /\ StopOf[x] = p
                                   /\ x \notin Listed(e)
                                   /\ attendance[x] # "absent_parent_marked"}]
            /\ attendance' = attendance
      BY <2>3 DEF SubmitUpsert, rowVars
    <3> QED
      BY <3>1 DEF TypeOK, Listed
  <2>4. CASE SubmitAlert(c)
    <3>1. /\ pc[c] = "submit_commit" /\ attendance' = Upserted(entries[c])
          /\ entries' = [entries EXCEPT ![c] = NoEntries]
          /\ s \in found[c] /\ s \in Students
      BY <2>4 DEF SubmitAlert, TypeOK
    <3>2. entries[c][s] = "none" /\ attendance[s] # "absent_parent_marked"
      BY <3>1 DEF MissingInv
    <3> QED
      BY <3>1, <3>2 DEF Upserted, NoEntries, TypeOK
  <2>5. SubmitUpsert(c) \/ SubmitAlert(c)
    BY <2>1, <2>2 DEF Begin, Continue, Fail, StartRead, StartWrite, CancelRead,
       CancelWrite, MarkAbsentRead, MarkAbsentWrite, UnmarkAbsentRead,
       UnmarkAbsentWrite, SubmitDone, EndRead, EndClear, EndUnaccounted, EndHold,
       DropRead, DropRows, DropCommit, ResolveRead, ResolveCommit, GateClear,
       GateBlocked, Complete, CompleteNoop, EmitTripEnded, Return, Step, TypeOK
  <2> QED
    BY <2>3, <2>4, <2>5
<1> QED
  BY <1>1, <1>2

\* No child_not_boarded alert is raised for a child a parent excused: the excuse that
\* the submission did not see would have had to come between its two statements.
\* (process_stop_attendance)
THEOREM SerialExcuse == SoleClient => (Spec => NoAlertForExcused)
<1> SUFFICES ASSUME SoleClient PROVE Spec => NoAlertForExcused
  OBVIOUS
<1>1. Init => MissingInv
  BY DEF Init, MissingInv
<1>2. TypeOK /\ MissingInv /\ [Next]_vars => MissingInv'
  BY MissingInductive
<1>3. TypeOK /\ MissingInv /\ [Next]_vars
        => [\A s \in Students :
              raised'["child_not_boarded"][s] # raised["child_not_boarded"][s]
                => attendance'[s] # "absent_parent_marked"]_vars
  <2> SUFFICES ASSUME TypeOK, MissingInv, Next, NEW s \in Students,
                      raised'["child_not_boarded"][s] # raised["child_not_boarded"][s]
               PROVE  attendance'[s] # "absent_parent_marked"
    OBVIOUS
  <2>1. PICK c \in Clients : SubmitAlert(c)
    <3>1. PICK c \in Clients : Begin(c) \/ Continue(c) \/ Fail(c)
      BY DEF Next
    <3>2. ~EndHold(c)
      BY DEF EndHold, Raise, TypeOK, AlertType
    <3> QED
      BY <3>1, <3>2 DEF Begin, Continue, Fail, StartRead, StartWrite, CancelRead,
         CancelWrite, MarkAbsentRead, MarkAbsentWrite, UnmarkAbsentRead,
         UnmarkAbsentWrite, SubmitUpsert, SubmitDone, EndRead, EndClear,
         EndUnaccounted, DropRead, DropRows, DropCommit, ResolveRead, ResolveCommit,
         GateClear, GateBlocked, Complete, CompleteNoop, EmitTripEnded, alertVars
  <2>2. s \in found[c]
    BY <2>1 DEF SubmitAlert, Raise, TypeOK, AlertType
  <2>3. entries[c][s] = "none" /\ attendance[s] # "absent_parent_marked"
    BY <2>1, <2>2 DEF SubmitAlert, MissingInv
  <2> QED
    BY <2>1, <2>3 DEF SubmitAlert, Upserted
<1> QED
  BY <1>1, <1>2, <1>3, TypeCorrect, PTL DEF Spec, NoAlertForExcused

\* The rows a drop-off is about to commit are of children it names.
DropsNamed == \A c \in Clients : pc[c] = "drop_commit" => found[c] \subseteq named[c]

\* A dropped child has no unresolved child_not_dropped alert: the drop resolves it, and
\* the gate, which raises them, found the child before it was dropped.
\* (drop_students, end_trip)
THEOREM SerialDropped == SoleClient => (Spec => []DroppedHasNoOpenAlert)
<1> SUFFICES ASSUME SoleClient PROVE Spec => []DroppedHasNoOpenAlert
  OBVIOUS
<1> DEFINE DInv == DropsNamed /\ DroppedHasNoOpenAlert
<1>1. Init => DInv
  BY DEF Init, DropsNamed, DroppedHasNoOpenAlert
<1>2. TypeOK /\ SerialInv /\ DInv /\ [Next]_vars => DInv'
  <2> SUFFICES ASSUME TypeOK, SerialInv, DInv, [Next]_vars PROVE DInv'
    OBVIOUS
  <2>1. CASE UNCHANGED vars
    BY <2>1 DEF vars, DropsNamed, DroppedHasNoOpenAlert, OpenAlert
  <2>2. CASE Next
    <3>1. PICK c \in Clients : Begin(c) \/ Continue(c) \/ Fail(c)
      BY <2>2 DEF Next
    <3>2. DropsNamed'
      <4> SUFFICES ASSUME pc'[c] = "drop_commit" PROVE found'[c] \subseteq named'[c]
        BY DEF SoleClient, DropsNamed
      <4>1. DropRows(c)
        BY <3>1 DEF Begin, Continue, Fail, StartRead, StartWrite, CancelRead,
           CancelWrite, MarkAbsentRead, MarkAbsentWrite, UnmarkAbsentRead,
           UnmarkAbsentWrite, SubmitUpsert, SubmitAlert, SubmitDone, EndRead, EndClear,
           EndUnaccounted, EndHold, DropRead, DropCommit, ResolveRead, ResolveCommit,
           GateClear, GateBlocked, Complete, CompleteNoop, EmitTripEnded, Return, Step,
           TypeOK
      <4> QED
        BY <4>1 DEF DropRows, TypeOK
    <3>3. CASE EndHold(c)
      <4>1. found[c] = Unaccounted /\ dropped' = dropped
        BY <3>3 DEF EndHold, Return, Step, SerialInv, Knows, rowVars
      <4>2. \A s \in dropped : ~\E a \in open' : a[1] = "child_not_dropped" /\ a[2] = s
        BY <3>3, <4>1 DEF EndHold, Raise, Unaccounted, DroppedHasNoOpenAlert, OpenAlert
      <4> QED
        BY <3>2, <4>1, <4>2 DEF DroppedHasNoOpenAlert, OpenAlert
    <3>4. CASE SubmitAlert(c)
      <4>1. PICK s \in found[c] : Raise("child_not_boarded", {s})
        BY <3>4 DEF SubmitAlert
      <4>2. dropped' = dropped
        BY <3>4 DEF SubmitAlert
      <4>3. \A a \in open' : a[1] = "child_not_dropped" => a \in open
        BY <4>1 DEF Raise
      <4> QED
        BY <3>2, <4>2, <4>3 DEF DroppedHasNoOpenAlert, OpenAlert
    <3>5. CASE DropCommit(c)
      <4>1. found[c] \subseteq named[c]
        BY <3>5 DEF DropCommit, Step, DropsNamed
      <4>2. /\ dropped' = dropped \cup found[c]
            /\ open' = {a \in open : ~(a[1] = "child_not_dropped" /\ a[2] \in named[c])}
        BY <3>5 DEF DropCommit
      <4> QED
        BY <3>2, <4>1, <4>2 DEF DroppedHasNoOpenAlert, OpenAlert
    <3>6. CASE ~(EndHold(c) \/ SubmitAlert(c) \/ DropCommit(c))
      <4>1. dropped' \subseteq dropped /\ open' \subseteq open
        BY <3>1, <3>6 DEF Begin, Continue, Fail, StartRead, StartWrite, CancelRead,
           CancelWrite, MarkAbsentRead, MarkAbsentWrite, UnmarkAbsentRead,
           UnmarkAbsentWrite, SubmitUpsert, SubmitDone, EndRead, EndClear,
           EndUnaccounted, DropRead, DropRows, ResolveRead, ResolveCommit, GateClear,
           GateBlocked, Complete, CompleteNoop, EmitTripEnded, rowVars, alertVars
      <4> QED
        BY <3>2, <4>1 DEF DroppedHasNoOpenAlert, OpenAlert
    <3> QED
      BY <3>3, <3>4, <3>5, <3>6
  <2> QED
    BY <2>1, <2>2
<1> QED
  BY <1>1, <1>2, TypeCorrect, SerialKnowledge, PTL DEF Spec

=============================================================================
