------------------------- MODULE GpsTracking_proofs -------------------------
(***************************************************************************)
(* Theorems about GpsTracking, for any points and any number of faults:    *)
(* type correctness, KeptUntilInserted and StoredOnce, and that what fell  *)
(* back from Redis to PostgreSQL is stored.                                *)
(*                                                                         *)
(* What KeptUntilInserted needs is that a flush about to trim has read a   *)
(* prefix of the list (ReadPrefix).  What StoredOnce needs beyond that is  *)
(* that no point is in the list twice, nor in the list and in the flush    *)
(* that trimmed it (Apart), and how often its handler can have stored it   *)
(* (Budget).                                                               *)
(***************************************************************************)
EXTENDS GpsTracking, FiniteSetTheorems, TLAPS

\* What the invariants about points read.
Stable ==
  UNCHANGED <<handler, buffer, rows, flusher, batch, pushed, refiled, dropped>>

\* The steps that move a point, and all others.
LEMMA Steps ==
  ASSUME [Next]_vars
  PROVE  \/ \E p \in Points :
              \/ Refuse(p) \/ Push(p) \/ PushFails(p)
              \/ SetLast(p) \/ SetLastFails(p) \/ SetLastUnanswered(p)
              \/ Write(p) \/ WriteFails(p) \/ Broadcast(p)
         \/ EndProcess \/ Shutdown
         \/ FlushStart \/ FlushNothing \/ FlushRedisFails
         \/ FlushRead \/ FlushTrim \/ FlushTrimUnanswered
         \/ FlushInsert \/ FlushInsertFails
         \/ Stable
<1>1. CASE \E p \in Points :
             \/ Refuse(p) \/ Push(p) \/ PushFails(p)
             \/ Handler(p)
             \/ SetLastFails(p) \/ SetLastUnanswered(p) \/ WriteFails(p)
  BY <1>1 DEF Handler
<1>2. CASE Flush \/ FlushTrimUnanswered \/ FlushRedisFails \/ FlushInsertFails
  BY <1>2 DEF Flush
<1>3. CASE PauseCheck \/ CheckFails
  BY <1>3 DEF PauseCheck, CheckFails, CheckRead, CheckEmit, CheckSet,
     CheckClear, Check, Stable, store, flush, history
<1>4. CASE Exit
  BY <1>4 DEF Exit
<1>5. CASE Shutdown
  BY <1>5
<1>6. CASE Start \/ Age \/ FlagExpires
  BY <1>6 DEF Start, Age, FlagExpires, Stable, store, flush, history
<1>7. CASE Open \/ Join \/ Close \/ Disconnect \/ Reconnect
  BY <1>7 DEF Open, Join, Close, Disconnect, Reconnect, View, Stable, store,
     flush, history
<1>8. CASE UNCHANGED vars
  BY <1>8 DEF vars, Stable, store, flush, history
<1>9. QED
  BY <1>1, <1>2, <1>3, <1>4, <1>5, <1>6, <1>7, <1>8 DEF Next

-----------------------------------------------------------------------------
(* Sequences of points *)

Distinct(s) == \A i, j \in 1..Len(s) : s[i] = s[j] => i = j

Prefix(s, t) == Len(s) <= Len(t) /\ \A i \in 1..Len(s) : s[i] = t[i]

\* RPUSH.
LEMMA Pushed ==
  ASSUME NEW s \in Seq(Points), NEW p \in Points
  PROVE  /\ Append(s, p) \in Seq(Points)
         /\ Elements(Append(s, p)) = Elements(s) \cup {p}
         /\ \A t \in Seq(Points) : Prefix(t, s) => Prefix(t, Append(s, p))
         /\ Distinct(s) /\ p \notin Elements(s) => Distinct(Append(s, p))
<1> DEFINE u == Append(s, p)
<1>1. /\ u \in Seq(Points)
      /\ Len(u) = Len(s) + 1
      /\ \A i \in 1..Len(s) : u[i] = s[i]
      /\ u[Len(s) + 1] = p
  OBVIOUS
<1>2. Len(s) \in Nat
  OBVIOUS
<1> HIDE DEF u
<1>3. Elements(u) = Elements(s) \cup {p}
  <2>1. 1..Len(u) = (1..Len(s)) \cup {Len(s) + 1}
    BY <1>1, <1>2
  <2>2. QED
    BY <1>1, <2>1 DEF Elements
<1>4. ASSUME NEW t \in Seq(Points), Prefix(t, s)
      PROVE  Prefix(t, u)
  BY <1>1, <1>2, <1>4 DEF Prefix
<1>5. ASSUME Distinct(s), p \notin Elements(s)
      PROVE  Distinct(u)
  BY <1>1, <1>2, <1>5 DEF Distinct, Elements
<1>6. QED
  BY <1>1, <1>3, <1>4, <1>5 DEF u

\* LTRIM n -1, after LRANGE 0 -1 returned the n points of s.
LEMMA Trimmed ==
  ASSUME NEW s \in Seq(Points), NEW t \in Seq(Points), Prefix(s, t)
  PROVE  LET rest == SubSeq(t, Len(s) + 1, Len(t))
         IN  /\ rest \in Seq(Points)
             /\ Elements(t) = Elements(s) \cup Elements(rest)
             /\ Distinct(t) => Distinct(s) /\ Distinct(rest)
             /\ Distinct(t) => Elements(s) \cap Elements(rest) = {}
<1> DEFINE rest == SubSeq(t, Len(s) + 1, Len(t))
<1>1. /\ Len(s) \in Nat
      /\ Len(t) \in Nat
      /\ Len(s) <= Len(t)
      /\ \A i \in 1..Len(s) : s[i] = t[i]
  BY DEF Prefix
<1>2. /\ rest \in Seq(Points)
      /\ Len(rest) = Len(t) - Len(s)
      /\ \A i \in 1..(Len(t) - Len(s)) : rest[i] = t[Len(s) + i]
  BY <1>1
<1> HIDE DEF rest
<1>3. Elements(t) = Elements(s) \cup Elements(rest)
  <2>1. ASSUME NEW i \in 1..Len(t)
        PROVE  t[i] \in Elements(s) \cup Elements(rest)
    <3>1. CASE i <= Len(s)
      BY <1>1, <3>1 DEF Elements
    <3>2. CASE i > Len(s)
      <4>1. i - Len(s) \in 1..(Len(t) - Len(s))
        BY <1>1, <3>2
      <4>2. rest[i - Len(s)] = t[i]
        BY <1>1, <1>2, <4>1
      <4>3. QED
        BY <1>2, <4>1, <4>2 DEF Elements
    <3>3. QED
      BY <1>1, <3>1, <3>2
  <2>2. ASSUME NEW i \in 1..Len(s)
        PROVE  s[i] \in Elements(t)
    BY <1>1 DEF Elements
  <2>3. ASSUME NEW i \in 1..Len(rest)
        PROVE  rest[i] \in Elements(t)
    <3>1. Len(s) + i \in 1..Len(t)
      BY <1>1, <1>2
    <3>2. rest[i] = t[Len(s) + i]
      BY <1>2
    <3>3. QED
      BY <3>1, <3>2 DEF Elements
  <2>4. QED
    BY <2>1, <2>2, <2>3 DEF Elements
<1>4. ASSUME Distinct(t)
      PROVE  Distinct(s) /\ Distinct(rest) /\ Elements(s) \cap Elements(rest) = {}
  <2>1. Distinct(s)
    BY <1>1, <1>4 DEF Distinct
  <2>2. ASSUME NEW i \in 1..Len(rest), NEW j \in 1..Len(rest), rest[i] = rest[j]
        PROVE  i = j
    <3>1. /\ Len(s) + i \in 1..Len(t)
          /\ Len(s) + j \in 1..Len(t)
          /\ t[Len(s) + i] = t[Len(s) + j]
      BY <1>1, <1>2, <2>2
    <3>2. Len(s) + i = Len(s) + j
      BY <1>4, <3>1 DEF Distinct
    <3>3. QED
      BY <1>1, <3>2
  <2>3. ASSUME NEW i \in 1..Len(s), NEW j \in 1..Len(rest), s[i] = rest[j]
        PROVE  FALSE
    <3>1. /\ i \in 1..Len(t)
          /\ Len(s) + j \in 1..Len(t)
          /\ t[i] = t[Len(s) + j]
      BY <1>1, <1>2, <2>3
    <3>2. i = Len(s) + j
      BY <1>4, <3>1 DEF Distinct
    <3>3. QED
      BY <1>1, <3>2
  <2>4. QED
    BY <2>1, <2>2, <2>3 DEF Distinct, Elements
<1>5. QED
  BY <1>2, <1>3, <1>4 DEF rest

\* How often a point is in a list.
LEMMA CopiesOf ==
  ASSUME NEW s \in Seq(Points), NEW p
  PROVE  /\ Copies(s, p) \in Nat
         /\ p \in Elements(s) => Copies(s, p) > 0
         /\ p \notin Elements(s) => Copies(s, p) = 0
         /\ Distinct(s) => Copies(s, p) <= 1
<1> DEFINE I == {i \in 1..Len(s) : s[i] = p}
<1>1. Len(s) \in Nat
  OBVIOUS
<1>2. IsFiniteSet(I)
  <2>1. 1 \in Int /\ Len(s) \in Int
    BY <1>1
  <2>2. IsFiniteSet(1..Len(s))
    BY <2>1, FS_Interval, Zenon
  <2>3. I \subseteq 1..Len(s)
    OBVIOUS
  <2>4. QED
    BY <2>2, <2>3, FS_Subset, Zenon
<1>3. Cardinality(I) \in Nat
  BY <1>2, FS_CardinalityType, Zenon
<1>4. p \notin Elements(s) => I = {}
  BY DEF Elements
<1>5. p \in Elements(s) => I # {}
  BY DEF Elements
<1>6. Cardinality(I) = 0 <=> I = {}
  BY <1>2, FS_EmptySet, Zenon
<1>7. ASSUME Distinct(s), I # {}
      PROVE  Cardinality(I) = 1
  <2>1. PICK i \in I : TRUE
    BY <1>7
  <2>2. I = {i}
    BY <1>7, <2>1 DEF Distinct
  <2>3. QED
    BY <2>2, FS_Singleton, Zenon
<1>8. Copies(s, p) = Cardinality(I)
  BY DEF Copies
<1> HIDE DEF I
<1>9. QED
  BY <1>3, <1>4, <1>5, <1>6, <1>7, <1>8

-----------------------------------------------------------------------------
(* Type correctness *)

\* Points in the list, in the flush and in the histories are points; every
\* variable keeps its type.
THEOREM TypeCorrect == Spec => []TypeOK
<1>0. <<>> \in Seq(Points)
  OBVIOUS
<1>1. Init => TypeOK
  <2> SUFFICES ASSUME Init
               PROVE  TypeOK
    OBVIOUS
  <2>1. buffer \in Seq(Points) /\ batch \in Seq(Points)
    BY <1>0 DEF Init
  <2>2. handler \in [Points -> HandlerPC] /\ rows \in [Points -> Nat]
    BY DEF Init, HandlerPC
  <2>3. flag \in BOOLEAN /\ banner \in BOOLEAN
    BY DEF Init
  <2>4. QED
    BY <2>1, <2>2, <2>3 DEF Init, TypeOK, FlusherPC, CheckerPC, ViewerState
<1>2. TypeOK /\ [Next]_vars => TypeOK'
  <2> SUFFICES ASSUME TypeOK, [Next]_vars
               PROVE  TypeOK'
    OBVIOUS
  <2> USE DEF TypeOK, store, flush, pause, parent, history
  <2>1. ASSUME NEW p \in Points, Push(p) \/ Handler(p)
        PROVE  TypeOK'
    <3>1. CASE Push(p)
      <4>1. Append(buffer, p) \in Seq(Points)
        BY Pushed
      <4>2. QED
        BY <3>1, <4>1 DEF Push, Handle, HandlerPC
    <3>2. CASE Write(p)
      BY <3>2 DEF Write, Handle, HandlerPC
    <3>3. CASE SetLast(p) \/ Broadcast(p)
      BY <3>3 DEF SetLast, Broadcast, Handle, HandlerPC
    <3>4. QED
      BY <2>1, <3>1, <3>2, <3>3 DEF Handler
  <2>2. ASSUME NEW p \in Points,
               \/ Refuse(p) \/ PushFails(p)
               \/ SetLastFails(p) \/ SetLastUnanswered(p) \/ WriteFails(p)
        PROVE  TypeOK'
    <3>1. CASE Refuse(p) \/ PushFails(p)
      <4>1. handler' \in [Points -> HandlerPC]
        BY <3>1 DEF Refuse, PushFails, Handle, HandlerPC
      <4>2. faults' \in Nat
        BY <3>1 DEF Refuse, PushFails, Fault
      <4>3. UNCHANGED <<process, store, flush, last, pause, parent, history>>
        BY <3>1 DEF Refuse, PushFails
      <4>4. QED
        BY <4>1, <4>2, <4>3
    <3>2. CASE SetLastFails(p) \/ SetLastUnanswered(p)
      BY <3>2 DEF SetLastFails, SetLastUnanswered, Handle, Fault, HandlerPC
    <3>3. CASE WriteFails(p)
      BY <3>3 DEF WriteFails, Handle, Fault, HandlerPC
    <3>4. QED
      BY <2>2, <3>1, <3>2, <3>3
  <2>3. InFlight \subseteq Points
    BY DEF InFlight, Elements
  <2>4. CASE Exit
    <3>1. EndProcess /\ faults' = faults
      BY <2>4 DEF Exit
    <3>2. QED
      BY <1>0, <2>3, <3>1 DEF EndProcess, HandlerPC, FlusherPC, CheckerPC,
         ViewerState
  <2>5. CASE Shutdown \/ Start
    <3>1. batch' \in Seq(Points)
      BY <1>0, <2>5 DEF Shutdown, Start
    <3>2. dropped' \subseteq Points
      BY <2>3, <2>5 DEF Shutdown, Start
    <3>3. QED
      BY <2>5, <3>1, <3>2 DEF Shutdown, Start, Fault, FlusherPC
  <2>6. CASE FlushStart \/ FlushRead \/ FlushNothing \/ FlushRedisFails
    <3>1. batch' \in Seq(Points)
      BY <1>0, <2>6 DEF FlushStart, FlushRead, FlushNothing, FlushRedisFails,
         FlushOver
    <3>2. faults' \in Nat
      BY <2>6 DEF FlushStart, FlushRead, FlushNothing, FlushRedisFails, Fault
    <3>3. QED
      BY <2>6, <3>1, <3>2 DEF FlushStart, FlushRead, FlushNothing,
         FlushRedisFails, FlushOver, FlusherPC
  <2>7. CASE FlushTrim \/ FlushTrimUnanswered
    <3>1. SubSeq(buffer, Len(batch) + 1, Len(buffer)) \in Seq(Points)
      OBVIOUS
    <3>2. CASE FlushTrim
      BY <2>7, <3>1, <3>2 DEF FlushTrim, FlusherPC
    <3>3. CASE FlushTrimUnanswered
      <4>1. Elements(batch) \subseteq Points
        BY DEF Elements
      <4>2. QED
        BY <1>0, <3>1, <3>3, <4>1 DEF FlushTrimUnanswered, FlushOver, Fault,
           FlusherPC
    <3>4. QED
      BY <2>7, <3>2, <3>3
  <2>8. CASE FlushInsert
    <3>1. \A p \in Points : Copies(batch, p) \in Nat
      BY CopiesOf
    <3>2. rows' \in [Points -> Nat]
      BY <2>8, <3>1 DEF FlushInsert
    <3>3. QED
      BY <1>0, <2>8, <3>2 DEF FlushInsert, FlushOver, FlusherPC
  <2>9. CASE FlushInsertFails
    BY <1>0, <2>3, <2>9 DEF FlushInsertFails, FlushOver, Fault, FlusherPC
  <2>10. CASE PauseCheck \/ CheckFails
    <3>1. CASE CheckRead \/ CheckFails
      BY <3>1 DEF CheckRead, CheckFails, Check, Fault, CheckerPC
    <3>2. CASE CheckEmit \/ CheckSet \/ CheckClear
      BY <3>2 DEF CheckEmit, CheckSet, CheckClear, Check, CheckerPC
    <3>3. QED
      BY <2>10, <3>1, <3>2 DEF PauseCheck
  <2>11. CASE Age \/ FlagExpires
    BY <2>11 DEF Age, FlagExpires
  <2>12. CASE Open \/ Join \/ Close \/ Disconnect \/ Reconnect
    BY <2>12 DEF Open, Join, Close, Disconnect, Reconnect, View, ViewerState
  <2>13. CASE UNCHANGED vars
    BY <2>13 DEF vars
  <2>14. QED
    BY <2>1, <2>2, <2>4, <2>5, <2>6, <2>7, <2>8, <2>9, <2>10, <2>11, <2>12,
       <2>13 DEF Next, Flush
<1>3. QED
  BY <1>1, <1>2, PTL DEF Spec

-----------------------------------------------------------------------------
(* Every stored point is somewhere *)

\* A flush about to trim has read the first points of the list.
ReadPrefix == flusher = "trim" => Prefix(batch, buffer)

LEMMA PrefixInductive ==
  ASSUME TypeOK, ReadPrefix, [Next]_vars
  PROVE  ReadPrefix'
<1> USE DEF TypeOK, ReadPrefix, store, flush, history
<1>1. ASSUME NEW p \in Points,
             \/ Refuse(p) \/ PushFails(p) \/ SetLast(p)
             \/ SetLastFails(p) \/ SetLastUnanswered(p)
             \/ Write(p) \/ WriteFails(p) \/ Broadcast(p)
      PROVE  ReadPrefix'
  BY <1>1 DEF Refuse, PushFails, SetLast, SetLastFails, SetLastUnanswered,
     Write, WriteFails,
     Broadcast
<1>2. ASSUME NEW p \in Points, Push(p)
      PROVE  ReadPrefix'
  BY <1>2, Pushed DEF Push
<1>3. CASE FlushRead
  BY <1>3 DEF FlushRead, Prefix
<1>4. CASE EndProcess \/ Shutdown \/ FlushStart \/ FlushTrim
  BY <1>4 DEF EndProcess, Shutdown, FlushStart, FlushTrim
<1>5. CASE \/ FlushNothing \/ FlushRedisFails \/ FlushTrimUnanswered
           \/ FlushInsert \/ FlushInsertFails
  BY <1>5 DEF FlushNothing, FlushRedisFails, FlushTrimUnanswered, FlushInsert,
     FlushInsertFails, FlushOver
<1>6. CASE Stable
  BY <1>6 DEF Stable
<1>7. QED
  BY <1>1, <1>2, <1>3, <1>4, <1>5, <1>6, Steps

\* However handlers, flush and shutdown interleave and whatever fails, a point
\* that a handler stored is in Redis, in the flush or in gps_logs, unless its
\* INSERT failed, was cut off or was never made.
THEOREM Keeping == Spec => []KeptUntilInserted
<1>1. Init => KeptUntilInserted /\ ReadPrefix
  BY DEF Init, KeptUntilInserted, ReadPrefix
<1>2. TypeOK /\ ReadPrefix /\ KeptUntilInserted /\ [Next]_vars
        => KeptUntilInserted'
  <2> SUFFICES ASSUME TypeOK, ReadPrefix, KeptUntilInserted, [Next]_vars,
                      NEW p \in Points,
                      (handler[p] \in {"last", "emit", "done"} \/ p \in pushed)'
               PROVE  Kept(p)' \/ p \in dropped'
    BY DEF KeptUntilInserted
  <2> USE DEF TypeOK, store, flush, history
  <2>1. ASSUME handler[p] \in {"last", "emit", "done"} \/ p \in pushed
        PROVE  Kept(p) \/ p \in dropped
    BY <2>1 DEF KeptUntilInserted
  <2>2. ASSUME NEW q \in Points,
               \/ Refuse(q) \/ PushFails(q) \/ SetLast(q)
               \/ SetLastFails(q) \/ SetLastUnanswered(q)
               \/ WriteFails(q) \/ Broadcast(q)
        PROVE  Kept(p)' \/ p \in dropped'
    <3>1. UNCHANGED <<buffer, rows, flusher, batch>> /\ dropped \subseteq dropped'
      BY <2>2 DEF Refuse, PushFails, SetLast, SetLastFails, SetLastUnanswered,
         WriteFails, Broadcast
    <3>2. \/ handler[p] \in {"last", "emit", "done"} \/ p \in pushed
          \/ p \in dropped'
      BY <2>2 DEF Refuse, PushFails, SetLast, SetLastFails, SetLastUnanswered,
         WriteFails, Broadcast,
         Handle, HandlerPC
    <3>3. QED
      BY <2>1, <3>1, <3>2 DEF Kept, InFlight
  <2>3. ASSUME NEW q \in Points, Push(q)
        PROVE  Kept(p)' \/ p \in dropped'
    <3>1. Elements(buffer') = Elements(buffer) \cup {q}
      BY <2>3, Pushed DEF Push
    <3>2. \/ p = q
          \/ handler[p] \in {"last", "emit", "done"} \/ p \in pushed
      BY <2>3 DEF Push, Handle
    <3>3. UNCHANGED <<rows, flusher, batch, dropped>>
      BY <2>3 DEF Push
    <3>4. QED
      BY <2>1, <3>1, <3>2, <3>3 DEF Kept, InFlight
  <2>4. ASSUME NEW q \in Points, Write(q)
        PROVE  Kept(p)' \/ p \in dropped'
    <3>1. /\ UNCHANGED <<buffer, flusher, batch, dropped>>
          /\ rows'[p] = IF p = q THEN rows[p] + 1 ELSE rows[p]
      BY <2>4 DEF Write
    <3>2. \/ p = q
          \/ handler[p] \in {"last", "emit", "done"} \/ p \in pushed
      BY <2>4 DEF Write, Handle
    <3>3. rows[p] \in Nat
      OBVIOUS
    <3>4. QED
      BY <2>1, <3>1, <3>2, <3>3 DEF Kept, InFlight
  <2>5. CASE EndProcess \/ Shutdown
    <3>1. /\ UNCHANGED <<buffer, rows, pushed>>
          /\ dropped' = dropped \cup InFlight
          /\ handler'[p] \in {"last", "emit", "done"}
               => handler[p] \in {"last", "emit", "done"}
      BY <2>5 DEF EndProcess, Shutdown
    <3>2. QED
      BY <2>1, <3>1 DEF Kept
  <2>6. CASE FlushStart \/ FlushNothing \/ FlushRedisFails \/ FlushRead
    <3>1. /\ UNCHANGED <<handler, buffer, rows, pushed, dropped>>
          /\ flusher # "insert"
      BY <2>6 DEF FlushStart, FlushNothing, FlushRedisFails, FlushRead,
         FlushOver
    <3>2. QED
      BY <2>1, <3>1 DEF Kept, InFlight
  <2>7. CASE FlushTrim
    <3>1. /\ flusher = "trim"
          /\ flusher' = "insert"
          /\ UNCHANGED <<handler, rows, batch, pushed, dropped>>
          /\ buffer' = SubSeq(buffer, Len(batch) + 1, Len(buffer))
      BY <2>7 DEF FlushTrim
    <3>2. Elements(buffer) = Elements(batch) \cup Elements(buffer')
      BY <3>1, Trimmed DEF ReadPrefix
    <3>3. QED
      BY <2>1, <3>1, <3>2 DEF Kept, InFlight
  <2>8. CASE FlushInsert
    <3>1. /\ flusher = "insert"
          /\ UNCHANGED <<handler, buffer, pushed, dropped>>
          /\ rows'[p] = rows[p] + Copies(batch, p)
      BY <2>8 DEF FlushInsert, FlushOver
    <3>2. /\ Copies(batch, p) \in Nat
          /\ p \in Elements(batch) => Copies(batch, p) > 0
      BY CopiesOf
    <3>3. rows[p] \in Nat
      OBVIOUS
    <3>4. QED
      BY <2>1, <3>1, <3>2, <3>3 DEF Kept, InFlight
  <2>9. CASE FlushInsertFails
    <3>1. /\ UNCHANGED <<handler, buffer, rows, pushed>>
          /\ dropped' = dropped \cup InFlight
      BY <2>9 DEF FlushInsertFails, FlushOver
    <3>2. QED
      BY <2>1, <3>1 DEF Kept
  <2>10. CASE Stable
    BY <2>1, <2>10 DEF Stable, Kept, InFlight
  <2>11. CASE FlushTrimUnanswered
    <3>1. /\ flusher = "trim"
          /\ UNCHANGED <<handler, rows, pushed>>
          /\ dropped' = dropped \cup Elements(batch)
          /\ buffer' = SubSeq(buffer, Len(batch) + 1, Len(buffer))
      BY <2>11 DEF FlushTrimUnanswered, FlushOver
    <3>2. Elements(buffer) = Elements(batch) \cup Elements(buffer')
      BY <3>1, Trimmed DEF ReadPrefix
    <3>3. QED
      BY <2>1, <3>1, <3>2 DEF Kept, InFlight
  <2>12. QED
    BY <2>2, <2>3, <2>4, <2>5, <2>6, <2>7, <2>8, <2>9, <2>10, <2>11, Steps
<1>3. QED
  BY <1>1, <1>2, PrefixInductive, TypeCorrect, PTL DEF Spec

-----------------------------------------------------------------------------
(* No point is stored more often than its handler tried *)

\* No point is twice in the list, twice in the flush, or in the list after the
\* flush has trimmed it.
Apart ==
  /\ Distinct(buffer) /\ Distinct(batch)
  /\ Elements(buffer) \subseteq pushed /\ Elements(batch) \subseteq pushed
  /\ flusher = "insert" => Elements(batch) \cap Elements(buffer) = {}

\* Where a handler is tells whether its point was pushed, and pushed in vain.
Tracked ==
  \A p \in Points :
    /\ handler[p] = "unsent" => p \notin pushed /\ p \notin refiled
    /\ handler[p] = "last" => p \in pushed /\ p \notin refiled
    /\ handler[p] = "write" => p \notin pushed \/ p \in refiled

One(condition) == IF condition THEN 1 ELSE 0

Stores(p) == rows[p] + One(p \in Elements(buffer)) + One(p \in InFlight)

\* How often the handler of a point may have stored it: the push, and the write
\* that replaced it.
Budget(p) ==
  One(p \in pushed)
    + One(handler[p] \in {"emit", "done", "gone"}
            /\ (p \notin pushed \/ p \in refiled))

WithinBudget == \A p \in Points : Stores(p) <= Budget(p)

LEMMA ApartInductive ==
  ASSUME TypeOK, ReadPrefix, Tracked, Apart, [Next]_vars
  PROVE  Apart'
<1> USE DEF TypeOK, Apart, store, flush, history
<1>0. Distinct(<<>>) /\ Elements(<<>>) = {}
  BY DEF Distinct, Elements
<1>1. ASSUME NEW p \in Points,
             \/ Refuse(p) \/ PushFails(p) \/ SetLast(p)
             \/ SetLastFails(p) \/ SetLastUnanswered(p)
             \/ Write(p) \/ WriteFails(p) \/ Broadcast(p)
      PROVE  Apart'
  BY <1>1 DEF Refuse, PushFails, SetLast, SetLastFails, SetLastUnanswered,
     Write, WriteFails,
     Broadcast
<1>2. ASSUME NEW p \in Points, Push(p)
      PROVE  Apart'
  <2>1. p \notin pushed
    BY <1>2 DEF Push, Handle, Tracked
  <2>2. /\ Elements(buffer') = Elements(buffer) \cup {p}
        /\ Distinct(buffer')
    BY <1>2, <2>1, Pushed DEF Push
  <2>3. pushed' = pushed \cup {p} /\ UNCHANGED <<flusher, batch>>
    BY <1>2 DEF Push
  <2>4. QED
    BY <2>1, <2>2, <2>3
<1>3. CASE FlushRead
  BY <1>3 DEF FlushRead
<1>4. CASE EndProcess \/ Shutdown
  BY <1>0, <1>4 DEF EndProcess, Shutdown
<1>5. CASE FlushNothing \/ FlushRedisFails \/ FlushInsert \/ FlushInsertFails
  BY <1>0, <1>5 DEF FlushNothing, FlushRedisFails, FlushInsert,
     FlushInsertFails, FlushOver
<1>6. CASE FlushTrim \/ FlushTrimUnanswered
  <2>1. /\ flusher = "trim"
        /\ batch' = batch \/ (batch' = <<>> /\ flusher' = "sleep")
        /\ pushed' = pushed
        /\ buffer' = SubSeq(buffer, Len(batch) + 1, Len(buffer))
    BY <1>6 DEF FlushTrim, FlushTrimUnanswered, FlushOver
  <2>2. /\ Elements(buffer) = Elements(batch) \cup Elements(buffer')
        /\ Distinct(buffer')
        /\ Elements(batch) \cap Elements(buffer') = {}
    BY <2>1, Trimmed DEF ReadPrefix
  <2>3. QED
    BY <1>0, <2>1, <2>2
<1>7. CASE FlushStart
  BY <1>7 DEF FlushStart
<1>8. CASE Stable
  BY <1>8 DEF Stable
<1>9. QED
  BY <1>1, <1>2, <1>3, <1>4, <1>5, <1>6, <1>7, <1>8, Steps

LEMMA TrackedInductive ==
  ASSUME TypeOK, Tracked, [Next]_vars
  PROVE  Tracked'
<1> USE DEF TypeOK, Tracked, store, flush, history
<1>1. ASSUME NEW p \in Points,
             \/ Refuse(p) \/ Push(p) \/ PushFails(p)
             \/ SetLast(p) \/ SetLastFails(p) \/ SetLastUnanswered(p)
             \/ Write(p) \/ WriteFails(p) \/ Broadcast(p)
      PROVE  Tracked'
  BY <1>1 DEF Refuse, Push, PushFails, SetLast, SetLastFails,
     SetLastUnanswered, Write, WriteFails,
     Broadcast, Handle
<1>2. CASE EndProcess
  BY <1>2 DEF EndProcess
<1>3. CASE Shutdown \/ FlushStart \/ FlushRead \/ FlushTrim
  BY <1>3 DEF Shutdown, FlushStart, FlushRead, FlushTrim
<1>4. CASE \/ FlushNothing \/ FlushRedisFails \/ FlushTrimUnanswered
           \/ FlushInsert \/ FlushInsertFails
  BY <1>4 DEF FlushNothing, FlushRedisFails, FlushTrimUnanswered, FlushInsert,
     FlushInsertFails, FlushOver
<1>5. CASE Stable
  BY <1>5 DEF Stable
<1>6. QED
  BY <1>1, <1>2, <1>3, <1>4, <1>5, Steps

LEMMA BudgetInductive ==
  ASSUME TypeOK, ReadPrefix, Tracked, Apart, WithinBudget, [Next]_vars
  PROVE  WithinBudget'
<1> SUFFICES ASSUME NEW p \in Points
             PROVE  Stores(p)' <= Budget(p)'
  BY DEF WithinBudget
<1> USE DEF TypeOK, store, flush, history
<1>0. /\ rows[p] \in Nat
      /\ Stores(p) <= Budget(p)
  BY DEF WithinBudget
<1>1. ASSUME NEW q \in Points,
             \/ Refuse(q) \/ PushFails(q) \/ SetLast(q)
             \/ SetLastFails(q) \/ SetLastUnanswered(q)
             \/ WriteFails(q) \/ Broadcast(q)
      PROVE  Stores(p)' <= Budget(p)'
  <2>1. Stores(p)' = Stores(p)
    BY <1>1 DEF Refuse, PushFails, SetLast, SetLastFails, SetLastUnanswered,
       WriteFails, Broadcast,
       Stores, InFlight
  <2>2. /\ pushed' = pushed
        /\ \/ handler'[p] = handler[p] /\ (p \in refiled => p \in refiled')
           \/ handler[p] \in {"unsent", "last", "write"}
           \/ handler'[p] = "done" /\ handler[p] = "emit" /\ refiled' = refiled
    BY <1>1 DEF Refuse, PushFails, SetLast, SetLastFails, SetLastUnanswered,
       WriteFails, Broadcast,
       Handle
  <2>3. Budget(p) <= Budget(p)'
    BY <2>2 DEF Budget, One
  <2>4. QED
    BY <1>0, <2>1, <2>3 DEF Stores, Budget, One
<1>2. ASSUME NEW q \in Points, Push(q)
      PROVE  Stores(p)' <= Budget(p)'
  <2>1. /\ Elements(buffer') = Elements(buffer) \cup {q}
        /\ InFlight' = InFlight
        /\ rows' = rows
        /\ pushed' = pushed \cup {q}
        /\ refiled' = refiled
    BY <1>2, Pushed DEF Push, InFlight
  <2>2. CASE p = q
    <3>1. /\ handler[p] = "unsent"
          /\ p \notin pushed
      BY <1>2, <2>2 DEF Push, Handle, Tracked
    <3>2. Budget(p) = 0
      BY <3>1 DEF Budget, One
    <3>3. rows[p] = 0 /\ p \notin InFlight
      BY <1>0, <3>2 DEF Stores, One
    <3>4. Stores(p)' = 1
      BY <2>1, <2>2, <3>3 DEF Stores, One
    <3>5. Budget(p)' >= 1
      BY <2>1, <2>2 DEF Budget, One
    <3>6. QED
      BY <3>4, <3>5 DEF Budget, One
  <2>3. CASE p # q
    <3>1. handler'[p] = handler[p]
      BY <1>2, <2>3 DEF Push, Handle
    <3>2. Stores(p)' = Stores(p)
      BY <2>1, <2>3 DEF Stores
    <3>3. Budget(p)' = Budget(p)
      BY <2>1, <2>3, <3>1 DEF Budget
    <3>4. QED
      BY <1>0, <3>2, <3>3
  <2>4. QED
    BY <2>2, <2>3
<1>3. ASSUME NEW q \in Points, Write(q)
      PROVE  Stores(p)' <= Budget(p)'
  <2>1. /\ UNCHANGED <<buffer, flusher, batch, pushed, refiled>>
        /\ rows'[p] = IF p = q THEN rows[p] + 1 ELSE rows[p]
        /\ handler'[p] = IF p = q THEN "emit" ELSE handler[p]
        /\ handler[q] = "write"
    BY <1>3 DEF Write, Handle
  <2>2. CASE p = q
    <3>1. p \notin pushed \/ p \in refiled
      BY <2>1, <2>2 DEF Tracked
    <3>2. Budget(p)' = Budget(p) + 1
      BY <2>1, <2>2, <3>1 DEF Budget, One
    <3>3. Stores(p)' = Stores(p) + 1
      BY <1>0, <2>1, <2>2 DEF Stores, InFlight, One
    <3>4. QED
      BY <1>0, <3>2, <3>3 DEF Stores, Budget, One
  <2>3. CASE p # q
    BY <1>0, <2>1, <2>3 DEF Stores, Budget, InFlight
  <2>4. QED
    BY <2>2, <2>3
<1>4. CASE EndProcess \/ Shutdown
  <2>1. /\ UNCHANGED <<rows, buffer, pushed, refiled>>
        /\ InFlight' = {}
        /\ \/ handler'[p] = handler[p]
           \/ handler'[p] = "gone"
    BY <1>4 DEF EndProcess, Shutdown, InFlight
  <2>2. Stores(p)' <= Stores(p)
    BY <1>0, <2>1 DEF Stores, One
  <2>3. Budget(p) <= Budget(p)'
    BY <2>1 DEF Budget, One
  <2>4. QED
    BY <1>0, <2>1, <2>2, <2>3 DEF Stores, Budget, One
<1>5. CASE \/ FlushStart \/ FlushNothing \/ FlushRedisFails \/ FlushRead
           \/ FlushInsertFails
  <2>1. /\ UNCHANGED <<rows, buffer, pushed, refiled, handler>>
        /\ InFlight' = {}
    BY <1>5 DEF FlushStart, FlushNothing, FlushRedisFails, FlushRead,
       FlushInsertFails, FlushOver, InFlight
  <2>2. Stores(p)' <= Stores(p) /\ Budget(p)' = Budget(p)
    BY <1>0, <2>1 DEF Stores, Budget, One
  <2>3. QED
    BY <1>0, <2>1, <2>2 DEF Stores, Budget, One
<1>6. CASE FlushTrim
  <2>1. /\ flusher = "trim"
        /\ flusher' = "insert"
        /\ UNCHANGED <<rows, batch, pushed, refiled, handler>>
        /\ buffer' = SubSeq(buffer, Len(batch) + 1, Len(buffer))
    BY <1>6 DEF FlushTrim
  <2>2. /\ Elements(buffer) = Elements(batch) \cup Elements(buffer')
        /\ Elements(batch) \cap Elements(buffer') = {}
    BY <2>1, Trimmed DEF ReadPrefix, Apart
  <2>3. Stores(p)' = Stores(p)
    BY <1>0, <2>1, <2>2 DEF Stores, InFlight, One
  <2>4. Budget(p)' = Budget(p)
    BY <2>1 DEF Budget
  <2>5. QED
    BY <1>0, <2>3, <2>4
<1>7. CASE FlushInsert
  <2>1. /\ flusher = "insert"
        /\ flusher' = "sleep"
        /\ UNCHANGED <<buffer, pushed, refiled, handler>>
        /\ rows'[p] = rows[p] + Copies(batch, p)
    BY <1>7 DEF FlushInsert, FlushOver
  <2>2. /\ Copies(batch, p) \in Nat
        /\ Copies(batch, p) <= One(p \in Elements(batch))
    BY CopiesOf DEF Apart, One
  <2>3. Stores(p)' <= Stores(p)
    BY <1>0, <2>1, <2>2 DEF Stores, InFlight, One
  <2>4. Budget(p)' = Budget(p)
    BY <2>1 DEF Budget
  <2>5. QED
    BY <1>0, <2>1, <2>2, <2>3, <2>4 DEF Stores, Budget, One
<1>8. CASE FlushTrimUnanswered
  <2>1. /\ flusher = "trim"
        /\ flusher' = "sleep"
        /\ UNCHANGED <<rows, pushed, refiled, handler>>
        /\ buffer' = SubSeq(buffer, Len(batch) + 1, Len(buffer))
    BY <1>8 DEF FlushTrimUnanswered, FlushOver
  <2>2. Elements(buffer') \subseteq Elements(buffer)
    BY <2>1, Trimmed DEF ReadPrefix
  <2>3. Stores(p)' <= Stores(p) /\ Budget(p)' = Budget(p)
    BY <1>0, <2>1, <2>2 DEF Stores, Budget, InFlight, One
  <2>4. QED
    BY <1>0, <2>1, <2>3 DEF Stores, Budget, One
<1>9. CASE Stable
  BY <1>0, <1>9 DEF Stable, Stores, Budget, InFlight
<1>10. QED
  BY <1>1, <1>2, <1>3, <1>4, <1>5, <1>6, <1>7, <1>8, <1>9, Steps

\* However handlers, flush and shutdown interleave and whatever fails, a point
\* is stored once, or twice if Redis failed
\* between the push and the end of the SET.
THEOREM StoringOnce == Spec => []StoredOnce
<1>1. Init => ReadPrefix /\ Tracked /\ Apart /\ WithinBudget
  BY DEF Init, ReadPrefix, Tracked, Apart, Distinct, Elements, WithinBudget,
     Stores, Budget, One, InFlight
<1>2. ASSUME TypeOK, Apart, WithinBudget
      PROVE  StoredOnce
  <2> SUFFICES ASSUME NEW p \in Points
               PROVE  rows[p] + Copies(buffer, p)
                        + (IF p \in InFlight THEN 1 ELSE 0)
                          <= IF p \in refiled THEN 2 ELSE 1
    BY DEF StoredOnce
  <2>1. /\ Copies(buffer, p) \in Nat
        /\ Copies(buffer, p) <= One(p \in Elements(buffer))
    BY <1>2, CopiesOf DEF Apart, TypeOK, One
  <2>2. rows[p] \in Nat /\ Stores(p) <= Budget(p)
    BY <1>2 DEF TypeOK, WithinBudget
  <2>3. Budget(p) <= IF p \in refiled THEN 2 ELSE 1
    BY DEF Budget, One
  <2>4. QED
    BY <2>1, <2>2, <2>3 DEF Stores, Budget, One
<1>3. QED
  BY <1>1, <1>2, PrefixInductive, ApartInductive, TrackedInductive,
     BudgetInductive, TypeCorrect, PTL DEF Spec

-----------------------------------------------------------------------------
(* What Redis did not take *)

\* The points whose handler cannot count on the list.
FellBack(p) == p \notin pushed \/ p \in refiled

\* socket_handlers.py: "Fall back to direct DB write so no data is lost".  As
\* long as PostgreSQL answers, a point whose RPUSH or SET failed or was left
\* unanswered is in gps_logs by the time it is broadcast, however often Redis
\* fails, whatever the flush then loses, and through any restart.
THEOREM FallbackIsStored ==
  ASSUME "db" \notin Faults
  PROVE  Spec => [](\A p \in Points :
                      handler[p] \in {"emit", "done"} /\ FellBack(p) => rows[p] > 0)
<1> DEFINE Stored == \A p \in Points :
                       handler[p] \in {"emit", "done"} /\ FellBack(p) => rows[p] > 0
<1>1. Init => Stored
  BY DEF Init
<1>2. TypeOK /\ Tracked /\ Stored /\ [Next]_vars => Stored'
  <2> SUFFICES ASSUME TypeOK, Tracked, Stored, [Next]_vars, NEW p \in Points,
                      handler'[p] \in {"emit", "done"}, FellBack(p)'
               PROVE  rows'[p] > 0
    OBVIOUS
  <2> USE DEF TypeOK, store, flush, history
  <2>0. /\ rows[p] \in Nat
        /\ handler[p] \in {"emit", "done"} /\ FellBack(p) => rows[p] > 0
    OBVIOUS
  <2> HIDE DEF Stored
  <2>1. ASSUME NEW q \in Points,
               \/ Refuse(q) \/ PushFails(q) \/ SetLastFails(q)
               \/ SetLastUnanswered(q) \/ Broadcast(q)
        PROVE  rows'[p] > 0
    <3>1. /\ rows' = rows
          /\ handler[p] \in {"emit", "done"} /\ FellBack(p)
      BY <2>1 DEF Refuse, PushFails, SetLastFails, SetLastUnanswered, Broadcast,
         Handle, FellBack
    <3>2. QED
      BY <2>0, <3>1
  <2>2. ASSUME NEW q \in Points, Push(q)
        PROVE  rows'[p] > 0
    <3>1. /\ rows' = rows
          /\ handler[p] \in {"emit", "done"} /\ FellBack(p)
      BY <2>2 DEF Push, Handle, FellBack
    <3>2. QED
      BY <2>0, <3>1
  <2>3. ASSUME NEW q \in Points, SetLast(q)
        PROVE  rows'[p] > 0
    <3>1. CASE p = q
      <4>1. p \in pushed /\ p \notin refiled
        BY <2>3, <3>1 DEF SetLast, Handle, Tracked
      <4>2. QED
        BY <2>3, <4>1 DEF SetLast, FellBack
    <3>2. CASE p # q
      <4>1. /\ rows' = rows
            /\ handler[p] \in {"emit", "done"} /\ FellBack(p)
        BY <2>3, <3>2 DEF SetLast, Handle, FellBack
      <4>2. QED
        BY <2>0, <4>1
    <3>3. QED
      BY <3>1, <3>2
  <2>4. ASSUME NEW q \in Points, Write(q)
        PROVE  rows'[p] > 0
    <3>1. rows'[p] = IF p = q THEN rows[p] + 1 ELSE rows[p]
      BY <2>4 DEF Write
    <3>2. p # q => handler[p] \in {"emit", "done"} /\ FellBack(p)
      BY <2>4 DEF Write, Handle, FellBack
    <3>3. QED
      BY <2>0, <3>1, <3>2
  <2>5. \A q \in Points : ~WriteFails(q)
    BY DEF WriteFails, Fault
  <2>6. ASSUME rows'[p] >= rows[p], rows'[p] \in Int, UNCHANGED <<pushed, refiled>>,
               handler'[p] \in {"emit", "done"} => handler[p] \in {"emit", "done"}
        PROVE  rows'[p] > 0
    <3>1. rows[p] > 0
      BY <2>0, <2>6 DEF FellBack
    <3>2. QED
      BY <2>0, <2>6, <3>1
  <2>7. CASE FlushInsert
    <3>1. /\ rows'[p] = rows[p] + Copies(batch, p)
          /\ UNCHANGED <<handler, pushed, refiled>>
      BY <2>7 DEF FlushInsert, FlushOver
    <3>2. Copies(batch, p) \in Nat
      BY CopiesOf
    <3>3. QED
      BY <2>0, <2>6, <3>1, <3>2
  <2>8. CASE \/ FlushStart \/ FlushNothing \/ FlushRedisFails \/ FlushRead
             \/ FlushTrim \/ FlushTrimUnanswered \/ FlushInsertFails
             \/ EndProcess \/ Shutdown \/ Stable
    <3>1. /\ UNCHANGED <<rows, pushed, refiled>>
          /\ handler'[p] \in {"emit", "done"} => handler[p] \in {"emit", "done"}
      BY <2>8 DEF FlushStart, FlushNothing, FlushRedisFails, FlushRead,
         FlushTrim,
         FlushTrimUnanswered, FlushInsertFails, FlushOver, EndProcess, Shutdown,
         Stable
    <3>2. QED
      BY <2>0, <2>6, <3>1
  <2>9. QED
    BY <2>1, <2>2, <2>3, <2>4, <2>5, <2>7, <2>8, Steps
<1>3. Init => Tracked
  BY DEF Init, Tracked
<1>4. QED
  BY <1>1, <1>2, <1>3, TrackedInductive, TypeCorrect, PTL DEF Spec

=============================================================================
