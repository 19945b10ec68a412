-------------------------- MODULE UnitOfWorkProofs --------------------------
(***************************************************************************)
(* Theorems about UnitOfWork, for every number of entities, keys and       *)
(* values.                                                                 *)
(*                                                                         *)
(* IInv is the inductive invariant that holds whatever user code does      *)
(* (Moves).  Three more parts are inductive beside it, each under the      *)
(* weakest hypothesis on Moves that keeps it: IdentityExact, unless a key  *)
(* in use is tracked again; ToldOK, unless an entity is changed while its  *)
(* statement is on its way; SnapshotIsRow, which needs both of them.       *)
(***************************************************************************)
EXTENDS UnitOfWork, QueueLemmas

-----------------------------------------------------------------------------
(* The parts of the inductive invariant *)

\* trackedEntities lists each tracked entity once.
ListOK == Distinct(order) /\ Elems(order) = Tracked

\* What the status of an entity says of its key and its snapshot.
SavedOK ==
    \A e \in Tracked :
      /\ val[e] \in Values
      /\ status[e] \in {"managed", "dirty"} => pk[e] # None /\ snap[e] # None
      /\ snap[e] # None => pk[e] # None
      /\ status[e] = "managed" => snap[e] = val[e]

AtStatement == stage \in {"before", "sql"}

\* What flush() holds while it is at a statement.
StatementOK ==
    /\ op = None <=> stage \in {"idle", "next"}
    /\ AtStatement =>
         /\ Current \in Tracked
         /\ op \in {"update", "delete"} => pk[Current] # None
         /\ op = "update" => snap[Current] # None /\ payload \in Values
         /\ op = "insert" /\ stage = "sql" => payload \in Values

Done(e) == status[e] = "managed" \/ (status[e] = "removed" /\ pk[e] = None)

\* What flush() has passed is done, unless user code has touched it since.
PassedOK ==
    \A e \in Tracked \ touched :
      /\ stage = "next" \/ AtStatement => e \in Elems(todo) \/ Done(e)
      /\ stage = "after" => e \in Elems(Tail(todo)) \/ Done(e)

IInv == TypeOK /\ ListOK /\ SavedOK /\ StatementOK /\ PassedOK

\* What an entity holds, and what is sent of it, is what the user told last.
ToldOK ==
    /\ \A e \in Tracked : val[e] = wish[e] /\ (doomed[e] <=> status[e] = "removed")
    /\ AtStatement =>
         /\ op = "insert" => status[Current] = "new" /\ (stage = "sql" => payload = val[Current])
         /\ op = "update" => status[Current] = "dirty" /\ payload = val[Current]
         /\ op = "delete" => status[Current] = "removed"

\* The hypotheses on what user code does.
KeysApart   == Moves \cap {"clash", "persist"} = {}
HandsOff    == "touch" \notin Moves
RowsLoaded  == Moves \subseteq {"touch"} /\ (Returning \/ HandsOff)

-----------------------------------------------------------------------------
(* The steps *)

\* What the calls that begin to track an entity have in common.
Tracking(e, s, k, v, original) ==
    /\ Track(e, s, k, v, original)
    /\ \/ s = "new" /\ original = None
       \/ s \in {"managed", "dirty"} /\ original = v /\ k # None
    /\ KeysApart /\ k # None => identity[k] = None
    /\ RowsLoaded /\ original # None => db[k] = v

\* What the success of an INSERT and of an UPDATE have in common.
Saving(k) ==
    /\ stage = "sql" /\ op \in {"insert", "update"}
    /\ pk[Current] # None => k = pk[Current]
    /\ pk[Current] = None /\ KeysApart => identity[k] = None
    /\ db' = [db EXCEPT ![k] = IF op = "update" /\ @ = None THEN None ELSE payload]
    /\ Saved(Current, k)

\* Every step of the unit of work is one of these.
Step == \/ \E e \in Entities, s \in {"new", "managed", "dirty"}, k \in Keys \cup {None}, v \in Values,
              original \in Values \cup {None} : Tracking(e, s, k, v, original)
        \/ \E e \in Entities, v \in Values : Write(e, v)
        \/ \E e \in Entities : MarkRemoved(e)
        \/ Reset
        \/ StartFlush \/ EndFlush \/ Skip \/ Begin \/ Send
        \/ \E k \in Keys : Saving(k)
        \/ Deleted \/ Advance \/ Fail
        \/ UNCHANGED vars

\* persist(), saveGraph() and the finding of a row track an entity in one way, and a
\* statement that saves one settles it in one way (Track and Saved of UnitOfWork).
LEMMA StepCases == ASSUME IInv, [Next]_vars PROVE Step
<1>1. ASSUME NEW e \in Entities, NEW v \in Values, NEW k \in Keys \cup {None}, TrackNew(e, k, v)
      PROVE  Tracking(e, "new", k, v, None)
  BY <1>1 DEF TrackNew, Tracking, KeysApart
<1>2. ASSUME NEW e \in Entities, NEW v \in Values, NEW k \in Keys, Persist(e, k, v)
      PROVE  Tracking(e, "managed", k, v, v)
  BY <1>2, UnitOfWorkAssumption DEF Persist, Repeats, Tracking, KeysApart, RowsLoaded
<1>3. ASSUME NEW e \in Entities, NEW v \in Values, NEW k \in Keys, SaveGraph(e, k, v)
      PROVE  Tracking(e, "dirty", k, v, v)
  BY <1>3, UnitOfWorkAssumption DEF SaveGraph, Repeats, Tracking, RowsLoaded
<1>4. ASSUME NEW e \in Entities, NEW k \in Keys, Find(e, k)
      PROVE  db[k] \in Values /\ Tracking(e, "managed", k, db[k], db[k])
  <2>1. db[k] \in Values
    BY <1>4 DEF Find, IInv, TypeOK
  <2> QED
    BY <1>4, <2>1, UnitOfWorkAssumption DEF Find, Tracking
<1>5. ASSUME NEW k \in Keys, Inserted(k) PROVE Saving(k)
  BY <1>5 DEF Inserted, Saving, KeysApart
<1>6. ASSUME Updated PROVE \E k \in Keys : Saving(k)
  <2>1. stage = "sql" /\ op = "update" /\ pk[Current] \in Keys
    BY <1>6 DEF Updated, IInv, StatementOK, AtStatement, TypeOK, Tracked
  <2>2. Saving(pk[Current])
    BY <1>6, <2>1, UnitOfWorkAssumption DEF Updated, Saving
  <2> QED
    BY <2>1, <2>2
<1>7. CASE User
  BY <1>1, <1>2, <1>3, <1>4, <1>7 DEF User, Step
<1>8. CASE Flush
  BY <1>5, <1>6, <1>8 DEF Flush, Step
<1> QED
  BY <1>7, <1>8 DEF Next, Step

-----------------------------------------------------------------------------
(* Types *)

\* The entity flush() is at is an entity, and so are those it has still to visit.
LEMMA CurrentType ==
    ASSUME TypeOK, todo # <<>>
    PROVE  Current \in Entities /\ Tail(todo) \in Seq(Entities) /\ Elems(todo) = {Current} \cup Elems(Tail(todo))
<1>1. /\ todo \in Seq(Entities) /\ Len(todo) \in Nat /\ Len(todo) > 0 /\ Head(todo) = todo[1]
      /\ Tail(todo) \in Seq(Entities) /\ Len(Tail(todo)) = Len(todo) - 1
      /\ \A i \in 1..(Len(todo) - 1) : Tail(todo)[i] = todo[i + 1]
  BY DEF TypeOK
<1>2. Current \in Entities
  BY <1>1 DEF Current
<1>3. ASSUME NEW i \in 1..Len(todo) PROVE todo[i] = Current \/ todo[i] \in Elems(Tail(todo))
  <2>1. CASE i = 1
    BY <2>1, <1>1 DEF Current
  <2>2. CASE i # 1
    <3>1. i - 1 \in 1..Len(Tail(todo)) /\ Tail(todo)[i - 1] = todo[i]
      BY <2>2, <1>1
    <3> QED
      BY <3>1 DEF Elems
  <2> QED
    BY <2>1, <2>2
<1>4. ASSUME NEW i \in 1..Len(Tail(todo)) PROVE Tail(todo)[i] \in Elems(todo)
  <2>1. i + 1 \in 1..Len(todo) /\ Tail(todo)[i] = todo[i + 1]
    BY <1>1
  <2> QED
    BY <2>1 DEF Elems
<1>5. Current \in Elems(todo)
  BY <1>1 DEF Current, Elems
<1>6. Elems(todo) \subseteq {Current} \cup Elems(Tail(todo))
  BY <1>3 DEF Elems
<1>7. Elems(Tail(todo)) \subseteq Elems(todo)
  BY <1>4 DEF Elems
<1> QED
  BY <1>1, <1>2, <1>5, <1>6, <1>7

\* A new unit of work has its types.
LEMMA TypeInit == ASSUME Init PROVE TypeOK
  BY DEF Init, TypeOK, Statuses, Stages

\* Every step keeps the types.
LEMMA TypeStep == ASSUME IInv, Step PROVE TypeOK'
<1> USE UnitOfWorkAssumption DEF IInv
<1>1. ASSUME NEW e \in Entities, NEW s \in {"new", "managed", "dirty"}, NEW k \in Keys \cup {None}, NEW v \in Values,
             NEW original \in Values \cup {None}, Tracking(e, s, k, v, original)
      PROVE  TypeOK'
  BY <1>1 DEF Tracking, Track, Register, TypeOK, Statuses, flushVars
<1>2. ASSUME NEW e \in Entities, NEW v \in Values, Write(e, v) PROVE TypeOK'
  BY <1>2 DEF Write, MarkDirty, TypeOK, Statuses, flushVars
<1>3. ASSUME NEW e \in Entities, MarkRemoved(e) PROVE TypeOK'
  BY <1>3 DEF MarkRemoved, TypeOK, Statuses, flushVars
<1>4. CASE Reset
  BY <1>4 DEF Reset, TypeOK, Statuses, flushVars
<1>5. CASE StartFlush
  BY <1>5 DEF StartFlush, TypeOK, Stages, entityVars
<1>6. CASE EndFlush
  BY <1>6 DEF EndFlush, TypeOK, Stages, entityVars, userVars
<1>7. CASE Skip
  <2>1. Current \in Entities /\ Tail(todo) \in Seq(Entities)
    BY <1>7, CurrentType DEF Skip
  <2> QED
    BY <1>7, <2>1 DEF Skip, TypeOK, Statuses, userVars
<1>8. CASE Begin
  <2>1. Current \in Entities
    BY <1>8, CurrentType DEF Begin
  <2> QED
    BY <1>8, <2>1 DEF Begin, Work, TypeOK, Stages, entityVars, userVars
<1>9. CASE Send
  <2>1. Current \in Entities
    BY <1>9, CurrentType DEF Send, TypeOK
  <2> QED
    BY <1>9, <2>1 DEF Send, TypeOK, Stages, entityVars, userVars
<1>10. ASSUME NEW k \in Keys, Saving(k) PROVE TypeOK'
  <2>1. Current \in Entities /\ todo # <<>>
    BY <1>10, CurrentType DEF Saving, TypeOK
  <2>2. db' \in [Keys -> Values \cup {None}]
    BY <1>10 DEF Saving, TypeOK
  <2>3. Answer(Current, k) \in Values \cup {None}
    BY <2>1, <2>2 DEF Answer, TypeOK
  <2> QED
    BY <1>10, <2>1, <2>2, <2>3 DEF Saving, Saved, Settled, Snapshot, Register, TypeOK, Statuses, Stages, userVars
<1>11. CASE Deleted
  <2>1. Current \in Entities /\ todo # <<>>
    BY <1>11, CurrentType DEF Deleted, TypeOK
  <2>2. order' \in Seq(Entities)
    <3>1. PICK i \in 1..Len(order) : order' = SubSeq(order, 1, i - 1) \o SubSeq(order, i + 1, Len(order))
      BY <1>11 DEF Deleted, Forget, Untrack, RemoveAt
    <3> QED
      BY <3>1, SpliceProperties DEF TypeOK
  <2> QED
    BY <1>11, <2>1, <2>2 DEF Deleted, Forget, DeleteRow, TypeOK, Statuses, Stages
<1>12. CASE Advance
  <2>1. Tail(todo) \in Seq(Entities)
    BY <1>12, CurrentType DEF Advance, TypeOK
  <2> QED
    BY <1>12, <2>1 DEF Advance, TypeOK, Stages, entityVars, userVars
<1>13. CASE Fail
  BY <1>13 DEF Fail, TypeOK, Stages, entityVars, userVars
<1>14. CASE UNCHANGED vars
  BY <1>14 DEF vars, entityVars, flushVars, userVars, TypeOK
<1> QED
  BY <1>1, <1>2, <1>3, <1>4, <1>5, <1>6, <1>7, <1>8, <1>9, <1>10, <1>11, <1>12, <1>13, <1>14 DEF Step

-----------------------------------------------------------------------------
(* The list of tracked entities *)

\* Tracking an entity lists it, the end of its tracking takes it off the list, and
\* nothing else touches the list.
LEMMA ListStep == ASSUME IInv, Step PROVE ListOK'
<1> USE DEF IInv, ListOK
<1>1. ASSUME NEW e \in Entities, NEW s \in {"new", "managed", "dirty"}, NEW k \in Keys \cup {None}, NEW v \in Values,
             NEW original \in Values \cup {None}, Tracking(e, s, k, v, original)
      PROVE  ListOK'
  <2>1. e \notin Elems(order) /\ order' = Append(order, e)
    BY <1>1 DEF Tracking, Track, Tracked
  <2>2. Distinct(order') /\ Elems(order') = Elems(order) \cup {e}
    BY <2>1, AppendQueue DEF TypeOK
  <2>3. Tracked' = Tracked \cup {e}
    BY <1>1 DEF Tracking, Track, Tracked, TypeOK
  <2> QED
    BY <2>2, <2>3
<1>2. ASSUME NEW e \in Entities, NEW v \in Values, Write(e, v) PROVE ListOK'
  <2>1. Tracked' = Tracked
    BY <1>2 DEF Write, MarkDirty, Tracked, TypeOK
  <2> QED
    BY <1>2, <2>1 DEF Write, Distinct, Elems
<1>3. ASSUME NEW e \in Entities, MarkRemoved(e) PROVE ListOK'
  <2>1. Tracked' = Tracked
    BY <1>3 DEF MarkRemoved, Tracked, TypeOK
  <2> QED
    BY <1>3, <2>1 DEF MarkRemoved, Distinct, Elems
<1>4. CASE Reset
  BY <1>4 DEF Reset, Tracked, Distinct, Elems
<1>5. CASE Skip
  <2>1. Tracked' = Tracked
    BY <1>5 DEF Skip, Tracked, TypeOK
  <2> QED
    BY <1>5, <2>1 DEF Skip, Distinct, Elems
<1>6. ASSUME NEW k \in Keys, Saving(k) PROVE ListOK'
  <2>1. Current \in Tracked
    BY <1>6 DEF Saving, StatementOK, AtStatement
  <2>2. Tracked' = Tracked
    BY <1>6, <2>1 DEF Saving, Saved, Settled, Tracked, TypeOK
  <2> QED
    BY <1>6, <2>2 DEF Saving, Saved, Distinct, Elems
<1>7. CASE Deleted
  <2>1. PICK i \in 1..Len(order) :
          order[i] = Current /\ order' = SubSeq(order, 1, i - 1) \o SubSeq(order, i + 1, Len(order))
    BY <1>7 DEF Deleted, Forget, Untrack, RemoveAt
  <2>2. Distinct(order') /\ Elems(order') = Elems(order) \ {Current}
    BY <2>1, SpliceQueue DEF TypeOK
  <2>3. Tracked' = Tracked \ {Current}
    BY <1>7 DEF Deleted, Tracked, TypeOK
  <2> QED
    BY <2>2, <2>3
<1>8. CASE StartFlush \/ EndFlush \/ Begin \/ Send \/ Advance \/ Fail \/ UNCHANGED vars
  <2>1. order' = order /\ status' = status
    BY <1>8 DEF StartFlush, EndFlush, Begin, Send, Advance, Fail, vars, entityVars
  <2> QED
    BY <2>1 DEF Distinct, Elems, Tracked
<1> QED
  BY <1>1, <1>2, <1>3, <1>4, <1>5, <1>6, <1>7, <1>8 DEF Step

-----------------------------------------------------------------------------
(* Statuses, keys and snapshots *)

\* Every step keeps what the status of an entity says of its key and its snapshot.
LEMMA SavedStep == ASSUME IInv, Step PROVE SavedOK'
<1> USE UnitOfWorkAssumption DEF IInv, SavedOK
<1>1. ASSUME NEW e \in Entities, NEW s \in {"new", "managed", "dirty"}, NEW k \in Keys \cup {None}, NEW v \in Values,
             NEW original \in Values \cup {None}, Tracking(e, s, k, v, original)
      PROVE  SavedOK'
  BY <1>1 DEF Tracking, Track, Tracked, TypeOK
<1>2. ASSUME NEW e \in Entities, NEW v \in Values, Write(e, v) PROVE SavedOK'
  BY <1>2 DEF Write, MarkDirty, Tracked, TypeOK, Statuses
<1>3. ASSUME NEW e \in Entities, MarkRemoved(e) PROVE SavedOK'
  BY <1>3 DEF MarkRemoved, Tracked, TypeOK
<1>4. CASE Reset
  BY <1>4 DEF Reset, Tracked
<1>5. CASE Skip
  <2>1. Current \in Entities /\ (status[Current] = "dirty" => snap[Current] = val[Current])
    BY <1>5, CurrentType DEF Skip, Work, Differs
  <2> QED
    BY <1>5, <2>1 DEF Skip, Tracked, TypeOK
<1>6. ASSUME NEW k \in Keys, Saving(k) PROVE SavedOK'
  <2>1. Current \in Tracked
    BY <1>6 DEF Saving, StatementOK, AtStatement
  <2>2. Answer(Current, k) \in Values
    <3>1. db' \in [Keys -> Values \cup {None}]
      BY <1>6 DEF Saving, TypeOK
    <3> QED
      BY <2>1, <3>1 DEF Answer
  <2>3. /\ val' = [val EXCEPT ![Current] = Answer(Current, k)] /\ snap' = [snap EXCEPT ![Current] = Answer(Current, k)]
        /\ pk' = [pk EXCEPT ![Current] = k] /\ status' = [status EXCEPT ![Current] = "managed"]
    BY <1>6 DEF Saving, Saved, Settled, Snapshot
  <2> QED
    BY <2>1, <2>2, <2>3 DEF Tracked, TypeOK
<1>7. CASE Deleted
  BY <1>7 DEF Deleted, Tracked, TypeOK
<1>8. CASE StartFlush \/ EndFlush \/ Begin \/ Send \/ Advance \/ Fail \/ UNCHANGED vars
  <2>1. UNCHANGED entityVars
    BY <1>8 DEF StartFlush, EndFlush, Begin, Send, Advance, Fail, vars
  <2> QED
    BY <2>1 DEF entityVars, Tracked
<1> QED
  BY <1>1, <1>2, <1>3, <1>4, <1>5, <1>6, <1>7, <1>8 DEF Step

-----------------------------------------------------------------------------
(* The statement of flush() *)

\* Every step keeps what flush() holds while it is at a statement: in particular,
\* nothing that user code may do meanwhile ends the tracking of the entity.
LEMMA StatementStep == ASSUME IInv, Step PROVE StatementOK'
<1> USE UnitOfWorkAssumption DEF IInv, StatementOK, AtStatement
<1>1. ASSUME NEW e \in Entities, NEW s \in {"new", "managed", "dirty"}, NEW k \in Keys \cup {None}, NEW v \in Values,
             NEW original \in Values \cup {None}, Tracking(e, s, k, v, original)
      PROVE  StatementOK'
  <2>1. UNCHANGED <<stage, todo, op, payload>> /\ status[e] = "absent"
        /\ status' = [status EXCEPT ![e] = s] /\ pk' = [pk EXCEPT ![e] = k] /\ snap' = [snap EXCEPT ![e] = original]
    BY <1>1 DEF Tracking, Track, flushVars
  <2>2. AtStatement => Current # e
    BY <2>1 DEF Tracked
  <2> QED
    BY <2>1, <2>2 DEF Current, Tracked, TypeOK
<1>2. ASSUME NEW e \in Entities, NEW v \in Values, Write(e, v) PROVE StatementOK'
  <2>1. UNCHANGED <<stage, todo, op, payload, pk, snap>> /\ Tracked' = Tracked
    BY <1>2 DEF Write, MarkDirty, Tracked, TypeOK, flushVars
  <2> QED
    BY <2>1 DEF Current
<1>3. ASSUME NEW e \in Entities, MarkRemoved(e) PROVE StatementOK'
  <2>1. UNCHANGED <<stage, todo, op, payload, pk, snap>> /\ Tracked' = Tracked
    BY <1>3 DEF MarkRemoved, Tracked, TypeOK, flushVars
  <2> QED
    BY <2>1 DEF Current
<1>4. CASE Reset
  BY <1>4 DEF Reset, flushVars
<1>5. CASE StartFlush \/ EndFlush \/ Skip
  BY <1>5 DEF StartFlush, EndFlush, Skip
<1>6. CASE Begin
  <2>1. Current \in Entities
    BY <1>6, CurrentType DEF Begin
  <2>2. /\ Current' = Current /\ stage' = "before" /\ op' = Work(Current) /\ Work(Current) # None
        /\ payload' = IF Work(Current) = "update" THEN val[Current] ELSE None
        /\ UNCHANGED <<status, pk, val, snap>>
    BY <1>6 DEF Begin, Current, entityVars
  <2>3. Current \in Tracked
    BY <2>1, <2>2 DEF Work, Tracked
  <2>4. /\ Work(Current) = "update" => status[Current] = "dirty"
        /\ Work(Current) = "delete" => pk[Current] # None
    BY <2>2 DEF Work
  <2>5. Work(Current) = "update" => pk[Current] # None /\ snap[Current] # None /\ val[Current] \in Values
    BY <2>3, <2>4 DEF SavedOK
  <2>6. Tracked' = Tracked
    BY <2>2 DEF Tracked
  <2> QED
    BY <2>2, <2>3, <2>4, <2>5, <2>6
<1>7. CASE Send
  <2>1. val[Current] \in Values
    BY <1>7 DEF Send, SavedOK
  <2> QED
    BY <1>7, <2>1 DEF Send, Current, Tracked, entityVars
<1>8. ASSUME NEW k \in Keys, Saving(k) PROVE StatementOK'
  BY <1>8 DEF Saving, Saved
<1>9. CASE Deleted
  BY <1>9 DEF Deleted
<1>10. CASE Advance \/ Fail
  BY <1>10 DEF Advance, Fail
<1>11. CASE UNCHANGED vars
  BY <1>11 DEF vars, entityVars, flushVars, Current, Tracked
<1> QED
  BY <1>1, <1>2, <1>3, <1>4, <1>5, <1>6, <1>7, <1>8, <1>9, <1>10, <1>11 DEF Step

-----------------------------------------------------------------------------
(* What flush() has passed *)

\* Every step keeps what flush() has passed done: what it leaves it has saved, and what
\* user code changes meanwhile is touched.
LEMMA PassedStep == ASSUME IInv, Step PROVE PassedOK'
<1> USE DEF IInv, PassedOK, AtStatement, Done
<1>1. ASSUME NEW e \in Entities, NEW s \in {"new", "managed", "dirty"}, NEW k \in Keys \cup {None}, NEW v \in Values,
             NEW original \in Values \cup {None}, Tracking(e, s, k, v, original)
      PROVE  PassedOK'
  BY <1>1 DEF Tracking, Track, Tracked, TypeOK, flushVars
<1>2. ASSUME NEW e \in Entities, NEW v \in Values, Write(e, v) PROVE PassedOK'
  BY <1>2 DEF Write, MarkDirty, Tracked, TypeOK, flushVars
<1>3. ASSUME NEW e \in Entities, MarkRemoved(e) PROVE PassedOK'
  BY <1>3 DEF MarkRemoved, Tracked, TypeOK, flushVars
<1>4. CASE Reset
  BY <1>4 DEF Reset, Tracked
<1>5. CASE StartFlush
  BY <1>5 DEF StartFlush, ListOK, entityVars, Tracked
<1>6. CASE EndFlush \/ Fail
  BY <1>6 DEF EndFlush, Fail
<1>7. CASE Skip
  <2>1. /\ Current \in Entities /\ Elems(todo) = {Current} \cup Elems(todo') /\ stage = "next" /\ stage' = "next"
        /\ status' = [status EXCEPT ![Current] = IF @ = "dirty" THEN "managed" ELSE @]
        /\ UNCHANGED <<pk, touched>>
    BY <1>7, CurrentType DEF Skip, userVars
  <2>2. status'[Current] = "absent" \/ status'[Current] = "managed" \/ (status'[Current] = "removed" /\ pk[Current] = None)
    <3>1. Work(Current) = None
      BY <1>7 DEF Skip
    <3>2. status[Current] # "new" /\ ~(status[Current] = "removed" /\ pk[Current] # None)
      BY <3>1, UnitOfWorkAssumption DEF Work
    <3> QED
      BY <2>1, <3>2 DEF TypeOK, Statuses
  <2>3. ASSUME NEW e \in (Tracked \ touched)', e # Current PROVE e \in Elems(todo') \/ Done(e)'
    BY <2>1, <2>3 DEF Tracked, TypeOK
  <2> QED
    BY <2>1, <2>2, <2>3 DEF Tracked
<1>8. CASE Begin \/ Send
  <2>1. stage \in {"next", "before"} /\ stage' \in {"before", "sql"} /\ UNCHANGED <<status, pk, todo, touched>>
    BY <1>8 DEF Begin, Send, entityVars, userVars
  <2> QED
    BY <2>1 DEF Tracked
<1>9. ASSUME NEW k \in Keys, Saving(k) PROVE PassedOK'
  <2>1. Current \in Tracked /\ todo # <<>>
    BY <1>9 DEF Saving, StatementOK, TypeOK
  <2>2. /\ Elems(todo) = {Current} \cup Elems(Tail(todo)) /\ stage = "sql" /\ stage' = "after"
        /\ status' = [status EXCEPT ![Current] = "managed"] /\ pk' = [pk EXCEPT ![Current] = k]
        /\ UNCHANGED <<todo, touched>>
    BY <1>9, <2>1, CurrentType DEF Saving, Saved, Settled, userVars
  <2> QED
    BY <2>1, <2>2 DEF Tracked, TypeOK
<1>10. CASE Deleted
  <2>1. /\ Elems(todo) = {Current} \cup Elems(Tail(todo)) /\ stage = "sql" /\ stage' = "after"
        /\ status' = [status EXCEPT ![Current] = "absent"] /\ pk' = [pk EXCEPT ![Current] = None]
        /\ UNCHANGED <<todo, touched>>
    BY <1>10, CurrentType DEF Deleted, TypeOK
  <2> QED
    BY <2>1 DEF Tracked, TypeOK
<1>11. CASE Advance
  BY <1>11 DEF Advance, entityVars, userVars, Tracked
<1>12. CASE UNCHANGED vars
  BY <1>12 DEF vars, entityVars, flushVars, userVars, Tracked
<1> QED
  BY <1>1, <1>2, <1>3, <1>4, <1>5, <1>6, <1>7, <1>8, <1>9, <1>10, <1>11, <1>12 DEF Step

-----------------------------------------------------------------------------
(* What holds whatever user code does *)

\* A new unit of work tracks nothing.
LEMMA InvInit == ASSUME Init PROVE IInv
<1>1. TypeOK
  BY TypeInit
<1>2. Tracked = {} /\ Distinct(order) /\ Elems(order) = {}
  BY DEF Init, Tracked, Distinct, Elems
<1> QED
  BY <1>1, <1>2 DEF Init, IInv, ListOK, SavedOK, StatementOK, AtStatement, PassedOK

\* Every step keeps the invariant.
LEMMA InvStep == ASSUME IInv, [Next]_vars PROVE IInv' /\ Step
<1>1. Step
  BY StepCases
<1> QED
  BY <1>1, TypeStep, ListStep, SavedStep, StatementStep, PassedStep DEF IInv

\* The invariant, for every number of entities, keys and values, with and without
\* RETURNING, whatever user code does while flush() is suspended.
THEOREM Invariance == Spec => []IInv
<1>1. Init => IInv
  BY InvInit
<1>2. IInv /\ [Next]_vars => IInv'
  BY InvStep
<1> QED
  BY <1>1, <1>2, PTL DEF Spec

\* A flush() that ends well (UnitOfWork.flush) leaves nothing pending but what was
\* touched meanwhile, whatever user code does.
THEOREM FlushClears == Spec => [][Clears]_vars
<1>1. ASSUME IInv, [Next]_vars PROVE [Clears]_vars
  <2>1. CASE UNCHANGED vars
    BY <2>1
  <2>2. ASSUME stage = "next", stage' = "idle", Step, NEW e \in Tracked \ touched
        PROVE  status[e] = "managed" \/ (status[e] = "removed" /\ pk[e] = None)
    <3>1. todo = <<>>
      <4>1. CASE EndFlush
        BY <4>1 DEF EndFlush
      <4>2. CASE ~EndFlush
        BY <2>2, <4>2 DEF Step, Tracking, Track, Write, MarkRemoved, Reset, StartFlush, Skip, Begin, Send, Saving,
                          Deleted, Advance, Fail, vars, flushVars
      <4> QED
        BY <4>1, <4>2
    <3>2. Elems(todo) = {}
      BY <3>1 DEF Elems
    <3> QED
      BY <1>1, <2>2, <3>2 DEF IInv, PassedOK, Done
  <2>3. Step
    BY <1>1, StepCases
  <2> QED
    BY <2>2, <2>3 DEF Clears
<1> QED
  BY <1>1, Invariance, PTL DEF Spec

-----------------------------------------------------------------------------
(* The identity map *)

\* Every step keeps the identity map exact when user code tracks no key in use.
LEMMA IdentityStep == ASSUME KeysApart, IInv, IdentityExact, Step PROVE IdentityExact'
<1> USE UnitOfWorkAssumption DEF IInv, IdentityExact
<1>1. ASSUME NEW e \in Entities, NEW s \in {"new", "managed", "dirty"}, NEW k \in Keys \cup {None}, NEW v \in Values,
             NEW original \in Values \cup {None}, Tracking(e, s, k, v, original)
      PROVE  IdentityExact'
  <2>1. /\ e \notin Tracked /\ Tracked' = Tracked \cup {e} /\ pk' = [pk EXCEPT ![e] = k]
        /\ identity' = IF k = None THEN identity ELSE [identity EXCEPT ![k] = e]
        /\ k # None => identity[k] = None
    BY <1>1 DEF Tracking, Track, Register, Tracked, TypeOK
  <2> QED
    BY <2>1 DEF Tracked, TypeOK
<1>2. ASSUME NEW k \in Keys, Saving(k) PROVE IdentityExact'
  <2>1. Current \in Tracked
    BY <1>2 DEF Saving, StatementOK, AtStatement
  <2>2. /\ Tracked' = Tracked /\ pk' = [pk EXCEPT ![Current] = k] /\ identity' = [identity EXCEPT ![k] = Current]
        /\ k = pk[Current] \/ (pk[Current] = None /\ identity[k] = None)
    BY <1>2, <2>1 DEF Saving, Saved, Settled, Register, Tracked, TypeOK
  <2> QED
    BY <2>1, <2>2 DEF Tracked, TypeOK
<1>3. CASE Deleted
  <2>1. /\ Current \in Tracked /\ pk[Current] # None /\ Tracked' = Tracked \ {Current}
        /\ pk' = [pk EXCEPT ![Current] = None] /\ identity' = [identity EXCEPT ![pk[Current]] = None]
    BY <1>3 DEF Deleted, Forget, StatementOK, AtStatement, Tracked, TypeOK
  <2> QED
    BY <2>1 DEF Tracked, TypeOK
<1>4. CASE Reset
  BY <1>4 DEF Reset, Tracked
<1>5. ASSUME \/ \E e \in Entities, v \in Values : Write(e, v)
             \/ \E e \in Entities : MarkRemoved(e)
             \/ StartFlush \/ EndFlush \/ Skip \/ Begin \/ Send \/ Advance \/ Fail \/ UNCHANGED vars
      PROVE  IdentityExact'
  <2>1. pk' = pk /\ identity' = identity
    BY <1>5 DEF Write, MarkRemoved, StartFlush, EndFlush, Skip, Begin, Send, Advance, Fail, vars, entityVars
  <2>2. Tracked' = Tracked
    <3>1. ASSUME NEW e \in Entities, NEW v \in Values, Write(e, v) PROVE Tracked' = Tracked
      BY <3>1 DEF Write, MarkDirty, Tracked, TypeOK
    <3>2. ASSUME NEW e \in Entities, MarkRemoved(e) PROVE Tracked' = Tracked
      BY <3>2 DEF MarkRemoved, Tracked, TypeOK
    <3>3. CASE Skip
      BY <3>3 DEF Skip, Tracked, TypeOK
    <3>4. CASE status' = status
      BY <3>4 DEF Tracked
    <3>5. CASE StartFlush \/ EndFlush \/ Begin \/ Send \/ Advance \/ Fail \/ UNCHANGED vars
      BY <3>4, <3>5 DEF StartFlush, EndFlush, Begin, Send, Advance, Fail, vars, entityVars
    <3> QED
      BY <1>5, <3>1, <3>2, <3>3, <3>5
  <2> QED
    BY <2>1, <2>2
<1> QED
  BY <1>1, <1>2, <1>3, <1>4, <1>5 DEF Step

\* A row is one object (IdentityMap.register, UnitOfWork.flushDelete): the identity map is
\* exact as long as no object is tracked under a key that is in use.
THEOREM RowIsOneObject == ASSUME KeysApart PROVE Spec => []IdentityExact
<1>1. Init => IdentityExact
  BY DEF Init, IdentityExact, Tracked
<1>2. IInv /\ IdentityExact /\ [Next]_vars => IdentityExact'
  BY StepCases, IdentityStep
<1> QED
  BY <1>1, <1>2, Invariance, PTL DEF Spec

-----------------------------------------------------------------------------
(* What the user told *)

\* Every step keeps what an entity holds, and what is sent of it, equal to what the user
\* told, when he leaves an entity alone while its statement is on its way.
LEMMA ToldStep == ASSUME HandsOff, IInv, ToldOK, Step PROVE ToldOK'
<1> USE UnitOfWorkAssumption DEF IInv, ToldOK, AtStatement, HandsOff
<1>1. ASSUME NEW e \in Entities, NEW s \in {"new", "managed", "dirty"}, NEW k \in Keys \cup {None}, NEW v \in Values,
             NEW original \in Values \cup {None}, Tracking(e, s, k, v, original)
      PROVE  ToldOK'
  <2>1. /\ UNCHANGED <<stage, todo, op, payload>> /\ status[e] = "absent" /\ s # "removed"
        /\ status' = [status EXCEPT ![e] = s] /\ val' = [val EXCEPT ![e] = v]
        /\ wish' = [wish EXCEPT ![e] = v] /\ doomed' = [doomed EXCEPT ![e] = FALSE]
    BY <1>1 DEF Tracking, Track, flushVars
  <2>2. AtStatement => Current # e
    BY <2>1 DEF StatementOK, Tracked
  <2> QED
    BY <2>1, <2>2 DEF Current, Tracked, TypeOK
<1>2. ASSUME NEW e \in Entities, NEW v \in Values, Write(e, v) PROVE ToldOK'
  <2>1. /\ UNCHANGED <<stage, todo, op, payload, doomed>> /\ status[e] # "absent"
        /\ status' = [status EXCEPT ![e] = MarkDirty(status[e])] /\ val' = [val EXCEPT ![e] = v]
        /\ wish' = [wish EXCEPT ![e] = v]
    BY <1>2 DEF Write, Tracked, flushVars
  <2>2. AtStatement /\ e = Current => op = "delete" \/ (op = "insert" /\ stage = "before")
    BY <1>2 DEF Write, Written, Busy, StatementOK, TypeOK
  <2>3. MarkDirty(status[e]) # "absent" /\ (MarkDirty(status[e]) = "removed" <=> status[e] = "removed")
        /\ (status[e] \in {"new", "removed"} => MarkDirty(status[e]) = status[e])
    BY <2>1 DEF MarkDirty
  <2> HIDE DEF MarkDirty
  <2>4. \A d \in Tracked' : val'[d] = wish'[d] /\ (doomed'[d] <=> status'[d] = "removed")
    BY <2>1, <2>3 DEF Tracked, TypeOK
  <2> QED
    BY <2>1, <2>2, <2>3, <2>4 DEF Current, Tracked, TypeOK, StatementOK
<1>3. ASSUME NEW e \in Entities, MarkRemoved(e) PROVE ToldOK'
  <2>1. /\ UNCHANGED <<stage, todo, op, payload, val, wish>> /\ status[e] # "absent"
        /\ status' = [status EXCEPT ![e] = "removed"] /\ doomed' = [doomed EXCEPT ![e] = TRUE]
    BY <1>3 DEF MarkRemoved, Tracked, flushVars
  <2>2. AtStatement /\ e = Current => op = "delete"
    BY <1>3 DEF MarkRemoved, Busy
  <2>3. \A d \in Tracked' : val'[d] = wish'[d] /\ (doomed'[d] <=> status'[d] = "removed")
    BY <2>1 DEF Tracked, TypeOK
  <2> QED
    BY <2>1, <2>2, <2>3 DEF Current, Tracked, TypeOK, StatementOK
<1>4. CASE Reset
  BY <1>4 DEF Reset, Tracked, flushVars
<1>5. CASE StartFlush \/ EndFlush
  BY <1>5 DEF StartFlush, EndFlush, Tracked, entityVars, userVars
<1>6. CASE Skip
  <2>1. stage' = "next" /\ UNCHANGED <<val, wish, doomed>> /\ Current \in Entities
        /\ status' = [status EXCEPT ![Current] = IF @ = "dirty" THEN "managed" ELSE @]
    BY <1>6, CurrentType DEF Skip, userVars
  <2> QED
    BY <2>1 DEF Tracked, TypeOK
<1>7. CASE Begin
  <2>1. /\ Current' = Current /\ stage' = "before" /\ op' = Work(Current) /\ UNCHANGED <<status, val, wish, doomed>>
        /\ payload' = IF Work(Current) = "update" THEN val[Current] ELSE None
    BY <1>7 DEF Begin, Current, entityVars, userVars
  <2>2. /\ Work(Current) = "insert" => status[Current] = "new"
        /\ Work(Current) = "update" => status[Current] = "dirty"
        /\ Work(Current) = "delete" => status[Current] = "removed"
    BY DEF Work
  <2>3. Tracked' = Tracked
    BY <2>1 DEF Tracked
  <2> QED
    BY <2>1, <2>2, <2>3
<1>8. CASE Send
  BY <1>8 DEF Send, Current, Tracked, entityVars, userVars
<1>9. ASSUME NEW k \in Keys, Saving(k) PROVE ToldOK'
  <2>1. Current \in Tracked /\ payload = val[Current] /\ status[Current] # "removed"
    BY <1>9 DEF Saving, StatementOK
  <2>2. Answer(Current, k) = val[Current]
    BY <1>9, <2>1 DEF Saving, Answer, TypeOK
  <2>3. /\ val' = [val EXCEPT ![Current] = Answer(Current, k)] /\ status' = [status EXCEPT ![Current] = "managed"]
        /\ stage' = "after" /\ UNCHANGED <<wish, doomed>>
    BY <1>9 DEF Saving, Saved, Settled, userVars
  <2> QED
    BY <2>1, <2>2, <2>3 DEF Tracked, TypeOK
<1>10. CASE Deleted
  BY <1>10 DEF Deleted, Tracked, TypeOK
<1>11. CASE Advance \/ Fail
  BY <1>11 DEF Advance, Fail, Tracked, entityVars, userVars
<1>12. CASE UNCHANGED vars
  BY <1>12 DEF vars, entityVars, flushVars, userVars, Current, Tracked
<1> QED
  BY <1>1, <1>2, <1>3, <1>4, <1>5, <1>6, <1>7, <1>8, <1>9, <1>10, <1>11, <1>12 DEF Step

\* A unit of work holds what the user told it.
LEMMA HoldsWhatWasTold == ASSUME HandsOff PROVE Spec => []ToldOK
<1>1. Init => ToldOK
  BY DEF Init, ToldOK, AtStatement, Tracked
<1>2. IInv /\ ToldOK /\ [Next]_vars => ToldOK'
  BY StepCases, ToldStep
<1> QED
  BY <1>1, <1>2, Invariance, PTL DEF Spec

\* A row changes only to what the user last wrote to its entity, and goes only when he has
\* removed it (UnitOfWork.flushInsert, flushUpdate, flushDelete).
LEMMA WritesOwn == ASSUME IInv, ToldOK, Step PROVE OwnWrite
<1> USE UnitOfWorkAssumption DEF IInv, OwnWrite
<1>1. ASSUME NEW k \in Keys, Saving(k) PROVE OwnWrite
  <2>1. Current \in Tracked /\ payload = wish[Current] /\ ~doomed[Current]
    BY <1>1 DEF Saving, StatementOK, ToldOK, AtStatement
  <2>2. pk'[Current] = k
    BY <1>1, <2>1 DEF Saving, Saved, Tracked, TypeOK
  <2>3. \A j \in Keys : db'[j] # db[j] => j = k /\ db'[j] = payload
    BY <1>1 DEF Saving, TypeOK
  <2> QED
    BY <2>1, <2>2, <2>3
<1>2. CASE Deleted
  <2>1. Current \in Tracked /\ doomed[Current]
    BY <1>2 DEF Deleted, StatementOK, ToldOK, AtStatement
  <2>2. \A j \in Keys : db'[j] # db[j] => j = pk[Current] /\ db'[j] = None
    BY <1>2 DEF Deleted, DeleteRow, TypeOK
  <2> QED
    BY <2>1, <2>2
<1>3. CASE db' = db
  BY <1>3
<1>4. ASSUME \/ \E e \in Entities, s \in {"new", "managed", "dirty"}, k \in Keys \cup {None}, v \in Values,
                  original \in Values \cup {None} : Tracking(e, s, k, v, original)
             \/ \E e \in Entities, v \in Values : Write(e, v)
             \/ \E e \in Entities : MarkRemoved(e)
             \/ Reset \/ StartFlush \/ EndFlush \/ Skip \/ Begin \/ Send \/ Advance \/ Fail \/ UNCHANGED vars
      PROVE  OwnWrite
  BY <1>3, <1>4 DEF Tracking, Track, Write, MarkRemoved, Reset, StartFlush, EndFlush, Skip, Begin, Send, Advance, Fail, vars
<1> QED
  BY <1>1, <1>2, <1>4 DEF Step

\* flush() writes for each entity what the user told and clears what it has visited,
\* as long as no entity is changed while its own statement is on its way.
THEOREM FlushIsFaithful == ASSUME HandsOff PROVE Spec => FlushesFaithfully
<1>1. ASSUME IInv, ToldOK, [Next]_vars PROVE [OwnWrite]_vars
  BY <1>1, StepCases, WritesOwn
<1>2. [OwnWrite]_vars /\ [Clears]_vars => [OwnWrite /\ Clears]_vars
  OBVIOUS
<1> QED
  BY <1>1, <1>2, Invariance, HoldsWhatWasTold, FlushClears, PTL DEF Spec, FlushesFaithfully

-----------------------------------------------------------------------------
(* Snapshots and rows *)

\* Every step keeps the snapshots equal to the rows.
LEMMA SnapshotStep ==
    ASSUME RowsLoaded, IInv, IdentityExact, HandsOff => ToldOK, SnapshotIsRow, Step
    PROVE  SnapshotIsRow'
<1> USE UnitOfWorkAssumption DEF IInv, SnapshotIsRow
<1>0. KeysApart
  BY DEF RowsLoaded, KeysApart
<1>1. ASSUME NEW e \in Entities, NEW s \in {"new", "managed", "dirty"}, NEW k \in Keys \cup {None}, NEW v \in Values,
             NEW original \in Values \cup {None}, Tracking(e, s, k, v, original)
      PROVE  SnapshotIsRow'
  <2>1. /\ db' = db /\ status' = [status EXCEPT ![e] = s] /\ pk' = [pk EXCEPT ![e] = k]
        /\ snap' = [snap EXCEPT ![e] = original]
    BY <1>1 DEF Tracking, Track
  <2>2. original # None => db[k] = original
    BY <1>1 DEF Tracking
  <2> QED
    BY <2>1, <2>2 DEF Tracked, TypeOK
<1>2. ASSUME NEW k \in Keys, Saving(k) PROVE SnapshotIsRow'
  <2>1. Current \in Tracked /\ payload \in Values
    BY <1>2 DEF Saving, StatementOK, AtStatement
  <2>2. ASSUME NEW e \in Tracked, e # Current PROVE pk[e] # k
    BY <1>0, <1>2, <2>1, <2>2 DEF Saving, IdentityExact, Tracked
  <2>3. db'[k] = payload
    <3>1. CASE op = "insert"
      BY <1>2, <3>1 DEF Saving, TypeOK
    <3>2. CASE op = "update"
      <4>1. snap[Current] # None /\ pk[Current] = k
        BY <1>2, <3>2 DEF Saving, StatementOK, AtStatement
      <4>2. db[k] # None
        BY <2>1, <4>1
      <4> QED
        BY <1>2, <4>2 DEF Saving, TypeOK
    <3> QED
      BY <1>2, <3>1, <3>2 DEF Saving
  <2>4. Answer(Current, k) = payload
    <3>1. CASE Returning
      BY <2>1, <2>3, <3>1 DEF Answer
    <3>2. CASE ~Returning
      BY <1>2, <3>2 DEF Answer, RowsLoaded, ToldOK, AtStatement, Saving
    <3> QED
      BY <3>1, <3>2
  <2>5. /\ snap' = [snap EXCEPT ![Current] = payload] /\ pk' = [pk EXCEPT ![Current] = k]
        /\ Tracked' = Tracked /\ \A j \in Keys : j # k => db'[j] = db[j]
    BY <1>2, <2>1, <2>4 DEF Saving, Saved, Settled, Snapshot, Tracked, TypeOK
  <2>6. ASSUME NEW e \in Tracked, e # Current, snap'[e] # None PROVE db'[pk'[e]] = snap'[e]
    <3>1. snap'[e] = snap[e] /\ pk'[e] = pk[e] /\ pk[e] \in Keys
      BY <2>1, <2>5, <2>6 DEF Tracked, TypeOK, SavedOK
    <3> QED
      BY <2>2, <2>5, <2>6, <3>1
  <2>7. db'[pk'[Current]] = snap'[Current]
    BY <2>1, <2>3, <2>5 DEF Tracked, TypeOK
  <2> QED
    BY <2>5, <2>6, <2>7
<1>3. CASE Deleted
  <2>1. Current \in Tracked /\ pk[Current] \in Keys
    BY <1>3 DEF Deleted, StatementOK, AtStatement, Tracked, TypeOK
  <2>2. /\ Tracked' = Tracked \ {Current} /\ db' = [db EXCEPT ![pk[Current]] = None]
        /\ pk' = [pk EXCEPT ![Current] = None] /\ snap' = [snap EXCEPT ![Current] = None]
    BY <1>3 DEF Deleted, DeleteRow, Tracked, TypeOK
  <2>3. ASSUME NEW e \in Tracked \ {Current}, snap'[e] # None PROVE db'[pk'[e]] = snap'[e]
    <3>1. snap'[e] = snap[e] /\ pk'[e] = pk[e] /\ pk[e] \in Keys
      BY <2>2, <2>3 DEF Tracked, TypeOK, SavedOK
    <3>2. pk[e] # pk[Current]
      BY <2>1, <2>3, <3>1 DEF IdentityExact
    <3> QED
      BY <2>2, <2>3, <3>1, <3>2 DEF TypeOK
  <2> QED
    BY <2>2, <2>3
<1>4. CASE Reset
  BY <1>4 DEF Reset, Tracked
<1>5. ASSUME NEW e \in Entities, NEW v \in Values, Write(e, v) PROVE SnapshotIsRow'
  BY <1>5 DEF Write, MarkDirty, Tracked, TypeOK
<1>6. ASSUME NEW e \in Entities, MarkRemoved(e) PROVE SnapshotIsRow'
  BY <1>6 DEF MarkRemoved, Tracked, TypeOK
<1>7. CASE Skip
  BY <1>7 DEF Skip, Tracked, TypeOK
<1>8. CASE StartFlush \/ EndFlush \/ Begin \/ Send \/ Advance \/ Fail \/ UNCHANGED vars
  <2>1. UNCHANGED <<status, pk, snap, db>>
    BY <1>8 DEF StartFlush, EndFlush, Begin, Send, Advance, Fail, vars, entityVars
  <2> QED
    BY <2>1 DEF Tracked
<1> QED
  BY <1>1, <1>2, <1>3, <1>4, <1>5, <1>6, <1>7, <1>8 DEF Step

\* The snapshot an UPDATE is computed from (UnitOfWork.computeChanges) is the row, and the
\* identity map is exact, unless user code passes keys it has not loaded, or, without
\* RETURNING, changes an entity while its statement is on its way.
THEOREM Consistency == ASSUME RowsLoaded PROVE Spec => []Consistent
<1>1. KeysApart
  BY DEF RowsLoaded, KeysApart
<1>2. Init => IdentityExact /\ SnapshotIsRow /\ ToldOK
  BY DEF Init, IdentityExact, SnapshotIsRow, ToldOK, AtStatement, Tracked
<1>3. IInv /\ IdentityExact /\ (HandsOff => ToldOK) /\ SnapshotIsRow /\ [Next]_vars
        => IdentityExact' /\ (HandsOff' => ToldOK') /\ SnapshotIsRow'
  BY <1>1, StepCases, IdentityStep, ToldStep, SnapshotStep DEF HandsOff
<1>4. IInv => TypeOK
  BY DEF IInv
<1> QED
  BY <1>2, <1>3, <1>4, Invariance, PTL DEF Spec, Consistent

\* A managed entity is synchronized with the database (EntityStatus.Managed of
\* runtime-types.ts), when user code does none of the moves.
THEOREM ManagedEntitiesAreSaved == ASSUME Moves = {} PROVE Spec => []ManagedIsSaved
<1>1. RowsLoaded /\ HandsOff
  BY DEF RowsLoaded, HandsOff
<1>2. ASSUME IInv, ToldOK, Consistent PROVE ManagedIsSaved
  <2>1. ASSUME NEW e \in Entities, status[e] = "managed"
        PROVE  ~doomed[e] /\ val[e] = wish[e] /\ db[pk[e]] = wish[e]
    <3>1. e \in Tracked
      BY <2>1 DEF Tracked
    <3>2. snap[e] = val[e] /\ snap[e] # None
      BY <1>2, <2>1, <3>1 DEF IInv, SavedOK
    <3>3. db[pk[e]] = snap[e]
      BY <1>2, <3>1, <3>2 DEF Consistent, SnapshotIsRow
    <3>4. val[e] = wish[e] /\ ~doomed[e]
      BY <1>2, <2>1, <3>1 DEF ToldOK
    <3> QED
      BY <3>2, <3>3, <3>4
  <2> QED
    BY <2>1 DEF ManagedIsSaved
<1> QED
  BY <1>1, <1>2, Invariance, HoldsWhatWasTold, Consistency, PTL
=============================================================================
