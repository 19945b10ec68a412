----------------------------- MODULE UnitOfWork -----------------------------
(***************************************************************************)
(* The unit of work of a session and its identity map                      *)
(* (src/src/orm/unit-of-work.ts, identity-map.ts), with the calls of the   *)
(* session that feed them: creating, finding, changing and removing        *)
(* entities, persist() and saveGraph().                                    *)
(*                                                                         *)
(* An entity is a model value; it has one column beside its key, which the *)
(* user does not change.  flush() is a loop that awaits hooks and          *)
(* statements; user code (a hook, another promise) runs at every await.    *)
(* One flush() runs at a time, and a connection answers in the order in    *)
(* which it was asked, so that a statement and its answer are one step.    *)
(*                                                                         *)
(* The database (external) is a table; no other session writes to it, and  *)
(* it reports the key of what it inserts, by RETURNING or by insertId.     *)
(***************************************************************************)
EXTENDS Sequences, SequencesExt

CONSTANTS Entities,       \* the objects user code holds
          Keys, Values,   \* primary keys, values of the column
          None,           \* null
          Returning,      \* does the dialect have RETURNING?
          Moves           \* what user code does beyond the ordinary

ASSUME UnitOfWorkAssumption ==
    /\ None \notin Entities \cup Keys \cup Values \cup {"insert", "update", "delete"}
    /\ Returning \in BOOLEAN
    \* "touch": change or remove an entity while its own INSERT or UPDATE is on
    \* its way; "clash": track a new entity under a key in use; "saveGraph",
    \* "persist": pass an unloaded key to saveGraph() or persist()
    /\ Moves \subseteq {"touch", "clash", "saveGraph", "persist"}

VARIABLES status,               \* status of each entity; "absent": not tracked
          pk, val, snap,        \* tracked.pk, the column of the entity, tracked.original
          order,                \* trackedEntities, in insertion order
          identity,             \* identityMap
          stage, todo,          \* where flush() is, the entities it has to visit
          op, payload,          \* its current statement, the value in it
          db,                   \* the table
          wish, doomed,         \* what the user last wrote; has he removed it?
          touched               \* the entities the user acted on during flush()

entityVars == <<status, pk, val, snap>>
flushVars  == <<stage, todo, op, payload>>
userVars   == <<wish, doomed, touched>>
vars == <<entityVars, order, identity, flushVars, db, userVars>>

Statuses == {"absent", "new", "managed", "dirty", "removed"}
Stages   == {"idle", "next", "before", "sql", "after"}

(* All entities the unit of work tracks, and the one flush() is at. *)
Tracked == {e \in Entities : status[e] # "absent"}
Current == Head(todo)

Init == /\ status = [e \in Entities |-> "absent"]
        /\ pk = [e \in Entities |-> None]
        /\ val = [e \in Entities |-> None] /\ snap = [e \in Entities |-> None]
        /\ order = <<>> /\ identity = [k \in Keys |-> None]
        /\ stage = "idle" /\ todo = <<>> /\ op = None /\ payload = None
        /\ db \in [Keys -> Values \cup {None}]
        /\ wish = [e \in Entities |-> None] /\ doomed = [e \in Entities |-> FALSE]
        /\ touched = {}

\* trackedEntities.delete()
Untrack(e) == \E i \in 1..Len(order) : order[i] = e /\ order' = RemoveAt(order, i)

----------------------------------------------------------------------------
(* Variants of definitions below: what the properties have to catch. *)

DiffersNever(e)        == FALSE
ForgetOrder(e)         == Untrack(e) /\ UNCHANGED identity
DeleteRows(k)          == db' = [j \in Keys |-> None]
----------------------------------------------------------------------------
(* Tracking. *)

\* register(): a null key has no bucket entry.
Register(e, k) == identity' = IF k = None THEN identity ELSE [identity EXCEPT ![k] = e]

\* trackNew() and trackManaged() of an object that is not tracked.
Track(e, s, k, v, original) ==
    /\ status[e] = "absent"
    /\ status' = [status EXCEPT ![e] = s]
    /\ pk' = [pk EXCEPT ![e] = k]
    /\ val' = [val EXCEPT ![e] = v]
    /\ snap' = [snap EXCEPT ![e] = original]
    /\ order' = Append(order, e)
    /\ Register(e, k)
    /\ wish' = [wish EXCEPT ![e] = v]
    /\ doomed' = [doomed EXCEPT ![e] = FALSE]
    /\ touched' = touched \cup {e}
    /\ UNCHANGED <<flushVars, db>>

\* persist() of an object without a key, or a row without one given to
\* createEntityFromRow(); trackNew() also takes a key.
TrackNew(e, k, v) ==
    /\ k # None /\ "clash" \notin Moves => identity[k] = None /\ db[k] = None
    /\ Track(e, "new", k, v, None)

\* A query finds the row of a key that is not tracked.
Find(e, k) ==
    /\ db[k] # None /\ identity[k] = None
    /\ Track(e, "managed", k, db[k], db[k])

\* Does a payload repeat a row that is not loaded?
Repeats(k, v) == identity[k] = None /\ db[k] = v

\* persist() of an object that has a key: it is taken to be saved.
Persist(e, k, v) ==
    /\ "persist" \in Moves \/ Repeats(k, v)
    /\ Track(e, "managed", k, v, v)

\* saveGraph() with a key that is not tracked: the stub is made from the payload,
\* which is then assigned to it.  With a tracked key it is a Write.
SaveGraph(e, k, v) ==
    /\ identity[k] = None
    /\ "saveGraph" \in Moves \/ Repeats(k, v)
    /\ Track(e, "dirty", k, v, v)

\* Is the entity in a statement that will declare it saved?  Its INSERT takes the
\* columns after the hook, its UPDATE before the hook.
Busy(e) == /\ stage \in {"before", "sql"} /\ Current = e
           /\ op # "delete"
Written(e) == Busy(e) /\ ~(stage = "before" /\ op = "insert")

\* markDirty()
MarkDirty(s) == IF s \in {"new", "removed"} THEN s ELSE "dirty"

\* User code assigns to a column of a tracked entity: the proxy marks it dirty.
Write(e, v) ==
    /\ e \in Tracked
    /\ Written(e) => "touch" \in Moves
    /\ val' = [val EXCEPT ![e] = v]
    /\ wish' = [wish EXCEPT ![e] = v]
    /\ status' = [status EXCEPT ![e] = MarkDirty(@)]
    /\ touched' = touched \cup {e}
    /\ UNCHANGED <<pk, snap, order, identity, flushVars, db, doomed>>

\* remove(): markRemoved()
MarkRemoved(e) ==
    /\ e \in Tracked
    /\ Busy(e) => "touch" \in Moves
    /\ status' = [status EXCEPT ![e] = "removed"]
    /\ doomed' = [doomed EXCEPT ![e] = TRUE]
    /\ touched' = touched \cup {e}
    /\ UNCHANGED <<pk, val, snap, order, identity, flushVars, db, wish>>

\* reset(), by rollback() and dispose() of the session
Reset ==
    /\ stage = "idle"
    /\ status' = [e \in Entities |-> "absent"]
    /\ pk' = [e \in Entities |-> None]
    /\ val' = [e \in Entities |-> None] /\ snap' = [e \in Entities |-> None]
    /\ order' = <<>> /\ identity' = [k \in Keys |-> None]
    /\ wish' = [e \in Entities |-> None] /\ doomed' = [e \in Entities |-> FALSE]
    /\ touched' = {}
    /\ UNCHANGED <<flushVars, db>>

----------------------------------------------------------------------------
(* flush() *)

StartFlush ==
    /\ stage = "idle"
    /\ stage' = "next" /\ todo' = order /\ touched' = {}
    /\ UNCHANGED <<entityVars, order, identity, op, payload, db, wish, doomed>>

EndFlush ==
    /\ stage = "next" /\ todo = <<>>
    /\ stage' = "idle"
    /\ UNCHANGED <<entityVars, order, identity, todo, op, payload, db, userVars>>

\* computeChanges()
Differs(e) == snap[e] # val[e]

\* What flush() has to do for an entity, by its status at this moment.
Work(e) ==
    CASE status[e] = "new"                          -> "insert"
      [] status[e] = "dirty" /\ Differs(e)          -> "update"
      [] status[e] = "removed" /\ pk[e] # None      -> "delete"
      [] OTHER                                      -> None

\* Nothing to do; a dirty entity that does not differ is managed again.
Skip ==
    /\ stage = "next" /\ todo # <<>> /\ Work(Current) = None
    /\ status' = [status EXCEPT ![Current] = IF @ = "dirty" THEN "managed" ELSE @]
    /\ todo' = Tail(todo)
    /\ UNCHANGED <<pk, val, snap, order, identity, stage, op, payload, db, userVars>>

\* The changes of an UPDATE are computed, then the before-hook is called.
Begin ==
    /\ stage = "next" /\ todo # <<>> /\ Work(Current) # None
    /\ stage' = "before" /\ op' = Work(Current)
    /\ payload' = IF Work(Current) = "update" THEN val[Current] ELSE None
    /\ UNCHANGED <<entityVars, order, identity, todo, db, userVars>>

\* The hook has returned: the statement is sent.
Send ==
    /\ stage = "before"
    /\ stage' = "sql"
    /\ payload' = IF op = "insert" THEN val[Current] ELSE payload
    /\ UNCHANGED <<entityVars, order, identity, todo, op, db, userVars>>

\* applyReturningResults(): the row as the database has it.
Answer(e, k) == IF Returning /\ db'[k] # None THEN db'[k] ELSE val[e]

\* status = Managed, and the snapshot is what the entity holds now.
Settled(e) == "managed"
Snapshot(e, v) == snap' = [snap EXCEPT ![e] = v]

Saved(e, k) ==
    /\ val' = [val EXCEPT ![e] = Answer(e, k)]
    /\ status' = [status EXCEPT ![e] = Settled(e)]
    /\ Snapshot(e, Answer(e, k))
    /\ pk' = [pk EXCEPT ![e] = k]
    /\ Register(e, k)
    /\ stage' = "after"
    /\ UNCHANGED <<order, todo, op, payload, userVars>>

\* The INSERT succeeds: the key is the one given, or one the database chooses.
Inserted(k) ==
    /\ stage = "sql" /\ op = "insert"
    /\ db[k] = None
    /\ pk[Current] # None => k = pk[Current]
    /\ pk[Current] = None /\ "clash" \notin Moves => identity[k] = None
    /\ db' = [db EXCEPT ![k] = payload]
    /\ Saved(Current, k)

\* The UPDATE succeeds: it writes the row if there is one.
Updated ==
    /\ stage = "sql" /\ op = "update"
    /\ LET k == pk[Current] IN
         /\ db' = [db EXCEPT ![k] = IF @ = None THEN None ELSE payload]
         /\ Saved(Current, k)

\* The tracking of a deleted entity ends.
Forget(e) == Untrack(e) /\ identity' = [identity EXCEPT ![pk[e]] = None]
DeleteRow(k) == db' = [db EXCEPT ![k] = None]

Deleted ==
    /\ stage = "sql" /\ op = "delete"
    /\ DeleteRow(pk[Current])
    /\ Forget(Current)
    /\ status' = [status EXCEPT ![Current] = "absent"]
    /\ pk' = [pk EXCEPT ![Current] = None]
    /\ val' = [val EXCEPT ![Current] = None] /\ snap' = [snap EXCEPT ![Current] = None]
    /\ wish' = [wish EXCEPT ![Current] = None] /\ doomed' = [doomed EXCEPT ![Current] = FALSE]
    /\ stage' = "after"
    /\ UNCHANGED <<todo, op, payload, touched>>

\* The after-hook has returned: on to the next entity.
Advance ==
    /\ stage = "after"
    /\ stage' = "next" /\ todo' = Tail(todo) /\ op' = None /\ payload' = None
    /\ UNCHANGED <<entityVars, order, identity, db, userVars>>

\* A hook or the statement throws (an INSERT under a key in use has to), and
\* flush() with it: what it had not reached stays pending.
Fail ==
    /\ stage \in {"before", "sql", "after"}
    /\ stage' = "idle" /\ todo' = <<>> /\ op' = None /\ payload' = None
    /\ UNCHANGED <<entityVars, order, identity, db, userVars>>

----------------------------------------------------------------------------
User == \/ \E e \in Entities, v \in Values :
             \/ Write(e, v)
             \/ \E k \in Keys : TrackNew(e, k, v) \/ Persist(e, k, v) \/ SaveGraph(e, k, v)
             \/ TrackNew(e, None, v)
        \/ \E e \in Entities : MarkRemoved(e)
        \/ \E e \in Entities, k \in Keys : Find(e, k)
        \/ Reset

Flush == \/ StartFlush \/ EndFlush \/ Skip \/ Begin \/ Send
         \/ \E k \in Keys : Inserted(k)
         \/ Updated \/ Deleted \/ Advance \/ Fail

Next == User \/ Flush

Spec == Init /\ [][Next]_vars

----------------------------------------------------------------------------
(* Properties. *)

(* Every variable has its type; flush() is at an entity when it runs a hook or a
   statement. *)
TypeOK ==
    /\ status \in [Entities -> Statuses]
    /\ pk \in [Entities -> Keys \cup {None}]
    /\ val \in [Entities -> Values \cup {None}] /\ snap \in [Entities -> Values \cup {None}]
    /\ order \in Seq(Entities) /\ todo \in Seq(Entities)
    /\ identity \in [Keys -> Entities \cup {None}]
    /\ stage \in Stages /\ op \in {"insert", "update", "delete", None}
    /\ payload \in Values \cup {None}
    /\ db \in [Keys -> Values \cup {None}]
    /\ wish \in [Entities -> Values \cup {None}] /\ doomed \in [Entities -> BOOLEAN]
    /\ touched \subseteq Entities
    /\ stage \in {"before", "sql", "after"} => todo # <<>>

(* A row is one object: the identity map finds, under the key of each tracked
   entity that has one, this entity, and finds nothing else. *)
IdentityExact ==
    /\ \A k \in Keys : identity[k] # None =>
           identity[k] \in Tracked /\ pk[identity[k]] = k
    /\ \A e \in Tracked : pk[e] # None => identity[pk[e]] = e

(* "Managed" means what runtime-types.ts says of it, "synchronized with the
   database": the row holds what the user last wrote, and the user has not
   removed it.  No change is silently dropped, whatever the hooks and promises
   that interleave with flush(), its failures and its repetitions. *)
ManagedIsSaved ==
    \A e \in Entities : status[e] = "managed" =>
        ~doomed[e] /\ val[e] = wish[e] /\ db[pk[e]] = wish[e]

(* The snapshot an UPDATE is computed from is the row: a change that brings a
   column back to its saved value, and only that, needs no statement. *)
SnapshotIsRow ==
    \A e \in Tracked : snap[e] # None => db[pk[e]] = snap[e]

(* The identity map, the snapshots and the rows are one view of the data. *)
Consistent == TypeOK /\ IdentityExact /\ SnapshotIsRow

(* A row changes only to what the user last wrote to its entity, and disappears
   only when the user has removed its entity.  A flush() that ends well has dealt
   with every entity the user left alone meanwhile: nothing is pending but the
   removal of what never was in the database. *)
OwnWrite ==
    \A k \in Keys : db'[k] # db[k] =>
        \E e \in Tracked : /\ k \in {pk[e], pk'[e]}
                           /\ db'[k] = IF doomed[e] THEN None ELSE wish[e]

Clears ==
    stage = "next" /\ stage' = "idle" =>
        \A e \in Tracked \ touched :
            status[e] = "managed" \/ (status[e] = "removed" /\ pk[e] = None)

FlushesFaithfully == [][OwnWrite /\ Clears]_vars
=============================================================================
