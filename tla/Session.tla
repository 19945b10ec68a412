------------------------------ MODULE Session ------------------------------
(***************************************************************************)
(* The transactions of a session: OrmSession.commit(), rollback(), flush() *)
(* and transaction() of src/src/orm/orm-session.ts, runInTransaction() of  *)
(* transaction-runner.ts, and the lease of a pooled executor               *)
(* (pooled-executor-factory.ts).                                           *)
(*                                                                         *)
(* The calls of one session nest: transaction() runs user code that may    *)
(* call transaction() again.  stack holds a frame for every running call,  *)
(* the innermost last, with the point it has reached; every statement sent *)
(* to the database is a step that may throw.  A change is a number, given  *)
(* out in the order in which user code makes changes.                      *)
(*                                                                         *)
(* The database is external: a connection has at most one transaction, a   *)
(* stack of layers, one per savepoint above the base.  A failing ROLLBACK  *)
(* means a lost connection, whose transaction the server gives up; a       *)
(* failing COMMIT may end the transaction or leave it open.                *)
(***************************************************************************)
EXTENDS Integers, Sequences, FiniteSets

CONSTANTS Setups,         \* [executor, faults, calls]: the executor a session is given, what
                          \* may throw, what user code calls besides transaction() and commit()
          MaxChanges, MaxDepth, MaxSavepoints, MaxStray   \* bounds

ASSUME SessionAssumption ==
    \* a pooled executor or a connection, of a database that is strict (SQLite:
    \* COMMIT and ROLLBACK outside of a transaction and BEGIN in one are errors) or
    \* not (PostgreSQL: warnings), or a connection without transactions
    /\ \A s \in Setups : s.executor \in {"pool", "strict pool", "connection", "strict connection", "plain"}
    /\ \A s \in Setups : s.faults \subseteq {"begin", "sql", "hook", "handler", "commit", "busy",
                                             "rollback", "savepoint", "release", "rollbackTo"}
    \* "commit": a COMMIT that fails and ends its transaction; "busy": one that leaves it open
    \* "rollback", "commit": in the body of a transaction; "abandon", "flush":
    \* rollback() and flush() outside of one; "handler": in a handler
    /\ \A s \in Setups : s.calls \subseteq {"rollback", "commit", "abandon", "flush", "handler"}
    /\ {MaxChanges, MaxDepth, MaxSavepoints, MaxStray} \subseteq Nat

VARIABLES setup,                            \* the surroundings of the session
          stack,                            \* the running calls
          depth, counter, rollbackOnly,     \* transactionDepth, savepointCounter
          dirty, links,                     \* unitOfWork, relationChanges: what is pending
          lease,                            \* has the pooled executor a lease?
          open, layers,                     \* the transaction of the connection
          committed,                        \* the changes in the database
          stray,                            \* the transactions still open on connections that
                                            \* are back in the pool (two alike count as one)
          made,                             \* the number of changes made
          acked, refused, dropped           \* what the calls promised of the changes

sessionVars == <<depth, counter, rollbackOnly>>
pendingVars == <<dirty, links>>
connVars    == <<lease, open, layers, stray>>
promiseVars == <<acked, refused, dropped>>
vars == <<setup, stack, sessionVars, pendingVars, connVars, committed, made, promiseVars>>

Kinds  == {"outer", "inner", "commit", "bare", "flush"}
Points == {"begin", "body", "before", "flush1", "links", "flush2", "after", "end",
           "dispatch", "undo"}

Transactions == setup.executor # "plain"
Pooled       == setup.executor \in {"pool", "strict pool"}
Strict       == setup.executor \in {"strict pool", "strict connection"}
Faults       == setup.faults
UserCalls    == setup.calls

Init ==
    /\ setup \in Setups
    /\ stack = <<>>
    /\ depth = 0 /\ counter = 0 /\ rollbackOnly = FALSE
    /\ dirty = {} /\ links = {}
    /\ lease = FALSE /\ open = FALSE /\ layers = <<>> /\ stray = {}
    /\ committed = {}
    /\ made = 0 /\ acked = {} /\ refused = {} /\ dropped = {}

-----------------------------------------------------------------------------
(* Frames *)

Top == stack[Len(stack)]
At(point) == stack # <<>> /\ Top.pc = point
GoTo(point, todo) ==
    stack' = [stack EXCEPT ![Len(stack)] = [@ EXCEPT !.pc = point, !.todo = todo]]

\* A frame: what it still has to flush or process, the changes it answers for,
\* and whether a transaction nested in it failed.
Push(kind, point, sp, todo) ==
    stack' = Append(stack, [kind |-> kind, pc |-> point, sp |-> sp, todo |-> todo,
                            made |-> IF kind = "inner" THEN {} ELSE dirty \cup links,
                            failed |-> FALSE])

\* The call returns or throws to its caller.
Pop(failed) ==
    stack' = [i \in 1..(Len(stack) - 1) |->
                [stack[i] EXCEPT !.failed = @ \/ (failed /\ Top.kind = "inner")]]

Resolve ==
    /\ Pop(FALSE)
    /\ acked' = IF Top.kind \in {"flush", "inner"} THEN acked ELSE acked \cup (Top.made \ dropped)
    /\ UNCHANGED <<refused, dropped>>

\* A rejected transaction() promises that its changes are undone; a rejected
\* commit() leaves what is still pending to the next one and drops the rest.
Reject ==
    /\ Pop(TRUE)
    /\ refused' = IF Top.kind = "outer" THEN refused \cup Top.made ELSE refused
    /\ dropped' = IF Top.kind \in {"commit", "bare"}
                  THEN dropped \cup (Top.made \ (dirty \cup links \cup committed))
                  ELSE dropped
    /\ UNCHANGED acked

\* Variant: a nested failure does not mark the session.
ThrowUnmarked ==
    \/ /\ Top.kind \in {"outer", "inner", "commit"}
       /\ GoTo("undo", {})
       /\ UNCHANGED <<rollbackOnly, promiseVars>>
    \/ /\ Top.kind \in {"bare", "flush"}
       /\ Reject
       /\ UNCHANGED rollbackOnly

\* An error inside the try block of the call: its catch block is next.
Throw ==
    \/ /\ Top.kind \in {"outer", "inner", "commit"}
       /\ GoTo("undo", {})
       /\ rollbackOnly' = (rollbackOnly \/ Top.kind = "inner")
       /\ UNCHANGED promiseVars
    \/ /\ Top.kind \in {"bare", "flush"}
       /\ Reject
       /\ UNCHANGED rollbackOnly

\* Variant: the counter of savepoints is reset after every nested transaction.
LeaveResetsCounter(n, flag) ==
    /\ depth' = IF n > 0 THEN n - 1 ELSE 0
    /\ counter' = 0
    /\ rollbackOnly' = IF depth' = 0 THEN FALSE ELSE flag

\* The finally block of transaction().
Leave(n, flag) ==
    /\ depth' = IF n > 0 THEN n - 1 ELSE 0
    /\ counter' = IF depth' = 0 THEN 0 ELSE counter
    /\ rollbackOnly' = IF depth' = 0 THEN FALSE ELSE flag

-----------------------------------------------------------------------------
(* The executor and the database *)

Layer == [name : Nat, writes : SUBSET (1..MaxChanges)]
LayerOf(name) == {i \in 1..Len(layers) : layers[i].name = name}
InLayers == UNION {layers[i].writes : i \in 1..Len(layers)}

\* Variant: the statement runs on another connection.
StatementOutside(c) ==
    /\ committed' = committed \cup {c}
    /\ UNCHANGED layers

\* executeSql() of a change: inside the transaction, or at once.
Statement(c) ==
    IF open
    THEN /\ layers' = [layers EXCEPT ![Len(layers)].writes = @ \cup {c}]
         /\ UNCHANGED committed
    ELSE /\ committed' = committed \cup {c}
         /\ UNCHANGED layers

Disconnect == open' = FALSE /\ layers' = <<>>

\* The transaction is over, and the pooled executor gives its lease back.
Finish == Disconnect /\ lease' = FALSE /\ UNCHANGED stray

\* The pooled executor gives its lease back, whatever state the connection is in:
\* a transaction that is still open stays open in the pool.
GiveBack ==
    /\ lease' = FALSE
    /\ IF Pooled /\ lease /\ open
       THEN stray' = stray \cup {layers} /\ Disconnect
       ELSE UNCHANGED <<open, layers, stray>>

CommitTransaction ==
    /\ Pooled => lease
    /\ open \/ ~Strict
    /\ committed' = committed \cup InLayers
    /\ Finish

\* The pooled executor releases the lease however its COMMIT failed.
CommitTransactionFails ==
    /\ \/ "commit" \in Faults /\ open /\ Finish
       \/ /\ \/ "busy" \in Faults /\ open
             \/ Pooled /\ ~lease
             \/ ~open /\ Strict
          /\ GiveBack
    /\ UNCHANGED committed

\* Without a lease the pooled executor has nothing to roll back.
RollbackTransaction ==
    /\ open \/ ~Strict \/ (Pooled /\ ~lease)
    /\ Finish
    /\ UNCHANGED committed

RollbackTransactionFails ==
    /\ \/ "rollback" \in Faults /\ open
       \/ ~open /\ Strict /\ (Pooled => lease)
    /\ Finish
    /\ UNCHANGED committed

-----------------------------------------------------------------------------
(* User code *)

\* User code runs outside of every call, in the body of a transaction or, when
\* they use the session, in the handlers of domain events.
UserRuns == \/ stack = <<>> \/ At("body")
            \/ "handler" \in UserCalls /\ At("dispatch")

Room == Len(stack) < MaxDepth

\* The calls a new change belongs to: not those that have already committed.
Answers(i) == \A j \in i..Len(stack) : stack[j].pc # "dispatch"

\* An entity becomes dirty, or a relation change is registered, by user code or
\* a beforeFlush interceptor.
Change ==
    /\ UserRuns \/ At("before")
    /\ made < MaxChanges
    /\ made' = made + 1
    /\ \/ dirty' = dirty \cup {made'} /\ UNCHANGED links
       \/ links' = links \cup {made'} /\ UNCHANGED dirty
    /\ stack' = [i \in 1..Len(stack) |->
                   IF Answers(i) THEN [stack[i] EXCEPT !.made = @ \cup {made'}] ELSE stack[i]]
    /\ UNCHANGED <<sessionVars, connVars, committed, promiseVars>>

\* flush(): the scalar pass only.
Flush ==
    /\ At("body") \/ (stack = <<>> /\ "flush" \in UserCalls)
    /\ Room
    /\ Push("flush", "flush1", 0, dirty)
    /\ UNCHANGED <<sessionVars, pendingVars, connVars, committed, made, promiseVars>>

\* commit(), which the documentation advises against in a transaction.
Commit ==
    /\ stack = <<>> \/ (UserRuns /\ (At("body") => "commit" \in UserCalls))
    /\ Room
    /\ IF Transactions THEN Push("commit", "begin", 0, {}) ELSE Push("bare", "before", 0, {})
    /\ UNCHANGED <<sessionVars, pendingVars, connVars, committed, made, promiseVars>>

\* transaction(): BEGIN on the outside, SAVEPOINT on the inside.  (An executor
\* without savepoints refuses the latter at once, and nothing changes.)
Transaction ==
    /\ UserRuns /\ Room
    /\ \/ /\ ~Transactions
          /\ Push("bare", "body", 0, {})
          /\ UNCHANGED <<counter, rollbackOnly>>
       \/ /\ Transactions /\ depth = 0
          /\ Push("outer", "begin", 0, {})
          /\ rollbackOnly' = FALSE
          /\ UNCHANGED counter
       \/ /\ Transactions /\ depth > 0
          /\ counter < MaxSavepoints /\ Len(layers) <= MaxSavepoints
          /\ counter' = counter + 1
          /\ Push("inner", "begin", counter', {})
          /\ UNCHANGED rollbackOnly
    /\ UNCHANGED <<depth, pendingVars, connVars, committed, made, promiseVars>>

\* Variant: rollback() does not reset the unit of work.
ForgetNothing == UNCHANGED pendingVars

\* rollback(): the executor first, then the session forgets what is pending.
ForgetPending == dirty' = {} /\ links' = {}
ResetSession  == depth' = 0 /\ counter' = 0 /\ rollbackOnly' = FALSE

Rollback ==
    /\ \/ stack = <<>> /\ "abandon" \in UserCalls
       \/ At("body") /\ "rollback" \in UserCalls
    /\ \/ /\ IF Transactions THEN RollbackTransaction ELSE UNCHANGED <<connVars, committed>>
          /\ ResetSession
          /\ ForgetPending
       \/ /\ Transactions /\ RollbackTransactionFails
          /\ UNCHANGED <<sessionVars, pendingVars>>
    /\ refused' = refused \cup dirty \cup links \cup InLayers
    /\ stack' = [i \in 1..Len(stack) |-> [stack[i] EXCEPT !.made = {}]]
    /\ UNCHANGED <<made, acked, dropped>>

Dispose ==
    /\ stack = <<>>
    /\ GiveBack
    /\ ForgetPending
    /\ refused' = refused \cup dirty \cup links
    /\ UNCHANGED <<stack, sessionVars, committed, made, acked, dropped>>

BodyReturns ==
    /\ At("body")
    /\ IF Top.kind # "bare" /\ rollbackOnly
       THEN Throw
       ELSE GoTo("before", {}) /\ UNCHANGED <<rollbackOnly, promiseVars>>
    /\ UNCHANGED <<depth, counter, pendingVars, connVars, committed, made>>

BodyThrows ==
    /\ At("body")
    /\ Throw
    /\ UNCHANGED <<depth, counter, pendingVars, connVars, committed, made>>

-----------------------------------------------------------------------------
(* The statements that open a transaction *)

\* The try block of the call.
Enter ==
    IF Top.kind = "outer"
    THEN GoTo("body", {}) /\ depth' = depth + 1
    ELSE GoTo("before", {}) /\ UNCHANGED depth

\* The connection is not one that was left in a transaction (a pool with MaxStray of
\* those has no other).
Spare == Cardinality(stray) < MaxStray \/ lease \/ ~Pooled

Begun ==
    /\ At("begin") /\ Top.kind \in {"outer", "commit"}
    /\ Spare
    /\ lease' = Pooled
    /\ \/ ~open /\ layers' = <<[name |-> 0, writes |-> {}]>>
       \/ open /\ ~Strict /\ UNCHANGED layers
    /\ open' = TRUE
    /\ Enter
    /\ UNCHANGED <<counter, rollbackOnly, pendingVars, stray, committed, made, promiseVars>>

\* Outside of the try block.  The lease stays when only the BEGIN failed.
BeginFailed ==
    /\ At("begin") /\ Top.kind \in {"outer", "commit"}
    /\ "begin" \in Faults \/ (open /\ Strict)
    /\ lease' = lease \/ (Spare /\ lease' = Pooled)
    /\ Reject
    /\ UNCHANGED <<sessionVars, pendingVars, open, layers, stray, committed, made>>

SavepointSet ==
    /\ At("begin") /\ Top.kind = "inner"
    /\ open
    /\ layers' = Append(layers, [name |-> Top.sp, writes |-> {}])
    /\ depth' = depth + 1
    /\ GoTo("body", {})
    /\ UNCHANGED <<counter, rollbackOnly, pendingVars, lease, open, stray, committed,
                   made, promiseVars>>

SavepointFailed ==
    /\ At("begin") /\ Top.kind = "inner"
    /\ "savepoint" \in Faults \/ ~open
    /\ Reject
    /\ UNCHANGED <<sessionVars, pendingVars, connVars, committed, made>>

-----------------------------------------------------------------------------
(* flushWithHooks() *)

\* The beforeFlush and afterFlush interceptors have run.
Intercepted ==
    \/ /\ At("before")
       /\ GoTo("flush1", dirty)
       /\ UNCHANGED <<rollbackOnly, promiseVars>>
    \/ /\ At("after")
       /\ CASE Top.kind \in {"outer", "inner"} /\ rollbackOnly -> Throw
            [] Top.kind = "bare" -> GoTo("dispatch", {}) /\ UNCHANGED <<rollbackOnly, promiseVars>>
            [] OTHER -> GoTo("end", {}) /\ UNCHANGED <<rollbackOnly, promiseVars>>
InterceptorThrows == At("before") \/ At("after")

\* unitOfWork.flush() works on the entities that were tracked when it began; an
\* entity whose statement succeeded is Managed again.
Flushed ==
    /\ At("flush1") \/ At("flush2")
    /\ \E c \in Top.todo : /\ Statement(c)
                           /\ dirty' = dirty \ {c}
                           /\ GoTo(Top.pc, Top.todo \ {c})
    /\ UNCHANGED <<sessionVars, links, lease, open, stray, made, promiseVars>>

\* process(): a pivot change is a statement, a foreign key makes its entity dirty.
Processed ==
    /\ At("links")
    /\ \E c \in Top.todo :
         /\ GoTo("links", Top.todo \ {c})
         /\ \/ Statement(c) /\ UNCHANGED dirty
            \/ dirty' = dirty \cup {c} /\ UNCHANGED <<layers, committed>>
    /\ UNCHANGED <<sessionVars, links, lease, open, stray, made, promiseVars>>

\* Variant: no second flush.
PassOverOnce ==
    /\ Top.todo = {}
    /\ \/ /\ At("flush1") /\ Top.kind # "flush"
          /\ GoTo("links", links)
          /\ links' = {}
          /\ UNCHANGED promiseVars
       \/ /\ At("flush1") /\ Top.kind = "flush"
          /\ Resolve
          /\ UNCHANGED links
       \/ /\ At("links") /\ GoTo("after", {})
          /\ UNCHANGED <<links, promiseVars>>
    /\ UNCHANGED <<sessionVars, dirty, connVars, committed, made>>

\* A pass is over.  process() empties the queue before it works on the copy.
PassOver ==
    /\ Top.todo = {}
    /\ \/ /\ At("flush1") /\ Top.kind # "flush"
          /\ GoTo("links", links)
          /\ links' = {}
          /\ UNCHANGED promiseVars
       \/ /\ At("flush1") /\ Top.kind = "flush"
          /\ Resolve
          /\ UNCHANGED links
       \/ /\ At("links") /\ GoTo("flush2", dirty)
          /\ UNCHANGED <<links, promiseVars>>
       \/ /\ At("flush2") /\ GoTo("after", {})
          /\ UNCHANGED <<links, promiseVars>>
    /\ UNCHANGED <<sessionVars, dirty, connVars, committed, made>>

FlushStep ==
    \/ Intercepted /\ UNCHANGED <<depth, counter, pendingVars, connVars, committed, made>>
    \/ Flushed \/ Processed
    \/ stack # <<>> /\ PassOver

\* A statement or an interceptor throws.
FlushFailed ==
    /\ \/ "hook" \in Faults /\ InterceptorThrows
       \/ "sql" \in Faults /\ (At("flush1") \/ At("links") \/ At("flush2")) /\ Top.todo # {}
    /\ Throw
    /\ UNCHANGED <<depth, counter, pendingVars, connVars, committed, made>>

-----------------------------------------------------------------------------
(* The end of a call *)

Committed ==
    /\ At("end") /\ Top.kind \in {"outer", "commit"}
    /\ CommitTransaction
    /\ GoTo("dispatch", {})
    /\ UNCHANGED <<sessionVars, pendingVars, made, promiseVars>>

CommitFailed ==
    /\ At("end") /\ Top.kind \in {"outer", "commit"}
    /\ CommitTransactionFails
    /\ Throw
    /\ UNCHANGED <<depth, counter, pendingVars, made>>

\* RELEASE merges the layers from the savepoint on into the one below.  SQL
\* Server has no such statement: its executor leaves the savepoint where it is.
SavepointReleased ==
    /\ At("end") /\ Top.kind = "inner"
    /\ \E i \in LayerOf(Top.sp) :
         \/ layers' = [SubSeq(layers, 1, i - 1) EXCEPT ![i - 1].writes =
                         @ \cup UNION {layers[j].writes : j \in i..Len(layers)}]
         \/ UNCHANGED layers
    /\ Resolve
    /\ Leave(depth, rollbackOnly)
    /\ UNCHANGED <<pendingVars, lease, open, stray, committed, made>>

ReleaseFailed ==
    /\ At("end") /\ Top.kind = "inner"
    /\ "release" \in Faults \/ LayerOf(Top.sp) = {}
    /\ Throw
    /\ UNCHANGED <<depth, counter, pendingVars, connVars, committed, made>>

\* The domain events are dispatched and the call returns.
Dispatched ==
    /\ At("dispatch")
    /\ Resolve
    /\ IF Top.kind = "outer" THEN Leave(depth, rollbackOnly) ELSE UNCHANGED sessionVars
    /\ UNCHANGED <<pendingVars, connVars, committed, made>>

\* A handler throws: inside the try block of transaction(), after commit()'s.
HandlerThrows ==
    /\ At("dispatch") /\ "handler" \in Faults
    /\ IF Top.kind = "outer" THEN Throw ELSE Reject /\ UNCHANGED rollbackOnly
    /\ UNCHANGED <<depth, counter, pendingVars, connVars, committed, made>>

\* The catch block of the outermost transaction(): rollback(), which forgets the
\* pending changes only if the executor's ROLLBACK did not throw.
OuterUndone ==
    /\ At("undo") /\ Top.kind = "outer"
    /\ \/ /\ RollbackTransaction
          /\ Leave(0, FALSE)
          /\ ForgetPending
       \/ /\ RollbackTransactionFails
          /\ Leave(depth, rollbackOnly)
          /\ UNCHANGED pendingVars
    /\ Reject
    /\ UNCHANGED made

\* Variant: the error is thrown without a ROLLBACK.
CommitNotUndone ==
    /\ At("undo") /\ Top.kind = "commit"
    /\ Reject
    /\ UNCHANGED <<sessionVars, pendingVars, connVars, committed, made>>

\* The catch block of runInTransaction().
CommitUndone ==
    /\ At("undo") /\ Top.kind = "commit"
    /\ RollbackTransaction \/ RollbackTransactionFails
    /\ Reject
    /\ UNCHANGED <<sessionVars, pendingVars, made>>

\* The catch block of a nested transaction(): ROLLBACK TO empties the layers
\* from the savepoint on; the savepoint stays.
InnerUndone ==
    /\ At("undo") /\ Top.kind = "inner"
    /\ \/ \E i \in LayerOf(Top.sp) :
            layers' = [SubSeq(layers, 1, i) EXCEPT ![i].writes = {}]
       \/ /\ "rollbackTo" \in Faults \/ LayerOf(Top.sp) = {}
          /\ UNCHANGED layers
    /\ Reject
    /\ Leave(depth, rollbackOnly)
    /\ UNCHANGED <<pendingVars, lease, open, stray, committed, made>>

-----------------------------------------------------------------------------
(* Connections that are in the pool with a transaction of a failed COMMIT *)

\* The executor acquires the one whose transaction is s.
Takes(s) == Pooled /\ ~lease /\ s \in stray

\* BEGIN on it: at most a warning, and the old transaction goes on; or an error,
\* and the lease stays.
BegunAstray ==
    /\ At("begin") /\ Top.kind \in {"outer", "commit"}
    /\ \E s \in stray : Takes(s) /\ stray' = stray \ {s} /\ layers' = s
    /\ lease' = TRUE /\ open' = TRUE
    /\ \/ ~Strict /\ Enter /\ UNCHANGED promiseVars
       \/ (Strict \/ "begin" \in Faults) /\ Reject /\ UNCHANGED depth
    /\ UNCHANGED <<counter, rollbackOnly, pendingVars, committed, made>>

\* A statement of a call without a transaction runs on it.
StatementAstray ==
    /\ At("flush1") \/ At("links") \/ At("flush2")
    /\ ~open
    /\ \E c \in Top.todo, s \in stray :
         /\ Takes(s)
         /\ stray' = (stray \ {s}) \cup {[s EXCEPT ![Len(s)].writes = @ \cup {c}]}
         /\ dirty' = IF At("links") THEN dirty ELSE dirty \ {c}
         /\ GoTo(Top.pc, Top.todo \ {c})
    /\ UNCHANGED <<sessionVars, links, lease, open, layers, committed, made, promiseVars>>

\* Another user of the pool finds the transaction and commits it with its own
\* changes or rolls it back, or the connection is closed.
StrayEnds ==
    /\ \E s \in stray :
         /\ stray' = stray \ {s}
         /\ committed' \in {committed, committed \cup UNION {s[i].writes : i \in 1..Len(s)}}
    /\ UNCHANGED <<stack, sessionVars, pendingVars, lease, open, layers, made, promiseVars>>

Astray == BegunAstray \/ StatementAstray \/ StrayEnds

-----------------------------------------------------------------------------
User == \/ Change \/ Flush \/ Commit \/ Transaction \/ Rollback \/ Dispose
        \/ BodyReturns \/ BodyThrows

Running == \/ Begun \/ BeginFailed \/ SavepointSet \/ SavepointFailed
           \/ FlushStep \/ FlushFailed
           \/ Committed \/ CommitFailed \/ SavepointReleased \/ ReleaseFailed
           \/ Dispatched \/ HandlerThrows
           \/ OuterUndone \/ CommitUndone \/ InnerUndone

Next == (User \/ Running \/ Astray) /\ UNCHANGED setup

Spec == Init /\ [][Next]_vars

-----------------------------------------------------------------------------
(* Properties *)

Frames == [kind : Kinds, pc : Points, sp : Nat, todo : SUBSET (1..MaxChanges),
           made : SUBSET (1..MaxChanges), failed : BOOLEAN]

TypeOK ==
    /\ setup \in Setups
    /\ stack \in Seq(Frames)
    /\ depth \in Nat /\ counter \in Nat /\ rollbackOnly \in BOOLEAN
    /\ lease \in BOOLEAN /\ open \in BOOLEAN
    /\ layers \in Seq(Layer) /\ stray \subseteq Seq(Layer)
    /\ made \in 0..MaxChanges
    /\ \A S \in {dirty, links, committed, acked, refused, dropped} : S \subseteq 1..made

\* When transaction() or commit() resolves, the changes it answers for are in
\* the database (OrmSession.transaction, commit; runInTransaction).
ResolvedIsCommitted == acked \subseteq committed

\* No connection goes back to the pool in the transaction of a COMMIT that failed.
Tidy == Pooled => "busy" \notin Faults

\* BEGIN and ROLLBACK work and no handler throws after the COMMIT.
Undoable == Tidy /\ Faults \cap {"begin", "rollback", "handler"} = {}

Undone == refused \cap committed = {}

\* The changes of a transaction() that rejects are never in the database, not
\* even through a later call that finds them pending (OrmSession.rollback).
RejectedIsUndone == Undoable => Undone

\* The outermost transaction() never reaches COMMIT after a transaction nested
\* in it failed, whatever the body caught (rollbackOnly, throwIfRollbackOnly),
\* unless it was the SAVEPOINT that failed.
FailureDooms ==
    "savepoint" \notin Faults =>
        \A i \in 1..Len(stack) :
            stack[i].kind = "outer" /\ stack[i].failed => stack[i].pc \notin {"end", "dispatch"}

Entered == {i \in 1..Len(stack) : stack[i].kind \in {"outer", "inner"} /\ stack[i].pc # "begin"}

\* Every transaction() in its try block has a savepoint of its own, nested as
\* the calls are: RELEASE and ROLLBACK TO reach exactly its own statements, where
\* the transaction was begun by this session.
SavepointsNest == Tidy =>
    LET inner == {i \in Entered : stack[i].kind = "inner"} IN
    /\ \A i, j \in 1..Len(layers) : layers[i].name = layers[j].name => i = j
    /\ \A i \in inner : LayerOf(stack[i].sp) # {}
    /\ \A i, j \in inner : i < j =>
         \A m \in LayerOf(stack[i].sp), n \in LayerOf(stack[j].sp) : m < n

\* When no call runs, the connection is in no transaction, nothing is leased, and
\* no connection went back to the pool in a transaction, where a COMMIT that fails
\* ends its own (OrmSession.transaction, commit and rollback; commitTransaction;
\* every variable has its type).
QuietIsClosed == TypeOK /\ (Tidy /\ stack = <<>> => ~open /\ ~lease /\ stray = {})

\* With transactions, the changes of a session are saved as AtomicWork.tla says:
\* all of those made since the last save, or none.
Atomic == Transactions /\ Undoable /\ "flush" \notin UserCalls
Work == INSTANCE AtomicWork WITH Changes <- 1..MaxChanges,
            saved <- IF Atomic THEN committed ELSE {},
            pending <- IF Atomic THEN (1..made) \ (committed \cup refused \cup dropped) ELSE {}
SavesAtomically == Work!Spec
=============================================================================
