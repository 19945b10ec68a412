# Specifications of metal-orm

TLA+ models of metal-orm (`src/src` and `src/scripts/generate-entities`), checked with TLC and, for
the connection pool, the session, the unit of work, the query cache and the bulk operations, proved
with TLAPS. The source of truth is the code: every definition that
models code is listed in `PROJECT.json` under `map`, with its lines. Where a database, a driver or a
server is modelled, the definition says external: it is taken from how the code uses it.

## Inventory

JavaScript has one thread: the code between two `await`s is atomic, and at every `await` any other
promise, timer, hook or event handler may run. That is the only concurrency inside a process, and it
decides the grain of the models of stateful parts: one action per stretch between awaits. The
builders and compilers have no awaits; there an action is one call on a builder, and what is hard is
the sequence of calls and what one call's result means to the next.

| Component | State it keeps | Operations | Hard behaviours | What makes it correct |
|---|---|---|---|---|
| Connection pool, `core/execution/pooling/pool.ts` | idle stack, leased and creating counters, queue of waiters, timers, destroyed flag | acquire, lease.release/destroy, warm-up, reaper, destroy | all of them interleave at the awaits of the adapter; timers race answers; adapter calls throw; shutdown | exclusive lending, exact counters, no waiter forgotten, FIFO, nothing leaked |
| Session transactions, `orm/orm-session.ts`, `transaction-runner.ts`, `pooled-executor-factory.ts` | transactionDepth, savepointCounter, rollbackOnly, the executor's lease; the database transaction | commit, rollback, flush, transaction (nested), dispose | nesting, every statement may throw, user code in the body, in interceptors and in handlers | resolved is committed, rejected is undone, savepoints follow the calls, no transaction outlives a call |
| Unit of work and identity map, `orm/unit-of-work.ts`, `identity-map.ts` | tracked entities with status and snapshot, identity buckets | track, persist, find, change, remove, flush, reset | hooks and promises act on entities while flush() awaits; flush() fails half way and is repeated | "managed" entities equal their rows, a row is one object, no write to another row |
| Relation changes, `orm/relation-change-processor.ts` | queue of changes | register, process, reset | owners without a key, children that changed hands, pivots | the tables hold what the calls have ordered |
| Relation collections and references, `orm/relations/*` | items, added, removed, loaded | load, add, attach, detach, remove, clear, set, syncByIds | load() awaits while the user adds | what is shown is what is saved |
| Lazy loading, `orm/lazy-batch/*`, `entity-relation-cache.ts` | promise per relation, shared by all entities of a table | load | entities that join late, rows that are old when they are used | one query, every entity gets its rows |
| Saving graphs, `orm/save-graph.ts` | none of its own | saveGraph, updateGraph, patchGraph | payloads against what is loaded, pruning | the graph in the database is the payload |
| Query cache, `cache/*` | entries, tag index, expiry | getOrExecute, invalidate by key, tag, prefix | get, execute, set and tag registration are separate awaits and, with Redis, separate commands | no stale result after an invalidation |
| Nested-set trees, `tree/*` | `lft`, `rght`, parent and depth in the database | insert, move, remove, recover, queries | several statements with bounds read before, any of which may fail | bounds, parents and depths are one tree |
| Bulk operations, `bulk/*` | counter of the next chunk, results by index | insert, upsert, update, updateWhere, delete in chunks | workers go on after one has failed | each chunk once, an answer that tells what was written |
| Select builder, includes, pagination, `query-builder/*` | immutable query and hydration plan | select, include, join, filter, order, page, cursor, count | names of sources, joins that multiply rows, pages of parents | the result is the graph that was asked for |
| Hydration, `orm/hydration.ts`, `execute.ts` | what an entity remembers of its relations | hydrate | joined rows repeat parents and children | each parent and child once |
| Query AST and statement builders, `core/ast`, `query-builder/*-state.ts` | immutable statements | values, columns, set, where, returning, conflict, union, ... | order of the calls | every value under its column |
| Dialects, compilers, functions, `core/dialect`, `core/functions` | list of parameters while compiling | compile | precedence, numbering of parameters, clauses in another order in each dialect | the text means what the tree says |
| Filters of DTOs, `dto/apply-filter.ts` | none | applyFilter | some, every, none over relations | the rows that satisfy the filter |
| Schema, `core/ddl/*` | the catalogue of the database | generate, introspect, diff, execute | no transaction around a plan, several processes, crashes, each database's own spelling | a plan that ran brings the database to the definitions and is not needed twice |
| Entity generation, `scripts/generate-entities` | none | classes from tables | names by inflection, keys that share a target | regenerated tables are the tables |
| Decorators and metadata, `decorators/*`, `orm/entity-metadata.ts` | registry of classes, tables built from it | decorate, bootstrap, addEntityRelation, getTableDef | classes that name others not loaded yet, repeated bootstraps | every table handed out has its relations |
| OpenAPI, `dto/openapi/*` | names given to schemas, reusable components | schema of a response, request, filter, tree; name, extract, replace by references | schemas are read off tables whose relations are still being added; two halves of the code (schema and filter) must agree | a name and a document keep their meaning; what a schema allows is accepted |
| Domain events, query interceptors, executors, TypeScript generation | handlers, chains, none | dispatch, run, print | nothing a state machine would add to `Session` | see *Not modelled* |

Interaction: a session owns a unit of work, a queue of relation changes, an event bus and an
executor; the executor of a pooled ORM takes its connections from the pool. `commit()` and
`transaction()` run BEGIN, interceptors, flush, relation changes, flush, interceptors, COMMIT,
handlers, in this order. Wrappers of relations put their changes into the queue of the session and
load through batches that all entities of a table share. A select builder gives an AST and a
hydration plan; a dialect compiles the AST, the executor runs it, hydration makes graphs of the
rows. Decorators and the entity generator end in the table definitions that builders, relations and
the schema code all start from.

## Modules

| Module | Models | Abstract specification, reference definition |
|---|---|---|
| `Pool.tla` | the pool | `Lending.tla`: a connection is lent to one caller at a time, while it is open |
| `PoolProofs.tla` | theorems about `Pool` | |
| `QueueLemmas.tla` | lemmas about queues: append, tail, an element taken out (used by both proofs of queues) | |
| `Session.tla` | transactions, savepoints, lease of the executor | `AtomicWork.tla`: changes are saved together or not at all |
| `SessionProofs.tla`, `SessionPromises.tla` | theorems about `Session`: its structure; what it promises, and the refinement of `AtomicWork` | |
| `UnitOfWork.tla` | tracking, identity map, the flush loop | |
| `UnitOfWorkProofs.tla` | theorems about `UnitOfWork` | |
| `Relations.tla` | wrappers, batches, the queue of changes, saveGraph | `told`: the set of pairs the calls have ordered |
| `QueryCache.tla` | manager and adapters of the cache | a version of the database as the floor of each entry |
| `QueryCacheProofs.tla` | theorems about `QueryCache` | |
| `NestedSet.tla` | bounds, queries and algorithms on lists of rows | |
| `TreeManager.tla` | operations of the manager as series of statements | `Forest.tla`: an ordered forest, one step per operation |
| `TreeProofs.tla` | theorems about `NestedSet` and `TreeManager` | |
| `Bulk.tla` | chunks and workers | the rows written one by one (`After`) |
| `BulkProofs.tla` | theorems about `Bulk` | |
| `Select.tla` | builder, pagination, hydration, cursors | the graph computed from the tables and the calls |
| `Sql.tla` | the compilers of four dialects, to tokens | |
| `Engine.tla` | binding of parameters and a grammar that reads the tokens (external) | |
| `Meaning.tla` | what a statement does to tables (external) | |
| `Statements.tla` | builders of INSERT, UPDATE, DELETE, SELECT, filters of DTOs | a statement's meaning, before it is compiled |
| `Ddl.tla` | table definitions, rendering, diff | |
| `Catalog.tla` | what a database stores and refuses (external), introspection | |
| `SchemaSync.tla` | processes that synchronize and crash | |
| `Codegen.tla` | entity classes from an introspected database | |
| `Entities.tla` | loading and bootstrapping them | |
| `OpenApi.tla` | the schemas of their tables, names and components of documents | |
| `MC*.tla` | instances, symmetry; `MCPool` also has statements of comments that the code does not keep | |

**Pool.** A caller is an activity with one lease; `pc[c]` is the await at which its call is
suspended, `frame[c]` the connection in that call's local variable. `idle` is a set, as no property
depends on which idle connection is popped. `reaping` holds, for each running tick of the reaper,
what it still has to destroy; `closing` the same for `destroy()`. `orphans` is a ghost: the
connections of leases that reached nobody. `serving[c]` is the waiter that the `destroyResource()`
of `c` has taken from the queue.

**Session.** Calls of a session nest (transaction in transaction, commit in a body), so `stack`
holds one frame per running call with the point it has reached. A change is a number; `dirty` and
`links` are the changes pending in the unit of work and in the relation queue. The database is
external: `open`, `layers` (one per savepoint) and `committed`. `acked`, `refused` and `dropped` are
ghosts: the changes of calls that resolved, of calls that rejected, and those a failed commit has
forgotten. `setup` fixes at the start the kind of executor, which statements may throw, and what
user code does beyond the ordinary. A COMMIT fails in one of two ways: it ends its transaction
(fault `commit`, a serialization failure) or leaves it open (fault `busy`, SQLite's SQLITE_BUSY). A
pooled executor gives its connection back either way, so `stray` holds the transactions that are
still open on connections in the pool. The pool may give such a connection to the session again or
to anybody else (`Astray`): BEGIN there continues the transaction, a statement outside of one goes
into it, and others commit it or roll it back.

**UnitOfWork.** Entities are model values with a key and one column. `stage` is the await at which
`flush()` is; `wish`, `doomed` and `touched` are ghosts for what the user did. The table is
external, and only this session writes to it.

**Relations.** One relation of one of the seven kinds, between two parents and two children.
`wrapper[o]` is what a wrapper holds, `cache` and `hydration` the promise and the rows its owner
has, `stored` and `pivot` the tables. A batch is a query whose answer arrives in a later step,
whatever the user does in between; a commit takes a step per flush and per entry of the queue.
`told` is a ghost: the pairs the calls have ordered. `excused` and `disturbed` are ghosts too: the
children and wrappers for which the code is known to do otherwise, each put there by the one action
that makes the difference (see the deviations below). Such a history ends with what is already under
way.

**QueryCache.** Versions stand for results: a query sees the version of the database at the step in
which it runs. Redis commands are steps of the server, one await each; in memory `set` and its tags
are one step. `floor` is a ghost: the version an invalidation has asked entries to have. `mark[c]`
is what the invalidation `c` will ask for when it is over; `Leaving(k)` says that some invalidation
by tag has taken `k` from a tag's set and not yet deleted its entry.

**Trees.** `NestedSet` has the arithmetic as operators on a table. In `TreeManager` an operation
reads the bounds when it begins and `script` is the statements that are left of it; any of them may
throw, and a transaction then puts `saved` back. `Forest` knows only the children of each node in
order; the mapping reads them off the rows at rest.

**Bulk.** A worker takes a chunk, sends its statements, calls back, and takes the next one.
`tentative` is the table inside of the open transaction.

**Select.** A call on the builder is an action; `ast` and `plan` are what it returns. `Execute` runs
the query on tables with the semantics of SQL joins, groups and limits (external), and hydrates the
rows. `walk` is a client that pages with cursors while others write.

**Statements.** `Sql` has one operator per clause and dialect; parameters are numbered in the order
in which operands are compiled. The text is not compared with an expected text: `Engine` binds the
parameters as the driver does and parses the tokens with the precedence of SQL, and `Meaning`
evaluates both the tree that was compiled and the tree that was read, on small tables. A dialect
that cannot express a statement must refuse it (`Speaks`).

**Schema.** A statement is a record of what its text says. A process introspects table by table,
plans, and executes statement by statement, outside of any transaction, as the code does; it may
crash before any of them. `stale[p]` is a ghost: another process has executed since `p` began to
read. What a database refuses is external: references to tables that are not there, columns that are
used, and types that it cannot make of the type a column has (`Converts`: postgres has no USING in
the statement, mssql converts what it converts implicitly).

**Entities.** The inflectors, the spelling of names and the patterns of tree columns are constants.
Classes are loaded one by one; `bootstrapEntities()` runs when the application asks for it or at the
first use of a class, possibly before all are loaded. `OpenApi` adds the publication of a table the
application received: its schema is named (`naming`), its objects become `components`, and the
document refers to them. A schema is a record with its properties in order, as the code compares
schemas by their text. The hash of a schema is its content without order and without every key
`description` and `example`, which the code skips wherever it stands, also where it is the name of a
column or of a relation (`Content`).

Definitions that no action uses, most of them next to the one they resemble, are variants and not
part of its specification: each changes one definition as a plausible bug would, and `PROJECT.json`
(`mutants`) names the property that TLC then finds violated.

## Runs

All runs are expected to pass.

| Run | Instance | Properties |
|---|---|---|
| `MCPoolSafe` | 3 callers, 4 connections, max 1, all options, `create()` may throw | `Accounted` `WaitersKept` `LendsExclusively` `FifoService` |
| `MCPoolFaults` | 2 callers, 3 connections, max 2, min 1, every adapter call may throw, fair | `Exclusive` `NothingClosedIsUsed` `CountersExact` `AcquireReturns` `DestroyDrains` |
| `MCSession` | a pooled executor (a COMMIT that fails ends its transaction, or leaves it open on a connection that is given again or used by others), a connection, and one (with transactions or without) where every statement, interceptor and handler may throw; lax and strict databases | `RejectedIsUndone` `FailureDooms` `ResolvedIsCommitted` `SavepointsNest` `QuietIsClosed` `SavesAtomically` |
| `MCUnitOfWork` | 3 entities, 2 keys, 2 values; user code at every await; statements and hooks may throw | `Consistent` `ManagedIsSaved` `FlushesFaithfully` |
| `MCRelations` | every kind of relation, with and without cascade, 2 parents, 2 children, one or two changes (1.7 million states) | `SavedAsTold` `WrappersAgree` |
| `MCQueryCache` | 3 calls, a key with two tags, memory, Redis and Keyv | `NeverStale` `TagsReach` |
| `MCTree` | trees of up to three nodes, in a transaction or not, any statement may throw | `WellFormed` `QueriesAgree` `ImplementsForest` |
| `MCBulk` | 4 and 5 rows with repeated keys, chunks of 1 to 3, concurrency 0 to 3, up to 2 failures | `AnswersTruly` `Answered` |
| `MCQueries` | any 3 calls on a builder with 5 relations, then an execution or a walk with cursors | `ResultIsGraph` `StableSeenOnce` |
| `MCStatements` | up to 4 calls on each builder, 4 dialects | `SameMeaning` `BuiltAsAsked` |
| `MCSchema` | 2 processes or 1, up to 3 releases, 4 dialects, crashes between statements | `Synced` `Settled` `RefusedOnlyWhenStale` `LosesOnlyUnexpected` |
| `MCEntities` | classes of 29 databases for each dialect, all loaded in order and five of them also in any order; two documents | `Bound` `Navigable` `RegeneratedAlike` `DocumentsHold` `DocumentedIsAccepted` |

What they show:

- *Pool.* Every connection is in one place, is counted there and is open; a waiter is settled once
  and in order; `acquire()` with a timeout ends and a destroyed pool closes what it has. `Accounted`
  joins the type invariant, that nothing is lost (an open connection has a place or an orphaned
  lease), that trimming keeps the idle connections within `max`, and that a destroyed pool is
  drained.
- *Session.* What a call that resolves has saved is committed, what a call that rejects has done is
  undone, a nested failure dooms the outer transaction even if the body catches it, savepoints
  follow the calls, and at rest no transaction is open. `SavesAtomically` is the refinement of
  `AtomicWork`. Where a COMMIT on a pool fails and leaves its transaction open, what resolves is
  still saved and a nested failure still dooms the outer transaction; but what was refused may be
  committed by the next user of the connection, so the other properties leave these setups out
  (`Tidy`).
- *Unit of work.* At rest a managed entity equals its row; snapshots, identity map and rows are one
  view of the data (`Consistent`); a flush writes only what its entities say.
- *Relations.* When everything is committed the tables are `told`, with one pivot row per pair, and
  loaded wrappers show it.
- *Query cache.* An entry is not older than the last invalidation that covered it, but for fills
  that were under way when it began; and tags lead to every entry. With Redis both have exceptions,
  which the properties name.
- *Trees.* Bounds, parents and depths are one tree after every operation that was carried out and
  every one a transaction has undone; queries and the algorithms on lists of rows see that tree; the
  operations do to the forest what their names say.
- *Bulk.* A call that resolves has written every row and counts them all, and the last row of a key
  wins when chunks go one by one; a call that rejects in a transaction leaves nothing, one that goes
  chunk by chunk leaves a prefix; every call is answered.
- *Queries.* The result is the graph asked for: users once, in order, on the right page, with the
  children that satisfy the filter of the relation; the database accepts every query; a
  user who is there during the whole walk is seen once, whatever others insert and delete.
- *Statements.* The text of every dialect means what the statement says, and every parameter is in
  its place. `BuiltAsAsked` says that a statement has what `values()`, `columns()` and the filters
  of DTOs were told. A filter is compared with what the documents say of it, for the users it can
  find at all: those without related records satisfy `every` and are never found, so
  `BuiltAsAsked` asks nothing of a filter with `every` about them (`EveryHolds` would).
- *Schema.* A plan that ran undisturbed leaves the definitions, whatever was broken off before.
  Planning again need not find nothing to do: what it repeats is accepted by the database and
  changes nothing, or is a warning (`Settled`). No statement is refused unless another process got
  in between, as long as types are changed only to types the database can make of them; nothing
  expected is ever dropped. For tables that refer to themselves and for references that name a
  schema this holds of `diffSchema()` with the tables listed in order; `generateSchemaSql()` does
  not order those (`EmittedInOrder` would ask it), and the run does not give them to it.
- *Entities.* After a bootstrap every table has the relations its class declares, to current tables;
  every foreign key can be walked both ways; a diff of the regenerated definitions against the
  database finds nothing to change.
- *OpenAPI.* While relations are added between publications, a name keeps standing for one schema
  and every document, its references expanded, says what it said in full, every property with it; a
  body that satisfies the schema has what the database needs, a row satisfies the schema of
  responses, and a filter for a collection names only what `applyFilter()` knows.

**Bounds.** *Pool*: three callers with `max` 1 give a holder and two waiters, which FIFO and the
lost wake-up need; two callers with `max` 2 and `min` 1 give a warm-up and a reaper beside them.
`Resources` are names that closed connections give back, so histories are unbounded; one more than
`max` lets the pool go over it. *Session*: `MaxDepth` 4 allows two levels of nesting with a handler
or a flush above them; `MaxChanges` 3 gives each level a change of its own; `MaxSavepoints` 2 lets a
name be used twice; `MaxStray` 1, one connection that was left in a transaction, is what it takes to
meet it again. *UnitOfWork*: three entities for two keys let one entity be deleted, another be
inserted under its key and a third be visited between. *Relations*: two parents let a child change
hands, two children let a batch bring one while another is added; `max` bounds the changes, two
where owners are in the database, one where an owner is still to be inserted. *QueryCache*: three
calls let two invalidations by tag overlap beside a fill; `MaxVersion` 1 tells old from new. *Tree*:
three nodes have all shapes with a subtree moved past a sibling, up and down; `mutants` shows the
shifts wrong already at this size. *Bulk*: five rows leave an incomplete last chunk and more chunks
than workers. *Queries*: three calls join a table twice and page, the data have a user with many
children, a pair linked twice, and children of nobody. *Statements*: values are words of three bits,
so operators and precedences differ in results; `MaxCalls` is 4, 2 for SELECT, as each argument
already nests the operators of interest. *Schema*: two releases for adding and dropping with two
processes, three for changing with one; `Typed` has a column of every type and changes each to the
next type that the database can make of it; `Nesting` has a table that refers to itself once, then
twice. *Entities*: `MaxAdded` 1, a relation with the name `NewRelation`; `documents` is 2 in a
database of two tables with a relation each way, so that a relation is added between them. Calls on
the pool, the unit of work, the cache and the trees are not counted.

**Fairness.** `MCPoolFaults`: every continuation runs (weak fairness of each step of a suspended
call: the event loop and the adapter answer), timers fire, and validation is not negative for ever
(strong fairness of `Validated(c)` with the positive answer; otherwise `acquire()` may loop through
fresh idle connections), and callers give their lease back in the end, as
`pooled-executor-factory.ts` does in its `finally` blocks; `DestroyDrains` needs the latter.
`AcquireReturns` relies on `acquireTimeoutMillis`; without it `acquire()` may wait for ever behind a
lease that is never released, by design. `MCBulk`: BEGIN, the statements of each worker and what
awaits them answer (weak fairness), as every driver's promise settles; the number of chunks is
finite. The other runs have safety only.

`CHECK_DEADLOCK FALSE` stands where a history ends by itself: when the calls, changes or releases of
the instance are used up.

## Known deviations

Where the code does not do what a document, a comment or a reader would expect, the passing runs
exclude the case by their constants, by a ghost or in the words of a property, so that what holds is
checked around it. A row with constants can be seen by TLC with the statement as the only INVARIANT
(`EmittedInOrder` as the only PROPERTY); the others are described in words.

| Statement | Constants | What happens |
|---|---|---|
| `MCPool!NoOrphanedLease` (docs/pooling.md:7, "No leaks by default") | 2 callers, 3 connections, Max 1, MinIdle 0, HasTimeout only | a waiter times out while its replacement is being created: the lease is resolved to nobody (pool.ts:194) |
| `MCPool!NoWaiterInDestroyedPool` (pool.ts:131, "Reject all waiters.") | same, without options | an `acquire()` suspended during `destroy()` queues afterwards, for ever (pool.ts:99) |
| `MCPool!WithinMax` | 2 callers, 3 connections, Max 1, MinIdle 0, HasValidate | a connection being validated is counted nowhere; a second `acquire()` creates one over max |
| `MCPool!AtRestWithinMax` | Max = MinIdle = 2, 4 connections, HasValidate, HasTimeout | trimming stops at min, so a late warm-up leaves the pool over max |
| `MCPool!DestroyWaitsForCreations` | 2 callers, 3 connections, Max 1, no options | `destroy()` returns while `create()` is running |
| `MCPool!NobodyWaitsBesideIdle` | same | a release during `takeIdleValidated()` leaves an idle connection beside a waiter |
| `Session!RejectedIsUndone` | a connection, no faults, calls {"rollback"} or {"commit"} | `rollback()` or `commit()` in a body ends the transaction under it |
| `Session!Undone` (docs/transactions.md:86, :166) | a pool, faults {"busy"} | a COMMIT that fails on a pool releases the lease first, and the ROLLBACK that follows finds none: the connection is in the pool in its transaction, which the next BEGIN, statement or COMMIT on it continues (pooled-executor-factory.ts:126-138) |
| `Session!Undone` | a pool, faults {"sql", "rollback"} | ROLLBACK throws before tracking is reset; the pending changes are saved later |
| `Session!RejectedIsUndone` | a strict connection, faults {"sql"}, calls {"abandon"} | `rollback()` after a failed `commit()` throws where ROLLBACK outside of a transaction is an error, and resets nothing |
| `Session!FailureDooms` without its first condition | faults {"savepoint"} | SAVEPOINT is sent before the `try`, so its failure does not doom the outer transaction |
| `Session!SavepointsNest`, `ResolvedIsCommitted`, `FailureDooms` | a connection, no faults, calls {"rollback"} or {"commit"} | as above: savepoints, marks and answers belong to a transaction that is over (`ResolvedIsCommitted` by `rollback()` only) |
| `Session!FailureDooms` | a connection, faults {"sql"}, calls {"handler"} | a `transaction()` in a handler nests in the one that has committed, so its failure marks it too late |
| `Session!QuietIsClosed` | a pool, faults {"begin"} | BEGIN that throws keeps the lease until the next commit or rollback |
| `UnitOfWork!ManagedIsSaved` (runtime-types.ts:13) | 2 entities, Returning FALSE, Moves {"touch"} | a change during the await of the entity's own INSERT or UPDATE is forgotten (unit-of-work.ts:252; a `beforeUpdate` hook that assigns to its entity is enough) |
| `UnitOfWork!ManagedIsSaved` (docs/save-graph.md:153) | the same, Moves {"saveGraph"} | for a row that is not loaded the diff against the stub is empty and no UPDATE is sent (save-graph.ts:133) |
| `UnitOfWork!ManagedIsSaved` | the same, Moves {"persist"} | `persist()` of an object with a key that is not in the table never inserts it |
| `TreeManager!WellFormed` (docs/tree.md:262) | Downwards TRUE | `moveDown()` calls `swapNodes()` with the two in the other order than `moveUp()`, whose shifts expect the sibling on the left (tree-manager.ts:277) |
| `TreeManager!WellFormed` | Nested TRUE | a node can be moved below itself |
| `TreeManager!QueriesAgree`, `WellFormed` | two managers, Locked FALSE, Modes {"autocommit"} | statements of two operations interleave with bounds read before |
| `Select!ResultIsGraph` | Careless TRUE | a filtered include of a relation whose table is joined already, the relation to the own table included, loses its filter; a many-to-many relation joined twice repeats the name of its pivot |
| `Statements!SameMeaning`, `BuiltAsAsked` | Careless TRUE | the calls listed under *Statements* below |
| `Statements!EveryHolds` (docs/dto.md:131, :175) | Filters <- EveryFilters, MaxCalls <- OneCall | `every` is an inner join, or an EXISTS, over related rows: a user who has none is not found (apply-filter.ts:288, :489) |
| `SchemaSync!EmittedInOrder` (docs/schema-generation.md:10) | Setups <- SelfSetups | a table that is met again while it is visited is pushed twice: one that refers to itself, or that is in a cycle of references, is created twice (schema-generator.ts:195-206) |
| `SchemaSync!EmittedInOrder` (the same) | Setups <- QualifiedSetups | a reference that names its schema is looked up by that text among the names of tables and found nowhere: its tables are left as they are listed (schema-generator.ts:178-190) |
| `OpenApi!DocumentsHold` | NewRelation = "description" | the hash skips every key `description` or `example`, a relation of that name included: the schemas with and without it share a name, and a document says less than it did (nested-dto.ts:454) |

**Session.** BEGIN that throws keeps the lease until the next commit or rollback. A handler that
throws after COMMIT makes `transaction()` reject although the changes are saved (orm-session.ts:607
against docs/transactions.md:166). A `commit()` that is repeated after a failure has forgotten what
the first had flushed (unit-of-work.ts:214 against docs/api-reference.md:145). Handlers run inside
the transaction's depth: a `transaction()` in one sends SAVEPOINT after the COMMIT.

**Unit of work.** `setEntity()` with another key leaves the old registration; `reset()` during a
flush does not stop it; the materializer assigns a class's default to columns that were not selected
(entity-materializer.ts:137).

**Relations.** `load()` replaces what was added before or during its await. The promise of a failed
batch is kept for ever. Rows of a batch are not refreshed for wrappers filled later. `remove()` does
not ask whether the child still belongs to the root. Attaching after a cascading removal still
deletes. A foreign key assigned directly is overridden by a queued change. `set()` of a has-one
before `load()` leaves the old child. `set(newParent)` of a belongs-to never sets the key of a
parent that is inserted later; a refetch restores a key set to null. A morph-to takes the first
target type whose key name exists. Many-to-many attach and detach look at loaded items only: a
second INSERT, or no DELETE. Changes registered after the first flush for an entity without key are
dropped. `syncByIds()` attaches string ids. Two `saveGraph()`s at once on one root attach twice.

**Query cache.** The manager does not await Redis's tag registration. An invalidation by tag deletes
the tag's set with keys that were added later (the ghost `lost`); it can fail half way; of two that
overlap, the second finds the tag empty and returns while the first has still to delete the entry,
which stays if the first then fails (`Withdraw`). `serialize()` never sees a Date. `autoInvalidate`
does nothing. Sessions of `Orm.transaction` have no tenant. A cached query inside a transaction
caches uncommitted data.

**Trees.** `findSiblings(null)` compares with `= NULL`; `recoverOrder` is ignored but for four
columns; `recover()` runs without transaction and swallows errors (docs/tree.md:362); `validate()`
reports neither gaps nor wrong parents (docs/tree.md:378); the caller's node may be older than the
bounds in the table.

**Bulk.** With several workers in a transaction and a failure, the other workers write after the
rollback. `returning` is discarded; with several workers the last writer of a key is not fixed;
`upsert` takes its columns from the first row only.

**Queries.** `whereHas` on a relation to the own table correlates it with itself, on a many-to-many
relation it throws. Joining a has-many without including it makes LIMIT count joined rows. `match()`
on a projection without key collapses users. A to-one relation whose filter excludes its row is
lazily loaded without the filter. A cursor over an order that is not unique skips ties; `after` with
`last` is used as `before`; an offset is kept with cursors. Trees of nested includes are merged by
table (relation-preload.ts:86). A second query for a tracked entity ignores the new row.

**Statements.** Renderers of functions that drop, reorder or repeat compiled arguments (DATE_ADD,
DATE_SUB, DATE_TRUNC, EXTRACT, VECTOR_DISTANCE, JSON_SET in postgres, DATE_FORMAT and `^` in
sqlite). An EXISTS whose select list has a FROM inside is cut there. `columns()` after `values()`
relabels; keys that only later rows have are dropped. A second `where()` or `set()` of UPDATE and
DELETE replaces the first (update.ts:85, delete.ts:38). `IN ()` for an empty list. `every` uses the
name of the relation as that of the table, and with `some` on the same relation counts filtered
rows; two `some` on one relation become one join; `none` on a many-to-many relation throws. No
ESCAPE for sqlite and mssql (docs/dto.md:106). OFFSET without LIMIT in mysql and sqlite,
parenthesised operands of UNION in sqlite, UPDATE … FROM in mysql, DELETE … USING in mysql and
sqlite, aliases of UPDATE in mssql are sent although the database refuses them. Common table
expressions in operands of subqueries stay inside.

**Schema.** A definition without schema never matches in postgres, mysql and mssql, so the example
of docs/schema-generation.md fails the second time. Key columns must be notNull in postgres and
mssql. Identity columns are never introspected in postgres, so the next plan adds identity again and
is refused. With `allowDestructive`, the index of a unique column or of sqlite's composite key is
dropped, which the databases refuse. A change of type is sent as it is: postgres refuses it where
the conversion needs USING (text to jsonb, uuid to boolean; postgres-schema-dialect.ts:120-123) and
for identity columns that are not integers after it, mssql where it does not convert implicitly or
where the column has a default or a reference (mssql-schema-dialect.ts:101-105). The instances
change types only where `Converts` allows it; whether the rows that are there fit the new type, its
length or NOT NULL is not modelled. `diffSchema()` does not order tables. Dropping a column that has
an index, a default or a reference is refused in mssql, with an index in mysql. sqlite cannot add
unique or primary columns. mysql ignores inline REFERENCES. Changes of checks, unique, keys and the
columns of indexes are not diffed.

**Entities.** A class whose table is not its name with an s after regeneration (`categories`) is
bound to another table. A second key to the same target loses its way back (schema.mjs:127). A
second many-to-many with the same property throws; a has-many is dropped when a many-to-many took
its name; a column named like its target collides with the relation. Generated classes carry no
schema, index or name of constraint; several types of postgres and mysql lose length or kind. A
bootstrap that throws leaves tables without relations, and `getTableDefFromEntity()` hands them out.
`addEntityRelation()` on a class without table throws after it has written. Subclasses share the
metadata of a decorated base class.

**OpenAPI.** The schema of a filter for a to-one relation lists (and requires) plain columns, where
`applyFilter()` throws without `some`, `none`, `every`, `isEmpty` or `isNotEmpty`
(apply-filter.ts:250; docs/dto.md:205 shows `some`), and it throws as well for a collection's filter
that is empty. A column whose default is 0, false or empty is required in the body of an insertion
(dto.ts:55). The schema of a missing to-one relation is not nullable. Only 24 bits of the hash are
kept: two schemas may share one, and then a name.

## Proofs

The theorems hold for every value of the constants, under the hypotheses that are named with them.
Where there is a hypothesis on what may happen, TLC finds a counterexample to the promise without it
(under *Known deviations*; two theorems of the session are marked otherwise), so it says where the
code keeps its promise and not where the proof gave up. The
assumptions on constants (`PoolAssumption`, `UnitOfWorkAssumption`, `CacheAssumption`, ...) are
types, and that `None` is no element; TLC evaluates them on every run.

**Pool** (`PoolProofs`, for all callers, connections, options and faults).

- `PoolTypeOK`, `PoolExclusive`, `PoolNothingClosedIsUsed`, `PoolWaitersKept`, `PoolCountersExact`;
- `PoolAccounted`: nothing is lost, idle connections stay within `max`, a destroyed pool is drained;
- `PoolServesInOrder`: the action property `FifoService`;
- `PoolLendsExclusively`: `Pool` implements `Lending` under the mapping of `Pool.tla` (`alive <-
  open`, `lent[c]` the lease of `c` while it is live).

None of the properties is inductive: `Exclusive` alone does not say that a waiter who is handed a
connection has no lease, nor that a suspended call holds what its point says. The invariant `IInv`
has six parts: types; `CallsOK` (what a suspended call holds); `WaitOK` (the queue, with no
repetition, and the waiters being served are exactly the suspended callers); `Places` (each
connection in one place and open there); and the two counters as cardinalities. `Accounted` adds
`FoundOK` (without faulty closes, what is open has a place), `KeptOK` (idle connections and the one
that `warm()` is creating are within `max`) and `DrainOK` (`destroy()` is at work until nothing is
idle). The proof showed that the bound on idle connections needs neither a quiet pool nor faultless
adapters, so `IdleWithinMax` says it of every state.

**Session** (`SessionProofs`, `SessionPromises`, for every set of setups and all bounds).

| Theorem | Property | Hypothesis |
|---|---|---|
| `Typed` | `TypeOK` | none |
| `NothingStaysOpen` | `QuietIsClosed` | `CommitsEnd`; `PoolsBegin`: BEGIN does not throw on a pool (the lease would stay) |
| `SavepointsAreNested` | `SavepointsNest` | `CommitsEnd`, `Disciplined` |
| `FailureIsFinal` | `FailureDooms` | `CommitsEnd`, `Disciplined` |
| `ResolvedChangesAreSaved` | `ResolvedIsCommitted` | `CommitsEnd`, `Disciplined` |
| `RejectedChangesAreUndone` | `RejectedIsUndone` | `CommitsEnd`, `Disciplined`, `AbandonsSafely` |
| `SessionIsAtomic` | `SavesAtomically` | `CommitsEnd`, `Disciplined`, `AbandonsSafely` |

`CommitsEnd`: on a pool, a COMMIT that fails has ended its transaction; on a connection of its own
it may leave it open, as the ROLLBACK that follows reaches it. Without the hypothesis the session
meets transactions it did not begin: `Undone` is false (see above), the savepoints of the old one
are met again, and it is open when no call runs. That `FailureDooms` and `ResolvedIsCommitted`
survive is only model-checked.

`Disciplined`: the body of a transaction does not call `commit()` or `rollback()` of its session,
which end the transaction under it, and handlers do not call the session, whose transaction they are
still in. `AbandonsSafely`: user code does not call `rollback()` outside of a transaction where that
is an error. All setups of `MCSession` satisfy the hypotheses, but for `CommitsEnd`, which those of
`OnBusyPool` do not; the deviations above show what happens without.

`Base` (frames, layers, sets of changes, fields) and `CloseOK` (no connection is in the pool in a
transaction, and a transaction and a lease belong to a call that runs) are invariant whatever user
code does, `CloseOK` under `CommitsEnd`. Under `Disciplined`, `ShapeOK` says what the stack is, an
outermost call with nested transactions in bodies above it, `DepthOK` that the counters of the
session follow it, `OpenOK` that its transaction is open, and `DoomOK` that a failure is marked
until it is undone; `NestOK` numbers the savepoints. For the promises, `PendingOK` says what is
pending at each point of `flushWithHooks()`, `AnswersOK` that a call that ends in a COMMIT answers
for everything pending and that all of it is pending, saved or dropped, `ApartOK` that what is
refused is neither pending nor saved, and `FirstOK` that nothing is saved before the COMMIT.
`SessionIsAtomic` needs in addition that no change is forgotten (`SettledOK`) and that only user
code flushes outside of a transaction (`FlushOK`). Then each step is one of `AtomicWork`: a change
is its `Make`, COMMIT its `Save`, an answer that rejects its `GiveUp`, and all others stutter.

**Unit of work** (`UnitOfWorkProofs`, for all entities, keys and values).

| Theorem | Says | Hypothesis |
|---|---|---|
| `Invariance`, `FlushClears` | types, lists, statuses; a flush that ends well leaves nothing pending but what was touched | none |
| `RowIsOneObject` | the identity map is exact | no object is tracked under a key in use (`KeysApart`) |
| `FlushIsFaithful` | `FlushesFaithfully` | no entity changes while its own statement runs (`HandsOff`) |
| `Consistency` | `Consistent` | keys are loaded, and RETURNING or `HandsOff` (`RowsLoaded`) |
| `ManagedEntitiesAreSaved` | `ManagedIsSaved` | both of the above (`Moves = {}`) |

`Moves` names what the code is known not to guard against. `IInv` holds for all of it; `Consistent`
and `ManagedIsSaved` follow from three further parts, each with a hypothesis of its own, so one sees
which move breaks what: the identity map, what the user told last (`ToldOK`, also for the statement
under way), and the snapshot as the row.

**Query cache** (`QueryCacheProofs`, for all calls, keys, tags, prefixes and adapters).
`EntriesAreNotStale` states `NeverStale`, `TagsLeadToEntries` states `TagsReach`; no hypothesis. The
invariant relates each entry to every promise, that of an invalidation over (`floor`) or in progress
(`mark`): no promise is newer than the database or a fill under way (`FairOK`), and an entry that is
older than one has still to be visited or deleted (`PrefixOK`, `TagOK`, which needs that tags lead
to entries, `ReachOK`). An earlier form of `NeverStale`, checked with two calls, did not survive the
proof: with three, two invalidations by tag overlap and the one that found the entry fails. The
model says so now, and the run has three calls.

**Bulk operations** (`BulkProofs`, for all rows, keys, chunk sizes, numbers of workers and
failures). `AnswersAreTrue` states `AnswersTruly` under one hypothesis, `OneByOne`: with several
workers in one transaction nothing fails. Without it the property is false, and not by the model:
`Promise.all` rejects with the first worker, the transaction is rolled back, and the other workers
go on with the next chunks outside of it (Known deviations, *Bulk*). The invariant says what a
worker at each stage has sent of its chunk (`WorkersOK`), that a chunk given out has its outcome or
a worker at it, and its rows are written save for those that worker has still to send
(`OutcomesOK`, `WrittenOK`), that a table holds under a key a row of this key (`Keyed`), that with
one worker the table is what a prefix of the rows makes of it (`OrderOK`), and that a transaction
is not seen before it commits, nor worked for once undone (`IsolatedOK`). That the counts add up
(`EveryRowCounts`) is a statement about a fold over all chunks: it is proved by a least
counterexample, with the fold's recursive function given by an explicit witness, as the library's
induction theorems cannot be instantiated.

**Trees** (`TreeProofs`, for all sets of nodes). `TreeWellFormed` states `WellFormed` under
`Locked`, `~Nested` and `~Downwards`, each with a deviation below it (two managers at once, a node
moved below itself, `moveDown()`), and one on numbers: the nodes are finitely many and their numbers
do not exceed the 10000000 of the code, by which a subtree is parked out of the way. (With more, the
numbers of a parked block meet those of other nodes; no run can show that, as it takes five million
rows.)

`WellFormed` says nothing of the table while an operation is at work on it. The invariant `TreeInv`
has for that `Reaches(rows, script[m])`: the statements that are left make a nested set of the table
as it is, wherever the operation stands; a statement that is carried out is the first step of that
path, so the steps of `Statement`, `Throw` and `Return` are the same for all operations. What
remains is one lemma per operation: its script makes a nested set of any nested set
(`InsertReaches`, `MoveReaches`, `MoveUpReaches`, `RemoveReaches`, `DeleteReaches`), or, for
`RecoverReaches`, of any table at all whose parents are a forest, however wrong its bounds and
depths are. That the parents are a forest half way through every operation is the other part of the
invariant (`Good`), which is why `recover()` can always mend what a failure has left.

The operations are composed of four changes of a nested set, each a lemma on all tables: `Prune`
takes a subtree out and closes the gap, `Subtree` makes a nested set of its own of it, `Graft` puts
one in at any place, below whatever is around the place, and `Promote` replaces a node by its
children. They speak of `Shape(t, M)`: the numbers 1..M are all used, any two nodes are one around
the other or beside it, and the parent is the nearest node around, with the depth one less. Counting
comes last: `ShapeIsNestedSet` shows that M is twice the number of nodes and that the depth is the
number of nodes around. The lemmas also say why the code may shift `lft` and `rght` in two
statements with `>` and `>=` (`ShiftForInsertMakesRoom`, `ShiftForDeleteClosesGap`), why the parked
block is met by none of the shifts in between (`StepsMove`), and why the target of `moveTo()` must
be adjusted when it lies behind the subtree.

The walk of `recover()` is a recursive function over the parents. It is shown to exist by the number
of nodes that are lower than a node (`WalkExists`), and to give out the numbers of a nested set
(`WalkMakesTours`, `TourAdded`): the tour of the children so far is a nested set, the next child is
grafted behind it, and the tour below this child into it. All inductions are least counterexamples.

Only model-checked: liveness and fairness (`AcquireReturns`, `DestroyDrains`, `Answered`), which are
out of the prover's reach; everything about `Sql`, `Engine`, `Meaning`, `Statements`, `Ddl`,
`SchemaSync` and `OpenApi`, which recurse over expressions, statements and schemas; and, so far,
`Relations`, `Select` and `Entities`. Of `TreeManager`, `QueriesAgree` and `ImplementsForest`
compare the table with sets and sequences that recursive functions and folds compute from it.

## Not modelled

In the modelled parts: the order of the idle stack and the times of the reaper; calls of one session
that overlap in time (two `commit()`s in one `Promise.all`), which the code does not guard against;
`reset()` while a `flush()` is suspended; changes of a primary key and `setEntity()` with another
key; payloads of pivot rows and deeper levels of graphs; texts of durations and serialization of the
cache; scopes of trees; nested includes, common table expressions and raw columns of SELECT with
includes; window functions, JSON paths, collation and function tables; partial indexes, comments,
views and dry runs of the schema; naming overrides and the command line of the entity generator.

Whole components: *Domain events* (one step of `Session` stands for the dispatch of all events;
order and removal of handlers are a list), *query interceptors and logging* (a chain of calls
without state), *executors and drivers* (thin adapters; `Session` models their answers), *TypeScript
generation from a query* (layout of text). Of *DTO and OpenAPI*, the types exist at compile time
only, and the helpers on payloads and the schemas of pagination are copies.

Where the models leave a real hazard out, `hazards` in `PROJECT.json` has a note.

## Plan

1. Done: the pool and its proofs; session, unit of work and relations; cache, trees, bulk; queries,
   statements and compilers; schema, entities and OpenAPI.
2. Done: proofs about the pool, the session, the unit of work, the cache, the bulk operations and
   the trees. Next: that the operations on trees do to the order of siblings what `Forest` says;
   `WrappersAgree` of the relations.
3. Then: `Session` composed with `UnitOfWork` and `Relations`, so that a failed commit meets the
   queue of changes; two calls of one session that overlap.
