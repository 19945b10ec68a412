----------------------------- MODULE SchemaSync -----------------------------
(***************************************************************************)
(* Bringing a database to the definitions of a release: introspectSchema(),*)
(* diffSchema() and executeSchemaPlan() run statement by statement, outside*)
(* of any transaction, in every process that starts up (src/core/ddl,      *)
(* docs/schema-generation.md).  The processes of a rolling deployment may  *)
(* hold different releases, plan from what they read before another        *)
(* process executed, and stop half-way.                                    *)
(***************************************************************************)
EXTENDS Catalog

CONSTANTS
    Processes,
    Setups      \* [dialect, destructive, active, generate, releases]: allowDestructive, who takes
                \* part, whether executeSchemaSql() is called ("no") and in which order it is given
                \* the tables ("listed", "reversed"), and the tables of each release, the oldest first

VARIABLES
    setup,
    db,         \* the tables of the database
    release,    \* process -> the release it runs
    pc,         \* process -> "idle", "reading", "executing", "done" or "failed"
    seen,       \* process -> the tables its introspection has read
    plan,       \* process -> the statements still to be sent
    warned,     \* process -> the warnings of its plan
    stale       \* process -> another one changed the database since it began to read

vars == <<setup, db, release, pc, seen, plan, warned, stale>>

TypeOK ==
    /\ setup \in Setups
    /\ release \in [Processes -> 1 .. Len(setup.releases)]
    /\ pc \in [Processes -> {"idle", "reading", "executing", "done", "failed"}]
    /\ stale \in [Processes -> BOOLEAN]
    /\ \A p \in Processes : pc[p] # "executing" => plan[p] = <<>>

Dialect == setup.dialect
Wanted(p) == setup.releases[release[p]]

Init ==
    /\ setup \in Setups
    /\ db = <<>>
    /\ release = [p \in Processes |-> 1]
    /\ pc = [p \in Processes |-> "idle"]
    /\ seen = [p \in Processes |-> <<>>]
    /\ plan = [p \in Processes |-> <<>>]
    /\ warned = [p \in Processes |-> {}]
    /\ stale = [p \in Processes |-> FALSE]

(***************************************************************************)
(* introspectSchema() asks for the tables, the columns and the keys, and   *)
(* last for the indexes.                                                   *)
(***************************************************************************)
Introspecting(p) ==
    /\ p \in setup.active
    /\ pc[p] = "idle"
    /\ pc' = [pc EXCEPT ![p] = "reading"]
    /\ seen' = [seen EXCEPT ![p] = ReadTables(Dialect, db)]
    /\ UNCHANGED <<setup, db, release, plan, warned, stale>>

(***************************************************************************)
(* synchronizeSchema() with the answer: the plan, and its execution begins.*)
(***************************************************************************)
Synchronize(p) ==
    /\ pc[p] = "reading"
    /\ LET actual == ReadIndexes(Dialect, db, seen[p])
       IN /\ plan' = [plan EXCEPT ![p] = PlanStatements(DiffSchema(Dialect, Wanted(p), actual, setup.destructive), setup.destructive)]
          /\ warned' = [warned EXCEPT ![p] = Warnings(Dialect, Wanted(p), actual)]
    /\ pc' = [pc EXCEPT ![p] = "executing"]
    /\ seen' = [seen EXCEPT ![p] = <<>>]
    /\ UNCHANGED <<setup, db, release, stale>>

(***************************************************************************)
(* executeSchemaSql(): the statements of all the tables, for a database    *)
(* that is still empty.                                                    *)
(***************************************************************************)
ExecuteSchemaSql(p) ==
    /\ p \in setup.active
    /\ pc[p] = "idle"
    /\ setup.generate # "no"
    /\ db = <<>>
    /\ LET tables == IF setup.generate = "reversed" THEN Reverse(Wanted(p)) ELSE Wanted(p)
       IN plan' = [plan EXCEPT ![p] = GenerateSchemaSql(Dialect, tables)]
    /\ pc' = [pc EXCEPT ![p] = "executing"]
    /\ UNCHANGED <<setup, db, release, seen, warned, stale>>

(***************************************************************************)
(* One statement of a plan; an error of the database ends the execution.   *)
(***************************************************************************)
Outdate(p, changed) ==
    stale' = [q \in Processes |-> stale[q] \/ (changed /\ q # p /\ pc[q] # "idle")]

Accepted(p, statement) ==
    /\ db' = Apply(Dialect, db, statement)
    /\ plan' = [plan EXCEPT ![p] = Tail(@)]
    /\ Outdate(p, db' # db)
    /\ UNCHANGED pc

Refused(p) ==
    /\ plan' = [plan EXCEPT ![p] = <<>>]
    /\ pc' = [pc EXCEPT ![p] = "failed"]
    /\ UNCHANGED <<db, stale>>

ExecuteStatement(p) ==
    /\ pc[p] = "executing"
    /\ plan[p] # <<>>
    /\ IF Refuses(Dialect, db, Head(plan[p])) THEN Refused(p) ELSE Accepted(p, Head(plan[p]))
    /\ UNCHANGED <<setup, release, seen, warned>>

PlanExecuted(p) ==
    /\ pc[p] = "executing"
    /\ plan[p] = <<>>
    /\ pc' = [pc EXCEPT ![p] = "done"]
    /\ UNCHANGED <<setup, db, release, seen, plan, warned, stale>>

-----------------------------------------------------------------------------
(***************************************************************************)
(* A process stops at any moment, and starts again with its release or a   *)
(* later one.                                                              *)
(***************************************************************************)
Restart(p) ==
    /\ pc[p] # "idle"
    /\ \E r \in release[p] .. Len(setup.releases) : release' = [release EXCEPT ![p] = r]
    /\ pc' = [pc EXCEPT ![p] = "idle"]
    /\ seen' = [seen EXCEPT ![p] = <<>>]
    /\ plan' = [plan EXCEPT ![p] = <<>>]
    /\ warned' = [warned EXCEPT ![p] = {}]
    /\ stale' = [stale EXCEPT ![p] = FALSE]
    /\ UNCHANGED <<setup, db>>

Next ==
    \E p \in Processes :
        \/ Introspecting(p)
        \/ Synchronize(p)
        \/ ExecuteSchemaSql(p)
        \/ ExecuteStatement(p)
        \/ PlanExecuted(p)
        \/ Restart(p)

Spec == Init /\ [][Next]_vars

-----------------------------------------------------------------------------
(***************************************************************************)
(* What the database should hold for a definition.                         *)
(***************************************************************************)
Expects(tables, key) == \E t \in ToSet(tables) : Resolve(Dialect, Key(t)) = key
Expected(tables, key) == CHOOSE t \in ToSet(tables) : Resolve(Dialect, Key(t)) = key
ExpectsColumn(tables, key, column) == Expects(tables, key) /\ Contains(Names(Expected(tables, key).columns), column)
ExpectsIndex(tables, key, index) ==
    /\ Expects(tables, key)
    /\ \E e \in ToSet(Expected(tables, key).indexes) : IndexName(Expected(tables, key), e) = index.name

Unmet(t, c) ==
    LET should == StoredColumn(Dialect, RenderColumnDefinition(Dialect, t, c, FALSE), ResolvePrimaryKey(t))
        is == ColumnOf(db, Resolve(Dialect, Key(t)), c.name)
    IN {aspect \in {"type", "notNull", "default", "autoIncrement", "references"} : should[aspect] # is[aspect]}

(***************************************************************************)
(* What a warning is about: of a reference, that reference; of an          *)
(* alteration, what its dialect cannot alter.  Only SQLite's names the     *)
(* column.                                                                 *)
(***************************************************************************)
Unaltered ==
    [sqlite |-> {"type", "notNull", "default", "autoIncrement"}, mysql |-> {},
     postgres |-> {"autoIncrement"}, mssql |-> {"default", "autoIncrement"}]

Told(p, t, c, aspect) ==
    IF aspect = "references" THEN <<"reference", Key(t), c.name>> \in warned[p]
    ELSE aspect \in Unaltered[Dialect] /\ AlterWarning(Dialect, Key(t), c.name) \in warned[p]

HoldsAll(p) ==
    \A t \in ToSet(Wanted(p)) :
        LET key == Resolve(Dialect, Key(t))
        IN /\ HasTable(db, key)
           /\ TableOf(db, key).primaryKey = ResolvePrimaryKey(t)
           /\ \A c \in ToSet(t.columns) : HasColumn(db, key, c.name) /\ \A aspect \in Unmet(t, c) : Told(p, t, c, aspect)
           /\ \A e \in ToSet(t.indexes) : \E i \in ToSet(TableOf(db, key).indexes) :
                 i.name = IndexName(t, e) /\ i.columns = e.columns /\ i.unique = e.unique

HoldsNothingElse(p) ==
    \A t \in ToSet(db) :
        /\ Expects(Wanted(p), Key(t))
        /\ \A c \in ToSet(t.columns) : ExpectsColumn(Wanted(p), Key(t), c.name) \/ <<"drop", Key(t), c.name>> \in warned[p]
        /\ \A i \in ToSet(t.indexes) : i.kind = "primary" \/ ExpectsIndex(Wanted(p), Key(t), i)

(***************************************************************************)
(* A plan that was executed to its end, by a process nobody interfered     *)
(* with, leaves the database as the definitions say: every table, column   *)
(* and index is there, what still differs the plan warned of, and with     *)
(* allowDestructive nothing else is left - whatever plans were broken off  *)
(* before.                                                                 *)
(***************************************************************************)
Undisturbed(p) == pc[p] = "done" /\ ~stale[p]

Synced ==
    /\ TypeOK
    /\ \A p \in Processes : Undisturbed(p) => HoldsAll(p) /\ (setup.destructive => HoldsNothingElse(p))

(***************************************************************************)
(* The next synchronization of such a process finds nothing to do: its     *)
(* introspection reads back what its definitions wrote, or what it repeats *)
(* changes nothing.                                                        *)
(***************************************************************************)
NextPlan(p) ==
    PlanStatements(DiffSchema(Dialect, Wanted(p), Introspect(Dialect, db), setup.destructive), setup.destructive)

Settled ==
    \A p \in Processes : Undisturbed(p) =>
        \A s \in ToSet(NextPlan(p)) : ~Refuses(Dialect, db, s) /\ Apply(Dialect, db, s) = db

(***************************************************************************)
(* A database refuses a statement of a plan only when another process got  *)
(* in between: no plan is impossible in itself.                            *)
(***************************************************************************)
RefusedOnlyWhenStale == \A p \in Processes : pc[p] = "failed" => stale[p]

(***************************************************************************)
(* Tables, columns and indexes go only when allowDestructive is set, and   *)
(* never one that the release of the process that drops it expects,        *)
(* however old the introspection its plan is made from.                    *)
(***************************************************************************)
LosesOnlyUnexpected ==
    [][\A p \in Processes : plan[p] # <<>> /\ plan'[p] = Tail(plan[p]) =>
          \A t \in ToSet(db) :
              /\ \A c \in ToSet(t.columns) :
                    ~HasColumn(db', Key(t), c.name) => setup.destructive /\ ~ExpectsColumn(Wanted(p), Key(t), c.name)
              /\ \A i \in ToSet(t.indexes) :
                    ~HasIndex(Dialect, db', Key(t), i.name) => setup.destructive /\ ~ExpectsIndex(Wanted(p), Key(t), i)]_vars

(***************************************************************************)
(* generateSchemaSql() emits every table once, and after the tables its    *)
(* foreign keys refer to (docs/schema-generation.md).                      *)
(***************************************************************************)
InDependencyOrder(statements) ==
    LET created == SelectSeq(statements, LAMBDA s : s.op = "createTable")
        Created(i) == Resolve(Dialect, created[i].table)
        ReferredTo(i) == {Resolve(Dialect, d.references.table) : d \in {x \in ToSet(created[i].columns) : x.references # NoReference}}
    IN \A i, j \in DOMAIN created :
           /\ Created(i) = Created(j) => i = j
           /\ Created(j) \in ReferredTo(i) => j <= i

EmittedInOrder == [][\A p \in Processes : ExecuteSchemaSql(p) => InDependencyOrder(plan'[p])]_vars
=============================================================================
