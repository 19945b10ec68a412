------------------------------- MODULE Select -------------------------------
(***************************************************************************)
(* The select builder: what its calls put into the query and into the      *)
(* hydration plan, how the query is rewritten when it is paginated, what   *)
(* the rows of the database become, and how a client walks over the        *)
(* pages, while others write, with cursors.                                *)
(*                                                                         *)
(* The root table is "users". A row has an identifier, one column "key" to *)
(* order and filter by, a foreign key "fk" and a discriminator "own"; 0 is *)
(* NULL. A predicate <<source, v>> says that the key of the source is v; a *)
(* filter is a conjunction, a set of predicates. Sources are named         *)
(* <<name, n>>: n > 1 for the suffix _n of an alias. Text is not modelled. *)
(***************************************************************************)
EXTENDS Integers, FiniteSets, Sequences, SequencesExt

CONSTANTS
    Rels,        \* the relations of users: [name -> [kind, target]]
    Databases,   \* the contents the tables may have
    Options,     \* how each relation is included and joined: a set of [filter, kind, cols]
    MaxCalls,    \* how many calls build a query
    MaxWrites,   \* how many rows others insert or delete during a walk
    Careless     \* whether users filter a relation whose table is joined already

VARIABLES
    ast,      \* SelectQueryState.ast
    plan,     \* HydrationPlanner.plan
    db,       \* the tables (external)
    asked,    \* ghost: the relations asked for, and what a user must have
    result,   \* what the last execution returned
    walk,     \* the client that pages with cursors
    calls, writes

vars == <<ast, plan, db, asked, result, walk, calls, writes>>

Root == <<"users", 1>>
NullRow == [id |-> 0, key |-> 0, fk |-> 0, own |-> FALSE, root |-> 0, target |-> 0]
Columns == {"id", "key", "fk"}

Kind(rel) == Rels[rel].kind
Target(rel) == <<Rels[rel].target, 1>>
ToMany == {"HasMany", "BelongsToMany", "MorphMany"}

\* A filter is about the target, or about the root.
Filter(rel, f) == CASE f = "none" -> {} [] f = "self" -> {<<Target(rel), 1>>} [] f = "cross" -> {<<Root, 1>>}

NoQuery == [cols |-> <<>>, joins |-> <<>>, where |-> {}, has |-> {}, orderBy |-> <<>>,
            limit |-> 0, offset |-> 0, distinct |-> FALSE, keyset |-> <<>>]

-----------------------------------------------------------------------------
(* Columns and joins                                                       *)

\* Aliases are <<column>> or, for a column of a relation, <<relation, column>>.
IsRelationAlias(alias) == Len(alias) = 2

RootColumn(c) == [src |-> Root, name |-> c, alias |-> <<c>>]

CaptureRootColumns(p, cols) ==
    [p EXCEPT !.roots = @ \cup
        {c.alias[1] : c \in {c \in ToSet(cols) : ~IsRelationAlias(c.alias) /\ c.src = Root}}]

\* A query: the syntax tree and the hydration plan.
SelectColumns(q, cols) ==
    LET new == SelectSeq(cols, LAMBDA c : \A d \in ToSet(q.ast.cols) : d.alias # c.alias) IN
    [ast |-> [q.ast EXCEPT !.cols = @ \o new], plan |-> CaptureRootColumns(q.plan, new)]

CollectExposedNames(a) == {Root} \cup {j.name : j \in ToSet(a.joins)}

MakeUniqueAlias(base, used) ==
    <<base, CHOOSE n \in 1..(Cardinality(used) + 1) :
                <<base, n>> \notin used /\ \A m \in 1..(n - 1) : <<base, m>> \in used>>

\* Variant: a table that is joined twice is not aliased.
KeepName(a, rel, cte, extra) == Target(rel)

\* A table is aliased when its name is taken; one that has an alias, as a filtered CTE has
\* the name of its table, is left alone.
EnsureCorrelationName(a, rel, cte, extra) ==
    LET used == CollectExposedNames(a) \cup extra IN
    IF cte # {} \/ Target(rel) \notin used THEN Target(rel) ELSE MakeUniqueAlias(rel, used)

\* What a predicate is about, however its operands are nested.
MapOperand(p, from, to) == IF p[1] = from THEN <<to, p[2]>> ELSE p
RemapExpressionTable(filter, from, to) == {MapOperand(p, from, to) : p \in filter}

JoinsOf(a, rel) == {i \in DOMAIN a.joins : a.joins[i].rel = rel}
AlreadyJoined(a, rel) == JoinsOf(a, rel) # {}
JoinIndex(a, rel) == CHOOSE i \in JoinsOf(a, rel) : \A k \in JoinsOf(a, rel) : i <= k

BuildBelongsToManyJoins(rel, kind, name, cte, extra) ==
    <<[rel |-> "", table |-> "links", name |-> <<"links", 1>>, on |-> "pivot",
       kind |-> kind, cte |-> {}, extra |-> {}],
      [rel |-> rel, table |-> Rels[rel].target, name |-> name, on |-> "BelongsToMany",
       kind |-> kind, cte |-> cte, extra |-> extra]>>

BuildRelationJoin(rel, kind, name, cte, extra) ==
    <<[rel |-> rel, table |-> Rels[rel].target, name |-> name, on |-> Kind(rel),
       kind |-> kind, cte |-> cte, extra |-> extra]>>

AddRelationJoin(a, rel, kind, filter, cte) ==
    LET many == Kind(rel) = "BelongsToMany"
        name == EnsureCorrelationName(a, rel, cte, IF many THEN {<<"links", 1>>} ELSE {})
        extra == RemapExpressionTable(filter, Target(rel), name)
    IN  [a EXCEPT !.joins = @ \o
            IF many THEN BuildBelongsToManyJoins(rel, kind, name, cte, extra)
                    ELSE BuildRelationJoin(rel, kind, name, cte, extra)]

\* The filter, and the kind when one is given, of a join that is there are replaced.
UpdateRelationJoin(a, rel, filter) ==
    LET i == JoinIndex(a, rel) IN
    [a EXCEPT !.joins[i].extra = RemapExpressionTable(filter, Target(rel), a.joins[i].name)]

\* What is about the target's columns alone filters its rows before they are joined.
SplitFilterExpressions(filter, rel) ==
    LET self == {p \in filter : p[1] = Target(rel)} IN [self |-> self, cross |-> filter \ self]

GetJoinCorrelationName(a, rel) == a.joins[JoinIndex(a, rel)].name

EnsureBaseProjection(q) ==
    IF \A c \in ToSet(q.ast.cols) : IsRelationAlias(c.alias)
    THEN SelectColumns(q, <<RootColumn("id"), RootColumn("key"), RootColumn("fk")>>)
    ELSE SelectColumns(q, <<RootColumn("id")>>)

EnsureRootForeignKeySelected(q, rel) ==
    IF Kind(rel) = "BelongsTo" THEN SelectColumns(q, <<RootColumn("fk")>>) ELSE q

\* The key of the target is always selected: the rows are told apart by it.
ResolveTargetColumns(cols) == IF cols = {} THEN Columns ELSE cols \cup {"id"}

BuildTypedSelection(a, rel, cols) ==
    [i \in 1..Cardinality(cols) |->
        LET c == SetToSeq(cols)[i] IN
        [src |-> GetJoinCorrelationName(a, rel), name |-> c, alias |-> <<rel, c>>]]

IncludeRelation(p, rel, cols) ==
    [p EXCEPT !.rels = Append(SelectSeq(@, LAMBDA r : r.name # rel), [name |-> rel, cols |-> cols])]

IncludeStrategy(q, rel, cols) ==
    LET target == ResolveTargetColumns(cols)
        keyed == EnsureRootForeignKeySelected(q, rel)
        typed == SelectColumns(keyed, BuildTypedSelection(keyed.ast, rel, target))
    IN  [ast |-> typed.ast,
         plan |-> IncludeRelation(CaptureRootColumns(typed.plan, typed.ast.cols), rel, target)]

Included(q, rel, filter, kind, cols) ==
    LET joined == AlreadyJoined(q.ast, rel)
        split == SplitFilterExpressions(filter, rel)
        next == IF joined THEN q.ast ELSE AddRelationJoin(q.ast, rel, kind, split.cross, split.self)
    IN  IncludeStrategy(EnsureBaseProjection([q EXCEPT !.ast = next]), rel, cols)

-----------------------------------------------------------------------------
(* The database: the rows of a query                                       *)

Holds(filter, env) == \A p \in filter : env[p[1]].key = p[2]

\* baseRelationCondition, and the two conditions of a many-to-many join.
Correlates(on, root, row, env) ==
    CASE on \in {"HasMany", "HasOne"} -> row.fk = root.id
      [] on \in {"MorphMany", "MorphOne"} -> row.fk = root.id /\ row.own
      [] on = "BelongsTo" -> row.id = root.fk
      [] on = "pivot" -> row.root = root.id
      [] on = "BelongsToMany" -> row.id = env[<<"links", 1>>].target

JoinRows(tables, envs, j) ==
    LET On(env, row) == /\ Holds(j.cte, j.name :> row @@ [s \in {p[1] : p \in j.cte} |-> row])
                        /\ Correlates(j.on, env[Root], row, env)
                        /\ Holds(j.extra, j.name :> row @@ env)
        Partners(env) == {row \in tables[j.table] : On(env, row)}
    IN  UNION {LET rows == IF Partners(env) = {} /\ j.kind = "LEFT" THEN {NullRow} ELSE Partners(env)
               IN {j.name :> row @@ env : row \in rows} : env \in envs}

\* buildRelationCorrelation names the target by its table: in a relation of users to users
\* both sides are the inner row.
Exists(tables, h, root) ==
    \E row \in tables[Rels[h.rel].target] :
        /\ Correlates(Kind(h.rel), IF Target(h.rel) = Root THEN row ELSE root, row, <<>>)
        /\ Holds(h.filter, Target(h.rel) :> row @@ Root :> root)

\* Variant: the rows that are equal in the first columns are skipped.
KeysetOfFirst(keyset, row) ==
    \/ keyset = <<>>
    \/ IF keyset[1].up THEN row[keyset[1].name] > keyset[1].value
                       ELSE row[keyset[1].name] < keyset[1].value

\* buildKeysetPredicate
BuildKeysetPredicate(keyset, row) ==
    \/ keyset = <<>>
    \/ \E i \in DOMAIN keyset :
        /\ \A k \in 1..(i - 1) : row[keyset[k].name] = keyset[k].value
        /\ IF keyset[i].up THEN row[keyset[i].name] > keyset[i].value
                           ELSE row[keyset[i].name] < keyset[i].value

Joined(tables, a) ==
    {env \in FoldLeft(LAMBDA envs, j : JoinRows(tables, envs, j),
                      {Root :> row : row \in tables["users"]}, a.joins) :
        /\ Holds(a.where, env)
        /\ \A h \in a.has : Exists(tables, h, env[Root]) # h.negate
        /\ BuildKeysetPredicate(a.keyset, env[Root])}

\* The elements of S in a strict total order.
InOrder(S, Less(_, _)) ==
    [i \in 1..Cardinality(S) |-> CHOOSE x \in S : Cardinality({y \in S : Less(y, x)}) = i - 1]

LexLess(s, t) == \E i \in DOMAIN s : s[i] < t[i] /\ \A k \in 1..(i - 1) : s[k] = t[k]

\* Rows that are equal in the order come in any order: here, those of two users alternate.
SortKey(a, env) ==
    [i \in DOMAIN a.orderBy |-> LET o == a.orderBy[i] IN
        IF o.up THEN env[o.src][o.name] ELSE -env[o.src][o.name]]
    \o [i \in DOMAIN a.joins |-> env[a.joins[i].name].id] \o <<env[Root].id>>

Project(a, env) ==
    [alias \in {c.alias : c \in ToSet(a.cols)} |->
        LET c == CHOOSE c \in ToSet(a.cols) : c.alias = alias IN env[c.src][c.name]]

Sorted(tables, a) ==
    LET envs == InOrder(Joined(tables, a), LAMBDA e, f : LexLess(SortKey(a, e), SortKey(a, f)))
    IN  [i \in DOMAIN envs |-> Project(a, envs[i])]

Distinct(s) ==
    LET firsts == {i \in DOMAIN s : \A k \in 1..(i - 1) : s[k] # s[i]}
        order == InOrder(firsts, <)
    IN  [i \in DOMAIN order |-> s[order[i]]]

Cut(a, s) ==
    SubSeq(s, a.offset + 1, IF a.limit = 0 \/ a.offset + a.limit > Len(s) THEN Len(s)
                                                                          ELSE a.offset + a.limit)

BaseRows(tables, a) == IF a.distinct THEN Distinct(Sorted(tables, a)) ELSE Sorted(tables, a)

-----------------------------------------------------------------------------
(* The hydration manager                                                   *)

HasMultiplyingRelations(p) == \E r \in ToSet(p.rels) : Kind(r.name) \in ToMany
RequiresParentPagination(a, p) == (a.limit # 0 \/ a.offset # 0) /\ HasMultiplyingRelations(p)

\* The order can be moved out of the common table expression.
MapOrderBy(a) == \A o \in ToSet(a.orderBy) :
    o.src = Root /\ \E c \in ToSet(a.cols) : c.alias = <<o.name>>

\* The page is cut from the distinct users, and joined with the rows of the query.
WrapForParentPagination(tables, a) ==
    LET base == BaseRows(tables, a)
        Page(row) == <<row[<<"id">>], [i \in DOMAIN a.orderBy |-> row[<<a.orderBy[i].name>>]]>>
        page == Cut(a, Distinct([i \in DOMAIN base |-> Page(base[i])]))
    IN  SelectSeq(base, LAMBDA row : \E i \in DOMAIN page : page[i][1] = row[<<"id">>])

ApplyToAst(tables, a, p) ==
    IF RequiresParentPagination(a, p) /\ MapOrderBy(a) THEN WrapForParentPagination(tables, a)
                                                       ELSE Cut(a, BaseRows(tables, a))

-----------------------------------------------------------------------------
(* Hydration                                                               *)

CreateBaseRow(row, p) == [c \in p.roots |-> row[<<c>>]]

BuildChild(row, rel) == [c \in rel.cols |-> row[<<rel.name, c>>]]

\* Each child once, by its key; one child for HasOne.
Bucket(rows, rel) ==
    LET some == SelectSeq(rows, LAMBDA row : row[<<rel.name, "id">>] # 0)
        ids == Distinct([i \in DOMAIN some |-> some[i][<<rel.name, "id">>]])
        First(id) == some[CHOOSE i \in DOMAIN some : some[i][<<rel.name, "id">>] = id /\
                            \A k \in 1..(i - 1) : some[k][<<rel.name, "id">>] # id]
        bucket == [i \in DOMAIN ids |-> BuildChild(First(ids[i]), rel)]
    IN  IF Kind(rel.name) = "HasOne" /\ bucket # <<>> THEN <<bucket[1]>> ELSE bucket

Item(rows, p) ==
    [cols |-> CreateBaseRow(rows[1], p),
     rels |-> [name \in {r.name : r \in ToSet(p.rels)} |->
                Bucket(rows, CHOOSE r \in ToSet(p.rels) : r.name = name)]]

\* What an entity of the item reads without loading: a single child that is not there is not
\* remembered.
PopulateHydrationCache(item) ==
    [rel \in {r \in DOMAIN item.rels : Kind(r) \in ToMany \/ item.rels[r] # <<>>} |-> item.rels[rel]]

\* Rows without the key of the root cannot be grouped.
HydrateRows(rows, p) ==
    IF \E i \in DOMAIN rows : <<"id">> \notin DOMAIN rows[i]
    THEN [i \in DOMAIN rows |-> Item(<<rows[i]>>, p)]
    ELSE LET ids == Distinct([i \in DOMAIN rows |-> rows[i][<<"id">>]])
         IN  [i \in DOMAIN ids |-> Item(SelectSeq(rows, LAMBDA row : row[<<"id">>] = ids[i]), p)]

EnsureDefaultSelection(q) ==
    IF q.ast.cols = <<>> THEN SelectColumns(q, <<RootColumn("id"), RootColumn("key"), RootColumn("fk")>>)
                         ELSE q

\* Two sources of one name: the database rejects the statement.
Ambiguous(a) == \E i, k \in DOMAIN a.joins :
    a.joins[i].name = Root \/ (i # k /\ a.joins[i].name = a.joins[k].name)

ExecuteHydratedPlain(tables, q) ==
    LET e == EnsureDefaultSelection(q) IN HydrateRows(ApplyToAst(tables, e.ast, e.plan), e.plan)

\* The statement counts distinct keys of the root, whatever is joined.
ExecuteCount(tables, a) == Cardinality({env[Root].id : env \in Joined(tables, a)})

-----------------------------------------------------------------------------
(* Building a query                                                        *)

Nothing == [kind |-> "none"]
Query == [ast |-> ast, plan |-> plan]
Call == calls < MaxCalls /\ result.kind = "none" /\ walk.kind = "none" /\ calls' = calls + 1
Becomes(q) == ast' = q.ast /\ plan' = q.plan /\ UNCHANGED <<db, result, walk, writes>>

\* A filter on a table that is joined already, and a second join of a relation, give two
\* sources one name or are dropped.
Sound(rel, filter) ==
    ~Careless /\ filter # {} =>
        ~AlreadyJoined(ast, rel) /\ Target(rel) \notin CollectExposedNames(ast)

SelectSome ==
    /\ Call
    /\ \E c \in {"id", "key"} : Becomes(SelectColumns(Query, <<RootColumn(c)>>))
    /\ UNCHANGED asked

\* What the user asked of a relation that is joined is what the join has.
Include(rel, filter, kind, cols) ==
    /\ Call
    /\ Sound(rel, filter)
    /\ Becomes(Included(Query, rel, filter, kind, cols))
    /\ asked' = IF AlreadyJoined(ast, rel)
                THEN [asked EXCEPT !.incl = @ \cup {<<rel, IF filter = {} THEN asked.joins[rel] ELSE filter>>}]
                ELSE [incl |-> asked.incl \cup {<<rel, filter>>},
                      need |-> asked.need \cup IF kind = "INNER" THEN {<<rel, filter>>} ELSE {},
                      joins |-> rel :> filter @@ asked.joins]

\* includeLazy(): the relation is loaded later, by the foreign key of the row.
IncludeLazy(rel) ==
    /\ Call
    /\ Becomes(EnsureRootForeignKeySelected(Query, rel))
    /\ UNCHANGED asked

JoinedWith(rel, filter, kind) ==
    /\ AlreadyJoined(ast, rel) => Careless
    /\ asked' = [asked EXCEPT !.need = @ \cup IF kind = "INNER" THEN {<<rel, filter>>} ELSE {},
                              !.joins = @ @@ rel :> filter]

JoinRelation(rel, filter, kind) ==
    /\ Call
    /\ Becomes([Query EXCEPT !.ast = AddRelationJoin(ast, rel, kind, filter, {})])
    /\ JoinedWith(rel, filter, kind)

Match(rel, filter) ==
    /\ Call
    /\ Becomes([Query EXCEPT !.ast = [AddRelationJoin(ast, rel, "INNER", filter, {}) EXCEPT !.distinct = TRUE]])
    /\ JoinedWith(rel, filter, "INNER")

\* updateInclude() joins a relation without selecting it. It does not know that a filter went
\* into a CTE: there it stays.
UpdateInclude(rel, filter) ==
    LET joined == AlreadyJoined(ast, rel)
        now == filter \cup IF joined THEN ast.joins[JoinIndex(ast, rel)].cte ELSE {}
        Swap(s) == {IF x[1] = rel THEN <<rel, now>> ELSE x : x \in s}
    IN  /\ Call
        /\ Becomes([Query EXCEPT !.ast = IF joined THEN UpdateRelationJoin(ast, rel, filter)
                                                   ELSE AddRelationJoin(ast, rel, "LEFT", filter, {})])
        /\ asked' = [incl |-> Swap(asked.incl), need |-> Swap(asked.need),
                     joins |-> rel :> now @@ asked.joins]

Where(filter) ==
    /\ Call
    /\ Becomes([Query EXCEPT !.ast.where = @ \cup filter])
    /\ UNCHANGED asked

\* A many-to-many relation has no single condition: the call throws.
WhereHas(rel, filter, negate) ==
    /\ Call
    /\ Kind(rel) # "BelongsToMany"
    /\ Target(rel) = Root => Careless
    /\ Becomes([Query EXCEPT !.ast.has = @ \cup {[rel |-> rel, filter |-> filter, negate |-> negate]}])
    /\ UNCHANGED asked

OrderBy(src, name, up) ==
    /\ Call
    /\ Becomes([Query EXCEPT !.ast.orderBy = Append(@, [src |-> src, name |-> name, up |-> up])])
    /\ UNCHANGED asked

Page(limit, offset) ==
    /\ Call
    /\ Becomes([Query EXCEPT !.ast.limit = limit, !.ast.offset = offset])
    /\ UNCHANGED asked

-----------------------------------------------------------------------------
(* Executing it                                                            *)

\* executePlain() and executePaged(), which counts first.
Execute ==
    /\ result.kind = "none" /\ walk.kind = "none"
    /\ result' = IF Ambiguous(ast) THEN [kind |-> "error"]
                 ELSE [kind |-> "rows", items |-> ExecuteHydratedPlain(db, Query), total |-> ExecuteCount(db, ast)]
    /\ UNCHANGED <<ast, plan, db, asked, walk, calls, writes>>

\* The order must be by selected columns of the root; the documentation asks for a unique last one.
OrderedForCursor(a) ==
    /\ MapOrderBy(a)
    /\ a.orderBy # <<>> /\ a.orderBy[Len(a.orderBy)].name = "id"

StartWalk(backward, size) ==
    /\ result.kind = "none" /\ walk.kind = "none"
    /\ ~Ambiguous(ast) /\ ast.limit = 0 /\ ast.offset = 0
    /\ OrderedForCursor(EnsureDefaultSelection(Query).ast)
    /\ walk' = [kind |-> "walk", backward |-> backward, size |-> size, cursor |-> <<>>, more |-> TRUE,
                seen |-> <<>>, stable |-> {u.id : u \in db["users"]}]
    /\ UNCHANGED <<ast, plan, db, asked, result, calls, writes>>

\* buildCursorFromRow: the values of the order's columns; the direction in which to go on.
BuildCursorFromRow(item) ==
    [i \in DOMAIN ast.orderBy |-> LET o == ast.orderBy[i] IN
        [name |-> o.name, value |-> item.cols[o.name], up |-> o.up # walk.backward]]

CreateExecutionBuilder(limit) ==
    [Query EXCEPT !.ast.keyset = walk.cursor,
                  !.ast.orderBy = [i \in DOMAIN @ |-> [@[i] EXCEPT !.up = @ # walk.backward]],
                  !.ast.limit = limit]

\* One row more than the page is fetched to know whether there is another page. Going backward
\* the page is reversed, and its first row is the next cursor: the last one that was fetched.
ExecuteCursorQuery ==
    /\ walk.kind = "walk" /\ walk.more
    /\ LET rows == ExecuteHydratedPlain(db, CreateExecutionBuilder(walk.size + 1))
           items == IF Len(rows) > walk.size THEN Front(rows) ELSE rows
       IN  walk' = [walk EXCEPT !.more = Len(rows) > walk.size,
                                !.seen = @ \o [i \in DOMAIN items |-> items[i].cols["id"]],
                                !.cursor = IF items = <<>> THEN @ ELSE BuildCursorFromRow(Last(items))]
    /\ UNCHANGED <<ast, plan, db, asked, result, calls, writes>>

\* Others insert and delete users between two pages.
Write(next, ids) ==
    /\ walk.kind = "walk" /\ walk.more /\ writes < MaxWrites
    /\ next # db["users"]
    /\ db' = [db EXCEPT !["users"] = next]
    /\ walk' = [walk EXCEPT !.stable = @ \ ids]
    /\ writes' = writes + 1
    /\ UNCHANGED <<ast, plan, asked, result, calls>>

Delete(u) == Write(db["users"] \ {u}, {u.id})
Insert(id, key) ==
    /\ \A u \in db["users"] : u.id # id
    /\ Write(db["users"] \cup {[NullRow EXCEPT !.id = id, !.key = key]}, {id})

Init ==
    /\ ast = NoQuery
    /\ plan = [roots |-> {}, rels |-> <<>>]
    /\ db \in Databases
    /\ asked = [incl |-> {}, need |-> {}, joins |-> <<>>]
    /\ result = Nothing /\ walk = Nothing
    /\ calls = 0 /\ writes = 0

Build ==
    \/ SelectSome
    \/ \E rel \in DOMAIN Rels : \E o \in Options[rel] : LET filter == Filter(rel, o.filter) IN
        \/ Include(rel, filter, o.kind, o.cols)
        \/ JoinRelation(rel, filter, o.kind)
        \/ Match(rel, filter)
        \/ UpdateInclude(rel, filter)
        \/ WhereHas(rel, filter, o.kind = "INNER")
        \/ AlreadyJoined(ast, rel) /\ OrderBy(GetJoinCorrelationName(ast, rel), "key", TRUE)
    \/ \E rel \in DOMAIN Rels : IncludeLazy(rel)
    \/ Where({<<Root, 1>>})
    \/ OrderBy(Root, "key", FALSE)
    \/ OrderBy(Root, "id", TRUE)
    \/ Page(2, 0)
    \/ Page(1, 1)

Next ==
    \/ Build
    \/ Execute
    \/ \E backward \in BOOLEAN, size \in 1..2 : StartWalk(backward, size)
    \/ ExecuteCursorQuery
    \/ \E u \in db["users"] : Delete(u)
    \/ \E id \in 1..4, key \in 1..2 : Insert(id, key)

Spec == Init /\ [][Next]_vars

-----------------------------------------------------------------------------
(* Properties                                                              *)

TypeOK ==
    /\ plan.roots \subseteq Columns
    /\ \A r \in ToSet(plan.rels) : r.name \in DOMAIN Rels /\ "id" \in r.cols
    /\ \A i, k \in DOMAIN ast.cols : ast.cols[i].alias = ast.cols[k].alias => i = k
    /\ \A t \in DOMAIN db : \A row \in db[t] : DOMAIN row = DOMAIN NullRow /\ row.id \in Nat \ {0}
    /\ calls \in 0..MaxCalls /\ writes \in 0..MaxWrites

Related(rel, u) ==
    {row \in db[Rels[rel].target] :
        CASE Kind(rel) \in {"HasMany", "HasOne"} -> row.fk = u.id
          [] Kind(rel) = "MorphMany" -> row.fk = u.id /\ row.own
          [] Kind(rel) = "BelongsTo" -> row.id = u.fk
          [] OTHER -> \E l \in db["links"] : l.root = u.id /\ l.target = row.id}

Children(rel, filter, u) ==
    {row \in Related(rel, u) : \A p \in filter : (IF p[1] = Target(rel) THEN row ELSE u).key = p[2]}

Wanted ==
    {u \in db["users"] :
        /\ \A p \in ast.where : u.key = p[2]
        /\ \A n \in asked.need : Children(n[1], n[2], u) # {}
        /\ \A h \in ast.has : (Children(h.rel, h.filter, u) # {}) # h.negate}

RootOrder == \A o \in ToSet(ast.orderBy) : o.src = Root
Before(u, v) == LexLess([i \in DOMAIN ast.orderBy |-> LET o == ast.orderBy[i] IN IF o.up THEN u[o.name] ELSE -u[o.name]],
                        [i \in DOMAIN ast.orderBy |-> LET o == ast.orderBy[i] IN IF o.up THEN v[o.name] ELSE -v[o.name]])

\* The query is rewritten, or each joined row is a user. docs/pagination.md:112: elsewhere LIMIT
\* counts joined rows.
RowsAreUsers ==
    \/ HasMultiplyingRelations(plan) /\ MapOrderBy(ast)
    \/ RootOrder /\ ast.distinct /\ plan.rels = <<>>
    \/ RootOrder /\ \A j \in ToSet(ast.joins) : j.on \notin ToMany \cup {"pivot"}

Pageable == (ast.limit = 0 /\ ast.offset = 0) \/ RowsAreUsers

Keyed == ast.cols = <<>> \/ \E c \in ToSet(ast.cols) : c.alias = <<"id">>

RowsAreGraph ==
    result.kind = "rows" /\ Keyed /\ Pageable =>
        LET items == result.items
            rest == Cardinality(Wanted) - ast.offset
            User(i) == CHOOSE u \in db["users"] : u.id = items[i].cols["id"]
        IN  /\ result.total = Cardinality(Wanted)
            /\ Len(items) = IF rest < 0 THEN 0 ELSE IF ast.limit \in 1..rest THEN ast.limit ELSE rest
            /\ \A i \in DOMAIN items :
                /\ \E u \in Wanted : \A c \in DOMAIN items[i].cols : items[i].cols[c] = u[c]
                /\ \A k \in 1..(i - 1) : items[k].cols["id"] # items[i].cols["id"]
                /\ RootOrder =>
                    /\ \A k \in 1..(i - 1) : ~Before(User(i), User(k))
                    /\ ast.limit # 0 => Cardinality({u \in Wanted : Before(u, User(i))}) < ast.offset + ast.limit
                    /\ Cardinality({u \in Wanted : ~Before(User(i), u)}) > ast.offset
                /\ \A x \in asked.incl :
                    LET got == items[i].rels[x[1]]
                        ids == {got[k]["id"] : k \in DOMAIN got}
                        cached == PopulateHydrationCache(items[i])
                    IN  /\ Cardinality(ids) = Len(got)
                        /\ x[1] \in DOMAIN cached => cached[x[1]] = got
                        /\ x[1] \notin DOMAIN cached => ids = {}
                        /\ ids = {row.id : row \in Children(x[1], x[2], User(i))}

\* A query built of legal calls is one that the database accepts, and what it returns is the graph
\* that was asked for: each user that satisfies it once, in the order, on the right page, with all
\* its children that satisfy the filter of the relation, each once; and the total counts the users
\* of all pages. (table-alias-utils.ts ensureCorrelationName(), select.ts include(),
\* hydration-manager.ts wrapForParentPagination(), hydration.ts hydrateRows(), select-operations.ts
\* executeCount())
ResultIsGraph == TypeOK /\ result.kind # "error" /\ RowsAreGraph

\* A user that is there during the whole walk is seen exactly once, whatever others insert and
\* delete between the pages. (docs/pagination.md:47, cursor-pagination.ts)
StableSeenOnce ==
    walk.kind = "walk" /\ Keyed /\ RowsAreUsers =>
        \A u \in Wanted : u.id \in walk.stable =>
            LET n == Cardinality({i \in DOMAIN walk.seen : walk.seen[i] = u.id}) IN
            IF walk.more THEN n <= 1 ELSE n = 1
=============================================================================
