------------------------------- MODULE Statements -------------------------------
(***************************************************************************)
(* The builders of INSERT, UPDATE, DELETE and SELECT (query-builder) and   *)
(* the filters of a DTO (dto/apply-filter.ts).  stmt is the statement a    *)
(* builder has reached, asked what its calls were told; every statement    *)
(* can be compiled for each of the four dialects at any time.              *)
(***************************************************************************)
EXTENDS Engine, Meaning

CONSTANTS
    Rowsets,     \* what values() may be given: sequences of rows, a row a sequence of <<column, value>>
    Assignments, \* what set() and doUpdate() may be given
    Conditions,  \* what where() may be given
    Terms,       \* what select() may be given
    Queries,     \* the other operands of UNION, sources of INSERT and common table expressions
    Filters,     \* what applyFilter() may be given
    Databases,   \* the contents of the tables
    MaxCalls,    \* calls on one builder, for each kind of statement
    Careless     \* also calls whose result is known not to be what was asked for

VARIABLES stmt, asked, calls
vars == <<stmt, asked, calls>>

-----------------------------------------------------------------------------
(* Relations of the two tables, and the rows they lead to. *)

Relations == [users  |-> [orders |-> [kind |-> "HasMany", target |-> "orders"],
                          tags   |-> [kind |-> "BelongsToMany", target |-> "tags"],
                          labels |-> [kind |-> "BelongsToMany", target |-> "tags"]],
              orders |-> [users  |-> [kind |-> "BelongsTo", target |-> "users"]]]
RowSet(t) == {t[k] : k \in DOMAIN t}
Related(db, t, row, r) ==
    CASE Relations[t][r].kind = "HasMany" -> {o \in RowSet(db.orders) : o.user_id = row.id}
      [] Relations[t][r].kind = "BelongsTo" -> {u \in RowSet(db.users) : u.id = row.user_id}
      [] OTHER -> {g \in RowSet(db.tags) : \E p \in RowSet(db.user_tags) : p.user_id = row.id /\ p.tag_id = g.id}

(* What a filter asks for: [fields, rels], every field with its operators, *)
(* every relation with its own.                                            *)
Passes(op, x, v) ==
    /\ x # Null
    /\ CASE op = "equals" -> x = v
         [] op = "not" -> x # v
         [] op = "in" -> x \in v
         [] op = "notIn" -> x \notin v
         [] op = "lt" -> x < v
         [] op = "lte" -> x <= v
         [] op = "gt" -> x > v
         [] op = "gte" -> x >= v
         [] op = "contains" -> Operate("LIKE", x, v) = 1
RECURSIVE Satisfies(_, _, _, _)
Satisfies(db, t, row, f) ==
    /\ \A k \in DOMAIN f.fields : \A o \in DOMAIN f.fields[k].ops :
           Passes(f.fields[k].ops[o].op, row[f.fields[k].column], f.fields[k].ops[o].value)
    /\ \A k \in DOMAIN f.rels : LET r == f.rels[k].relation
                                    rows == Related(db, t, row, r)
                                    good == {x \in rows : Satisfies(db, Relations[t][r].target, x, f.rels[k].filter)}
       IN  CASE f.rels[k].op = "some" -> good # {}
             [] f.rels[k].op = "none" -> good = {}
             [] f.rels[k].op = "every" -> good = rows
             [] f.rels[k].op = "isEmpty" -> rows = {}
             [] f.rels[k].op = "isNotEmpty" -> rows # {}

-----------------------------------------------------------------------------
(* Translating a filter *)

And(es) == IF Len(es) = 1 THEN es[1] ELSE AllOf(es)
Comparison == [equals |-> "=", not |-> "!=", lt |-> "<", lte |-> "<=", gt |-> ">", gte |-> ">=", contains |-> "LIKE"]
BuildFieldExpression(t, field) ==
    LET c == Col(t, field.column)
        One(o) == IF o.op \in {"in", "notIn"}
                  THEN InList(IF o.op = "in" THEN "IN" ELSE "NOT IN", c, [k \in DOMAIN SetToSeq(o.value) |-> Lit(SetToSeq(o.value)[k])])
                  ELSE Binary(Comparison[o.op], c, Lit(o.value))
    IN  And([k \in DOMAIN field.ops |-> One(field.ops[k])])

Correlation(t, r) ==
    CASE Relations[t][r].kind = "HasMany" -> Eq(Col("orders", "user_id"), Col(t, "id"))
      [] Relations[t][r].kind = "BelongsTo" -> Eq(Col("users", "id"), Col(t, "user_id"))
      [] OTHER -> Eq(Col("user_tags", "user_id"), Col(t, "id"))
Join(kind, table, condition) == [kind |-> kind, table |-> Table(table), condition |-> condition]
TargetJoin(kind, r, extra) ==
    Join(kind, "tags", And(<<Eq(Col("tags", "id"), Col("user_tags", "tag_id"))>> \o extra))

(* A subquery over the related rows; over a pivot it starts at the pivot.  *)
BuildRelationSubqueryBase(t, r) ==
    LET many == Relations[t][r].kind = "BelongsToMany" IN
    [Select(IF many THEN "user_tags" ELSE Relations[t][r].target) EXCEPT
        !.joins = IF many THEN <<TargetJoin("INNER JOIN", r, <<>>)>> ELSE <<>>,
        !.where = <<Correlation(t, r)>>]
GroupByColumn(t, r) ==
    CASE Relations[t][r].kind = "BelongsTo" -> Col("users", "id")
      [] Relations[t][r].kind = "HasMany" -> Col("orders", "user_id")
      [] OTHER -> Col("user_tags", "user_id")

(* Every one of the rows counts in the CASE: no row is without a match. *)
BuildEveryHavingClause(name, predicate) ==
    Eq(Function("COUNT", <<Col(name, "id")>>), Function("COUNT", <<Case(<<predicate, Lit(1)>>, Lit(Null))>>))

RECURSIVE BuildFilterExpression(_, _)
BuildRelationFilterExpression(t, rel) ==
    LET r == rel.relation
        base == BuildRelationSubqueryBase(t, r)
        predicate == BuildFilterExpression(Relations[t][r].target, rel.filter)
        With(p) == [base EXCEPT !.where = <<And(@ \o p)>>]
    IN  CASE rel.op = "isEmpty" -> <<Exists("NOT EXISTS", base)>>
          [] rel.op = "isNotEmpty" -> <<Exists("EXISTS", base)>>
          [] predicate = <<>> -> <<>>
          [] rel.op = "some" -> <<Exists("EXISTS", With(predicate))>>
          [] rel.op = "none" -> <<Exists("NOT EXISTS", With(predicate))>>
          [] rel.op = "every" -> <<Exists("EXISTS", [base EXCEPT !.groupBy = <<GroupByColumn(t, r)>>,
                                       !.having = <<BuildEveryHavingClause(Relations[t][r].target, predicate[1])>>])>>
BuildFilterExpression(t, f) ==
    LET es == [k \in DOMAIN f.fields |-> BuildFieldExpression(t, f.fields[k])]
              \o FlattenSeq([k \in DOMAIN f.rels |-> BuildRelationFilterExpression(t, f.rels[k])])
    IN  IF es = <<>> THEN <<>> ELSE <<And(es)>>

-----------------------------------------------------------------------------
(* The same filter applied to a builder: joins, groups and conditions of   *)
(* the query itself.                                                       *)

WithWhere(q, e) == [q EXCEPT !.where = IF @ = <<>> THEN <<e>> ELSE <<AllOf(@ \o <<e>>)>>]
WithHaving(q, e) == [q EXCEPT !.having = IF @ = <<>> THEN <<e>> ELSE <<AllOf(@ \o <<e>>)>>]
JoinRelation(q, r, extra) ==
    [q EXCEPT !.joins = @ \o
        IF Relations.users[r].kind = "BelongsToMany"
        THEN <<Join("INNER JOIN", "user_tags", Correlation("users", r)), TargetJoin("INNER JOIN", r, extra)>>
        ELSE <<Join("INNER JOIN", Relations.users[r].target, And(<<Correlation("users", r)>> \o extra))>>]
WhereHas(q, o, r, predicate) ==
    WithWhere(q, Exists(o, [Select(Relations.users[r].target) EXCEPT !.where = <<And(<<Correlation("users", r)>> \o predicate)>>]))

ApplyRelationFilter(q, rel) ==
    LET r == rel.relation
        predicate == BuildFilterExpression(Relations.users[r].target, rel.filter)
    IN  CASE rel.op = "isEmpty" -> WhereHas(q, "NOT EXISTS", r, <<>>)
          [] rel.op = "isNotEmpty" -> WhereHas(q, "EXISTS", r, <<>>)
          [] predicate = <<>> -> q
          [] rel.op = "some" -> [JoinRelation(q, r, predicate) EXCEPT !.distinct = TRUE]
          [] rel.op = "none" -> WhereHas(q, "NOT EXISTS", r, predicate)
          [] rel.op = "every" -> WithHaving([JoinRelation(q, r, <<>>) EXCEPT !.groupBy = Append(@, Col("users", "id"))],
                                            BuildEveryHavingClause(r, predicate[1]))
ApplyFilter(q, f) ==
    LET es == [k \in DOMAIN f.fields |-> BuildFieldExpression("users", f.fields[k])]
        related == FoldLeft(ApplyRelationFilter, q, f.rels)
    IN  IF es = <<>> THEN related ELSE WithWhere(related, And(es))

(* whereHas() does not know pivots; a relation is joined under its table's *)
(* name, which the HAVING of "every" takes for the relation's; two joins   *)
(* of one table multiply what is counted.                                  *)
Applicable(q, f) ==
    /\ \A k \in DOMAIN f.rels : f.rels[k].op \in {"none", "isEmpty", "isNotEmpty"} => Relations.users[f.rels[k].relation].kind # "BelongsToMany"
    /\ ~Careless => LET joined == SelectSeq(f.rels, LAMBDA rel : rel.op \in {"some", "every"}) IN
           /\ \A k \in DOMAIN joined : joined[k].op = "every" => joined[k].relation = Relations.users[joined[k].relation].target
           /\ \A j, k \in DOMAIN joined : Relations.users[joined[j].relation].target = Relations.users[joined[k].relation].target => j = k
           /\ q.joins = <<>>

-----------------------------------------------------------------------------
(* Calls *)

Nothing == [rows |-> <<>>, conditions |-> <<>>, set |-> <<>>, filters |-> <<>>, joined |-> FALSE]
InsertInto == [op |-> "Insert", into |-> "users", columns |-> <<>>, rows |-> <<>>, query |-> <<>>, conflict |-> <<>>, returning |-> <<>>]
UpdateOf == [op |-> "Update", table |-> Table("users"), set |-> <<>>, from |-> <<>>, joins |-> <<>>, where |-> <<>>, returning |-> <<>>]
DeleteFrom == [op |-> "Delete", table |-> Table("users"), from |-> <<>>, joins |-> <<>>, where |-> <<>>, returning |-> <<>>]
SelectFrom == [Select("users") EXCEPT !.columns = <<[expr |-> Col("users", "id"), alias |-> "id"]>>]

Init ==
    /\ stmt \in {InsertInto, UpdateOf, DeleteFrom, SelectFrom}
    /\ asked = Nothing
    /\ calls = 0

Call(op) == stmt.op \in op /\ calls < MaxCalls[stmt.op] /\ calls' = calls + 1

(* values(): the first row names the columns, all rows give their values.  *)
ValuesInOrder(rows) == \* not the code: by position
    /\ Call({"Insert"})
    /\ stmt.query = <<>>
    /\ stmt' = [stmt EXCEPT !.columns = IF @ # <<>> THEN @ ELSE [k \in DOMAIN rows[1] |-> rows[1][k][1]],
                            !.rows = @ \o [r \in DOMAIN rows |-> [c \in DOMAIN rows[r] |-> rows[r][c][2]]]]
    /\ asked' = [asked EXCEPT !.rows = @ \o rows]
Cell(row, c) == row[CHOOSE k \in DOMAIN row : row[k][1] = c][2]
Values(rows) ==
    LET cols == IF stmt.columns # <<>> THEN stmt.columns ELSE [k \in DOMAIN rows[1] |-> rows[1][k][1]]
        Has(row, c) == \E k \in DOMAIN row : row[k][1] = c
    IN  /\ Call({"Insert"})
        /\ stmt.query = <<>>
        /\ \A r \in DOMAIN rows : \A c \in DOMAIN cols : Has(rows[r], cols[c])
        /\ ~Careless => \A r \in DOMAIN rows : Len(rows[r]) = Len(cols) \* other keys are dropped
        /\ stmt' = [stmt EXCEPT !.columns = cols,
                                !.rows = @ \o [r \in DOMAIN rows |-> [c \in DOMAIN cols |-> Cell(rows[r], cols[c])]]]
        /\ asked' = [asked EXCEPT !.rows = @ \o rows]

InsertColumns(cols) ==
    /\ Call({"Insert"})
    /\ ~Careless => stmt.rows = <<>> \* rows already given would be given new names
    /\ stmt.rows # <<>> => Len(cols) = Len(stmt.columns)
    /\ stmt' = [stmt EXCEPT !.columns = cols]
    /\ UNCHANGED asked

FromSelect(q, cols) ==
    /\ Call({"Insert"})
    /\ stmt.rows = <<>>
    /\ stmt' = [stmt EXCEPT !.query = <<q>>, !.columns = IF cols # <<>> THEN cols ELSE IF @ # <<>> THEN @ ELSE <<"id", "n">>]
    /\ UNCHANGED asked

OnConflict(set, guard) ==
    /\ Call({"Insert"})
    /\ stmt' = [stmt EXCEPT !.conflict = <<[target |-> <<"id">>, set |-> set, guard |-> guard]>>]
    /\ UNCHANGED asked

Returning(cols) ==
    /\ Call({"Insert", "Update", "Delete"})
    /\ stmt' = [stmt EXCEPT !.returning = cols]
    /\ UNCHANGED asked

(* set() and where() of an UPDATE or DELETE replace what was there. *)
Set(assignments) ==
    /\ Call({"Update"})
    /\ ~Careless => stmt.set = <<>>
    /\ stmt' = [stmt EXCEPT !.set = assignments]
    /\ asked' = [asked EXCEPT !.set = @ \o assignments]

Where(e) ==
    /\ Call({"Update", "Delete", "Select"})
    /\ ~Careless => stmt.op = "Select" \/ stmt.where = <<>>
    /\ stmt' = IF stmt.op = "Select" THEN WithWhere(stmt, e) ELSE [stmt EXCEPT !.where = <<e>>]
    /\ asked' = [asked EXCEPT !.conditions = Append(@, e)]

(* from() or using(): another table whose rows decide *)
FromTable(other) ==
    /\ Call({"Update", "Delete"})
    /\ stmt' = [stmt EXCEPT !.from = <<Table(other)>>]
    /\ UNCHANGED asked

JoinTable(table, condition) ==
    /\ Call({"Update", "Delete", "Select"})
    /\ stmt.joins = <<>>
    /\ stmt' = [stmt EXCEPT !.joins = <<Join("INNER JOIN", table, condition)>>]
    /\ asked' = [asked EXCEPT !.joined = TRUE]

SelectTerm(e) ==
    /\ Call({"Select"})
    /\ Len(stmt.columns) = 1
    /\ stmt' = [stmt EXCEPT !.columns = Append(@, [expr |-> e, alias |-> "x"])]
    /\ UNCHANGED asked

OrderBy(e, direction) ==
    /\ Call({"Select"})
    /\ stmt' = [stmt EXCEPT !.orderBy = Append(@, [term |-> e, direction |-> direction])]
    /\ UNCHANGED asked

Paginate(limit, offset) ==
    /\ Call({"Select"})
    /\ stmt' = [stmt EXCEPT !.limit = limit, !.offset = offset]
    /\ UNCHANGED asked

SetOperation(operator, q) ==
    /\ Call({"Select"})
    /\ stmt' = [stmt EXCEPT !.setOps = Append(@, [operator |-> operator, query |-> q])]
    /\ UNCHANGED asked

With(name, q) ==
    /\ Call({"Select"})
    /\ stmt.ctes = <<>>
    /\ stmt' = [stmt EXCEPT !.ctes = <<[name |-> name, query |-> q]>>]
    /\ UNCHANGED asked

Filter(f) ==
    /\ Call({"Select"})
    /\ Applicable(stmt, f)
    /\ stmt' = ApplyFilter(stmt, f)
    /\ asked' = [asked EXCEPT !.filters = Append(@, f)]

WhereFilter(f) ==
    /\ Call({"Select"})
    /\ stmt' = FoldLeft(WithWhere, stmt, BuildFilterExpression("users", f))
    /\ asked' = [asked EXCEPT !.filters = Append(@, f)]

RECURSIVE QueriesIn(_)
QueriesIn(e) ==
    (IF e.op \in {"InQuery", "Exists", "Scalar"} THEN <<e.val[Len(e.val)]>> ELSE <<>>)
    \o FlattenSeq([i \in DOMAIN e.args |-> QueriesIn(e.args[i])])

Owned == Eq(Col("orders", "user_id"), Col("users", "id"))
Next ==
    \/ \E rows \in Rowsets : Values(rows)
    \/ \E cols \in {<<"id", "n">>, <<"n", "id">>} : InsertColumns(cols)
    \/ \E q \in Queries, cols \in {<<>>, <<"n", "id">>} : FromSelect(q, cols)
    \/ \E set \in Assignments, guard \in {<<>>} \cup {<<e>> : e \in {x \in Conditions : QueriesIn(x) = <<>>}} : OnConflict(set, guard)
    \/ Returning(<<"id", "n">>)
    \/ \E set \in Assignments : Set(set)
    \/ \E e \in Conditions : Where(e)
    \/ FromTable("orders")
    \/ JoinTable("orders", Owned)
    \/ \E e \in Terms : SelectTerm(e)
    \/ \E c \in {"id", "n"}, direction \in {"ASC", "DESC"} : OrderBy(Col("users", c), direction)
    \/ \E limit, offset \in {<<>>, <<1>>} : Paginate(limit, offset)
    \/ \E operator \in {"UNION", "UNION ALL", "EXCEPT"}, q \in Queries : SetOperation(operator, q)
    \/ \E q \in Queries : With("tags", q)
    \/ \E f \in Filters : Filter(f) \/ WhereFilter(f)

Spec == Init /\ [][Next]_vars

-----------------------------------------------------------------------------
(* What the databases cannot say.  Everything else must compile. *)

Complete(s) ==
    CASE s.op = "Insert" -> s.columns # <<>> /\ (s.rows # <<>> \/ s.query # <<>>)
      [] s.op = "Update" -> s.set # <<>>
      [] OTHER -> TRUE
SpeaksSelect(d, q) ==
    /\ ~HasOrderedOperand(q)
    /\ d = "sqlite" => \* no parentheses around an operand
         /\ q.setOps = <<>>
         /\ q.where # <<>> => \A k \in DOMAIN QueriesIn(q.where[1]) : QueriesIn(q.where[1])[k].setOps = <<>>
    /\ d \in {"sqlite", "mysql"} => (q.offset # <<>> => q.limit # <<>>)
    /\ d \in {"postgres", "mssql"} => \* an outcome made of several rows has no other column to be ordered by
         (q.distinct \/ q.groupBy # <<>> \/ q.setOps # <<>> => \A k \in DOMAIN q.orderBy : \E c \in DOMAIN q.columns : q.columns[c].expr = q.orderBy[k].term)
    /\ d = "mssql" => (q.groupBy # <<>> => Len(q.columns) = 1)
    /\ \A c \in DOMAIN q.columns : q.columns[c].expr.op = "Function" => ~Unsupported(d, q.columns[c].expr.val[1])
SpeaksInsert(d, s) ==
    /\ d = "mysql" => s.returning = <<>> /\ (s.conflict # <<>> => s.conflict[1].guard = <<>>)
    /\ s.query # <<>> => SpeaksSelect(d, s.query[1])
SpeaksUpdate(d, s) ==
    /\ s.joins # <<>> => s.from # <<>>
    /\ d = "mysql" => s.returning = <<>> /\ s.from = <<>>
SpeaksDelete(d, s) ==
    /\ IF d = "mssql" THEN s.from = <<>> ELSE s.joins # <<>> => s.from # <<>>
    /\ d \in {"mysql", "sqlite"} => s.from = <<>>
    /\ d = "mysql" => s.returning = <<>>
Speaks(d, s) ==
    CASE s.op = "Select" -> SpeaksSelect(d, s)
      [] s.op = "Insert" -> SpeaksInsert(d, s)
      [] s.op = "Update" -> SpeaksUpdate(d, s)
      [] s.op = "Delete" -> SpeaksDelete(d, s)

Means(d, read, s) == read # <<>> /\ \A db \in Databases : Do(d, db, read[1]) = Do("standard", db, s)
Understood(d, f, s) == ~Threw(f) /\ Binds(d, f) /\ Means(d, Parse(Bound(d, f)), s)

(* A statement the database can express is compiled, its placeholders and  *)
(* parameters match, and what the database reads out of the text does what *)
(* the statement says, in all four dialects: no precedence is lost, no     *)
(* parameter lands in another's place, no clause moves to another query.   *)
SameMeaning ==
    Complete(stmt) =>
        \A d \in Dialects : Speaks(d, stmt) => Understood(d, CompileStatement(d, stmt), stmt)

(* Every value given to values() is in the row and under the column it was *)
(* given for, whatever columns() said before and in whatever order.        *)
ValuesLand ==
    stmt.op = "Insert" /\ stmt.query = <<>> =>
        /\ Len(stmt.rows) = Len(asked.rows)
        /\ \A r \in DOMAIN stmt.rows :
               {<<stmt.columns[c], stmt.rows[r][c]>> : c \in DOMAIN stmt.columns} = {asked.rows[r][k] : k \in DOMAIN asked.rows[r]}

Found(db) == \* the users a query finds, one by one
    LET q == [stmt EXCEPT !.columns = <<@[1]>>, !.orderBy = <<>>, !.limit = <<>>, !.offset = <<>>, !.setOps = <<>>, !.ctes = <<>>]
        rows == EvalSelect("standard", db, q, NoEnv)
    IN  [k \in DOMAIN rows |-> rows[k][1]]
Wanted(db) == \* and those it was asked for
    {u \in RowSet(db.users) :
        /\ \A k \in DOMAIN asked.filters : Satisfies(db, "users", u, asked.filters[k])
        /\ \A k \in DOMAIN asked.conditions : Holds("standard", db, asked.conditions[k], "users" :> u, <<>>)}
Filtered == asked.filters # <<>> /\ ~asked.joined

(* All the rows of a user without rows match, and the code does not find   *)
(* that user.                                                              *)
Rowless(db) ==
    {u \in RowSet(db.users) :
        \E j \in DOMAIN asked.filters : \E k \in DOMAIN asked.filters[j].rels :
            LET rel == asked.filters[j].rels[k] IN rel.op = "every" /\ Related(db, "users", u, rel.relation) = {}}

(* A filtered query finds the users that satisfy every filter and every    *)
(* condition given to it, each once, however its calls were ordered; of a  *)
(* user without any row "every" asks about, nothing is said.               *)
FilterSelects ==
    Filtered =>
        \A db \in Databases :
            LET Ids(us) == {u.id : u \in us} IN
            /\ ToSet(Found(db)) \ Ids(Rowless(db)) = Ids(Wanted(db) \ Rowless(db))
            /\ IsInjective(Found(db))

(* The same of every user, "every" being that all related records match:   *)
(* dto/apply-filter.ts asks for a group of rows and so for one row.        *)
EveryHolds == Filtered => \A db \in Databases : ToSet(Found(db)) = {u.id : u \in Wanted(db)}

(* The statement is the one the calls asked for.                           *)
BuiltAsAsked == ValuesLand /\ FilterSelects
=============================================================================
