--------------------------------- MODULE Meaning ---------------------------------
(***************************************************************************)
(* What a statement does to small tables.  A table is a sequence of rows,  *)
(* a row a function of its columns; truth is 1, 0 or Null.  Values are     *)
(* words of three bits.  Functions are uninterpreted, but tell their       *)
(* arguments apart.                                                        *)
(***************************************************************************)
EXTENDS Sql

Word == 8
Unknown == -7 \* of a column no source has

Truth(b) == IF b THEN 1 ELSE 0
Strict(vs, v) == \* v, unless one of the values it is made of is null
    IF \E k \in DOMAIN vs : vs[k] = Unknown THEN Unknown
    ELSE IF \E k \in DOMAIN vs : vs[k] = Null THEN Null ELSE v
Neg(t) == Strict(<<t>>, 1 - t)
Conj(ts) == IF \E k \in DOMAIN ts : ts[k] = 0 THEN 0 ELSE Strict(ts, 1)
Disj(ts) == IF \E k \in DOMAIN ts : ts[k] = 1 THEN 1 ELSE Strict(ts, 0)

Bits(x, y, F(_, _)) ==
    LET Bit(v, k) == (v \div (2 ^ k)) % 2 IN
    F(Bit(x, 0), Bit(y, 0)) + 2 * F(Bit(x, 1), Bit(y, 1)) + 4 * F(Bit(x, 2), Bit(y, 2))

Operate(o, x, y) ==
    CASE o = "=" -> Truth(x = y)
      [] o = "!=" -> Truth(x # y)
      [] o = "<" -> Truth(x < y)
      [] o = "<=" -> Truth(x <= y)
      [] o = ">" -> Truth(x > y)
      [] o = ">=" -> Truth(x >= y)
      [] o = "LIKE" -> Truth(x \div 2 = y \div 2) \* some pattern that matches several values
      [] o = "+" -> (x + y) % Word
      [] o = "-" -> (x - y + Word) % Word
      [] o = "*" -> (x * y) % Word
      [] o = "&" -> Bits(x, y, LAMBDA a, b : a * b)
      [] o = "|" -> Bits(x, y, LAMBDA a, b : a + b - a * b)
      [] o = "^" -> Bits(x, y, LAMBDA a, b : (a + b) % 2)

(* The arguments as the function of the dialect takes them: 1 is the       *)
(* place of the first argument of the call that was written.               *)
Takes(d, f, n) ==
    CASE f \in {"DATE_ADD", "DATE_SUB"} /\ d = "mssql" -> <<3, 2, 1>>
      [] f \in {"DATE_DIFF", "INSTR"} /\ d = "mssql" -> <<2, 1>>
      [] f = "DATE_FORMAT" /\ d = "sqlite" -> <<2, 1>>
      [] f = "DATE_TRUNC" /\ d \in {"sqlite", "mysql"} -> <<2, 1>>
      [] f = "VECTOR_DISTANCE" /\ d \in {"mysql", "postgres"} -> IF d = "mysql" THEN <<2, 3, 1>> ELSE <<2, 1, 3>>
      [] OTHER -> [i \in 1 .. n |-> i]
Apply(f, vs) == \* some function, strict but for COALESCE
    IF f = "COALESCE"
    THEN LET known == SelectSeq(vs, LAMBDA v : v # Null) IN IF known = <<>> THEN Null ELSE known[1]
    ELSE Strict(vs, FoldLeft(LAMBDA acc, v : (2 * acc + v) % Word, 1, vs))

-----------------------------------------------------------------------------
(* db: the tables; env: the row of every source in scope; group: the rows  *)
(* an aggregate counts; d: the dialect the text was written for, or        *)
(* "standard" for the statement itself.                                    *)

RECURSIVE Eval(_, _, _, _, _)
EvalSelect(d, db, q, env) == Eval(d, db, q, env, <<>>)

Holds(d, db, e, env, group) == Eval(d, db, e, env, group) = 1
InScope(env, c) == {t \in DOMAIN env : c \in DOMAIN env[t]}

EvalOperand(d, db, n, env, group) ==
    LET V(i) == Eval(d, db, n.args[i], env, group)
        vs == [i \in DOMAIN n.args |-> V(i)]
    IN
    CASE n.op = "Literal" -> n.val[1]
      [] n.op = "Column" -> IF n.val[1] \in DOMAIN env /\ n.val[2] \in DOMAIN env[n.val[1]] THEN env[n.val[1]][n.val[2]] ELSE Unknown
      [] n.op = "AliasRef" -> IF InScope(env, n.val[1]) = {} THEN Unknown
                              ELSE env[CHOOSE t \in InScope(env, n.val[1]) : TRUE][n.val[1]]
      [] n.op = "Function" /\ n.val[1] = "COUNT" ->
           (LET known == [k \in DOMAIN group |-> Eval(d, db, n.args[1], group[k], <<>>)] IN
            IF \E k \in DOMAIN known : known[k] = Unknown THEN Unknown ELSE Len(SelectSeq(known, LAMBDA v : v # Null)))
      [] n.op = "Function" -> LET order == Takes(d, n.val[1], Len(vs)) IN
           IF Len(order) # Len(vs) THEN Unknown
           ELSE Apply(n.val[1], [i \in DOMAIN vs |-> vs[CHOOSE j \in DOMAIN order : order[j] = i]])
      [] n.op \in {"Binary", "Arithmetic", "Bitwise"} -> Strict(vs, Operate(n.val[1], vs[1], vs[2]))
      [] n.op = "Flip" -> Strict(vs, Word - 1 - vs[1])
      [] n.op = "Logical" -> IF n.val[1] = "AND" THEN Conj(vs) ELSE Disj(vs)
      [] n.op = "Not" -> Neg(vs[1])
      [] n.op = "Null" -> IF vs[1] = Unknown THEN Unknown ELSE Truth((vs[1] = Null) = (n.val[1] = "IS NULL"))
      [] n.op = "In" -> LET any == Disj([i \in 1 .. (Len(vs) - 1) |-> Strict(<<vs[1], vs[i + 1]>>, Truth(vs[1] = vs[i + 1]))])
                        IN  IF n.val[1] = "IN" THEN any ELSE Neg(any)
      [] n.op = "InQuery" -> LET rows == EvalSelect(d, db, n.val[2], env)
                                 any == Disj([k \in DOMAIN rows |-> Strict(<<vs[1], rows[k][1]>>, Truth(vs[1] = rows[k][1]))])
                             IN  IF n.val[1] = "IN" THEN any ELSE Neg(any)
      [] n.op = "Exists" -> Truth((EvalSelect(d, db, n.val[2], env) # <<>>) = (n.val[1] = "EXISTS"))
      [] n.op = "Scalar" -> LET rows == EvalSelect(d, db, n.val[1], env) IN IF rows = <<>> THEN Null ELSE rows[1][1]
      [] n.op = "Between" -> LET within == Conj(<<Strict(<<vs[1], vs[2]>>, Truth(vs[2] <= vs[1])),
                                                  Strict(<<vs[1], vs[3]>>, Truth(vs[1] <= vs[3]))>>)
                             IN  IF n.val[1] = "BETWEEN" THEN within ELSE Neg(within)
      [] n.op = "IsDistinct" -> Truth((vs[1] # vs[2]) = (n.val[1] = "IS DISTINCT"))
      [] n.op = "Case" -> LET met == {i \in 1 .. (Len(vs) \div 2) : vs[2 * i - 1] = 1} IN
                          IF met # {} THEN vs[2 * (CHOOSE i \in met : \A j \in met : i <= j)]
                          ELSE IF Len(vs) % 2 = 1 THEN vs[Len(vs)] ELSE Null
      [] n.op = "Cast" -> vs[1]
      [] OTHER -> Unknown

RECURSIVE Counts(_)
Counts(n) == (n.op = "Function" /\ n.val[1] = "COUNT") \/ \E i \in DOMAIN n.args : Counts(n.args[i])

ColumnName(c) == IF c.alias # "" THEN c.alias ELSE IF c.expr.op \in {"Column", "AliasRef"} THEN c.expr.val[Len(c.expr.val)] ELSE "?"
Named(q, rows) == \* rows of a query as the rows of a table
    [k \in DOMAIN rows |-> [c \in {ColumnName(q.columns[i]) : i \in DOMAIN q.columns} |->
        rows[k][CHOOSE i \in DOMAIN q.columns : ColumnName(q.columns[i]) = c]]]

SourceRows(d, db, s, env) ==
    IF s.query # <<>> THEN Named(s.query[1], EvalSelect(d, db, s.query[1], env))
    ELSE IF s.name \in DOMAIN db THEN db[s.name] ELSE <<>>
SourceName(s) == IF s.alias # "" THEN s.alias ELSE s.name
Extended(env, s, row) == (SourceName(s) :> row) @@ env

(* The rows of FROM and its joins, one environment each. *)
Envs(d, db, first, joins, env) ==
    LET One(envs, j) == FlattenSeq([k \in DOMAIN envs |->
            LET rows == SourceRows(d, db, j.table, envs[k])
                matched == SelectSeq([r \in DOMAIN rows |-> Extended(envs[k], j.table, rows[r])],
                                     LAMBDA e : Holds(d, db, j.condition, e, <<>>))
            IN  IF matched = <<>> /\ j.kind = "LEFT JOIN" THEN <<Extended(envs[k], j.table, [c \in {} |-> Null])>> ELSE matched])
    IN  FoldLeft(One, first, joins)

Firsts(s) == \* each value where it is first found
    FoldLeft(LAMBDA acc, v : IF \E k \in DOMAIN acc : acc[k] = v THEN acc ELSE Append(acc, v), <<>>, s)

(* One output row of a plain query, with the keys it is ordered by. *)
Output(d, db, q, env, group) ==
    [row |-> IF q.columns = <<>> THEN <<1>> ELSE [c \in DOMAIN q.columns |-> Eval(d, db, q.columns[c].expr, env, group)],
     keys |-> [k \in DOMAIN q.orderBy |-> Eval(d, db, q.orderBy[k].term, env, group)]]
Before(q, a, b) == \E k \in DOMAIN q.orderBy :
    /\ \A j \in 1 .. (k - 1) : a.keys[j] = b.keys[j]
    /\ IF q.orderBy[k].direction = "DESC" THEN a.keys[k] > b.keys[k] ELSE a.keys[k] < b.keys[k]
Sorted(q, outs) == \* stable
    LET Place(i) == Cardinality({j \in DOMAIN outs : Before(q, outs[j], outs[i]) \/ (~Before(q, outs[i], outs[j]) /\ j <= i)})
    IN  [k \in DOMAIN outs |-> outs[CHOOSE i \in DOMAIN outs : Place(i) = k]]
Page(q, rows) ==
    LET from == IF q.offset = <<>> THEN 0 ELSE q.offset[1]
        to == IF q.limit = <<>> THEN Len(rows) ELSE from + q.limit[1]
    IN  SubSeq(rows, from + 1, IF to < Len(rows) THEN to ELSE Len(rows))

SourceEnvs(outer, s, rows) == [k \in DOMAIN rows |-> Extended(outer, s, rows[k])]
Kept(d, db, q, outer) == \* the rows of FROM that satisfy WHERE
    SelectSeq(Envs(d, db, SourceEnvs(outer, q.from, SourceRows(d, db, q.from, outer)), q.joins, outer),
              LAMBDA e : q.where = <<>> \/ Holds(d, db, q.where[1], e, <<>>))
IsGrouped(q) == q.groupBy # <<>> \/ q.having # <<>> \/ \E c \in DOMAIN q.columns : Counts(q.columns[c].expr)
Grouped(envs, keys) ==
    LET With(v) == FlattenSeq([k \in DOMAIN envs |-> IF keys[k] = v THEN <<envs[k]>> ELSE <<>>])
        firsts == Firsts(keys)
    IN  [g \in DOMAIN firsts |-> With(firsts[g])]
Groups(d, db, q, envs) ==
    IF ~IsGrouped(q) THEN [k \in DOMAIN envs |-> <<envs[k]>>]
    ELSE IF q.groupBy = <<>> THEN <<envs>>
    ELSE Grouped(envs, [e \in DOMAIN envs |-> [k \in DOMAIN q.groupBy |-> Eval(d, db, q.groupBy[k], envs[e], <<>>)]])
Leader(g, outer) == IF g = <<>> THEN outer ELSE g[1]
Outputs(d, db, q, outer, groups) == [k \in DOMAIN groups |-> Output(d, db, q, Leader(groups[k], outer), groups[k])]
Plain(d, db, q, outer) ==
    LET outs == Outputs(d, db, q, outer,
                        SelectSeq(Groups(d, db, q, Kept(d, db, q, outer)),
                                  LAMBDA g : q.having = <<>> \/ Holds(d, db, q.having[1], Leader(g, outer), g)))
    IN  Sorted(q, IF q.distinct THEN Firsts(outs) ELSE outs)

Combine(o, a, b) ==
    CASE o = "UNION" -> Firsts(a \o b)
      [] o = "UNION ALL" -> a \o b
      [] o = "INTERSECT" -> SelectSeq(Firsts(a), LAMBDA r : \E k \in DOMAIN b : b[k] = r)
      [] o = "EXCEPT" -> SelectSeq(Firsts(a), LAMBDA r : \A k \in DOMAIN b : b[k] # r)

RowsOf(outs) == [k \in DOMAIN outs |-> outs[k].row]
AsOutput(d, db, q, r) ==
    LET row == Named(q, <<r>>)[1] IN
    [row |-> r, keys |-> [k \in DOMAIN q.orderBy |-> Eval(d, db, q.orderBy[k].term, ("" :> row), <<>>)]]
Reordered(d, db, q, all) == RowsOf(Sorted(q, [k \in DOMAIN all |-> AsOutput(d, db, q, all[k])]))
WithTables(d, db, q, outer) ==
    FoldLeft(LAMBDA acc, c : (c.name :> Named(c.query, EvalSelect(d, acc, c.query, outer))) @@ acc, db, q.ctes)
EvalIn(d, db, q, outer) ==
    IF q.setOps = <<>> THEN RowsOf(Plain(d, db, q, outer))
    ELSE Reordered(d, db, q, FoldLeft(LAMBDA acc, o : Combine(o.operator, acc, EvalSelect(d, db, o.query, outer)),
                                      EvalSelect(d, db, [q EXCEPT !.ctes = <<>>, !.setOps = <<>>, !.orderBy = <<>>, !.limit = <<>>, !.offset = <<>>], outer),
                                      q.setOps))
EvalQuery(d, db, q, outer) == Page(q, EvalIn(d, WithTables(d, db, q, outer), q, outer))

-----------------------------------------------------------------------------
(* Writing: [db, out], the tables afterwards and the rows handed back.     *)

Columns(t) == IF t = "user_tags" THEN {"user_id", "tag_id"} ELSE IF t = "orders" THEN {"id", "user_id", "n"} ELSE {"id", "n"}
Returned(cols, row) == [k \in DOMAIN cols |-> row[cols[k]]]
NoEnv == [t \in {} |-> <<>>]

InsertOne(d, s, acc, row) ==
    LET t == s.into
        hit == {k \in DOMAIN acc.db[t] : acc.db[t][k].id = row.id}
        k == CHOOSE x \in hit : TRUE
        env == (t :> acc.db[t][k])
        changed == [c \in DOMAIN row |->
            LET a == {i \in DOMAIN s.conflict[1].set : s.conflict[1].set[i].column = c} IN
            IF a = {} THEN acc.db[t][k][c] ELSE Eval(d, acc.db, s.conflict[1].set[CHOOSE i \in a : TRUE].value, env, <<>>)]
    IN  IF hit = {} THEN [db |-> [acc.db EXCEPT ![t] = Append(@, row)], out |-> Append(acc.out, Returned(s.returning, row))]
        ELSE IF s.conflict = <<>> THEN [acc EXCEPT !.out = Append(@, <<Unknown>>)] \* duplicate key
        ELSE IF s.conflict[1].set = <<>> \/ (s.conflict[1].guard # <<>> /\ ~Holds(d, acc.db, s.conflict[1].guard[1], env, <<>>)) THEN acc
        ELSE [db |-> [acc.db EXCEPT ![t][k] = changed], out |-> Append(acc.out, Returned(s.returning, changed))]

DoInsert(d, db, s) ==
    LET tuples == IF s.query # <<>> THEN EvalSelect(d, db, s.query[1], NoEnv)
                  ELSE [r \in DOMAIN s.rows |-> [c \in DOMAIN s.rows[r] |-> Eval(d, db, s.rows[r][c], NoEnv, <<>>)]]
        Row(v) == [c \in Columns(s.into) |-> IF \E k \in DOMAIN s.columns : s.columns[k] = c
                                             THEN v[CHOOSE k \in DOMAIN s.columns : s.columns[k] = c] ELSE Null]
    IN  IF \E r \in DOMAIN tuples : Len(tuples[r]) # Len(s.columns) THEN [db |-> db, out |-> <<<<Unknown>>>>]
        ELSE FoldLeft(LAMBDA acc, v : InsertOne(d, s, acc, Row(v)), [db |-> db, out |-> <<>>], tuples)

(* The first combination of joined rows an UPDATE or DELETE finds for a    *)
(* row of its table; SQL Server names the table itself in FROM.            *)
Matches(d, db, s, row) ==
    LET own == Extended(NoEnv, s.table, row)
        first == IF s.from = <<>> THEN <<own>>
                 ELSE LET rows == SourceRows(d, db, s.from[1], own) IN [k \in DOMAIN rows |-> Extended(own, s.from[1], rows[k])]
    IN  SelectSeq(Envs(d, db, first, s.joins, own), LAMBDA e : s.where = <<>> \/ Holds(d, db, s.where[1], e, <<>>))

DoUpdate(d, db, s) ==
    LET t == s.table.name
        New(row, env) == [c \in DOMAIN row |->
            LET a == {i \in DOMAIN s.set : s.set[i].column = c} IN
            IF a = {} THEN row[c] ELSE Eval(d, db, s.set[CHOOSE i \in a : \A j \in a : j <= i].value, env, <<>>)]
        After(row) == LET m == Matches(d, db, s, row) IN IF m = <<>> THEN row ELSE New(row, m[1])
        hit == SelectSeq(db[t], LAMBDA row : Matches(d, db, s, row) # <<>>)
    IN  [db |-> [db EXCEPT ![t] = [k \in DOMAIN @ |-> After(@[k])]],
         out |-> [k \in DOMAIN hit |-> Returned(s.returning, After(hit[k]))]]
DoDelete(d, db, s) ==
    LET t == s.table.name
        Hit(row) == Matches(d, db, s, row) # <<>>
        gone == SelectSeq(db[t], Hit)
    IN  [db |-> [db EXCEPT ![t] = SelectSeq(@, LAMBDA row : ~Hit(row))],
         out |-> [k \in DOMAIN gone |-> Returned(s.returning, gone[k])]]

Eval(d, db, n, env, group) ==
    CASE n.op = "Select" -> EvalQuery(d, db, n, env)
      [] n.op = "Insert" -> DoInsert(d, db, n)
      [] n.op = "Update" -> DoUpdate(d, db, n)
      [] n.op = "Delete" -> DoDelete(d, db, n)
      [] OTHER -> EvalOperand(d, db, n, env, group)
Do(d, db, s) == \* [db, out]
    IF s.op = "Select" THEN [db |-> db, out |-> EvalSelect(d, db, s, NoEnv)] ELSE Eval(d, db, s, NoEnv, <<>>)
=============================================================================
