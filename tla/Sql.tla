---------------------------------- MODULE Sql ----------------------------------
(***************************************************************************)
(* The compilers of the four dialects (core/dialect).  An expression is a  *)
(* node [op, val, args]; a statement is a record of its clauses, where an  *)
(* optional clause is a sequence of at most one element.  Compiled text is *)
(* a sequence of tokens: <<"kw", w>>, <<"id", name>>, <<"fn", name>>,      *)
(* <<"num", n>>, a value printed in place <<"lit", v>>, and <<"?", k>>,    *)
(* the placeholder of the k-th parameter.  Parameters are numbered in the  *)
(* order in which operands are compiled, which need not be the order in    *)
(* which the text names them.                                              *)
(***************************************************************************)
EXTENDS Integers, Sequences, SequencesExt, FiniteSets

Dialects == {"sqlite", "postgres", "mysql", "mssql"}
Null == -1

-----------------------------------------------------------------------------
(* Nodes *)

Node(op, val, args) == [op |-> op, val |-> val, args |-> args]
Lit(v) == Node("Literal", <<v>>, <<>>)
Col(t, c) == Node("Column", <<t, c>>, <<>>)
AliasRef(a) == Node("AliasRef", <<a>>, <<>>)
Binary(o, l, r) == Node("Binary", <<o>>, <<l, r>>)
Eq(l, r) == Binary("=", l, r)
AllOf(es) == Node("Logical", <<"AND">>, es)
AnyOf(es) == Node("Logical", <<"OR">>, es)
Not(e) == Node("Not", <<>>, <<e>>)
IsNull(o, l) == Node("Null", <<o>>, <<l>>)
InList(o, l, es) == Node("In", <<o>>, <<l>> \o es)
InQuery(o, l, q) == Node("InQuery", <<o, q>>, <<l>>)
Exists(o, q) == Node("Exists", <<o, q>>, <<>>)
Scalar(q) == Node("Scalar", <<q>>, <<>>)
Between(o, l, a, b) == Node("Between", <<o>>, <<l, a, b>>)
Distinct(o, l, r) == Node("IsDistinct", <<o>>, <<l, r>>)
Arithmetic(o, l, r) == Node("Arithmetic", <<o>>, <<l, r>>)
Bitwise(o, l, r) == Node("Bitwise", <<o>>, <<l, r>>)
Case(branches, other) == Node("Case", <<>>, branches \o <<other>>)
Cast(e, type) == Node("Cast", <<type>>, <<e>>)
Function(f, args) == Node("Function", <<f>>, args)

Table(t) == [name |-> t, alias |-> "", query |-> <<>>]
Select(t) == [op |-> "Select", ctes |-> <<>>, distinct |-> FALSE, columns |-> <<>>, from |-> Table(t),
              joins |-> <<>>, where |-> <<>>, groupBy |-> <<>>, having |-> <<>>, orderBy |-> <<>>,
              limit |-> <<>>, offset |-> <<>>, setOps |-> <<>>]

-----------------------------------------------------------------------------
(* Text *)

Kw(w) == <<"kw", w>>
Id(i) == <<"id", i>>
Arg(i) == <<"arg", i>>

Words(toks) == [text |-> toks, params |-> <<>>]
Throw == Words(<<Kw("throw")>>)

Shifted(text, n) == [k \in DOMAIN text |-> IF text[k][1] = "?" THEN <<"?", text[k][2] + n>> ELSE text[k]]

ArrangeAsPrinted(frags, template) == \* not the code: parameters in the order of the text
    LET parts == [k \in DOMAIN template |-> IF template[k][1] = "arg" THEN frags[template[k][2]] ELSE Words(<<template[k]>>)]
        Before(k) == FoldLeft(LAMBDA n, f : n + Len(f.params), 0, SubSeq(parts, 1, k - 1))
    IN  [text |-> FlattenSeq([k \in DOMAIN parts |-> Shifted(parts[k].text, Before(k))]),
         params |-> FlattenSeq([i \in DOMAIN frags |-> frags[i].params])]

(* The fragments were compiled in this order; the template says where the  *)
(* text of each goes.  Its parameters stay wherever it is printed.         *)
Arrange(frags, template) ==
    LET Before(i) == FoldLeft(LAMBDA n, f : n + Len(f.params), 0, SubSeq(frags, 1, i - 1))
        Part(k) == IF template[k][1] = "arg"
                   THEN Shifted(frags[template[k][2]].text, Before(template[k][2]))
                   ELSE <<template[k]>>
    IN  [text |-> FlattenSeq([k \in DOMAIN template |-> Part(k)]),
         params |-> FlattenSeq([i \in DOMAIN frags |-> frags[i].params])]

Cat(frags) == Arrange(frags, [i \in DOMAIN frags |-> Arg(i)])
Paren(f) == Cat(<<Words(<<Kw("(")>>), f, Words(<<Kw(")")>>)>>)
Joined(frags, w) == \* the fragments with the word w between them
    Arrange(frags, [k \in 1 .. (2 * Len(frags) - 1) |-> IF k % 2 = 1 THEN Arg((k + 1) \div 2) ELSE Kw(w)])
Listed(frags) == IF frags = <<>> THEN Words(<<>>) ELSE Joined(frags, ",")
Clause(w, opt, F(_)) == IF opt = <<>> THEN Words(<<>>) ELSE Cat(<<Words(<<Kw(w)>>), F(opt[1])>>)
Threw(f) == \E k \in DOMAIN f.text : f.text[k] = Kw("throw")

-----------------------------------------------------------------------------
(* Functions: the arguments a renderer prints, in the order in which it    *)
(* prints them; -i stands for the value of the literal argument i printed  *)
(* into the text.                                                          *)

PrintsStandard(n) == [i \in 1 .. n |-> i]
PrintsSqlite(f, n) ==
    CASE f \in {"DATE_ADD", "DATE_SUB"} -> <<1, 2, -3>>
      [] f = "DATE_TRUNC" -> <<2, -1>>
      [] f = "DATE_FORMAT" -> <<2, 1>>
      [] f = "EXTRACT" -> <<2>> \* of a placeholder: always the year
      [] f = "VECTOR_DISTANCE" -> <<-1, 2, 3>>
      [] OTHER -> PrintsStandard(n)
PrintsMysql(f, n) ==
    CASE f \in {"DATE_ADD", "DATE_SUB"} -> <<1, 2, -3>>
      [] f = "DATE_TRUNC" -> <<2, -1>>
      [] f = "VECTOR_DISTANCE" -> <<2, 3, -1>>
      [] OTHER -> PrintsStandard(n)
PrintsPostgres(f, n) ==
    CASE f \in {"DATE_ADD", "DATE_SUB"} -> <<1, 2, -3>>
      [] f = "DATE_TRUNC" -> <<-1, 2>>
      [] f = "JSON_SET" -> <<1, -2, 3>>
      [] f = "VECTOR_DISTANCE" -> <<2, -1, 3>>
      [] OTHER -> PrintsStandard(n)
PrintsMssql(f, n) ==
    CASE f \in {"DATE_ADD", "DATE_SUB"} -> <<-3, 2, 1>>
      [] f \in {"DATE_DIFF", "INSTR"} -> <<2, 1>>
      [] f = "DATE_TRUNC" -> <<-1, 2>>
      [] f = "VECTOR_DISTANCE" -> <<-1, 2, 3>>
      [] OTHER -> PrintsStandard(n)
Prints(d, f, n) ==
    CASE d = "sqlite" -> PrintsSqlite(f, n)
      [] d = "mysql" -> PrintsMysql(f, n)
      [] d = "postgres" -> PrintsPostgres(f, n)
      [] d = "mssql" -> PrintsMssql(f, n)

Unsupported(d, f) == \/ d = "sqlite" /\ f = "JSON_CONTAINS"
                     \/ d = "mssql" /\ f \in {"JSON_LENGTH", "JSON_ARRAYAGG", "JSON_CONTAINS", "ARRAY_APPEND"}

CompileFunction(d, n, args) ==
    LET printed == Prints(d, n.val[1], Len(args))
        One(i) == IF i < 0 THEN <<"lit", n.args[-i].val[1]>> ELSE Arg(i)
    IN  IF Unsupported(d, n.val[1]) THEN Throw
        ELSE Arrange(args, <<<<"fn", n.val[1]>>, Kw("(")>>
               \o [k \in 1 .. (2 * Len(printed) - 1) |-> IF k % 2 = 1 THEN One(printed[(k + 1) \div 2]) ELSE Kw(",")]
               \o <<Kw(")")>>)

-----------------------------------------------------------------------------
(* Expressions and queries *)

(* Set operations: only the outermost query orders and limits; the common  *)
(* table expressions of the operands move to the front of the statement.   *)
RECURSIVE HasOrderedOperand(_), HoistedCtes(_), WithoutCtes(_)
HasOrderedOperand(q) ==
    \E k \in DOMAIN q.setOps : LET o == q.setOps[k].query IN
        \/ o.orderBy # <<>> \/ o.limit # <<>> \/ o.offset # <<>>
        \/ HasOrderedOperand(o)
HoistedCtes(q) ==
    FlattenSeq([k \in DOMAIN q.setOps |-> q.setOps[k].query.ctes \o HoistedCtes(q.setOps[k].query)])
WithoutCtes(q) ==
    [q EXCEPT !.setOps = [k \in DOMAIN @ |-> [@[k] EXCEPT !.query = [WithoutCtes(@) EXCEPT !.ctes = <<>>]]]]
Normalize(q) == [WithoutCtes(q) EXCEPT !.ctes = @ \o HoistedCtes(q)]

CompilePaginationMssql(q, ordered) == \* an OFFSET wants an ORDER BY
    (IF ordered THEN <<>> ELSE IF q.distinct THEN <<Kw("ORDER BY"), <<"num", 1>>>> ELSE <<Kw("ORDER BY"), Kw("(SELECT NULL)")>>)
    \o <<Kw("OFFSET"), <<"num", IF q.offset = <<>> THEN 0 ELSE q.offset[1]>>, Kw("ROWS")>>
    \o (IF q.limit = <<>> THEN <<>> ELSE <<Kw("FETCH NEXT"), <<"num", q.limit[1]>>, Kw("ROWS ONLY")>>)
CompilePagination(d, q, ordered) ==
    IF q.limit = <<>> /\ q.offset = <<>> THEN <<>>
    ELSE IF d = "mssql" THEN CompilePaginationMssql(q, ordered)
    ELSE (IF q.limit = <<>> THEN <<>> ELSE <<Kw("LIMIT"), <<"num", q.limit[1]>>>>)
         \o (IF q.offset = <<>> THEN <<>> ELSE <<Kw("OFFSET"), <<"num", q.offset[1]>>>>)

RECURSIVE Compile(_, _) \* of an expression or a statement

(* An arithmetic or bitwise operand stands in parentheses; as a condition  *)
(* of its own it does not.                                                 *)
CompileExpression(d, e) ==
    LET f == Compile(d, e) IN
    IF e.op \in {"Arithmetic", "Bitwise"} THEN [f EXCEPT !.text = SubSeq(@, 2, Len(@) - 1)] ELSE f

CompileOrdered(d, q) == IF HasOrderedOperand(q) THEN Throw ELSE Compile(d, Normalize(q))

(* The select list of an EXISTS is replaced by cutting the text at its     *)
(* first FROM; the parameters that were compiled stay.                     *)
CompileSelectForExists(d, q) ==
    LET full == CompileOrdered(d, q)
        From == CHOOSE k \in DOMAIN full.text : full.text[k] = Kw("FROM") /\ \A j \in 1 .. (k - 1) : full.text[j] # Kw("FROM")
    IN  IF Threw(full) THEN full
        ELSE IF q.setOps # <<>>
        THEN Cat(<<Words(<<Kw("SELECT"), <<"num", 1>>, Kw("FROM")>>), Paren(full), Words(<<Kw("AS"), Id("_exists")>>)>>)
        ELSE [full EXCEPT !.text = <<Kw("SELECT"), <<"num", 1>>>> \o SubSeq(@, From, Len(@))]

CompileFrom(d, s) ==
    Cat(<<IF s.query = <<>> THEN Words(<<Id(s.name)>>) ELSE Paren(CompileOrdered(d, s.query[1])),
          Words(IF s.alias = "" THEN <<>> ELSE <<Kw("AS"), Id(s.alias)>>)>>)
CompileJoins(d, joins) ==
    Cat([k \in DOMAIN joins |-> Cat(<<Words(<<Kw(joins[k].kind)>>), CompileFrom(d, joins[k].table),
                                      Words(<<Kw("ON")>>), CompileExpression(d, joins[k].condition)>>)])
CompileOrderBy(d, q) ==
    IF q.orderBy = <<>> THEN Words(<<>>)
    ELSE Cat(<<Words(<<Kw("ORDER BY")>>),
               Listed([k \in DOMAIN q.orderBy |-> Cat(<<Compile(d, q.orderBy[k].term), Words(<<Kw(q.orderBy[k].direction)>>)>>)])>>)
CompileColumns(d, cols) ==
    IF cols = <<>> THEN Words(IF d = "mssql" THEN <<>> ELSE <<Kw("*")>>)
    ELSE Listed([k \in DOMAIN cols |-> Cat(<<Compile(d, cols[k].expr),
                                             Words(IF cols[k].alias = "" THEN <<>> ELSE <<Kw("AS"), Id(cols[k].alias)>>)>>)])
CompileCtes(d, ctes) ==
    IF ctes = <<>> THEN Words(<<>>)
    ELSE Cat(<<Words(<<Kw("WITH")>>),
               Listed([k \in DOMAIN ctes |-> Cat(<<Words(<<Id(ctes[k].name), Kw("AS")>>), Paren(CompileOrdered(d, ctes[k].query))>>)])>>)

CompileCore(d, q) ==
    Cat(<<Words(IF q.distinct THEN <<Kw("SELECT"), Kw("DISTINCT")>> ELSE <<Kw("SELECT")>>),
          CompileColumns(d, q.columns), Words(<<Kw("FROM")>>), CompileFrom(d, q.from), CompileJoins(d, q.joins),
          Clause("WHERE", q.where, LAMBDA e : CompileExpression(d, e)),
          IF q.groupBy = <<>> THEN Words(<<>>)
          ELSE Cat(<<Words(<<Kw("GROUP BY")>>), Listed([k \in DOMAIN q.groupBy |-> Compile(d, q.groupBy[k])])>>),
          Clause("HAVING", q.having, LAMBDA e : CompileExpression(d, e)),
          CompileOrderBy(d, q), Words(CompilePagination(d, q, q.orderBy # <<>>))>>)

CompileSelectAst(d, q) ==
    LET base == [q EXCEPT !.setOps = <<>>, !.orderBy = <<>>, !.limit = <<>>, !.offset = <<>>]
    IN  Cat(<<CompileCtes(d, q.ctes)>> \o
            (IF q.setOps = <<>> THEN <<CompileCore(d, q)>>
             ELSE <<Paren(CompileCore(d, base)),
                    Cat([k \in DOMAIN q.setOps |-> Cat(<<Words(<<Kw(q.setOps[k].operator)>>), Paren(Compile(d, q.setOps[k].query))>>)]),
                    CompileOrderBy(d, q), Words(CompilePagination(d, q, q.orderBy # <<>>))>>))

(* Operators the dialects write in their own way *)
CompileXorSqlite(a) == \* names both operands twice
    Paren(Arrange(a, <<Kw("("), Arg(1), Kw("|"), Arg(2), Kw(")"), Kw("&"), Kw("~"), Kw("("), Arg(1), Kw("&"), Arg(2), Kw(")")>>))
XorOperator(d) == IF d = "postgres" THEN "#" ELSE "^"
CompileDistinctMysql(o, a) ==
    IF o = "IS DISTINCT" THEN Cat(<<Words(<<Kw("NOT")>>), Paren(Joined(a, "<=>"))>>) ELSE Joined(a, "<=>")

CompileOperand(d, n) ==
    LET IsCondition(i) == n.op \in {"Logical", "Not"} \/ (n.op = "Case" /\ i % 2 = 1 /\ i < Len(n.args))
        a == [i \in DOMAIN n.args |-> IF IsCondition(i) THEN CompileExpression(d, n.args[i]) ELSE Compile(d, n.args[i])]
    IN
    CASE n.op = "Literal" -> [text |-> <<<<"?", 1>>>>, params |-> n.val]
      [] n.op = "Column" -> Words(<<Id(n.val[1]), Kw("."), Id(n.val[2])>>)
      [] n.op = "AliasRef" -> Words(<<Id(n.val[1])>>)
      [] n.op = "Function" -> CompileFunction(d, n, a)
      [] n.op = "Binary" -> Joined(a, n.val[1])
      [] n.op = "Logical" -> IF a = <<>> THEN Words(<<>>)
                             ELSE Joined([i \in DOMAIN a |-> IF n.args[i].op = "Logical" THEN Paren(a[i]) ELSE a[i]], n.val[1])
      [] n.op = "Not" -> Cat(<<Words(<<Kw("NOT")>>), Paren(a[1])>>)
      [] n.op = "Null" -> Cat(<<a[1], Words(<<Kw(n.val[1])>>)>>)
      [] n.op = "In" -> Cat(<<a[1], Words(<<Kw(n.val[1])>>), Paren(Listed(Tail(a)))>>)
      [] n.op = "InQuery" -> Cat(<<a[1], Words(<<Kw(n.val[1])>>), Paren(Compile(d, n.val[2]))>>)
      [] n.op = "Exists" -> Cat(<<Words(<<Kw(n.val[1])>>), Paren(CompileSelectForExists(d, n.val[2]))>>)
      [] n.op = "Scalar" -> Paren(Compile(d, n.val[1]))
      [] n.op = "Between" -> Arrange(a, <<Arg(1), Kw(n.val[1]), Arg(2), Kw("AND"), Arg(3)>>)
      [] n.op = "IsDistinct" /\ d = "mysql" -> CompileDistinctMysql(n.val[1], a)
      [] n.op = "IsDistinct" -> Arrange(a, <<Arg(1), Kw(n.val[1]), Kw("FROM"), Arg(2)>>)
      [] n.op = "Bitwise" /\ d = "sqlite" /\ n.val[1] = "^" ->
           CompileXorSqlite(a)
      [] n.op \in {"Arithmetic", "Bitwise"} -> Paren(Joined(a, IF n.val[1] = "^" THEN XorOperator(d) ELSE n.val[1]))
      [] n.op = "Case" -> LET Branch(i) == <<Kw("WHEN"), Arg(2 * i - 1), Kw("THEN"), Arg(2 * i)>> IN
           Arrange(a, <<Kw("CASE")>> \o FlattenSeq([i \in 1 .. (Len(a) \div 2) |-> Branch(i)])
                      \o (IF Len(a) % 2 = 1 THEN <<Kw("ELSE"), Arg(Len(a))>> ELSE <<>>) \o <<Kw("END")>>)
      [] n.op = "Cast" -> Arrange(a, <<Kw("CAST"), Kw("("), Arg(1), Kw("AS"), Id(n.val[1]), Kw(")")>>)

-----------------------------------------------------------------------------
(* INSERT, UPDATE, DELETE *)

Names(cols) == Listed([k \in DOMAIN cols |-> Words(<<Id(cols[k])>>)])

CompileOutput(verb, cols) == \* SQL Server
    Cat(<<Words(<<Kw("OUTPUT")>>), Listed([k \in DOMAIN cols |-> Words(<<Id(verb), Kw("."), Id(cols[k])>>)])>>)
CompileReturningSqlite(cols) == Cat(<<Words(<<Kw("RETURNING")>>), Names(cols)>>)
CompileReturning(d, t, cols, verb) ==
    IF cols = <<>> THEN Words(<<>>)
    ELSE CASE d = "mysql" -> Throw
           [] d = "mssql" -> CompileOutput(verb, cols)
           [] d = "sqlite" -> CompileReturningSqlite(cols)
           [] d = "postgres" -> Cat(<<Words(<<Kw("RETURNING")>>), Listed([k \in DOMAIN cols |-> Words(<<Id(t), Kw("."), Id(cols[k])>>)])>>)

CompileSource(d, s) ==
    IF s.query # <<>> THEN CompileOrdered(d, s.query[1])
    ELSE IF s.rows = <<>> THEN Throw
    ELSE Cat(<<Words(<<Kw("VALUES")>>),
               Listed([r \in DOMAIN s.rows |-> Paren(Listed([c \in DOMAIN s.rows[r] |-> Compile(d, s.rows[r][c])]))])>>)

Qualifier(name) == <<Id(name), Kw(".")>>
SetTarget(d, table) == \* what stands before the columns that are set
    IF d \in {"postgres", "sqlite"} THEN <<>>
    ELSE Qualifier(IF table.alias = "" THEN table.name ELSE table.alias)
CompileAssignments(d, set, target) ==
    Listed([k \in DOMAIN set |-> Cat(<<Words(target \o <<Id(set[k].column), Kw("=")>>), Compile(d, set[k].value)>>)])

CompileUpsertMysql(d, s, c) ==
    LET own == IF c.target = <<>> THEN s.columns[1] ELSE c.target[1] IN
    IF c.set = <<>> THEN Words(<<Kw("ON DUPLICATE KEY UPDATE"), Id(own), Kw("="), Id(own)>>)
    ELSE IF c.guard # <<>> THEN Throw
    ELSE Cat(<<Words(<<Kw("ON DUPLICATE KEY UPDATE")>>), CompileAssignments(d, c.set, <<>>)>>)
CompileUpsert(d, s, c) == \* PostgreSQL and SQLite
    IF c.target = <<>> THEN Throw
    ELSE Cat(<<Words(<<Kw("ON CONFLICT")>>), Paren(Names(c.target)),
               IF c.set = <<>> THEN Words(<<Kw("DO NOTHING")>>)
               ELSE Cat(<<Words(<<Kw("DO UPDATE SET")>>), CompileAssignments(d, c.set, SetTarget(d, Table(s.into))),
                          Clause("WHERE", c.guard, LAMBDA e : CompileExpression(d, e))>>)>>)
CompileUpsertClause(d, s) ==
    IF s.conflict = <<>> THEN Words(<<>>)
    ELSE IF d = "mysql" THEN CompileUpsertMysql(d, s, s.conflict[1]) ELSE CompileUpsert(d, s, s.conflict[1])

(* SQL Server has no upsert: MERGE with the rows as its source.  The       *)
(* assignments are compiled before the guard the text puts in front.       *)
CompileMerge(d, s) ==
    LET c == s.conflict[1]
        Same(x) == Words(<<Id(s.into), Kw("."), Id(x), Kw("="), Id("src"), Kw("."), Id(x)>>)
        set == CompileAssignments(d, c.set, Qualifier(s.into))
        guard == Clause("AND", c.guard, LAMBDA e : CompileExpression(d, e))
        matched == IF c.set = <<>> THEN Words(<<>>)
                   ELSE Arrange(<<set, guard>>, <<Kw("WHEN MATCHED"), Arg(2), Kw("THEN UPDATE SET"), Arg(1)>>)
    IN  IF c.target = <<>> THEN Throw
        ELSE Cat(<<Words(<<Kw("MERGE INTO"), Id(s.into), Kw("USING")>>), Paren(CompileSource(d, s)),
                   Words(<<Kw("AS"), Id("src")>>), Paren(Names(s.columns)), Words(<<Kw("ON")>>),
                   Joined([k \in DOMAIN c.target |-> Same(c.target[k])], "AND"), matched,
                   Words(<<Kw("WHEN NOT MATCHED THEN INSERT")>>), Paren(Names(s.columns)), Words(<<Kw("VALUES")>>),
                   Paren(Listed([k \in DOMAIN s.columns |-> Words(<<Id("src"), Kw("."), Id(s.columns[k])>>)])),
                   CompileReturning(d, s.into, s.returning, "inserted")>>)

CompileInsert(d, s) ==
    LET head == Cat(<<Words(<<Kw("INSERT INTO"), Id(s.into)>>), Paren(Names(s.columns))>>)
        returning == CompileReturning(d, s.into, s.returning, "inserted")
    IN  IF s.columns = <<>> THEN Throw
        ELSE IF d = "mssql" /\ s.conflict # <<>> THEN CompileMerge(d, s)
        ELSE IF d = "mssql" THEN Cat(<<head, returning, CompileSource(d, s)>>)
        ELSE Cat(<<head, CompileSource(d, s), CompileUpsertClause(d, s), returning>>)

UpdateParts(d, s) ==
    [head |-> Cat(<<Words(<<Kw("UPDATE")>>), CompileFrom(d, s.table), Words(<<Kw("SET")>>),
                    CompileAssignments(d, s.set, SetTarget(d, s.table))>>),
     from |-> Cat(<<Clause("FROM", s.from, LAMBDA t : CompileFrom(d, t)), CompileJoins(d, s.joins)>>),
     where |-> Clause("WHERE", s.where, LAMBDA e : CompileExpression(d, e)),
     returning |-> CompileReturning(d, s.table.name, s.returning, "inserted")]
CompileUpdateMssql(p) == Cat(<<p.head, p.returning, p.from, p.where>>)
CompileUpdate(d, s) ==
    LET p == UpdateParts(d, s) IN
    IF d = "mssql" THEN CompileUpdateMssql(p)
    ELSE IF s.from = <<>> /\ s.joins # <<>> THEN Throw
    ELSE Cat(<<p.head, p.from, p.where, p.returning>>)

CompileDeleteMssql(d, s, where, returning) ==
    LET own == IF s.table.alias = "" THEN s.table.name ELSE s.table.alias IN
    IF s.from # <<>> THEN Throw
    ELSE Cat(<<Words(<<Kw("DELETE"), Id(own)>>), returning, Words(<<Kw("FROM")>>), CompileFrom(d, s.table), CompileJoins(d, s.joins), where>>)
CompileDelete(d, s) ==
    LET where == Clause("WHERE", s.where, LAMBDA e : CompileExpression(d, e))
        returning == CompileReturning(d, s.table.name, s.returning, "deleted")
    IN  IF d = "mssql" THEN CompileDeleteMssql(d, s, where, returning)
        ELSE IF s.from = <<>> /\ s.joins # <<>> THEN Throw
        ELSE Cat(<<Words(<<Kw("DELETE FROM")>>), CompileFrom(d, s.table), Clause("USING", s.from, LAMBDA t : CompileFrom(d, t)),
                   CompileJoins(d, s.joins), where, returning>>)

Compile(d, n) ==
    CASE n.op = "Select" -> CompileSelectAst(d, n)
      [] n.op = "Insert" -> CompileInsert(d, n)
      [] n.op = "Update" -> CompileUpdate(d, n)
      [] n.op = "Delete" -> CompileDelete(d, n)
      [] OTHER -> CompileOperand(d, n)
CompileStatement(d, s) == IF s.op = "Select" THEN CompileOrdered(d, s) ELSE Compile(d, s)
=============================================================================
