--------------------------------- MODULE Engine ---------------------------------
(***************************************************************************)
(* A database that reads what the compilers write: placeholders are bound  *)
(* in the way of the driver and the tokens are parsed, with the precedence *)
(* of SQL, into a statement of the form the compilers started from.        *)
(***************************************************************************)
EXTENDS Sql

-----------------------------------------------------------------------------
(* Binding.  sqlite and mysql take the parameters in the order of the      *)
(* question marks, postgres and mssql by number; each wants exactly as     *)
(* many as the text names.                                                 *)

Placeholders(text) == SelectSeq(text, LAMBDA t : t[1] = "?")
Positional(d) == d \in {"sqlite", "mysql"}
Binds(d, f) ==
    LET named == Placeholders(f.text) IN
    IF Positional(d) THEN Len(named) = Len(f.params)
    ELSE {named[k][2] : k \in DOMAIN named} = DOMAIN f.params

Bound(d, f) ==
    LET Rank(k) == Len(Placeholders(SubSeq(f.text, 1, k)))
        Value(k) == IF Positional(d) THEN f.params[Rank(k)] ELSE f.params[f.text[k][2]]
    IN  [k \in DOMAIN f.text |-> IF f.text[k][1] = "?" THEN <<"lit", Value(k)>> ELSE f.text[k]]

-----------------------------------------------------------------------------
(* Parsing: [n, i], the node and the place after it; i = 0 after an error. *)

Tok(s, i) == IF i \in DOMAIN s THEN s[i] ELSE Kw("end")
Is(s, i, w) == Tok(s, i) = Kw(w)
At(n, i) == [n |-> n, i |-> i]
Error == At(Lit(Null), 0)
Expect(s, r, w) == IF Is(s, r.i, w) THEN [r EXCEPT !.i = @ + 1] ELSE Error
ExpectAt(s, i, w) == IF Is(s, i, w) THEN i + 1 ELSE 0

Power(w) ==
    CASE w = "OR" -> 1
      [] w = "AND" -> 2
      [] w \in {"=", "!=", "<", "<=", ">", ">=", "LIKE", "<=>", "IN", "NOT IN", "BETWEEN", "NOT BETWEEN",
                "IS NULL", "IS NOT NULL", "IS DISTINCT", "IS NOT DISTINCT"} -> 4
      [] w \in {"|", "&", "^", "#"} -> 5
      [] w \in {"+", "-"} -> 6
      [] w \in {"*", "/"} -> 7
      [] OTHER -> 0

Infix(w, l, r) ==
    CASE w = "OR" -> AnyOf(<<l, r>>)
      [] w = "AND" -> AllOf(<<l, r>>)
      [] w = "<=>" -> Distinct("IS NOT DISTINCT", l, r)
      [] w = "#" -> Bitwise("^", l, r)
      [] w \in {"|", "&", "^"} -> Bitwise(w, l, r)
      [] w \in {"+", "-", "*", "/"} -> Arithmetic(w, l, r)
      [] OTHER -> Binary(w, l, r)

(* One rule of the grammar, from the place i; x is the binding power an    *)
(* infix must exceed, and the i of "tail" is the operand with its place.    *)
RECURSIVE Rule(_, _, _, _)
ParseExpr(s, i, min) == Rule("expr", s, i, min)
ParseItems(s, i) == Rule("items", s, i, 0)
ParseQuery(s, i) == Rule("query", s, i, 0)

(* An item of a list: an expression with its alias or direction. *)
ParseItem(s, i) ==
    LET e == ParseExpr(s, i, 0) IN
    CASE e.i = 0 -> Error
      [] Is(s, e.i, "AS") -> At([expr |-> e.n, alias |-> Tok(s, e.i + 1)[2]], e.i + 2)
      [] Is(s, e.i, "ASC") -> At([expr |-> e.n, alias |-> "ASC"], e.i + 1)
      [] Is(s, e.i, "DESC") -> At([expr |-> e.n, alias |-> "DESC"], e.i + 1)
      [] OTHER -> At([expr |-> e.n, alias |-> ""], e.i)
ItemsRule(s, i) ==
    LET one == ParseItem(s, i) IN
    IF one.i = 0 THEN [n |-> <<>>, i |-> 0]
    ELSE IF Is(s, one.i, ",")
    THEN LET more == ParseItems(s, one.i + 1) IN [n |-> <<one.n>> \o more.n, i |-> more.i]
    ELSE [n |-> <<one.n>>, i |-> one.i]
Exprs(items) == [k \in DOMAIN items |-> items[k].expr]

StartsQuery(s, i) == Is(s, i, "SELECT") \/ Is(s, i, "WITH")
ParseGroup(s, i) == \* after an opening parenthesis: a query, one expression or a row
    IF StartsQuery(s, i) \/ (Is(s, i, "(") /\ StartsQuery(s, i + 1))
    THEN LET q == ParseQuery(s, i) IN Expect(s, At(Scalar(q.n), q.i), ")")
    ELSE LET es == ParseItems(s, i) IN
         Expect(s, At(IF Len(es.n) = 1 THEN es.n[1].expr ELSE Node("Row", <<>>, Exprs(es.n)), es.i), ")")

BranchesRule(s, i) ==
    IF Is(s, i, "WHEN")
    THEN LET w == ParseExpr(s, i + 1, 0)
             t == ParseExpr(s, ExpectAt(s, w.i, "THEN"), 0)
             more == Rule("branches", s, t.i, 0)
         IN  [n |-> <<w.n, t.n>> \o more.n, i |-> more.i]
    ELSE IF Is(s, i, "ELSE")
    THEN LET e == ParseExpr(s, i + 1, 0) IN [n |-> <<e.n>>, i |-> ExpectAt(s, e.i, "END")]
    ELSE [n |-> <<>>, i |-> ExpectAt(s, i, "END")]

PrimaryRule(s, i) ==
    LET t == Tok(s, i) IN
    CASE t[1] \in {"lit", "num"} -> At(Lit(t[2]), i + 1)
      [] t[1] = "id" -> IF Is(s, i + 1, ".") /\ Tok(s, i + 2)[1] = "id" THEN At(Col(t[2], Tok(s, i + 2)[2]), i + 3)
                        ELSE At(AliasRef(t[2]), i + 1)
      [] t[1] = "fn" -> LET es == ParseItems(s, ExpectAt(s, i + 1, "(")) IN
                        Expect(s, At(Function(t[2], Exprs(es.n)), es.i), ")")
      [] t = Kw("(") -> ParseGroup(s, i + 1)
      [] t = Kw("(SELECT NULL)") -> At(Lit(Null), i + 1)
      [] t = Kw("NOT") -> LET e == ParseExpr(s, i + 1, 3) IN At(Not(e.n), e.i)
      [] t = Kw("~") -> LET e == Rule("primary", s, i + 1, 0) IN At(Node("Flip", <<>>, <<e.n>>), e.i)
      [] t \in {Kw("EXISTS"), Kw("NOT EXISTS")} ->
           LET q == ParseQuery(s, ExpectAt(s, i + 1, "(")) IN Expect(s, At(Exists(t[2], q.n), q.i), ")")
      [] t = Kw("CASE") -> LET b == Rule("branches", s, i + 1, 0) IN At(Node("Case", <<>>, b.n), b.i)
      [] t = Kw("CAST") -> LET e == ParseExpr(s, ExpectAt(s, i + 1, "("), 0)
                               a == ExpectAt(s, e.i, "AS")
                           IN  IF a = 0 THEN Error ELSE Expect(s, At(Cast(e.n, Tok(s, a)[2]), a + 1), ")")
      [] OTHER -> Error

TailRule(s, l, min) ==
    LET w == IF Tok(s, l.i)[1] = "kw" THEN Tok(s, l.i)[2] ELSE "end"
        p == Power(w)
    IN  IF p = 0 \/ p <= min THEN l
        ELSE LET next ==
                 CASE w \in {"IS NULL", "IS NOT NULL"} -> At(IsNull(w, l.n), l.i + 1)
                   [] w \in {"IN", "NOT IN"} ->
                        (LET g == ParseGroup(s, ExpectAt(s, l.i + 1, "(")) IN
                         At(CASE g.n.op = "Scalar" -> InQuery(w, l.n, g.n.val[1])
                              [] g.n.op = "Row" -> InList(w, l.n, g.n.args)
                              [] OTHER -> InList(w, l.n, <<g.n>>), g.i))
                   [] w \in {"BETWEEN", "NOT BETWEEN"} ->
                        (LET a == ParseExpr(s, l.i + 1, 4)
                             b == ParseExpr(s, ExpectAt(s, a.i, "AND"), 4)
                         IN  At(Between(w, l.n, a.n, b.n), b.i))
                   [] w \in {"IS DISTINCT", "IS NOT DISTINCT"} ->
                        (LET r == ParseExpr(s, ExpectAt(s, l.i + 1, "FROM"), 4) IN At(Distinct(w, l.n, r.n), r.i))
                   [] OTHER -> (LET r == ParseExpr(s, l.i + 1, p) IN At(Infix(w, l.n, r.n), r.i))
             IN  IF next.i = 0 THEN Error ELSE Rule("tail", s, next, min)

OptExpr(s, i, w) ==
    IF Is(s, i, w) THEN LET e == ParseExpr(s, i + 1, 0) IN [n |-> <<e.n>>, i |-> e.i] ELSE [n |-> <<>>, i |-> i]
OptItems(s, i, w) == IF Is(s, i, w) THEN ParseItems(s, i + 1) ELSE [n |-> <<>>, i |-> i]
OptNum(s, i, w) == IF Is(s, i, w) THEN [n |-> <<Tok(s, i + 1)[2]>>, i |-> i + 2] ELSE [n |-> <<>>, i |-> i]
OptWord(s, i, w) == IF Is(s, i, w) THEN i + 1 ELSE i
OptTable(s, i, w, Source(_, _)) ==
    IF Is(s, i, w) THEN LET t == Source(s, i + 1) IN [n |-> <<t.n>>, i |-> t.i] ELSE [n |-> <<>>, i |-> i]

ParseSource(s, i) ==
    LET q == IF Is(s, i, "(") THEN ParseQuery(s, i + 1) ELSE [n |-> <<>>, i |-> 0]
        base == IF Is(s, i, "(") THEN At([name |-> "", alias |-> "", query |-> <<q.n>>], ExpectAt(s, q.i, ")"))
                ELSE IF Tok(s, i)[1] = "id" THEN At(Table(s[i][2]), i + 1) ELSE Error
    IN  IF base.i # 0 /\ Is(s, base.i, "AS") THEN At([base.n EXCEPT !.alias = Tok(s, base.i + 1)[2]], base.i + 2) ELSE base

JoinsRule(s, i) ==
    IF Tok(s, i) \in {Kw("INNER JOIN"), Kw("LEFT JOIN")}
    THEN LET t == ParseSource(s, i + 1)
             c == ParseExpr(s, ExpectAt(s, t.i, "ON"), 0)
             more == Rule("joins", s, c.i, 0)
         IN  [n |-> <<[kind |-> s[i][2], table |-> t.n, condition |-> c.n]>> \o more.n, i |-> more.i]
    ELSE [n |-> <<>>, i |-> i]

Ordering(items) == [k \in DOMAIN items |-> [term |-> items[k].expr, direction |-> items[k].alias]]
Ordered(s, q, i) == \* ORDER BY and one of the two forms of pagination
    LET o == OptItems(s, i, "ORDER BY")
        l == OptNum(s, o.i, "LIMIT")
        f == OptNum(s, l.i, "OFFSET")
        n == OptNum(s, OptWord(s, f.i, "ROWS"), "FETCH NEXT")
    IN  At([q EXCEPT !.orderBy = Ordering(o.n), !.limit = l.n \o n.n, !.offset = f.n], OptWord(s, n.i, "ROWS ONLY"))

ParseCore(s, i) ==
    LET d == OptWord(s, ExpectAt(s, i, "SELECT"), "DISTINCT")
        c == IF Is(s, d, "*") THEN [n |-> <<>>, i |-> d + 1] ELSE ParseItems(s, d)
        t == ParseSource(s, ExpectAt(s, c.i, "FROM"))
        j == Rule("joins", s, t.i, 0)
        w == OptExpr(s, j.i, "WHERE")
        g == OptItems(s, w.i, "GROUP BY")
        h == OptExpr(s, g.i, "HAVING")
    IN  IF t.i = 0 THEN At(Select(""), 0)
        ELSE Ordered(s, [Select("") EXCEPT !.distinct = d > i + 1, !.columns = c.n, !.from = t.n, !.joins = j.n,
                            !.where = w.n, !.groupBy = Exprs(g.n), !.having = h.n], h.i)

SetOperators == {Kw("UNION"), Kw("UNION ALL"), Kw("INTERSECT"), Kw("EXCEPT")}
OperandsRule(s, i) ==
    IF Tok(s, i) \in SetOperators
    THEN LET q == ParseQuery(s, ExpectAt(s, i + 1, "("))
             more == Rule("operands", s, ExpectAt(s, q.i, ")"), 0)
         IN  [n |-> <<[operator |-> s[i][2], query |-> q.n]>> \o more.n, i |-> more.i]
    ELSE [n |-> <<>>, i |-> i]
CtesRule(s, i) ==
    LET q == ParseQuery(s, ExpectAt(s, ExpectAt(s, i + 1, "AS"), "("))
        e == ExpectAt(s, q.i, ")")
        one == <<[name |-> Tok(s, i)[2], query |-> q.n]>>
    IN  IF Is(s, e, ",") THEN LET more == Rule("ctes", s, e + 1, 0) IN [n |-> one \o more.n, i |-> more.i]
        ELSE [n |-> one, i |-> e]
QueryRule(s, i) ==
    LET w == IF Is(s, i, "WITH") THEN Rule("ctes", s, i + 1, 0) ELSE [n |-> <<>>, i |-> i]
        q == ParseCore(s, IF Is(s, w.i, "(") THEN w.i + 1 ELSE w.i)
        more == Rule("operands", s, ExpectAt(s, q.i, ")"), 0)
        r == IF Is(s, w.i, "(") THEN Ordered(s, [q.n EXCEPT !.setOps = more.n], more.i) ELSE q
    IN  [r EXCEPT !.n.ctes = w.n]

-----------------------------------------------------------------------------
(* Statements that write *)

IdOf(e) == IF e.op = "Column" THEN e.val[2] ELSE e.val[1]
Idents(es) == [k \in DOMAIN es |-> IdOf(es[k])]
ParseIdents(s, i) == \* ( a, b )
    LET g == ParseGroup(s, ExpectAt(s, i, "(")) IN
    [n |-> Idents(IF g.n.op = "Row" THEN g.n.args ELSE <<g.n>>), i |-> g.i]
OptIdents(s, i, w) == LET es == OptItems(s, i, w) IN [n |-> Idents(Exprs(es.n)), i |-> es.i]
ParseAssignments(s, i) ==
    LET es == ParseItems(s, i) IN
    [n |-> [k \in DOMAIN es.n |-> [column |-> IdOf(es.n[k].expr.args[1]), value |-> es.n[k].expr.args[2]]], i |-> es.i]

Rows(es) == [k \in DOMAIN es |-> IF es[k].op = "Row" THEN es[k].args ELSE <<es[k]>>]
ParseValues(s, i) == \* [n |-> [rows, query], i]
    IF Is(s, i, "VALUES")
    THEN LET es == ParseItems(s, i + 1) IN At([rows |-> Rows(Exprs(es.n)), query |-> <<>>], es.i)
    ELSE LET q == ParseQuery(s, i) IN At([rows |-> <<>>, query |-> <<q.n>>], q.i)

Upsert(target, set, guard) == <<[target |-> target, set |-> set, guard |-> guard]>>
ParseConflict(s, i) ==
    IF Is(s, i, "ON DUPLICATE KEY UPDATE")
    THEN LET a == ParseAssignments(s, i + 1)
             none == Len(a.n) = 1 /\ a.n[1].value = AliasRef(a.n[1].column) \* c = c changes nothing
         IN  [n |-> Upsert(<<>>, IF none THEN <<>> ELSE a.n, <<>>), i |-> a.i]
    ELSE IF Is(s, i, "ON CONFLICT")
    THEN LET t == ParseIdents(s, i + 1)
             a == ParseAssignments(s, ExpectAt(s, t.i, "DO UPDATE SET"))
             g == OptExpr(s, a.i, "WHERE")
         IN  IF Is(s, t.i, "DO NOTHING") THEN [n |-> Upsert(t.n, <<>>, <<>>), i |-> t.i + 1]
             ELSE [n |-> Upsert(t.n, a.n, g.n), i |-> g.i]
    ELSE [n |-> <<>>, i |-> i]

ParseInsert(s) ==
    LET c == ParseIdents(s, 3)
        o == OptIdents(s, c.i, "OUTPUT")
        v == ParseValues(s, o.i)
        u == ParseConflict(s, v.i)
        r == OptIdents(s, u.i, "RETURNING")
    IN  At([op |-> "Insert", into |-> Tok(s, 2)[2], columns |-> c.n, rows |-> v.n.rows, query |-> v.n.query,
            conflict |-> u.n, returning |-> o.n \o r.n], r.i)
ParseMerge(s) ==
    LET v == ParseValues(s, ExpectAt(s, 4, "("))
        c == ParseIdents(s, ExpectAt(s, ExpectAt(s, v.i, ")"), "AS") + 1)
        on == ParseExpr(s, ExpectAt(s, c.i, "ON"), 0)
        Conjuncts(e) == IF e.op = "Logical" THEN e.args ELSE <<e>>
        m == IF Is(s, on.i, "WHEN MATCHED") THEN OptExpr(s, on.i + 1, "AND") ELSE [n |-> <<>>, i |-> on.i]
        a == IF Is(s, on.i, "WHEN MATCHED") THEN ParseAssignments(s, ExpectAt(s, m.i, "THEN UPDATE SET")) ELSE m
        n == ParseIdents(s, ExpectAt(s, a.i, "WHEN NOT MATCHED THEN INSERT"))
        w == ParseIdents(s, ExpectAt(s, n.i, "VALUES"))
        o == OptIdents(s, w.i, "OUTPUT")
    IN  IF w.n # n.n \/ n.n # c.n THEN Error
        ELSE At([op |-> "Insert", into |-> Tok(s, 2)[2], columns |-> c.n, rows |-> v.n.rows, query |-> v.n.query,
                 conflict |-> Upsert([k \in DOMAIN Conjuncts(on.n) |-> IdOf(Conjuncts(on.n)[k].args[1])], a.n, m.n),
                 returning |-> o.n], o.i)
ParseUpdate(s) ==
    LET t == ParseSource(s, 2)
        a == ParseAssignments(s, ExpectAt(s, t.i, "SET"))
        o == OptIdents(s, a.i, "OUTPUT")
        f == OptTable(s, o.i, "FROM", ParseSource)
        j == Rule("joins", s, f.i, 0)
        w == OptExpr(s, j.i, "WHERE")
        r == OptIdents(s, w.i, "RETURNING")
    IN  At([op |-> "Update", table |-> t.n, set |-> a.n, from |-> f.n, joins |-> j.n, where |-> w.n,
            returning |-> o.n \o r.n], r.i)
ParseDelete(s) ==
    LET o == OptIdents(s, IF Is(s, 1, "DELETE") THEN 3 ELSE 1, "OUTPUT")
        t == ParseSource(s, IF Is(s, 1, "DELETE") THEN ExpectAt(s, o.i, "FROM") ELSE 2)
        f == OptTable(s, t.i, "USING", ParseSource)
        j == Rule("joins", s, f.i, 0)
        w == OptExpr(s, j.i, "WHERE")
        r == OptIdents(s, w.i, "RETURNING")
    IN  At([op |-> "Delete", table |-> t.n, from |-> f.n, joins |-> j.n, where |-> w.n, returning |-> o.n \o r.n], r.i)

Rule(r, s, i, x) ==
    CASE r = "expr" -> (LET p == Rule("primary", s, i, 0) IN IF p.i = 0 THEN Error ELSE Rule("tail", s, p, x))
      [] r = "primary" -> PrimaryRule(s, i)
      [] r = "tail" -> TailRule(s, i, x)
      [] r = "items" -> ItemsRule(s, i)
      [] r = "branches" -> BranchesRule(s, i)
      [] r = "joins" -> JoinsRule(s, i)
      [] r = "operands" -> OperandsRule(s, i)
      [] r = "ctes" -> CtesRule(s, i)
      [] r = "query" -> QueryRule(s, i)
      [] r = "statement" ->
           CASE Is(s, i, "INSERT INTO") -> ParseInsert(s)
             [] Is(s, i, "MERGE INTO") -> ParseMerge(s)
             [] Is(s, i, "UPDATE") -> ParseUpdate(s)
             [] Tok(s, i) \in {Kw("DELETE"), Kw("DELETE FROM")} -> ParseDelete(s)
             [] OTHER -> QueryRule(s, i)

Parse(s) ==
    LET r == Rule("statement", s, 1, 0) IN
    IF r.i = Len(s) + 1 THEN <<r.n>> ELSE <<>>
=============================================================================
