------------------------------ MODULE MCStatements ------------------------------
(* Two or three rows of every table, and for every kind of argument some   *)
(* values whose meaning depends on precedence, order or null.              *)
EXTENDS Statements

U(i, n) == [id |-> i, n |-> n]
O(i, u, n) == [id |-> i, user_id |-> u, n |-> n]
G(i, n) == [id |-> i, n |-> n]
P(u, g) == [user_id |-> u, tag_id |-> g]
MCDatabases ==
    {[users |-> <<U(1, 2), U(2, Null), U(3, 5)>>, orders |-> <<O(1, 1, 2), O(2, 1, 3), O(3, 3, Null)>>,
      tags |-> <<G(1, 2), G(2, 6)>>, user_tags |-> <<P(1, 1), P(1, 2), P(2, 2)>>]}

OneCall == [Insert |-> 0, Update |-> 0, Delete |-> 0, Select |-> 1]
MCMaxCalls == [Insert |-> 4, Update |-> 4, Delete |-> 4, Select |-> 2]
Num(c) == Col("users", c)
Orders == [Select("orders") EXCEPT !.columns = <<[expr |-> Col("orders", "user_id"), alias |-> ""]>>]
More(v) == [Orders EXCEPT !.where = <<Binary(">", Col("orders", "n"), Lit(v))>>]
MCConditions ==
    {AllOf(<<AnyOf(<<Eq(Num("id"), Lit(1)), IsNull("IS NULL", Num("n"))>>), Not(Eq(Num("n"), Lit(5)))>>),
     AnyOf(<<Between("NOT BETWEEN", Num("n"), Lit(1), Lit(3)), AllOf(<<Eq(Num("id"), Lit(2)), Distinct("IS NOT DISTINCT", Num("n"), Lit(Null))>>)>>),
     AnyOf(<<InQuery("IN", Num("id"), More(2)),
             AllOf(<<Exists("EXISTS", [More(4) EXCEPT !.setOps = <<[operator |-> "UNION", query |-> More(1)]>>]), Eq(Num("id"), Lit(3))>>)>>)}
MCTerms ==
    {Num("n"),
     Arithmetic("-", Num("n"), Arithmetic("-", Lit(3), Num("id"))),
     Function("DATE_DIFF", <<Num("n"), Lit(3)>>),
     Function("DATE_FORMAT", <<Num("id"), Lit(2)>>),
     Cast(Bitwise("|", Arithmetic("*", Num("id"), Lit(2)), Lit(1)), "INTEGER"),
     Case(<<Binary("<", Num("n"), Lit(3)), Lit(6)>>, Bitwise("^", Num("id"), Num("n"))),
     Scalar([Select("orders") EXCEPT !.columns = <<[expr |-> Function("COUNT", <<Col("orders", "id")>>), alias |-> "c"]>>,
                                     !.where = <<AllOf(<<Eq(Col("orders", "user_id"), Num("id")), Binary(">", Col("orders", "n"), Lit(2))>>)>>])}
Tags == [Select("tags") EXCEPT !.columns = <<[expr |-> Col("tags", "id"), alias |-> "id"], [expr |-> Col("tags", "n"), alias |-> "n"]>>]
Recent(v) == \* a query with a common table expression of its own
    [Tags EXCEPT !.from = Table("recent"), !.columns = <<[expr |-> Col("recent", "id"), alias |-> "id"], [expr |-> Col("recent", "n"), alias |-> "n"]>>,
                 !.ctes = <<[name |-> "recent", query |-> [Tags EXCEPT !.where = <<Eq(Col("tags", "id"), Lit(v))>>]]>>]
MCQueries ==
    {[Tags EXCEPT !.where = <<InList("IN", Col("tags", "n"), <<Lit(6), Lit(5)>>)>>],
     [Tags EXCEPT !.orderBy = <<[term |-> Col("tags", "n"), direction |-> "DESC"]>>, !.limit = <<1>>],
     [Tags EXCEPT !.setOps = <<[operator |-> "EXCEPT", query |-> Recent(2)]>>]}
Field(c, o, v) == [column |-> c, ops |-> <<[op |-> o, value |-> v]>>]
Rel(r, o, fields) == [relation |-> r, op |-> o, filter |-> [fields |-> fields, rels |-> <<>>]]
On(fields, rels) == [fields |-> fields, rels |-> rels]
MCFilters ==
    {On(<<[column |-> "n", ops |-> <<[op |-> "gte", value |-> 2], [op |-> "notIn", value |-> {5, 6}]>>]>>, <<>>),
     On(<<Field("id", "not", 2)>>, <<Rel("orders", "some", <<Field("n", "gt", 1)>>)>>),
     On(<<>>, <<Rel("orders", "every", <<Field("n", "gt", 1)>>)>>),
     On(<<>>, <<Rel("orders", "none", <<Field("n", "equals", 3)>>)>>),
     On(<<>>, <<Rel("tags", "some", <<Field("n", "contains", 3)>>)>>),
     On(<<>>, <<Rel("tags", "none", <<Field("n", "in", {2, 3})>>), Rel("orders", "isNotEmpty", <<>>)>>),
     On(<<>>, <<[relation |-> "orders", op |-> "some", filter |-> On(<<Field("n", "lte", 3)>>, <<Rel("users", "some", <<Field("n", "lt", 4)>>)>>)]>>)}
\* With OneCall: what "every" does with users without orders (EveryHolds).
EveryFilters == {On(<<>>, <<Rel("orders", "every", <<Field("n", "gt", 1)>>)>>)}
MCRowsets ==
    {<<<<<<"id", Lit(2)>>, <<"n", Lit(4)>>>>>>,
     <<<<<<"n", Lit(Null)>>, <<"id", Lit(4)>>>>, <<<<"id", Lit(1)>>, <<"n", Arithmetic("+", Lit(1), Lit(6))>>>>>>}
MCAssignments ==
    {<<[column |-> "n", value |-> Arithmetic("+", Num("n"), Lit(3))]>>,
     <<[column |-> "n", value |-> Num("id")], [column |-> "id", value |-> Function("COALESCE", <<Num("n"), Lit(7)>>)]>>}
=============================================================================
