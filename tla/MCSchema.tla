------------------------------ MODULE MCSchema ------------------------------
(* For every dialect: two processes that add to a schema, two that also    *)
(* drop from it, one that changes what is there, and one with every type.  *)
EXTENDS SchemaSync

Plain == [name |-> "", type |-> "int", args |-> <<>>, dialectType |-> "", primary |-> FALSE, notNull |-> FALSE, unique |-> FALSE,
          check |-> FALSE, default |-> NoDefault, autoIncrement |-> FALSE, references |-> NoReference]
Column(name, type) == [Plain EXCEPT !.name = name, !.type = type]
Table(dialect, name, columns, indexes) ==
    [schema |-> DefaultSchema[dialect], name |-> name, columns |-> columns, primaryKey |-> <<>>, indexes |-> indexes]
Index(columns) == [name |-> "", columns |-> columns, unique |-> FALSE]

Id(dialect) == [Column("id", "int") EXCEPT !.primary = TRUE, !.notNull = TRUE, !.autoIncrement = dialect # "postgres"]
Name == [Column("name", "varchar") EXCEPT !.args = <<20>>]
Rank == [Column("rank", "int") EXCEPT !.notNull = TRUE, !.default = <<"number", "1">>]
To(schema, name, deferrable) ==
    [NoReference EXCEPT !.table = <<schema, "user">>, !.column = "id", !.name = name, !.onDelete = "CASCADE", !.deferrable = deferrable]
Owner(ref) == [Column("owner_id", "int") EXCEPT !.references = ref]
Qualified(dialect) == Owner(To(DefaultSchema[dialect], "fk_owner", dialect \in {"sqlite", "postgres"}))

User(dialect, more, indexes) == Table(dialect, "user", <<Id(dialect), Name>> \o more, indexes)
Tag(dialect, more, indexes) == Table(dialect, "tag", <<Id(dialect)>> \o more, indexes)
MCNameOrder == <<"tag", "user">>

Growing(dialect) ==
    [dialect |-> dialect, destructive |-> FALSE, active |-> {"p", "q"}, generate |-> "listed",
     releases |-> << <<User(dialect, <<>>, <<Index(<<"name">>)>>)>>,
                     <<User(dialect, <<Rank>>, <<Index(<<"name">>), [Index(<<"rank">>) EXCEPT !.name = "by_rank"]>>),
                       Tag(dialect, <<Qualified(dialect)>>, <<>>)>> >>]
Shrinking(dialect) ==
    [dialect |-> dialect, destructive |-> TRUE, active |-> {"p", "q"}, generate |-> "listed",
     releases |-> << <<User(dialect, <<Column("age", "int")>>, <<Index(<<"name">>)>>), Tag(dialect, <<Qualified(dialect)>>, <<>>)>>,
                     <<User(dialect, <<>>, <<>>)>> >>]
Listed(dialect) ==
    [dialect |-> dialect, destructive |-> TRUE, active |-> {"p"}, generate |-> "reversed",
     releases |-> << <<User(dialect, <<>>, <<>>), Tag(dialect, <<Owner(To("", "", FALSE))>>, <<[Index(<<"owner_id">>) EXCEPT !.unique = TRUE]>>)>> >>]
Changing(dialect) ==
    [dialect |-> dialect, destructive |-> FALSE, active |-> {"p"}, generate |-> "listed",
     releases |-> << <<User(dialect, <<[Rank EXCEPT !.check = dialect # "mssql"]>>, <<>>),
                       Tag(dialect, <<Qualified(dialect), [Column("flag", "boolean") EXCEPT !.default = <<"boolean", "TRUE">>]>>, <<>>)>>,
                     <<User(dialect, <<[Rank EXCEPT !.check = dialect # "mssql", !.notNull = FALSE, !.default = <<"number", "2">>]>>, <<>>),
                       Tag(dialect, <<Owner(To("", "fk_owner", FALSE)), Column("flag", "boolean"),
                                      [Column("label", "varchar") EXCEPT !.default = <<"string", "x">>]>>, <<>>)>>,
                     <<User(dialect, <<[Rank EXCEPT !.check = dialect # "mssql", !.type = IF dialect = "mssql" THEN "int" ELSE "bigint"]>>, <<>>),
                       Tag(dialect, <<Owner([To("", "fk_owner", FALSE) EXCEPT !.onDelete = ""]), Column("flag", IF dialect = "mssql" THEN "boolean" ELSE "text"),
                                      [Column("label", "varchar") EXCEPT !.default = <<"null", "NULL">>]>>, <<>>)>> >>]

Types ==
    <<"int", "integer", "bigint", "varchar", "text", "json", "uuid", "boolean", "decimal", "float", "double", "timestamptz", "timestamp",
      "datetime", "date", "enum", "binary", "varbinary", "blob", "vector", "halfvec">>
Typed(dialect) == \* then every column of the next type the database can make of it
    LET n == Len(Types)
        Column5(i, k) == [Column(Types[i], Types[((i + k - 1) % n) + 1]) EXCEPT !.args = <<5>>]
        Made(i, k) == Converts(dialect, RenderColumnType(dialect, Column(Types[i], Types[i])), RenderColumnType(dialect, Column5(i, k)))
        Steps(i) == {k \in 1 .. n : dialect = "sqlite" \/ Made(i, k)}
        Changed(i) == IF Steps(i) = {} THEN Column(Types[i], Types[i]) ELSE Column5(i, Min(Steps(i)))
    IN [dialect |-> dialect, destructive |-> FALSE, active |-> {"p"}, generate |-> "listed",
        releases |-> << <<Table(dialect, "user", [i \in 1 .. n |-> Column(Types[i], Types[i])], <<>>)>>,
                        <<Table(dialect, "user", [i \in 1 .. n |-> Changed(i)], <<>>)>> >>]

(* A table that refers to itself, with and without the name of its schema. *)
Parent(name, schema) == [Column(name, "int") EXCEPT !.references = To(schema, "", FALSE)]
Nesting(dialect, generate) ==
    [dialect |-> dialect, destructive |-> TRUE, active |-> {"p"}, generate |-> generate,
     releases |-> << <<User(dialect, <<Parent("parent_id", "")>>, <<>>)>>,
                     <<User(dialect, <<Parent("parent_id", ""), Parent("root_id", DefaultSchema[dialect])>>, <<>>),
                       Tag(dialect, <<Qualified(dialect)>>, <<>>)>> >>]

MCSetups == UNION {{Growing(d), Shrinking(d), Listed(d), Changing(d), Typed(d), Nesting(d, "no")} : d \in Dialects}
(* What generateSchemaSql() does not put in order (EmittedInOrder).       *)
SelfSetups == {Nesting(d, "listed") : d \in Dialects}
QualifiedSetups == {[Listed(d) EXCEPT !.releases[1][2].columns[2] = Qualified(d)] : d \in {"mysql", "postgres", "mssql"}}
=============================================================================
