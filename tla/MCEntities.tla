----------------------------- MODULE MCEntities -----------------------------
(* For every dialect: databases with every kind of relation, whose classes  *)
(* are loaded in order, and small ones whose classes are loaded in any and  *)
(* whose tables are published.                                             *)
EXTENDS OpenApi

MCSingular(name) ==
    CASE name = "users" -> "user" [] name = "posts" -> "post" [] name = "profiles" -> "profile" [] name = "tags" -> "tag" [] OTHER -> name
MCPlural(name) == name \o "s"
MCCamel(name) ==
    CASE name = "owner_id" -> "ownerId" [] name = "parent_id" -> "parentId" [] name = "user_id" -> "userId" [] name = "tag_id" -> "tagId" [] OTHER -> name
MCStem(name) ==
    CASE name = "id" -> "" [] name = "owner_id" -> "owner" [] name = "parent_id" -> "parent" [] name = "user_id" -> "user" [] name = "tag_id" -> "tag" [] OTHER -> name
MCWithS(name) == name \o "s"
MCHints(name) ==
    CASE name = "parent_id" -> {"parent"} [] name = "lft" -> {"left"} [] name = "rght" -> {"right"} [] name = "depth" -> {"depth"} [] name = "tenant" -> {"scope"} [] OTHER -> {}
MCNameOrder == <<"membership", "posts", "profiles", "tags", "users">>

Column(name, type) ==
    [name |-> name, type |-> type, args |-> <<>>, dialectType |-> "", primary |-> FALSE, notNull |-> FALSE, unique |-> FALSE, check |-> FALSE,
     default |-> NoDefault, autoIncrement |-> FALSE, references |-> NoReference]
Primary(c) == [c EXCEPT !.primary = TRUE, !.notNull = TRUE]
To(name, table) == [Column(name, "int") EXCEPT !.references = [NoReference EXCEPT !.table = <<"", table>>, !.column = "id", !.onDelete = "CASCADE"]]
Id(dialect) == [Primary(Column("id", "int")) EXCEPT !.autoIncrement = dialect # "postgres"]
Table(name, columns) == [schema |-> "", name |-> name, columns |-> columns, primaryKey |-> <<>>, indexes |-> <<>>]

(* What a dialect stores for tables, with the references that MySQL takes   *)
(* from constraints of the table only.                                      *)
Database(dialect, built) ==
    LET Stored(t) == StoredTable(dialect, GenerateCreateTableSql(dialect, t)[1])
        Referenced(t, c) == IF c.references = NoReference THEN NoReference ELSE [c.references EXCEPT !.table = Resolve(dialect, @)]
    IN [i \in DOMAIN built |->
            [Stored(built[i]) EXCEPT !.columns = [j \in DOMAIN @ |-> [@[j] EXCEPT !.references = Referenced(built[i], built[i].columns[j])]]]]

Types == [sqlite |-> <<"int", "text", "float", "blob">>,
          mysql |-> <<"int", "bigint", "varchar", "text", "json", "datetime", "date", "decimal", "float", "blob">>,
          postgres |-> <<"int", "bigint", "text", "uuid", "json", "boolean", "date", "double", "blob">>,
          mssql |-> <<"int", "bigint", "uuid", "boolean", "text", "decimal", "float", "datetime", "date", "varchar", "blob">>]
Defaults(dialect) ==
    <<[Column("rank", "int") EXCEPT !.default = <<"number", "1">>, !.notNull = TRUE]>>
    \o When(dialect \in {"sqlite", "mssql"}, <<[Column("label", "text") EXCEPT !.default = <<"string", "x">>]>>)
Payload(dialect) == [i \in DOMAIN Types[dialect] |-> Column(Types[dialect][i], Types[dialect][i])] \o Defaults(dialect)

Users(dialect, more) == Table("users", <<Id(dialect)>> \o more)
Bounds == <<Column("lft", "int"), Column("rght", "int")>>
Scoped == <<Column("depth", "int"), Column("tenant", "int")>>
Hierarchies == {<<>>, <<To("parent_id", "users")>>, <<To("parent_id", "users")>> \o Bounds, <<To("parent_id", "users")>> \o Bounds \o Scoped}
Posts(dialect, keys) == Table("posts", <<Id(dialect)>> \o keys)
Authors == {<<To("owner_id", "users")>>, <<To("author", "users")>>, <<To("owner_id", "users"), To("author", "users")>>}
Profiles(dialect) == {<<[To("user_id", "users") EXCEPT !.unique = TRUE], Id(dialect)>>, <<Primary(To("id", "users"))>>}
Tags(dialect) == Table("tags", <<Id(dialect)>> \o Payload(dialect))
Membership(more) == Table("membership", <<Primary(To("user_id", "users")), Primary(To("tag_id", "tags"))>> \o more)

Blogs(dialect) ==
    {<<Tags(dialect), Users(dialect, h), Posts(dialect, a), Table("profiles", p), Membership(<<>>)>> :
        h \in Hierarchies, a \in Authors, p \in Profiles(dialect)}
Smalls(dialect) == {<<Users(dialect, h), Posts(dialect, <<To("owner_id", "users")>>)>> : h \in Hierarchies}
Pivots(dialect) == {<<Tags(dialect), Users(dialect, <<>>), Membership(<<Column("note", "text")>>)>>}

MCCapital(name) ==
    CASE name = "owner" -> "Owner" [] name = "posts" -> "Posts" [] name = "users" -> "Users" [] name = "extra" -> "Extra" [] OTHER -> name

Setup(d, b) == [dialect |-> d, db |-> Database(d, b), late |-> FALSE, treeFirst |-> FALSE, documents |-> 0]
Late(d, b, treeFirst) ==
    [Setup(d, b) EXCEPT !.late = TRUE, !.treeFirst = treeFirst, !.documents = IF d = "mysql" /\ treeFirst /\ Len(b[1].columns) = 1 THEN 2 ELSE 0]

MCSetups ==
    UNION {{Setup(d, b) : b \in Blogs(d)} \cup {Late(d, b, f) : b \in Smalls(d) \cup Pivots(d), f \in BOOLEAN} : d \in Dialects}
=============================================================================
