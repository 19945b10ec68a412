-------------------------------- MODULE Ddl --------------------------------
(***************************************************************************)
(* Table definitions, the statements the four schema dialects render for   *)
(* them, and the plan that takes a database to a list of definitions       *)
(* (src/core/ddl).                                                         *)
(*                                                                         *)
(* A statement is a record of what its text says: op, the table and the    *)
(* attributes it gives.  A SQL type is <<name, arguments>>, its name in    *)
(* the lower case every comparison of types uses.  A key is a pair         *)
(* <<schema, table>>, with "" for a table without schema; "" is also the   *)
(* missing name of a constraint or an action.                              *)
(***************************************************************************)
EXTENDS Integers, FiniteSets, SequencesExt

Dialects == {"sqlite", "mysql", "postgres", "mssql"}

MaxLength == -1         \* the argument of NVARCHAR(MAX)
NoKey == <<"", "">>
NoReference == [table |-> NoKey, column |-> "", name |-> "", onDelete |-> "", onUpdate |-> "", deferrable |-> FALSE]
NoDefault == <<"none", "">>

When(condition, s) == IF condition THEN s ELSE <<>>

Key(t) == <<t.schema, t.name>>
Names(columns) == [i \in DOMAIN columns |-> columns[i].name]
Named(columns, name) == columns[CHOOSE i \in DOMAIN columns : columns[i].name = name]

(***************************************************************************)
(* The columns of the primary key: those of the table, else the columns    *)
(* marked primary.                                                         *)
(***************************************************************************)
ResolvePrimaryKey(t) ==
    IF t.primaryKey # <<>> THEN t.primaryKey ELSE Names(SelectSeq(t.columns, LAMBDA c : c.primary))

DeriveIndexName(t, index) == <<IF index.unique THEN "uniq" ELSE "idx", t.name, index.columns>>
IndexName(t, index) == IF index.name # "" THEN <<"named", index.name, <<>>>> ELSE DeriveIndexName(t, index)

-----------------------------------------------------------------------------
(***************************************************************************)
(* Column types.  A type outside the standard list is passed on as it is.  *)
(***************************************************************************)
Or(args, default) == IF args # <<>> THEN args ELSE default
Scaled(args) == IF Len(args) = 1 THEN Append(args, 0) ELSE args

SqliteType(type, args) ==
    CASE type \in {"int", "integer", "bigint", "boolean"} -> <<"integer", <<>>>>
      [] type \in {"decimal", "float", "double"} -> <<"real", <<>>>>
      [] type \in {"binary", "varbinary", "blob", "bytea"} -> <<"blob", <<>>>>
      [] type = "halfvec" -> <<"float16[]", Or(args, <<3>>)>>
      [] type = "vector" -> <<"float32[]", Or(args, <<3>>)>>
      [] OTHER -> <<"text", <<>>>>

MysqlType(type, args) ==
    CASE type = "integer" -> <<"int", <<>>>>
      [] type = "uuid" -> <<"char", <<36>>>>
      [] type = "boolean" -> <<"tinyint", <<1>>>>
      [] type \in {"timestamptz", "timestamp"} -> <<"timestamp", <<>>>>
      [] type \in {"int", "bigint", "json", "double", "datetime", "date", "text", "blob"} -> <<type, <<>>>>
      [] type \in {"varchar", "binary", "varbinary"} -> <<type, Or(args, <<255>>)>>
      [] type \in {"vector", "halfvec"} -> <<"vector", Or(args, <<3>>)>>
      [] type = "decimal" -> <<"decimal", Scaled(args)>>
      [] OTHER -> <<type, args>>

PostgresType(type, args) ==
    CASE type \in {"int", "integer"} -> <<"integer", <<>>>>
      [] type = "json" -> <<"jsonb", <<>>>>
      [] type = "decimal" -> <<"numeric", Scaled(args)>>
      [] type \in {"float", "double"} -> <<"double precision", <<>>>>
      [] type = "datetime" -> <<"timestamp", <<>>>>
      [] type \in {"bigint", "uuid", "boolean", "timestamptz", "timestamp", "date", "text"} -> <<type, <<>>>>
      [] type = "enum" -> <<"text", <<>>>>
      [] type \in {"binary", "varbinary", "blob"} -> <<"bytea", <<>>>>
      [] OTHER -> <<type, args>>

MssqlType(type, args) ==
    CASE type \in {"int", "integer"} -> <<"int", <<>>>>
      [] type = "uuid" -> <<"uniqueidentifier", <<>>>>
      [] type = "boolean" -> <<"bit", <<>>>>
      [] type \in {"json", "text"} -> <<"nvarchar", <<MaxLength>>>>
      [] type = "decimal" -> <<"decimal", Or(Scaled(args), <<18, 0>>)>>
      [] type \in {"float", "double"} -> <<"float", <<>>>>
      [] type \in {"timestamptz", "timestamp", "datetime"} -> <<"datetime2", <<>>>>
      [] type \in {"bigint", "date"} -> <<type, <<>>>>
      [] type = "varchar" -> <<"nvarchar", Or(args, <<255>>)>>
      [] type \in {"binary", "varbinary"} -> <<type, Or(args, <<255>>)>>
      [] type = "blob" -> <<"varbinary", <<MaxLength>>>>
      [] type = "enum" -> <<"nvarchar", <<255>>>>
      [] type = "vector" -> <<"vector", Or(args, <<3>>)>>
      [] type = "halfvec" -> <<"vector", Append(Or(args, <<3>>), 16)>>      \* float16
      [] OTHER -> <<type, args>>

RenderColumnType(dialect, c) ==
    IF c.dialectType # "" THEN <<c.dialectType, c.args>>
    ELSE CASE dialect = "sqlite" -> SqliteType(c.type, c.args)
           [] dialect = "mysql" -> MysqlType(c.type, c.args)
           [] dialect = "postgres" -> PostgresType(c.type, c.args)
           [] dialect = "mssql" -> MssqlType(c.type, c.args)

(***************************************************************************)
(* Defaults: strings in quotes, booleans as the dialect spells them, raw   *)
(* expressions, which are text already, as they are.                       *)
(***************************************************************************)
RenderDefault(dialect, default) ==
    CASE default[1] = "string" -> <<"quoted", default[2]>>
      [] default = <<"boolean", "TRUE">> /\ dialect # "postgres" -> <<"plain", "1">>
      [] default = <<"boolean", "FALSE">> /\ dialect # "postgres" -> <<"plain", "0">>
      [] default = NoDefault -> NoDefault
      [] default[1] = "raw" -> default[2]
      [] OTHER -> <<"plain", default[2]>>

-----------------------------------------------------------------------------
(***************************************************************************)
(* CREATE TABLE and its indexes.                                           *)
(***************************************************************************)
IsRowId(dialect, t, c) == dialect = "sqlite" /\ c.autoIncrement /\ ResolvePrimaryKey(t) = <<c.name>>

RenderAutoIncrement(dialect, t, c) == IF dialect = "sqlite" THEN IsRowId(dialect, t, c) ELSE c.autoIncrement

RenderReference(dialect, ref) ==
    [ref EXCEPT !.deferrable = @ /\ dialect \in {"sqlite", "postgres"}]

(***************************************************************************)
(* The definition of one column; the key word PRIMARY KEY comes with       *)
(* SQLite's AUTOINCREMENT wherever the column is rendered.                 *)
(***************************************************************************)
RenderColumnDefinition(dialect, t, c, includePrimary) ==
    [name |-> c.name,
     type |-> RenderColumnType(dialect, c),
     autoIncrement |-> RenderAutoIncrement(dialect, t, c),
     notNull |-> c.notNull,
     unique |-> c.unique,
     default |-> RenderDefault(dialect, c.default),
     primary |-> (includePrimary /\ c.primary) \/ IsRowId(dialect, t, c),
     check |-> c.check,
     references |-> RenderReference(dialect, c.references)]

RenderIndex(dialect, t, index) ==
    [op |-> "createIndex", table |-> Key(t), name |-> IndexName(t, index), columns |-> index.columns,
     unique |-> index.unique, ifNotExists |-> dialect \in {"sqlite", "postgres"}]

GenerateCreateTableSql(dialect, t) ==
    LET pk == ResolvePrimaryKey(t)
        Inline(c) == IsRowId(dialect, t, c) /\ Contains(pk, c.name)
    IN << [op |-> "createTable", table |-> Key(t),
           columns |-> [i \in DOMAIN t.columns |-> RenderColumnDefinition(dialect, t, t.columns[i], Inline(t.columns[i]))],
           primaryKey |-> IF Len(pk) = 1 /\ Inline(Named(t.columns, pk[1])) THEN <<>> ELSE pk] >>
       \o [i \in DOMAIN t.indexes |-> RenderIndex(dialect, t, t.indexes[i])]

(***************************************************************************)
(* generateSchemaSql() creates the tables in the order of their            *)
(* references: a depth-first walk over the names of the tables, in which a *)
(* reference that names a schema finds no table.  A table met again while  *)
(* it is on the walk's stack is put out at once, and once more when the    *)
(* walk leaves it.                                                         *)
(***************************************************************************)
Dependencies(tables, name) ==
    LET columns == UNION {ToSet(t.columns) : t \in {u \in ToSet(tables) : u.name = name}}
    IN {c.references.table[2] : c \in {d \in columns : d.references # NoReference /\ d.references.table[1] = ""}}

RECURSIVE Visit(_, _, _, _)
Visit(tables, names, stack, ordered) ==
    IF names = <<>> THEN ordered
    ELSE LET name == Head(names)
             rest == Tail(names)
         IN IF Contains(ordered, name) \/ ~\E t \in ToSet(tables) : t.name = name
            THEN Visit(tables, rest, stack, ordered)
            ELSE IF name \in stack THEN Visit(tables, rest, stack, Append(ordered, name))
            ELSE Visit(tables, rest, stack,
                       Append(Visit(tables, SetToSeq(Dependencies(tables, name)), stack \cup {name}, ordered), name))

AsListed(tables) == tables

OrderTablesByDependencies(tables) ==
    LET ordered == Visit(tables, Names(tables), {}, <<>>)
    IN [i \in DOMAIN ordered |-> Named(tables, ordered[i])]

GenerateSchemaSql(dialect, tables) ==
    LET ordered == OrderTablesByDependencies(tables)
    IN FlattenSeq([i \in DOMAIN ordered |-> GenerateCreateTableSql(dialect, ordered[i])])

-----------------------------------------------------------------------------
(***************************************************************************)
(* The difference between a definition of a column and what introspection  *)
(* found, as the set of the aspects that differ.                           *)
(***************************************************************************)
NormalizeReferenceAction(action) == IF action = "" THEN "NO ACTION" ELSE action

SameReference(expected, actual) ==
    IF expected = NoReference \/ actual = NoReference THEN expected = actual
    ELSE /\ expected.table = actual.table
         /\ expected.column = actual.column
         /\ expected.name = actual.name
         /\ NormalizeReferenceAction(expected.onDelete) = NormalizeReferenceAction(actual.onDelete)
         /\ NormalizeReferenceAction(expected.onUpdate) = NormalizeReferenceAction(actual.onUpdate)
         /\ expected.deferrable = actual.deferrable

DiffWithoutDefaults(dialect, expected, actual) ==
    (IF RenderColumnType(dialect, expected) # actual.type THEN {"type"} ELSE {})
    \cup (IF expected.notNull # actual.notNull THEN {"null"} ELSE {})
    \cup (IF SameReference(expected.references, actual.references) THEN {} ELSE {"reference"})

DiffColumn(dialect, expected, actual) ==
    (IF RenderColumnType(dialect, expected) # actual.type THEN {"type"} ELSE {})
    \cup (IF expected.notNull # actual.notNull THEN {"null"} ELSE {})
    \cup (IF RenderDefault(dialect, expected.default) # actual.default THEN {"default"} ELSE {})
    \cup (IF expected.autoIncrement # actual.autoIncrement THEN {"autoIncrement"} ELSE {})
    \cup (IF SameReference(expected.references, actual.references) THEN {} ELSE {"reference"})

(***************************************************************************)
(* What the dialects can do to a column that is there.                     *)
(***************************************************************************)
CanDropColumn(dialect) == dialect # "sqlite"
CanAlterColumn(dialect) == dialect # "sqlite"

AlterPostgres(t, c, diff) ==
    LET Alter(op, value) == [op |-> op, table |-> Key(t), column |-> c.name, value |-> value]
    IN When("type" \in diff, <<Alter("setType", RenderColumnType("postgres", c))>>)
       \o When("default" \in diff, <<Alter("setDefault", RenderDefault("postgres", c.default))>>)
       \o When("null" \in diff, <<Alter("setNotNull", c.notNull)>>)
       \o When("autoIncrement" \in diff, <<Alter("setIdentity", c.autoIncrement)>>)

CompileAlterColumn(dialect, t, c, diff) ==
    CASE dialect = "mysql" -> << [op |-> "modifyColumn", table |-> Key(t), definition |-> RenderColumnDefinition("mysql", t, c, FALSE)] >>
      [] dialect = "postgres" -> AlterPostgres(t, c, diff)
      [] dialect = "mssql" /\ diff \cap {"type", "null"} # {} ->
            << [op |-> "alterColumn", table |-> Key(t), column |-> c.name, type |-> RenderColumnType("mssql", c), notNull |-> c.notNull] >>
      [] OTHER -> <<>>

WarnsOfAlter(dialect, diff) ==
    \/ dialect = "sqlite"
    \/ dialect = "postgres" /\ "autoIncrement" \in diff
    \/ dialect = "mssql" /\ diff \cap {"default", "autoIncrement"} # {}

AlterWarning(dialect, key, name) == IF dialect = "sqlite" THEN <<"alter", key, name>> ELSE <<"alter", NoKey, "">>

(***************************************************************************)
(* diffSchema(): the changes of a plan and what it warns of, a warning as  *)
(* <<what, table, column>>; only SQLite's warning of an alteration names   *)
(* them.                                                                   *)
(***************************************************************************)
Change(kind, statements, safe) == [kind |-> kind, statements |-> statements, safe |-> safe]

DiffTableColumn(dialect, t, c, actual) ==
    LET diff == DiffColumn(dialect, c, Named(actual.columns, c.name)) \ {"reference"}
        statements == CompileAlterColumn(dialect, t, c, diff)
    IN IF ~Contains(Names(actual.columns), c.name)
       THEN << Change("addColumn", << [op |-> "addColumn", table |-> Key(t), definition |-> RenderColumnDefinition(dialect, t, c, FALSE)] >>, TRUE) >>
       ELSE When(diff # {} /\ statements # <<>>, << Change("alterColumn", statements, TRUE) >>)

DropColumnChange(dialect, actual, name, allowDestructive) ==
    Change("dropColumn", When(allowDestructive /\ CanDropColumn(dialect), << [op |-> "dropColumn", table |-> Key(actual), column |-> name] >>), FALSE)

DropIndexChange(dialect, actual, index, allowDestructive) ==
    Change("dropIndex", When(allowDestructive, << [op |-> "dropIndex", table |-> Key(actual), name |-> index.name, ifExists |-> dialect \in {"sqlite", "postgres"}] >>), FALSE)

DropTableChange(actual, allowDestructive) ==
    Change("dropTable", When(allowDestructive, << [op |-> "dropTable", table |-> Key(actual)] >>), FALSE)

IsNamedIndex(t, index) == \E e \in ToSet(t.indexes) : <<"named", e.name, <<>>>> = index.name
IsExpectedIndex(t, index) == \E e \in ToSet(t.indexes) : IndexName(t, e) = index.name

DiffTable(dialect, t, actual, allowDestructive) ==
    LET gone == SelectSeq(actual.columns, LAMBDA c : ~Contains(Names(t.columns), c.name))
        missing == SelectSeq(t.indexes, LAMBDA e : ~\E i \in ToSet(actual.indexes) : i.name = IndexName(t, e))
        extra == SelectSeq(actual.indexes, LAMBDA i : ~IsExpectedIndex(t, i))
    IN FlattenSeq([i \in DOMAIN t.columns |-> DiffTableColumn(dialect, t, t.columns[i], actual)])
       \o [i \in DOMAIN gone |-> DropColumnChange(dialect, actual, gone[i].name, allowDestructive)]
       \o [i \in DOMAIN missing |-> Change("addIndex", << RenderIndex(dialect, t, missing[i]) >>, TRUE)]
       \o [i \in DOMAIN extra |-> DropIndexChange(dialect, actual, extra[i], allowDestructive)]

Found(actual, t) == \E a \in ToSet(actual) : Key(a) = Key(t)
Actual(actual, t) == CHOOSE a \in ToSet(actual) : Key(a) = Key(t)

DiffSchema(dialect, expected, actual, allowDestructive) ==
    LET gone == SelectSeq(actual, LAMBDA a : ~Found(expected, a))
    IN FlattenSeq([i \in DOMAIN expected |->
            IF Found(actual, expected[i]) THEN DiffTable(dialect, expected[i], Actual(actual, expected[i]), allowDestructive)
            ELSE << Change("createTable", GenerateCreateTableSql(dialect, expected[i]), TRUE) >>])
       \o [i \in DOMAIN gone |-> DropTableChange(gone[i], allowDestructive)]

Warnings(dialect, expected, actual) ==
    LET pairs == {p \in ToSet(expected) \X ToSet(actual) : Key(p[1]) = Key(p[2])}
        both == UNION {{<<p[1], c, Named(p[2].columns, c.name)>> :
                            c \in {d \in ToSet(p[1].columns) : Contains(Names(p[2].columns), d.name)}} : p \in pairs}
    IN {<<"reference", Key(b[1]), b[2].name>> : b \in {x \in both : "reference" \in DiffColumn(dialect, x[2], x[3])}}
       \cup {AlterWarning(dialect, Key(b[1]), b[2].name) : b \in {x \in both :
                LET diff == DiffColumn(dialect, x[2], x[3]) \ {"reference"} IN diff # {} /\ WarnsOfAlter(dialect, diff)}}
       \cup (IF CanDropColumn(dialect) THEN {} ELSE
                UNION {{<<"drop", Key(p[1]), n>> : n \in ToSet(Names(p[2].columns)) \ ToSet(Names(p[1].columns))} : p \in pairs})

(***************************************************************************)
(* executeSchemaPlan(): the statements it sends, in order.                 *)
(***************************************************************************)
PlanStatements(changes, allowDestructive) ==
    FlattenSeq([i \in DOMAIN changes |-> When(changes[i].safe \/ allowDestructive, changes[i].statements)])
=============================================================================
