------------------------------ MODULE Catalog ------------------------------
(***************************************************************************)
(* A database as the schema code meets it: what it stores for a statement, *)
(* which statements it refuses, and what the introspectors make of its     *)
(* catalogue (src/core/ddl/introspect).                                    *)
(*                                                                         *)
(* A database is the sequence of its tables in the order of creation.  The *)
(* statements are those of Ddl; what the four databases do with them is    *)
(* taken from how the code uses them.                                      *)
(***************************************************************************)
EXTENDS Ddl

CONSTANT NameOrder      \* the names of the tables in alphabetical order

DefaultSchema == [sqlite |-> "", mysql |-> "app", postgres |-> "public", mssql |-> "dbo"]

Resolve(dialect, key) == IF key[1] = "" THEN <<DefaultSchema[dialect], key[2]>> ELSE key

HasTable(db, key) == \E t \in ToSet(db) : Key(t) = key
TableOf(db, key) == CHOOSE t \in ToSet(db) : Key(t) = key
HasColumn(db, key, name) == HasTable(db, key) /\ Contains(Names(TableOf(db, key).columns), name)
ColumnOf(db, key, name) == Named(TableOf(db, key).columns, name)
Without(s, Test(_)) == SelectSeq(s, LAMBDA x : ~Test(x))
Replace(db, t) == [i \in DOMAIN db |-> IF Key(db[i]) = Key(t) THEN t ELSE db[i]]

-----------------------------------------------------------------------------
(***************************************************************************)
(* The text SQLite keeps of a table: the tokens between the parentheses of *)
(* CREATE TABLE.                                                           *)
(***************************************************************************)
Word(w) == <<"word", w>>
Quoted(n) == <<"name", n>>
Mark(m) == <<"mark", m>>

ColumnSql(d) ==
    <<Quoted(d.name), Word("TYPE")>>
    \o When(d.check, <<Word("CHECK"), Mark("("), Quoted(d.name), Mark(","), Word("REFERENCES"), Mark(")")>>)
    \o (IF d.references = NoReference THEN <<>>
        ELSE When(d.references.name # "", <<Word("CONSTRAINT"), Quoted(d.references.name)>>)
             \o <<Word("REFERENCES"), Quoted(d.references.table[2]), Mark("("), Quoted(d.references.column), Mark(")")>>
             \o When(d.references.deferrable, <<Word("DEFERRABLE"), Word("INITIALLY"), Word("DEFERRED")>>))

TableSql(definitions) ==
    FlattenSeq([i \in DOMAIN definitions |-> When(i > 1, <<Mark(",")>>) \o ColumnSql(definitions[i])])

(***************************************************************************)
(* parseSqliteForeignKeyModifiers(): the names and the deferrability of    *)
(* foreign keys, which no pragma tells, are read from that text.           *)
(***************************************************************************)
Depth(s, from, to) ==
    Cardinality({j \in from .. (to - 1) : s[j] = Mark("(")}) - Cardinality({j \in from .. (to - 1) : s[j] = Mark(")")})

First(S) == IF S = {} THEN 0 ELSE CHOOSE i \in S : \A j \in S : i <= j

SplitTableBody(s) ==
    LET cuts == {0, Len(s) + 1} \cup {i \in DOMAIN s : s[i] = Mark(",") /\ Depth(s, 1, i) = 0}
        After(i) == First({j \in cuts : j > i})
    IN {SubSeq(s, i + 1, After(i) - 1) : i \in cuts \ {Len(s) + 1}}

FindTopLevelKeyword(s, keyword, from) ==
    First({i \in from .. Len(s) : s[i] = Word(keyword) /\ Depth(s, from, i) <= 0})

At(s, i) == IF i \in DOMAIN s THEN s[i] ELSE Mark("")

IsInitiallyDeferred(s, from) ==
    LET at == FindTopLevelKeyword(s, "DEFERRABLE", from)
    IN /\ at # 0
       /\ At(s, at - 1) # Word("NOT")
       /\ At(s, at + 1) = Word("INITIALLY")
       /\ At(s, at + 2) = Word("DEFERRED")

ParseTableForeignKey(s) ==
    LET named == At(s, 1) = Word("CONSTRAINT")
        at == IF named THEN 3 ELSE 1
        references == FindTopLevelKeyword(s, "REFERENCES", at + 4)
    IN IF At(s, at) = Word("FOREIGN") /\ At(s, at + 1) = Word("KEY") /\ At(s, at + 2) = Mark("(")
          /\ At(s, at + 4) # Mark(",") /\ references # 0
       THEN {[column |-> At(s, at + 3)[2], name |-> IF named THEN s[2][2] ELSE "", deferrable |-> IsInitiallyDeferred(s, references)]}
       ELSE {}

ParseInlineForeignKey(s) ==
    LET references == FindTopLevelKeyword(s, "REFERENCES", 2)
        constraint == FindTopLevelKeyword(s, "CONSTRAINT", 2)
    IN IF references = 0 THEN {}
       ELSE {[column |-> s[1][2],
              name |-> IF constraint \in 1 .. references THEN At(s, constraint + 1)[2] ELSE "",
              deferrable |-> IsInitiallyDeferred(s, references)]}

ForeignKeyModifiers(s) ==
    UNION {IF ParseTableForeignKey(segment) # {} THEN ParseTableForeignKey(segment) ELSE ParseInlineForeignKey(segment) :
             segment \in SplitTableBody(s) \ {<<>>}}

-----------------------------------------------------------------------------
(***************************************************************************)
(* What a database stores.  All but SQLite make the columns of the primary *)
(* key NOT NULL; MySQL reads a reference within a column and drops it.     *)
(***************************************************************************)
StoredColumn(dialect, d, primaryKey) ==
    [name |-> d.name,
     type |-> d.type,
     notNull |-> d.notNull \/ (dialect # "sqlite" /\ (Contains(primaryKey, d.name) \/ d.autoIncrement)),
     default |-> d.default,
     autoIncrement |-> d.autoIncrement,
     references |-> IF dialect = "mysql" \/ d.references = NoReference THEN NoReference
                    ELSE [d.references EXCEPT !.table = Resolve(dialect, @)]]

Automatic(kind, key, columns) ==
    [name |-> <<kind, key[2], columns>>, columns |-> columns, unique |-> TRUE, kind |-> kind]

UniqueIndexes(key, definitions) ==
    LET unique == SelectSeq(definitions, LAMBDA d : d.unique)
    IN [i \in DOMAIN unique |-> Automatic("unique", key, <<unique[i].name>>)]

StoredTable(dialect, s) ==
    LET key == Resolve(dialect, s.table)
        pk == IF s.primaryKey # <<>> THEN s.primaryKey ELSE Names(SelectSeq(s.columns, LAMBDA d : d.primary))
        isRowId == dialect = "sqlite" /\ Len(pk) = 1 /\ Named(s.columns, pk[1]).type = <<"integer", <<>>>>
    IN [schema |-> key[1], name |-> key[2],
        columns |-> [i \in DOMAIN s.columns |-> StoredColumn(dialect, s.columns[i], pk)],
        primaryKey |-> pk,
        indexes |-> UniqueIndexes(key, s.columns)
                    \o When(pk # <<>> /\ ~isRowId, <<Automatic("primary", key, pk)>>),
        sql |-> IF dialect = "sqlite" THEN TableSql(s.columns) ELSE <<>>]

(***************************************************************************)
(* Which statements a database refuses.                                    *)
(***************************************************************************)
Enforces(dialect) == dialect \in {"postgres", "mssql"}      \* references at the time of the statement

Dangling(dialect, db, definitions, self) ==
    Enforces(dialect) /\ \E d \in definitions :
        /\ d.references # NoReference
        /\ Resolve(dialect, d.references.table) # self
        /\ ~HasTable(db, Resolve(dialect, d.references.table))

IsReferenced(db, key, column) ==
    \E t \in ToSet(db) : \E c \in ToSet(t.columns) :
        c.references.table = key /\ (column = "" => Key(t) # key) /\ column \in {"", c.references.column}

HasIndex(dialect, db, key, name) ==
    \E t \in ToSet(db) : (dialect \in {"sqlite", "postgres"} \/ Key(t) = key) /\ \E i \in ToSet(t.indexes) : i.name = name

IsIndexed(db, key, column) == \E i \in ToSet(TableOf(db, key).indexes) : Contains(i.columns, column)

RefusesAddColumn(dialect, db, key, d) ==
    \/ HasColumn(db, key, d.name)
    \/ d.primary
    \/ dialect = "sqlite" /\ (d.unique \/ (d.references # NoReference /\ d.default # NoDefault))
    \/ dialect # "mysql" /\ d.notNull /\ d.default = NoDefault /\ ~d.autoIncrement
    \/ dialect = "mysql" /\ d.autoIncrement
    \/ Dangling(dialect, db, {d}, key)

RefusesDropColumn(dialect, db, key, column) ==
    \/ Enforces(dialect) /\ IsReferenced(db, key, column)
    \/ dialect = "mssql" /\ \/ IsIndexed(db, key, column)
                            \/ ColumnOf(db, key, column).default # NoDefault
                            \/ ColumnOf(db, key, column).references # NoReference

(***************************************************************************)
(* Changes of type a database makes by itself; any other is refused:       *)
(* PostgreSQL would need a USING, SQL Server converts implicitly or not at *)
(* all, MySQL tries everything but vectors.                                *)
(***************************************************************************)
Numbers == {"int", "integer", "bigint", "bit", "decimal", "numeric", "float", "double precision"}
Texts == {"text", "varchar", "nvarchar"}
Times == {"date", "timestamp", "timestamptz", "datetime2"}

Converts(dialect, from, to) ==
    LET Both(family) == {from[1], to[1]} \subseteq family
    IN \/ from = to
       \/ dialect = "mysql" /\ "vector" \notin {from[1], to[1]}
       \/ dialect = "postgres" /\ (to[1] \in Texts \/ Both(Numbers) \/ Both(Times) \/ Both({"vector", "halfvec"}))
       \/ /\ dialect = "mssql"
          /\ "vector" \notin {from[1], to[1]}
          /\ \/ to[1] \in Texts
             \/ Both(Numbers)
             \/ Both(Times)
             \/ Both({"binary", "varbinary"})
             \/ from[1] \in Texts /\ to[1] \in Numbers \cup Times \cup {"uniqueidentifier"}
             \/ from[1] = "uniqueidentifier" /\ to[1] \in {"binary", "varbinary"}

RefusesAlter(dialect, db, key, s) ==
    LET c == ColumnOf(db, key, s.column)
    IN \/ s.op = "setType" /\ (~Converts("postgres", c.type, s.value) \/ (c.autoIncrement /\ s.value[1] \notin {"integer", "bigint"}))
       \/ s.op = "setDefault" /\ c.autoIncrement
       \/ s.op = "setNotNull" /\ ~s.value /\ (Contains(TableOf(db, key).primaryKey, c.name) \/ c.autoIncrement)
       \/ s.op = "setIdentity" /\ s.value /\ (c.autoIncrement \/ ~c.notNull \/ c.default # NoDefault)
       \/ /\ s.op = "alterColumn"
          /\ \/ IsIndexed(db, key, c.name)
             \/ ~Converts("mssql", c.type, s.type)
             \/ s.type # c.type /\ (c.default # NoDefault \/ c.references # NoReference)

Refuses(dialect, db, s) ==
    LET key == Resolve(dialect, s.table)
    IN CASE s.op = "createTable" -> HasTable(db, key) \/ Dangling(dialect, db, ToSet(s.columns), key)
         [] s.op = "createIndex" ->
                \/ \E c \in ToSet(s.columns) : ~HasColumn(db, key, c)
                \/ HasIndex(dialect, db, key, s.name) /\ ~s.ifNotExists
         [] s.op = "addColumn" -> ~HasTable(db, key) \/ RefusesAddColumn(dialect, db, key, s.definition)
         [] s.op = "modifyColumn" ->
                \/ ~HasColumn(db, key, s.definition.name)
                \/ ~Converts("mysql", ColumnOf(db, key, s.definition.name).type, s.definition.type)
         [] s.op = "dropColumn" -> ~HasColumn(db, key, s.column) \/ RefusesDropColumn(dialect, db, key, s.column)
         [] s.op = "dropTable" -> Enforces(dialect) /\ IsReferenced(db, key, "")
         [] s.op = "dropIndex" ->
                \/ ~HasIndex(dialect, db, key, s.name) /\ ~s.ifExists
                \/ dialect # "mysql" /\ \E t \in ToSet(db) : \E i \in ToSet(t.indexes) : i.name = s.name /\ i.kind # "plain"
         [] OTHER -> ~HasColumn(db, key, s.column) \/ RefusesAlter(dialect, db, key, s)

(***************************************************************************)
(* What a statement that is not refused makes of a database.               *)
(***************************************************************************)
WithColumn(t, c) == [t EXCEPT !.columns = [i \in DOMAIN @ |-> IF @[i].name = c.name THEN c ELSE @[i]]]

AddColumn(dialect, t, d) ==
    [t EXCEPT !.columns = Append(@, StoredColumn(dialect, d, <<>>)),
              !.indexes = @ \o UniqueIndexes(Key(t), <<d>>),
              !.sql = IF dialect = "sqlite" THEN @ \o <<Mark(",")>> \o ColumnSql(d) ELSE @]

(***************************************************************************)
(* MODIFY COLUMN ... UNIQUE adds one more index; the keys stay.            *)
(***************************************************************************)
ModifyColumn(t, d) ==
    [WithColumn(t, StoredColumn("mysql", d, t.primaryKey)) EXCEPT
        !.indexes = @ \o When(d.unique, << [Automatic("unique", Key(t), <<d.name>>) EXCEPT !.name[1] = "again"] >>)]

DropColumn(t, column) ==
    [t EXCEPT !.columns = Without(@, LAMBDA c : c.name = column),
              !.indexes = Without(@, LAMBDA i : Contains(i.columns, column))]

AlterColumn(c, s) ==
    CASE s.op = "setType" -> [c EXCEPT !.type = s.value]
      [] s.op = "setDefault" -> [c EXCEPT !.default = s.value]
      [] s.op = "setNotNull" -> [c EXCEPT !.notNull = s.value]
      [] s.op = "setIdentity" -> [c EXCEPT !.autoIncrement = s.value]
      [] s.op = "alterColumn" -> [c EXCEPT !.type = s.type, !.notNull = s.notNull]

Apply(dialect, db, s) ==
    LET key == Resolve(dialect, s.table)
        t == TableOf(db, key)
    IN CASE s.op = "createTable" -> Append(db, StoredTable(dialect, s))
         [] s.op = "createIndex" ->
                IF HasIndex(dialect, db, key, s.name) THEN db
                ELSE Replace(db, [t EXCEPT !.indexes = Append(@, [name |-> s.name, columns |-> s.columns, unique |-> s.unique, kind |-> "plain"])])
         [] s.op = "addColumn" -> Replace(db, AddColumn(dialect, t, s.definition))
         [] s.op = "modifyColumn" -> Replace(db, ModifyColumn(t, s.definition))
         [] s.op = "dropColumn" -> Replace(db, DropColumn(t, s.column))
         [] s.op = "dropTable" -> Without(db, LAMBDA u : Key(u) = key)
         [] s.op = "dropIndex" -> [i \in DOMAIN db |-> [db[i] EXCEPT !.indexes =
                Without(@, LAMBDA x : x.name = s.name /\ (dialect \in {"sqlite", "postgres"} \/ Key(db[i]) = key))]]
         [] OTHER -> Replace(db, WithColumn(t, AlterColumn(ColumnOf(db, key, s.column), s)))

-----------------------------------------------------------------------------
(***************************************************************************)
(* The catalogue's own spelling of a type and of a default.                *)
(***************************************************************************)
PostgresNames ==
    [varchar |-> "character varying", timestamp |-> "timestamp without time zone",
     timestamptz |-> "timestamp with time zone", vector |-> "USER-DEFINED", halfvec |-> "USER-DEFINED"]

CatalogType(dialect, type) ==
    CASE dialect = "postgres" -> <<IF type[1] \in DOMAIN PostgresNames THEN PostgresNames[type[1]] ELSE type[1], <<>>>>
      [] dialect = "mysql" /\ type = <<"decimal", <<>>>> -> <<"decimal", <<10, 0>>>>
      [] dialect = "mysql" /\ type[1] = "float" -> <<"float", <<>>>>
      [] OTHER -> type

CatalogDefault(dialect, default) ==
    CASE dialect = "postgres" /\ default[1] = "quoted" -> <<"cast", default[2]>>
      [] dialect = "postgres" /\ default = <<"plain", "TRUE">> -> <<"plain", "true">>
      [] dialect = "postgres" /\ default = <<"plain", "FALSE">> -> <<"plain", "false">>
      [] dialect \in {"mysql", "postgres"} /\ default = <<"plain", "NULL">> -> NoDefault
      [] dialect = "mysql" /\ default[1] = "quoted" -> <<"plain", default[2]>>
      [] dialect = "mssql" /\ default # NoDefault -> <<"parentheses", default[2]>>
      [] OTHER -> default

(***************************************************************************)
(* sys.columns describes a type by its name, its length in bytes, its      *)
(* precision and its scale; buildMssqlDataType() spells it.                *)
(***************************************************************************)
SysColumn(type) ==
    [name |-> type[1],
     maxLength |-> IF type[2] = <<>> THEN 8 ELSE IF type[1] \in {"nvarchar", "nchar"} /\ type[2][1] # MaxLength THEN 2 * type[2][1] ELSE type[2][1],
     precision |-> IF Len(type[2]) = 2 THEN type[2][1] ELSE 0,
     scale |-> IF Len(type[2]) = 2 THEN type[2][2] ELSE 0]

BytesAsLength(c) ==
    CASE c.name \in {"varchar", "char", "varbinary", "binary", "nvarchar", "nchar"} -> <<c.name, <<c.maxLength>>>>
      [] c.name \in {"decimal", "numeric"} -> <<c.name, <<c.precision, c.scale>>>>
      [] OTHER -> <<c.name, <<>>>>

BuildMssqlDataType(c) ==
    CASE c.name \in {"nvarchar", "nchar"} /\ c.maxLength # MaxLength -> <<c.name, <<c.maxLength \div 2>>>>
      [] c.name \in {"varchar", "char", "varbinary", "binary", "nvarchar", "nchar"} -> <<c.name, <<c.maxLength>>>>
      [] c.name \in {"decimal", "numeric"} -> <<c.name, <<c.precision, c.scale>>>>
      [] OTHER -> <<c.name, <<>>>>

-----------------------------------------------------------------------------
(***************************************************************************)
(* The introspectors.  Each gives a column what its own catalogue tells:   *)
(* SQLite never an autoincrement, PostgreSQL neither an identity nor the   *)
(* name or the deferrability of a reference.                               *)
(***************************************************************************)
Row(c, type, default, autoIncrement, references) ==
    [name |-> c.name, type |-> type, notNull |-> c.notNull, default |-> default,
     autoIncrement |-> autoIncrement, references |-> references]

Reported(ref, name) ==
    IF ref = NoReference THEN NoReference
    ELSE [ref EXCEPT !.name = name, !.deferrable = FALSE,
                     !.onDelete = NormalizeReferenceAction(@), !.onUpdate = NormalizeReferenceAction(@)]

ForeignKeySqlite(t, c) ==
    LET ref == Reported(c.references, "")
        modifiers == {m \in ForeignKeyModifiers(t.sql) : m.column = c.name}
        m == CHOOSE x \in modifiers : TRUE
    IN IF ref = NoReference \/ modifiers = {} THEN ref ELSE [ref EXCEPT !.name = m.name, !.deferrable = m.deferrable]

(***************************************************************************)
(* The foreign keys of PostgreSQL are joined on the name of the constraint *)
(* alone: of two tables with a constraint of one name either answers.      *)
(***************************************************************************)
ForeignKeyPostgres(db, c) ==
    LET sameName == {d.references : d \in UNION {ToSet(t.columns) : t \in ToSet(db)}}
        ref == IF c.references.name = "" THEN c.references
               ELSE CHOOSE r \in sameName : r.name = c.references.name
    IN Reported(ref, "")

ForeignKeyMysql(c) == Reported(c.references, c.references.name)
ForeignKeyMssql(c) == Reported(c.references, IF c.references.name = "" THEN "generated" ELSE c.references.name)

ReadColumnSqlite(t, c) == Row(c, c.type, c.default, FALSE, ForeignKeySqlite(t, c))

ReadColumnMysql(c) ==
    Row(c, CatalogType("mysql", c.type), CatalogDefault("mysql", c.default), c.autoIncrement, ForeignKeyMysql(c))

ReadColumnPostgres(db, c) ==
    Row(c, CatalogType("postgres", c.type), CatalogDefault("postgres", c.default), FALSE, ForeignKeyPostgres(db, c))

ReadColumnMssql(c) ==
    Row(c, BuildMssqlDataType(SysColumn(c.type)), CatalogDefault("mssql", c.default), c.autoIncrement, ForeignKeyMssql(c))

ReadColumn(dialect, db, t, c) ==
    CASE dialect = "sqlite" -> ReadColumnSqlite(t, c)
      [] dialect = "mysql" -> ReadColumnMysql(c)
      [] dialect = "postgres" -> ReadColumnPostgres(db, c)
      [] dialect = "mssql" -> ReadColumnMssql(c)

(***************************************************************************)
(* The columns of a key come in the order of the key, from SQLite in the   *)
(* order of the table; tables by name from MySQL and PostgreSQL, else as   *)
(* created.                                                                *)
(***************************************************************************)
ReadPrimaryKeySqlite(t) == SelectSeq(Names(t.columns), LAMBDA n : Contains(t.primaryKey, n))
ReadPrimaryKey(dialect, t) == IF dialect = "sqlite" THEN ReadPrimaryKeySqlite(t) ELSE t.primaryKey

InCatalogOrder(dialect, db) ==
    IF dialect \in {"mysql", "postgres"}
    THEN FlattenSeq([i \in DOMAIN NameOrder |-> SelectSeq(db, LAMBDA t : t.name = NameOrder[i])])
    ELSE db

(***************************************************************************)
(* The first queries tell the tables, their columns and keys ...           *)
(***************************************************************************)
ReadTables(dialect, db) ==
    LET ordered == InCatalogOrder(dialect, db)
    IN [i \in DOMAIN ordered |->
            LET t == ordered[i]
            IN [schema |-> t.schema, name |-> t.name,
                columns |-> [j \in DOMAIN t.columns |-> ReadColumn(dialect, db, t, t.columns[j])],
                primaryKey |-> ReadPrimaryKey(dialect, t),
                indexes |-> <<>>]]

(***************************************************************************)
(* ... and the last the indexes, those of UNIQUE constraints among them,   *)
(* and in SQLite those of primary keys; they are given to the tables       *)
(* already found.                                                          *)
(***************************************************************************)
IndexRows(dialect, t) ==
    LET listed == SelectSeq(t.indexes, LAMBDA i : dialect = "sqlite" \/ i.kind # "primary")
    IN [i \in DOMAIN listed |-> [name |-> listed[i].name, columns |-> listed[i].columns, unique |-> listed[i].unique]]

ReadIndexes(dialect, db, tables) ==
    [i \in DOMAIN tables |->
        [tables[i] EXCEPT !.indexes =
            IF HasTable(db, Key(tables[i])) THEN IndexRows(dialect, TableOf(db, Key(tables[i]))) ELSE <<>>]]

Introspect(dialect, db) == ReadIndexes(dialect, db, ReadTables(dialect, db))
=============================================================================
