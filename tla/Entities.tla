------------------------------ MODULE Entities ------------------------------
(***************************************************************************)
(* From a database to entity classes and back to table definitions: the    *)
(* classes Codegen writes are loaded one by one, their decorators register *)
(* metadata, and bootstrapEntities() builds tables and relations, when the *)
(* application asks for it or lazily at the first use of a class           *)
(* (src/decorators, src/orm/entity-metadata.ts, src/tree/tree-decorator.ts).*)
(***************************************************************************)
EXTENDS Codegen

CONSTANTS
    Setups,     \* [dialect, db, late, treeFirst]: a database, whether its classes are loaded in any
                \* order and between other calls, and whether Tree() is applied before Entity()
    MaxAdded,   \* bound: relations added at run time
    NewRelation \* their name

VARIABLES
    setup,
    schema,     \* what introspectSchema() found
    classes,    \* the generated classes
    metas,      \* the registry of metadata, in the order of registration
    tables,     \* the table definitions built so far; a definition is known by its position
    given,      \* those the application has received
    broken,     \* a call threw since the last bootstrap that did not
    added       \* the relations added at run time

vars == <<setup, schema, classes, metas, tables, given, broken, added>>

Registered(registry) == {m.class : m \in ToSet(registry)}
MetaOf(class) == CHOOSE m \in ToSet(metas) : m.class = class
Properties(relations) == {r.property : r \in ToSet(relations)}

Init ==
    /\ setup \in Setups
    /\ schema = Introspect(setup.dialect, setup.db)
    /\ classes = [i \in DOMAIN schema |-> [GenerateEntities(schema)[i] EXCEPT !.treeFirst = setup.treeFirst]]
    /\ metas = <<>>
    /\ tables = <<>>
    /\ given = {}
    /\ broken = FALSE
    /\ added = {}

-----------------------------------------------------------------------------
(***************************************************************************)
(* The decorators of a class: Entity() registers what the decorators of    *)
(* its fields collected; Tree() adds the relations of TreeParent() and     *)
(* TreeChildren() if the class is registered, else Entity() does.          *)
(***************************************************************************)
RegisterEntity(registry, c) ==
    Append(registry, [class |-> c.name, tableName |-> IF c.tableName = "" THEN WithS(c.name) ELSE c.tableName,
                      columns |-> c.columns, relations |-> c.relations, table |-> 0])

TreeRelation(c, property, kind) ==
    [property |-> property, kind |-> kind, target |-> c.name, foreignKey |-> c.tree.parentKey,
     pivotTable |-> "", toRoot |-> "", toTarget |-> ""]

WithTreeRelation(relations, c, property, kind) ==
    IF property = "" \/ property \in Properties(relations) THEN relations
    ELSE Append(relations, TreeRelation(c, property, kind))

RegisterTreeRelations(registry, c) ==
    [i \in DOMAIN registry |->
        IF registry[i].class = c.name /\ c.tree # NoTree
        THEN [registry[i] EXCEPT !.relations =
                WithTreeRelation(WithTreeRelation(@, c, c.parentProperty, "belongsTo"), c, c.childrenProperty, "hasMany")]
        ELSE registry[i]]

EntityDecorator(registry, c) ==
    IF c.treeFirst THEN RegisterTreeRelations(RegisterEntity(registry, c), c) ELSE RegisterEntity(registry, c)

TreeDecorator(registry, c) == RegisterTreeRelations(registry, c)

Decorate(c) ==
    /\ c.name \notin Registered(metas)
    /\ setup.late \/ c = classes[Len(metas) + 1]
    /\ metas' = IF c.treeFirst THEN EntityDecorator(TreeDecorator(metas, c), c)
                ELSE TreeDecorator(EntityDecorator(metas, c), c)
    /\ UNCHANGED <<setup, schema, classes, tables, given, broken, added>>

-----------------------------------------------------------------------------
(***************************************************************************)
(* A relation of the metadata as one of a table: the classes it names by   *)
(* their tables, keys that were left out by the names of the classes.      *)
(***************************************************************************)
PivotKeyBase(class) == class
OrKey(key, class) == IF key # "" THEN key ELSE PivotKeyBase(class) \o "_id"

TableDefOf(registry, class) == (CHOOSE m \in ToSet(registry) : m.class = class).table

Resolves(registry, r) ==
    {r.target, r.pivotTable} \ {""} \subseteq {m.class : m \in {n \in ToSet(registry) : n.table # 0}}

RelationDefinition(registry, root, r) ==
    [property |-> r.property, kind |-> r.kind, target |-> TableDefOf(registry, r.target),
     foreignKey |-> IF r.kind = "belongsToMany" THEN "" ELSE OrKey(r.foreignKey, root),
     pivotTable |-> IF r.kind = "belongsToMany" THEN TableDefOf(registry, r.pivotTable) ELSE 0,
     toRoot |-> IF r.kind = "belongsToMany" THEN OrKey(r.toRoot, root) ELSE "",
     toTarget |-> IF r.kind = "belongsToMany" THEN OrKey(r.toTarget, r.target) ELSE ""]

BuildRelationDefinitions(registry, m) ==
    [i \in DOMAIN m.relations |-> RelationDefinition(registry, m.class, m.relations[i])]

(***************************************************************************)
(* buildTableDef() builds the table of a class once.                       *)
(***************************************************************************)
NewTable(m) == [class |-> m.class, name |-> m.tableName, columns |-> m.columns, relations |-> <<>>]

BuiltAnew(registry, built) ==
    [registry |-> [i \in DOMAIN registry |-> [registry[i] EXCEPT !.table = Len(built) + i]],
     tables |-> built \o [i \in DOMAIN registry |-> NewTable(registry[i])]]

BuildTableDefs(registry, built) ==
    LET missing == SelectSeq(registry, LAMBDA m : m.table = 0)
        Position(m) == CHOOSE i \in DOMAIN missing : missing[i].class = m.class
    IN [registry |-> [i \in DOMAIN registry |->
            IF registry[i].table # 0 THEN registry[i] ELSE [registry[i] EXCEPT !.table = Len(built) + Position(registry[i])]],
        tables |-> built \o [i \in DOMAIN missing |-> NewTable(missing[i])]]

(***************************************************************************)
(* bootstrapEntities(): all the tables first, then the relations class by  *)
(* class, up to the first that names a class nobody registered.            *)
(***************************************************************************)
Resolvable(registry, m) == \A i \in DOMAIN m.relations : Resolves(registry, m.relations[i])

Bootstrapped(registry, built) ==
    LET reached == {i \in DOMAIN registry : \A j \in 1 .. i : Resolvable(registry, registry[j])}
    IN [id \in DOMAIN built |->
            IF \E i \in reached : registry[i].table = id
            THEN [built[id] EXCEPT !.relations =
                    BuildRelationDefinitions(registry, registry[CHOOSE i \in reached : registry[i].table = id])]
            ELSE built[id]]

Succeeds(registry) == \A i \in DOMAIN registry : Resolvable(registry, registry[i])

RunBootstrap ==
    LET built == BuildTableDefs(metas, tables)
    IN /\ metas' = built.registry
       /\ tables' = Bootstrapped(built.registry, built.tables)
       /\ broken' = ~Succeeds(built.registry)

BootstrapEntities ==
    /\ metas # <<>>
    /\ RunBootstrap
    /\ given' = IF broken' THEN given ELSE given \cup {m.table : m \in ToSet(metas')}
    /\ UNCHANGED <<setup, schema, classes, added>>

(***************************************************************************)
(* getTableDefFromEntity(), behind selectFromEntity() and entityRef():     *)
(* bootstraps when the class has no table yet.                             *)
(***************************************************************************)
GetTableDef(class) ==
    /\ class \in Registered(metas)
    /\ IF MetaOf(class).table # 0
       THEN given' = given \cup {MetaOf(class).table} /\ UNCHANGED <<metas, tables, broken>>
       ELSE /\ RunBootstrap
            /\ given' = IF broken' THEN given ELSE given \cup {TableDefOf(metas', class)}
    /\ UNCHANGED <<setup, schema, classes, added>>

(***************************************************************************)
(* addEntityRelation(): the metadata in any case, and the table if it is   *)
(* there; with a target that has no table yet it throws in between.        *)
(***************************************************************************)
HasMany(target) ==
    [property |-> NewRelation, kind |-> "hasMany", target |-> target, foreignKey |-> "",
     pivotTable |-> "", toRoot |-> "", toTarget |-> ""]

AddEntityRelation(class, target) ==
    /\ setup.late
    /\ class \in Registered(metas) \ added
    /\ Cardinality(added) < MaxAdded
    /\ added' = added \cup {class}
    /\ LET r == HasMany(target)
           id == MetaOf(class).table
       IN /\ metas' = [i \in DOMAIN metas |->
                         IF metas[i].class = class THEN [metas[i] EXCEPT !.relations = Append(@, r)] ELSE metas[i]]
          /\ IF id = 0 THEN UNCHANGED <<tables, broken>>
             ELSE IF Resolves(metas, r)
             THEN /\ tables' = [tables EXCEPT ![id].relations = Append(@, RelationDefinition(metas, class, r))]
                  /\ UNCHANGED broken
             ELSE broken' = TRUE /\ UNCHANGED tables
    /\ UNCHANGED <<setup, schema, classes, given>>

Next ==
    \/ \E c \in ToSet(classes) : Decorate(c)
    \/ BootstrapEntities
    \/ \E c \in ToSet(classes) : GetTableDef(c.name)
    \/ \E c, d \in ToSet(classes) : AddEntityRelation(c.name, d.name)

Spec == Init /\ [][Next]_vars

-----------------------------------------------------------------------------
(***************************************************************************)
(* Whatever was loaded, added or bootstrapped later, a table the           *)
(* application has received stays the table of its class, and as long as   *)
(* no call has thrown it has the relations the class declares, each to the *)
(* current tables of the classes it names.                                 *)
(***************************************************************************)
IsDeclared(r, meta) ==
    \E d \in ToSet(meta.relations) :
        /\ d.property = r.property /\ d.kind = r.kind
        /\ r.target = MetaOf(d.target).table
        /\ r.pivotTable = IF d.pivotTable = "" THEN 0 ELSE MetaOf(d.pivotTable).table

Bound ==
    \A id \in given :
        LET meta == MetaOf(tables[id].class)
        IN /\ meta.table = id
           /\ ~broken => /\ Properties(tables[id].relations) = Properties(meta.relations)
                         /\ \A r \in ToSet(tables[id].relations) : IsDeclared(r, meta)

(***************************************************************************)
(* Once all the classes are bootstrapped every foreign key of the database *)
(* can be followed both ways: by a belongs-to relation, and back by one of *)
(* its own, for one entity exactly if the database allows no two rows of a *)
(* value, or through the table to what its other foreign key references.   *)
(* (The second foreign key of a table to the same one has no way back.)    *)
(* No relation follows anything else, no member of a class is declared     *)
(* twice, and its file imports every decorator and class it names.         *)
(***************************************************************************)
Loaded == Len(metas) = Len(classes) /\ ~broken /\ \A m \in ToSet(metas) : m.table # 0

TableNamed(name) == CHOOSE t \in ToSet(tables) : t.name = name
HoldsOne(t, column) ==
    t.primaryKey = <<column>> \/ \E i \in ToSet(t.indexes) : i.unique /\ ToSet(i.columns) = {column}

Follows(t, fk, r) ==
    r.kind = "belongsTo" /\ r.foreignKey = fk.name /\ tables[r.target].name = Target(fk)

Through(t, fk, r) ==
    /\ r.kind = "belongsToMany" /\ tables[r.pivotTable].name = t.name /\ r.toRoot = fk.name
    /\ \E other \in ToSet(ForeignKeys(t)) :
          other # fk /\ r.toTarget = other.name /\ tables[r.target].name = Target(other)

ReturnsBy(t, fk, r) ==
    \/ /\ r.kind = IF HoldsOne(t, fk.name) THEN "hasOne" ELSE "hasMany"
       /\ r.foreignKey = fk.name /\ tables[r.target].name = t.name
    \/ Through(t, fk, r)

References == {<<t, fk>> \in ToSet(setup.db) \X UNION {ToSet(t.columns) : t \in ToSet(setup.db)} :
                  fk \in ToSet(ForeignKeys(t))}
IsOnlyOne(t, fk) == \A other \in ToSet(ForeignKeys(t)) : Target(other) = Target(fk) => other = fk
NamesUsed(class) ==
    {"Entity"} \cup {IF c.primary THEN "PrimaryKey" ELSE "Column" : c \in ToSet(class.columns)}
    \cup {Decorators[r.kind] : r \in ToSet(class.relations)}
    \cup (UNION {{r.target, r.pivotTable} : r \in ToSet(class.relations)} \ {"", class.name})
    \cup (IF class.tree = NoTree THEN {} ELSE {"Tree", "TreeChildren"})
    \cup (IF class.parentProperty = "" THEN {} ELSE {"TreeParent"})
Generated(table) == {r \in ToSet(table.relations) : r.property # NewRelation}

Navigable ==
    Loaded =>
        /\ \A ref \in References :
              /\ \E r \in Generated(TableNamed(ref[1].name)) : Follows(ref[1], ref[2], r)
              /\ IsOnlyOne(ref[1], ref[2]) =>
                    \E r \in Generated(TableNamed(Target(ref[2]))) : ReturnsBy(ref[1], ref[2], r)
        /\ \A table \in ToSet(tables) :
              /\ \A r \in Generated(table) : \E ref \in References :
                    IF r.kind = "belongsTo" THEN ref[1].name = table.name /\ Follows(ref[1], ref[2], r)
                    ELSE Target(ref[2]) = table.name /\ ReturnsBy(ref[1], ref[2], r)
              /\ Cardinality(Properties(table.relations)) = Len(table.relations)
              /\ Properties(table.relations) \cap ToSet(Names(table.columns)) = {}
        /\ \A c \in ToSet(classes) : NamesUsed(c) \subseteq c.imports

(***************************************************************************)
(* The table definitions of the classes describe the database they were    *)
(* generated from: for its tables, columns, types, defaults, keys and      *)
(* references a diff finds nothing to change, but for the schema of tables *)
(* and the names of constraints, which a class does not tell.              *)
(***************************************************************************)
DefinitionOf(table) ==
    [schema |-> "", name |-> table.name, columns |-> table.columns, primaryKey |-> <<>>, indexes |-> <<>>]

Bare(c) == [c EXCEPT !.references = [@ EXCEPT !.table = <<"", @[2]>>, !.name = "", !.deferrable = FALSE]]

RegeneratedAlike ==
    Loaded =>
        /\ {t.name : t \in ToSet(tables)} = {t.name : t \in ToSet(schema)}
        /\ \A t \in ToSet(schema) :
              LET definition == DefinitionOf(TableNamed(t.name))
              IN /\ Names(definition.columns) = Names(t.columns)
                 /\ ResolvePrimaryKey(definition) = t.primaryKey
                 /\ \A i \in DOMAIN t.columns :
                       DiffColumn(setup.dialect, Bare(definition.columns[i]), Bare(t.columns[i])) = {}
=============================================================================
