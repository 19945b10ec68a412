------------------------------ MODULE Codegen ------------------------------
(***************************************************************************)
(* The entity classes that scripts/generate-entities writes for the tables *)
(* introspection found: columns, relations read off the foreign keys, and  *)
(* tree decorators.                                                        *)
(*                                                                         *)
(* A class goes by the singular name of its table and is the record of     *)
(* what its decorators say; "" is an option that is left out.  The         *)
(* inflector, the spelling of identifiers and the patterns of tree columns *)
(* are constants.                                                          *)
(***************************************************************************)
EXTENDS Catalog

CONSTANTS
    Singular(_), Plural(_),     \* the inflector, with the irregular words it was given
    Camel(_),                   \* the camel case of a name
    Stem(_),                    \* the name of a column without a final "id" or "_id"
    WithS(_),                   \* the table name Entity() derives from the name of a class
    Hints(_)                    \* what the name of a column hints at: "parent", "left", "right", "depth", "scope"

NoTree == [parentKey |-> "", leftKey |-> "", rightKey |-> "", depthKey |-> "", scope |-> <<>>]

ForeignKeys(t) == SelectSeq(t.columns, LAMBDA c : c.references # NoReference)
Target(c) == c.references.table[2]
IsTable(tables, name) == \E t \in ToSet(tables) : t.name = name

-----------------------------------------------------------------------------
(***************************************************************************)
(* Names.                                                                  *)
(***************************************************************************)
ClassNameFromTable(name) == Singular(name)
DefaultTableNameFromClass(class) == Plural(class)
HasManyProperty(name) == Camel(Plural(Singular(name)))
HasOneProperty(name) == Camel(Singular(name))

BelongsToProperty(column, target) ==
    IF Stem(column) # "" /\ (Stem(column) # column \/ Camel(column) # Camel(Singular(target)))
    THEN Camel(Stem(column))
    ELSE Camel(Singular(target))

-----------------------------------------------------------------------------
(***************************************************************************)
(* The relations of the foreign keys.  A table with two, to two other      *)
(* tables, is a pivot and makes its targets a many-to-many pair instead of *)
(* giving them an inverse.  Of the relations of one class with one         *)
(* property the first is kept.                                             *)
(***************************************************************************)
UniqueColumns(t) ==
    (IF Len(t.primaryKey) = 1 THEN {t.primaryKey[1]} ELSE {})
    \cup {i.columns[1] : i \in {j \in ToSet(t.indexes) : j.unique /\ Len(j.columns) = 1}}

IsPivot(t) ==
    LET fks == ForeignKeys(t)
    IN Len(fks) = 2 /\ Cardinality({Target(fks[1]), Target(fks[2]), t.name}) = 3

Relation(owner, property, kind, target, foreignKey) ==
    [owner |-> owner, property |-> property, kind |-> kind, target |-> target, foreignKey |-> foreignKey,
     pivotTable |-> "", toRoot |-> "", toTarget |-> ""]

KeysSwapped(pivot, a, b) ==
    [Relation(Target(a), HasManyProperty(Target(b)), "belongsToMany", Target(b), "")
        EXCEPT !.pivotTable = pivot.name, !.toRoot = b.name, !.toTarget = a.name]

BelongsToMany(pivot, a, b) ==
    [Relation(Target(a), HasManyProperty(Target(b)), "belongsToMany", Target(b), "")
        EXCEPT !.pivotTable = pivot.name, !.toRoot = a.name, !.toTarget = b.name]

ManyToMany(tables, t) ==
    LET fks == ForeignKeys(t)
    IN When(IsPivot(t) /\ \A i \in DOMAIN fks : IsTable(tables, Target(fks[i])),
            <<BelongsToMany(t, fks[1], fks[2]), BelongsToMany(t, fks[2], fks[1])>>)

InverseOf(t, fk) ==
    IF fk.name \in UniqueColumns(t) THEN Relation(Target(fk), HasOneProperty(t.name), "hasOne", t.name, fk.name)
    ELSE Relation(Target(fk), HasManyProperty(t.name), "hasMany", t.name, fk.name)

OneToMany(tables, t) ==
    LET fks == SelectSeq(ForeignKeys(t), LAMBDA c : IsTable(tables, Target(c)))
    IN FlattenSeq([i \in DOMAIN fks |->
            <<Relation(t.name, BelongsToProperty(fks[i].name, Target(fks[i])), "belongsTo", Target(fks[i]), fks[i].name)>>
            \o When(~IsPivot(t), <<InverseOf(t, fks[i])>>)])

MapRelations(tables) ==
    LET found == FlattenSeq([i \in DOMAIN tables |-> ManyToMany(tables, tables[i])])
                 \o FlattenSeq([i \in DOMAIN tables |-> OneToMany(tables, tables[i])])
        IsTaken(i) == \E j \in 1 .. (i - 1) : found[j].owner = found[i].owner /\ found[j].property = found[i].property
    IN FlattenSeq([i \in DOMAIN found |-> When(~IsTaken(i), <<found[i]>>)])

-----------------------------------------------------------------------------
(***************************************************************************)
(* A tree: a nullable reference to the table itself, and integer columns   *)
(* for the bounds; a schema other than dbo hides the reference.            *)
(***************************************************************************)
Hinted(t, hint) == SelectSeq(t.columns, LAMBDA c : hint \in Hints(c.name))

IsInteger(c) == c.type[1] \in {"int", "integer", "bigint", "tinyint"}

IsSelfReferencing(t, c) == c.references.table \in {<<"", t.name>>, <<"dbo", t.name>>}

ScopeColumns(t, keys) ==
    SelectSeq(Hinted(t, "scope"), LAMBDA c :
        /\ c.name \notin keys \cup ToSet(t.primaryKey)
        /\ c.references = NoReference \/ Target(c) = t.name)

DetectTreeTable(t) ==
    LET parent == Hinted(t, "parent")
        left == Hinted(t, "left")
        right == Hinted(t, "right")
        depth == IF Hinted(t, "depth") = <<>> THEN "" ELSE Hinted(t, "depth")[1].name
    IN IF /\ parent # <<>> /\ left # <<>> /\ right # <<>>
          /\ IsSelfReferencing(t, parent[1]) /\ ~parent[1].notNull
          /\ IsInteger(left[1]) /\ IsInteger(right[1])
       THEN [parentKey |-> parent[1].name, leftKey |-> left[1].name, rightKey |-> right[1].name,
             depthKey |-> depth, scope |-> Names(ScopeColumns(t, {parent[1].name, left[1].name, right[1].name, depth}))]
       ELSE NoTree

-----------------------------------------------------------------------------
(***************************************************************************)
(* Columns.  Names are tested for the parts they contain, in this order.   *)
(***************************************************************************)
TypesAsText(type) == <<"text", <<>>>>

ParseColumnType(type) ==
    LET base == type[1]
        args == type[2]
    IN CASE base = "bit" -> <<"boolean", <<>>>>
         [] base = "bigint" -> <<"bigint", <<>>>>
         [] base \in {"int", "integer", "tinyint"} -> <<"int", <<>>>>
         [] base \in {"uuid", "uniqueidentifier"} -> <<"uuid", <<>>>>
         [] base = "date" -> <<"date", <<>>>>
         [] base = "text" \/ type = <<"nvarchar", <<MaxLength>>>> -> <<"text", <<>>>>
         [] base \in {"char", "varchar", "nvarchar", "character varying"} -> <<"varchar", Or(args, <<255>>)>>
         [] base \in {"json", "jsonb"} -> <<"json", <<>>>>
         [] base = "boolean" -> <<"boolean", <<>>>>
         [] base \in {"datetime", "datetime2", "timestamp", "timestamp without time zone", "timestamp with time zone"} -> <<"datetime", <<>>>>
         [] base \in {"decimal", "numeric"} -> <<"decimal", Or(Scaled(args), <<10, 0>>)>>
         [] base \in {"double", "double precision", "float", "real", "float16[]", "float32[]"} -> <<"float", <<>>>>
         [] base \in {"blob", "binary", "varbinary", "bytea"} -> <<"blob", <<>>>>
         [] OTHER -> <<"varchar", <<255>>>>

(***************************************************************************)
(* A default that is no literal is kept as a raw expression.               *)
(***************************************************************************)
Numerals == {"0", "1", "2"}

NormalizeDefault(default) ==
    CASE default \in {<<"plain", "true">>, <<"plain", "TRUE">>} -> <<"boolean", "TRUE">>
      [] default \in {<<"plain", "false">>, <<"plain", "FALSE">>} -> <<"boolean", "FALSE">>
      [] default = <<"plain", "NULL">> -> <<"null", "NULL">>
      [] default[1] = "plain" /\ default[2] \in Numerals -> <<"number", default[2]>>
      [] default[1] = "quoted" -> <<"string", default[2]>>
      [] default = NoDefault -> NoDefault
      [] OTHER -> <<"raw", default>>

NormalizeReferenceTable(key, schema) == IF key[1] = schema THEN <<"", key[2]>> ELSE key

RenderReferenceOption(t, ref) ==
    IF ref = NoReference THEN NoReference
    ELSE [NoReference EXCEPT !.table = NormalizeReferenceTable(ref.table, t.schema), !.column = ref.column,
                             !.onDelete = ref.onDelete, !.onUpdate = ref.onUpdate]

RenderColumnExpression(t, c) ==
    LET parsed == ParseColumnType(c.type)
    IN [name |-> c.name, type |-> parsed[1], args |-> parsed[2], dialectType |-> "",
        primary |-> Contains(t.primaryKey, c.name), notNull |-> c.notNull,
        unique |-> c.name \in {i.columns[1] : i \in {j \in ToSet(t.indexes) : j.unique /\ Len(j.columns) = 1}},
        check |-> FALSE, default |-> NormalizeDefault(c.default), autoIncrement |-> c.autoIncrement,
        references |-> RenderReferenceOption(t, c.references)]

-----------------------------------------------------------------------------
(***************************************************************************)
(* The members of a class.  A relation whose property is a column takes    *)
(* the name of its target, one whose property is taken the name of its     *)
(* foreign key as well.                                                    *)
(***************************************************************************)
PropertyOf(t, used, r) ==
    LET free == IF Contains(Names(t.columns), r.property) THEN Camel(Singular(r.target)) ELSE r.property
    IN IF free \in used THEN free \o "_" \o Camel(r.foreignKey) ELSE free

RelationMembers(t, relations) ==
    FoldLeft(LAMBDA members, r :
                Append(members, [property |-> PropertyOf(t, {m.property : m \in ToSet(members)}, r), kind |-> r.kind,
                                 target |-> ClassNameFromTable(r.target), foreignKey |-> r.foreignKey,
                                 pivotTable |-> IF r.pivotTable = "" THEN "" ELSE ClassNameFromTable(r.pivotTable),
                                 toRoot |-> r.toRoot, toTarget |-> r.toTarget]),
             <<>>, relations)

(***************************************************************************)
(* In the class of a tree, TreeParent() and TreeChildren() stand for the   *)
(* relations of the parent key, and TreeChildren() is added when there is  *)
(* no has-many relation for it.                                            *)
(***************************************************************************)
IsTreeMember(t, tree, m) ==
    /\ tree # NoTree
    /\ m.kind \in {"belongsTo", "hasMany"}
    /\ m.foreignKey = tree.parentKey
    /\ m.target = ClassNameFromTable(t.name)

PropertyOfKind(members, kind, default) ==
    IF \E m \in members : m.kind = kind THEN (CHOOSE m \in members : m.kind = kind).property ELSE default

(***************************************************************************)
(* What a file of a class imports: the decorators its table and relations  *)
(* call for, and the classes its relations name.                           *)
(***************************************************************************)
Decorators == [belongsTo |-> "BelongsTo", hasMany |-> "HasMany", hasOne |-> "HasOne", belongsToMany |-> "BelongsToMany"]

MetalOrmImports(t, relations) ==
    LET tree == DetectTreeTable(t)
        IsTreeRelation(r) ==
            /\ tree # NoTree
            /\ r.kind \in {"belongsTo", "hasMany"}
            /\ r.foreignKey = tree.parentKey
            /\ r.target = t.name
    IN {"Entity"}
       \cup {IF Contains(t.primaryKey, c.name) THEN "PrimaryKey" ELSE "Column" : c \in ToSet(t.columns)}
       \cup {Decorators[r.kind] : r \in {s \in ToSet(relations) : ~IsTreeRelation(s)}}
       \cup (IF tree = NoTree THEN {} ELSE {"Tree", "TreeParent", "TreeChildren"})

RelationImports(t, relations) ==
    ({ClassNameFromTable(r.target) : r \in ToSet(relations)}
     \cup {ClassNameFromTable(r.pivotTable) : r \in {s \in ToSet(relations) : s.pivotTable # ""}})
    \ {ClassNameFromTable(t.name)}

RenderEntityClass(t, relations) ==
    LET class == ClassNameFromTable(t.name)
        tree == DetectTreeTable(t)
        members == RelationMembers(t, relations)
        ofTree == {m \in ToSet(members) : IsTreeMember(t, tree, m)}
    IN [name |-> class,
        tableName |-> IF t.name = DefaultTableNameFromClass(class) THEN "" ELSE t.name,
        columns |-> [i \in DOMAIN t.columns |-> RenderColumnExpression(t, t.columns[i])],
        relations |-> SelectSeq(members, LAMBDA m : m \notin ofTree),
        tree |-> tree,
        parentProperty |-> PropertyOfKind(ofTree, "belongsTo", ""),
        childrenProperty |-> IF tree = NoTree THEN "" ELSE PropertyOfKind(ofTree, "hasMany", HasManyProperty(t.name)),
        treeFirst |-> FALSE,
        imports |-> MetalOrmImports(t, relations) \cup RelationImports(t, relations)]

GenerateEntities(tables) ==
    LET relations == MapRelations(tables)
    IN [i \in DOMAIN tables |->
            RenderEntityClass(tables[i], SelectSeq(relations, LAMBDA r : r.owner = tables[i].name))]

=============================================================================
