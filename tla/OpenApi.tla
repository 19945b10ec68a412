------------------------------ MODULE OpenApi ------------------------------
(***************************************************************************)
(* The OpenAPI schemas of the tables an application received, and the      *)
(* components and names its documents share while relations are still      *)
(* being added (src/dto/openapi).                                          *)
(*                                                                         *)
(* A schema is the record of the keys that are told apart: type has one    *)
(* or two names, properties is a sequence of [name, schema] in the order   *)
(* of the object's keys, items has one schema or none, text stands for     *)
(* the description.                                                        *)
(***************************************************************************)
EXTENDS Entities

CONSTANTS
    Excluded,       \* names the options exclude from responses and filters
    Capital(_)      \* a name with its first letter in upper case

VARIABLES
    naming,         \* the deterministic naming state: pairs <<content, name>> in either direction
    components,     \* the reusable schemas extracted so far, in the order of extraction
    issued          \* what was published: [name, schema, document]

api == <<naming, components, issued>>
apiVars == <<vars, naming, components, issued>>

NoSchema == [type |-> <<>>, format |-> "", nullable |-> FALSE, properties |-> <<>>, required |-> <<>>,
             items |-> <<>>, ref |-> "", text |-> ""]
Typed(type) == [NoSchema EXCEPT !.type = <<type>>]
Property(name, s) == [name |-> name, schema |-> s]
Object(properties) == [Typed("object") EXCEPT !.properties = properties]
ArrayOf(s) == [Typed("array") EXCEPT !.items = <<s>>]
RefTo(name) == [NoSchema EXCEPT !.ref = name]
PropertyNamed(s, name) == Named(s.properties, name).schema

-----------------------------------------------------------------------------
(***************************************************************************)
(* Columns.                                                                *)
(***************************************************************************)
ColumnType(type) ==
    CASE type \in {"int", "integer"} -> [Typed("integer") EXCEPT !.format = "int32"]
      [] type = "bigint" -> [Typed("integer") EXCEPT !.format = "int64"]
      [] type \in {"decimal", "float", "double"} -> [Typed("number") EXCEPT !.format = "double"]
      [] type = "boolean" -> Typed("boolean")
      [] type = "date" -> [Typed("string") EXCEPT !.format = "date"]
      [] type \in {"datetime", "timestamp", "timestamptz"} -> [Typed("string") EXCEPT !.format = "date-time"]
      [] type = "uuid" -> [Typed("string") EXCEPT !.format = "uuid"]
      [] type \in {"blob", "binary", "varbinary", "bytea"} -> [Typed("string") EXCEPT !.format = "byte"]
      [] OTHER -> Typed("string")

Versions == {"openapi-3.0", "openapi-3.1"}

ApplyNullability(s, isNullable, version) ==
    CASE ~isNullable -> s
      [] isNullable /\ version = "openapi-3.0" -> [s EXCEPT !.nullable = TRUE]
      [] OTHER -> [s EXCEPT !.type = IF Contains(@, "null") THEN @ ELSE Append(@, "null")]

IsNullableColumn(c) == ~c.notNull

ColumnToOpenApiSchema(c, version) == ApplyNullability(ColumnType(c.type), IsNullableColumn(c), version)

Kept(columns) == SelectSeq(columns, LAMBDA c : c.name \notin Excluded)
Written(columns) == SelectSeq(columns, LAMBDA c : ~c.autoIncrement)
ColumnProperties(columns, version) ==
    [i \in DOMAIN columns |-> Property(columns[i].name, ColumnToOpenApiSchema(columns[i], version))]
Present(columns) == Names(SelectSeq(columns, LAMBDA c : c.notNull \/ c.primary))

-----------------------------------------------------------------------------
(***************************************************************************)
(* The bodies of responses and requests.  A default that is false for      *)
(* JavaScript is none.                                                     *)
(***************************************************************************)
DtoToOpenApiSchema(columns, version) ==
    [Object(ColumnProperties(Kept(columns), version)) EXCEPT !.required = Present(Kept(columns))]

Falsy == {NoDefault, <<"number", "0">>, <<"boolean", "FALSE">>, <<"null", "NULL">>, <<"string", "">>}

WithoutKeys(columns, version) == \* not the code
    [Object(ColumnProperties(Written(Kept(columns)), version)) EXCEPT
        !.required = Names(SelectSeq(Written(Kept(columns)), LAMBDA c : c.notNull /\ ~c.primary /\ c.default \in Falsy))]

CreateDtoToOpenApiSchema(columns, version) ==
    [Object(ColumnProperties(Written(Kept(columns)), version)) EXCEPT
        !.required = Names(SelectSeq(Written(Kept(columns)), LAMBDA c : c.notNull /\ c.default \in Falsy))]

UpdateDtoToOpenApiSchema(columns, version) == Object(ColumnProperties(Written(Kept(columns)), version))

(***************************************************************************)
(* A response with its relations.  A collection takes two levels of the    *)
(* depth: one for itself and one for its items.                            *)
(***************************************************************************)
IsToOne(r) == r.kind \in {"belongsTo", "hasOne"}
KeptRelations(id) == SelectSeq(tables[id].relations, LAMBDA r : r.property \notin Excluded)

RECURSIVE NestedDtoSchema(_, _)
NestedRelationSchema(r, depth) ==
    IF depth <= 0 THEN Object(<<>>)
    ELSE IF IsToOne(r) THEN NestedDtoSchema(r.target, depth)
    ELSE ArrayOf(NestedDtoSchema(r.target, depth - 1))

NestedDtoSchema(id, depth) ==
    IF depth <= 0 THEN Object(<<>>)
    ELSE Object(ColumnProperties(Kept(tables[id].columns), "openapi-3.1")
                \o [i \in DOMAIN KeptRelations(id) |->
                        Property(KeptRelations(id)[i].property, NestedRelationSchema(KeptRelations(id)[i], depth - 1))])

ForComponent(columns) == Object(ColumnProperties(Written(columns), "openapi-3.1"))

UpdateDtoWithRelations(id) ==
    LET ones == SelectSeq(tables[id].relations, IsToOne)
    IN Object(ForComponent(tables[id].columns).properties
              \o [i \in DOMAIN ones |-> Property(ones[i].property, ForComponent(tables[ones[i].target].columns))])

-----------------------------------------------------------------------------
(***************************************************************************)
(* Filters.                                                                *)
(***************************************************************************)
Values(names, s) == [i \in DOMAIN names |-> Property(names[i], s)]

ColumnToFilterSchema(c, version) ==
    LET s == ColumnType(c.type)
        isTime == s.format \in {"date", "date-time"}
        isOrdered == s.type[1] \in {"integer", "number"} \/ isTime
        isText == s.type[1] = "string" /\ ~isTime
    IN ApplyNullability(
            Object(Values(<<"equals", "not">>, s) \o Values(<<"in", "notIn">>, ArrayOf(s))
                   \o When(isOrdered, Values(<<"lt", "lte", "gt", "gte">>, s))
                   \o When(isText, Values(<<"contains", "startsWith", "endsWith", "mode">>, Typed("string")))),
            IsNullableColumn(c), version)

FilterProperties(columns, version) ==
    [i \in DOMAIN columns |-> Property(columns[i].name, ColumnToFilterSchema(columns[i], version))]

WhereInputToOpenApiSchema(columns, version) == Object(FilterProperties(columns, version))

(***************************************************************************)
(* Filters with relations: the columns of what a to-one relation leads to, *)
(* and for a collection what some, every or none of its items satisfy.     *)
(***************************************************************************)
Quantified(s) ==
    LET Told(operator, t) == Property(operator, [t EXCEPT !.text = operator])
    IN Object(<<Told("some", s), Told("every", s), Told("none", s),
                Told("isEmpty", Typed("boolean")), Told("isNotEmpty", Typed("boolean"))>>)

RECURSIVE RelationFilters(_, _, _)
NestedWhereInput(id, depth, version) ==
    IF depth <= 0 THEN Object(<<>>)
    ELSE Object(FilterProperties(tables[id].columns, version) \o RelationFilters(id, depth - 1, version))

SingleRelationFilter(r, columns, depth, version) ==
    [Object(FilterProperties(columns, version) \o IF depth > 0 THEN RelationFilters(r.target, depth - 1, version) ELSE <<>>)
        EXCEPT !.required = Present(columns)]

ManyRelationFilter(r, columns, depth, version) ==
    Quantified(IF depth > 0 THEN NestedWhereInput(r.target, depth, version) ELSE Object(FilterProperties(columns, version)))

RelationFilterToOpenApiSchema(r, columns, depth, version) ==
    IF IsToOne(r) THEN SingleRelationFilter(r, columns, depth, version) ELSE ManyRelationFilter(r, columns, depth, version)

RelationFilters(id, depth, version) ==
    LET relations == tables[id].relations
    IN [i \in DOMAIN relations |->
            Property(relations[i].property,
                     RelationFilterToOpenApiSchema(relations[i], tables[relations[i].target].columns, depth, version))]

WhereInputWithRelations(id, maxDepth, version) ==
    LET relations == When(maxDepth > 0, tables[id].relations)
    IN Object(FilterProperties(Kept(tables[id].columns), version)
              \o [i \in DOMAIN relations |->
                    Property(relations[i].property,
                             RelationFilterToOpenApiSchema(relations[i], Kept(tables[relations[i].target].columns), 0, version))])

-----------------------------------------------------------------------------
(***************************************************************************)
(* The components of a table; their filters of to-one relations require    *)
(* nothing, those of collections exclude nothing.                          *)
(***************************************************************************)
ComponentFilter(id) ==
    LET relations == tables[id].relations
        Filter(r) ==
            IF IsToOne(r) THEN Object(FilterProperties(Kept(tables[r.target].columns), "openapi-3.1"))
            ELSE Quantified(Object(FilterProperties(tables[r.target].columns, "openapi-3.1")))
    IN Object(FilterProperties(Kept(tables[id].columns), "openapi-3.1")
              \o [i \in DOMAIN relations |-> Property(relations[i].property, Filter(relations[i]))])

GenerateComponentSchemas(ids) ==
    [i \in DOMAIN ids |-> Property(tables[ids[i]].class, DtoToOpenApiSchema(tables[ids[i]].columns, "openapi-3.1"))]

GenerateRelationComponents(ids) ==
    FlattenSeq([i \in DOMAIN ids |->
        LET t == tables[ids[i]]
        IN <<Property(t.class \o "Create", ForComponent(t.columns)), Property(t.class \o "Update", ForComponent(t.columns)),
             Property(t.class \o "Filter", ComponentFilter(ids[i]))>>])

(***************************************************************************)
(* The components of a tree.                                               *)
(***************************************************************************)
Required(s, names) == [s EXCEPT !.required = names]

TreeNode(columns, version) ==
    Required(Object(<<Property("entity", DtoToOpenApiSchema(columns, version))>>
                    \o Values(<<"lft", "rght">>, Typed("integer")) \o Values(<<"isLeaf", "isRoot">>, Typed("boolean"))
                    \o Values(<<"childCount", "depth">>, Typed("integer"))),
             <<"entity", "lft", "rght", "isLeaf", "isRoot", "childCount">>)

ParentSchema(c, version) ==
    LET parent == SelectSeq(c.columns, LAMBDA column : column.name = c.tree.parentKey)
    IN IF parent = <<>> THEN [NoSchema EXCEPT !.type = <<"string", "null">>] ELSE ColumnToOpenApiSchema(parent[1], version)

TreeNodeResult(c, version) ==
    Required(Object(<<Property("data", DtoToOpenApiSchema(c.columns, version))>> \o Values(<<"lft", "rght">>, Typed("integer"))
                    \o <<Property("parentId", ParentSchema(c, version))>>
                    \o Values(<<"isLeaf", "isRoot">>, Typed("boolean")) \o Values(<<"depth">>, Typed("integer"))),
             <<"data", "lft", "rght", "parentId", "isLeaf", "isRoot">>)

ThreadedNode(columns, name, version) ==
    Required(Object(<<Property("node", DtoToOpenApiSchema(columns, version)), Property("children", ArrayOf(RefTo(name)))>>),
             <<"node", "children">>)

TreeListEntry ==
    Required(Object(<<Property("key", Typed("integer")), Property("value", Typed("string")), Property("depth", Typed("integer"))>>),
             <<"key", "value", "depth">>)

GenerateTreeComponents(c, version) ==
    LET threaded == c.name \o "TreeNode"
    IN <<Property(c.name, DtoToOpenApiSchema(c.columns, version)), Property(c.name \o "Node", TreeNode(c.columns, version)),
         Property(c.name \o "NodeResult", TreeNodeResult(c, version)),
         Property(threaded, ThreadedNode(c.columns, threaded, version)),
         Property(c.name \o "TreeList", ArrayOf(TreeListEntry)), Property(c.name \o "ThreadedTree", ArrayOf(RefTo(threaded)))>>

-----------------------------------------------------------------------------
(***************************************************************************)
(* A name for a schema: the one its content has, else the base name, else  *)
(* the base name with the hash of the content.  What is hashed is the      *)
(* schema without order, and without any key "description" or "example",   *)
(* be it one of the schema's own or the name of a property; no two         *)
(* contents share a hash.                                                  *)
(***************************************************************************)
RECURSIVE Content(_, _)
Content(s, skipped) ==
    [s EXCEPT !.text = "",
              !.properties = {<<p.name, Content(p.schema, skipped)>> : p \in {q \in ToSet(@) : q.name \notin skipped}},
              !.items = [i \in DOMAIN @ |-> Content(@[i], skipped)]]
CanonicalizeSchema(s) == Content(s, {"description", "example"})

CreateDeterministicNamingState == [nameOf |-> {}, hashOf |-> {}]

Plain(base) == <<base, {}>>
Suffixed(base, hash) == <<base, {hash}>>
Assigned(state, hash, name) ==
    [nameOf |-> state.nameOf \cup {<<hash, name>>}, hashOf |-> state.hashOf \cup {<<name, hash>>}]
Entry(pairs, key) == {p[2] : p \in {q \in pairs : q[1] = key}}

GetDeterministicComponentName(base, s, state) ==
    LET hash == CanonicalizeSchema(s)
        existing == Entry(state.nameOf, hash)
        taken == Entry(state.hashOf, Plain(base))
        name == IF taken = {} THEN Plain(base) ELSE Suffixed(base, hash)
    IN IF existing # {} THEN [name |-> CHOOSE n \in existing : TRUE, state |-> state]
       ELSE IF hash \in taken THEN [name |-> Plain(base), state |-> state]
       ELSE [name |-> name, state |-> Assigned(state, hash, name)]

(***************************************************************************)
(* The objects of a schema as components, named by the path to them; the   *)
(* first of a name is kept.  A nullable object has two types and is none.  *)
(***************************************************************************)
IsObject(s) == s.type = <<"object">>

RECURSIVE ObjectsIn(_, _)
ObjectsIn(s, prefix) ==
    (IF IsObject(s)
     THEN FlattenSeq([i \in DOMAIN s.properties |-> ObjectsIn(s.properties[i].schema, prefix \o Capital(s.properties[i].name))])
     ELSE FlattenSeq([i \in DOMAIN s.items |-> ObjectsIn(s.items[i], prefix)]))
    \o When(IsObject(s) /\ s.ref = "" /\ s.properties # <<>>, <<Property(prefix, s)>>)

LastOfName(found) == \* not the code
    FlattenSeq([i \in DOMAIN found |->
        When(\A j \in DOMAIN found : j > i => found[j].name # found[i].name, <<found[i]>>)])

FirstOfName(found) ==
    FlattenSeq([i \in DOMAIN found |->
        When(\A j \in 1 .. (i - 1) : found[j].name # found[i].name, <<found[i]>>)])

ExtractReusableSchemas(s, existing, prefix) == FirstOfName(existing \o ObjectsIn(s, prefix))

RECURSIVE ReplaceWithRefs(_, _)
ReplaceWithRefs(s, map) ==
    LET same == SelectSeq(map, LAMBDA p : p.schema = s)
    IN IF s.ref # "" THEN s
       ELSE IF same # <<>> THEN RefTo(same[1].name)
       ELSE IF IsObject(s)
       THEN [s EXCEPT !.properties = [i \in DOMAIN @ |-> Property(@[i].name, ReplaceWithRefs(@[i].schema, map))]]
       ELSE [s EXCEPT !.items = [i \in DOMAIN @ |-> ReplaceWithRefs(@[i], map)]]

(***************************************************************************)
(* A table the application received is published: its responses or its     *)
(* filters get a name, what they share with others becomes components.     *)
(***************************************************************************)
Contents == {"response", "update", "filter", "search"}

SchemaOf(id, content) ==
    CASE content = "response" -> NestedDtoSchema(id, 3)
      [] content = "update" -> UpdateDtoWithRelations(id)
      [] content = "filter" -> NestedWhereInput(id, 2, "openapi-3.1")
      [] content = "search" -> WhereInputWithRelations(id, 3, "openapi-3.1")

Publish(id, content) ==
    /\ Cardinality(issued) < setup.documents
    /\ LET s == SchemaOf(id, content)
           named == GetDeterministicComponentName(tables[id].class, s, naming)
       IN /\ naming' = named.state
          /\ components' = ExtractReusableSchemas(s, components, Capital(tables[id].class))
          /\ issued' = issued \cup {[name |-> named.name, schema |-> s, document |-> ReplaceWithRefs(s, components')]}
    /\ UNCHANGED vars

ApiInit ==
    /\ Init
    /\ naming = CreateDeterministicNamingState
    /\ components = <<>>
    /\ issued = {}

ApiNext ==
    \/ Next /\ UNCHANGED api
    \/ \E id \in given, content \in Contents : Publish(id, content)

ApiSpec == ApiInit /\ [][ApiNext]_apiVars

-----------------------------------------------------------------------------
(***************************************************************************)
(* While relations are added between publications, a name keeps standing   *)
(* for one schema and a schema keeps its name, and a document published    *)
(* before or after says with the components what it said in full.  Two     *)
(* schemas are one when all their properties are, whatever their names.    *)
(***************************************************************************)
RECURSIVE Expanded(_)
Expanded(s) ==
    IF s.ref # "" THEN (CHOOSE p \in ToSet(components) : p.name = s.ref).schema
    ELSE [s EXCEPT !.properties = [i \in DOMAIN @ |-> Property(@[i].name, Expanded(@[i].schema))],
                   !.items = [i \in DOMAIN @ |-> Expanded(@[i])]]

DocumentsHold ==
    \A x \in issued :
        /\ Expanded(x.document) = x.schema
        /\ \A y \in issued : (x.name = y.name) <=> (Content(x.schema, {}) = Content(y.schema, {}))

(***************************************************************************)
(* What the schemas allow the program takes: a body for an insertion has   *)
(* all the database needs, a row of the database is a valid response, the  *)
(* parent of a root may be null, the components of a tree refer to each    *)
(* other, and a filter for a collection, at any depth, asks for columns    *)
(* and collections applyFilter() knows.  (A filter for a to-one relation   *)
(* names columns where applyFilter() wants an operator.)                   *)
(***************************************************************************)
IsNullable(s) == s.nullable \/ Contains(s.type, "null")
HasProperty(s, name) == \E i \in DOMAIN s.properties : s.properties[i].name = name

Needs(c) == c.notNull /\ c.default = NoDefault /\ ~c.autoIncrement

BodiesFit(stored, columns, version) ==
    LET create == CreateDtoToOpenApiSchema(columns, version)
        update == UpdateDtoToOpenApiSchema(columns, version)
        response == DtoToOpenApiSchema(columns, version)
    IN \A c \in ToSet(Kept(stored)) :
          /\ Needs(c) => Contains(create.required, c.name) /\ ~IsNullable(PropertyNamed(create, c.name))
          /\ ~c.autoIncrement => HasProperty(update, c.name)
          /\ ~c.notNull => IsNullable(PropertyNamed(response, c.name))

ComponentsFit(stored, id) ==
    LET generated == GenerateRelationComponents(<<id>>)
        response == GenerateComponentSchemas(<<id>>)[1].schema
    IN /\ \A c \in ToSet(stored) : Needs(c) => HasProperty(generated[1].schema, c.name)
       /\ \A name \in ToSet(response.required) : \E c \in ToSet(stored) : c.name = name /\ c.notNull

RECURSIVE Taken(_, _)
Taken(s, id) ==
    \A i \in DOMAIN s.properties :
        LET name == s.properties[i].name
            relation == SelectSeq(tables[id].relations, LAMBDA r : r.property = name)
        IN \/ Contains(Names(tables[id].columns), name)
           \/ /\ relation # <<>>
              /\ IsToOne(relation[1]) \/ \A operator \in {"some", "every", "none"} :
                    Taken(PropertyNamed(s.properties[i].schema, operator), relation[1].target)

RefsOf(s) == {t.items[1].ref : t \in {u \in {s} \cup {p.schema : p \in ToSet(s.properties)} : u.items # <<>>}} \ {""}

DocumentedIsAccepted ==
    Loaded =>
        \A version \in Versions :
            /\ \A id \in DOMAIN tables :
                  LET stored == (CHOOSE t \in ToSet(setup.db) : t.name = tables[id].name).columns
                  IN /\ BodiesFit(stored, tables[id].columns, version)
                     /\ ComponentsFit(stored, id)
                     /\ \A filter \in {WhereInputToOpenApiSchema(tables[id].columns, version), NestedWhereInput(id, 2, version),
                                       WhereInputWithRelations(id, 3, version), ComponentFilter(id)} : Taken(filter, id)
            /\ \A c \in ToSet(classes) : c.tree # NoTree =>
                  LET generated == GenerateTreeComponents(c, version)
                  IN /\ IsNullable(PropertyNamed(TreeNodeResult(c, version), "parentId"))
                     /\ UNION {RefsOf(p.schema) : p \in ToSet(generated)} \subseteq {p.name : p \in ToSet(generated)}
=============================================================================
