----------------------------- MODULE MCQueries -----------------------------
(* Instances of Select for TLC.                                            *)
EXTENDS Select

Row(id, key, fk, own) == [NullRow EXCEPT !.id = id, !.key = key, !.fk = fk, !.own = own]
Link(id, root, target) == [NullRow EXCEPT !.id = id, !.root = root, !.target = target]

\* Two relations share the table "items", one leads from users to users.
MCRels ==
    "orders" :> [kind |-> "HasMany", target |-> "items"] @@
    "notes" :> [kind |-> "MorphMany", target |-> "items"] @@
    "tags" :> [kind |-> "BelongsToMany", target |-> "tags"] @@
    "badge" :> [kind |-> "HasOne", target |-> "badges"] @@
    "boss" :> [kind |-> "BelongsTo", target |-> "users"]

\* A user with many children and a pair that is linked twice; children of nobody.
Crowded ==
    "users" :> {Row(1, 1, 0, TRUE), Row(2, 1, 1, TRUE), Row(3, 2, 2, TRUE)} @@
    "items" :> {Row(1, 1, 3, TRUE), Row(2, 2, 1, TRUE), Row(3, 1, 1, FALSE), Row(4, 1, 0, TRUE)} @@
    "tags" :> {Row(1, 1, 0, TRUE), Row(2, 2, 0, TRUE)} @@
    "links" :> {Link(1, 1, 2), Link(2, 2, 1), Link(3, 1, 1), Link(4, 1, 1)} @@
    "badges" :> {Row(1, 2, 1, TRUE), Row(2, 1, 3, TRUE)}

MCDatabases == {Crowded}

Plain == [filter |-> "none", kind |-> "LEFT", cols |-> {"key"}]
OfTarget == [filter |-> "self", kind |-> "INNER", cols |-> {}]
OfRoot == [filter |-> "cross", kind |-> "LEFT", cols |-> {}]

MCOptions ==
    "orders" :> {Plain, OfTarget, OfRoot} @@ "tags" :> {OfTarget, OfRoot} @@
    "notes" :> {OfTarget} @@ "badge" :> {Plain} @@ "boss" :> {Plain, OfTarget}
=============================================================================
