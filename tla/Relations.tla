------------------------------ MODULE Relations ------------------------------
(***************************************************************************)
(* Relation wrappers of metal-orm (orm/relations), the batches that fill   *)
(* them (lazy-batch, entity-relation-cache.ts), the queue of relation      *)
(* changes that a commit works off (relation-change-processor.ts), and     *)
(* saveGraph() on top.  There is one relation, of any of the seven kinds,  *)
(* between parents and children.  Children carry the foreign key, save in  *)
(* belongsToMany, where a pivot table does.  belongsTo and morphTo are     *)
(* wrappers of children, the others of parents.                            *)
(***************************************************************************)
EXTENDS Naturals, Sequences, FiniteSets, SequencesExt

CONSTANTS Parents, Children,
          Setups, \* the relations to look at, of a kind and with a cascade, and for each
                  \*   fresh: parents and children that are not in the database at first,
                  \*   homes: the parents that have children at first,
                  \*   samePk: whether the primary keys of its targets have one name,
                  \*   max: bound on the changes
          None

ASSUME RelationAssumption ==
  Setups \subseteq [kind : {"hasMany", "morphMany", "hasOne", "morphOne", "belongsTo", "morphTo", "belongsToMany"},
                    cascade : {"none", "remove"}, fresh : SUBSET (Parents \cup Children), homes : SUBSET Parents,
                    samePk : BOOLEAN, max : Nat]

VARIABLES setup,    \* of the relation
          exists,   \* rows of both tables
          stored,   \* the foreign keys in the table of the children
          pivot,    \* how many rows of the pivot table join a parent and a child
          status,   \* of the entities: "untracked", "new", "managed", "dirty", "removed"
          link,     \* the foreign keys in memory
          wrapper,  \* of an owner: whether it is there, is loaded, and what it holds
          cache,    \* the batch whose promise an owner keeps (relationCache)
          hydration,\* the batch whose rows an owner has (relationHydration)
          batch,    \* a batch, named after the owner that has started it
          loading,  \* calls of load() that wait: an owner, and who called
          queue,    \* registered changes
          work,     \* changes that the commit has yet to process
          phase,    \* of the commit
          graph,    \* a saveGraph() or syncByIds() under way
          changes,  \* changes of relations so far
          told,     \* the relation as the calls have ordered it
          excused,  \* children for which the code is known not to do as told
          disturbed \* owners whose wrapper is known not to follow

tables   == <<exists, stored, pivot>>
entities == <<status, link>>
loads    == <<cache, hydration, batch, loading>>
commit   == <<work, phase>>
ghosts   == <<told, excused, disturbed>>
vars == <<setup, tables, entities, wrapper, loads, queue, commit, graph, changes, ghosts>>

(***************************************************************************)
(* Kinds and foreign keys.                                                 *)
(***************************************************************************)

kind    == setup.kind
cascade == setup.cascade
Fresh   == setup.fresh

FromChild == kind \in {"belongsTo", "morphTo"}
Morph   == kind \in {"morphMany", "morphOne", "morphTo"}
Many    == kind \in {"hasMany", "morphMany"}
One     == kind \in {"hasOne", "morphOne"}
Pivoted == kind = "belongsToMany"
Owners  == IF FromChild THEN Children ELSE Parents
Anyone  == Parents \cup Children

\* Polymorphic parents are of different tables and have the same key.
LinkTo(p) == IF Morph THEN [type |-> p, id |-> 1] ELSE [type |-> None, id |-> p]
NoLink    == [type |-> None, id |-> None]

Tracked(e) == status[e] # "untracked"
Keyed(e)   == status[e] \in {"managed", "dirty", "removed"}
KeyIn(p)   == IF Keyed(p) THEN LinkTo(p) ELSE NoLink

Idle     == [op |-> "idle", ready |-> FALSE, root |-> None, todo |-> <<>>, all |-> {}, prune |-> FALSE]
NoBatch  == [state |-> "none", roots |-> {}, keys |-> {}, rows |-> {}, seen |-> {}]
Start(o) == [there |-> FALSE, loaded |-> FALSE, items |-> {}]

Pairs == Parents \X Children

\* What the tables say of the relation.
Links ==
  IF Pivoted THEN {pc \in Pairs : pc[2] \in exists /\ pivot[pc] > 0}
  ELSE {pc \in Pairs : pc[2] \in exists /\ stored[pc[2]] = LinkTo(pc[1])}

Of(o, pairs) == IF FromChild THEN {p \in Parents : <<p, o>> \in pairs}
                           ELSE {c \in Children : <<o, c>> \in pairs}

Init ==
  /\ setup \in Setups
  /\ exists = Anyone \ Fresh
  /\ \E owner \in [Children -> (setup.homes \ Fresh) \cup {None}] :
       /\ \A c \in Children \cap Fresh : owner[c] = None
       /\ One => \A c, d \in Children : c = d \/ owner[c] # owner[d] \/ owner[c] = None
       /\ stored = [c \in Children |-> IF Pivoted \/ owner[c] = None THEN NoLink ELSE LinkTo(owner[c])]
       /\ pivot = [pc \in Pairs |-> IF Pivoted /\ owner[pc[2]] = pc[1] THEN 1 ELSE 0]
  /\ \E found \in SUBSET exists :
       /\ Owners \cap exists \subseteq found
       /\ status = [e \in Anyone |-> IF e \in found THEN "managed" ELSE "untracked"]
       /\ link = [c \in Children |-> IF c \in found THEN stored[c] ELSE NoLink]
  /\ wrapper = [o \in Anyone |-> Start(o)]
  /\ cache = [o \in Anyone |-> None] /\ hydration = [o \in Anyone |-> None]
  /\ batch = [o \in Anyone |-> NoBatch] /\ loading = {}
  /\ queue = <<>> /\ work = <<>> /\ phase = "idle" /\ graph = Idle /\ changes = 0
  /\ told = Links /\ excused = {} /\ disturbed = {}

(***************************************************************************)
(* Entities.                                                               *)
(***************************************************************************)

Dirty(st, e) == IF st[e] \in {"new", "removed", "untracked"} THEN st ELSE [st EXCEPT ![e] = "dirty"]
Removed(st, e) == IF st[e] = "untracked" THEN st ELSE [st EXCEPT ![e] = "removed"]

\* createEntityFromRow(): an entity that is tracked stays as it is.
TrackAll(st, S) == [e \in Anyone |-> IF e \in S /\ st[e] = "untracked" THEN "managed" ELSE st[e]]
LinkAll(S, row) == [c \in Children |-> IF c \in S /\ ~Tracked(c) THEN row[c] ELSE link[c]]

\* A new owner that is not in any relation.
Create(e) ==
  /\ ~Tracked(e) /\ excused = {} /\ e \in (Owners \cap Fresh) \ exists
  /\ status' = [status EXCEPT ![e] = "new"]
  /\ UNCHANGED <<setup, tables, link, wrapper, loads, queue, commit, graph, changes, ghosts>>

(***************************************************************************)
(* Loading.                                                                *)
(***************************************************************************)

\* The entities of the owner's table that the identity map has.
Peers(o) == {q \in Owners : Keyed(q) /\ (Morph /\ ~FromChild => q = o)}

\* What the loaders put under the key of an owner; for a child its parent, if the foreign key it
\* has by now was asked for.
RowsByKey(b, p)   == {pc[2] : pc \in {x \in b.rows : LinkTo(x[1]).id = LinkTo(p).id}}
RowOfParent(b, c) == {p \in Parents : link[c] = LinkTo(p) /\ LinkTo(p) \in b.keys}

RowsUnder(b, o) == IF FromChild THEN RowOfParent(b, o) ELSE RowsByKey(b, o)

\* groupRowsByUnique() keeps the first row, whichever that is.
RowsOf(b, o) ==
  IF One /\ RowsUnder(b, o) # {} THEN {{c} : c \in RowsUnder(b, o)} ELSE {RowsUnder(b, o)}

\* Whether rows of a batch are out of date, or never were for this owner.
Outdated(b, o) ==
  IF FromChild
  THEN Of(o, told) # {p \in Parents : link[o] = LinkTo(p)} \/ link[o] \notin b.keys \cup {NoLink}
  ELSE Of(o, told) # Of(o, b.seen) \/ LinkTo(o) \notin b.keys

KeysOf(S) == IF FromChild THEN {link[c] : c \in S} \ {NoLink}
             ELSE {LinkTo(p) : p \in {q \in S : Keyed(q)}}

\* hydrateFromCache(): on the first access, if rows are there.
Access(o) ==
  /\ Tracked(o) /\ ~wrapper[o].there /\ excused = {}
  /\ LET b == batch[hydration[o]] IN
     \E rows \in IF hydration[o] = None \/ (~Keyed(o) /\ ~FromChild) THEN {{}} ELSE RowsOf(b, o) :
         /\ wrapper' = [wrapper EXCEPT ![o] = [there |-> TRUE, loaded |-> rows # {}, items |-> rows]]
         /\ status' = TrackAll(status, rows)
         /\ link' = IF FromChild THEN link ELSE LinkAll(rows, stored)
         /\ disturbed' = IF rows # {} /\ Outdated(b, o) THEN disturbed \cup {o} ELSE disturbed
  /\ UNCHANGED <<setup, tables, loads, queue, commit, graph, changes, told, excused>>

\* relationLoaderCache(): one promise for all entities of the table.  The keys are
\* collected at once.
Factory(o) ==
  IF cache[o] # None
  THEN UNCHANGED <<cache, batch>>
  ELSE /\ cache' = [q \in Anyone |-> IF q \in Peers(o) \cup {o} THEN o ELSE cache[q]]
       /\ batch' = [batch EXCEPT ![o].state = "asked", ![o].keys = KeysOf(Peers(o)),
                                    ![o].roots = IF kind = "belongsTo" THEN Peers(o) ELSE {}]

\* A morphTo whose columns are empty does not ask.
LoadNothing(o) ==
  /\ kind = "morphTo" /\ wrapper[o].there /\ ~wrapper[o].loaded /\ link[o] = NoLink
  /\ wrapper' = [wrapper EXCEPT ![o].loaded = TRUE]
  /\ disturbed' = IF Of(o, told) = wrapper[o].items THEN disturbed ELSE disturbed \cup {o}
  /\ UNCHANGED <<setup, tables, entities, loads, queue, commit, graph, changes, told, excused>>

Load(o) ==
  /\ wrapper[o].there /\ excused = {} /\ ~wrapper[o].loaded /\ <<o, "user">> \notin loading
  /\ kind = "morphTo" => link[o] # NoLink
  /\ Factory(o)
  /\ loading' = loading \cup {<<o, "user">>}
  /\ UNCHANGED <<setup, tables, entities, wrapper, hydration, queue, commit, graph, changes, ghosts>>

\* If none of the children has a foreign key loadBelongsToRelation() asks for these first.
Refetch(o) ==
  /\ kind = "belongsTo" /\ batch[o].state = "asked" /\ batch[o].keys = {}
  /\ LET found == {c \in batch[o].roots : Keyed(c) /\ link[c] = NoLink /\ c \in exists /\ stored[c] # NoLink}
         now == [c \in Children |-> IF c \in found THEN stored[c] ELSE link[c]]
     IN  /\ link' = now
         /\ status' = [e \in Anyone |-> IF e \in found THEN Dirty(status, e)[e] ELSE status[e]]
         /\ excused' = excused \cup {c \in found : ~\E p \in Of(c, told) : stored[c] = LinkTo(p)}
         /\ batch' = [batch EXCEPT ![o].state = "refetched",
                                   ![o].keys = {now[c] : c \in batch[o].roots} \ {NoLink}]
  /\ UNCHANGED <<setup, tables, wrapper, cache, hydration, loading, queue, commit, graph, changes, told, disturbed>>

\* The rows of the keys, and of the discriminator of a polymorphic relation; a bug that forgets
\* the latter.
RowsForIds(keys) == {pc \in Links : (\E k \in keys : k.id = LinkTo(pc[1]).id) /\ pc[2] \in exists}
RowsFor(keys)    == {pc \in Links : LinkTo(pc[1]) \in keys /\ pc[2] \in exists}

\* The statement reads the tables; all entities of the table then know its rows.
Query(o) ==
  /\ batch[o].state = "refetched" \/ (batch[o].state = "asked" /\ (kind = "belongsTo" => batch[o].keys # {}))
  /\ batch' = [batch EXCEPT ![o].state = "done", ![o].seen = Links, ![o].rows = RowsFor(batch[o].keys)]
  /\ hydration' = [q \in Anyone |-> IF q \in Peers(o) THEN o ELSE hydration[q]]
  /\ UNCHANGED <<setup, tables, entities, wrapper, cache, loading, queue, commit, graph, changes, ghosts>>

LoadHasMany(o)       == kind = "hasMany" /\ Query(o)
LoadHasOne(o)        == kind = "hasOne" /\ Query(o)
LoadMorphMany(o)     == kind = "morphMany" /\ Query(o)
LoadMorphOne(o)      == kind = "morphOne" /\ Query(o)
LoadBelongsTo(o)     == kind = "belongsTo" /\ Query(o)
LoadMorphTo(o)       == kind = "morphTo" /\ Query(o)
LoadBelongsToMany(o) == kind = "belongsToMany" /\ Query(o)

QueryFails(o) ==
  /\ batch[o].state = "asked"
  /\ batch' = [batch EXCEPT ![o].state = "failed"]
  /\ UNCHANGED <<setup, tables, entities, wrapper, cache, hydration, loading, queue, commit, graph, changes, ghosts>>

\* After the await load() replaces what the wrapper holds, whoever has filled it meanwhile.
\* A morphTo without a row keeps what it has, and so does a has-one of a root without key.
Filled(o, rows) ==
  IF (kind = "morphTo" /\ rows = {}) \/ (One /\ ~Keyed(o)) THEN wrapper[o].items ELSE rows

Loaded(o, who) ==
  /\ <<o, who>> \in loading /\ batch[cache[o]].state = "done"
  /\ loading' = loading \ {<<o, who>>}
  /\ LET b == batch[cache[o]] IN
     \E rows \in IF Keyed(o) \/ FromChild THEN RowsOf(b, o) ELSE {{}} :
         /\ wrapper' = [wrapper EXCEPT ![o].loaded = TRUE, ![o].items = Filled(o, rows)]
         /\ status' = TrackAll(status, rows)
         /\ link' = IF FromChild THEN link ELSE LinkAll(rows, stored)
         /\ disturbed' = IF Outdated(b, o) THEN disturbed \cup {o} ELSE disturbed
  /\ graph' = IF who = "graph" THEN [graph EXCEPT !.ready = TRUE] ELSE graph
  /\ UNCHANGED <<setup, tables, cache, hydration, batch, queue, commit, changes, told, excused>>

LoadRejects(o, who) ==
  /\ <<o, who>> \in loading /\ batch[cache[o]].state = "failed"
  /\ loading' = loading \ {<<o, who>>}
  /\ graph' = IF who = "graph" THEN Idle ELSE graph
  /\ UNCHANGED <<setup, tables, entities, wrapper, cache, hydration, batch, queue, commit, changes, ghosts>>

(***************************************************************************)
(* Changes.  The ghosts follow: told is what the call means; excused gets  *)
(* the children, and disturbed the wrappers, that the code loses track of. *)
(***************************************************************************)

Entry(change, o, e) == [change |-> change, root |-> o, target |-> e]
Register(es) == queue' = queue \o es

Busy(o) == \E who \in {"user", "graph"} : <<o, who>> \in loading
Disturb(S) == disturbed' = disturbed \cup {o \in S : Busy(o)}
\* A new or known entity for what the caller hands over.
Ensure(st, e) == IF st[e] # "untracked" THEN st
                 ELSE [st EXCEPT ![e] = IF e \in Fresh \ exists THEN "new" ELSE "managed"]

HoldersOf(c) == {q \in Parents : c \in wrapper[q].items}
Doomed(c) == \/ status[c] = "removed"
             \/ Ensure(status, c)[c] # "new" /\ c \notin exists
             \/ (cascade = "remove" /\ \E e \in Range(queue) \cup Range(work) : e.change \in {"remove", "detach"} /\ e.target = c)
ToldAlone(p, c) == {x \in told : x[2] # c} \cup {<<p, c>>}

\* With cascade the row of a detached child goes, whoever else it is joined to.
Untold(p, S) == IF Pivoted /\ cascade = "remove" THEN {x \in told : x[2] \notin S} ELSE told \ ({p} \X S)
Bereft(p, S) == {q \in {p} : Busy(q)} \cup
                {q \in Parents \ {p} : \E c \in S : c \in wrapper[q].items /\ Pivoted /\ cascade = "remove"}

\* One deviation at a time: nothing new is begun after a child is excused.
CanChange(o) == wrapper[o].there /\ changes < setup.max /\ excused = {}
Changed == changes' = changes + 1

\* add(): a new child with the key of the root.
AddTo(p, c) ==
  /\ CanChange(p) /\ Changed /\ ~Tracked(c) /\ c \in Fresh \ exists
  /\ status' = Ensure(status, c)
  /\ link' = [link EXCEPT ![c] = KeyIn(p)]
  /\ wrapper' = [wrapper EXCEPT ![p].items = @ \cup {c}]
  /\ Register(<<Entry("add", p, c)>>)
  /\ told' = told \cup {<<p, c>>} /\ Disturb({p})
  /\ UNCHANGED <<setup, tables, loads, commit, graph, excused>>

Add(p, c)      == kind = "hasMany" /\ AddTo(p, c)
MorphAdd(p, c) == kind = "morphMany" /\ AddTo(p, c)

\* What attach() of has-many and morph-many does, also on behalf of saveGraph().
DoAttach(p, c) ==
  /\ status' = Dirty(Ensure(status, c), c)
  /\ link' = [link EXCEPT ![c] = KeyIn(p)]
  /\ wrapper' = [wrapper EXCEPT ![p].items = @ \cup {c}]
  /\ Register(<<Entry("attach", p, c)>>)
  /\ told' = ToldAlone(p, c)
  /\ excused' = IF Doomed(c) THEN excused \cup {c} ELSE excused
  /\ disturbed' = disturbed \cup (HoldersOf(c) \ {p}) \cup {q \in {p} : Busy(q)}

AttachTo(p, c) ==
  /\ CanChange(p) /\ Changed /\ Tracked(c)
  /\ DoAttach(p, c)
  /\ UNCHANGED <<setup, tables, loads, commit, graph>>

Attach(p, c)      == kind = "hasMany" /\ AttachTo(p, c)
MorphAttach(p, c) == kind = "morphMany" /\ AttachTo(p, c)

\* A child that another root has taken over is detached from there as well.
RemoveFrom(p, c) ==
  /\ CanChange(p) /\ Changed /\ c \in wrapper[p].items
  /\ wrapper' = [wrapper EXCEPT ![p].items = @ \ {c}]
  /\ Register(<<Entry("remove", p, c)>>)
  /\ told' = told \ {<<p, c>>}
  /\ excused' = IF <<p, c>> \in told THEN excused ELSE excused \cup {c}
  /\ Disturb({p})
  /\ UNCHANGED <<setup, tables, entities, loads, commit, graph>>

RemoveChild(p, c) == kind = "hasMany" /\ RemoveFrom(p, c)
MorphRemove(p, c) == kind = "morphMany" /\ RemoveFrom(p, c)

Clear(p) ==
  /\ Many /\ CanChange(p) /\ Changed
  /\ wrapper' = [wrapper EXCEPT ![p].items = {}]
  /\ Register([i \in 1..Cardinality(wrapper[p].items) |-> Entry("remove", p, SetToSeq(wrapper[p].items)[i])])
  /\ told' = told \ ({p} \X wrapper[p].items)
  /\ excused' = excused \cup {c \in wrapper[p].items : <<p, c>> \notin told}
  /\ Disturb({p})
  /\ UNCHANGED <<setup, tables, entities, loads, commit, graph>>

\* What a caller has an entity or the data of, and what a payload of saveGraph() can name.
Known    == {e \in Anyone : Tracked(e)} \cup Fresh
Nameable == Known \cup exists

\* set() of has-one and morph-one; a child that was never loaded stays where it is.
SetOf(p, c) ==
  /\ CanChange(p) /\ Changed
  /\ status' = Dirty(Ensure(status, c), c)
  /\ link' = [link EXCEPT ![c] = KeyIn(p)]
  /\ wrapper' = [wrapper EXCEPT ![p] = [there |-> TRUE, loaded |-> TRUE, items |-> {c}]]
  /\ Register([i \in 1..Cardinality(wrapper[p].items \ {c}) |->
                 Entry("remove", p, SetToSeq(wrapper[p].items \ {c})[i])] \o <<Entry("attach", p, c)>>)
  /\ told' = {x \in told : x[1] # p /\ x[2] # c} \cup {<<p, c>>}
  /\ excused' = excused \cup (Of(p, told) \ (wrapper[p].items \cup {c})) \cup {d \in {c} : Doomed(d)}
                        \cup {d \in wrapper[p].items \ {c} : <<p, d>> \notin told}
  /\ disturbed' = disturbed \cup (HoldersOf(c) \ {p}) \cup {q \in {p} : Busy(q)}
  /\ UNCHANGED <<setup, tables, loads, commit, graph>>

\* Nothing is done to a child that was never loaded.
SetNullOf(p) ==
  /\ CanChange(p) /\ Changed
  /\ wrapper' = [wrapper EXCEPT ![p] = IF @.items = {} THEN @ ELSE [@ EXCEPT !.loaded = TRUE, !.items = {}]]
  /\ Register([i \in 1..Cardinality(wrapper[p].items) |-> Entry("remove", p, SetToSeq(wrapper[p].items)[i])])
  /\ told' = {x \in told : x[1] # p}
  /\ excused' = excused \cup (Of(p, told) \ wrapper[p].items)
                        \cup {d \in wrapper[p].items : <<p, d>> \notin told}
  /\ Disturb({p})
  /\ UNCHANGED <<setup, tables, entities, loads, commit, graph>>

SetOne(p, c)       == kind = "hasOne" /\ c \in Known /\ SetOf(p, c)
SetMorphOne(p, c)  == kind = "morphOne" /\ c \in Known /\ SetOf(p, c)
SetOneNull(p)      == kind = "hasOne" /\ SetNullOf(p)
SetMorphOneNull(p) == kind = "morphOne" /\ SetNullOf(p)

\* set() of belongs-to: a new parent has no key yet, and nobody comes back to it.
SetParentOf(c, p, st) ==
  /\ kind = "belongsTo" /\ CanChange(c) /\ Changed
  /\ status' = IF st[p] = "new" THEN st ELSE Dirty(st, c)
  /\ link' = IF st[p] = "new" THEN link ELSE [link EXCEPT ![c] = LinkTo(p)]
  /\ wrapper' = [wrapper EXCEPT ![c].items = {p}]
  /\ Register(<<Entry("attach", c, p)>>)
  /\ told' = ToldAlone(p, c)
  /\ excused' = IF st[p] = "new" THEN excused \cup {c} ELSE excused
  /\ Disturb({c})
  /\ UNCHANGED <<setup, tables, loads, commit, graph>>

SetParent(c, p) == p \in Known /\ SetParentOf(c, p, Ensure(status, p))

SetParentNull(c) ==
  /\ kind = "belongsTo" /\ CanChange(c) /\ Changed
  /\ status' = Dirty(status, c) /\ link' = [link EXCEPT ![c] = NoLink]
  /\ wrapper' = [wrapper EXCEPT ![c].items = {}]
  /\ Register(<<Entry("remove", c, None)>>)
  /\ told' = {x \in told : x[2] # c}
  /\ Disturb({c})
  /\ UNCHANGED <<setup, tables, loads, commit, graph, excused>>

\* set() of morph-to leaves the columns to the commit.
SetMorph(c, p) ==
  /\ kind = "morphTo" /\ CanChange(c) /\ Changed /\ Tracked(p)
  /\ wrapper' = [wrapper EXCEPT ![c] = [there |-> TRUE, loaded |-> TRUE, items |-> {p}]]
  /\ Register([i \in 1..Cardinality(wrapper[c].items \ {p}) |->
                 Entry("remove", c, SetToSeq(wrapper[c].items)[i])] \o <<Entry("attach", c, p)>>)
  /\ told' = ToldAlone(p, c)
  /\ Disturb({c})
  /\ UNCHANGED <<setup, tables, entities, loads, commit, graph, excused>>

SetMorphNull(c) ==
  /\ kind = "morphTo" /\ CanChange(c) /\ Changed
  /\ LET held == wrapper[c].items
     IN  /\ wrapper' = [wrapper EXCEPT ![c] = IF held = {} THEN @ ELSE [@ EXCEPT !.loaded = TRUE, !.items = {}]]
         /\ status' = IF held = {} THEN status ELSE Dirty(status, c)
         /\ link' = IF held = {} THEN link ELSE [link EXCEPT ![c] = NoLink]
         /\ Register([i \in 1..Cardinality(held) |-> Entry("remove", c, SetToSeq(held)[i])])
         /\ excused' = IF held = {} /\ Of(c, told) # {} THEN excused \cup {c} ELSE excused
  /\ told' = {x \in told : x[2] # c}
  /\ Disturb({c})
  /\ UNCHANGED <<setup, tables, loads, commit, graph>>

\* attach() and detach() of belongs-to-many look only at what the collection holds.
DoAttachPivot(p, c) ==
  LET new == c \notin wrapper[p].items
  IN  /\ status' = Ensure(status, c)
      /\ link' = link
      /\ wrapper' = [wrapper EXCEPT ![p].items = @ \cup {c}]
      /\ Register(IF new THEN <<Entry("attach", p, c)>> ELSE <<>>)
      /\ told' = told \cup {<<p, c>>}
      /\ excused' = IF new = (<<p, c>> \in told) \/ Doomed(c) THEN excused \cup {c} ELSE excused
      /\ Disturb({p})

AttachPivot(p, c) ==
  /\ Pivoted /\ CanChange(p) /\ Changed /\ (c \in exists \/ Tracked(c))
  /\ DoAttachPivot(p, c)
  /\ UNCHANGED <<setup, tables, loads, commit, graph>>

DetachPivot(p, c) ==
  /\ Pivoted /\ CanChange(p) /\ Changed /\ Keyed(c)
  /\ wrapper' = [wrapper EXCEPT ![p].items = @ \ {c}]
  /\ Register(IF c \in wrapper[p].items THEN <<Entry("detach", p, c)>> ELSE <<>>)
  /\ told' = Untold(p, {c} \cap wrapper[p].items)
  /\ excused' = IF (c \in wrapper[p].items) # (<<p, c>> \in told) THEN excused \cup {c} ELSE excused
  /\ disturbed' = disturbed \cup Bereft(p, {c} \cap wrapper[p].items)
  /\ UNCHANGED <<setup, tables, entities, loads, commit, graph>>

\* The foreign key is set directly; registered changes still win.
Assign(c, p) ==
  /\ ~Pivoted /\ excused = {} /\ changes < setup.max /\ Changed /\ Tracked(c)
  /\ p \in {q \in Parents : Keyed(q)} \cup {None}
  /\ status' = Dirty(status, c)
  /\ link' = [link EXCEPT ![c] = IF p = None THEN NoLink ELSE LinkTo(p)]
  /\ told' = IF p = None THEN {x \in told : x[2] # c} ELSE ToldAlone(p, c)
  /\ excused' = IF Doomed(c) \/ (\E e \in Range(queue) \cup Range(work) : c \in {e.root, e.target})
                THEN excused \cup {c} ELSE excused
  /\ disturbed' = disturbed \cup HoldersOf(c) \cup {c} \cup ({p} \ {None})
  /\ UNCHANGED <<setup, tables, wrapper, loads, queue, commit, graph>>

(***************************************************************************)
(* saveGraph() with a list of children, and syncByIds().                   *)
(***************************************************************************)

Begin(op, p, todo, prune) ==
  /\ graph.op = "idle" /\ (Many \/ Pivoted) /\ CanChange(p) /\ Changed
  /\ graph' = [op |-> op, ready |-> wrapper[p].loaded, root |-> p, todo |-> todo, all |-> Range(todo), prune |-> prune]
  /\ IF wrapper[p].loaded THEN UNCHANGED <<cache, batch, loading>>
     ELSE Factory(p) /\ loading' = loading \cup {<<p, "graph">>}
  /\ UNCHANGED <<setup, tables, entities, wrapper, hydration, queue, commit, ghosts>>

\* One child of the payload: found in the session, or an entity is made of it.
Item ==
  /\ graph.op = "save" /\ graph.ready /\ graph.todo # <<>>
  /\ LET p == graph.root
         c == Head(graph.todo)
     IN  IF c \in wrapper[p].items
         THEN /\ excused' = IF <<p, c>> \in told THEN excused ELSE excused \cup {c}
              /\ UNCHANGED <<entities, wrapper, queue, told, disturbed>>
         ELSE IF Many THEN DoAttach(p, c) ELSE DoAttachPivot(p, c)
  /\ graph' = [graph EXCEPT !.todo = Tail(@)]
  /\ UNCHANGED <<setup, tables, loads, commit, changes>>

SaveHasMany       == kind = "hasMany" /\ Item
SaveMorphMany     == kind = "morphMany" /\ Item
SaveBelongsToMany == kind = "belongsToMany" /\ Item

\* A payload for a relation to one: the entity is found or made, set, and given its columns.
SaveHasOne(p, c)    == kind = "hasOne" /\ c \in Nameable /\ SetOf(p, c)
SaveBelongsTo(c, p) == p \in Nameable /\ SetParentOf(c, p, Dirty(Ensure(status, p), p))

\* pruneMissing: the children with a key that were not in the payload.
Surplus == {c \in wrapper[graph.root].items : Keyed(c) /\ c \notin graph.all}

Drop(p, S) ==
  /\ wrapper' = [wrapper EXCEPT ![p].items = @ \ S]
  /\ Register([i \in 1..Cardinality(S) |-> Entry(IF Many THEN "remove" ELSE "detach", p, SetToSeq(S)[i])])
  /\ told' = Untold(p, S)
  /\ excused' = excused \cup {c \in S : <<p, c>> \notin told}
  /\ disturbed' = disturbed \cup Bereft(p, S)

GraphEnd ==
  /\ graph.op = "save" /\ graph.ready /\ graph.todo = <<>>
  /\ IF graph.prune THEN Drop(graph.root, Surplus)
     ELSE UNCHANGED <<wrapper, queue, told, excused, disturbed>>
  /\ graph' = Idle
  /\ UNCHANGED <<setup, tables, entities, loads, commit, changes>>

\* syncByIds() attaches one missing key after the other, and detaches at the end.
SyncItem ==
  /\ graph.op = "sync" /\ graph.ready /\ graph.todo # <<>>
  /\ DoAttachPivot(graph.root, Head(graph.todo))
  /\ graph' = [graph EXCEPT !.todo = Tail(@)]
  /\ UNCHANGED <<setup, tables, loads, commit, changes>>

SyncEnd ==
  /\ graph.op = "sync" /\ graph.ready /\ graph.todo = <<>>
  /\ Drop(graph.root, wrapper[graph.root].items \ graph.all)
  /\ graph' = Idle
  /\ UNCHANGED <<setup, tables, entities, loads, commit, changes>>

(***************************************************************************)
(* The commit: flush, process the changes, flush.                          *)
(***************************************************************************)

\* The unit of work writes every entity that it tracks as new, dirty or removed.
Flush ==
  LET gone == {e \in Anyone : status[e] = "removed"}
      written == {c \in Children : status[c] \in {"new", "dirty"}}
  IN  /\ exists' = (exists \cup {e \in Anyone : status[e] = "new"}) \ gone
      /\ stored' = [c \in Children |-> IF c \in written THEN link[c] ELSE stored[c]]
      /\ status' = [e \in Anyone |-> CASE e \in gone -> "untracked"
                                       [] status[e] \in {"new", "dirty"} -> "managed"
                                       [] OTHER -> status[e]]

Quiet == phase = "idle" /\ queue = <<>> /\ \A e \in Anyone : status[e] \in {"untracked", "managed"}

\* A commit with nothing to do is left out.
CommitStarts ==
  /\ phase = "idle" /\ ~Quiet /\ phase' = "flushed"
  /\ Flush
  /\ UNCHANGED <<setup, pivot, link, wrapper, loads, queue, work, graph, changes, ghosts>>

ProcessStarts ==
  /\ phase = "flushed" /\ phase' = "processing"
  /\ work' = queue /\ queue' = <<>>
  /\ UNCHANGED <<setup, tables, entities, wrapper, loads, graph, changes, ghosts>>

\* A bug: the child is not marked dirty.
PointClean(c, to) == link' = [link EXCEPT ![c] = to] /\ UNCHANGED <<status, pivot>>

\* The foreign key, in memory; the second flush sends it.
Point(c, to) == link' = [link EXCEPT ![c] = to] /\ status' = Dirty(status, c) /\ UNCHANGED pivot

DetachOrRemove(c) ==
  IF cascade = "remove" THEN status' = Removed(status, c) /\ UNCHANGED <<link, pivot>> ELSE Point(c, NoLink)

HandleChild(e) ==
  IF ~Tracked(e.target) \/ ~Keyed(e.root) THEN UNCHANGED <<entities, pivot>>
  ELSE IF e.change = "remove" THEN DetachOrRemove(e.target)
  ELSE Point(e.target, LinkTo(e.root))

HandleHasMany(e) == HandleChild(e)
HandleHasOne(e) == HandleChild(e)
HandleMorphMany(e) == HandleChild(e)
HandleMorphOne(e) == HandleChild(e)
HandleBelongsTo(e) == UNCHANGED <<entities, pivot>>

\* The first of the targets whose primary key the entity has: with keys of the same name, the
\* first of all.
TypeFor(p) == IF setup.samePk THEN Head(SetToSeq(Parents)) ELSE p

HandleMorphTo(e) ==
  IF e.change = "remove" THEN Point(e.root, NoLink)
  ELSE IF Keyed(e.target) THEN Point(e.root, LinkTo(TypeFor(e.target)))
  ELSE UNCHANGED <<entities, pivot>>

InsertPivotRow(e) == [pivot EXCEPT ![<<e.root, e.target>>] = @ + 1]
DeletePivotRow(e) == [pivot EXCEPT ![<<e.root, e.target>>] = 0]

HandleBelongsToMany(e) ==
  IF ~Keyed(e.root) \/ ~Keyed(e.target) THEN UNCHANGED <<entities, pivot>> ELSE
  /\ pivot' = IF e.change = "attach" THEN InsertPivotRow(e) ELSE DeletePivotRow(e)
  /\ status' = IF e.change = "detach" /\ cascade = "remove" THEN Removed(status, e.target) ELSE status
  /\ UNCHANGED link

\* An entity that was made since the first flush has no key: its change is forgotten.
Lost(e) ==
  CASE kind = "belongsTo" -> {}
    [] kind = "morphTo" -> {c \in {e.root} : e.change = "attach" /\ ~Keyed(e.target)}
    [] OTHER -> {c \in {e.target} : ~Keyed(e.root) \/ (Pivoted /\ ~Keyed(c))}

Handle ==
  /\ phase = "processing" /\ work # <<>>
  /\ CASE kind = "belongsTo" -> HandleBelongsTo(Head(work))
       [] kind = "morphTo" -> HandleMorphTo(Head(work))
       [] kind = "belongsToMany" -> HandleBelongsToMany(Head(work))
       [] kind = "hasMany" -> HandleHasMany(Head(work))
       [] kind = "hasOne" -> HandleHasOne(Head(work))
       [] kind = "morphMany" -> HandleMorphMany(Head(work))
       [] kind = "morphOne" -> HandleMorphOne(Head(work))
  /\ work' = Tail(work)
  /\ excused' = excused \cup Lost(Head(work))
  /\ UNCHANGED <<setup, exists, stored, wrapper, loads, queue, phase, graph, changes, told, disturbed>>

CommitEnds ==
  /\ phase = "processing" /\ work = <<>> /\ phase' = "idle"
  /\ Flush
  /\ UNCHANGED <<setup, pivot, link, wrapper, loads, queue, work, graph, changes, ghosts>>

(***************************************************************************)

Next ==
  \/ \E e \in Anyone : Create(e)
  \/ \E o \in Owners : Access(o) \/ LoadNothing(o) \/ Load(o) \/ Refetch(o) \/ QueryFails(o)
  \/ \E o \in Owners :
       \/ LoadHasMany(o) \/ LoadHasOne(o) \/ LoadMorphMany(o) \/ LoadMorphOne(o)
       \/ LoadBelongsTo(o) \/ LoadMorphTo(o) \/ LoadBelongsToMany(o)
  \/ \E o \in Owners, who \in {"user", "graph"} : Loaded(o, who) \/ LoadRejects(o, who)
  \/ \E p \in Parents : Clear(p) \/ SetOneNull(p) \/ SetMorphOneNull(p)
  \/ \E c \in Children : SetParentNull(c) \/ SetMorphNull(c) \/ (\E p \in Parents \cup {None} : Assign(c, p))
  \/ \E p \in Parents, c \in Children :
       \/ Add(p, c) \/ Attach(p, c) \/ RemoveChild(p, c) \/ MorphAdd(p, c) \/ MorphAttach(p, c) \/ MorphRemove(p, c)
       \/ SetOne(p, c) \/ SetMorphOne(p, c) \/ SaveHasOne(p, c) \/ SaveBelongsTo(c, p)
       \/ SetParent(c, p) \/ SetMorph(c, p) \/ AttachPivot(p, c) \/ DetachPivot(p, c)
  \/ \E p \in Parents, S \in SUBSET Children, prune \in BOOLEAN : Begin("save", p, SetToSeq(S), prune)
  \/ \E p \in Parents, S \in SUBSET (Children \cap exists) : Pivoted /\ Begin("sync", p, SetToSeq(S), TRUE)
  \/ SaveHasMany \/ SaveMorphMany \/ SaveBelongsToMany \/ GraphEnd \/ SyncItem \/ SyncEnd
  \/ CommitStarts \/ ProcessStarts \/ Handle \/ CommitEnds

Spec == Init /\ [][Next]_vars

(***************************************************************************)
(* Properties.                                                             *)
(***************************************************************************)

TypeOK ==
  /\ exists \subseteq Anyone /\ told \subseteq Pairs
  /\ status \in [Anyone -> {"untracked", "new", "managed", "dirty", "removed"}]
  /\ \A o \in Anyone : wrapper[o].items \subseteq Anyone
  /\ Many \/ Pivoted \/ \A o \in Anyone : Cardinality(wrapper[o].items) <= 1
  /\ \A o \in Anyone : cache[o] # None => batch[cache[o]].state # "none"
  /\ phase # "processing" => work = <<>>

\* When everything is committed the tables hold the relation as the calls on the wrappers have
\* ordered it, and never two pivot rows for one pair.
SavedAsTold ==
  Quiet => \A pc \in Pairs : pc[2] \in excused \/ ((pc \in told) = (pc \in Links) /\ pivot[pc] <= 1)

\* Then every loaded wrapper holds what the tables say.
WrappersAgree ==
  /\ TypeOK
  /\ Quiet => \A o \in Owners : wrapper[o].loaded /\ o \notin disturbed \cup excused
               => wrapper[o].items \ excused = Of(o, Links) \ excused

=============================================================================
