----------------------------- MODULE QueryCache -----------------------------
(***************************************************************************)
(* The query cache of metal-orm: cached queries (getOrExecute) and the     *)
(* invalidations by key, tag and prefix, over the three adapters.  Every   *)
(* action is what happens between two awaits, on this side or at the       *)
(* server.  A result is the version of the database that the query saw.    *)
(***************************************************************************)
EXTENDS Naturals, FiniteSets, FiniteSetsExt

CONSTANTS Calls,      \* activities, each with at most one call at a time
          Keys, Tags,
          Tagged,     \* the tags that a cached query of a key gives
          Prefixes,   \* the sets of keys that share a prefix
          Adapters,   \* a subset of {"memory", "redis", "keyv"}
          MaxVersion, \* bound on the writes to the database
          Nothing

ASSUME CacheAssumption ==
  /\ Tagged \in [Keys -> SUBSET Tags]
  /\ Prefixes \subseteq (SUBSET Keys) \ {{}}
  /\ Adapters \subseteq {"memory", "redis", "keyv"}
  /\ MaxVersion \in Nat
  /\ Nothing \notin Nat

VARIABLES adapter, \* the provider of the manager
          db,      \* version of the database
          store,   \* the entry of each key
          expired, \* keys whose entry is past its time but still stored
          index,   \* the keys of each tag
          pc,      \* the await at which a call is suspended
          key,     \* the key of a cached query
          seen,    \* the version that its query returned
          todo,    \* tags or keys that a call has still to visit
          doomed,  \* keys that an invalidation is going to delete
          mark,    \* ghost: what an invalidation goes by, the oldest version it may leave of each key
          floor,   \* ghost: the same for the invalidations that are over
          lost     \* ghost: entries that a server no longer finds by their tags

vars == <<adapter, db, store, expired, index, pc, key, seen, todo, doomed, mark, floor, lost>>

Ways == {"key", "tag"}  \* prefixes count as keys

Zero == [k \in Keys |-> 0]

NoMark == [by |-> "key", least |-> Zero]

Awaits == {"idle", "get", "query", "set", "tags", "members", "delTag", "scan", "delKeys"}

TypeOK ==
  /\ adapter \in {"memory", "redis", "keyv"}
  /\ db \in 0..MaxVersion
  /\ store \in [Keys -> 0..MaxVersion \cup {Nothing}]
  /\ expired \subseteq {k \in Keys : store[k] # Nothing}
  /\ index \in [Tags -> SUBSET Keys]
  /\ pc \in [Calls -> Awaits]
  /\ key \in [Calls -> Keys \cup {Nothing}]
  /\ seen \in [Calls -> 0..MaxVersion]
  /\ todo \in [Calls -> SUBSET (Keys \cup Tags)]
  /\ doomed \in [Calls -> SUBSET Keys]
  /\ mark \in [Calls -> [by : Ways, least : [Keys -> 0..MaxVersion]]]
  /\ floor \in [Ways -> [Keys -> 0..MaxVersion]]
  /\ lost \subseteq Keys

Init ==
  /\ adapter \in Adapters
  /\ db = 0
  /\ store = [k \in Keys |-> Nothing] /\ expired = {}
  /\ index = [t \in Tags |-> {}]
  /\ pc = [c \in Calls |-> "idle"] /\ key = [c \in Calls |-> Nothing]
  /\ seen = [c \in Calls |-> 0]
  /\ todo = [c \in Calls |-> {}] /\ doomed = [c \in Calls |-> {}]
  /\ mark = [c \in Calls |-> NoMark]
  /\ floor = [w \in Ways |-> Zero] /\ lost = {}

(***************************************************************************)
(* Helpers.                                                                *)
(***************************************************************************)

\* MemoryCacheAdapter.delete() takes the key out of every tag; the servers do not.
Unlisted(S) == IF adapter = "memory" THEN [t \in Tags |-> index[t] \ S] ELSE index

DeleteKeys(S) ==
  /\ store' = [k \in Keys |-> IF k \in S THEN Nothing ELSE store[k]]
  /\ expired' = expired \ S
  /\ lost' = lost \ S

\* The fills of k that may still store what they saw, or have stored it without its tags.
Storing(k)  == {c \in Calls : pc[c] = "set" /\ key[c] = k}
Tagging(k)  == {c \in Calls : pc[c] = "tags" /\ key[c] = k}

\* The oldest version that an invalidation started now may leave behind.
Oldest(fills) == Min({db} \cup {seen[c] : c \in fills})

\* Stored by a server that keeps tags, and missing in one of them.
Hidden(k) == adapter = "redis" /\ store[k] # Nothing /\ \E t \in Tagged[k] : k \notin index[t]

KeysOf(T) == {k \in Keys : Tagged[k] \cap T # {}}

\* What an invalidation of the keys S that starts now promises of them when it is over.
Promise(way, S) ==
  [by |-> way,
   least |-> [k \in Keys |->
     IF k \notin S THEN 0
     ELSE Oldest(Storing(k) \cup (IF way = "tag" THEN Tagging(k) ELSE {}))]]

Keep(promise) ==
  floor' = [floor EXCEPT ![promise.by] = [k \in Keys |-> Max({@[k], promise.least[k]})]]

Leave(c) ==
  /\ pc' = [pc EXCEPT ![c] = "idle"]
  /\ key' = [key EXCEPT ![c] = Nothing]
  /\ seen' = [seen EXCEPT ![c] = 0]
  /\ todo' = [todo EXCEPT ![c] = {}]
  /\ doomed' = [doomed EXCEPT ![c] = {}]

Return(c) == Leave(c) /\ mark' = [mark EXCEPT ![c] = NoMark]

Frame == <<key, seen, todo, doomed, mark>>

(***************************************************************************)
(* The database, and time.                                                 *)
(***************************************************************************)

Write ==
  /\ db < MaxVersion
  /\ db' = db + 1
  /\ UNCHANGED <<adapter, store, expired, index, pc, Frame, floor, lost>>

\* The time of an entry is over: a server drops it, the memory adapter only at the next get().
Expire(k) ==
  /\ store[k] # Nothing /\ k \notin expired
  /\ IF adapter = "memory"
     THEN expired' = expired \cup {k} /\ UNCHANGED <<store, lost>>
     ELSE DeleteKeys({k})
  /\ UNCHANGED <<adapter, db, index, pc, Frame, floor>>

(***************************************************************************)
(* getOrExecute().                                                         *)
(***************************************************************************)

Ask(c, k) ==
  /\ pc[c] = "idle"
  /\ pc' = [pc EXCEPT ![c] = "get"] /\ key' = [key EXCEPT ![c] = k]
  /\ UNCHANGED <<adapter, db, store, expired, index, seen, todo, doomed, mark, floor, lost>>

Hit(c) ==
  /\ pc[c] = "get" /\ store[key[c]] # Nothing /\ key[c] \notin expired
  /\ Return(c)
  /\ UNCHANGED <<adapter, db, store, expired, index, floor, lost>>

\* get() deletes an entry past its time; a miss starts the query.
Miss(c) ==
  /\ pc[c] = "get" /\ (store[key[c]] = Nothing \/ key[c] \in expired)
  /\ DeleteKeys({key[c]} \cap expired) /\ index' = Unlisted({key[c]} \cap expired)
  /\ pc' = [pc EXCEPT ![c] = "query"]
  /\ UNCHANGED <<adapter, db, Frame, floor>>

\* The database answers.
Query(c) ==
  /\ pc[c] = "query"
  /\ pc' = [pc EXCEPT ![c] = "set"] /\ seen' = [seen EXCEPT ![c] = db]
  /\ UNCHANGED <<adapter, db, store, expired, index, key, todo, doomed, mark, floor, lost>>

\* The query throws, or shouldCache() refuses its result.
Uncached(c) ==
  /\ pc[c] \in {"query", "set"}
  /\ Return(c)
  /\ UNCHANGED <<adapter, db, store, expired, index, floor, lost>>

Set(c) ==
  /\ pc[c] = "set"
  /\ store' = [store EXCEPT ![key[c]] = seen[c]]
  /\ expired' = expired \ {key[c]}
  /\ lost' = lost \ {key[c]}
  /\ pc' = [pc EXCEPT ![c] = "tags"]
  /\ todo' = [todo EXCEPT ![c] = Tagged[key[c]]]
  /\ UNCHANGED <<adapter, db, index, key, seen, doomed, mark, floor>>

\* Variant: a key is registered under one of its tags only.
RegisterOne(c) ==
  \E t \in todo[c] :
    /\ pc[c] = "tags"
    /\ index' = IF adapter = "keyv" THEN index ELSE [index EXCEPT ![t] = @ \cup {key[c]}]
    /\ todo' = [todo EXCEPT ![c] = {}]
    /\ UNCHANGED <<adapter, db, store, expired, pc, key, seen, doomed, mark, floor, lost>>

\* Memory: all tags at once.  Redis: one SADD after the other, which nobody awaits.
\* Keyv: the manager finds no registerTags().
Register(c) ==
  \E T \in SUBSET todo[c] :
    /\ pc[c] = "tags" /\ todo[c] # {}
    /\ T = CASE adapter = "memory" -> todo[c]
             [] adapter = "redis"  -> {CHOOSE t \in todo[c] : TRUE}
             [] adapter = "keyv"   -> {}
    /\ index' = [t \in Tags |-> IF t \in T THEN index[t] \cup {key[c]} ELSE index[t]]
    /\ todo' = [todo EXCEPT ![c] = IF adapter = "keyv" THEN {} ELSE @ \ T]
    /\ UNCHANGED <<adapter, db, store, expired, pc, key, seen, doomed, mark, floor, lost>>

Filled(c) ==
  /\ pc[c] = "tags" /\ todo[c] = {}
  /\ Return(c)
  /\ UNCHANGED <<adapter, db, store, expired, index, floor, lost>>

(***************************************************************************)
(* Invalidation.                                                           *)
(***************************************************************************)

InvalidateKey(c, k) ==
  /\ pc[c] = "idle"
  /\ DeleteKeys({k}) /\ index' = Unlisted({k})
  /\ Keep(Promise("key", {k}))
  /\ UNCHANGED <<adapter, db, pc, Frame>>

\* In memory both are one step: no await between the reads and the deletions.
InvalidateTagsNow(c, T) ==
  /\ pc[c] = "idle" /\ adapter = "memory"
  /\ DeleteKeys(UNION {index[t] : t \in T})
  /\ index' = [t \in Tags |-> IF t \in T THEN {} ELSE index[t]]
  /\ Keep(Promise("tag", KeysOf(T)))
  /\ UNCHANGED <<adapter, db, pc, Frame>>

StartTags(c, T) ==
  /\ pc[c] = "idle" /\ adapter = "redis"
  /\ pc' = [pc EXCEPT ![c] = "members"] /\ todo' = [todo EXCEPT ![c] = T]
  /\ mark' = [mark EXCEPT ![c] = Promise("tag", KeysOf(T))]
  /\ UNCHANGED <<adapter, db, store, expired, index, key, seen, doomed, floor, lost>>

Current(c) == CHOOSE t \in todo[c] : TRUE

\* Variant: the keys of each tag replace those of the one before.
MembersLast(c) ==
  /\ pc[c] = "members"
  /\ doomed' = [doomed EXCEPT ![c] = index[Current(c)]]
  /\ pc' = [pc EXCEPT ![c] = "delTag"]
  /\ UNCHANGED <<adapter, db, store, expired, index, key, seen, todo, mark, floor, lost>>

Members(c) ==
  /\ pc[c] = "members"
  /\ doomed' = [doomed EXCEPT ![c] = @ \cup index[Current(c)]]
  /\ pc' = [pc EXCEPT ![c] = "delTag"]
  /\ UNCHANGED <<adapter, db, store, expired, index, key, seen, todo, mark, floor, lost>>

\* The set of the tag is deleted, with the keys that were added to it meanwhile.
DelTag(c) ==
  /\ pc[c] = "delTag"
  /\ index' = [index EXCEPT ![Current(c)] = {}]
  /\ lost' = lost \cup (index[Current(c)] \ doomed[c])
  /\ todo' = [todo EXCEPT ![c] = @ \ {Current(c)}]
  /\ pc' = [pc EXCEPT ![c] = IF todo'[c] = {} THEN "delKeys" ELSE "members"]
  /\ UNCHANGED <<adapter, db, store, expired, key, seen, doomed, mark, floor>>

\* In memory the keys are read at once; SCAN and the iterator of Keyv visit them while
\* others come and go.
StartPrefix(c, p) ==
  /\ pc[c] = "idle"
  /\ IF adapter = "memory"
     THEN /\ pc' = [pc EXCEPT ![c] = "delKeys"]
          /\ doomed' = [doomed EXCEPT ![c] = {k \in p : store[k] # Nothing}]
          /\ UNCHANGED todo
     ELSE /\ pc' = [pc EXCEPT ![c] = "scan"]
          /\ todo' = [todo EXCEPT ![c] = p]
          /\ UNCHANGED doomed
  /\ mark' = [mark EXCEPT ![c] = Promise("key", p)]
  /\ UNCHANGED <<adapter, db, store, expired, index, key, seen, floor, lost>>

Scan(c) ==
  \E k \in todo[c] :
    /\ pc[c] = "scan"
    /\ doomed' = [doomed EXCEPT ![c] = @ \cup ({k} \cap {i \in Keys : store[i] # Nothing})]
    /\ todo' = [todo EXCEPT ![c] = @ \ {k}]
    /\ pc' = [pc EXCEPT ![c] = IF todo'[c] = {} THEN "delKeys" ELSE "scan"]
    /\ UNCHANGED <<adapter, db, store, expired, index, key, seen, mark, floor, lost>>

\* Redis deletes them together, Keyv and the memory adapter one after the other.
DelKeys(c) ==
  \E K \in SUBSET doomed[c] :
    /\ pc[c] = "delKeys" /\ K # {}
    /\ IF adapter = "redis" THEN K = doomed[c] ELSE Cardinality(K) = 1
    /\ DeleteKeys(K) /\ index' = Unlisted(K)
    /\ doomed' = [doomed EXCEPT ![c] = @ \ K]
    /\ UNCHANGED <<adapter, db, pc, key, seen, todo, mark, floor>>

Invalidated(c) ==
  /\ pc[c] = "delKeys" /\ doomed[c] = {}
  /\ Keep(mark[c])
  /\ Return(c)
  /\ UNCHANGED <<adapter, db, store, expired, index, lost>>

\* The keys that an invalidation has taken from its tags, to delete them.
Taken(c) == IF mark[c].by = "tag" THEN doomed[c] ELSE {}

Without(least, S) == [k \in Keys |-> IF k \in S THEN 0 ELSE least[k]]

\* What other invalidations by tag promised of the keys S is withdrawn.
Withdraw(c, S) ==
  /\ floor' = [floor EXCEPT !["tag"] = Without(@, S)]
  /\ mark' = [d \in Calls |->
       IF d = c THEN NoMark
       ELSE IF mark[d].by = "tag" THEN [mark[d] EXCEPT !.least = Without(@, S)]
       ELSE mark[d]]

\* A command of the server fails: the call ends where it is.  What it has taken from the
\* tags, or not yet given to them, is out of their reach; what it was going to delete stays,
\* and the invalidations that left this to it have not kept their word.
Reject(c) ==
  /\ adapter # "memory" /\ pc[c] \notin {"idle", "query"}
  /\ lost' = lost \cup {k \in Taken(c) \cup {i \in Keys : c \in Tagging(i)} : Hidden(k)}
  /\ Withdraw(c, {k \in Taken(c) : store[k] # Nothing})
  /\ Leave(c)
  /\ UNCHANGED <<adapter, db, store, expired, index>>

Clear ==
  /\ adapter = "memory"
  /\ DeleteKeys(Keys) /\ index' = [t \in Tags |-> {}]
  /\ Keep(Promise("key", Keys))
  /\ UNCHANGED <<adapter, db, pc, Frame>>

Invalidate(c) ==
  \/ \E k \in Keys : InvalidateKey(c, k)
  \/ \E T \in (SUBSET Tags) \ {{}} : InvalidateTagsNow(c, T)
  \/ \E T \in (SUBSET Tags) \ {{}} : StartTags(c, T)
  \/ \E p \in Prefixes : StartPrefix(c, p)
  \/ Members(c) \/ DelTag(c) \/ Scan(c) \/ DelKeys(c) \/ Invalidated(c)

GetOrExecute(c) ==
  \/ \E k \in Keys : Ask(c, k)
  \/ Hit(c) \/ Miss(c) \/ Query(c) \/ Uncached(c) \/ Set(c) \/ Register(c) \/ Filled(c)

Next ==
  \/ Write \/ Clear
  \/ \E k \in Keys : Expire(k)
  \/ \E c \in Calls : GetOrExecute(c) \/ Invalidate(c) \/ Reject(c)

Spec == Init /\ [][Next]_vars

(***************************************************************************)
(* Properties.                                                             *)
(***************************************************************************)

\* About to be deleted by an invalidation that has taken it from its tags.
Leaving(k) == \E c \in Calls : k \in Taken(c)

\* An entry is never older than the last invalidation that covered it, save for what a
\* cached query had read before the invalidation began and stored after it: an
\* invalidation cannot see the fills in progress.  By tags this is lost for the entries that
\* a Redis server does not find by their tags any more (lost).  And of two invalidations
\* by tag that overlap only one may find an entry: the other returns while the first has
\* still to delete it, and if the first then fails the entry stays (Withdraw).
NeverStale ==
  \A k \in Keys : store[k] # Nothing =>
    /\ store[k] >= floor["key"][k]
    /\ store[k] >= floor["tag"][k] \/ k \in lost \/ Leaving(k)

\* Every entry is under all of its tags once the call that stored it is over, so the
\* next invalidation by tag finds it; in memory there is no exception to this.
TagsReach ==
  /\ TypeOK
  /\ adapter # "keyv" =>
       \A k \in Keys : store[k] # Nothing =>
         \/ \A t \in Tagged[k] : k \in index[t]
         \/ Tagging(k) # {}
         \/ adapter = "redis" /\ (k \in lost \/ Leaving(k))

=============================================================================
