-------------------------- MODULE QueryCacheProofs --------------------------
(***************************************************************************)
(* Proofs about QueryCache, for every set of calls, keys, tags, prefixes   *)
(* and adapters and every bound on the versions.                           *)
(***************************************************************************)
EXTENDS QueryCache, WellFoundedInduction, TLAPS

(***************************************************************************)
(* The inductive invariant.                                                *)
(***************************************************************************)

\* What a call keeps at each of its awaits.
AwaitsOK ==
  \A c \in Calls :
    /\ pc[c] \in {"get", "query", "set", "tags"} => key[c] \in Keys
    /\ pc[c] \in {"members", "delTag"} => todo[c] # {} /\ todo[c] \subseteq Tags
    /\ pc[c] \in {"members", "delTag"} => mark[c].by = "tag"
    /\ pc[c] = "scan" => mark[c].by = "key"
    /\ pc[c] \in {"idle", "get", "query", "set", "delKeys"} => todo[c] = {}
    /\ pc[c] \notin {"members", "delTag", "scan", "delKeys"} => mark[c] = NoMark /\ doomed[c] = {}
    /\ mark[c].by = "tag" => adapter = "redis"

\* To leave no version of k older than n can be promised: the database has n, and no fill is
\* going to store an older one.
Fair(k, n) == n =< db /\ \A d \in Storing(k) : n =< seen[d]

\* Every promise, of an invalidation in progress or over, is fair.
FairOK ==
  \A k \in Keys :
    /\ \A w \in Ways : Fair(k, floor[w][k])
    /\ \A c \in Calls : Fair(k, mark[c].least[k])

\* An entry that is too old for an invalidation by prefix has still to be visited or deleted.
PrefixOK ==
  \A k \in Keys : store[k] # Nothing =>
    /\ floor["key"][k] =< store[k]
    /\ \A c \in Calls :
         mark[c].by = "key" =>
           \/ mark[c].least[k] =< store[k]
           \/ k \in doomed[c]
           \/ pc[c] = "scan" /\ k \in todo[c]

\* The server does not find the entry of k under its tags, or it is about to be deleted.
Beyond(k) == adapter = "redis" /\ (k \in lost \/ Leaving(k))

\* The tags of an entry lead to it, save for those that the fill which stored it has still
\* to register.
ReachOK ==
  adapter # "keyv" =>
    \A k \in Keys : store[k] # Nothing =>
      \/ \A t \in Tagged[k] : k \in index[t]
      \/ Beyond(k)
      \/ \E d \in Tagging(k) : seen[d] = store[k] /\ \A t \in Tagged[k] \ todo[d] : k \in index[t]

\* An entry that is too old for an invalidation by tag is under a tag that has still to be read.
TagOK ==
  \A k \in Keys : store[k] # Nothing =>
    /\ floor["tag"][k] =< store[k] \/ Beyond(k)
    /\ \A c \in Calls :
         mark[c].by = "tag" =>
           \/ mark[c].least[k] =< store[k]
           \/ Beyond(k)
           \/ \E t \in todo[c] \cap Tagged[k] : k \in index[t]

IInv == TypeOK /\ AwaitsOK /\ FairOK /\ PrefixOK /\ ReachOK /\ TagOK

(***************************************************************************)
(* The least of a set of naturals, and what a promise asks.                *)
(***************************************************************************)

\* Min() of a set of naturals is one of them, and none is less.
LEMMA MinProperties ==
  ASSUME NEW S \in SUBSET Nat, S # {}
  PROVE  Min(S) \in S /\ \A n \in S : Min(S) =< n
<1> DEFINE R == OpToRel(<, Nat)
<1>1. IsWellFoundedOn(R, Nat)
  BY NatLessThanWellFounded
<1>2. R = {p \in Nat \X Nat : p[1] < p[2]}
  BY Zenon DEF OpToRel
<1> HIDE DEF R
<1>3. \A m, n \in Nat : n < m => <<n, m>> \in R
  BY <1>2
<1>4. PICK m \in S : \A n \in S : ~(<<n, m>> \in R)
  BY <1>1, WFMin, Zenon
<1>5. \A n \in S : ~(n < m)
  BY <1>3, <1>4
<1>6. \A n \in S : m =< n
  BY <1>5
<1>7. QED
  BY <1>6 DEF Min

\* Max() of two naturals is the one or the other and not less than either.
LEMMA MaxProperties ==
  ASSUME NEW a \in Nat, NEW b \in Nat
  PROVE  Max({a, b}) \in {a, b} /\ a =< Max({a, b}) /\ b =< Max({a, b})
<1>1. CASE a >= b
  BY <1>1 DEF Max
<1>2. CASE b >= a
  BY <1>2 DEF Max
<1>3. QED
  BY <1>1, <1>2

\* The oldest version that fills may still store is not newer than what any of them saw, nor
\* than the database.
LEMMA OldestProperties ==
  ASSUME TypeOK, NEW fills \in SUBSET Calls
  PROVE  /\ Oldest(fills) \in 0..MaxVersion /\ Oldest(fills) =< db
         /\ \A c \in fills : Oldest(fills) =< seen[c]
<1> DEFINE S == {db} \cup {seen[c] : c \in fills}
<1>1. S \in SUBSET (0..MaxVersion) /\ S # {}
  BY DEF TypeOK
<1>2. S \in SUBSET Nat
  BY <1>1, CacheAssumption
<1>3. db \in S /\ \A c \in fills : seen[c] \in S
  OBVIOUS
<1> HIDE DEF S
<1>4. Min(S) \in S /\ \A n \in S : Min(S) =< n
  BY <1>1, <1>2, MinProperties
<1>5. Oldest(fills) = Min(S)
  BY DEF Oldest, S
<1>6. QED
  BY <1>1, <1>3, <1>4, <1>5

\* A promise asks nothing of the keys it does not cover, and of the others no version that
\* the database has not, or that is newer than a fill in progress.
LEMMA PromiseProperties ==
  ASSUME TypeOK, NEW way \in Ways, NEW S \in SUBSET Keys
  PROVE  /\ Promise(way, S) \in [by : Ways, least : [Keys -> 0..MaxVersion]]
         /\ Promise(way, S).by = way
         /\ \A k \in Keys :
              /\ Promise(way, S).least[k] =< db
              /\ \A d \in Storing(k) : Promise(way, S).least[k] =< seen[d]
              /\ way = "tag" => \A d \in Tagging(k) : Promise(way, S).least[k] =< seen[d]
              /\ k \notin S => Promise(way, S).least[k] = 0
<1> DEFINE F(k) == Storing(k) \cup (IF way = "tag" THEN Tagging(k) ELSE {})
<1>1. \A k \in Keys : F(k) \in SUBSET Calls
  BY DEF Storing, Tagging
<1>2. \A k \in Keys : /\ Storing(k) \subseteq F(k)
                      /\ way = "tag" => Tagging(k) \subseteq F(k)
  OBVIOUS
<1>3. db \in Nat /\ seen \in [Calls -> Nat] /\ MaxVersion \in Nat /\ 0 \in 0..MaxVersion
  BY CacheAssumption DEF TypeOK
<1>4. Promise(way, S) = [by |-> way, least |-> [k \in Keys |-> IF k \notin S THEN 0 ELSE Oldest(F(k))]]
  BY DEF Promise
<1> HIDE DEF F
<1>5. \A k \in Keys : /\ Oldest(F(k)) \in 0..MaxVersion /\ Oldest(F(k)) =< db
                      /\ \A d \in F(k) : Oldest(F(k)) =< seen[d]
  BY <1>1, OldestProperties
<1>6. \A k \in Keys : Storing(k) \subseteq Calls /\ Tagging(k) \subseteq Calls
  BY DEF Storing, Tagging
<1>7. Promise(way, S) \in [by : Ways, least : [Keys -> 0..MaxVersion]]
  BY <1>3, <1>4, <1>5
<1>8. QED
  BY <1>2, <1>3, <1>4, <1>5, <1>6, <1>7

Promises == [by : Ways, least : [Keys -> 0..MaxVersion]]

\* An invalidation that is over raises the floor of its way to what it promised.
LEMMA KeepProperties ==
  ASSUME TypeOK, NEW p \in Promises, Keep(p)
  PROVE  /\ floor' \in [Ways -> [Keys -> 0..MaxVersion]]
         /\ \A w \in Ways, k \in Keys :
              \/ floor'[w][k] = floor[w][k]
              \/ w = p.by /\ floor'[w][k] = p.least[k]
<1>1. /\ floor \in [Ways -> [Keys -> 0..MaxVersion]] /\ p.by \in Ways
      /\ p.least \in [Keys -> 0..MaxVersion]
  BY DEF TypeOK, Promises
<1>2. MaxVersion \in Nat
  BY CacheAssumption
<1>3. \A k \in Keys : Max({floor[p.by][k], p.least[k]}) \in {floor[p.by][k], p.least[k]}
  <2> TAKE k \in Keys
  <2>1. floor[p.by][k] \in Nat /\ p.least[k] \in Nat
    BY <1>1, <1>2
  <2>2. QED
    BY <2>1, MaxProperties
<1>4. floor' = [floor EXCEPT ![p.by] = [k \in Keys |-> Max({floor[p.by][k], p.least[k]})]]
  BY DEF Keep
<1>5. QED
  BY <1>1, <1>3, <1>4

\* What is withdrawn are promises by tag, about the keys named.
LEMMA WithdrawProperties ==
  ASSUME TypeOK, NEW c \in Calls, NEW S \in SUBSET Keys, Withdraw(c, S)
  PROVE  /\ floor' \in [Ways -> [Keys -> 0..MaxVersion]]
         /\ mark' \in [Calls -> Promises]
         /\ mark'[c] = NoMark
         /\ \A k \in Keys :
              /\ floor'["key"][k] = floor["key"][k]
              /\ floor'["tag"][k] = IF k \in S THEN 0 ELSE floor["tag"][k]
         /\ \A d \in Calls \ {c} :
              /\ mark'[d].by = mark[d].by
              /\ mark[d].by = "key" => mark'[d] = mark[d]
              /\ mark[d].by = "tag" => \A k \in Keys :
                   mark'[d].least[k] = IF k \in S THEN 0 ELSE mark[d].least[k]
<1>1. /\ floor \in [Ways -> [Keys -> 0..MaxVersion]] /\ mark \in [Calls -> Promises]
  BY DEF TypeOK, Promises
<1>2. 0 \in 0..MaxVersion
  BY CacheAssumption
<1>3. \A f \in [Keys -> 0..MaxVersion] : Without(f, S) \in [Keys -> 0..MaxVersion]
  BY <1>2 DEF Without
<1>4. floor' = [floor EXCEPT !["tag"] = Without(floor["tag"], S)]
  BY DEF Withdraw
<1>5. \A d \in Calls : mark'[d] =
        IF d = c THEN NoMark
        ELSE IF mark[d].by = "tag" THEN [mark[d] EXCEPT !.least = Without(mark[d].least, S)]
        ELSE mark[d]
  BY DEF Withdraw
<1>6. NoMark \in Promises
  BY <1>2 DEF NoMark, Promises, Ways, Zero
<1>7. mark' \in [Calls -> Promises]
  <2>1. \A d \in Calls : mark[d] \in Promises
    BY <1>1
  <2>2. \A p \in Promises : [p EXCEPT !.least = Without(p.least, S)] \in Promises
    BY <1>3 DEF Promises
  <2>3. \A d \in Calls : mark'[d] \in Promises
    BY <1>5, <1>6, <2>1, <2>2
  <2>4. QED
    BY <2>3 DEF Withdraw
<1>8. /\ floor' \in [Ways -> [Keys -> 0..MaxVersion]]
      /\ \A k \in Keys : /\ floor'["key"][k] = floor["key"][k]
                         /\ floor'["tag"][k] = IF k \in S THEN 0 ELSE floor["tag"][k]
  BY <1>1, <1>3, <1>4 DEF Ways, Without
<1>9. \A d \in Calls \ {c} :
        /\ mark'[d].by = mark[d].by
        /\ mark[d].by = "key" => mark'[d] = mark[d]
        /\ mark[d].by = "tag" => \A k \in Keys :
             mark'[d].least[k] = IF k \in S THEN 0 ELSE mark[d].least[k]
  <2> TAKE d \in Calls \ {c}
  <2>1. mark[d] \in Promises
    BY <1>1
  <2>2. QED
    BY <1>5, <2>1 DEF Promises, Without
<1>10. QED
  BY <1>5, <1>7, <1>8, <1>9
(***************************************************************************)
(* Types, and what a call keeps at each of its awaits.                     *)
(***************************************************************************)

\* In the initial states every variable has its type and every call is idle.
LEMMA TypeInit == Init => TypeOK /\ AwaitsOK
<1>1. 0 \in 0..MaxVersion
  BY CacheAssumption
<1>2. Init => TypeOK
  BY <1>1, CacheAssumption DEF Init, TypeOK, Zero, NoMark, Ways, Awaits
<1>3. Init => AwaitsOK
  BY DEF Init, AwaitsOK, NoMark
<1>4. QED
  BY <1>2, <1>3

\* Every step keeps the types.
LEMMA TypeStep ==
  ASSUME TypeOK, AwaitsOK, Next
  PROVE  TypeOK'
<1> USE DEF TypeOK, Awaits, Leave, Return
<1>0. 0 \in 0..MaxVersion /\ NoMark \in Promises /\ MaxVersion \in Nat
  BY CacheAssumption DEF NoMark, Promises, Ways, Zero
<1>1. CASE Write
  BY <1>0, <1>1 DEF Write, Frame
<1>2. CASE Clear
  <2>1. floor' \in [Ways -> [Keys -> 0..MaxVersion]]
    BY <1>2, PromiseProperties, KeepProperties DEF Clear, Promises, Ways
  <2>2. QED
    BY <1>2, <2>1 DEF Clear, DeleteKeys, Frame
<1>3. CASE \E k \in Keys : Expire(k)
  BY <1>3 DEF Expire, DeleteKeys, Frame
<1> SUFFICES ASSUME NEW c \in Calls, GetOrExecute(c) \/ Invalidate(c) \/ Reject(c)
             PROVE  TypeOK'
  BY <1>1, <1>2, <1>3 DEF Next
<1>4. CASE \E k \in Keys : Ask(c, k)
  BY <1>4 DEF Ask
<1>5. CASE Hit(c) \/ Uncached(c) \/ Filled(c)
  <2>1. mark' \in [Calls -> Promises]
    BY <1>0, <1>5 DEF Hit, Uncached, Filled, Promises
  <2>2. Leave(c) /\ UNCHANGED <<adapter, db, store, expired, index, floor, lost>>
    BY <1>5 DEF Hit, Uncached, Filled
  <2>3. QED
    BY <1>0, <2>1, <2>2 DEF Promises
<1>6. CASE Miss(c)
  BY <1>6 DEF Miss, DeleteKeys, Unlisted, Frame
<1>7. CASE Query(c)
  BY <1>7 DEF Query
<1>8. CASE Set(c)
  <2>1. key[c] \in Keys /\ seen[c] \in 0..MaxVersion /\ seen[c] # Nothing
    BY <1>8, CacheAssumption DEF Set, AwaitsOK
  <2>2. Tagged[key[c]] \in SUBSET Tags
    BY <2>1, CacheAssumption
  <2>3. QED
    BY <1>8, <2>1, <2>2 DEF Set
<1>9. CASE Register(c)
  BY <1>9 DEF Register, AwaitsOK
<1>10. CASE \E k \in Keys : InvalidateKey(c, k)
  <2>1. PICK k \in Keys : InvalidateKey(c, k)
    BY <1>10
  <2>2. floor' \in [Ways -> [Keys -> 0..MaxVersion]]
    BY <2>1, PromiseProperties, KeepProperties DEF InvalidateKey, Promises, Ways
  <2>3. QED
    BY <2>1, <2>2 DEF InvalidateKey, DeleteKeys, Unlisted, Frame
<1>11. CASE \E T \in (SUBSET Tags) \ {{}} : InvalidateTagsNow(c, T)
  <2>1. PICK T \in SUBSET Tags : InvalidateTagsNow(c, T)
    BY <1>11
  <2>2. floor' \in [Ways -> [Keys -> 0..MaxVersion]]
    BY <2>1, PromiseProperties, KeepProperties DEF InvalidateTagsNow, Promises, Ways, KeysOf
  <2>3. QED
    BY <2>1, <2>2 DEF InvalidateTagsNow, DeleteKeys, Frame
<1>12. CASE \E T \in (SUBSET Tags) \ {{}} : StartTags(c, T)
  <2>1. PICK T \in SUBSET Tags : StartTags(c, T)
    BY <1>12
  <2>2. Promise("tag", KeysOf(T)) \in Promises
    BY PromiseProperties DEF Promises, Ways, KeysOf
  <2>3. mark' \in [Calls -> Promises]
    BY <2>1, <2>2 DEF StartTags, Promises
  <2>4. QED
    BY <2>1, <2>3 DEF StartTags, Promises
<1>13. CASE \E p \in Prefixes : StartPrefix(c, p)
  <2>1. PICK p \in SUBSET Keys : StartPrefix(c, p)
    BY <1>13, CacheAssumption
  <2>2. Promise("key", p) \in Promises
    BY PromiseProperties DEF Promises, Ways
  <2>3. mark' \in [Calls -> Promises]
    BY <2>1, <2>2 DEF StartPrefix, Promises
  <2>4. /\ pc' \in [Calls -> Awaits] /\ todo' \in [Calls -> SUBSET (Keys \cup Tags)]
        /\ doomed' \in [Calls -> SUBSET Keys]
    <3> DEFINE D == {k \in p : store[k] # Nothing}
    <3>1. D \in SUBSET Keys /\ p \in SUBSET (Keys \cup Tags)
      OBVIOUS
    <3>2. /\ pc' \in {[pc EXCEPT ![c] = "delKeys"], [pc EXCEPT ![c] = "scan"]}
          /\ todo' \in {todo, [todo EXCEPT ![c] = p]}
          /\ doomed' \in {doomed, [doomed EXCEPT ![c] = D]}
      BY <2>1 DEF StartPrefix
    <3> HIDE DEF D
    <3>3. QED
      BY <3>1, <3>2
  <2>5. QED
    BY <2>1, <2>3, <2>4 DEF StartPrefix, Promises
<1>14. CASE Members(c)
  BY <1>14 DEF Members, Current, AwaitsOK
<1>15. CASE DelTag(c)
  BY <1>15 DEF DelTag, Current, AwaitsOK
<1>16. CASE Scan(c)
  BY <1>16 DEF Scan
<1>17. CASE DelKeys(c)
  BY <1>17 DEF DelKeys, DeleteKeys, Unlisted
<1>18. CASE Invalidated(c)
  <2>1. floor' \in [Ways -> [Keys -> 0..MaxVersion]]
    BY <1>18, KeepProperties DEF Invalidated, Promises
  <2>2. mark' \in [Calls -> Promises]
    BY <1>0, <1>18 DEF Invalidated, Promises
  <2>3. QED
    BY <1>0, <1>18, <2>1, <2>2 DEF Invalidated, Promises
<1>19. CASE Reject(c)
  <2>1. {k \in Taken(c) : store[k] # Nothing} \in SUBSET Keys
    BY DEF Taken
  <2>2. /\ floor' \in [Ways -> [Keys -> 0..MaxVersion]]
        /\ mark' \in [Calls -> Promises]
    BY <1>19, <2>1, WithdrawProperties DEF Reject
  <2>3. QED
    BY <1>0, <1>19, <2>1, <2>2 DEF Reject, Promises, Taken
<1>20. QED
  BY <1>4, <1>5, <1>6, <1>7, <1>8, <1>9, <1>10, <1>11, <1>12, <1>13, <1>14, <1>15, <1>16,
     <1>17, <1>18, <1>19 DEF GetOrExecute, Invalidate

\* Every step keeps what is known of the calls at each of their awaits.
LEMMA AwaitsStep ==
  ASSUME TypeOK, AwaitsOK, Next
  PROVE  AwaitsOK'
<1> USE DEF TypeOK, AwaitsOK
<1>1. CASE Write \/ Clear \/ \E k \in Keys : Expire(k)
  BY <1>1 DEF Write, Clear, Expire, Frame
<1> SUFFICES ASSUME NEW c \in Calls, GetOrExecute(c) \/ Invalidate(c) \/ Reject(c)
             PROVE  AwaitsOK'
  BY <1>1 DEF Next
<1>2. CASE \E k \in Keys : Ask(c, k)
  BY <1>2 DEF Ask
<1>3. CASE Hit(c) \/ Uncached(c) \/ Filled(c) \/ Invalidated(c)
  <2>1. Leave(c) /\ mark' = [mark EXCEPT ![c] = NoMark] /\ adapter' = adapter
    BY <1>3 DEF Hit, Uncached, Filled, Invalidated, Return
  <2>2. NoMark.by = "key"
    BY DEF NoMark
  <2>3. QED
    BY <2>1, <2>2 DEF Leave
<1>4. CASE Miss(c) \/ Query(c) \/ Set(c) \/ Register(c)
  <2>1. CASE Miss(c)
    BY <2>1 DEF Miss, Frame
  <2>2. CASE Query(c)
    BY <2>2 DEF Query
  <2>3. CASE Set(c)
    BY <2>3 DEF Set
  <2>4. CASE Register(c)
    BY <2>4 DEF Register
  <2>5. QED
    BY <1>4, <2>1, <2>2, <2>3, <2>4
<1>5. CASE \/ \E k \in Keys : InvalidateKey(c, k)
           \/ \E T \in (SUBSET Tags) \ {{}} : InvalidateTagsNow(c, T)
  BY <1>5 DEF InvalidateKey, InvalidateTagsNow, Frame
<1>6. CASE \E T \in (SUBSET Tags) \ {{}} : StartTags(c, T)
  <2>1. PICK T \in (SUBSET Tags) \ {{}} : StartTags(c, T)
    BY <1>6
  <2>2. Promise("tag", KeysOf(T)).by = "tag"
    BY DEF Promise
  <2>3. QED
    BY <2>1, <2>2 DEF StartTags
<1>7. CASE \E p \in Prefixes : StartPrefix(c, p)
  <2>1. PICK p \in Prefixes : StartPrefix(c, p)
    BY <1>7
  <2>2. Promise("key", p).by = "key"
    BY DEF Promise
  <2>3. QED
    BY <2>1, <2>2, CacheAssumption DEF StartPrefix
<1>8. CASE Members(c) \/ Scan(c) \/ DelKeys(c)
  BY <1>8 DEF Members, Scan, DelKeys
<1>9. CASE DelTag(c)
  BY <1>9 DEF DelTag
<1>10. CASE Reject(c)
  <2>1. Leave(c) /\ adapter' = adapter
    BY <1>10 DEF Reject
  <2>2. mark'[c] = NoMark /\ \A d \in Calls \ {c} : mark'[d].by = mark[d].by
    BY <1>10, WithdrawProperties DEF Reject, Taken
  <2>3. \A d \in Calls \ {c} : mark[d] = NoMark => mark'[d] = NoMark
    BY <1>10 DEF Reject, Withdraw, NoMark
  <2>4. QED
    BY <2>1, <2>2, <2>3 DEF Leave, NoMark
<1>11. QED
  BY <1>2, <1>3, <1>4, <1>5, <1>6, <1>7, <1>8, <1>9, <1>10 DEF GetOrExecute, Invalidate

(***************************************************************************)
(* Promises.                                                               *)
(***************************************************************************)

\* What can be promised now can be promised after every step: a query sees the database.
LEMMA FairStep ==
  ASSUME TypeOK, Next, NEW k \in Keys, NEW n \in Nat, Fair(k, n)
  PROVE  Fair(k, n)'
<1> USE DEF Fair, Storing, Leave, Return, Frame, TypeOK
<1>0. MaxVersion \in Nat
  BY CacheAssumption
<1>1. CASE Write
  BY <1>0, <1>1 DEF Write
<1>2. CASE Clear \/ \E i \in Keys : Expire(i)
  BY <1>2 DEF Clear, Expire
<1> SUFFICES ASSUME NEW c \in Calls, GetOrExecute(c) \/ Invalidate(c) \/ Reject(c)
             PROVE  Fair(k, n)'
  BY <1>1, <1>2 DEF Next
<1>3. CASE Query(c)
  BY <1>3 DEF Query
<1>4. CASE Hit(c) \/ Uncached(c) \/ Filled(c) \/ Invalidated(c) \/ Reject(c)
  <2>1. Leave(c) /\ db' = db
    BY <1>4 DEF Hit, Uncached, Filled, Invalidated, Reject
  <2>2. QED
    BY <2>1
<1>5. CASE GetOrExecute(c) \/ Invalidate(c)
  <2>1. CASE \E i \in Keys : Ask(c, i)
    BY <2>1 DEF Ask
  <2>2. CASE Miss(c)
    BY <2>2 DEF Miss
  <2>3. CASE Set(c) \/ Register(c)
    BY <2>3 DEF Set, Register
  <2>4. CASE \E i \in Keys : InvalidateKey(c, i)
    BY <2>4 DEF InvalidateKey
  <2>5. CASE \E T \in (SUBSET Tags) \ {{}} : InvalidateTagsNow(c, T)
    BY <2>5 DEF InvalidateTagsNow
  <2>6. CASE \E T \in (SUBSET Tags) \ {{}} : StartTags(c, T)
    BY <2>6 DEF StartTags
  <2>7. CASE \E p \in Prefixes : StartPrefix(c, p)
    BY <2>7 DEF StartPrefix
  <2>8. CASE Members(c) \/ DelTag(c) \/ Scan(c) \/ DelKeys(c)
    BY <2>8 DEF Members, DelTag, Scan, DelKeys
  <2>9. QED
    BY <1>3, <1>4, <1>5, <2>1, <2>2, <2>3, <2>4, <2>5, <2>6, <2>7, <2>8
       DEF GetOrExecute, Invalidate
<1>6. QED
  BY <1>4, <1>5

\* Zero, and what an invalidation that starts now promises, is fair.
LEMMA PromisesAreFair ==
  ASSUME TypeOK, NEW k \in Keys
  PROVE  /\ Fair(k, 0) /\ Fair(k, NoMark.least[k])
         /\ \A w \in Ways, S \in SUBSET Keys : Fair(k, Promise(w, S).least[k])
<1>1. /\ db \in Nat /\ \A d \in Storing(k) : seen[d] \in Nat
      /\ NoMark.least[k] = 0
  BY CacheAssumption DEF TypeOK, Storing, NoMark, Zero
<1>2. QED
  BY <1>1, PromiseProperties DEF Fair

\* Every step keeps the promises fair: the floors and the marks hold only what was fair.
LEMMA FairOKStep ==
  ASSUME TypeOK, AwaitsOK, FairOK, Next, TypeOK'
  PROVE  FairOK'
<1> SUFFICES ASSUME NEW k \in Keys
             PROVE  /\ \A w \in Ways : Fair(k, floor'[w][k])
                    /\ \A e \in Calls : Fair(k, mark'[e].least[k])
  <2>1. \A k \in Keys : /\ \A w \in Ways : floor'[w][k] \in Nat
                        /\ \A e \in Calls : mark'[e].least[k] \in Nat
    BY CacheAssumption DEF TypeOK
  <2>2. QED
    BY <2>1, FairStep DEF FairOK
<1>1. /\ Fair(k, 0) /\ Fair(k, NoMark.least[k])
      /\ \A w \in Ways, S \in SUBSET Keys : Fair(k, Promise(w, S).least[k])
  BY PromisesAreFair
<1>2. /\ \A w \in Ways : Fair(k, floor[w][k])
      /\ \A e \in Calls : Fair(k, mark[e].least[k])
      /\ mark \in [Calls -> Promises]
  BY DEF FairOK, TypeOK, Promises
<1>3. ASSUME NEW p \in Promises, Fair(k, p.least[k]), Keep(p)
      PROVE  \A w \in Ways : Fair(k, floor'[w][k])
  <2> TAKE w \in Ways
  <2>1. floor'[w][k] = floor[w][k] \/ floor'[w][k] = p.least[k]
    BY <1>3, KeepProperties
  <2>2. QED
    BY <1>2, <1>3, <2>1
<1>4. CASE Clear
  <2>1. Promise("key", Keys) \in Promises
    BY PromiseProperties DEF Promises, Ways
  <2>2. QED
    BY <1>1, <1>2, <1>3, <1>4, <2>1 DEF Clear, Frame, Ways
<1>5. CASE Write \/ \E i \in Keys : Expire(i)
  <2>1. floor' = floor /\ mark' = mark
    BY <1>5 DEF Write, Expire, Frame
  <2>2. QED
    BY <1>2, <2>1
<1> SUFFICES ASSUME NEW c \in Calls, GetOrExecute(c) \/ Invalidate(c) \/ Reject(c)
             PROVE  /\ \A w \in Ways : Fair(k, floor'[w][k])
                    /\ \A e \in Calls : Fair(k, mark'[e].least[k])
  BY <1>4, <1>5 DEF Next
<1>6. ASSUME NEW p, Fair(k, p.least[k]), mark' = [mark EXCEPT ![c] = p]
      PROVE  \A e \in Calls : Fair(k, mark'[e].least[k])
  <2> TAKE e \in Calls
  <2>1. mark'[e] = IF e = c THEN p ELSE mark[e]
    BY <1>2, <1>6
  <2>2. QED
    BY <1>2, <1>6, <2>1
<1>7. CASE GetOrExecute(c)
  <2>1. floor' = floor /\ (mark' = mark \/ mark' = [mark EXCEPT ![c] = NoMark])
    BY <1>7 DEF GetOrExecute, Ask, Hit, Miss, Query, Uncached, Set, Register, Filled, Return, Frame
  <2>2. QED
    BY <1>1, <1>2, <1>6, <2>1
<1>8. CASE \E i \in Keys : InvalidateKey(c, i)
  <2>1. PICK i \in Keys : InvalidateKey(c, i)
    BY <1>8
  <2>2. Promise("key", {i}) \in Promises /\ Fair(k, Promise("key", {i}).least[k])
    BY <1>1, PromiseProperties DEF Promises, Ways
  <2>3. QED
    BY <1>2, <1>3, <2>1, <2>2 DEF InvalidateKey, Frame
<1>9. CASE \E T \in (SUBSET Tags) \ {{}} : InvalidateTagsNow(c, T)
  <2>1. PICK T \in SUBSET Tags : InvalidateTagsNow(c, T)
    BY <1>9
  <2>2. /\ Promise("tag", KeysOf(T)) \in Promises
        /\ Fair(k, Promise("tag", KeysOf(T)).least[k])
    BY <1>1, PromiseProperties DEF Promises, Ways, KeysOf
  <2>3. QED
    BY <1>2, <1>3, <2>1, <2>2 DEF InvalidateTagsNow, Frame
<1>10. CASE \E T \in (SUBSET Tags) \ {{}} : StartTags(c, T)
  <2>1. PICK T \in SUBSET Tags : StartTags(c, T)
    BY <1>10
  <2>2. Fair(k, Promise("tag", KeysOf(T)).least[k])
    BY <1>1 DEF Ways, KeysOf
  <2>3. QED
    BY <1>2, <1>6, <2>1, <2>2 DEF StartTags
<1>11. CASE \E p \in Prefixes : StartPrefix(c, p)
  <2>1. PICK p \in SUBSET Keys : StartPrefix(c, p)
    BY <1>11, CacheAssumption
  <2>2. Fair(k, Promise("key", p).least[k])
    BY <1>1 DEF Ways
  <2>3. QED
    BY <1>2, <1>6, <2>1, <2>2 DEF StartPrefix
<1>12. CASE Members(c) \/ DelTag(c) \/ Scan(c) \/ DelKeys(c)
  <2>1. floor' = floor /\ mark' = mark
    BY <1>12 DEF Members, DelTag, Scan, DelKeys
  <2>2. QED
    BY <1>2, <2>1
<1>13. CASE Invalidated(c)
  <2>1. mark[c] \in Promises /\ Keep(mark[c]) /\ mark' = [mark EXCEPT ![c] = NoMark]
    BY <1>2, <1>13 DEF Invalidated, Return
  <2>2. QED
    BY <1>1, <1>2, <1>3, <1>6, <2>1
<1>14. CASE Reject(c)
  <2> DEFINE S == {i \in Taken(c) : store[i] # Nothing}
  <2>1. S \in SUBSET Keys
    BY DEF Taken, TypeOK
  <2>2. Withdraw(c, S)
    BY <1>14 DEF Reject
  <2> HIDE DEF S
  <2>3. \A w \in Ways : floor'[w][k] \in {floor[w][k], 0}
    BY <2>1, <2>2, WithdrawProperties DEF Ways
  <2>4. \A e \in Calls : mark'[e].least[k] \in {mark[e].least[k], NoMark.least[k], 0}
    <3> TAKE e \in Calls
    <3>1. mark[e].by \in {"key", "tag"}
      BY DEF TypeOK, Ways
    <3>2. QED
      BY <2>1, <2>2, <3>1, WithdrawProperties
  <2>5. QED
    BY <1>1, <1>2, <2>3, <2>4
<1>15. QED
  BY <1>7, <1>8, <1>9, <1>10, <1>11, <1>12, <1>13, <1>14 DEF Invalidate
(***************************************************************************)
(* Invalidation by key and by prefix.                                      *)
(***************************************************************************)

\* An entry stays as it is, is deleted, or is what a fill stores: which is fair.
LEMMA PrefixOKStep ==
  ASSUME TypeOK, AwaitsOK, FairOK, PrefixOK, Next
  PROVE  PrefixOK'
<1> DEFINE Kept(k, e) == \/ mark[e].least[k] =< store[k]
                         \/ k \in doomed[e]
                         \/ pc[e] = "scan" /\ k \in todo[e]
<1> SUFFICES ASSUME NEW k \in Keys, store'[k] # Nothing
             PROVE  /\ floor'["key"][k] =< store'[k]
                    /\ \A e \in Calls : mark'[e].by = "key" => Kept(k, e)'
  BY DEF PrefixOK
<1>1. /\ store[k] # Nothing => floor["key"][k] =< store[k]
      /\ store[k] # Nothing => \A e \in Calls : mark[e].by = "key" => Kept(k, e)
  BY DEF PrefixOK
<1>2. /\ store[k] # Nothing => store[k] \in Nat
      /\ NoMark.least[k] = 0
  BY CacheAssumption DEF TypeOK, NoMark, Zero
<1> USE DEF TypeOK, Frame
\* Steps that touch neither the promises by key nor what is to be deleted for them.
<1>3. ASSUME floor' = floor, UNCHANGED <<pc, todo, doomed, mark>>, store'[k] = store[k]
      PROVE  /\ floor'["key"][k] =< store'[k]
             /\ \A e \in Calls : mark'[e].by = "key" => Kept(k, e)'
  BY <1>1, <1>3
<1>4. CASE Write
  BY <1>3, <1>4 DEF Write
<1>5. CASE Clear
  BY <1>5 DEF Clear, DeleteKeys
<1>6. CASE \E i \in Keys : Expire(i)
  <2>1. store'[k] = store[k]
    BY <1>6 DEF Expire, DeleteKeys
  <2>2. QED
    BY <1>3, <1>6, <2>1 DEF Expire
<1> SUFFICES ASSUME NEW c \in Calls, GetOrExecute(c) \/ Invalidate(c) \/ Reject(c)
             PROVE  /\ floor'["key"][k] =< store'[k]
                    /\ \A e \in Calls : mark'[e].by = "key" => Kept(k, e)'
  BY <1>4, <1>5, <1>6 DEF Next
\* A call that is not scanning moves to an await at which it does not scan.
<1>7. ASSUME floor' = floor, pc[c] # "scan", store'[k] = store[k],
             \A e \in Calls \ {c} : pc'[e] = pc[e] /\ todo'[e] = todo[e] /\ doomed'[e] = doomed[e],
             doomed[c] \subseteq doomed'[c], mark' = mark
      PROVE  /\ floor'["key"][k] =< store'[k]
             /\ \A e \in Calls : mark'[e].by = "key" => Kept(k, e)'
  BY <1>1, <1>7
<1>8. CASE \E i \in Keys : Ask(c, i)
  BY <1>7, <1>8 DEF Ask
<1>9. CASE Hit(c) \/ Uncached(c) \/ Filled(c) \/ Invalidated(c)
  <2>1. Leave(c) /\ mark' = [mark EXCEPT ![c] = NoMark] /\ store' = store
    BY <1>9 DEF Hit, Uncached, Filled, Invalidated, Return
  <2>2. \A e \in Calls : mark'[e].by = "key" => Kept(k, e)'
    BY <1>1, <1>2, <2>1 DEF Leave
  <2>3. CASE floor' = floor
    BY <1>1, <2>1, <2>2, <2>3
  <2>4. CASE Invalidated(c)
    <3>1. mark[c] \in Promises /\ Keep(mark[c]) /\ pc[c] = "delKeys" /\ doomed[c] = {}
      BY <2>4 DEF Invalidated, Promises
    <3>2. \/ floor'["key"][k] = floor["key"][k]
          \/ mark[c].by = "key" /\ floor'["key"][k] = mark[c].least[k]
      BY <3>1, KeepProperties DEF Ways
    <3>3. mark[c].by = "key" => mark[c].least[k] =< store[k]
      BY <1>1, <2>1, <3>1
    <3>4. QED
      BY <1>1, <2>1, <2>2, <3>2, <3>3
  <2>5. QED
    BY <1>9, <2>3, <2>4 DEF Hit, Uncached, Filled
<1>10. CASE Miss(c)
  <2>1. store'[k] = store[k]
    BY <1>10 DEF Miss, DeleteKeys
  <2>2. QED
    BY <1>7, <1>10, <2>1 DEF Miss
<1>11. CASE Query(c)
  BY <1>7, <1>11 DEF Query
<1>12. CASE Set(c)
  <2>1. CASE key[c] = k
    <3>1. c \in Storing(k) /\ store'[k] = seen[c] /\ floor' = floor /\ mark' = mark
      BY <1>12, <2>1 DEF Set, Storing
    <3>2. floor["key"][k] =< seen[c] /\ \A e \in Calls : mark[e].least[k] =< seen[c]
      BY <3>1 DEF FairOK, Fair, Ways
    <3>3. QED
      BY <3>1, <3>2
  <2>2. CASE key[c] # k
    <3>1. store'[k] = store[k]
      BY <1>12, <2>2 DEF Set
    <3>2. QED
      BY <1>7, <1>12, <3>1 DEF Set
  <2>3. QED
    BY <2>1, <2>2
<1>13. CASE Register(c)
  BY <1>7, <1>13 DEF Register
<1>14. CASE \E i \in Keys : InvalidateKey(c, i)
  <2>1. PICK i \in Keys : InvalidateKey(c, i)
    BY <1>14
  <2>2. store'[k] = store[k] /\ i # k
    BY <2>1 DEF InvalidateKey, DeleteKeys
  <2>3. Promise("key", {i}) \in Promises /\ Promise("key", {i}).least[k] = 0
    <3>1. {i} \in SUBSET Keys /\ k \notin {i} /\ "key" \in Ways
      BY <2>2 DEF Ways
    <3> HIDE DEF TypeOK
    <3>2. QED
      BY <3>1, PromiseProperties DEF Promises
  <2>4. floor'["key"][k] \in {floor["key"][k], 0}
    BY <2>1, <2>3, KeepProperties DEF InvalidateKey, Ways
  <2>5. UNCHANGED <<pc, todo, doomed, mark>>
    BY <2>1 DEF InvalidateKey
  <2>6. QED
    BY <1>1, <1>2, <2>2, <2>4, <2>5
<1>15. CASE \E T \in (SUBSET Tags) \ {{}} : InvalidateTagsNow(c, T)
  <2>1. PICK T \in SUBSET Tags : InvalidateTagsNow(c, T)
    BY <1>15
  <2>2. Promise("tag", KeysOf(T)) \in Promises /\ Promise("tag", KeysOf(T)).by = "tag"
    BY PromiseProperties DEF Promises, Ways, KeysOf
  <2>3. floor'["key"][k] = floor["key"][k]
    BY <2>1, <2>2, KeepProperties DEF InvalidateTagsNow, Ways
  <2>4. UNCHANGED <<pc, todo, doomed, mark>> /\ store'[k] = store[k]
    BY <2>1 DEF InvalidateTagsNow, DeleteKeys
  <2>5. QED
    BY <1>1, <2>3, <2>4
<1>16. CASE \E T \in (SUBSET Tags) \ {{}} : StartTags(c, T)
  <2>1. PICK T \in SUBSET Tags : StartTags(c, T)
    BY <1>16
  <2>2. Promise("tag", KeysOf(T)).by = "tag"
    BY DEF Promise
  <2>3. QED
    BY <1>1, <2>1, <2>2 DEF StartTags
<1>17. CASE \E p \in Prefixes : StartPrefix(c, p)
  <2>1. PICK p \in SUBSET Keys : StartPrefix(c, p)
    BY <1>17, CacheAssumption
  <2>2. k \notin p => Promise("key", p).least[k] = 0
    BY PromiseProperties DEF Ways
  <2>3. store' = store /\ floor' = floor /\ mark' = [mark EXCEPT ![c] = Promise("key", p)]
    BY <2>1 DEF StartPrefix
  <2>4. CASE adapter = "memory"
    BY <1>1, <1>2, <2>1, <2>2, <2>3, <2>4 DEF StartPrefix
  <2>5. CASE adapter # "memory"
    BY <1>1, <1>2, <2>1, <2>2, <2>3, <2>5 DEF StartPrefix
  <2>6. QED
    BY <2>4, <2>5
<1>18. CASE Members(c)
  BY <1>7, <1>18 DEF Members
<1>19. CASE DelTag(c)
  BY <1>7, <1>19 DEF DelTag
<1>20. CASE Scan(c)
  BY <1>1, <1>20 DEF Scan
<1>21. CASE DelKeys(c)
  BY <1>1, <1>21 DEF DelKeys, DeleteKeys
<1>22. CASE Reject(c)
  <2> DEFINE S == {i \in Taken(c) : store[i] # Nothing}
  <2>1. S \in SUBSET Keys
    BY DEF Taken
  <2>2. Withdraw(c, S) /\ Leave(c) /\ store' = store
    BY <1>22 DEF Reject
  <2> HIDE DEF S
  <2>3. floor'["key"][k] = floor["key"][k] /\ mark'[c] = NoMark
    BY <2>1, <2>2, WithdrawProperties
  <2>4. \A e \in Calls \ {c} :
          /\ mark'[e].by = mark[e].by
          /\ mark[e].by = "key" => mark'[e] = mark[e]
    <3> HIDE DEF TypeOK
    <3>1. QED
      BY <2>1, <2>2, WithdrawProperties, Zenon
  <2>5. QED
    BY <1>1, <1>2, <2>2, <2>3, <2>4 DEF Leave
<1>23. QED
  BY <1>8, <1>9, <1>10, <1>11, <1>12, <1>13, <1>14, <1>15, <1>16, <1>17, <1>18, <1>19, <1>20,
     <1>21, <1>22 DEF GetOrExecute, Invalidate
(***************************************************************************)
(* Invalidation by tag.                                                    *)
(***************************************************************************)

\* The entry of k stays what it is, and under its tags unless it gets beyond their reach.
Steady(k) ==
  /\ store'[k] = store[k]
  /\ \A t \in Tags : k \in index[t] => k \in index'[t] \/ Beyond(k)'
  /\ Beyond(k) => Beyond(k)'

\* So does every entry that a step neither stores nor deletes, unless a call fails.
LEMMA SteadyStep ==
  ASSUME TypeOK, AwaitsOK, Next, NEW k \in Keys, store'[k] # Nothing
  PROVE  \/ Steady(k)
         \/ \E c \in Calls : Set(c) /\ key[c] = k
         \/ \E c \in Calls : Reject(c)
<1> USE DEF TypeOK, Frame
\* Nothing is taken out of a tag, and no call forgets what it has taken.
<1>1. ASSUME adapter' = adapter, store'[k] = store[k], k \in lost => k \in lost',
             \A t \in Tags : k \in index[t] => k \in index'[t],
             \A e \in Calls : k \in Taken(e) => k \in Taken(e)'
      PROVE  Steady(k)
  BY <1>1 DEF Steady, Beyond, Leaving
<1>2. ASSUME UNCHANGED <<doomed, mark>>
      PROVE  \A e \in Calls : k \in Taken(e) => k \in Taken(e)'
  BY <1>2 DEF Taken
<1>3. CASE Write
  BY <1>1, <1>2, <1>3 DEF Write
<1>4. CASE Clear
  BY <1>4 DEF Clear, DeleteKeys
<1>5. CASE \E i \in Keys : Expire(i)
  BY <1>1, <1>2, <1>5 DEF Expire, DeleteKeys
<1> SUFFICES ASSUME NEW c \in Calls, GetOrExecute(c) \/ Invalidate(c) \/ Reject(c)
             PROVE  Steady(k) \/ (Set(c) /\ key[c] = k) \/ Reject(c)
  BY <1>3, <1>4, <1>5 DEF Next
<1>6. CASE (\E i \in Keys : Ask(c, i)) \/ Query(c)
  BY <1>1, <1>2, <1>6 DEF Ask, Query
<1>7. CASE Hit(c) \/ Uncached(c) \/ Filled(c) \/ Invalidated(c)
  <2>1. /\ Leave(c) /\ mark' = [mark EXCEPT ![c] = NoMark] /\ doomed[c] = {}
        /\ UNCHANGED <<adapter, store, index, lost>>
    BY <1>7 DEF Hit, Uncached, Filled, Invalidated, Return, AwaitsOK
  <2>2. \A e \in Calls : k \in Taken(e) => k \in Taken(e)'
    BY <2>1 DEF Leave, Taken
  <2>3. QED
    BY <1>1, <2>1, <2>2
<1>8. CASE Miss(c)
  <2>1. store'[k] = store[k] /\ k \notin {key[c]} \cap expired
    BY <1>8 DEF Miss, DeleteKeys
  <2>2. k \in lost => k \in lost'
    BY <1>8, <2>1 DEF Miss, DeleteKeys
  <2>3. \A t \in Tags : k \in index[t] => k \in index'[t]
    BY <1>8, <2>1 DEF Miss, Unlisted
  <2>4. UNCHANGED <<doomed, mark, adapter>>
    BY <1>8 DEF Miss
  <2>5. QED
    BY <1>1, <1>2, <2>1, <2>2, <2>3, <2>4
<1>9. CASE Set(c)
  BY <1>1, <1>2, <1>9 DEF Set
<1>10. CASE Register(c)
  BY <1>1, <1>2, <1>10 DEF Register
<1>11. CASE \E i \in Keys : InvalidateKey(c, i)
  BY <1>1, <1>2, <1>11 DEF InvalidateKey, DeleteKeys, Unlisted
<1>12. CASE \E T \in (SUBSET Tags) \ {{}} : InvalidateTagsNow(c, T)
  BY <1>1, <1>2, <1>12 DEF InvalidateTagsNow, DeleteKeys
<1>13. CASE \/ \E T \in (SUBSET Tags) \ {{}} : StartTags(c, T)
            \/ \E p \in Prefixes : StartPrefix(c, p)
  <2>1. /\ doomed[c] = {} /\ UNCHANGED <<adapter, store, index, lost>>
        /\ \A e \in Calls \ {c} : doomed'[e] = doomed[e] /\ mark'[e] = mark[e]
    BY <1>13 DEF StartTags, StartPrefix, AwaitsOK
  <2>2. QED
    BY <1>1, <2>1 DEF Taken
<1>14. CASE Members(c) \/ Scan(c)
  <2>1. UNCHANGED <<adapter, store, index, lost, mark>>
    BY <1>14 DEF Members, Scan
  <2>2. \A e \in Calls : doomed[e] \subseteq doomed'[e]
    <3>1. CASE Members(c)
      BY <3>1 DEF Members
    <3>2. CASE Scan(c)
      BY <3>2 DEF Scan
    <3>3. QED
      BY <1>14, <3>1, <3>2
  <2>3. QED
    BY <1>1, <2>1, <2>2 DEF Taken
<1>15. CASE DelTag(c)
  <2>1. /\ adapter = "redis" /\ Taken(c) = doomed[c] /\ Current(c) \in Tags
        /\ UNCHANGED <<adapter, store, doomed, mark>> /\ lost \subseteq lost'
    BY <1>15 DEF DelTag, AwaitsOK, Taken, Current
  <2>2. \A t \in Tags : k \in index[t] => k \in index'[t] \/ k \in Taken(c) \/ k \in lost'
    BY <1>15, <2>1 DEF DelTag
  <2>3. QED
    BY <1>2, <2>1, <2>2 DEF Steady, Beyond, Leaving
<1>16. CASE DelKeys(c)
  <2>1. PICK K \in SUBSET doomed[c] :
          /\ DeleteKeys(K) /\ index' = Unlisted(K)
          /\ doomed' = [doomed EXCEPT ![c] = @ \ K]
          /\ UNCHANGED <<adapter, mark>>
    BY <1>16 DEF DelKeys
  <2>2. k \notin K
    BY <2>1 DEF DeleteKeys
  <2>3. store'[k] = store[k] /\ (k \in lost => k \in lost')
    BY <2>1, <2>2 DEF DeleteKeys
  <2>4. \A t \in Tags : k \in index[t] => k \in index'[t]
    BY <2>1, <2>2 DEF Unlisted
  <2>5. \A e \in Calls : k \in Taken(e) => k \in Taken(e)'
    BY <2>1, <2>2 DEF Taken
  <2>6. QED
    BY <1>1, <2>1, <2>3, <2>4, <2>5
<1>17. QED
  BY <1>6, <1>7, <1>8, <1>9, <1>10, <1>11, <1>12, <1>13, <1>14, <1>15, <1>16
     DEF GetOrExecute, Invalidate

\* A fill that has still to register its entry goes on with it, or is over.
LEMMA TaggingStep ==
  ASSUME TypeOK, AwaitsOK, Next, adapter # "keyv", NEW k \in Keys, NEW d \in Tagging(k)
  PROVE  \/ todo[d] = {}
         \/ Reject(d)
         \/ /\ d \in Tagging(k)' /\ seen'[d] = seen[d]
            /\ \A t \in Tags : t \notin todo'[d] => t \notin todo[d] \/ k \in index'[t]
<1> USE DEF TypeOK, Tagging, Frame
<1>1. d \in Calls /\ pc[d] = "tags" /\ key[d] = k
  OBVIOUS
<1>2. CASE Write \/ Clear \/ \E i \in Keys : Expire(i)
  <2>1. UNCHANGED <<pc, key, seen, todo>>
    BY <1>2 DEF Write, Clear, Expire
  <2>2. QED
    BY <1>1, <2>1
<1> SUFFICES ASSUME NEW c \in Calls, GetOrExecute(c) \/ Invalidate(c) \/ Reject(c)
             PROVE  \/ todo[d] = {}
                    \/ Reject(d)
                    \/ /\ d \in Tagging(k)' /\ seen'[d] = seen[d]
                       /\ \A t \in Tags : t \notin todo'[d] => t \notin todo[d] \/ k \in index'[t]
  BY <1>2 DEF Next
<1>3. CASE Register(c)
  <2>1. CASE c = d
    <3>1. PICK T \in SUBSET todo[c] :
            /\ index' = [t \in Tags |-> IF t \in T THEN index[t] \cup {key[c]} ELSE index[t]]
            /\ todo' = [todo EXCEPT ![c] = @ \ T]
            /\ UNCHANGED <<pc, key, seen>>
      BY <1>3 DEF Register
    <3>2. QED
      BY <1>1, <2>1, <3>1
  <2>2. CASE c # d
    BY <1>1, <1>3, <2>2 DEF Register
  <2>3. QED
    BY <2>1, <2>2
<1>4. CASE c # d
  <2>1. CASE GetOrExecute(c)
    <3>1. pc'[d] = pc[d] /\ key'[d] = key[d] /\ seen'[d] = seen[d] /\ todo'[d] = todo[d]
      <4>1. CASE (\E i \in Keys : Ask(c, i)) \/ Miss(c) \/ Query(c)
        BY <1>4, <4>1 DEF Ask, Miss, Query
      <4>2. CASE Hit(c) \/ Uncached(c) \/ Filled(c)
        BY <1>4, <4>2 DEF Hit, Uncached, Filled, Return, Leave
      <4>3. CASE Set(c) \/ Register(c)
        BY <1>4, <4>3 DEF Set, Register
      <4>4. QED
        BY <2>1, <4>1, <4>2, <4>3 DEF GetOrExecute
    <3>2. QED
      BY <1>1, <3>1
  <2>2. CASE Invalidate(c)
    <3>1. pc'[d] = pc[d] /\ key'[d] = key[d] /\ seen'[d] = seen[d] /\ todo'[d] = todo[d]
      <4>1. CASE \/ \E i \in Keys : InvalidateKey(c, i)
                 \/ \E T \in (SUBSET Tags) \ {{}} : InvalidateTagsNow(c, T) \/ StartTags(c, T)
        BY <1>4, <4>1 DEF InvalidateKey, InvalidateTagsNow, StartTags
      <4>2. CASE \E p \in Prefixes : StartPrefix(c, p)
        BY <1>4, <4>2 DEF StartPrefix
      <4>3. CASE Members(c) \/ DelTag(c)
        BY <1>4, <4>3 DEF Members, DelTag
      <4>4. CASE Scan(c) \/ DelKeys(c)
        BY <1>4, <4>4 DEF Scan, DelKeys
      <4>5. CASE Invalidated(c)
        BY <1>4, <4>5 DEF Invalidated, Return, Leave
      <4>6. QED
        BY <2>2, <4>1, <4>2, <4>3, <4>4, <4>5 DEF Invalidate
    <3>2. QED
      BY <1>1, <3>1
  <2>3. CASE Reject(c)
    BY <1>1, <1>4, <2>3 DEF Reject, Leave
  <2>4. QED
    BY <2>1, <2>2, <2>3
<1>5. CASE c = d
  BY <1>1, <1>3, <1>5
     DEF GetOrExecute, Invalidate, Ask, Hit, Miss, Query, Uncached, Set, Filled, InvalidateKey,
         InvalidateTagsNow, StartTags, Members, DelTag, StartPrefix, Scan, DelKeys, Invalidated
<1>6. QED
  BY <1>4, <1>5

\* What a failing call leaves behind: the entry itself and the tags are as before; what is
\* no longer under its tags is beyond them.
LEMMA RejectStep ==
  ASSUME TypeOK, AwaitsOK, NEW c \in Calls, Reject(c), NEW k \in Keys, store[k] # Nothing
  PROVE  /\ UNCHANGED <<adapter, store, index>>
         /\ k \notin Taken(c) => (Beyond(k) => Beyond(k)')
         /\ k \in Taken(c) \/ c \in Tagging(k) =>
              \/ adapter = "keyv" \/ Beyond(k)' \/ \A t \in Tagged[k] : k \in index[t]
<1> USE DEF TypeOK
<1>1. /\ UNCHANGED <<adapter, store, index>> /\ Leave(c) /\ adapter # "memory"
      /\ lost' = lost \cup {i \in Taken(c) \cup {i \in Keys : c \in Tagging(i)} : Hidden(i)}
  BY DEF Reject
<1>2. \A e \in Calls \ {c} : mark'[e].by = mark[e].by
  <2> DEFINE S == {i \in Taken(c) : store[i] # Nothing}
  <2>1. S \in SUBSET Keys
    BY DEF Taken
  <2>2. Withdraw(c, S)
    BY DEF Reject
  <2> HIDE DEF S, TypeOK
  <2>3. QED
    BY <2>1, <2>2, WithdrawProperties, Zenon
<1>3. \A e \in Calls \ {c} : Taken(e)' = Taken(e)
  BY <1>1, <1>2 DEF Taken, Leave
<1>4. k \notin Taken(c) => (Beyond(k) => Beyond(k)')
  BY <1>1, <1>3 DEF Beyond, Leaving
<1>5. k \in Taken(c) \/ c \in Tagging(k) =>
        \/ adapter = "keyv" \/ Beyond(k)' \/ \A t \in Tagged[k] : k \in index[t]
  BY <1>1 DEF Hidden, Beyond
<1>6. QED
  BY <1>1, <1>4, <1>5

\* Every step keeps the entries under their tags, or leaves the fill that has to register them.
LEMMA ReachOKStep ==
  ASSUME TypeOK, AwaitsOK, ReachOK, Next
  PROVE  ReachOK'
<1> DEFINE Full(k) == \A t \in Tagged[k] : k \in index[t]
           Pending(d, k) == seen[d] = store[k] /\ \A t \in Tagged[k] \ todo[d] : k \in index[t]
<1>0. adapter' = adapter
  BY DEF Next, GetOrExecute, Invalidate, Write, Clear, Expire, Ask, Hit, Miss, Query, Uncached, Set,
         Register, Filled, InvalidateKey, InvalidateTagsNow, StartTags, StartPrefix, Members,
         DelTag, Scan, DelKeys, Invalidated, Reject
<1> SUFFICES ASSUME adapter # "keyv", NEW k \in Keys, store'[k] # Nothing
             PROVE  Full(k)' \/ Beyond(k)' \/ \E d \in Tagging(k)' : Pending(d, k)'
  BY <1>0 DEF ReachOK
<1>1. store[k] # Nothing => Full(k) \/ Beyond(k) \/ \E d \in Tagging(k) : Pending(d, k)
  BY DEF ReachOK
<1>2. Tagged[k] \subseteq Tags
  BY CacheAssumption
<1>3. CASE \E c \in Calls : Set(c) /\ key[c] = k
  <2>1. PICK c \in Calls : Set(c) /\ key[c] = k
    BY <1>3
  <2>2. c \in Tagging(k)' /\ seen'[c] = store'[k] /\ todo'[c] = Tagged[k]
    BY <2>1 DEF Set, Tagging, TypeOK
  <2>3. QED
    BY <2>2
<1>4. CASE \E c \in Calls : Reject(c)
  <2>1. PICK c \in Calls : Reject(c)
    BY <1>4
  <2>2. UNCHANGED <<adapter, store, index>>
    BY <2>1 DEF Reject
  <2>3. /\ k \notin Taken(c) => (Beyond(k) => Beyond(k)')
        /\ k \in Taken(c) \/ c \in Tagging(k) => Beyond(k)' \/ Full(k)
    BY <2>1, <2>2, RejectStep
  <2>4. \A d \in Tagging(k) \ {c} : Pending(d, k) => d \in Tagging(k)' /\ Pending(d, k)'
    BY <2>1, <2>2 DEF Reject, Leave, Tagging, TypeOK
  <2>5. QED
    BY <1>1, <2>2, <2>3, <2>4
<1>5. CASE Steady(k) /\ ~\E c \in Calls : Reject(c)
  <2>1. CASE Beyond(k)' \/ Full(k)
    BY <1>2, <1>5, <2>1 DEF Steady
  <2>2. CASE ~Beyond(k)' /\ ~Full(k)
    <3>1. PICK d \in Tagging(k) : Pending(d, k)
      BY <1>1, <1>5, <2>2 DEF Steady
    <3>2. \A t \in Tags : k \in index[t] => k \in index'[t]
      BY <1>5, <2>2 DEF Steady
    <3>3. todo[d] # {} /\ ~Reject(d)
      BY <1>5, <2>2, <3>1 DEF Tagging
    <3>4. /\ d \in Tagging(k)' /\ seen'[d] = seen[d]
          /\ \A t \in Tags : t \notin todo'[d] => t \notin todo[d] \/ k \in index'[t]
      BY <3>3, TaggingStep
    <3>5. QED
      BY <1>2, <1>5, <3>1, <3>2, <3>4 DEF Steady
  <2>3. QED
    BY <2>1, <2>2
<1>6. QED
  BY <1>3, <1>4, <1>5, SteadyStep

\* An invalidation by tag that starts now promises no more of an entry than it has, or is
\* going to read a tag that the entry is under.
LEMMA TagPromise ==
  ASSUME TypeOK, ReachOK, adapter # "keyv", NEW k \in Keys, store[k] # Nothing,
         NEW T \in SUBSET Tags
  PROVE  \/ Promise("tag", KeysOf(T)).least[k] =< store[k]
         \/ Beyond(k)
         \/ \E t \in T \cap Tagged[k] : k \in index[t]
<1>1. /\ \A d \in Tagging(k) : Promise("tag", KeysOf(T)).least[k] =< seen[d]
      /\ k \notin KeysOf(T) => Promise("tag", KeysOf(T)).least[k] = 0
  BY PromiseProperties DEF Ways, KeysOf
<1>2. store[k] \in Nat
  BY CacheAssumption DEF TypeOK
<1>3. CASE k \notin KeysOf(T)
  BY <1>1, <1>2, <1>3
<1>4. CASE k \in KeysOf(T)
  <2>1. PICK t \in T : t \in Tagged[k]
    BY <1>4 DEF KeysOf
  <2>2. QED
    BY <1>1, <2>1 DEF ReachOK
<1>5. QED
  BY <1>3, <1>4

\* Every step keeps the entries that are too old in sight of the invalidations by tag.
LEMMA TagOKStep ==
  ASSUME TypeOK, AwaitsOK, FairOK, ReachOK, TagOK, Next
  PROVE  TagOK'
<1> DEFINE Found(k, e) == \E t \in todo[e] \cap Tagged[k] : k \in index[t]
           Kept(k, e) == mark[e].least[k] =< store[k] \/ Beyond(k) \/ Found(k, e)
<1> SUFFICES ASSUME NEW k \in Keys, store'[k] # Nothing
             PROVE  /\ floor'["tag"][k] =< store'[k] \/ Beyond(k)'
                    /\ \A e \in Calls : mark'[e].by = "tag" => Kept(k, e)'
  BY DEF TagOK
<1>1. store[k] # Nothing => /\ floor["tag"][k] =< store[k] \/ Beyond(k)
                            /\ \A e \in Calls : mark[e].by = "tag" => Kept(k, e)
  BY DEF TagOK
<1>2. /\ store[k] # Nothing => store[k] \in Nat
      /\ NoMark.by = "key" /\ Tagged[k] \subseteq Tags
  BY CacheAssumption DEF TypeOK, NoMark
<1>3. CASE \E c \in Calls : Set(c) /\ key[c] = k
  <2>1. PICK c \in Calls : Set(c) /\ key[c] = k
    BY <1>3
  <2>2. c \in Storing(k) /\ store'[k] = seen[c] /\ floor' = floor /\ mark' = mark
    BY <2>1 DEF Set, Storing, TypeOK
  <2>3. floor["tag"][k] =< seen[c] /\ \A e \in Calls : mark[e].least[k] =< seen[c]
    BY <2>2 DEF FairOK, Fair, Ways
  <2>4. QED
    BY <2>2, <2>3
<1>4. CASE \E c \in Calls : Reject(c)
  <2>1. PICK c \in Calls : Reject(c)
    BY <1>4
  <2> DEFINE S == {i \in Taken(c) : store[i] # Nothing}
  <2>2. S \in SUBSET Keys
    BY DEF Taken, TypeOK
  <2>3. Withdraw(c, S) /\ UNCHANGED <<adapter, store, index>>
        /\ \A e \in Calls \ {c} : todo'[e] = todo[e]
    BY <2>1 DEF Reject, Leave, TypeOK
  <2>4. k \in S <=> k \in Taken(c)
    BY <2>3
  <2> HIDE DEF S
  <2>5. /\ floor'["tag"][k] = IF k \in S THEN 0 ELSE floor["tag"][k]
        /\ mark'[c] = NoMark
    BY <2>2, <2>3, WithdrawProperties
  <2>6. \A e \in Calls \ {c} :
          /\ mark'[e].by = mark[e].by
          /\ mark[e].by = "tag" => mark'[e].least[k] = IF k \in S THEN 0 ELSE mark[e].least[k]
    BY <2>2, <2>3, WithdrawProperties
  <2>7. k \notin Taken(c) => (Beyond(k) => Beyond(k)')
    BY <2>1, <2>3, RejectStep
  <2>8. QED
    BY <1>1, <1>2, <2>3, <2>4, <2>5, <2>6, <2>7
<1>5. CASE Steady(k) /\ ~\E c \in Calls : Reject(c)
  <2>1. store'[k] = store[k] /\ (Beyond(k) => Beyond(k)')
    BY <1>5 DEF Steady
  \* What an invalidation in progress was going to find it still finds.
  <2>2. ASSUME NEW e \in Calls, NEW T \in SUBSET Tags, NEW t \in T, t \in Tagged[k], k \in index[t],
               T \subseteq todo'[e]
        PROVE  Kept(k, e)'
    BY <1>5, <2>2 DEF Steady
  <2>3. ASSUME NEW e \in Calls, mark'[e] = mark[e], todo[e] \subseteq todo'[e], mark[e].by = "tag"
        PROVE  Kept(k, e)'
    BY <1>1, <1>2, <1>5, <2>1, <2>3 DEF Steady
  <2>4. ASSUME floor' = floor
        PROVE  floor'["tag"][k] =< store'[k] \/ Beyond(k)'
    BY <1>1, <2>1, <2>4
  <2>5. CASE Write \/ Clear \/ \E i \in Keys : Expire(i)
    <3>1. UNCHANGED <<mark, todo>>
      BY <2>5 DEF Write, Clear, Expire, Frame
    <3>2. CASE Clear
      BY <3>2 DEF Clear, DeleteKeys
    <3>3. QED
      BY <2>3, <2>4, <2>5, <3>1, <3>2 DEF Write, Expire
  <2> SUFFICES ASSUME NEW c \in Calls, GetOrExecute(c) \/ Invalidate(c)
               PROVE  /\ floor'["tag"][k] =< store'[k] \/ Beyond(k)'
                      /\ \A e \in Calls : mark'[e].by = "tag" => Kept(k, e)'
    BY <1>5, <2>5 DEF Next
  <2>6. CASE GetOrExecute(c) \/ Invalidated(c)
    <3>1. /\ mark'[c] = NoMark
          /\ \A e \in Calls \ {c} : mark'[e] = mark[e] /\ todo'[e] = todo[e]
      <4>1. CASE Hit(c) \/ Uncached(c) \/ Filled(c) \/ Invalidated(c)
        BY <4>1 DEF Hit, Uncached, Filled, Invalidated, Return, Leave, TypeOK
      <4>2. CASE (\E i \in Keys : Ask(c, i)) \/ Miss(c) \/ Query(c)
        BY <4>2 DEF Ask, Miss, Query, Frame, AwaitsOK
      <4>3. CASE Set(c) \/ Register(c)
        BY <4>3 DEF Set, Register, TypeOK, AwaitsOK
      <4>4. QED
        BY <2>6, <4>1, <4>2, <4>3 DEF GetOrExecute
    <3>2. \A e \in Calls : mark'[e].by = "tag" => Kept(k, e)'
      BY <1>2, <2>3, <3>1
    <3>3. CASE Invalidated(c)
      <4>1. mark[c] \in Promises /\ Keep(mark[c]) /\ todo[c] = {}
        BY <3>3 DEF Invalidated, TypeOK, Promises, AwaitsOK
      <4>2. \/ floor'["tag"][k] = floor["tag"][k]
            \/ mark[c].by = "tag" /\ floor'["tag"][k] = mark[c].least[k]
        BY <4>1, KeepProperties DEF Ways
      <4>3. QED
        BY <1>1, <2>1, <3>2, <4>1, <4>2
    <3>4. CASE GetOrExecute(c)
      <4>1. floor' = floor
        BY <3>4 DEF GetOrExecute, Ask, Hit, Miss, Query, Uncached, Set, Register, Filled
      <4>2. QED
        BY <2>4, <3>2, <4>1
    <3>5. QED
      BY <2>6, <3>3, <3>4
  <2>7. CASE \E i \in Keys : InvalidateKey(c, i)
    <3>1. PICK i \in Keys : InvalidateKey(c, i)
      BY <2>7
    <3>2. Promise("key", {i}) \in Promises /\ Promise("key", {i}).by = "key"
      BY PromiseProperties DEF Promises, Ways
    <3>3. floor'["tag"][k] = floor["tag"][k]
      BY <3>1, <3>2, KeepProperties DEF InvalidateKey, Ways
    <3>4. UNCHANGED <<mark, todo>>
      BY <3>1 DEF InvalidateKey, Frame
    <3>5. QED
      BY <1>1, <2>1, <2>3, <3>3, <3>4
  <2>8. CASE \E T \in (SUBSET Tags) \ {{}} : InvalidateTagsNow(c, T)
    <3>1. PICK T \in SUBSET Tags : InvalidateTagsNow(c, T)
      BY <2>8
    <3>2. UNCHANGED <<mark, todo>> /\ adapter = "memory" /\ ~\E t \in T : k \in index[t]
      BY <3>1 DEF InvalidateTagsNow, Frame, DeleteKeys
    <3>3. Promise("tag", KeysOf(T)).least[k] =< store[k]
      BY <2>1, <3>2, TagPromise DEF Beyond
    <3>4. Promise("tag", KeysOf(T)) \in Promises
      BY PromiseProperties DEF Promises, Ways, KeysOf
    <3>5. floor'["tag"][k] \in {floor["tag"][k], Promise("tag", KeysOf(T)).least[k]}
      BY <3>1, <3>4, KeepProperties DEF InvalidateTagsNow, Ways
    <3>6. QED
      BY <1>1, <2>1, <2>3, <3>2, <3>3, <3>5
  <2>9. CASE \E T \in (SUBSET Tags) \ {{}} : StartTags(c, T)
    <3>1. PICK T \in SUBSET Tags : StartTags(c, T)
      BY <2>9
    <3>2. /\ adapter = "redis" /\ floor' = floor
          /\ mark'[c] = Promise("tag", KeysOf(T)) /\ todo'[c] = T
          /\ \A e \in Calls \ {c} : mark'[e] = mark[e] /\ todo'[e] = todo[e]
      BY <3>1 DEF StartTags, TypeOK
    <3>3. \/ Promise("tag", KeysOf(T)).least[k] =< store[k]
          \/ Beyond(k)
          \/ \E t \in T \cap Tagged[k] : k \in index[t]
      BY <2>1, <3>2, TagPromise
    <3>4. Kept(k, c)'
      BY <2>1, <2>2, <3>2, <3>3
    <3>5. QED
      BY <2>3, <2>4, <3>2, <3>4
  <2>10. CASE \E p \in Prefixes : StartPrefix(c, p)
    <3>1. PICK p \in Prefixes : StartPrefix(c, p)
      BY <2>10
    <3>2. /\ floor' = floor /\ mark'[c].by = "key"
          /\ \A e \in Calls \ {c} : mark'[e] = mark[e] /\ todo'[e] = todo[e]
      BY <3>1 DEF StartPrefix, TypeOK, Promise
    <3>3. QED
      BY <2>3, <2>4, <3>2
  <2>11. CASE Members(c) \/ DelKeys(c)
    <3>1. UNCHANGED <<floor, mark, todo>>
      BY <2>11 DEF Members, DelKeys
    <3>2. QED
      BY <2>3, <2>4, <3>1
  <2>12. CASE DelTag(c)
    <3>1. /\ floor' = floor /\ mark' = mark /\ \A e \in Calls \ {c} : todo'[e] = todo[e]
          /\ todo'[c] = todo[c] \ {Current(c)} /\ Taken(c)' = doomed[c] /\ adapter' = "redis"
          /\ k \in index[Current(c)] => k \in doomed[c] \/ k \in lost'
      BY <2>12 DEF DelTag, TypeOK, AwaitsOK, Taken
    <3>2. k \in index[Current(c)] => Beyond(k)'
      BY <3>1 DEF Beyond, Leaving
    <3>3. mark[c].by = "tag" => Kept(k, c)'
      BY <1>1, <1>2, <1>5, <2>1, <3>1, <3>2 DEF Steady
    <3>4. QED
      BY <2>3, <2>4, <3>1, <3>3
  <2>13. CASE Scan(c)
    <3>1. /\ floor' = floor /\ mark' = mark /\ mark[c].by = "key"
          /\ \A e \in Calls \ {c} : todo'[e] = todo[e]
      BY <2>13 DEF Scan, TypeOK, AwaitsOK
    <3>2. QED
      BY <2>3, <2>4, <3>1
  <2>14. QED
    BY <2>6, <2>7, <2>8, <2>9, <2>10, <2>11, <2>12, <2>13 DEF Invalidate
<1>6. QED
  BY <1>3, <1>4, <1>5, SteadyStep
(***************************************************************************)
(* The theorems.                                                           *)
(***************************************************************************)

\* The invariant holds at first.
LEMMA InitIInv == Init => IInv
<1> SUFFICES ASSUME Init PROVE IInv
  OBVIOUS
<1>1. TypeOK /\ AwaitsOK
  BY TypeInit
<1>2. /\ db = 0 /\ store = [k \in Keys |-> Nothing] /\ pc = [c \in Calls |-> "idle"]
      /\ mark = [c \in Calls |-> NoMark] /\ floor = [w \in Ways |-> Zero]
  BY DEF Init
<1>3. FairOK
  BY <1>2 DEF FairOK, Fair, Storing, NoMark, Zero
<1>4. PrefixOK /\ ReachOK /\ TagOK
  BY <1>2 DEF PrefixOK, ReachOK, TagOK
<1>5. QED
  BY <1>1, <1>3, <1>4 DEF IInv

\* Every step keeps the invariant.
LEMMA NextIInv == IInv /\ [Next]_vars => IInv'
<1> SUFFICES ASSUME IInv, [Next]_vars PROVE IInv'
  OBVIOUS
<1>1. CASE Next
  <2>1. TypeOK' /\ AwaitsOK'
    BY <1>1, TypeStep, AwaitsStep DEF IInv
  <2>2. QED
    BY <1>1, <2>1, FairOKStep, PrefixOKStep, ReachOKStep, TagOKStep DEF IInv
<1>2. CASE UNCHANGED vars
  BY <1>2 DEF vars, IInv, TypeOK, AwaitsOK, FairOK, Fair, Storing, PrefixOK, ReachOK, TagOK, Beyond,
              Leaving, Taken, Tagging
<1>3. QED
  BY <1>1, <1>2

\* The inductive invariant of the query cache.
THEOREM Invariance == Spec => []IInv
<1>1. QED
  BY InitIInv, NextIInv, PTL DEF Spec

\* However many calls run at the same time and wherever they fail: an entry is never older
\* than the last invalidation that covered it, save for what a fill had read before it.
THEOREM EntriesAreNotStale == Spec => []NeverStale
<1>1. IInv => NeverStale
  <2> SUFFICES ASSUME IInv, NEW k \in Keys, store[k] # Nothing
               PROVE  /\ store[k] >= floor["key"][k]
                      /\ store[k] >= floor["tag"][k] \/ k \in lost \/ Leaving(k)
    BY DEF NeverStale
  <2>1. /\ floor["key"][k] =< store[k]
        /\ floor["tag"][k] =< store[k] \/ k \in lost \/ Leaving(k)
    BY DEF IInv, PrefixOK, TagOK, Beyond
  <2>2. store[k] \in Nat /\ floor["key"][k] \in Nat /\ floor["tag"][k] \in Nat
    BY CacheAssumption DEF IInv, TypeOK, Ways
  <2>3. QED
    BY <2>1, <2>2
<1>2. QED
  BY <1>1, Invariance, PTL

\* The tags of an entry lead to it once the call that stored it is over, except on a Redis
\* server that an overlapping invalidation or a failure has left without.
THEOREM TagsLeadToEntries == Spec => []TagsReach
<1>1. IInv => TagsReach
  BY DEF IInv, TagsReach, ReachOK, Beyond
<1>2. QED
  BY <1>1, Invariance, PTL
=============================================================================
