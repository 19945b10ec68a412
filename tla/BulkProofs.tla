----------------------------- MODULE BulkProofs -----------------------------
(***************************************************************************)
(* Proofs about Bulk, for all rows, keys, sizes of chunks, numbers of      *)
(* workers and numbers of failures.                                        *)
(***************************************************************************)
EXTENDS Bulk, FiniteSetTheorems, WellFoundedInduction, TLAPS

-----------------------------------------------------------------------------
(* Greatest and least elements                                              *)

\* A set of naturals that is not empty has a least element.
LEMMA LeastExists ==
  ASSUME NEW S \in SUBSET Nat, S # {}
  PROVE  \E m \in S : \A n \in S : m <= n
<1> DEFINE R == OpToRel(<, Nat)
<1>1. IsWellFoundedOn(R, Nat)
  BY NatLessThanWellFounded
<1>2. R = {p \in Nat \X Nat : p[1] < p[2]}
  BY Zenon DEF OpToRel
<1> HIDE DEF R
<1>3. \A m, n \in Nat : n < m => <<n, m>> \in R
  BY <1>2
<1>4. PICK m \in S : \A n \in S : ~(<<n, m>> \in R)
  BY <1>1, WFMin, Zenon
<1>5. \A n \in S : ~(n < m)
  BY <1>3, <1>4
<1> QED
  BY <1>5

\* Latest() of a set of row numbers is its greatest element.
LEMMA LatestIsGreatest ==
  ASSUME NEW n \in Nat, NEW S \in SUBSET (1..n), S # {}
  PROVE  Latest(S) \in S /\ \A q \in S : q <= Latest(S)
<1> DEFINE D == {n - q : q \in S}
<1>1. (\A q \in S : q \in Nat /\ n - q \in D) /\ D # {}
  <2>1. \A q \in S : n - q \in D
    OBVIOUS
  <2>2. \A q \in S : q \in Nat
    OBVIOUS
  <2> HIDE DEF D
  <2> QED
    BY <2>1, <2>2
<1>2. PICK m \in D : \A d \in D : m <= d
  <2>1. D \in SUBSET Nat
    OBVIOUS
  <2> QED
    BY <1>1, <2>1, LeastExists
<1>3. PICK r \in S : m = n - r
  BY <1>2
<1>4. ASSUME NEW q \in S PROVE q <= r
  <2>1. n - r <= n - q
    BY <1>1, <1>2, <1>3
  <2> QED
    BY <1>1, <2>1
<1> QED
  BY <1>4, Zenon DEF Latest

-----------------------------------------------------------------------------
(* Chunks                                                                   *)

Total == Len(setup.rows)
Size  == setup.chunkSize
Count == (Total + Size - 1) \div Size

\* The last row of a chunk; the chunk begins behind the one before.
End == [i \in 0..Count |-> Least(i * Size, Total)]

\* There are as many chunks as the rows fill, the last one in part.
LEMMA Division ==
  ASSUME NEW n \in Nat \ {0}, NEW z \in Nat \ {0}
  PROVE  LET c == (n + z - 1) \div z IN c \in Nat \ {0} /\ (c - 1) * z < n /\ n <= c * z
<1> DEFINE c == (n + z - 1) \div z
<1>1. c \in Nat /\ \E r \in 0..z - 1 : n + z - 1 = c * z + r
  <2>1. \A m \in Nat : m \div z \in Nat /\ \E r \in 0..z - 1 : m = (m \div z) * z + r
    OBVIOUS
  <2> QED
    BY <2>1
<1> HIDE DEF c
<1>2. n <= c * z /\ c * z < n + z
  BY <1>1
<1>3. c # 0
  BY <1>2
<1>4. (c - 1) * z = c * z - z
  BY <1>1
<1> QED
  BY <1>1, <1>2, <1>3, <1>4 DEF c

\* The multiples of a size grow with their number.
LEMMA Multiples ==
  ASSUME NEW z \in Nat \ {0}, NEW i \in Nat, NEW j \in Nat
  PROVE  /\ i * z \in Nat
         /\ i <= j => i * z <= j * z
         /\ (i + 1) * z = i * z + z
         /\ i > 0 => (i - 1) * z = i * z - z
<1>1. i * z \in Nat /\ (i + 1) * z = i * z + z /\ (i > 0 => (i - 1) * z = i * z - z)
  OBVIOUS
<1>2. ASSUME i <= j PROVE i * z <= j * z
  <2>1. PICK d \in Nat : j = i + d
    BY <1>2
  <2>2. d * z \in Nat
    OBVIOUS
  <2>3. j * z = i * z + d * z
    BY <2>1
  <2> QED
    BY <2>2, <2>3, <1>1
<1> QED
  BY <1>1, <1>2

\* What the assumption says of the call.
LEMMA SetupFacts ==
  ASSUME setup \in Setups
  PROVE  /\ Total \in Nat \ {0} /\ Size \in Nat \ {0} /\ setup.rows \in Seq(Keys)
         /\ setup.concurrency \in Nat /\ setup.transactional \in BOOLEAN /\ setup.failures \in Nat
         /\ Limit \in Nat \ {0}
BY BulkAssumption DEF Total, Size, Limit

\* The chunks follow each other and cover the rows from the first to the last.
LEMMA ChunkFacts ==
  ASSUME setup \in Setups
  PROVE  /\ Count \in Nat \ {0} /\ Len(Chunks) = Count /\ DOMAIN Chunks = 1..Count
         /\ End[0] = 0 /\ End[Count] = Total
         /\ \A i \in 0..Count : End[i] \in 0..Total
         /\ \A i \in 1..Count : /\ Chunks[i] = [from |-> End[i - 1] + 1, to |-> End[i]]
                                /\ End[i - 1] < End[i]
<1> DEFINE n == Total  z == Size  c == Count
<1>1. n \in Nat \ {0} /\ z \in Nat \ {0}
  BY SetupFacts
<1>2. c \in Nat \ {0} /\ (c - 1) * z < n /\ n <= c * z
  BY <1>1, Division DEF Count
<1>3. Chunks = [i \in 1..c |-> [from |-> (i - 1) * z + 1, to |-> Least(i * z, n)]]
  BY DEF Chunks, SplitIntoChunks, Count, Total, Size
<1>4. \A i \in 0..c : End[i] = Least(i * z, n)
  BY DEF End
<1> HIDE DEF n, z, c
<1>5. ASSUME NEW i \in 0..c PROVE i * z \in Nat /\ End[i] \in 0..n /\ (i < c => End[i] = i * z /\ i * z < n)
  <2>1. i * z \in Nat /\ (i <= c - 1 => i * z <= (c - 1) * z)
    BY <1>1, <1>2, Multiples, c - 1 \in Nat
  <2>2. (c - 1) * z \in Int
    BY <1>1, <1>2
  <2>3. i < c => i * z < n
    BY <1>2, <2>1, <2>2, <1>1
  <2> QED
    BY <1>1, <1>4, <2>1, <2>3 DEF Least
<1>6. End[0] = 0 /\ End[c] = n
  <2>1. 0 * z = 0 /\ c * z \in Nat
    BY <1>1, <1>2
  <2> QED
    BY <1>1, <1>2, <1>4, <2>1 DEF Least
<1>7. ASSUME NEW i \in 1..c
      PROVE  Chunks[i] = [from |-> End[i - 1] + 1, to |-> End[i]] /\ End[i - 1] < End[i]
  <2>1. i - 1 \in 0..c /\ i - 1 < c /\ i \in 0..c
    BY <1>2
  <2>2. End[i - 1] = (i - 1) * z /\ (i - 1) * z < n /\ (i - 1) * z \in Nat
    BY <1>5, <2>1
  <2>3. Chunks[i] = [from |-> (i - 1) * z + 1, to |-> Least(i * z, n)]
    BY <1>3
  <2>4. (i - 1) * z < i * z /\ i * z \in Nat
    <3>1. (i - 1) * z = i * z - z /\ i * z \in Nat
      BY <1>1, <2>1, Multiples
    <3> QED
      BY <1>1, <3>1
  <2>5. (i - 1) * z < Least(i * z, n)
    BY <1>1, <2>2, <2>4 DEF Least
  <2> QED
    BY <1>4, <2>1, <2>2, <2>3, <2>5
<1>8. Len(Chunks) = c /\ DOMAIN Chunks = 1..c
  BY <1>2, <1>3
<1> QED
  BY <1>2, <1>5, <1>6, <1>7, <1>8 DEF n, z, c

\* The same, one chunk at a time.
LEMMA ChunkFields ==
  ASSUME setup \in Setups, NEW i \in Nat, i # 0, i <= Count
  PROVE  /\ Count \in Nat /\ Total \in Nat
         /\ End[i - 1] \in Nat /\ End[i] \in Nat /\ End[i - 1] < End[i] /\ End[i] <= Total
         /\ Chunks[i].from = End[i - 1] + 1 /\ Chunks[i].to = End[i]
<1>1. Count \in Nat /\ Total \in Nat
  BY ChunkFacts, SetupFacts
<1>2. i \in 1..Count /\ i \in 0..Count /\ i - 1 \in 0..Count
  BY <1>1
<1>3. Chunks[i] = [from |-> End[i - 1] + 1, to |-> End[i]] /\ End[i - 1] < End[i]
  BY <1>2, ChunkFacts
<1>4. End[i] \in 0..Total /\ End[i - 1] \in 0..Total
  BY <1>2, ChunkFacts
<1> QED
  BY <1>1, <1>3, <1>4

\* Every row is in a chunk.
LEMMA RowsAreCovered ==
  ASSUME setup \in Setups, NEW r \in 1..Total
  PROVE  \E i \in 1..Count : End[i - 1] < r /\ r <= End[i]
<1> DEFINE S == {i \in Nat : i <= Count /\ r <= End[i]}
<1>1. Count \in Nat \ {0} /\ End[0] = 0 /\ End[Count] = Total /\ (\A i \in 0..Count : End[i] \in 0..Total)
  BY ChunkFacts
<1>2. Total \in Nat
  BY SetupFacts
<1>3. Count \in S
  BY <1>1, <1>2
<1>4. PICK i \in S : \A j \in S : i <= j
  BY <1>3, LeastExists
<1>5. i # 0
  BY <1>1, <1>2
<1>6. i - 1 \in Nat /\ i - 1 <= Count /\ i - 1 \notin S
  BY <1>1, <1>4, <1>5
<1>7. ~(r <= End[i - 1]) /\ End[i - 1] \in Nat
  BY <1>1, <1>2, <1>6
<1>8. i \in 1..Count /\ End[i - 1] < r /\ r <= End[i]
  BY <1>1, <1>2, <1>5, <1>7
<1> QED
  BY <1>8

-----------------------------------------------------------------------------
(* The sum of the outcomes                                                  *)

\* What an outcome counts, and the recursion that the fold of the counts is.
CountOf(i) == IF i = 0 THEN 0 ELSE Chunks[i].to - Chunks[i].from + 1
NextSum(g, s) == LET x == Max(s) IN g[s \ {x}] + CountOf(outcomes[x])
Adds(g, D) == g = [s \in SUBSET D |-> IF s = {} THEN 0 ELSE NextSum(g, s)]
Sums(D) == CHOOSE g : Adds(g, D)

\* The counts are added up by such a function.
LEMMA SumIsFold == ProcessedRows = Sums(DOMAIN outcomes)[DOMAIN outcomes]
BY SMT DEF ProcessedRows, FoldLeft, MapThenFoldSet, Sums, Adds, NextSum, CountOf

\* The greatest element of an interval.
LEMMA MaxOfInterval ==
  ASSUME NEW n \in Nat, NEW s \in SUBSET (1..n), s # {}
  PROVE  Max(s) \in s /\ \A q \in s : q <= Max(s)
<1>1. Latest(s) \in s /\ \A q \in s : q <= Latest(s)
  BY LatestIsGreatest
<1>2. \A q \in s : Latest(s) >= q
  BY <1>1
<1> QED
  BY <1>1, <1>2, Zenon DEF Max

\* When every chunk has its outcome, there is a function that adds up the counts: the
\* number of the rows that are in the chunks of a set.
LEMMA SumExists ==
  ASSUME setup \in Setups, outcomes = [i \in 1..Count |-> i]
  PROVE  \E g : Adds(g, 1..Count)
<1> DEFINE D == 1..Count
           RowsIn(s) == UNION {End[i - 1] + 1 .. End[i] : i \in s}
           g == [s \in SUBSET D |-> Cardinality(RowsIn(s))]
<1>0. /\ Count \in Nat \ {0} /\ Total \in Nat
      /\ \A i \in 0..Count : End[i] \in 0..Total
      /\ \A i \in 1..Count : Chunks[i] = [from |-> End[i - 1] + 1, to |-> End[i]] /\ End[i - 1] < End[i]
  BY ChunkFacts, SetupFacts
<1>1. ASSUME NEW i \in 0..Count, NEW j \in 0..Count, i <= j PROVE End[i] <= End[j]
  <2> DEFINE z == Size
  <2>1. z \in Nat \ {0} /\ Total \in Nat
    BY SetupFacts
  <2>2. i * z \in Nat /\ j * z \in Nat /\ i * z <= j * z
    BY <1>0, <1>1, <2>1, Multiples, i \in Nat, j \in Nat
  <2> HIDE DEF z
  <2>3. End[i] = Least(i * z, Total) /\ End[j] = Least(j * z, Total)
    BY DEF End, z
  <2> QED
    BY <2>1, <2>2, <2>3 DEF Least
<1>2. \A s \in SUBSET D : IsFiniteSet(RowsIn(s))
  <2>1. \A s \in SUBSET D : RowsIn(s) \subseteq 1..Total
    BY <1>0
  <2>2. IsFiniteSet(1..Total)
    BY <1>0, FS_Interval
  <2> QED
    BY <2>1, <2>2, FS_Subset
<1>3. ASSUME NEW s \in SUBSET D, s # {}
      PROVE  g[s] = NextSum(g, s)
  <2> DEFINE x == Max(s)
             last == End[x - 1] + 1 .. End[x]
  <2>1. x \in s /\ x \in 1..Count /\ \A q \in s : q <= x
    BY <1>0, <1>3, MaxOfInterval
  <2> HIDE DEF x
  <2>0. /\ End[x - 1] \in Nat /\ End[x] \in Nat /\ End[x - 1] < End[x]
        /\ Chunks[x].from = End[x - 1] + 1 /\ Chunks[x].to = End[x]
    <3>1. x \in Nat /\ x # 0 /\ x <= Count
      BY <1>0, <2>1
    <3> QED
      BY <3>1, ChunkFields
  <2>2. RowsIn(s) = RowsIn(s \ {x}) \cup last
    BY <2>1
  <2>3. RowsIn(s \ {x}) \cap last = {}
    <3>1. ASSUME NEW i \in s \ {x} PROVE End[i] <= End[x - 1]
      <4>1. i \in 0..Count /\ x - 1 \in 0..Count /\ i <= x - 1
        BY <1>0, <2>1
      <4> QED
        BY <1>1, <4>1
    <3>2. \A i \in s : i \in 1..Count /\ End[i] \in Nat /\ End[i - 1] \in Nat
      BY <1>0
    <3>3. End[x - 1] \in Nat /\ End[x] \in Nat
      BY <1>0, <2>1
    <3>4. \A i \in s \ {x} : (End[i - 1] + 1 .. End[i]) \cap last = {}
      BY <3>1, <3>2, <3>3
    <3> QED
      BY <3>4
  <2>4. IsFiniteSet(last) /\ Cardinality(last) = End[x] - (End[x - 1] + 1) + 1
    <3>2. End[x - 1] \in Int /\ End[x] \in Int /\ End[x - 1] < End[x]
      BY <2>0
    <3>3. ASSUME NEW a \in Int, NEW b \in Int, a < b
          PROVE  IsFiniteSet(a + 1 .. b) /\ Cardinality(a + 1 .. b) = b - (a + 1) + 1
      BY <3>3, FS_Interval
    <3> QED
      BY <3>2, <3>3
  <2>5. s \ {x} \in SUBSET D /\ g[s] = Cardinality(RowsIn(s)) /\ g[s \ {x}] = Cardinality(RowsIn(s \ {x}))
    OBVIOUS
  <2>6. Cardinality(RowsIn(s)) = Cardinality(RowsIn(s \ {x})) + Cardinality(last)
    <3>1. IsFiniteSet(RowsIn(s \ {x})) /\ Cardinality(RowsIn(s \ {x}) \cap last) = 0
      BY <1>2, <2>3, <2>5, FS_EmptySet
    <3>2. Cardinality(RowsIn(s \ {x})) \in Nat /\ Cardinality(last) \in Nat
      BY <3>1, <2>4, FS_CardinalityType
    <3>3. Cardinality(RowsIn(s \ {x}) \cup last)
            = Cardinality(RowsIn(s \ {x})) + Cardinality(last) - Cardinality(RowsIn(s \ {x}) \cap last)
      BY <3>1, <2>4, FS_Union
    <3> HIDE DEF RowsIn, last
    <3> QED
      BY <3>1, <3>2, <3>3, <2>2
  <2>7. CountOf(outcomes[x]) = Cardinality(last)
    <3>1. outcomes[x] = x /\ x # 0
      BY <2>1
    <3>2. Chunks[x].from = End[x - 1] + 1 /\ Chunks[x].to = End[x]
      BY <2>0
    <3>3. CountOf(x) = End[x] - (End[x - 1] + 1) + 1
      BY <3>1, <3>2 DEF CountOf
    <3> QED
      BY <3>1, <3>3, <2>4
  <2> HIDE DEF g, RowsIn, last
  <2> QED
    BY <2>5, <2>6, <2>7 DEF NextSum, x
<1>4. g[{}] = 0
  <2>1. RowsIn({}) = {}
    OBVIOUS
  <2> QED
    BY <2>1, FS_EmptySet
<1>5. g = [s \in SUBSET D |-> IF s = {} THEN 0 ELSE NextSum(g, s)]
  <2> DEFINE h == [s \in SUBSET D |-> IF s = {} THEN 0 ELSE NextSum(g, s)]
  <2>1. \A s \in SUBSET D : g[s] = h[s]
    <3> HIDE DEF g
    <3> QED
      BY <1>3, <1>4
  <2>2. DOMAIN g = DOMAIN h /\ g = [s \in DOMAIN g |-> g[s]] /\ h = [s \in DOMAIN h |-> h[s]]
    OBVIOUS
  <2> HIDE DEF g, h
  <2>3. DOMAIN g = SUBSET D
    BY DEF g
  <2> QED
    BY <2>1, <2>2, <2>3 DEF h
<1> QED
  BY <1>5 DEF Adds

\* A call whose chunks all have their outcomes counts every row.
LEMMA EveryRowCounts ==
  ASSUME setup \in Setups, outcomes = [i \in 1..Count |-> i]
  PROVE  ProcessedRows = Total
<1> DEFINE D == 1..Count
           h == Sums(D)
<1>1. Adds(h, D)
  <2>1. \E g : Adds(g, D)
    BY SumExists
  <2> QED
    BY <2>1, Zenon DEF Sums
<1> HIDE DEF h
<1>2. \A s \in SUBSET D : h[s] = IF s = {} THEN 0 ELSE NextSum(h, s)
  BY <1>1 DEF Adds
<1>3. /\ Count \in Nat \ {0} /\ Total \in Nat /\ End[0] = 0 /\ End[Count] = Total
      /\ \A i \in 0..Count : End[i] \in 0..Total
      /\ \A i \in 1..Count : Chunks[i] = [from |-> End[i - 1] + 1, to |-> End[i]]
  BY ChunkFacts, SetupFacts
<1>4. ASSUME NEW k \in Nat, k < Count, h[1..k] = End[k] PROVE h[1..k + 1] = End[k + 1]
  <2> DEFINE s == 1..k + 1
  <2>0. Count \in Nat /\ k + 1 \in Nat /\ k + 1 <= Count
    BY <1>3, <1>4
  <2>1. s \in SUBSET D /\ s # {} /\ k + 1 \in s
    <3>1. k + 1 \in s
      BY <2>0
    <3>2. \A q \in s : q \in D
      BY <2>0
    <3> QED
      BY <3>1, <3>2
  <2>2. Max(s) = k + 1
    <3>1. Max(s) \in s /\ k + 1 <= Max(s)
      BY <2>0, <2>1, MaxOfInterval
    <3> QED
      BY <3>1, <2>0
  <2>3. s \ {k + 1} = 1..k
    BY <1>4
  <2>4. CountOf(outcomes[k + 1]) = End[k + 1] - (End[k] + 1) + 1
    <3>1. k + 1 \in 1..Count /\ k + 1 # 0 /\ (k + 1) - 1 = k
      BY <2>0, <1>4
    <3>2. outcomes[k + 1] = k + 1
      BY <3>1
    <3>3. Chunks[k + 1].from = End[k] + 1 /\ Chunks[k + 1].to = End[k + 1]
      BY <2>0, <3>1, ChunkFields
    <3> QED
      BY <3>1, <3>2, <3>3 DEF CountOf
  <2>5. h[s] = h[1..k] + CountOf(outcomes[k + 1])
    <3> HIDE DEF s
    <3> QED
      BY <1>2, <2>1, <2>2, <2>3 DEF NextSum
  <2>6. End[k] \in Nat /\ End[k + 1] \in Nat
    BY <1>3, <1>4
  <2> QED
    BY <1>4, <2>4, <2>5, <2>6
<1>5. \A k \in Nat : k <= Count => h[1..k] = End[k]
  <2> DEFINE Bad == {k \in Nat : k <= Count /\ h[1..k] # End[k]}
  <2>1. SUFFICES ASSUME Bad # {} PROVE FALSE
    OBVIOUS
  <2>2. PICK k \in Bad : \A j \in Bad : k <= j
    BY <2>1, LeastExists
  <2>3. k # 0
    <3>1. h[1..0] = 0
      BY <1>2, 1..0 = {}
    <3> QED
      BY <1>3, <3>1
  <2>4. k - 1 \in Nat /\ k - 1 < Count /\ k - 1 \notin Bad
    BY <1>3, <2>2, <2>3
  <2>5. h[1..k - 1] = End[k - 1]
    BY <1>3, <2>4
  <2>6. h[1..(k - 1) + 1] = End[(k - 1) + 1]
    BY <1>4, <2>4, <2>5
  <2> QED
    BY <2>2, <2>6, (k - 1) + 1 = k
<1>6. DOMAIN outcomes = D
  OBVIOUS
<1>7. h[1..Count] = Total
  BY <1>3, <1>5
<1> QED
  BY <1>6, <1>7, SumIsFold DEF h
-----------------------------------------------------------------------------
(* The inductive invariant                                                  *)

\* What the caller will see of the table if the call resolves.
Seen == IF phase = "running" /\ setup.transactional THEN tentative ELSE table

\* The rows of chunk i of which n statements have been sent.
SentOf(i, n) ==
  IF setup.op = "update" THEN End[i - 1] + 1 .. End[i - 1] + n
  ELSE IF n = 0 THEN {} ELSE End[i - 1] + 1 .. End[i]

Busy(f) == f.stage # "free"

\* A worker is at a chunk that has been given out and has sent some of its statements, before
\* the callback all of them.
FrameOK(f) ==
  Busy(f) =>
    /\ f.chunk # 0 /\ f.chunk < nextIndex
    /\ f.sent <= Statements(f.chunk)
    /\ f.stage = "run" => f.sent < Statements(f.chunk)
    /\ f.stage = "notify" => f.sent = Statements(f.chunk)

WorkersOK == \A w \in Workers : FrameOK(workers[w])

\* Before it begins and after it has resolved a call is at rest.
RestOK ==
  /\ phase = "new" => nextIndex = 1 /\ \A w \in Workers : ~Busy(workers[w])
  /\ phase = "resolved" => \A w \in Workers : Returned(w)
  /\ open <=> phase = "running" /\ setup.transactional

\* A chunk that has been given out has its outcome or a worker at it.
OutcomesOK ==
  \A i \in 1..nextIndex - 1 :
    outcomes[i] = i \/ \E w \in Workers : Busy(workers[w]) /\ workers[w].chunk = i

\* A table holds under each key a row of this key.
Keyed(t) == \A k \in Keys : t[k] # 0 => setup.rows[t[k]] = k

\* The rows of a chunk that has been given out are written, save for those that a worker has
\* still to send.
WrittenOK ==
  phase \in {"running", "resolved"} =>
    \A i \in 1..nextIndex - 1 : \A r \in End[i - 1] + 1 .. End[i] :
      \/ Seen[setup.rows[r]] # 0
      \/ \E w \in Workers : /\ Busy(workers[w]) /\ workers[w].chunk = i
                            /\ r \notin SentOf(i, workers[w].sent)

\* How many rows a single worker has sent.
Progress ==
  LET f == workers[1] IN
  IF ~Busy(f) THEN End[nextIndex - 1]
  ELSE IF setup.op = "update" THEN End[f.chunk - 1] + f.sent
  ELSE IF f.sent = 0 THEN End[f.chunk - 1] ELSE End[f.chunk]

\* A single worker is at the last chunk given out, and the table is what its rows make.
OrderOK ==
  Limit = 1 =>
    /\ Busy(workers[1]) => workers[1].chunk = nextIndex - 1
    /\ ~(phase = "rejected" /\ setup.transactional) => Seen = After(Progress)

\* Where nothing may fail nothing has failed.
FaultsOK == setup.failures = 0 => phase # "rejected" /\ \A w \in Workers : workers[w].stage # "dead"

\* Nobody sees a transaction before it commits, and nobody works for one that was undone.
IsolatedOK ==
  /\ setup.transactional /\ phase # "resolved" => table = Untouched
  /\ setup.transactional /\ phase = "rejected" => \A w \in Workers : workers[w].stage = "dead" \/ Returned(w)

IInv == /\ TypeOK /\ WorkersOK /\ RestOK /\ OutcomesOK /\ Keyed(table) /\ Keyed(tentative)
        /\ WrittenOK /\ OrderOK /\ FaultsOK /\ IsolatedOK

\* Several workers in one transaction do not fail: those that are left would go on outside of it.
OneByOne == \A s \in Setups : s.transactional /\ s.concurrency > 1 => s.failures = 0
-----------------------------------------------------------------------------
(* What the operators of the model give                                     *)

\* What the types say.
LEMMA Facts ==
  ASSUME TypeOK
  PROVE  /\ Total \in Nat /\ Total # 0 /\ Count \in Nat /\ Count # 0 /\ Limit \in Nat /\ Limit # 0
         /\ Len(Chunks) = Count /\ Indices = 1..Count /\ Tables = [Keys -> 0..Total]
         /\ 1 \in Workers /\ (Limit = 1 => Workers = {1})
         /\ (Limit # 1 => setup.concurrency > 1)
         /\ nextIndex \in Nat /\ nextIndex # 0 /\ nextIndex <= Count + 1
         /\ End[0] = 0 /\ End[Count] = Total
         /\ \A r \in 1..Total : setup.rows[r] \in Keys
         /\ setup.failures \in Nat /\ setup.transactional \in BOOLEAN
<1>1. setup \in Setups /\ nextIndex \in 1..Len(Chunks) + 1
  BY DEF TypeOK
<1>2. /\ Total \in Nat \ {0} /\ setup.rows \in Seq(Keys) /\ setup.concurrency \in Nat /\ Limit \in Nat \ {0}
      /\ setup.failures \in Nat /\ setup.transactional \in BOOLEAN
  BY <1>1, SetupFacts
<1>3. Count \in Nat \ {0} /\ Len(Chunks) = Count /\ End[0] = 0 /\ End[Count] = Total
  BY <1>1, ChunkFacts
<1>4. Workers = 1..Least(Limit, Count)
  BY <1>3 DEF Workers
<1>5. Least(Limit, Count) \in Nat /\ Least(Limit, Count) >= 1 /\ (Limit = 1 => Least(Limit, Count) = 1)
  BY <1>2, <1>3 DEF Least
<1>6. 1 \in Workers /\ (Limit = 1 => Workers = {1})
  BY <1>4, <1>5
<1>7. Limit # 1 => setup.concurrency > 1
  BY <1>2 DEF Limit
<1>8. \A r \in 1..Total : setup.rows[r] \in Keys
  BY <1>2 DEF Total
<1>9. Tables = [Keys -> 0..Total] /\ Indices = 1..Count
  BY <1>3 DEF Tables, Total, Indices
<1> QED
  BY <1>1, <1>2, <1>3, <1>6, <1>7, <1>8, <1>9

\* The types of a worker.
LEMMA FrameTypes ==
  ASSUME TypeOK, NEW w \in Workers
  PROVE  /\ workers[w].stage \in {"free", "run", "notify", "dead"} /\ workers[w].sent \in Nat
         /\ workers[w].chunk \in Nat /\ workers[w].chunk <= Count
         /\ workers[w] = [stage |-> workers[w].stage, chunk |-> workers[w].chunk, sent |-> workers[w].sent]
<1>1. Indices = 1..Count /\ Count \in Nat
  BY Facts
<1>2. workers[w] \in [stage : {"free", "run", "notify", "dead"}, chunk : {0} \cup Indices, sent : Nat]
  BY DEF TypeOK
<1> QED
  BY <1>1, <1>2

\* What the call is stays what it is.
LEMMA Rigid ==
  ASSUME setup' = setup
  PROVE  /\ Total' = Total /\ Size' = Size /\ Count' = Count /\ End' = End /\ Chunks' = Chunks
         /\ Limit' = Limit /\ Workers' = Workers /\ Indices' = Indices /\ Tables' = Tables
<1>1. Total' = Total /\ Size' = Size /\ Chunks' = Chunks /\ Limit' = Limit
  BY DEF Total, Size, Chunks, Limit
<1>2. Count' = Count
  BY <1>1 DEF Count
<1>3. End' = End
  BY <1>1, <1>2 DEF End
<1> QED
  BY <1>1, <1>2, <1>3 DEF Workers, Indices, Tables

\* The statements of a chunk write its rows one after the other, or all at once.
LEMMA StatementFacts ==
  ASSUME setup \in Setups, NEW i \in Nat, i # 0, i <= Count
  PROVE  /\ Statements(i) = (IF setup.op = "update" THEN End[i] - End[i - 1] ELSE 1)
         /\ Statements(i) \in Nat /\ Statements(i) # 0
         /\ SentOf(i, 0) = {} /\ SentOf(i, Statements(i)) = End[i - 1] + 1 .. End[i]
<1>1. /\ End[i - 1] \in Nat /\ End[i] \in Nat /\ End[i - 1] < End[i]
      /\ Chunks[i].from = End[i - 1] + 1 /\ Chunks[i].to = End[i]
  BY ChunkFields
<1>2. Statements(i) = IF setup.op = "update" THEN End[i] - End[i - 1] ELSE 1
  BY <1>1 DEF Statements
<1>3. Statements(i) \in Nat /\ Statements(i) # 0
  BY <1>1, <1>2
<1>4. SentOf(i, 0) = {}
  BY <1>1 DEF SentOf
<1>5. SentOf(i, Statements(i)) = End[i - 1] + 1 .. End[i]
  BY <1>1, <1>2, End[i - 1] + (End[i] - End[i - 1]) = End[i] DEF SentOf
<1> QED
  BY <1>2, <1>3, <1>4, <1>5

\* The rows that the next statement writes.
LEMMA SendingFacts ==
  ASSUME setup \in Setups, NEW i \in Nat, i # 0, i <= Count, NEW n \in Nat, n < Statements(i)
  PROVE  /\ RowsOf(i, n) \subseteq 1..Total
         /\ \A r \in SentOf(i, n + 1) : r \in SentOf(i, n) \/ r \in RowsOf(i, n)
<1>1. /\ End[i - 1] \in Nat /\ End[i] \in Nat /\ End[i - 1] < End[i] /\ End[i] <= Total /\ Total \in Nat
      /\ Chunks[i].from = End[i - 1] + 1 /\ Chunks[i].to = End[i]
  BY ChunkFields
<1>2. Statements(i) = IF setup.op = "update" THEN End[i] - End[i - 1] ELSE 1
  BY StatementFacts
<1>3. RowsOf(i, n) = IF setup.op = "update" THEN {End[i - 1] + 1 + n} ELSE End[i - 1] + 1 .. End[i]
  BY <1>1 DEF RowsOf
<1>4. CASE setup.op = "update"
  <2>1. RowsOf(i, n) = {End[i - 1] + 1 + n} /\ n < End[i] - End[i - 1]
    BY <1>2, <1>3, <1>4
  <2>2. SentOf(i, n) = End[i - 1] + 1 .. End[i - 1] + n /\ SentOf(i, n + 1) = End[i - 1] + 1 .. End[i - 1] + (n + 1)
    BY <1>4 DEF SentOf
  <2>3. ASSUME NEW a \in Nat, NEW b \in Nat, b <= Total, n < b - a
        PROVE  /\ {a + 1 + n} \subseteq 1..Total
               /\ \A r \in a + 1 .. a + (n + 1) : r \in a + 1 .. a + n \/ r = a + 1 + n
    BY <1>1, <2>3
  <2>4. /\ {End[i - 1] + 1 + n} \subseteq 1..Total
        /\ \A r \in End[i - 1] + 1 .. End[i - 1] + (n + 1) :
             r \in End[i - 1] + 1 .. End[i - 1] + n \/ r = End[i - 1] + 1 + n
    BY <1>1, <2>1, <2>3
  <2> QED
    BY <2>1, <2>2, <2>4
<1>5. CASE setup.op # "update"
  <2>1. RowsOf(i, n) = End[i - 1] + 1 .. End[i] /\ SentOf(i, n + 1) = End[i - 1] + 1 .. End[i]
    BY <1>3, <1>5 DEF SentOf
  <2> QED
    BY <1>1, <2>1
<1> QED
  BY <1>4, <1>5

\* A statement writes its rows under their keys and takes no key away.
LEMMA WriteFacts ==
  ASSUME TypeOK, NEW t \in Tables, NEW rows \in SUBSET (1..Total)
  PROVE  /\ Write(t, rows) \in Tables
         /\ \A k \in Keys : t[k] # 0 => Write(t, rows)[k] # 0
         /\ \A r \in rows : Write(t, rows)[setup.rows[r]] # 0
         /\ Keyed(t) => Keyed(Write(t, rows))
<1> DEFINE mine(k) == {r \in rows : setup.rows[r] = k}
<1>1. Total \in Nat /\ Tables = [Keys -> 0..Total] /\ \A r \in 1..Total : setup.rows[r] \in Keys
  BY Facts
<1>2. ASSUME NEW k \in Keys
      PROVE  /\ mine(k) = {} => Write(t, rows)[k] = t[k]
             /\ mine(k) # {} => Write(t, rows)[k] \in mine(k)
  <2>1. Write(t, rows)[k] = IF mine(k) = {} THEN t[k] ELSE Latest(mine(k))
    BY DEF Write
  <2>2. mine(k) # {} => Latest(mine(k)) \in mine(k)
    <3>1. mine(k) \in SUBSET (1..Total)
      OBVIOUS
    <3> HIDE DEF mine
    <3> QED
      BY <1>1, <3>1, LatestIsGreatest
  <2> QED
    BY <2>1, <2>2
<1>3. DOMAIN Write(t, rows) = Keys /\ Write(t, rows) = [k \in Keys |-> Write(t, rows)[k]]
  BY DEF Write
<1>4. ASSUME NEW k \in Keys
      PROVE  /\ Write(t, rows)[k] \in 0..Total
             /\ t[k] # 0 => Write(t, rows)[k] # 0
             /\ Keyed(t) /\ Write(t, rows)[k] # 0 => setup.rows[Write(t, rows)[k]] = k
  <2>1. CASE mine(k) = {}
    BY <1>1, <1>2, <2>1 DEF Keyed
  <2>2. CASE mine(k) # {}
    <3>1. Write(t, rows)[k] \in rows /\ setup.rows[Write(t, rows)[k]] = k
      BY <1>2, <2>2
    <3> QED
      BY <1>1, <3>1
  <2> QED
    BY <2>1, <2>2
<1>5. ASSUME NEW r \in rows PROVE Write(t, rows)[setup.rows[r]] # 0
  <2>1. setup.rows[r] \in Keys /\ mine(setup.rows[r]) # {}
    BY <1>1
  <2>2. Write(t, rows)[setup.rows[r]] \in rows
    BY <1>2, <2>1
  <2> QED
    BY <1>1, <2>2
<1>6. Write(t, rows) \in Tables
  BY <1>1, <1>3, <1>4
<1> QED
  BY <1>4, <1>5, <1>6 DEF Keyed

\* The rows that are written next to each other are written as at once.
LEMMA AfterFacts ==
  ASSUME TypeOK
  PROVE  /\ After(0) = Untouched /\ Untouched \in Tables
         /\ \A m, n \in 0..Total : m <= n => Write(After(m), m + 1 .. n) = After(n)
<1> DEFINE mine(k, S) == {r \in S : setup.rows[r] = k}
<1>1. Total \in Nat /\ Tables = [Keys -> 0..Total]
  BY Facts
<1>2. After(0) = Untouched
  BY DEF After, Write, Untouched
<1>3. Untouched \in Tables
  BY <1>1 DEF Untouched
<1>4. ASSUME NEW m \in 0..Total, NEW n \in 0..Total, m <= n PROVE Write(After(m), m + 1 .. n) = After(n)
  <2>1. ASSUME NEW k \in Keys PROVE Write(After(m), m + 1 .. n)[k] = After(n)[k]
    <3>1. Write(After(m), m + 1 .. n)[k]
            = IF mine(k, m + 1 .. n) = {} THEN After(m)[k] ELSE Latest(mine(k, m + 1 .. n))
      BY DEF Write
    <3>2. \A j \in {m, n} : After(j)[k] = IF mine(k, 1..j) = {} THEN 0 ELSE Latest(mine(k, 1..j))
      BY DEF After, Write, Untouched
    <3>3. m \in Nat /\ n \in Nat /\ 1..n = (1..m) \cup (m + 1 .. n)
      BY <1>1, <1>4
    <3>4. CASE mine(k, m + 1 .. n) = {}
      <4>1. mine(k, 1..n) = mine(k, 1..m)
        BY <3>3, <3>4
      <4> HIDE DEF mine
      <4> QED
        BY <3>1, <3>2, <3>4, <4>1
    <3>5. CASE mine(k, m + 1 .. n) # {}
      <4>1. /\ mine(k, m + 1 .. n) \in SUBSET (1..n) /\ mine(k, 1..n) \in SUBSET (1..n)
            /\ mine(k, m + 1 .. n) \subseteq mine(k, 1..n)
        BY <3>3
      <4>2. \A r \in mine(k, 1..n) : r \in mine(k, m + 1 .. n) \/ r <= m
        BY <3>3
      <4>3. \A r \in mine(k, m + 1 .. n) : r > m
        BY <3>3
      <4> DEFINE a == Latest(mine(k, m + 1 .. n))  b == Latest(mine(k, 1..n))
      <4> HIDE DEF mine
      <4>4. a \in mine(k, m + 1 .. n) /\ \A q \in mine(k, m + 1 .. n) : q <= a
        BY <3>3, <3>5, <4>1, LatestIsGreatest
      <4>5. mine(k, 1..n) # {}
        BY <3>5, <4>1
      <4>6. b \in mine(k, 1..n) /\ \A q \in mine(k, 1..n) : q <= b
        BY <3>3, <4>1, <4>5, LatestIsGreatest
      <4> HIDE DEF a, b
      <4>7. a \in 1..n /\ b \in 1..n /\ a <= b
        BY <4>1, <4>4, <4>6
      <4>8. b \in mine(k, m + 1 .. n)
        BY <3>3, <4>2, <4>3, <4>4, <4>6, <4>7
      <4>9. a = b
        BY <4>4, <4>7, <4>8, <3>3
      <4> QED
        BY <3>1, <3>2, <3>5, <4>5, <4>9 DEF a, b
    <3> QED
      BY <3>4, <3>5
  <2>2. /\ Write(After(m), m + 1 .. n) = [k \in Keys |-> Write(After(m), m + 1 .. n)[k]]
        /\ After(n) = [k \in Keys |-> After(n)[k]]
    BY DEF After, Write
  <2> QED
    BY <2>1, <2>2
<1> QED
  BY <1>2, <1>3, <1>4
-----------------------------------------------------------------------------
(* The steps                                                                *)

\* A worker w goes on to f, the others stay where they are.
Moves(w, f) ==
  /\ setup' = setup /\ workers' = [workers EXCEPT ![w] = f]
  /\ workers'[w] = f /\ \A v \in Workers : v # w => workers'[v] = workers[v]

\* The parts of the call that no worker changes.
Calm == phase' = phase /\ open' = open

Takes(w) ==
  /\ phase \in {"running", "rejected"} /\ ~Busy(workers[w]) /\ nextIndex <= Count
  /\ nextIndex' = nextIndex + 1 /\ Moves(w, [stage |-> "run", chunk |-> nextIndex, sent |-> 0])
  /\ Calm /\ UNCHANGED <<outcomes, table, tentative, failures>>

Sends(w, stage, rows) ==
  /\ workers[w].stage = "run"
  /\ stage = IF workers[w].sent + 1 = Statements(workers[w].chunk) THEN "notify" ELSE "run"
  /\ Moves(w, [stage |-> stage, chunk |-> workers[w].chunk, sent |-> workers[w].sent + 1])
  /\ rows = RowsOf(workers[w].chunk, workers[w].sent)
  /\ table' = (IF open THEN table ELSE Write(table, rows))
  /\ tentative' = (IF open THEN Write(tentative, rows) ELSE tentative)
  /\ Calm /\ UNCHANGED <<nextIndex, outcomes, failures>>

Dies(w) ==
  /\ workers[w].stage \in {"run", "notify"} /\ failures < setup.failures /\ failures' = failures + 1
  /\ Moves(w, [stage |-> "dead", chunk |-> workers[w].chunk, sent |-> workers[w].sent])
  /\ Calm /\ UNCHANGED <<nextIndex, outcomes, table, tentative>>

Notifies(w) ==
  /\ workers[w].stage = "notify" /\ Moves(w, Free)
  /\ outcomes' = [outcomes EXCEPT ![workers[w].chunk] = workers[w].chunk]
  /\ Calm /\ UNCHANGED <<nextIndex, table, tentative, failures>>

\* What a worker does is one of these.
LEMMA WorkForms ==
  ASSUME TypeOK, NEW w \in Workers, Work(w)
  PROVE  Takes(w) \/ (\E stage, rows : Sends(w, stage, rows)) \/ Dies(w) \/ Notifies(w)
<1> DEFINE old == workers[w]
<1>1. /\ old.stage \in {"free", "run", "notify", "dead"}
      /\ old = [stage |-> old.stage, chunk |-> old.chunk, sent |-> old.sent]
  BY FrameTypes
<1>7. \E a, b, c : old = [stage |-> a, chunk |-> b, sent |-> c]
  BY <1>1
<1>2. ASSUME NEW f, setup' = setup, workers' = [workers EXCEPT ![w] = f] PROVE Moves(w, f)
  <2>1. DOMAIN workers = Workers
    BY DEF TypeOK
  <2> QED
    BY <1>2, <2>1 DEF Moves
<1>3. CASE Take(w)
  <2>1. Moves(w, [stage |-> "run", chunk |-> nextIndex, sent |-> 0])
    BY <1>2, <1>3 DEF Take
  <2>2. nextIndex <= Count
    BY <1>3, Facts DEF Take
  <2> QED
    BY <1>3, <2>1, <2>2 DEF Take, Takes, Calm, Busy
<1>4. CASE Send(w)
  <2> DEFINE stage == IF old.sent + 1 = Statements(old.chunk) THEN "notify" ELSE "run"
             rows == RowsOf(old.chunk, old.sent)
  <2>1. workers' = [workers EXCEPT ![w].sent = old.sent + 1, ![w].stage = stage]
    BY <1>4 DEF Send
  <2>2. workers' = [workers EXCEPT ![w] = [stage |-> stage, chunk |-> old.chunk, sent |-> old.sent + 1]]
    <3> HIDE DEF stage, rows
    <3>1. [workers EXCEPT ![w].sent = old.sent + 1, ![w].stage = stage]
            = [workers EXCEPT ![w] = [[old EXCEPT !.sent = old.sent + 1] EXCEPT !.stage = stage]]
      <4>1. w \in DOMAIN workers
        BY DEF TypeOK
      <4> QED
        BY <4>1
    <3>2. [[old EXCEPT !.sent = old.sent + 1] EXCEPT !.stage = stage]
            = [stage |-> stage, chunk |-> old.chunk, sent |-> old.sent + 1]
      <4>1. PICK a, b, c : old = [stage |-> a, chunk |-> b, sent |-> c]
        BY <1>7
      <4>2. [old EXCEPT !.sent = old.sent + 1] = [stage |-> a, chunk |-> b, sent |-> old.sent + 1]
        BY <4>1
      <4>3. [[stage |-> a, chunk |-> b, sent |-> old.sent + 1] EXCEPT !.stage = stage]
              = [stage |-> stage, chunk |-> b, sent |-> old.sent + 1]
        OBVIOUS
      <4>4. b = old.chunk
        BY <4>1
      <4> HIDE DEF old
      <4> QED
        BY <4>2, <4>3, <4>4
    <3> HIDE DEF old
    <3> QED
      BY <2>1, <3>1, <3>2
  <2>3. Moves(w, [stage |-> stage, chunk |-> old.chunk, sent |-> old.sent + 1])
    BY <1>2, <1>4, <2>2 DEF Send
  <2>4. Sends(w, stage, rows)
    BY <1>4, <2>3 DEF Send, Sends, Calm
  <2> QED
    BY <2>4
<1>5. CASE SendFails(w) \/ NotifyFails(w)
  <2>1. workers' = [workers EXCEPT ![w].stage = "dead"]
    BY <1>5 DEF SendFails, NotifyFails
  <2>2. workers' = [workers EXCEPT ![w] = [stage |-> "dead", chunk |-> old.chunk, sent |-> old.sent]]
    <3>1. [workers EXCEPT ![w].stage = "dead"] = [workers EXCEPT ![w] = [old EXCEPT !.stage = "dead"]]
      OBVIOUS
    <3>2. [old EXCEPT !.stage = "dead"] = [stage |-> "dead", chunk |-> old.chunk, sent |-> old.sent]
      BY <1>7
    <3> HIDE DEF old
    <3> QED
      BY <2>1, <3>1, <3>2
  <2>3. Moves(w, [stage |-> "dead", chunk |-> old.chunk, sent |-> old.sent])
    BY <1>2, <1>5, <2>2 DEF SendFails, NotifyFails
  <2> QED
    BY <1>5, <2>3 DEF SendFails, NotifyFails, Dies, Calm, CanFail, Fails
<1>6. CASE Notify(w)
  <2>1. Moves(w, Free)
    BY <1>2, <1>6 DEF Notify
  <2> QED
    BY <1>6, <2>1 DEF Notify, Notifies, Calm
<1> QED
  BY <1>3, <1>4, <1>5, <1>6 DEF Work

\* The steps of the call itself leave the workers alone.
Answers ==
  /\ phase' = "rejected" /\ phase = "running" /\ open' = FALSE /\ UNCHANGED table
  /\ \/ \E w \in Workers : workers[w].stage = "dead"
     \/ open /\ failures < setup.failures /\ \A w \in Workers : Returned(w)
Alone == UNCHANGED <<setup, nextIndex, workers, outcomes>>
Calling ==
  /\ Alone
  /\ \/ phase = "new" /\ phase' = "running" /\ open' = setup.transactional
        /\ tentative' = table /\ UNCHANGED <<table, failures>>
     \/ phase = "running" /\ phase' = "resolved" /\ open' = FALSE /\ (\A w \in Workers : Returned(w))
        /\ table' = (IF open THEN tentative ELSE table) /\ UNCHANGED <<tentative, failures>>
     \/ Answers /\ UNCHANGED tentative /\ failures' \in {failures, failures + 1}
     \/ UNCHANGED vars

\* What the call itself does is one of these.
LEMMA CallForms ==
  ASSUME TypeOK, Begin \/ Resolve \/ CommitFails \/ Reject \/ UNCHANGED vars
  PROVE  Calling
<1>1. CASE Begin
  BY <1>1 DEF Begin, Calling, Alone
<1>2. CASE Resolve
  BY <1>2 DEF Resolve, Calling, Alone
<1>3. CASE CommitFails
  BY <1>3 DEF CommitFails, Calling, Alone, Answers, CanFail, Fails
<1>4. CASE Reject
  BY <1>4 DEF Reject, Calling, Alone, Answers
<1>5. CASE UNCHANGED vars
  BY <1>5 DEF vars, Calling, Alone
<1> QED
  BY <1>1, <1>2, <1>3, <1>4, <1>5
-----------------------------------------------------------------------------
(* Every step keeps the invariant                                           *)

Working == \E w \in Workers : Takes(w) \/ (\E stage, rows : Sends(w, stage, rows)) \/ Dies(w) \/ Notifies(w)

\* A step is one of the call or one of a worker, and the call stays what it is.
LEMMA StepForms ==
  ASSUME TypeOK, [Next]_vars
  PROVE  (Working \/ Calling) /\ setup' = setup
<1>1. CASE Begin \/ Resolve \/ CommitFails \/ Reject \/ UNCHANGED vars
  BY <1>1, CallForms DEF Calling, Alone
<1>2. CASE \E w \in Workers : Work(w)
  <2>1. PICK w \in Workers : Work(w)
    BY <1>2
  <2>2. Takes(w) \/ (\E stage, rows : Sends(w, stage, rows)) \/ Dies(w) \/ Notifies(w)
    BY <2>1, WorkForms
  <2>3. setup' = setup
    BY <2>2 DEF Takes, Sends, Dies, Notifies, Moves
  <2> QED
    BY <2>2, <2>3 DEF Working
<1> QED
  BY <1>1, <1>2 DEF Next

\* What a statement makes of a table.
LEMMA SendKeeps ==
  ASSUME TypeOK, WorkersOK, NEW w \in Workers, NEW stage, NEW rows, Sends(w, stage, rows)
  PROVE  /\ rows \in SUBSET (1..Total)
         /\ workers[w].chunk # 0 /\ workers[w].sent < Statements(workers[w].chunk)
         /\ stage \in {"run", "notify"}
         /\ table' \in Tables /\ tentative' \in Tables
         /\ (stage = "notify" <=> workers[w].sent + 1 = Statements(workers[w].chunk))
         /\ workers[w].sent + 1 <= Statements(workers[w].chunk) /\ workers[w].sent + 1 \in Nat
         /\ Statements(workers[w].chunk) \in Nat
<1> DEFINE i == workers[w].chunk  n == workers[w].sent
<1>1. i \in Nat /\ i <= Count /\ n \in Nat
  BY FrameTypes
<1>2. i # 0 /\ n < Statements(i)
  BY DEF WorkersOK, FrameOK, Busy, Sends
<1>3. setup \in Setups
  BY DEF TypeOK
<1>4. Statements(i) \in Nat
  BY <1>1, <1>2, <1>3, StatementFacts
<1>5. rows \in SUBSET (1..Total)
  <2>1. RowsOf(i, n) \subseteq 1..Total
    BY <1>1, <1>2, <1>3, SendingFacts
  <2> QED
    BY <2>1 DEF Sends
<1>6. table' \in Tables /\ tentative' \in Tables
  <2>1. table \in Tables /\ tentative \in Tables
    BY DEF TypeOK
  <2>2. Write(table, rows) \in Tables /\ Write(tentative, rows) \in Tables
    BY <1>5, <2>1, WriteFacts
  <2> QED
    BY <2>1, <2>2 DEF Sends
<1>7. stage \in {"run", "notify"} /\ (stage = "notify" <=> n + 1 = Statements(i))
  BY DEF Sends
<1>8. n + 1 <= Statements(i) /\ n + 1 \in Nat
  BY <1>1, <1>2, <1>4
<1> QED
  BY <1>2, <1>4, <1>5, <1>6, <1>7, <1>8

\* Every step keeps the types.
LEMMA TypeStep == ASSUME TypeOK, WorkersOK, [Next]_vars PROVE TypeOK'
<1> DEFINE frames == [stage : {"free", "run", "notify", "dead"}, chunk : {0} \cup Indices, sent : Nat]
<1>1. setup' = setup
  BY StepForms
<1>2. Workers' = Workers /\ Indices' = Indices /\ Tables' = Tables /\ Chunks' = Chunks
  BY <1>1, Rigid
<1>3. ASSUME
        setup \in Setups, phase' \in {"new", "running", "resolved", "rejected"},
        nextIndex' \in 1..Len(Chunks) + 1,
        workers' \in [Workers -> frames], outcomes' \in [Indices -> {0} \cup Indices],
        open' \in BOOLEAN, table' \in Tables, tentative' \in Tables, failures' \in Nat
      PROVE TypeOK'
  BY <1>1, <1>2, <1>3 DEF TypeOK
<1>4. /\ setup \in Setups /\ phase \in {"new", "running", "resolved", "rejected"}
      /\ nextIndex \in 1..Len(Chunks) + 1
      /\ workers \in [Workers -> frames] /\ outcomes \in [Indices -> {0} \cup Indices]
      /\ open \in BOOLEAN /\ table \in Tables /\ tentative \in Tables /\ failures \in Nat
  BY DEF TypeOK
<1>5. /\ Len(Chunks) = Count /\ Count \in Nat /\ nextIndex \in Nat /\ nextIndex # 0 /\ Indices = 1..Count
      /\ setup.transactional \in BOOLEAN
  BY Facts
<1> HIDE DEF frames
<1>6. ASSUME NEW w \in Workers, NEW f \in frames, Moves(w, f) PROVE workers' \in [Workers -> frames]
  BY <1>4, <1>6 DEF Moves
<1>7. ASSUME NEW w \in Workers, Takes(w) PROVE TypeOK'
  <2>1. [stage |-> "run", chunk |-> nextIndex, sent |-> 0] \in frames /\ nextIndex + 1 \in 1..Len(Chunks) + 1
    BY <1>5, <1>7 DEF Takes, frames
  <2>2. workers' \in [Workers -> frames]
    BY <1>6, <1>7, <2>1 DEF Takes
  <2> QED
    BY <1>3, <1>4, <1>7, <2>1, <2>2 DEF Takes, Calm
<1>8. ASSUME NEW w \in Workers, NEW stage, NEW rows, Sends(w, stage, rows) PROVE TypeOK'
  <2>1. /\ workers[w].chunk \in Nat /\ workers[w].chunk <= Count /\ workers[w].chunk # 0
        /\ workers[w].sent + 1 \in Nat /\ stage \in {"run", "notify"}
        /\ table' \in Tables /\ tentative' \in Tables
    BY <1>8, SendKeeps, FrameTypes
  <2>2. [stage |-> stage, chunk |-> workers[w].chunk, sent |-> workers[w].sent + 1] \in frames
    BY <1>5, <2>1 DEF frames
  <2>3. workers' \in [Workers -> frames]
    BY <1>6, <1>8, <2>2 DEF Sends
  <2> QED
    BY <1>3, <1>4, <1>8, <2>1, <2>3 DEF Sends, Calm
<1>9. ASSUME NEW w \in Workers, Dies(w) PROVE TypeOK'
  <2>1. workers[w].chunk \in Nat /\ workers[w].chunk <= Count /\ workers[w].sent \in Nat
    BY FrameTypes
  <2>2. [stage |-> "dead", chunk |-> workers[w].chunk, sent |-> workers[w].sent] \in frames
    BY <1>5, <2>1 DEF frames
  <2>3. workers' \in [Workers -> frames]
    BY <1>6, <1>9, <2>2 DEF Dies
  <2>4. failures' \in Nat
    BY <1>4, <1>9 DEF Dies
  <2> QED
    BY <1>3, <1>4, <1>9, <2>3, <2>4 DEF Dies, Calm
<1>10. ASSUME NEW w \in Workers, Notifies(w) PROVE TypeOK'
  <2>1. workers[w].chunk \in Nat /\ workers[w].chunk <= Count
    BY FrameTypes
  <2>2. Free \in frames /\ workers[w].chunk \in {0} \cup Indices
    BY <1>5, <2>1 DEF frames, Free
  <2>3. workers' \in [Workers -> frames]
    BY <1>6, <1>10, <2>2 DEF Notifies
  <2>4. outcomes' \in [Indices -> {0} \cup Indices]
    BY <1>4, <1>10, <2>2 DEF Notifies
  <2> QED
    BY <1>3, <1>4, <1>10, <2>3, <2>4 DEF Notifies, Calm
<1>11. CASE Calling
  <2>1. nextIndex' = nextIndex /\ workers' = workers /\ outcomes' = outcomes
    BY <1>11 DEF Calling, Alone
  <2>2. phase' \in {"new", "running", "resolved", "rejected"}
    BY <1>4, <1>11 DEF Calling, Answers, vars
  <2>3. table' \in Tables /\ tentative' \in Tables
    BY <1>4, <1>11 DEF Calling, Answers, vars
  <2>4. open' \in BOOLEAN
    <3>1. open' = setup.transactional \/ open' = FALSE \/ open' = open
      BY <1>11 DEF Calling, Answers, vars
    <3> QED
      BY <1>4, <1>5, <3>1
  <2>5. failures' \in Nat
    BY <1>4, <1>11 DEF Calling, Answers, vars
  <2> QED
    BY <1>3, <1>4, <2>1, <2>2, <2>3, <2>4, <2>5
<1> QED
  BY <1>7, <1>8, <1>9, <1>10, <1>11, StepForms DEF Working

\* Every step keeps what the workers hold.
LEMMA WorkersStep == ASSUME TypeOK, WorkersOK, [Next]_vars PROVE WorkersOK'
<1> DEFINE Held(f, n) == f.stage # "free" =>
             /\ f.chunk # 0 /\ f.chunk < n
             /\ f.sent <= Statements(f.chunk)
             /\ f.stage = "run" => f.sent < Statements(f.chunk)
             /\ f.stage = "notify" => f.sent = Statements(f.chunk)
<1>1. setup' = setup /\ Workers' = Workers /\ Chunks' = Chunks
  BY StepForms, Rigid
<1>2. ASSUME \A v \in Workers : Held(workers'[v], nextIndex') PROVE WorkersOK'
  BY <1>1, <1>2 DEF WorkersOK, FrameOK, Busy, Statements
<1>3. \A v \in Workers : Held(workers[v], nextIndex)
  BY DEF WorkersOK, FrameOK, Busy
<1>4. /\ nextIndex \in Nat /\ nextIndex # 0 /\ Count \in Nat /\ setup \in Setups
      /\ \A v \in Workers : workers[v].chunk \in Nat
  BY Facts, FrameTypes DEF TypeOK
<1> HIDE DEF Held
<1>5. ASSUME NEW w \in Workers, NEW f, Moves(w, f), Held(f, nextIndex'), nextIndex' = nextIndex
      PROVE  WorkersOK'
  BY <1>2, <1>3, <1>5 DEF Moves
<1>6. ASSUME NEW w \in Workers, Takes(w) PROVE WorkersOK'
  <2>1. /\ nextIndex' = nextIndex + 1
        /\ workers'[w] = [stage |-> "run", chunk |-> nextIndex, sent |-> 0]
        /\ \A v \in Workers : v # w => workers'[v] = workers[v]
    BY <1>6 DEF Takes, Moves
  <2>2. Statements(nextIndex) \in Nat /\ Statements(nextIndex) # 0
    BY <1>4, <1>6, StatementFacts DEF Takes
  <2>3. Held([stage |-> "run", chunk |-> nextIndex, sent |-> 0], nextIndex + 1)
    BY <1>4, <2>2 DEF Held
  <2>4. \A v \in Workers : Held(workers[v], nextIndex + 1)
    BY <1>3, <1>4 DEF Held
  <2> QED
    BY <1>2, <2>1, <2>3, <2>4
<1>7. ASSUME NEW w \in Workers, NEW stage, NEW rows, Sends(w, stage, rows) PROVE WorkersOK'
  <2> DEFINE f == [stage |-> stage, chunk |-> workers[w].chunk, sent |-> workers[w].sent + 1]
  <2>1. /\ f.stage \in {"run", "notify"} /\ f.chunk # 0 /\ f.sent <= Statements(f.chunk)
        /\ (f.stage = "notify" <=> f.sent = Statements(f.chunk))
        /\ f.sent \in Nat /\ Statements(f.chunk) \in Nat
    BY <1>7, SendKeeps
  <2>2. workers[w].chunk < nextIndex
    BY <1>3, <1>7 DEF Held, Sends
  <2>3. Held(f, nextIndex)
    <3>1. f.chunk < nextIndex
      BY <2>2
    <3> HIDE DEF f
    <3> QED
      BY <2>1, <3>1 DEF Held
  <2>4. Moves(w, f) /\ nextIndex' = nextIndex
    BY <1>7 DEF Sends
  <2> HIDE DEF f
  <2> QED
    BY <1>5, <2>3, <2>4
<1>8. ASSUME NEW w \in Workers, Dies(w) PROVE WorkersOK'
  <2>1. Held([stage |-> "dead", chunk |-> workers[w].chunk, sent |-> workers[w].sent], nextIndex)
    BY <1>3, <1>8 DEF Held, Dies
  <2> QED
    BY <1>5, <1>8, <2>1 DEF Dies
<1>9. ASSUME NEW w \in Workers, Notifies(w) PROVE WorkersOK'
  <2>1. Held(Free, nextIndex)
    BY DEF Held, Free
  <2> QED
    BY <1>5, <1>9, <2>1 DEF Notifies
<1>10. CASE Calling
  BY <1>2, <1>3, <1>10 DEF Calling, Alone
<1> QED
  BY <1>6, <1>7, <1>8, <1>9, <1>10, StepForms DEF Working
\* Workers work while the call runs, and when it has been rejected.
LEMMA WorkingPhase ==
  ASSUME TypeOK, RestOK, Working
  PROVE  phase \in {"running", "rejected"} /\ phase' = phase /\ open' = open
<1>1. PICK w \in Workers : Takes(w) \/ (\E stage, rows : Sends(w, stage, rows)) \/ Dies(w) \/ Notifies(w)
  BY DEF Working
<1>2. phase' = phase /\ open' = open
  BY <1>1 DEF Takes, Sends, Dies, Notifies, Calm
<1>3. CASE Takes(w)
  BY <1>2, <1>3 DEF Takes
<1>4. CASE Busy(workers[w])
  BY <1>2, <1>4 DEF TypeOK, RestOK, Busy, Returned
<1>5. Takes(w) \/ Busy(workers[w])
  BY <1>1 DEF Sends, Dies, Notifies, Busy
<1> QED
  BY <1>3, <1>4, <1>5

\* Every step keeps the rest before and after the call.
LEMMA RestStep == ASSUME TypeOK, RestOK, [Next]_vars PROVE RestOK'
<1>1. setup' = setup /\ Workers' = Workers /\ Chunks' = Chunks
  BY StepForms, Rigid
<1>2. CASE Working
  BY <1>1, <1>2, WorkingPhase DEF RestOK
<1>3. CASE Calling
  <2>1. nextIndex' = nextIndex /\ workers' = workers
    BY <1>3 DEF Calling, Alone
  <2>2. phase' = "new" => nextIndex' = 1 /\ \A w \in Workers : workers'[w].stage = "free"
    BY <1>3, <2>1 DEF Calling, Answers, vars, RestOK, Busy
  <2>3. phase' = "resolved" => \A w \in Workers : workers'[w].stage = "free" /\ nextIndex' > Len(Chunks)
    BY <1>3, <2>1 DEF Calling, Answers, vars, RestOK, Returned
  <2>4. open' <=> phase' = "running" /\ setup.transactional
    BY <1>3 DEF Calling, Answers, vars, RestOK
  <2> QED
    BY <1>1, <2>2, <2>3, <2>4 DEF RestOK, Busy, Returned
<1> QED
  BY <1>2, <1>3, StepForms

\* Every step keeps the outcomes.
LEMMA OutcomesStep == ASSUME TypeOK, WorkersOK, OutcomesOK, [Next]_vars PROVE OutcomesOK'
<1>1. Workers' = Workers
  BY StepForms, Rigid
<1>2. nextIndex \in Nat /\ nextIndex # 0 /\ nextIndex <= Count + 1 /\ Count \in Nat
  BY Facts
<1>3. outcomes \in [1..Count -> {0} \cup 1..Count]
  BY Facts DEF TypeOK
<1>4. \A i \in 1..nextIndex - 1 :
        outcomes[i] = i \/ \E w \in Workers : workers[w].stage # "free" /\ workers[w].chunk = i
  BY DEF OutcomesOK, Busy
<1>5. ASSUME \A i \in 1..nextIndex' - 1 :
               outcomes'[i] = i \/ \E w \in Workers : workers'[w].stage # "free" /\ workers'[w].chunk = i
      PROVE  OutcomesOK'
  BY <1>1, <1>5 DEF OutcomesOK, Busy
<1>6. ASSUME NEW w \in Workers, NEW f, Moves(w, f), f.stage # "free", f.chunk = workers[w].chunk,
             nextIndex' = nextIndex, outcomes' = outcomes
      PROVE  OutcomesOK'
  <2>1. ASSUME NEW i \in 1..nextIndex - 1, outcomes[i] # i
        PROVE  \E v \in Workers : workers'[v].stage # "free" /\ workers'[v].chunk = i
    <3>1. PICK v \in Workers : workers[v].stage # "free" /\ workers[v].chunk = i
      BY <1>4, <2>1
    <3> QED
      BY <1>6, <3>1 DEF Moves
  <2> QED
    BY <1>5, <1>6, <2>1
<1>7. ASSUME NEW w \in Workers, Takes(w) PROVE OutcomesOK'
  <2>1. /\ workers'[w].stage # "free" /\ workers'[w].chunk = nextIndex /\ workers[w].stage = "free"
        /\ nextIndex' = nextIndex + 1 /\ outcomes' = outcomes
        /\ \A v \in Workers : v # w => workers'[v] = workers[v]
    BY <1>7 DEF Takes, Moves, Busy
  <2>2. ASSUME NEW i \in 1..nextIndex, outcomes[i] # i
        PROVE  \E v \in Workers : workers'[v].stage # "free" /\ workers'[v].chunk = i
    <3>1. CASE i = nextIndex
      BY <2>1, <3>1
    <3>2. CASE i # nextIndex
      <4>1. i \in 1..nextIndex - 1
        BY <1>2, <3>2
      <4>2. PICK v \in Workers : workers[v].stage # "free" /\ workers[v].chunk = i
        BY <1>4, <2>2, <4>1
      <4> QED
        BY <2>1, <4>2
    <3> QED
      BY <3>1, <3>2
  <2>3. nextIndex' - 1 = nextIndex
    BY <1>2, <2>1
  <2> QED
    BY <1>5, <2>1, <2>2, <2>3
<1>8. ASSUME NEW w \in Workers, NEW stage, NEW rows, Sends(w, stage, rows) PROVE OutcomesOK'
  <2> DEFINE f == [stage |-> stage, chunk |-> workers[w].chunk, sent |-> workers[w].sent + 1]
  <2>1. f.stage # "free" /\ f.chunk = workers[w].chunk
    BY <1>8 DEF Sends
  <2>2. Moves(w, f) /\ nextIndex' = nextIndex /\ outcomes' = outcomes
    BY <1>8 DEF Sends
  <2> HIDE DEF f
  <2> QED
    BY <1>6, <2>1, <2>2
<1>9. ASSUME NEW w \in Workers, Dies(w) PROVE OutcomesOK'
  <2> DEFINE f == [stage |-> "dead", chunk |-> workers[w].chunk, sent |-> workers[w].sent]
  <2>1. f.stage # "free" /\ f.chunk = workers[w].chunk
    OBVIOUS
  <2>2. Moves(w, f) /\ nextIndex' = nextIndex /\ outcomes' = outcomes
    BY <1>9 DEF Dies
  <2> HIDE DEF f
  <2> QED
    BY <1>6, <2>1, <2>2
<1>10. ASSUME NEW w \in Workers, Notifies(w) PROVE OutcomesOK'
  <2> DEFINE c == workers[w].chunk
  <2>1. c \in 1..Count
    <3>1. c # 0
      BY <1>10 DEF WorkersOK, FrameOK, Busy, Notifies
    <3>2. c \in Nat /\ c <= Count
      BY FrameTypes
    <3> QED
      BY <1>2, <3>1, <3>2
  <2>2. /\ outcomes' = [outcomes EXCEPT ![c] = c] /\ nextIndex' = nextIndex
        /\ \A v \in Workers : v # w => workers'[v] = workers[v]
    BY <1>10 DEF Notifies, Moves
  <2>3. ASSUME NEW i \in 1..nextIndex - 1, outcomes'[i] # i
        PROVE  \E v \in Workers : workers'[v].stage # "free" /\ workers'[v].chunk = i
    <3>1. i \in 1..Count
      BY <1>2
    <3>2. i # c /\ outcomes'[i] = outcomes[i]
      BY <1>3, <2>1, <2>2, <2>3, <3>1
    <3>3. PICK v \in Workers : workers[v].stage # "free" /\ workers[v].chunk = i
      BY <1>4, <2>3, <3>2
    <3> QED
      BY <2>2, <3>2, <3>3
  <2> QED
    BY <1>5, <2>2, <2>3
<1>11. CASE Calling
  BY <1>4, <1>5, <1>11 DEF Calling, Alone
<1> QED
  BY <1>7, <1>8, <1>9, <1>10, <1>11, StepForms DEF Working

\* Every step keeps rows under their keys.
LEMMA KeyedStep ==
  ASSUME TypeOK, WorkersOK, Keyed(table), Keyed(tentative), [Next]_vars
  PROVE  Keyed(table)' /\ Keyed(tentative)'
<1>1. setup' = setup /\ table \in Tables /\ tentative \in Tables
  BY StepForms DEF TypeOK
<1>2. ASSUME Keyed(table'), Keyed(tentative') PROVE Keyed(table)' /\ Keyed(tentative)'
  BY <1>1, <1>2 DEF Keyed
<1>3. CASE Calling
  <2>1. table' \in {table, tentative} /\ tentative' \in {table, tentative}
    BY <1>3 DEF Calling, Answers, vars
  <2> QED
    BY <1>2, <2>1
<1>4. ASSUME NEW w \in Workers, NEW stage, NEW rows, Sends(w, stage, rows)
      PROVE  Keyed(table') /\ Keyed(tentative')
  <2>1. rows \in SUBSET (1..Total)
    BY <1>4, SendKeeps
  <2>2. Keyed(Write(table, rows)) /\ Keyed(Write(tentative, rows))
    BY <1>1, <2>1, WriteFacts
  <2>3. table' \in {table, Write(table, rows)} /\ tentative' \in {tentative, Write(tentative, rows)}
    BY <1>4 DEF Sends
  <2> QED
    BY <2>2, <2>3
<1>5. ASSUME NEW w \in Workers, Takes(w) \/ Dies(w) \/ Notifies(w)
      PROVE  Keyed(table') /\ Keyed(tentative')
  BY <1>5 DEF Takes, Dies, Notifies
<1> QED
  BY <1>2, <1>3, <1>4, <1>5, StepForms DEF Working
\* What is seen changes with a statement that is sent, and only while the call runs or, without
\* a transaction, after it was rejected.
LEMMA SeenSteps ==
  ASSUME TypeOK, WorkersOK, RestOK, [Next]_vars
  PROVE  /\ \A w \in Workers : Takes(w) \/ Dies(w) \/ Notifies(w) => Seen' = Seen
         /\ \A w \in Workers : \A stage, rows : Sends(w, stage, rows)
              => \/ Seen' = Write(Seen, rows)
                 \/ phase = "rejected" /\ setup.transactional
         /\ Calling => Seen' = Seen \/ (phase' = "rejected" /\ setup.transactional)
<1>1. setup' = setup
  BY StepForms
<1>2. open <=> phase = "running" /\ setup.transactional
  BY DEF RestOK
<1>3. ASSUME NEW w \in Workers, Takes(w) \/ Dies(w) \/ Notifies(w) PROVE Seen' = Seen
  BY <1>1, <1>3 DEF Takes, Dies, Notifies, Calm, Seen
<1>4. ASSUME NEW w \in Workers, NEW stage, NEW rows, Sends(w, stage, rows),
             ~(phase = "rejected" /\ setup.transactional)
      PROVE  Seen' = Write(Seen, rows)
  <2>1. Working
    BY <1>4 DEF Working
  <2>2. phase' = phase /\ phase \in {"running", "rejected"}
    BY <2>1, WorkingPhase
  <2>3. /\ table' = (IF open THEN table ELSE Write(table, rows))
        /\ tentative' = (IF open THEN Write(tentative, rows) ELSE tentative)
    BY <1>4 DEF Sends
  <2> QED
    BY <1>1, <1>2, <1>4, <2>2, <2>3 DEF Seen
<1>5. ASSUME Calling, ~(phase' = "rejected" /\ setup.transactional) PROVE Seen' = Seen
  BY <1>1, <1>2, <1>5 DEF Calling, Answers, vars, Seen
<1> QED
  BY <1>3, <1>4, <1>5

\* Every step keeps the rows that are written.
LEMMA WrittenStep ==
  ASSUME TypeOK, WorkersOK, RestOK, WrittenOK, [Next]_vars
  PROVE  WrittenOK'
<1> DEFINE Left(f, i, r) == f.stage # "free" /\ f.chunk = i /\ r \notin SentOf(i, f.sent)
           Rows(i) == End[i - 1] + 1 .. End[i]
<1>1. setup' = setup /\ Workers' = Workers /\ End' = End
  BY StepForms, Rigid
<1>2. /\ nextIndex \in Nat /\ nextIndex # 0 /\ nextIndex <= Count + 1 /\ Count \in Nat /\ Total \in Nat
      /\ setup \in Setups /\ \A r \in 1..Total : setup.rows[r] \in Keys
  BY Facts DEF TypeOK
<1>3. phase \in {"running", "resolved"} =>
        \A i \in 1..nextIndex - 1 : \A r \in Rows(i) :
          Seen[setup.rows[r]] # 0 \/ \E w \in Workers : Left(workers[w], i, r)
  BY DEF WrittenOK, Busy
<1>4. ASSUME phase' \in {"running", "resolved"} =>
               \A i \in 1..nextIndex' - 1 : \A r \in Rows(i) :
                 Seen'[setup.rows[r]] # 0 \/ \E w \in Workers : Left(workers'[w], i, r)
      PROVE  WrittenOK'
  BY <1>1, <1>4 DEF WrittenOK, Busy, SentOf
<1>5. ASSUME NEW i \in 1..Count, NEW r \in Rows(i) PROVE r \in 1..Total /\ setup.rows[r] \in Keys
  <2>1. End[i - 1] \in Nat /\ End[i] \in Nat /\ End[i] <= Total
    BY <1>2, ChunkFields
  <2> QED
    BY <1>2, <1>5, <2>1
<1> HIDE DEF Left, Rows
<1>6. ASSUME NEW w \in Workers, Takes(w) PROVE WrittenOK'
  <2>1. /\ workers'[w] = [stage |-> "run", chunk |-> nextIndex, sent |-> 0] /\ workers[w].stage = "free"
        /\ nextIndex' = nextIndex + 1 /\ nextIndex <= Count /\ phase' = phase
        /\ \A v \in Workers : v # w => workers'[v] = workers[v]
    BY <1>6 DEF Takes, Moves, Busy, Calm
  <2>2. Seen' = Seen /\ nextIndex' - 1 = nextIndex
    BY <1>2, <1>6, <2>1, SeenSteps
  <2>3. ASSUME NEW r PROVE Left(workers'[w], nextIndex, r)
    <3>1. SentOf(nextIndex, 0) = {}
      BY <1>2, <2>1, StatementFacts
    <3> QED
      BY <2>1, <3>1 DEF Left
  <2>4. ASSUME phase \in {"running", "resolved"}, NEW i \in 1..nextIndex, NEW r \in Rows(i),
               Seen[setup.rows[r]] = 0
        PROVE  \E v \in Workers : Left(workers'[v], i, r)
    <3>1. CASE i = nextIndex
      BY <2>3, <3>1
    <3>2. CASE i # nextIndex
      <4>1. i \in 1..nextIndex - 1
        BY <1>2, <3>2
      <4>2. PICK v \in Workers : Left(workers[v], i, r)
        BY <1>3, <2>4, <4>1
      <4>3. v # w
        BY <2>1, <4>2 DEF Left
      <4> QED
        BY <2>1, <4>2, <4>3
    <3> QED
      BY <3>1, <3>2
  <2> QED
    BY <1>4, <2>1, <2>2, <2>4
<1>7. ASSUME NEW w \in Workers, NEW stage, NEW rows, Sends(w, stage, rows) PROVE WrittenOK'
  <2> DEFINE c == workers[w].chunk  n == workers[w].sent
  <2>1. /\ workers'[w] = [stage |-> stage, chunk |-> c, sent |-> n + 1] /\ rows = RowsOf(c, n)
        /\ nextIndex' = nextIndex /\ phase' = phase /\ stage # "free"
        /\ \A v \in Workers : v # w => workers'[v] = workers[v]
    BY <1>7 DEF Sends, Moves, Calm
  <2>2. /\ c \in Nat /\ c # 0 /\ c <= Count /\ n \in Nat /\ n < Statements(c)
        /\ rows \in SUBSET (1..Total)
    BY <1>7, SendKeeps, FrameTypes
  <2>3. ASSUME phase \in {"running", "resolved"}, NEW i \in 1..nextIndex - 1, NEW r \in Rows(i),
               Seen'[setup.rows[r]] = 0
        PROVE  \E v \in Workers : Left(workers'[v], i, r)
    <3>1. Seen' = Write(Seen, rows)
      BY <1>7, <2>3, SeenSteps
    <3>2. Seen \in Tables
      BY DEF Seen, TypeOK
    <3>3. i \in 1..Count /\ setup.rows[r] \in Keys
      BY <1>2, <1>5
    <3>4. Seen[setup.rows[r]] = 0 /\ r \notin rows
      BY <2>2, <2>3, <3>1, <3>2, <3>3, WriteFacts
    <3>5. PICK v \in Workers : Left(workers[v], i, r)
      BY <1>3, <2>3, <3>4
    <3>6. CASE v # w
      BY <2>1, <3>5, <3>6
    <3>7. CASE v = w
      <4>1. c = i /\ r \notin SentOf(i, n)
        BY <3>5, <3>7 DEF Left
      <4>2. r \notin SentOf(c, n + 1)
        BY <1>2, <2>1, <2>2, <3>4, <4>1, SendingFacts
      <4> QED
        BY <2>1, <4>1, <4>2 DEF Left
    <3> QED
      BY <3>6, <3>7
  <2> QED
    BY <1>4, <2>1, <2>3
<1>8. ASSUME NEW w \in Workers, Dies(w) PROVE WrittenOK'
  <2>1. /\ workers'[w] = [stage |-> "dead", chunk |-> workers[w].chunk, sent |-> workers[w].sent]
        /\ nextIndex' = nextIndex /\ phase' = phase
        /\ \A v \in Workers : v # w => workers'[v] = workers[v]
    BY <1>8 DEF Dies, Moves, Calm
  <2>2. Seen' = Seen
    BY <1>8, SeenSteps
  <2>3. ASSUME NEW i, NEW r, NEW v \in Workers, Left(workers[v], i, r) PROVE Left(workers'[v], i, r)
    BY <2>1, <2>3 DEF Left
  <2> QED
    BY <1>3, <1>4, <2>1, <2>2, <2>3
<1>9. ASSUME NEW w \in Workers, Notifies(w) PROVE WrittenOK'
  <2>1. /\ nextIndex' = nextIndex /\ phase' = phase /\ workers[w].stage = "notify"
        /\ \A v \in Workers : v # w => workers'[v] = workers[v]
    BY <1>9 DEF Notifies, Moves, Calm
  <2>2. Seen' = Seen
    BY <1>9, SeenSteps
  <2>3. ASSUME NEW i \in 1..nextIndex - 1, NEW r \in Rows(i) PROVE ~Left(workers[w], i, r)
    <3>1. i \in Nat /\ i # 0 /\ i <= Count
      BY <1>2
    <3>2. SentOf(i, Statements(i)) = Rows(i)
      BY <1>2, <3>1, StatementFacts DEF Rows
    <3>3. workers[w].sent = Statements(workers[w].chunk)
      BY <2>1 DEF WorkersOK, FrameOK, Busy
    <3> QED
      BY <2>3, <3>2, <3>3 DEF Left
  <2> QED
    BY <1>3, <1>4, <2>1, <2>2, <2>3
<1>10. CASE Calling
  <2>1. nextIndex' = nextIndex /\ workers' = workers
    BY <1>10 DEF Calling, Alone
  <2>2. phase' \in {"running", "resolved"} =>
          \/ phase = "new"
          \/ phase \in {"running", "resolved"}
    BY <1>10 DEF Calling, Answers, vars
  <2>3. phase' \in {"running", "resolved"} => Seen' = Seen
    BY <1>10, SeenSteps
  <2>4. phase = "new" => nextIndex' - 1 = 0
    BY <2>1 DEF RestOK
  <2> QED
    BY <1>3, <1>4, <2>1, <2>2, <2>3, <2>4
<1> QED
  BY <1>6, <1>7, <1>8, <1>9, <1>10, StepForms DEF Working

\* How far a single worker is.
Reached(f, n) ==
  IF f.stage = "free" THEN End[n - 1]
  ELSE IF setup.op = "update" THEN End[f.chunk - 1] + f.sent
  ELSE IF f.sent = 0 THEN End[f.chunk - 1] ELSE End[f.chunk]

\* Every step keeps the order of the rows of a single worker.
LEMMA OrderStep ==
  ASSUME TypeOK, WorkersOK, RestOK, OrderOK, [Next]_vars
  PROVE  OrderOK'
<1> DEFINE old == workers[1]  new == workers'[1]  n == nextIndex
<1>1. setup' = setup /\ Workers' = Workers /\ End' = End /\ Limit' = Limit
  BY StepForms, Rigid
<1>2. ASSUME Limit = 1,
             new.stage # "free" => new.chunk = nextIndex' - 1,
             phase' # "rejected" \/ ~setup.transactional => Seen' = After(Reached(new, nextIndex'))
      PROVE  OrderOK'
  BY <1>1, <1>2 DEF OrderOK, Progress, Reached, Busy, After, Write, Untouched
<1>3. Limit # 1 => OrderOK'
  BY <1>1 DEF OrderOK
<1>4. SUFFICES ASSUME Limit = 1 PROVE OrderOK'
  BY <1>3
<1>5. /\ old.stage # "free" => old.chunk = n - 1
      /\ phase # "rejected" \/ ~setup.transactional => Seen = After(Reached(old, n))
  BY <1>4 DEF OrderOK, Progress, Reached, Busy
<1>6. /\ Workers = {1} /\ n \in Nat /\ n # 0 /\ n <= Count + 1 /\ Count \in Nat /\ Total \in Nat
      /\ setup \in Setups
  BY <1>4, Facts DEF TypeOK
<1> HIDE DEF old, new
<1>7. CASE Takes(1)
  <2>1. /\ new = [stage |-> "run", chunk |-> n, sent |-> 0] /\ old.stage = "free"
        /\ nextIndex' = n + 1 /\ n <= Count /\ phase' = phase
    BY <1>7 DEF Takes, Moves, Busy, Calm, old, new
  <2>2. Seen' = Seen
    BY <1>6, <1>7, SeenSteps
  <2>3. End[n - 1] \in Nat
    BY <1>6, <2>1, ChunkFields
  <2>4. Reached(new, n + 1) = End[n - 1] /\ Reached(old, n) = End[n - 1]
    BY <2>1, <2>3 DEF Reached
  <2>5. new.chunk = nextIndex' - 1
    BY <1>6, <2>1
  <2> QED
    BY <1>2, <1>4, <1>5, <2>1, <2>2, <2>4, <2>5
<1>8. ASSUME NEW stage, NEW rows, Sends(1, stage, rows) PROVE OrderOK'
  <2> DEFINE c == old.chunk  s == old.sent
  <2>1. /\ new = [stage |-> stage, chunk |-> c, sent |-> s + 1] /\ rows = RowsOf(c, s)
        /\ nextIndex' = n /\ phase' = phase /\ old.stage = "run" /\ stage # "free"
    BY <1>8 DEF Sends, Moves, Calm, old, new
  <2>2. /\ c \in Nat /\ c # 0 /\ c <= Count /\ s \in Nat /\ s < Statements(c)
    BY <1>6, <1>8, SendKeeps, FrameTypes DEF old
  <2>3. /\ End[c - 1] \in Nat /\ End[c] \in Nat /\ End[c - 1] < End[c] /\ End[c] <= Total
        /\ Chunks[c].from = End[c - 1] + 1 /\ Chunks[c].to = End[c]
    BY <1>6, <2>2, ChunkFields
  <2>4. Statements(c) = IF setup.op = "update" THEN End[c] - End[c - 1] ELSE 1
    BY <1>6, <2>2, StatementFacts
  <2> DEFINE p == Reached(old, n)  q == Reached(new, n)
  <2>5. p \in 0..Total /\ q \in 0..Total /\ p <= q /\ rows = p + 1 .. q
    <3>1. CASE setup.op = "update"
      <4>1. p = End[c - 1] + s /\ q = End[c - 1] + (s + 1)
        BY <2>1, <3>1 DEF Reached
      <4>2. rows = {End[c - 1] + 1 + s}
        BY <2>1, <2>3, <3>1 DEF RowsOf
      <4>3. s < End[c] - End[c - 1]
        BY <2>2, <2>4, <3>1
      <4> HIDE DEF p, q
      <4>4. p \in Nat /\ q = p + 1 /\ q <= Total /\ rows = {q}
        BY <1>6, <2>2, <2>3, <4>1, <4>2, <4>3
      <4> QED
        BY <1>6, <4>4
    <3>2. CASE setup.op # "update"
      <4>1. s = 0
        BY <2>2, <2>4, <3>2
      <4>2. p = End[c - 1] /\ q = End[c]
        BY <2>1, <3>2, <4>1 DEF Reached
      <4>3. rows = End[c - 1] + 1 .. End[c]
        BY <2>1, <2>3, <3>2 DEF RowsOf
      <4> HIDE DEF p, q
      <4> QED
        BY <1>6, <2>3, <4>2, <4>3
    <3> QED
      BY <3>1, <3>2
  <2>6. Write(After(p), rows) = After(q)
    BY <2>5, AfterFacts
  <2>7. Seen' = Write(Seen, rows) \/ (phase = "rejected" /\ setup.transactional)
    BY <1>6, <1>8, SeenSteps
  <2>8. new.stage # "free" => new.chunk = nextIndex' - 1
    BY <1>5, <2>1
  <2>9. phase' # "rejected" \/ ~setup.transactional => Seen' = After(q)
    BY <1>5, <2>1, <2>6, <2>7
  <2> QED
    BY <1>2, <1>4, <2>1, <2>8, <2>9
<1>9. CASE Dies(1)
  <2>1. /\ new = [stage |-> "dead", chunk |-> old.chunk, sent |-> old.sent]
        /\ nextIndex' = n /\ phase' = phase /\ old.stage # "free"
    BY <1>9 DEF Dies, Moves, Calm, old, new
  <2>2. Seen' = Seen
    BY <1>6, <1>9, SeenSteps
  <2>3. Reached(new, n) = Reached(old, n)
    BY <2>1 DEF Reached
  <2> QED
    BY <1>2, <1>4, <1>5, <2>1, <2>2, <2>3
<1>10. CASE Notifies(1)
  <2> DEFINE c == old.chunk
  <2>1. new = Free /\ nextIndex' = n /\ phase' = phase /\ old.stage = "notify"
    BY <1>10 DEF Notifies, Moves, Calm, old, new
  <2>2. Seen' = Seen
    BY <1>6, <1>10, SeenSteps
  <2>3. c \in Nat /\ c <= Count
    BY <1>6, FrameTypes DEF old
  <2>4. c # 0 /\ old.sent = Statements(c) /\ c = n - 1
    BY <1>5, <1>6, <2>1 DEF WorkersOK, FrameOK, Busy, old
  <2>5. End[c - 1] \in Nat /\ End[c] \in Nat
    BY <1>6, <2>3, <2>4, ChunkFields
  <2>6. Statements(c) = IF setup.op = "update" THEN End[c] - End[c - 1] ELSE 1
    BY <1>6, <2>3, <2>4, StatementFacts
  <2>7. Reached(old, n) = End[c]
    BY <2>1, <2>4, <2>5, <2>6, End[c - 1] + (End[c] - End[c - 1]) = End[c] DEF Reached
  <2>8. Reached(new, n) = End[c] /\ new.stage = "free"
    BY <2>1, <2>4 DEF Reached, Free
  <2> QED
    BY <1>2, <1>4, <1>5, <2>1, <2>2, <2>7, <2>8
<1>11. CASE Calling
  <2>1. nextIndex' = n /\ new = old
    BY <1>11 DEF Calling, Alone, old, new
  <2>2. Seen' = Seen \/ (phase' = "rejected" /\ setup.transactional)
    BY <1>11, SeenSteps
  <2>3. phase = "rejected" => phase' = "rejected"
    BY <1>11 DEF Calling, Answers, vars
  <2> QED
    BY <1>2, <1>4, <1>5, <2>1, <2>2, <2>3
<1> QED
  BY <1>6, <1>7, <1>8, <1>9, <1>10, <1>11, StepForms DEF Working
\* Every step keeps what cannot fail free of failures.
LEMMA FaultsStep == ASSUME TypeOK, FaultsOK, [Next]_vars PROVE FaultsOK'
<1>1. setup' = setup /\ Workers' = Workers
  BY StepForms, Rigid
<1>2. failures \in Nat /\ setup.failures \in Nat
  BY Facts DEF TypeOK
<1>3. SUFFICES ASSUME setup.failures = 0
               PROVE  phase' # "rejected" /\ \A w \in Workers : workers'[w].stage # "dead"
  BY <1>1 DEF FaultsOK
<1>4. phase # "rejected" /\ (\A w \in Workers : workers[w].stage # "dead") /\ ~(failures < setup.failures)
  BY <1>2, <1>3 DEF FaultsOK
<1>5. ASSUME NEW w \in Workers, NEW f, Moves(w, f), f.stage # "dead"
      PROVE  \A v \in Workers : workers'[v].stage # "dead"
  BY <1>4, <1>5 DEF Moves
<1>6. ASSUME NEW w \in Workers, Takes(w) PROVE \A v \in Workers : workers'[v].stage # "dead"
  BY <1>4, <1>6 DEF Takes, Moves
<1>7. ASSUME NEW w \in Workers, NEW stage, NEW rows, Sends(w, stage, rows)
      PROVE  \A v \in Workers : workers'[v].stage # "dead"
  <2>1. workers'[w].stage # "dead" /\ \A v \in Workers : v # w => workers'[v] = workers[v]
    BY <1>7 DEF Sends, Moves
  <2> QED
    BY <1>4, <2>1
<1>8. ASSUME NEW w \in Workers, Notifies(w) PROVE \A v \in Workers : workers'[v].stage # "dead"
  BY <1>4, <1>8 DEF Notifies, Moves, Free
<1>9. ASSUME NEW w \in Workers, Dies(w) PROVE FALSE
  BY <1>4, <1>9 DEF Dies
<1>10. CASE Working
  <2>1. phase' = phase
    BY <1>10 DEF Working, Takes, Sends, Dies, Notifies, Calm
  <2> QED
    BY <1>4, <1>6, <1>7, <1>8, <1>9, <1>10, <2>1 DEF Working
<1>11. CASE Calling
  BY <1>4, <1>11 DEF Calling, Alone, Answers, vars
<1> QED
  BY <1>10, <1>11, StepForms

\* Every step keeps transactions apart, where several workers in one do not fail.
LEMMA IsolatedStep ==
  ASSUME OneByOne, TypeOK, RestOK, FaultsOK, IsolatedOK, [Next]_vars
  PROVE  IsolatedOK'
<1> DEFINE Over(w) == workers[w].stage = "dead" \/ Returned(w)
<1>1. setup' = setup /\ Workers' = Workers /\ Chunks' = Chunks
  BY StepForms, Rigid
<1>2. /\ setup.transactional /\ phase # "resolved" => table = Untouched
      /\ setup.transactional /\ phase = "rejected" => \A w \in Workers : Over(w)
      /\ open <=> phase = "running" /\ setup.transactional
  BY DEF IsolatedOK, RestOK
<1>3. SUFFICES ASSUME setup.transactional PROVE IsolatedOK'
  BY <1>1 DEF IsolatedOK
<1>4. CASE Working
  <2>1. PICK w \in Workers : Takes(w) \/ (\E stage, rows : Sends(w, stage, rows)) \/ Dies(w) \/ Notifies(w)
    BY <1>4 DEF Working
  <2>2. phase \in {"running", "rejected"} /\ phase' = phase /\ open' = open
    BY <1>4, WorkingPhase
  <2>3. ~Over(w)
    <3>1. Len(Chunks) = Count /\ Count \in Nat /\ nextIndex \in Nat
      BY Facts
    <3>2. CASE Takes(w)
      BY <3>1, <3>2 DEF Takes, Busy, Returned
    <3>3. CASE ~Takes(w)
      BY <2>1, <3>3 DEF Sends, Dies, Notifies, Returned
    <3> QED
      BY <3>2, <3>3
  <2>4. phase = "running" /\ open
    BY <1>2, <1>3, <2>2, <2>3
  <2>5. table' = table
    BY <2>1, <2>4 DEF Takes, Sends, Dies, Notifies
  <2> QED
    BY <1>1, <1>2, <1>3, <2>2, <2>4, <2>5 DEF IsolatedOK, Untouched
<1>5. CASE Calling
  <2>1. nextIndex' = nextIndex /\ workers' = workers
    BY <1>5 DEF Calling, Alone
  <2>2. phase' # "resolved" => table' = Untouched
    BY <1>2, <1>3, <1>5 DEF Calling, Answers, vars
  <2>3. phase' = "rejected" => \A w \in Workers : Over(w)
    <3>1. CASE phase = "rejected"
      BY <1>2, <1>3, <3>1
    <3>2. CASE phase # "rejected" /\ phase' = "rejected"
      <4>1. (\E w \in Workers : workers[w].stage = "dead") \/ \A w \in Workers : Returned(w)
        BY <1>5, <3>2 DEF Calling, Answers, vars
      <4>2. CASE \E w \in Workers : workers[w].stage = "dead"
        <5>1. setup.failures # 0
          BY <4>2 DEF FaultsOK
        <5>2. ~(setup.concurrency > 1)
          BY <1>3, <5>1 DEF OneByOne, TypeOK
        <5>3. Workers = {1}
          BY <5>2, Facts
        <5> QED
          BY <4>2, <5>3
      <4> QED
        BY <4>1, <4>2
    <3> QED
      BY <3>1, <3>2
  <2> QED
    BY <1>1, <2>1, <2>2, <2>3 DEF IsolatedOK, Returned, Untouched
<1> QED
  BY <1>4, <1>5, StepForms

\* The invariant holds at the start.
LEMMA InvInit == ASSUME Init PROVE IInv
<1>1. setup \in Setups /\ phase = "new" /\ nextIndex = 1 /\ open = FALSE /\ failures = 0
  BY DEF Init
<1>2. /\ Total \in Nat \ {0} /\ setup.rows \in Seq(Keys) /\ Count \in Nat \ {0} /\ Len(Chunks) = Count
      /\ End[0] = 0
  BY <1>1, SetupFacts, ChunkFacts
<1>3. workers = [w \in Workers |-> Free] /\ outcomes = [i \in Indices |-> 0]
  BY DEF Init, Indices
<1>4. table = Untouched /\ tentative = Untouched /\ Untouched = [k \in Keys |-> 0]
  BY DEF Init, Untouched
<1>5. TypeOK
  <2>1. Tables = [Keys -> 0..Total]
    BY DEF Tables, Total
  <2>2. table \in Tables /\ tentative \in Tables
    BY <1>2, <1>4, <2>1
  <2>3. workers \in [Workers -> [stage : {"free", "run", "notify", "dead"}, chunk : {0} \cup Indices, sent : Nat]]
    BY <1>3 DEF Free
  <2>4. outcomes \in [Indices -> {0} \cup Indices] /\ nextIndex \in 1..Len(Chunks) + 1
    BY <1>1, <1>2, <1>3
  <2> QED
    BY <1>1, <2>2, <2>3, <2>4 DEF TypeOK
<1>6. \A w \in Workers : workers[w].stage = "free"
  BY <1>3 DEF Free
<1>7. WorkersOK /\ RestOK
  BY <1>1, <1>6 DEF WorkersOK, FrameOK, RestOK, Busy
<1>8. OutcomesOK /\ WrittenOK
  BY <1>1 DEF OutcomesOK, WrittenOK
<1>9. Keyed(table) /\ Keyed(tentative)
  BY <1>4 DEF Keyed
<1>10. OrderOK
  <2>1. 1 \in Workers /\ ~Busy(workers[1])
    BY <1>5, <1>6, Facts DEF Busy
  <2>2. Progress = 0
    BY <1>1, <1>2, <2>1 DEF Progress
  <2>3. Seen = Untouched /\ After(0) = Untouched
    BY <1>1, <1>4, <1>5, AfterFacts DEF Seen
  <2> QED
    BY <2>1, <2>2, <2>3 DEF OrderOK
<1>11. FaultsOK /\ IsolatedOK
  BY <1>1, <1>4, <1>6 DEF FaultsOK, IsolatedOK
<1> QED
  BY <1>5, <1>7, <1>8, <1>9, <1>10, <1>11 DEF IInv

\* The invariant says what the answer promises.
LEMMA InvAnswers == ASSUME IInv PROVE AnswersTruly
<1>1. /\ Total \in Nat /\ Count \in Nat /\ Count # 0 /\ Len(Chunks) = Count /\ nextIndex \in Nat
      /\ nextIndex <= Count + 1 /\ End[Count] = Total /\ setup \in Setups /\ 1 \in Workers
      /\ nextIndex # 0 /\ (Limit = 1 => Workers = {1}) /\ setup.transactional \in BOOLEAN
      /\ \A i \in 0..Count : End[i] \in 0..Total
  BY Facts, ChunkFacts DEF IInv, TypeOK
<1>2. ASSUME phase = "resolved"
      PROVE  /\ ProcessedRows = Total
             /\ \A k \in Keys : (table[k] = 0) = (k \notin Range(setup.rows))
             /\ Limit = 1 => table = After(Total)
  <2>1. nextIndex = Count + 1 /\ \A w \in Workers : ~Busy(workers[w])
    BY <1>1, <1>2 DEF IInv, RestOK, Returned, Busy
  <2>2. Seen = table
    BY <1>2 DEF Seen
  <2>3. ProcessedRows = Total
    <3>1. \A i \in 1..Count : outcomes[i] = i
      BY <1>1, <2>1 DEF IInv, OutcomesOK
    <3>2. outcomes \in [1..Count -> {0} \cup 1..Count]
      BY <1>1 DEF IInv, TypeOK, Indices
    <3>3. outcomes = [i \in 1..Count |-> i]
      BY <3>1, <3>2
    <3> QED
      BY <1>1, <3>3, EveryRowCounts
  <2>4. ASSUME NEW k \in Keys PROVE (table[k] = 0) = (k \notin Range(setup.rows))
    <3>0. setup.rows \in Seq(Keys) /\ DOMAIN setup.rows = 1..Total
      BY <1>1, SetupFacts DEF Total
    <3>1. ASSUME table[k] # 0 PROVE k \in Range(setup.rows)
      <4>1. table[k] \in 1..Total /\ setup.rows[table[k]] = k
        BY <1>1, <3>1, Facts DEF IInv, TypeOK, Keyed
      <4> QED
        BY <3>0, <4>1 DEF Range
    <3>2. ASSUME k \in Range(setup.rows) PROVE table[k] # 0
      <4>1. PICK r \in 1..Total : setup.rows[r] = k
        BY <3>0, <3>2 DEF Range
      <4>2. PICK i \in 1..Count : End[i - 1] < r /\ r <= End[i]
        BY <1>1, RowsAreCovered
      <4>3. End[i - 1] \in 0..Total /\ End[i] \in 0..Total
        BY <1>1
      <4>4. r \in End[i - 1] + 1 .. End[i] /\ i \in 1..nextIndex - 1
        BY <1>1, <2>1, <4>2, <4>3
      <4>5. Seen[setup.rows[r]] # 0
        BY <1>2, <2>1, <4>4 DEF IInv, WrittenOK
      <4> QED
        BY <2>2, <4>1, <4>5
    <3> QED
      BY <3>1, <3>2
  <2>5. ASSUME Limit = 1 PROVE table = After(Total)
    <3>1. Progress = Total
      BY <1>1, <2>1 DEF Progress
    <3> QED
      BY <1>2, <2>2, <2>5, <3>1 DEF IInv, OrderOK
  <2> QED
    BY <2>3, <2>4, <2>5
<1>3. ASSUME phase = "rejected"
      PROVE  /\ setup.transactional => table = Untouched
             /\ Limit = 1 => \E n \in 0..Total : table = After(n)
  <2>1. setup.transactional => table = Untouched
    BY <1>3 DEF IInv, IsolatedOK
  <2>2. ASSUME Limit = 1, ~setup.transactional PROVE \E n \in 0..Total : table = After(n)
    <3>1. table = After(Progress)
      BY <1>3, <2>2 DEF IInv, OrderOK, Seen
    <3>2. Progress \in 0..Total
      <4> DEFINE f == workers[1]
      <4>1. CASE ~Busy(f)
        BY <1>1, <4>1 DEF Progress
      <4>2. CASE Busy(f)
        <5>1. f.chunk \in Nat /\ f.chunk <= Count /\ f.sent \in Nat
          BY <1>1, FrameTypes DEF IInv
        <5>2. f.chunk # 0 /\ f.sent <= Statements(f.chunk)
          BY <1>1, <4>2 DEF IInv, WorkersOK, FrameOK
        <5>3. /\ End[f.chunk - 1] \in Nat /\ End[f.chunk] \in Nat /\ End[f.chunk - 1] < End[f.chunk]
              /\ End[f.chunk] <= Total
          BY <1>1, <5>1, <5>2, ChunkFields
        <5>4. Statements(f.chunk) = IF setup.op = "update" THEN End[f.chunk] - End[f.chunk - 1] ELSE 1
          BY <1>1, <5>1, <5>2, StatementFacts
        <5> HIDE DEF f
        <5>5. Progress = IF setup.op = "update" THEN End[f.chunk - 1] + f.sent
                         ELSE IF f.sent = 0 THEN End[f.chunk - 1] ELSE End[f.chunk]
          BY <4>2 DEF Progress, f
        <5>6. CASE setup.op = "update"
          <6>1. f.sent <= End[f.chunk] - End[f.chunk - 1] /\ Progress = End[f.chunk - 1] + f.sent
            BY <5>2, <5>4, <5>5, <5>6
          <6>2. \A a, b, n \in Nat : n <= b - a /\ b <= Total => a + n \in 0..Total
            BY <1>1
          <6> QED
            BY <5>1, <5>3, <6>1, <6>2
        <5>7. CASE setup.op # "update"
          <6>1. Progress = End[f.chunk - 1] \/ Progress = End[f.chunk]
            BY <5>5, <5>7
          <6> QED
            BY <1>1, <5>3, <6>1
        <5> QED
          BY <5>6, <5>7
      <4> QED
        BY <4>1, <4>2
    <3> QED
      BY <3>1, <3>2
  <2>3. ASSUME setup.transactional PROVE \E n \in 0..Total : table = After(n)
    <3>1. After(0) = Untouched
      BY AfterFacts DEF IInv
    <3> QED
      BY <1>1, <2>1, <2>3, <3>1
  <2> QED
    BY <2>1, <2>2, <2>3
<1> QED
  BY <1>2, <1>3 DEF AnswersTruly, ResolvedIsWhole, RejectedIsPrefix, IInv, Total

\* The answer of a bulk operation is true (BulkBaseExecutor.execute, maybeTransaction): who
\* resolves has written and counted every row, who rejects in a transaction has written none,
\* whatever the rows and their keys, the size of chunks, the number of workers and the failures,
\* as long as several workers in one transaction do not fail.
THEOREM AnswersAreTrue == ASSUME OneByOne PROVE Spec => []AnswersTruly
<1>1. Init => IInv
  BY InvInit
<1>2. IInv /\ [Next]_vars => IInv'
  BY TypeStep, WorkersStep, RestStep, OutcomesStep, KeyedStep, WrittenStep, OrderStep, FaultsStep,
     IsolatedStep DEF IInv
<1>3. IInv => AnswersTruly
  BY InvAnswers
<1> QED
  BY <1>1, <1>2, <1>3, PTL DEF Spec
=============================================================================
