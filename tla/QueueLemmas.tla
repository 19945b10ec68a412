---------------------------- MODULE QueueLemmas ----------------------------
(***************************************************************************)
(* Facts about queues without repetitions, of which the models keep        *)
(* several (the waiters of a pool, the tracked entities of a unit of work) *)
(* and about counters of finite sets: what the proofs cite by name.        *)
(***************************************************************************)
EXTENDS Integers, Sequences, FiniteSets, SequenceTheorems, FiniteSetTheorems, TLAPS

\* What a queue lists; does it list everything once?
Elems(s) == {s[i] : i \in 1..Len(s)}
Distinct(s) == \A i, j \in 1..Len(s) : s[i] = s[j] => i = j

-----------------------------------------------------------------------------
\* Removing an entry from a queue without repetitions keeps the others, each once.
LEMMA SpliceProperties ==
    ASSUME NEW S, NEW s \in Seq(S), NEW i \in 1..Len(s)
    PROVE  LET t == SubSeq(s, 1, i - 1) \o SubSeq(s, i + 1, Len(s))
           IN /\ t \in Seq(S)
              /\ Len(t) = Len(s) - 1
              /\ \A j \in 1..Len(t) : t[j] = IF j < i THEN s[j] ELSE s[j + 1]
<1> DEFINE a == SubSeq(s, 1, i - 1)
           b == SubSeq(s, i + 1, Len(s))
<1>1. Len(s) \in Nat /\ i \in Nat /\ i >= 1 /\ i <= Len(s)
  OBVIOUS
<1>2. a \in Seq(S) /\ Len(a) = i - 1 /\ \A j \in 1..(i - 1) : a[j] = s[j]
  BY <1>1
<1>3. b \in Seq(S) /\ Len(b) = Len(s) - i /\ \A j \in 1..(Len(s) - i) : b[j] = s[i + j]
  BY <1>1
<1> HIDE DEF a, b
<1>4. /\ a \o b \in Seq(S) /\ Len(a \o b) = Len(a) + Len(b)
      /\ \A j \in 1..(Len(a) + Len(b)) : (a \o b)[j] = IF j <= Len(a) THEN a[j] ELSE b[j - Len(a)]
  BY <1>2, <1>3, ConcatProperties
<1>5. Len(a) + Len(b) = Len(s) - 1
  BY <1>1, <1>2, <1>3
<1>6. ASSUME NEW j \in 1..(Len(s) - 1) PROVE (a \o b)[j] = IF j < i THEN s[j] ELSE s[j + 1]
  <2>1. CASE j < i
    <3>1. j \in 1..(i - 1) /\ j <= Len(a)
      BY <2>1, <1>1, <1>2
    <3> QED
      BY <3>1, <2>1, <1>2, <1>4, <1>5
  <2>2. CASE ~(j < i)
    <3>1. j - Len(a) \in 1..(Len(s) - i) /\ i + (j - Len(a)) = j + 1 /\ ~(j <= Len(a))
      BY <2>2, <1>1, <1>2
    <3>2. (a \o b)[j] = b[j - Len(a)]
      BY <3>1, <1>4, <1>5
    <3>3. b[j - Len(a)] = s[j + 1]
      BY <3>1, <1>3
    <3> QED
      BY <2>2, <3>2, <3>3
  <2> QED
    BY <2>1, <2>2
<1> QED
  BY <1>4, <1>5, <1>6 DEF a, b

\* An entry that joins a queue is in it, beside those who were.
LEMMA AppendQueue ==
    ASSUME NEW S, NEW s \in Seq(S), NEW x \in S, Distinct(s), x \notin Elems(s)
    PROVE  Distinct(Append(s, x)) /\ Elems(Append(s, x)) = Elems(s) \cup {x}
<1>1. /\ Len(Append(s, x)) = Len(s) + 1 /\ Len(s) \in Nat
      /\ \A i \in 1..Len(s) : Append(s, x)[i] = s[i]
      /\ Append(s, x)[Len(s) + 1] = x
  OBVIOUS
<1> QED
  BY <1>1 DEF Distinct, Elems

\* Taking the head of a queue without repetitions takes this one entry out.
LEMMA TailQueue ==
    ASSUME NEW S, NEW s \in Seq(S), s # <<>>, Distinct(s)
    PROVE  Distinct(Tail(s)) /\ Elems(Tail(s)) = Elems(s) \ {Head(s)} /\ Head(s) \in Elems(s)
<1>1. /\ Len(s) \in Nat /\ Len(s) > 0 /\ Head(s) = s[1] /\ Len(Tail(s)) = Len(s) - 1
      /\ \A i \in 1..(Len(s) - 1) : Tail(s)[i] = s[i + 1]
  OBVIOUS
<1>2. \A i \in 1..Len(s) : s[i] # Head(s) => (i - 1) \in 1..Len(Tail(s)) /\ Tail(s)[i - 1] = s[i]
  BY <1>1
<1>3. Distinct(Tail(s))
  BY <1>1 DEF Distinct
<1>4. ASSUME NEW x PROVE x \in Elems(Tail(s)) <=> x \in Elems(s) /\ x # Head(s)
  <2>1. ASSUME x \in Elems(Tail(s)) PROVE x \in Elems(s) /\ x # Head(s)
    <3>1. PICK i \in 1..(Len(s) - 1) : x = s[i + 1]
      BY <1>1, <2>1 DEF Elems
    <3>2. i + 1 \in 1..Len(s) /\ 1 \in 1..Len(s) /\ i + 1 # 1
      BY <1>1
    <3> QED
      BY <3>1, <3>2, <1>1 DEF Elems, Distinct
  <2> QED
    BY <1>2, <2>1 DEF Elems
<1>5. Elems(Tail(s)) = Elems(s) \ {Head(s)}
  BY <1>4
<1>6. Head(s) \in Elems(s)
  BY <1>1 DEF Elems
<1> QED
  BY <1>3, <1>5, <1>6

\* Removing the entry at a position takes exactly this one out of the queue.
LEMMA SpliceQueue ==
    ASSUME NEW S, NEW s \in Seq(S), NEW i \in 1..Len(s), Distinct(s)
    PROVE  LET t == SubSeq(s, 1, i - 1) \o SubSeq(s, i + 1, Len(s))
           IN Distinct(t) /\ Elems(t) = Elems(s) \ {s[i]}
<1> DEFINE t == SubSeq(s, 1, i - 1) \o SubSeq(s, i + 1, Len(s))
<1>0. /\ Len(t) = Len(s) - 1
      /\ \A j \in 1..Len(t) : t[j] = IF j < i THEN s[j] ELSE s[j + 1]
  BY SpliceProperties
<1> HIDE DEF t
<1>1. Len(s) \in Nat /\ i \in Nat /\ Len(t) = Len(s) - 1
  BY <1>0
<1>2. \A j \in 1..Len(s) : j # i => \E k \in 1..Len(t) : t[k] = s[j]
  <2>1. ASSUME NEW j \in 1..Len(s), j < i PROVE \E k \in 1..Len(t) : t[k] = s[j]
    <3>1. j \in 1..Len(t) /\ t[j] = s[j]
      BY <2>1, <1>1, <1>0
    <3> QED
      BY <3>1
  <2>2. ASSUME NEW j \in 1..Len(s), j > i PROVE \E k \in 1..Len(t) : t[k] = s[j]
    <3>1. j - 1 \in 1..Len(t) /\ t[j - 1] = s[j]
      BY <2>2, <1>1, <1>0
    <3> QED
      BY <3>1
  <2> QED
    BY <2>1, <2>2, <1>1
<1>3. Distinct(t)
  BY <1>0, <1>1 DEF Distinct
<1>4. ASSUME NEW j \in 1..Len(t) PROVE t[j] \in Elems(s) /\ t[j] # s[i]
  BY <1>0, <1>1 DEF Distinct, Elems
<1>5. Elems(t) \subseteq Elems(s) \ {s[i]}
  BY <1>4 DEF Elems
<1>6. Elems(s) \ {s[i]} \subseteq Elems(t)
  BY <1>2 DEF Elems
<1> QED
  BY <1>3, <1>5, <1>6 DEF t

\* A counter incremented with a new member stays the cardinality of the set.
LEMMA OneMore ==
    ASSUME NEW S, IsFiniteSet(S), NEW x, x \notin S
    PROVE  Cardinality(S \cup {x}) = Cardinality(S) + 1 /\ Cardinality(S) \in Nat
  BY FS_AddElement, FS_CardinalityType

\* A counter decremented with a member that leaves stays the cardinality of the set.
LEMMA OneLess ==
    ASSUME NEW S, IsFiniteSet(S), NEW x \in S
    PROVE  /\ Cardinality(S \ {x}) = Cardinality(S) - 1
           /\ Cardinality(S) \in Nat /\ Cardinality(S) > 0
<1>1. Cardinality(S \ {x}) = Cardinality(S) - 1 /\ IsFiniteSet(S \ {x})
  BY FS_RemoveElement
<1>2. Cardinality(S) \in Nat /\ Cardinality(S \ {x}) \in Nat
  BY <1>1, FS_CardinalityType
<1> QED
  BY <1>1, <1>2
=============================================================================
