----------------------------- MODULE TreeProofs -----------------------------
(***************************************************************************)
(* Proofs about TreeManager, for all sets of nodes that the offsets of the *)
(* code have room for.                                                     *)
(***************************************************************************)
EXTENDS TreeManager, FiniteSetTheorems, FunctionTheorems, WellFoundedInduction, SequenceTheorems, TLAPS

-----------------------------------------------------------------------------
(* Nested sets without counting: what IsNestedSet() says, with the numbers   *)
(* up to M instead of twice the nodes, and the depth as that of the parent   *)
(* and one.                                                                  *)

Typed(t) ==
  /\ Root \notin DOMAIN t
  /\ \A n \in DOMAIN t : t[n].lft \in Int /\ t[n].rght \in Int /\ t[n].depth \in Int
                         /\ t[n].parent \in DOMAIN t \cup {Root}

Filled(t, M) ==
  /\ M \in Nat
  /\ \A n \in DOMAIN t : 1 <= t[n].lft /\ t[n].lft < t[n].rght /\ t[n].rght <= M
  /\ \A y \in 1..M : \E n \in DOMAIN t : t[n].lft = y \/ t[n].rght = y

Apart(a, b) == \/ a.lft < b.lft /\ b.rght < a.rght
               \/ b.lft < a.lft /\ a.rght < b.rght
               \/ a.rght < b.lft
               \/ b.rght < a.lft

Laminar(t) == \A a, b \in DOMAIN t : a # b => Apart(t[a], t[b])

Above(t, a, n) == t[a].lft < t[n].lft /\ t[n].rght < t[a].rght

ParentOK(t, n) ==
  /\ t[n].parent = Root => t[n].depth = 0 /\ \A a \in DOMAIN t : ~Above(t, a, n)
  /\ t[n].parent # Root =>
       /\ Above(t, t[n].parent, n) /\ t[n].depth = t[t[n].parent].depth + 1
       /\ \A a \in DOMAIN t : Above(t, a, n) => a = t[n].parent \/ Above(t, a, t[n].parent)

Shape(t, M) == Typed(t) /\ Filled(t, M) /\ Laminar(t) /\ \A n \in DOMAIN t : ParentOK(t, n)


-----------------------------------------------------------------------------
(* Taking out a subtree, and putting one in.                                 *)

\* Where two nodes of a nested set have their numbers.
LEMMA ShapeFacts ==
  ASSUME NEW t, NEW M, Shape(t, M)
  PROVE  /\ M \in Nat
         /\ \A n \in DOMAIN t :
              /\ t[n].lft \in Int /\ t[n].rght \in Int /\ t[n].depth \in Int
              /\ 1 <= t[n].lft /\ t[n].lft < t[n].rght /\ t[n].rght <= M
         /\ \A a, b \in DOMAIN t : a # b => Apart(t[a], t[b])
BY DEF Shape, Typed, Filled, Laminar

Inside(t, n) == {x \in DOMAIN t : t[n].lft <= t[x].lft /\ t[x].rght <= t[n].rght}

\* What is not below a node is around it or beside it.
LEMMA OutsideFacts ==
  ASSUME NEW t, NEW M, Shape(t, M), NEW n \in DOMAIN t, NEW x \in DOMAIN t \ Inside(t, n)
  PROVE  \/ Above(t, x, n)
         \/ t[x].rght < t[n].lft
         \/ t[n].rght < t[x].lft
<1>1. x # n /\ x \in DOMAIN t
  BY ShapeFacts DEF Inside
<1> QED
  BY <1>1, ShapeFacts DEF Inside, Apart, Above

\* The gap that a subtree leaves is closed.
Closed(y, n) == IF y > n.rght THEN y - SubtreeWidth(n) ELSE y

\* A subtree goes, and the gap is closed.
Pruned(t, n, u) ==
  /\ DOMAIN u = DOMAIN t \ Inside(t, n)
  /\ \A x \in DOMAIN u : /\ u[x].lft = Closed(t[x].lft, t[n]) /\ u[x].rght = Closed(t[x].rght, t[n])
                          /\ u[x].parent = t[x].parent /\ u[x].depth = t[x].depth

\* What is left is a nested set.
LEMMA Prune ==
  ASSUME NEW t, NEW M, Shape(t, M), NEW n \in DOMAIN t, NEW u, Pruned(t, n, u)
  PROVE  Shape(u, M - SubtreeWidth(t[n])) /\ SubtreeWidth(t[n]) \in Nat
<1> USE DEF Pruned
<1> DEFINE l == t[n].lft
           r == t[n].rght
           w == r - l + 1
<1>1. SubtreeWidth(t[n]) = w /\ l \in Int /\ r \in Int /\ 1 <= l /\ l < r /\ r <= M /\ M \in Nat
  BY ShapeFacts DEF SubtreeWidth
<1>2. \A x \in DOMAIN u : /\ t[x].lft \in Int /\ t[x].rght \in Int /\ 1 <= t[x].lft /\ t[x].lft < t[x].rght /\ t[x].rght <= M
                          /\ (t[x].lft < l \/ r < t[x].lft) /\ (t[x].rght < l \/ r < t[x].rght)
                          /\ x \in DOMAIN t
  BY ShapeFacts, OutsideFacts, <1>1 DEF Above
<1>3. \A x \in DOMAIN u : /\ u[x].lft = (IF t[x].lft > r THEN t[x].lft - w ELSE t[x].lft)
                          /\ u[x].rght = (IF t[x].rght > r THEN t[x].rght - w ELSE t[x].rght)
  BY <1>1 DEF Closed
<1> HIDE DEF l, r, w
<1>w. w = r - l + 1
  BY DEF w
<1>4. \A x \in DOMAIN u : t[x].parent # Root => t[x].parent \in DOMAIN u
  <2> SUFFICES ASSUME NEW x \in DOMAIN u, t[x].parent # Root
               PROVE  t[x].parent \in DOMAIN t /\ t[x].parent \notin Inside(t, n)
    OBVIOUS
  <2>1. t[x].parent \in DOMAIN t /\ Above(t, t[x].parent, x) /\ x \in DOMAIN t /\ x \notin Inside(t, n)
    BY <1>2 DEF Shape, Typed, ParentOK
  <2> QED
    BY <2>1, ShapeFacts DEF Inside, Above
<1>5. \A a, b \in DOMAIN u : Above(u, a, b) <=> Above(t, a, b)
  BY <1>1, <1>2, <1>3, <1>w DEF Above
<1>6. Typed(u)
  BY <1>1, <1>2, <1>3, <1>4, <1>w DEF Shape, Typed
<1>7. Filled(u, M - w)
  <2>1. \A x \in DOMAIN u : 1 <= u[x].lft /\ u[x].lft < u[x].rght /\ u[x].rght <= M - w
    BY <1>1, <1>2, <1>3, <1>w
  <2>2. ASSUME NEW y \in 1..M - w PROVE \E x \in DOMAIN u : u[x].lft = y \/ u[x].rght = y
    <3> DEFINE z == IF y < l THEN y ELSE y + w
    <3>1. z \in 1..M /\ (z < l \/ r < z)
      BY <1>1, <1>w
    <3>2. PICK x \in DOMAIN t : t[x].lft = z \/ t[x].rght = z
      BY <3>1 DEF Shape, Filled
    <3>3. x \in DOMAIN u
      BY <3>1, <3>2, <1>1, ShapeFacts DEF Inside, l, r
    <3> QED
      BY <3>2, <3>3, <1>1, <1>2, <1>3, <1>w
  <2>3. M - w \in Nat
    BY <1>1, <1>w
  <2> QED
    BY <2>1, <2>2, <2>3 DEF Filled
<1>8. Laminar(u)
  <2> SUFFICES ASSUME NEW a \in DOMAIN u, NEW b \in DOMAIN u, a # b PROVE Apart(u[a], u[b])
    BY DEF Laminar
  <2>1. Apart(t[a], t[b])
    BY <1>2, ShapeFacts
  <2> QED
    BY <2>1, <1>1, <1>2, <1>3, <1>w DEF Apart
<1>9. \A x \in DOMAIN u : ParentOK(u, x)
  <2> SUFFICES ASSUME NEW x \in DOMAIN u PROVE ParentOK(u, x)
    OBVIOUS
  <2>1. ParentOK(t, x) /\ \A a \in DOMAIN u : a \in DOMAIN t
    BY <1>2 DEF Shape
  <2> QED
    BY <2>1, <1>4, <1>5 DEF ParentOK
<1> QED
  BY <1>1, <1>6, <1>7, <1>8, <1>9, <1>w DEF Shape

\* A subtree is a nested set of its own.
LEMMA Subtree ==
  ASSUME NEW t, NEW M, Shape(t, M), NEW n \in DOMAIN t,
         NEW b, DOMAIN b = Inside(t, n),
         \A x \in DOMAIN b : /\ b[x].lft = t[x].lft - t[n].lft + 1 /\ b[x].rght = t[x].rght - t[n].lft + 1
                             /\ b[x].parent = IF x = n THEN Root ELSE t[x].parent
                             /\ b[x].depth = t[x].depth - t[n].depth
  PROVE  Shape(b, SubtreeWidth(t[n]))
<1> DEFINE l == t[n].lft
           r == t[n].rght
<1>1. SubtreeWidth(t[n]) = r - l + 1 /\ l \in Int /\ r \in Int /\ 1 <= l /\ l < r /\ r <= M /\ M \in Nat
  BY ShapeFacts DEF SubtreeWidth
<1>2. \A x \in DOMAIN b : /\ t[x].lft \in Int /\ t[x].rght \in Int /\ t[x].depth \in Int
                          /\ l <= t[x].lft /\ t[x].lft < t[x].rght /\ t[x].rght <= r
                          /\ x \in DOMAIN t
  BY ShapeFacts, <1>1 DEF Inside
<1>3. \A x \in DOMAIN b : b[x].lft = t[x].lft - l + 1 /\ b[x].rght = t[x].rght - l + 1
  OBVIOUS
<1>n. n \in DOMAIN b /\ t[n].depth \in Int
  BY <1>1, ShapeFacts DEF Inside
<1>o. \A x \in DOMAIN b : x # n => Above(t, n, x)
  BY <1>2, <1>1, ShapeFacts DEF Apart, Above
<1> HIDE DEF l, r
<1>4. \A x \in DOMAIN b : x # n => t[x].parent # Root /\ t[x].parent \in DOMAIN b
  <2> SUFFICES ASSUME NEW x \in DOMAIN b, x # n
               PROVE  t[x].parent # Root /\ t[x].parent \in Inside(t, n)
    OBVIOUS
  <2>1. Above(t, n, x) /\ x \in DOMAIN t /\ ParentOK(t, x) /\ t[x].parent \in DOMAIN t \cup {Root}
    BY <1>2, <1>o DEF Shape, Typed
  <2>2. t[x].parent # Root /\ t[x].parent \in DOMAIN t /\ (n = t[x].parent \/ Above(t, n, t[x].parent))
    BY <2>1 DEF ParentOK
  <2> QED
    BY <2>2, <1>n, ShapeFacts DEF Inside, Above
<1>5. \A a, c \in DOMAIN b : Above(b, a, c) <=> Above(t, a, c)
  BY <1>1, <1>2, <1>3 DEF Above
<1>6. Typed(b)
  BY <1>1, <1>2, <1>3, <1>4, <1>n DEF Shape, Typed
<1>7. Filled(b, r - l + 1)
  <2>1. \A x \in DOMAIN b : 1 <= b[x].lft /\ b[x].lft < b[x].rght /\ b[x].rght <= r - l + 1
    BY <1>1, <1>2, <1>3
  <2>2. ASSUME NEW y \in 1..r - l + 1 PROVE \E x \in DOMAIN b : b[x].lft = y \/ b[x].rght = y
    <3>1. y + l - 1 \in 1..M /\ l <= y + l - 1 /\ y + l - 1 <= r
      BY <1>1
    <3>2. PICK x \in DOMAIN t : t[x].lft = y + l - 1 \/ t[x].rght = y + l - 1
      BY <3>1 DEF Shape, Filled
    <3>3. x \in DOMAIN b
      <4>1. x = n \/ Apart(t[x], t[n])
        BY ShapeFacts
      <4>2. ~Above(t, x, n) /\ ~(t[x].rght < l) /\ ~(r < t[x].lft)
        BY <3>1, <3>2, <1>1, ShapeFacts DEF Above, l, r
      <4> QED
        BY <4>2, OutsideFacts DEF l, r
    <3> QED
      BY <3>2, <3>3, <1>1, <1>2, <1>3
  <2>3. r - l + 1 \in Nat
    BY <1>1
  <2> QED
    BY <2>1, <2>2, <2>3 DEF Filled
<1>8. Laminar(b)
  <2> SUFFICES ASSUME NEW a \in DOMAIN b, NEW c \in DOMAIN b, a # c PROVE Apart(b[a], b[c])
    BY DEF Laminar
  <2>1. Apart(t[a], t[c])
    BY <1>2, ShapeFacts
  <2> QED
    BY <2>1, <1>1, <1>2, <1>3 DEF Apart
<1>9. ASSUME NEW x \in DOMAIN b PROVE ParentOK(b, x)
  <2>1. ParentOK(t, x) /\ (\A a \in DOMAIN b : a \in DOMAIN t) /\ b[x].depth = t[x].depth - t[n].depth /\ Root \notin DOMAIN t
    BY <1>2 DEF Shape, Typed
  <2>2. CASE x = n
    <3>1. \A a \in DOMAIN b : ~Above(t, a, n)
      BY <1>1, <1>2 DEF Above, l, r
    <3> QED
      BY <2>2, <1>5, <3>1, <2>1, <1>n DEF ParentOK
  <2>3. CASE x # n
    <3>1. t[x].parent \in DOMAIN b /\ t[x].parent # Root /\ b[x].parent = t[x].parent
      BY <2>3, <1>4
    <3>2. b[t[x].parent].depth = t[t[x].parent].depth - t[n].depth
      BY <3>1
    <3>3. Above(t, t[x].parent, x) /\ t[x].depth = t[t[x].parent].depth + 1
      BY <3>1, <2>1 DEF ParentOK
    <3>4. b[x].depth = b[t[x].parent].depth + 1
      BY <3>1, <3>2, <3>3, <2>1, <1>2, <1>n
    <3>5. \A a \in DOMAIN b : Above(b, a, x) => a = t[x].parent \/ Above(b, a, t[x].parent)
      BY <3>1, <2>1, <1>5 DEF ParentOK
    <3> QED
      BY <3>1, <3>3, <3>4, <3>5, <1>5 DEF ParentOK
  <2> QED
    BY <2>2, <2>3
<1> QED
  BY <1>1, <1>6, <1>7, <1>8, <1>9 DEF Shape

\* Room is made at a number for a subtree of some width.
Opened(y, at, width) == IF y >= at THEN y + width ELSE y

\* The nodes around the place at which a subtree goes below q.
PlaceUnder(s, at, q) ==
  \A o \in DOMAIN s : (s[o].lft < at /\ at <= s[o].rght) <=> (q # Root /\ (o = q \/ Above(s, o, q)))

\* What becomes of both when b, of width w, is put into s at a number, below q and at a depth.
Grafted(s, b, w, at, q, d, u) ==
  /\ DOMAIN s \cap DOMAIN b = {} /\ DOMAIN u = DOMAIN s \cup DOMAIN b
  /\ \A x \in DOMAIN s : /\ u[x].lft = Opened(s[x].lft, at, w) /\ u[x].rght = Opened(s[x].rght, at, w)
                         /\ u[x].parent = s[x].parent /\ u[x].depth = s[x].depth
  /\ \A x \in DOMAIN b : /\ u[x].lft = b[x].lft + at - 1 /\ u[x].rght = b[x].rght + at - 1
                         /\ u[x].parent = (IF b[x].parent = Root THEN q ELSE b[x].parent)
                         /\ u[x].depth = b[x].depth + d

\* The depth of a child of q.
DepthBelow(s, q) == IF q = Root THEN 0 ELSE s[q].depth + 1

\* A nested set is put into another one, below q.
LEMMA Graft ==
  ASSUME NEW s, NEW M, Shape(s, M), NEW b, NEW w, Shape(b, w),
         NEW q \in DOMAIN s \cup {Root}, NEW at \in 1..M + 1, PlaceUnder(s, at, q),
         NEW d \in Int, d = DepthBelow(s, q), NEW u, Grafted(s, b, w, at, q, d, u)
  PROVE  Shape(u, M + w)
<1> USE DEF Grafted, DepthBelow
<1>1. M \in Nat /\ w \in Nat /\ at \in Int /\ 1 <= at /\ at <= M + 1
  BY ShapeFacts
<1>2. \A x \in DOMAIN s : /\ s[x].lft \in Int /\ s[x].rght \in Int /\ s[x].depth \in Int
                          /\ 1 <= s[x].lft /\ s[x].lft < s[x].rght /\ s[x].rght <= M
                          /\ x \notin DOMAIN b /\ x \in DOMAIN u
                          /\ u[x].lft = (IF s[x].lft >= at THEN s[x].lft + w ELSE s[x].lft)
                          /\ u[x].rght = (IF s[x].rght >= at THEN s[x].rght + w ELSE s[x].rght)
  BY ShapeFacts DEF Opened
<1>3. \A x \in DOMAIN b : /\ b[x].lft \in Int /\ b[x].rght \in Int /\ b[x].depth \in Int
                          /\ 1 <= b[x].lft /\ b[x].lft < b[x].rght /\ b[x].rght <= w
                          /\ x \notin DOMAIN s /\ x \in DOMAIN u
                          /\ u[x].lft = b[x].lft + at - 1 /\ u[x].rght = b[x].rght + at - 1
  BY ShapeFacts
<1>4. \A x \in DOMAIN u : x \in DOMAIN s \/ x \in DOMAIN b
  OBVIOUS
<1>5. /\ \A a, c \in DOMAIN s : Above(u, a, c) <=> Above(s, a, c)
      /\ \A a, c \in DOMAIN b : Above(u, a, c) <=> Above(b, a, c)
      /\ \A a \in DOMAIN b, c \in DOMAIN s : ~Above(u, a, c)
      /\ \A a \in DOMAIN s, c \in DOMAIN b : Above(u, a, c) <=> (s[a].lft < at /\ at <= s[a].rght)
  <2>1. \A a, c \in DOMAIN s : Above(u, a, c) <=> Above(s, a, c)
    BY <1>1, <1>2 DEF Above
  <2>2. \A a, c \in DOMAIN b : Above(u, a, c) <=> Above(b, a, c)
    BY <1>1, <1>3 DEF Above
  <2>3. \A a \in DOMAIN b, c \in DOMAIN s : ~Above(u, a, c)
    BY <1>1, <1>2, <1>3 DEF Above
  <2>4. \A a \in DOMAIN s, c \in DOMAIN b : Above(u, a, c) <=> (s[a].lft < at /\ at <= s[a].rght)
    BY <1>1, <1>2, <1>3 DEF Above
  <2> QED
    BY <2>1, <2>2, <2>3, <2>4
<1>6. Typed(u)
  <2>1. Root \notin DOMAIN u /\ (\A x \in DOMAIN s : s[x].parent \in DOMAIN s \cup {Root})
        /\ (\A x \in DOMAIN b : b[x].parent \in DOMAIN b \cup {Root})
    BY DEF Shape, Typed
  <2>2. ASSUME NEW x \in DOMAIN u
        PROVE  u[x].lft \in Int /\ u[x].rght \in Int /\ u[x].depth \in Int /\ u[x].parent \in DOMAIN u \cup {Root}
    <3>1. CASE x \in DOMAIN s
      BY <3>1, <2>1, <1>1, <1>2
    <3>2. CASE x \in DOMAIN b
      BY <3>2, <2>1, <1>1, <1>3
    <3> QED
      BY <3>1, <3>2
  <2> QED
    BY <2>1, <2>2 DEF Typed
<1>7. Filled(u, M + w)
  <2>1. \A x \in DOMAIN u : 1 <= u[x].lft /\ u[x].lft < u[x].rght /\ u[x].rght <= M + w
    BY <1>1, <1>2, <1>3, <1>4
  <2>2. ASSUME NEW y \in 1..M + w PROVE \E x \in DOMAIN u : u[x].lft = y \/ u[x].rght = y
    <3>1. CASE y < at \/ at + w <= y
      <4> DEFINE z == IF y < at THEN y ELSE y - w
      <4>1. z \in 1..M
        BY <3>1, <1>1
      <4>2. PICK x \in DOMAIN s : s[x].lft = z \/ s[x].rght = z
        BY <4>1 DEF Shape, Filled
      <4> QED
        BY <3>1, <4>2, <1>1, <1>2
    <3>2. CASE at <= y /\ y < at + w
      <4>1. y - at + 1 \in 1..w
        BY <3>2, <1>1
      <4>2. PICK x \in DOMAIN b : b[x].lft = y - at + 1 \/ b[x].rght = y - at + 1
        BY <4>1 DEF Shape, Filled
      <4> QED
        BY <3>2, <4>2, <1>1, <1>3
    <3> QED
      BY <3>1, <3>2, <1>1
  <2> QED
    BY <2>1, <2>2, <1>1 DEF Filled
<1>8. Laminar(u)
  <2> SUFFICES ASSUME NEW a \in DOMAIN u, NEW c \in DOMAIN u, a # c PROVE Apart(u[a], u[c])
    BY DEF Laminar
  <2>1. CASE a \in DOMAIN s /\ c \in DOMAIN s
    BY <2>1, <1>1, <1>2, ShapeFacts DEF Apart
  <2>2. CASE a \in DOMAIN b /\ c \in DOMAIN b
    BY <2>2, <1>1, <1>3, ShapeFacts DEF Apart
  <2>3. ASSUME NEW x \in DOMAIN s, NEW y \in DOMAIN b PROVE Apart(u[x], u[y]) /\ Apart(u[y], u[x])
    <3>1. at <= u[y].lft /\ u[y].rght < at + w /\ u[y].lft \in Int /\ u[y].rght \in Int
      BY <1>1, <1>3
    <3>2. CASE s[x].lft >= at
      BY <3>1, <3>2, <1>1, <1>2 DEF Apart
    <3>3. CASE s[x].rght < at
      <4>1. u[x].rght < u[y].lft
        BY <3>1, <3>3, <1>1, <1>2
      <4> QED
        BY <4>1 DEF Apart
    <3>4. CASE s[x].lft < at /\ s[x].rght >= at
      <4>1. u[x].lft < u[y].lft
        BY <3>1, <3>4, <1>1, <1>2
      <4>2. u[y].rght < u[x].rght
        BY <3>1, <3>4, <1>1, <1>2
      <4> QED
        BY <4>1, <4>2 DEF Apart
    <3> QED
      BY <3>2, <3>3, <3>4, <1>1, <1>2
  <2> QED
    BY <2>1, <2>2, <2>3, <1>4
<1>9. ASSUME NEW x \in DOMAIN u PROVE ParentOK(u, x)
  <2>1. CASE x \in DOMAIN s
    <3>1. ParentOK(s, x) /\ (s[x].parent # Root => s[x].parent \in DOMAIN s)
      BY <2>1 DEF Shape, Typed
    <3> QED
      BY <2>1, <3>1, <1>4, <1>5 DEF ParentOK
  <2>2. CASE x \in DOMAIN b
    <3>1. ParentOK(b, x) /\ (b[x].parent # Root => b[x].parent \in DOMAIN b) /\ b[x].depth \in Int /\ Root \notin DOMAIN s
      BY <2>2, <1>3 DEF Shape, Typed
    <3>2. CASE b[x].parent = Root /\ q = Root
      <4>1. \A a \in DOMAIN u : ~Above(u, a, x)
        BY <3>1, <3>2, <2>2, <1>4, <1>5 DEF ParentOK, PlaceUnder
      <4>2. u[x].depth = 0 /\ u[x].parent = Root
        BY <3>1, <3>2, <2>2 DEF ParentOK
      <4> QED
        BY <4>1, <4>2 DEF ParentOK
    <3>3. CASE b[x].parent = Root /\ q # Root
      <4>1. q \in DOMAIN s /\ q \in DOMAIN u /\ u[x].parent = q
        BY <3>3, <2>2
      <4>2. Above(u, q, x)
        BY <4>1, <2>2, <1>5, <3>3 DEF PlaceUnder
      <4>3. u[x].depth = u[q].depth + 1
        <5>1. b[x].depth = 0 /\ u[x].depth = b[x].depth + d /\ u[q].depth = s[q].depth /\ s[q].depth \in Int
          BY <3>1, <3>3, <2>2, <4>1, <1>2 DEF ParentOK
        <5> QED
          BY <5>1, <3>3
      <4>4. ASSUME NEW a \in DOMAIN u, Above(u, a, x) PROVE a = q \/ Above(u, a, q)
        <5>1. a \in DOMAIN s
          BY <4>4, <3>1, <3>3, <2>2, <1>4, <1>5 DEF ParentOK
        <5> QED
          BY <5>1, <4>4, <4>1, <2>2, <1>5 DEF PlaceUnder
      <4> QED
        BY <4>1, <4>2, <4>3, <4>4, <3>3 DEF ParentOK
    <3>4. CASE b[x].parent # Root
      <4> DEFINE p == b[x].parent
      <4>1. p \in DOMAIN b /\ p \in DOMAIN u /\ u[x].parent = p /\ Above(u, p, x)
        BY <3>4, <3>1, <2>2, <1>5 DEF ParentOK
      <4>2. u[x].depth = u[p].depth + 1
        <5>1. b[x].depth = b[p].depth + 1 /\ u[x].depth = b[x].depth + d /\ u[p].depth = b[p].depth + d /\ b[p].depth \in Int
          BY <3>1, <3>4, <2>2, <4>1, <1>3 DEF ParentOK
        <5> HIDE DEF p
        <5> QED
          BY <5>1
      <4>3. ASSUME NEW a \in DOMAIN u, Above(u, a, x) PROVE a = p \/ Above(u, a, p)
        <5>1. CASE a \in DOMAIN s
          BY <5>1, <4>3, <4>1, <2>2, <1>5
        <5>2. CASE a \in DOMAIN b
          BY <5>2, <4>3, <4>1, <3>1, <3>4, <2>2, <1>5 DEF ParentOK
        <5> QED
          BY <5>1, <5>2, <1>4
      <4> QED
        BY <4>1, <4>2, <4>3, <3>4 DEF ParentOK
    <3> QED
      BY <3>2, <3>3, <3>4
  <2> QED
    BY <2>1, <2>2, <1>4
<1> QED
  BY <1>6, <1>7, <1>8, <1>9 DEF Shape

\* What moves up one place in a subtree loses the number of the node that left, to its left.
Promoted(y, n) == IF y > n.rght THEN y - 2 ELSE IF y > n.lft THEN y - 1 ELSE y

\* A node goes and its children take its place.
ChildrenPromoted(t, n, u) ==
  \A x \in DOMAIN t \ {n} :
    /\ u[x].lft = Promoted(t[x].lft, t[n]) /\ u[x].rght = Promoted(t[x].rght, t[n])
    /\ u[x].parent = (IF t[x].parent = n THEN t[n].parent ELSE t[x].parent)
    /\ u[x].depth = (IF Above(t, n, x) THEN t[x].depth - 1 ELSE t[x].depth)

\* What is left is a nested set.
LEMMA Promote ==
  ASSUME NEW t, NEW M, Shape(t, M), NEW n \in DOMAIN t,
         NEW u, DOMAIN u = DOMAIN t \ {n}, ChildrenPromoted(t, n, u)
  PROVE  Shape(u, M - 2)
<1> USE DEF ChildrenPromoted
<1> DEFINE l == t[n].lft
           r == t[n].rght
<1>1. l \in Int /\ r \in Int /\ 1 <= l /\ l < r /\ r <= M /\ M \in Nat
  BY ShapeFacts
<1>2. \A x \in DOMAIN u : /\ t[x].lft \in Int /\ t[x].rght \in Int /\ t[x].depth \in Int
                          /\ 1 <= t[x].lft /\ t[x].lft < t[x].rght /\ t[x].rght <= M
                          /\ x \in DOMAIN t /\ x # n
                          /\ t[x].lft # l /\ t[x].lft # r /\ t[x].rght # l /\ t[x].rght # r
  <2> SUFFICES ASSUME NEW x \in DOMAIN u
               PROVE  t[x].lft # l /\ t[x].lft # r /\ t[x].rght # l /\ t[x].rght # r
    BY ShapeFacts
  <2>1. Apart(t[x], t[n]) /\ t[x].lft \in Int /\ t[x].rght \in Int /\ t[x].lft < t[x].rght
    BY ShapeFacts
  <2> QED
    BY <2>1, <1>1 DEF Apart
<1>3. \A x \in DOMAIN u : /\ u[x].lft = (IF t[x].lft > r THEN t[x].lft - 2 ELSE IF t[x].lft > l THEN t[x].lft - 1 ELSE t[x].lft)
                          /\ u[x].rght = (IF t[x].rght > r THEN t[x].rght - 2 ELSE IF t[x].rght > l THEN t[x].rght - 1 ELSE t[x].rght)
  BY DEF Promoted
<1> HIDE DEF l, r
<1>5. \A a, c \in DOMAIN u : Above(u, a, c) <=> Above(t, a, c)
  BY <1>1, <1>2, <1>3 DEF Above
<1>o. Root \notin DOMAIN t /\ ParentOK(t, n) /\ t[n].parent \in DOMAIN t \cup {Root} /\ t[n].depth \in Int
  BY DEF Shape, Typed
<1>p. t[n].parent # n
  BY <1>o, <1>1 DEF ParentOK, Above
<1>4. \A x \in DOMAIN u : /\ t[x].parent \in DOMAIN t \cup {Root} /\ ParentOK(t, x)
                          /\ u[x].parent \in DOMAIN u \cup {Root}
  BY <1>2, <1>o, <1>p DEF Shape, Typed
<1>6. Typed(u)
  BY <1>1, <1>2, <1>3, <1>4, <1>o DEF Typed
<1>7. Filled(u, M - 2)
  <2>1. \A x \in DOMAIN u : 1 <= u[x].lft /\ u[x].lft < u[x].rght /\ u[x].rght <= M - 2
    <3> SUFFICES ASSUME NEW x \in DOMAIN u PROVE 1 <= u[x].lft /\ u[x].lft < u[x].rght /\ u[x].rght <= M - 2
      OBVIOUS
    <3>1. Apart(t[x], t[n])
      BY <1>2, ShapeFacts
    <3> QED
      BY <3>1, <1>1, <1>2, <1>3 DEF Apart, l, r
  <2>2. ASSUME NEW y \in 1..M - 2 PROVE \E x \in DOMAIN u : u[x].lft = y \/ u[x].rght = y
    <3> DEFINE z == IF y < l THEN y ELSE IF y + 1 < r THEN y + 1 ELSE y + 2
    <3>1. z \in 1..M /\ z # l /\ z # r
      BY <1>1
    <3>2. PICK x \in DOMAIN t : t[x].lft = z \/ t[x].rght = z
      BY <3>1 DEF Shape, Filled
    <3>3. x \in DOMAIN u
      BY <3>1, <3>2 DEF l, r
    <3> QED
      BY <3>2, <3>3, <1>1, <1>2, <1>3
  <2>3. M - 2 \in Nat
    BY <1>1
  <2> QED
    BY <2>1, <2>2, <2>3 DEF Filled
<1>8. Laminar(u)
  <2> SUFFICES ASSUME NEW a \in DOMAIN u, NEW c \in DOMAIN u, a # c PROVE Apart(u[a], u[c])
    BY DEF Laminar
  <2>1. Apart(t[a], t[c])
    BY <1>2, ShapeFacts
  <2> QED
    BY <2>1, <1>1, <1>2, <1>3 DEF Apart
<1>9. ASSUME NEW x \in DOMAIN u PROVE ParentOK(u, x)
  <2>1. ParentOK(t, x) /\ x \in DOMAIN t /\ x # n /\ t[x].depth \in Int
    BY <1>2, <1>4
  <2>2. CASE t[x].parent = n
    <3>1. n # Root /\ Above(t, n, x) /\ t[x].depth = t[n].depth + 1 /\ u[x].depth = t[n].depth
          /\ u[x].parent = t[n].parent
      BY <2>1, <2>2, <1>o DEF ParentOK
    <3>2. \A a \in DOMAIN u : Above(u, a, x) => Above(t, a, n)
      BY <2>1, <2>2, <3>1, <1>2, <1>5 DEF ParentOK
    <3>3. CASE t[n].parent = Root
      BY <3>1, <3>2, <3>3, <1>o, <1>2 DEF ParentOK
    <3>4. CASE t[n].parent # Root
      <4> DEFINE p == t[n].parent
      <4>1. p \in DOMAIN u /\ Above(t, p, n) /\ t[n].depth = t[p].depth + 1
            /\ \A a \in DOMAIN t : Above(t, a, n) => a = p \/ Above(t, a, p)
        BY <3>4, <1>o, <1>p DEF ParentOK
      <4>2. Above(t, p, x) /\ ~Above(t, n, p)
        BY <4>1, <3>1, <1>1, <1>2, <2>1 DEF Above, l, r
      <4>3. u[p].depth = t[p].depth
        BY <4>1, <4>2
      <4> QED
        BY <3>1, <3>2, <4>1, <4>2, <4>3, <3>4, <1>2, <1>5 DEF ParentOK
    <3> QED
      BY <3>3, <3>4
  <2>3. CASE t[x].parent = Root
    <3>1. u[x].parent = Root /\ ~Above(t, n, x) /\ u[x].depth = t[x].depth /\ t[x].depth = 0
      BY <2>3, <2>1, <1>o DEF ParentOK
    <3>2. \A a \in DOMAIN u : ~Above(u, a, x)
      BY <2>1, <2>3, <1>2, <1>5 DEF ParentOK
    <3> QED
      BY <3>1, <3>2 DEF ParentOK
  <2>4. CASE t[x].parent # n /\ t[x].parent # Root
    <3> DEFINE p == t[x].parent
    <3>1. p \in DOMAIN u /\ Above(t, p, x) /\ t[x].depth = t[p].depth + 1 /\ u[x].parent = p
          /\ \A a \in DOMAIN t : Above(t, a, x) => a = p \/ Above(t, a, p)
      BY <2>4, <2>1, <1>4 DEF ParentOK
    <3>2. Above(t, n, x) <=> Above(t, n, p)
      BY <3>1, <2>4, <1>1, <1>2, <2>1 DEF Above, l, r
    <3>3. u[x].depth = u[p].depth + 1
      BY <3>1, <3>2, <1>2
    <3>4. \A a \in DOMAIN u : Above(u, a, x) => a = p \/ Above(u, a, p)
      BY <3>1, <1>2, <1>5, <2>1
    <3>5. Above(u, p, x)
      BY <3>1, <1>5
    <3> QED
      BY <3>1, <3>3, <3>4, <3>5, <2>4 DEF ParentOK
  <2> QED
    BY <2>2, <2>3, <2>4
<1> QED
  BY <1>6, <1>7, <1>8, <1>9 DEF Shape

-----------------------------------------------------------------------------
(* Counting.                                                                 *)

\* A set of naturals that is not empty has a least element.
LEMMA LeastExists ==
  ASSUME NEW S \in SUBSET Nat, S # {}
  PROVE  \E m \in S : \A n \in S : m <= n
<1> DEFINE R == OpToRel(<, Nat)
<1>1. IsWellFoundedOn(R, Nat)
  BY NatLessThanWellFounded
<1>2. R = {p \in Nat \X Nat : p[1] < p[2]}
  BY Zenon DEF OpToRel
<1> HIDE DEF R
<1>3. \A m, n \in Nat : n < m => <<n, m>> \in R
  BY <1>2
<1>4. PICK m \in S : \A n \in S : ~(<<n, m>> \in R)
  BY <1>1, WFMin, Zenon
<1>5. \A n \in S : ~(n < m)
  BY <1>3, <1>4
<1> QED
  BY <1>5

\* As many numbers as elements, if no two elements have the same.
LEMMA AsManyNumbers ==
  ASSUME NEW S, IsFiniteSet(S), NEW f,
         \A a, b \in S : a # b => f[a] # f[b]
  PROVE  IsFiniteSet({f[x] : x \in S}) /\ Cardinality({f[x] : x \in S}) = Cardinality(S)
<1> DEFINE T == {f[x] : x \in S}
           g == [x \in S |-> f[x]]
<1>1. g \in Bijection(S, T)
  BY DEF Bijection, Injection, Surjection, IsInjective
<1>2. ExistsBijection(S, T)
  BY <1>1 DEF ExistsBijection
<1> QED
  BY <1>2, FS_Bijection

\* Nested sets of n nodes have the numbers 1..2n.
LEMMA TwoNumbersEach ==
  ASSUME NEW t, NEW M, Shape(t, M), IsFiniteSet(DOMAIN t)
  PROVE  /\ M = 2 * Cardinality(DOMAIN t)
         /\ {t[n].lft : n \in DOMAIN t} \cup {t[n].rght : n \in DOMAIN t} = 1..M
<1> DEFINE D == DOMAIN t
           f == [n \in D |-> t[n].lft]
           g == [n \in D |-> t[n].rght]
           Left == {f[n] : n \in D}
           Right == {g[n] : n \in D}
<1>1. \A a, b \in D : a # b => f[a] # f[b] /\ g[a] # g[b]
  BY ShapeFacts DEF Apart
<1>2. \A a, b \in D : f[a] # g[b]
  BY ShapeFacts DEF Apart
<1>3. IsFiniteSet(Left) /\ Cardinality(Left) = Cardinality(D)
  <2> HIDE DEF f
  <2> QED
    BY <1>1, AsManyNumbers
<1>4. IsFiniteSet(Right) /\ Cardinality(Right) = Cardinality(D)
  <2> HIDE DEF g
  <2> QED
    BY <1>1, AsManyNumbers
<1>5. Left = {t[n].lft : n \in D} /\ Right = {t[n].rght : n \in D}
  OBVIOUS
<1>6. Left \cap Right = {}
  BY <1>2
<1>7. Left \cup Right = 1..M
  <2>1. \A n \in D : t[n].lft \in 1..M /\ t[n].rght \in 1..M
    BY ShapeFacts
  <2>2. \A y \in 1..M : \E n \in D : t[n].lft = y \/ t[n].rght = y
    BY DEF Shape, Filled
  <2> QED
    BY <2>1, <2>2, <1>5
<1>8. Cardinality(Left \cup Right) = Cardinality(D) + Cardinality(D) - 0
  <2> HIDE DEF Left, Right, D
  <2>1. Cardinality(Left \cap Right) = 0
    BY <1>6, FS_EmptySet
  <2>2. Cardinality(Left \cup Right) = Cardinality(Left) + Cardinality(Right) - Cardinality(Left \cap Right)
    BY <1>3, <1>4, FS_Union
  <2> QED
    BY <2>1, <2>2, <1>3, <1>4
<1>9. M \in Nat /\ Cardinality(D) \in Nat
  BY ShapeFacts, FS_CardinalityType
<1>10. Cardinality(1..M) = M
  BY <1>9, FS_Interval
<1>11. M = 2 * Cardinality(D)
  <2> HIDE DEF Left, Right, D
  <2>1. Cardinality(Left \cup Right) = Cardinality(1..M)
    BY <1>7, Zenon
  <2> QED
    BY <2>1, <1>8, <1>9, <1>10
<1> QED
  BY <1>5, <1>7, <1>11

\* The depth is the number of nodes around.
LEMMA DepthCountsNodesAround ==
  ASSUME NEW t, NEW M, Shape(t, M), IsFiniteSet(DOMAIN t), NEW n \in DOMAIN t
  PROVE  t[n].depth = Cardinality(Encloses(t, n))
<1> DEFINE Wrong == {x \in DOMAIN t : t[x].depth # Cardinality(Encloses(t, x))}
           Lefts == {t[x].lft : x \in Wrong}
<1>1. \A a, x \in DOMAIN t : a \in Encloses(t, x) <=> Above(t, a, x)
  BY ShapeFacts DEF Encloses, IsAncestorOf, Above
<1>2. \A x \in DOMAIN t : Encloses(t, x) \subseteq DOMAIN t /\ IsFiniteSet(Encloses(t, x))
  BY FS_Subset DEF Encloses
<1>3. SUFFICES Wrong = {}
  OBVIOUS
<1>4. ASSUME Wrong # {} PROVE FALSE
  <2>1. Lefts \in SUBSET Nat /\ Lefts # {}
    <3>1. \A x \in Wrong : t[x].lft \in Nat
      BY ShapeFacts
    <3> QED
      BY <3>1, <1>4
  <2>2. PICK m \in Lefts : \A y \in Lefts : m <= y
    <3> HIDE DEF Lefts
    <3> QED
      BY <2>1, LeastExists
  <2>3. PICK x \in Wrong : m = t[x].lft
    BY <2>2
  <2>4. ParentOK(t, x) /\ x \in DOMAIN t /\ t[x].parent \in DOMAIN t \cup {Root} /\ t[x].lft \in Int
    BY ShapeFacts DEF Shape, Typed
  <2>5. CASE t[x].parent = Root
    <3>1. Encloses(t, x) = {}
      BY <2>4, <2>5, <1>1, <1>2 DEF ParentOK
    <3> QED
      BY <3>1, <2>4, <2>5, FS_EmptySet DEF ParentOK
  <2>6. CASE t[x].parent # Root
    <3> DEFINE p == t[x].parent
    <3>1. p \in DOMAIN t /\ Above(t, p, x) /\ t[x].depth = t[p].depth + 1
          /\ \A a \in DOMAIN t : Above(t, a, x) => a = p \/ Above(t, a, p)
      BY <2>4, <2>6 DEF ParentOK
    <3>2. t[p].lft < t[x].lft /\ t[p].lft \in Int
      BY <3>1, ShapeFacts DEF Above
    <3>3. p \notin Wrong
      BY <2>2, <2>3, <2>4, <3>2
    <3>4. \A a \in DOMAIN t : Above(t, a, p) => Above(t, a, x)
      BY <3>1, <2>4, ShapeFacts DEF Above
    <3>5. Encloses(t, x) = Encloses(t, p) \cup {p}
      BY <3>1, <3>4, <2>4, <1>1, <1>2
    <3>6. p \notin Encloses(t, p)
      BY <3>1, <1>1, ShapeFacts DEF Above
    <3>7. Cardinality(Encloses(t, x)) = Cardinality(Encloses(t, p)) + 1
      BY <3>1, <3>5, <3>6, <1>2, FS_AddElement
    <3> QED
      BY <3>1, <3>3, <3>7
  <2> QED
    BY <2>4, <2>5, <2>6
<1> QED
  BY <1>4

\* What IsNestedSet() asks for.
LEMMA ShapeIsNestedSet ==
  ASSUME NEW t, NEW M, Shape(t, M), IsFiniteSet(DOMAIN t)
  PROVE  IsNestedSet(t)
<1>1. \A a, x \in DOMAIN t : (a \in Encloses(t, x) <=> Above(t, a, x)) /\ (IsAncestorOf(t[a], t[x]) <=> Above(t, a, x))
  BY ShapeFacts DEF Encloses, IsAncestorOf, Above
<1>2. \A x \in DOMAIN t : Encloses(t, x) \subseteq DOMAIN t
  BY DEF Encloses
<1>3. {t[n].lft : n \in DOMAIN t} \cup {t[n].rght : n \in DOMAIN t} = 1..(2 * Cardinality(DOMAIN t))
  BY TwoNumbersEach
<1>4. ASSUME NEW n \in DOMAIN t
      PROVE  /\ t[n].lft < t[n].rght
             /\ t[n].depth = Cardinality(Encloses(t, n))
             /\ t[n].parent \in Encloses(t, n) \cup {Root}
             /\ (t[n].parent = Root) = (Encloses(t, n) = {})
             /\ \A a \in Encloses(t, n) : a = t[n].parent \/ IsAncestorOf(t[a], t[t[n].parent])
  <2>1. ParentOK(t, n) /\ t[n].parent \in DOMAIN t \cup {Root}
    BY DEF Shape, Typed
  <2>2. t[n].lft < t[n].rght /\ t[n].depth = Cardinality(Encloses(t, n))
    BY ShapeFacts, DepthCountsNodesAround
  <2>3. CASE t[n].parent = Root
    <3>1. Encloses(t, n) = {}
      BY <2>1, <2>3, <1>1, <1>2 DEF ParentOK
    <3> QED
      BY <2>2, <2>3, <3>1
  <2>4. CASE t[n].parent # Root
    <3>1. t[n].parent \in Encloses(t, n)
      BY <2>1, <2>4, <1>1 DEF ParentOK
    <3>2. \A a \in Encloses(t, n) : a = t[n].parent \/ IsAncestorOf(t[a], t[t[n].parent])
      BY <2>1, <2>4, <1>1, <1>2 DEF ParentOK
    <3> QED
      BY <2>2, <2>4, <3>1, <3>2
  <2> QED
    BY <2>3, <2>4
<1>5. \A a, b \in DOMAIN t : a = b \/ IsAncestorOf(t[a], t[b]) \/ IsAncestorOf(t[b], t[a])
                                   \/ t[a].rght < t[b].lft \/ t[b].rght < t[a].lft
  BY ShapeFacts DEF Apart, IsAncestorOf
<1> QED
  BY <1>3, <1>4, <1>5 DEF IsNestedSet

-----------------------------------------------------------------------------
(* Statements.                                                               *)

Records == [parent : Nodes \cup {Root}, lft : Int, rght : Int, depth : Int]

\* A row of a table is made of its columns.
LEMMA RowFields ==
  /\ Root = 0 /\ Root \notin Nodes
  /\ \A t : IsTable(t) => \A n \in DOMAIN t : t[n] \in Records /\ n \in Nodes
  /\ \A r \in Records : r.lft \in Int /\ r.rght \in Int /\ r.depth \in Int /\ r.parent \in Nodes \cup {Root}
  /\ \A p \in Nodes \cup {Root}, l, r, d \in Int : Row(p, l, r, d) \in Records
BY TreeAssumption DEF IsTable, Records, Root, Row

\* Left numbers beyond a place are shifted.
LEMMA ExecuteLft ==
  ASSUME NEW t, IsTable(t), NEW from \in Int, NEW by \in Int, NEW u, u = Execute(t, ShiftLft(from, by))
  PROVE  /\ IsTable(u) /\ DOMAIN u = DOMAIN t
         /\ \A n \in DOMAIN t : /\ u[n].lft = (IF t[n].lft > from THEN t[n].lft + by ELSE t[n].lft)
                                /\ u[n].rght = t[n].rght /\ u[n].parent = t[n].parent /\ u[n].depth = t[n].depth
<1>1. u = [n \in DOMAIN t |-> IF t[n].lft > from THEN [t[n] EXCEPT !.lft = @ + by] ELSE t[n]]
  BY DEF Execute, ShiftLft
<1>2. \A n \in DOMAIN t : t[n] \in Records
  BY RowFields
<1> QED
  BY <1>1, <1>2 DEF IsTable, Records

\* Right numbers from a place on are shifted.
LEMMA ExecuteRght ==
  ASSUME NEW t, IsTable(t), NEW from \in Int, NEW by \in Int, NEW u, u = Execute(t, ShiftRght(from, by))
  PROVE  /\ IsTable(u) /\ DOMAIN u = DOMAIN t
         /\ \A n \in DOMAIN t : /\ u[n].rght = (IF t[n].rght >= from THEN t[n].rght + by ELSE t[n].rght)
                                /\ u[n].lft = t[n].lft /\ u[n].parent = t[n].parent /\ u[n].depth = t[n].depth
<1>1. u = [n \in DOMAIN t |-> IF t[n].rght >= from THEN [t[n] EXCEPT !.rght = @ + by] ELSE t[n]]
  BY DEF Execute, ShiftRght
<1>2. \A n \in DOMAIN t : t[n] \in Records
  BY RowFields
<1> QED
  BY <1>1, <1>2 DEF IsTable, Records

\* The nodes between two numbers are shifted, and sink or rise.
BlockShifted(t, lo, hi, by, deeper, u) ==
  /\ DOMAIN u = DOMAIN t
  /\ \A n \in DOMAIN t :
       LET in == t[n].lft >= lo /\ t[n].rght <= hi
       IN  /\ u[n].lft = (IF in THEN t[n].lft + by ELSE t[n].lft)
           /\ u[n].rght = (IF in THEN t[n].rght + by ELSE t[n].rght)
           /\ u[n].depth = (IF in THEN t[n].depth + deeper ELSE t[n].depth)
           /\ u[n].parent = t[n].parent

\* The statement that shifts a subtree.
LEMMA ExecuteBlock ==
  ASSUME NEW t, IsTable(t), NEW lo \in Int, NEW hi \in Int, NEW by \in Int, NEW deeper \in Int,
         NEW u, u = Execute(t, ShiftBlock(lo, hi, by, deeper))
  PROVE  IsTable(u) /\ BlockShifted(t, lo, hi, by, deeper, u)
<1> USE DEF BlockShifted
<1>1. u = [n \in DOMAIN t |-> IF t[n].lft >= lo /\ t[n].rght <= hi
                              THEN [t[n] EXCEPT !.lft = @ + by, !.rght = @ + by, !.depth = @ + deeper] ELSE t[n]]
  BY DEF Execute, ShiftBlock, FindSubtree, Moved
<1>2. \A n \in DOMAIN t : t[n] \in Records
  BY RowFields
<1> DEFINE After(row) == [row EXCEPT !.lft = @ + by, !.rght = @ + by, !.depth = @ + deeper]
<1>3. ASSUME NEW row \in Records
      PROVE  /\ After(row) \in Records
             /\ After(row).lft = row.lft + by /\ After(row).rght = row.rght + by
             /\ After(row).depth = row.depth + deeper /\ After(row).parent = row.parent
  <2>1. /\ row.parent \in Nodes \cup {Root} /\ row.lft \in Int /\ row.rght \in Int /\ row.depth \in Int
        /\ DOMAIN row = {"parent", "lft", "rght", "depth"}
        /\ row = [parent |-> row.parent, lft |-> row.lft, rght |-> row.rght, depth |-> row.depth]
    BY DEF Records
  <2>2. After(row) = [parent |-> row.parent, lft |-> row.lft + by, rght |-> row.rght + by, depth |-> row.depth + deeper]
    <3>1. After(row).lft = row.lft + by
      BY <2>1
    <3>2. After(row).rght = row.rght + by
      BY <2>1
    <3>3. After(row).depth = row.depth + deeper
      BY <2>1
    <3>4. After(row).parent = row.parent
      BY <2>1
    <3>5. DOMAIN After(row) = {"parent", "lft", "rght", "depth"}
      BY <2>1
    <3>6. After(row) = [f \in DOMAIN After(row) |-> After(row)[f]]
      OBVIOUS
    <3> HIDE DEF After
    <3> QED
      BY <3>1, <3>2, <3>3, <3>4, <3>5, <3>6
  <2> HIDE DEF After
  <2> QED
    BY <2>1, <2>2 DEF Records
<1>4. \A n \in DOMAIN t : u[n] \in Records
  BY <1>1, <1>2, <1>3
<1>5. DOMAIN u = DOMAIN t /\ u = [n \in DOMAIN t |-> u[n]]
  BY <1>1
<1>6. IsTable(u)
  BY <1>4, <1>5 DEF IsTable, Records
<1>7. ASSUME NEW n \in DOMAIN t, t[n].lft >= lo /\ t[n].rght <= hi
      PROVE  u[n].lft = t[n].lft + by /\ u[n].rght = t[n].rght + by /\ u[n].depth = t[n].depth + deeper
             /\ u[n].parent = t[n].parent
  BY <1>1, <1>2, <1>3, <1>7
<1>8. \A n \in DOMAIN t : ~(t[n].lft >= lo /\ t[n].rght <= hi) => u[n] = t[n]
  BY <1>1
<1> QED
  BY <1>5, <1>6, <1>7, <1>8

\* The children of a node get another parent.
ChildrenAdopted(t, from, to, u) ==
  /\ DOMAIN u = DOMAIN t
  /\ \A n \in DOMAIN t : /\ u[n].parent = (IF t[n].parent = from THEN to ELSE t[n].parent)
                         /\ u[n].lft = t[n].lft /\ u[n].rght = t[n].rght /\ u[n].depth = t[n].depth

\* The statement that gives them to it.
LEMMA ExecuteAdopt ==
  ASSUME NEW t, IsTable(t), NEW from, NEW to \in Nodes \cup {Root}, NEW u, u = Execute(t, Adopt(from, to))
  PROVE  IsTable(u) /\ ChildrenAdopted(t, from, to, u)
<1> USE DEF ChildrenAdopted
<1>1. u = [n \in DOMAIN t |-> IF t[n].parent = from THEN [t[n] EXCEPT !.parent = to] ELSE t[n]]
  BY DEF Execute, Adopt
<1>2. \A n \in DOMAIN t : t[n] \in Records
  BY RowFields
<1> QED
  BY <1>1, <1>2 DEF IsTable, Records

\* One node gets another parent.
LEMMA ExecuteParent ==
  ASSUME NEW t, IsTable(t), NEW x, NEW to \in Nodes \cup {Root}, NEW u, u = Execute(t, SetParent(x, to))
  PROVE  /\ IsTable(u) /\ DOMAIN u = DOMAIN t
         /\ \A n \in DOMAIN t : /\ u[n].parent = (IF n = x THEN to ELSE t[n].parent)
                                /\ u[n].lft = t[n].lft /\ u[n].rght = t[n].rght /\ u[n].depth = t[n].depth
<1>1. u = [n \in DOMAIN t |-> IF n = x THEN [t[n] EXCEPT !.parent = to] ELSE t[n]]
  BY DEF Execute, SetParent
<1>2. \A n \in DOMAIN t : t[n] \in Records
  BY RowFields
<1> QED
  BY <1>1, <1>2 DEF IsTable, Records

\* One node gets other bounds and another depth.
LEMMA ExecuteBounds ==
  ASSUME NEW t, IsTable(t), NEW x, NEW l \in Int, NEW r \in Int, NEW d \in Int,
         NEW u, u = Execute(t, SetBounds(x, l, r, d))
  PROVE  /\ IsTable(u) /\ DOMAIN u = DOMAIN t
         /\ \A n \in DOMAIN t : u[n] = IF n = x THEN Row(t[n].parent, l, r, d) ELSE t[n]
<1>1. u = [n \in DOMAIN t |-> IF n = x THEN Row(t[n].parent, l, r, d) ELSE t[n]]
  BY DEF Execute, SetBounds
<1>2. \A n \in DOMAIN t : t[n] \in Records /\ Row(t[n].parent, l, r, d) \in Records
  BY RowFields
<1> QED
  BY <1>1, <1>2 DEF IsTable, Records

\* One node gets another row.
LEMMA ExecutePlace ==
  ASSUME NEW t, IsTable(t), NEW x, NEW row \in Records, NEW u, u = Execute(t, Place(x, row))
  PROVE  /\ IsTable(u) /\ DOMAIN u = DOMAIN t
         /\ \A n \in DOMAIN t : u[n] = IF n = x THEN row ELSE t[n]
<1>1. u = [n \in DOMAIN t |-> IF n = x THEN row ELSE t[n]]
  BY DEF Execute, Place
<1>2. \A n \in DOMAIN t : t[n] \in Records
  BY RowFields
<1> QED
  BY <1>1, <1>2 DEF IsTable, Records

\* A node is added.
Added(t, x, row, u) ==
  /\ DOMAIN u = DOMAIN t \cup {x}
  /\ \A n \in DOMAIN u : u[n] = IF n = x THEN row ELSE t[n]

\* The statement that adds one.
LEMMA ExecuteInsert ==
  ASSUME NEW t, IsTable(t), NEW x \in Nodes, NEW row \in Records, NEW u, u = Execute(t, Insert(x, row))
  PROVE  IsTable(u) /\ Added(t, x, row, u)
<1> USE DEF Added
<1>1. u = [n \in DOMAIN t \cup {x} |-> IF n = x THEN row ELSE t[n]]
  BY DEF Execute, Insert
<1>2. \A n \in DOMAIN t : t[n] \in Records
  BY RowFields
<1> QED
  BY <1>1, <1>2 DEF IsTable, Records

\* The nodes between two numbers go.
Deleted(t, lo, hi, u) ==
  /\ \A n : n \in DOMAIN u <=> (n \in DOMAIN t /\ ~(t[n].lft >= lo /\ t[n].rght <= hi))
  /\ \A n \in DOMAIN u : u[n] = t[n]

\* The statement that deletes them.
LEMMA ExecuteDelete ==
  ASSUME NEW t, IsTable(t), NEW lo \in Int, NEW hi \in Int, NEW u, u = Execute(t, DeleteBlock(lo, hi))
  PROVE  IsTable(u) /\ Deleted(t, lo, hi, u)
<1> USE DEF Deleted
<1>1. u = [n \in {m \in DOMAIN t : ~(t[m].lft >= lo /\ t[m].rght <= hi)} |-> t[n]]
  BY DEF Execute, DeleteBlock, FindSubtree
<1>2. \A n \in DOMAIN t : t[n] \in Records
  BY RowFields
<1> QED
  BY <1>1, <1>2 DEF IsTable, Records
-----------------------------------------------------------------------------
(* Series of statements.                                                     *)

\* The parents make a forest: every parent is there, and has a smaller rank.
Rooted(t) ==
  \E rank \in [DOMAIN t -> Nat] :
    \A n \in DOMAIN t : t[n].parent = Root \/ (t[n].parent \in DOMAIN t /\ rank[t[n].parent] < rank[n])

Good(t) == IsTable(t) /\ Rooted(t)

\* The statements make of one table the other, and the parents are a forest all the way.
Path(t, s, u) ==
  \E S : /\ s \in Seq(S)
         /\ \E T : /\ T[1] = t /\ T[Len(s) + 1] = u
                   /\ \A i \in 1..Len(s) : T[i + 1] = Execute(T[i], s[i])
                   /\ \A i \in 1..Len(s) + 1 : Good(T[i])

\* The first statement of a series, and the rest.
LEMMA PathTail ==
  ASSUME NEW t, NEW s, NEW u, Path(t, s, u)
  PROVE  /\ Good(t) /\ Good(u)
         /\ s = <<>> => t = u
         /\ s # <<>> => Path(Execute(t, Head(s)), Tail(s), u)
<1>1. PICK S : /\ s \in Seq(S)
               /\ \E T : /\ T[1] = t /\ T[Len(s) + 1] = u
                         /\ \A i \in 1..Len(s) : T[i + 1] = Execute(T[i], s[i])
                         /\ \A i \in 1..Len(s) + 1 : Good(T[i])
  BY DEF Path
<1>2. PICK T : /\ T[1] = t /\ T[Len(s) + 1] = u
               /\ \A i \in 1..Len(s) : T[i + 1] = Execute(T[i], s[i])
               /\ \A i \in 1..Len(s) + 1 : Good(T[i])
  BY <1>1
<1>3. Len(s) \in Nat /\ (s = <<>> => Len(s) = 0)
  BY <1>1
<1>4. Good(t) /\ Good(u) /\ (s = <<>> => t = u)
  BY <1>2, <1>3
<1>5. ASSUME s # <<>> PROVE Path(Execute(t, Head(s)), Tail(s), u)
  <2> DEFINE U == [i \in 1..Len(s) |-> T[i + 1]]
  <2>1. /\ Len(s) # 0 /\ Tail(s) \in Seq(S) /\ Len(Tail(s)) = Len(s) - 1 /\ Head(s) = s[1]
        /\ \A i \in 1..Len(s) - 1 : Tail(s)[i] = s[i + 1]
    BY <1>1, <1>5
  <2>2. U[1] = Execute(t, Head(s)) /\ U[Len(Tail(s)) + 1] = u
    BY <1>2, <1>3, <2>1
  <2>3. \A i \in 1..Len(Tail(s)) : U[i + 1] = Execute(U[i], Tail(s)[i])
    <3> SUFFICES ASSUME NEW i \in 1..Len(s) - 1 PROVE T[i + 1 + 1] = Execute(T[i + 1], s[i + 1])
      BY <1>3, <2>1
    <3>1. i + 1 \in 1..Len(s)
      BY <1>3
    <3> QED
      BY <3>1, <1>2
  <2>4. \A i \in 1..Len(Tail(s)) + 1 : Good(U[i])
    <3> SUFFICES ASSUME NEW i \in 1..Len(s) PROVE Good(T[i + 1])
      BY <1>3, <2>1
    <3>1. i + 1 \in 1..Len(s) + 1
      BY <1>3
    <3> QED
      BY <3>1, <1>2
  <2> HIDE DEF U
  <2> QED
    BY <2>1, <2>2, <2>3, <2>4 DEF Path
<1> QED
  BY <1>4, <1>5

\* Nothing to do.
LEMMA PathEmpty ==
  ASSUME NEW t, Good(t)
  PROVE  Path(t, <<>>, t)
<1> DEFINE T == [i \in {1} |-> t]
<1>1. <<>> \in Seq({}) /\ Len(<<>>) = 0
  OBVIOUS
<1>2. T[1] = t /\ T[Len(<<>>) + 1] = t /\ (\A i \in 1..Len(<<>>) + 1 : Good(T[i]))
  BY <1>1
<1>3. \A i \in 1..Len(<<>>) : T[i + 1] = Execute(T[i], <<>>[i])
  BY <1>1
<1> HIDE DEF T
<1> QED
  BY <1>1, <1>2, <1>3 DEF Path

\* One statement.
LEMMA PathOne ==
  ASSUME NEW t, NEW x, Good(t), Good(Execute(t, x))
  PROVE  Path(t, <<x>>, Execute(t, x))
<1> DEFINE s == <<x>>
           T == [i \in {1, 2} |-> IF i = 1 THEN t ELSE Execute(t, x)]
<1>1. s \in Seq({x}) /\ Len(s) = 1 /\ s[1] = x
  OBVIOUS
<1>2. T[1] = t /\ T[2] = Execute(t, x)
  OBVIOUS
<1> HIDE DEF T, s
<1>3. T[Len(s) + 1] = Execute(t, x) /\ (\A i \in 1..Len(s) + 1 : Good(T[i]))
  BY <1>1, <1>2
<1>4. \A i \in 1..Len(s) : T[i + 1] = Execute(T[i], s[i])
  BY <1>1, <1>2
<1>5. Path(t, s, Execute(t, x))
  BY <1>1, <1>2, <1>3, <1>4 DEF Path
<1> QED
  BY <1>5 DEF s

\* One series after the other.
LEMMA PathConcat ==
  ASSUME NEW t, NEW s, NEW u, NEW r, NEW v, Path(t, s, u), Path(u, r, v)
  PROVE  Path(t, s \o r, v)
<1>1. PICK S : /\ s \in Seq(S)
               /\ \E T : /\ T[1] = t /\ T[Len(s) + 1] = u
                         /\ \A i \in 1..Len(s) : T[i + 1] = Execute(T[i], s[i])
                         /\ \A i \in 1..Len(s) + 1 : Good(T[i])
  BY DEF Path
<1>2. PICK T : /\ T[1] = t /\ T[Len(s) + 1] = u
               /\ \A i \in 1..Len(s) : T[i + 1] = Execute(T[i], s[i])
               /\ \A i \in 1..Len(s) + 1 : Good(T[i])
  BY <1>1
<1>3. PICK R : /\ r \in Seq(R)
               /\ \E W : /\ W[1] = u /\ W[Len(r) + 1] = v
                         /\ \A i \in 1..Len(r) : W[i + 1] = Execute(W[i], r[i])
                         /\ \A i \in 1..Len(r) + 1 : Good(W[i])
  BY DEF Path
<1>4. PICK W : /\ W[1] = u /\ W[Len(r) + 1] = v
               /\ \A i \in 1..Len(r) : W[i + 1] = Execute(W[i], r[i])
               /\ \A i \in 1..Len(r) + 1 : Good(W[i])
  BY <1>3
<1> DEFINE q == s \o r
           m == Len(s)
           V == [i \in 1..m + Len(r) + 1 |-> IF i <= m THEN T[i] ELSE W[i - m]]
<1>5. m \in Nat /\ Len(r) \in Nat
  BY <1>1, <1>3
<1>6. /\ q \in Seq(S \cup R) /\ Len(q) = m + Len(r)
      /\ (\A i \in 1..m : q[i] = s[i]) /\ (\A i \in 1..Len(r) : q[m + i] = r[i])
  <2>1. s \in Seq(S \cup R) /\ r \in Seq(S \cup R)
    BY <1>1, <1>3, SeqMonotonic
  <2> QED
    BY <2>1, <1>5
<1> HIDE DEF q, m
<1>m. m = Len(s)
  BY DEF m
<1>7. V[1] = t /\ V[Len(q) + 1] = v
  BY <1>2, <1>4, <1>5, <1>6, <1>m
<1>8. ASSUME NEW i \in 1..Len(q) PROVE V[i + 1] = Execute(V[i], q[i])
  <2>1. CASE i < m
    <3>1. V[i] = T[i] /\ V[i + 1] = T[i + 1] /\ q[i] = s[i] /\ i \in 1..m
      BY <2>1, <1>5, <1>6
    <3> QED
      BY <3>1, <1>2, <1>m
  <2>2. CASE i = m
    <3>1. V[i] = T[i] /\ V[i + 1] = W[1] /\ q[i] = s[i] /\ i \in 1..m /\ T[i + 1] = u
      BY <2>2, <1>2, <1>5, <1>6, <1>m
    <3> QED
      BY <3>1, <1>2, <1>4, <1>m
  <2>3. CASE i > m
    <3>1. i - m \in 1..Len(r) /\ V[i] = W[i - m] /\ V[i + 1] = W[(i - m) + 1] /\ q[m + (i - m)] = r[i - m]
      BY <2>3, <1>5, <1>6
    <3>2. m + (i - m) = i
      BY <1>5
    <3> QED
      BY <3>1, <3>2, <1>4
  <2> QED
    BY <2>1, <2>2, <2>3, <1>5
<1>9. ASSUME NEW i \in 1..Len(q) + 1 PROVE Good(V[i])
  <2>1. CASE i <= m
    BY <2>1, <1>2, <1>5, <1>6, <1>m
  <2>2. CASE i > m
    <3>1. i - m \in 1..Len(r) + 1 /\ V[i] = W[i - m]
      BY <2>2, <1>5, <1>6
    <3> QED
      BY <3>1, <1>4
  <2> QED
    BY <2>1, <2>2, <1>5
<1> HIDE DEF V
<1>10. Path(t, q, v)
  BY <1>6, <1>7, <1>8, <1>9 DEF Path
<1> QED
  BY <1>10 DEF q

\* The parents of a nested set make a forest.
LEMMA ShapeIsRooted ==
  ASSUME NEW t, NEW M, Shape(t, M)
  PROVE  Rooted(t)
<1> DEFINE rank == [n \in DOMAIN t |-> t[n].lft]
<1>1. rank \in [DOMAIN t -> Nat]
  BY ShapeFacts
<1>2. \A n \in DOMAIN t : t[n].parent = Root \/ (t[n].parent \in DOMAIN t /\ rank[t[n].parent] < rank[n])
  BY DEF Shape, Typed, ParentOK, Above
<1> HIDE DEF rank
<1> QED
  BY <1>1, <1>2 DEF Rooted

\* Only the parents count.
LEMMA SameParents ==
  ASSUME NEW t, Good(t), NEW u, IsTable(u), DOMAIN u = DOMAIN t, \A n \in DOMAIN t : u[n].parent = t[n].parent
  PROVE  Good(u)
<1>1. PICK rank \in [DOMAIN t -> Nat] :
        \A n \in DOMAIN t : t[n].parent = Root \/ (t[n].parent \in DOMAIN t /\ rank[t[n].parent] < rank[n])
  BY DEF Good, Rooted
<1>2. rank \in [DOMAIN u -> Nat]
  BY <1>1
<1>3. \A n \in DOMAIN u : u[n].parent = Root \/ (u[n].parent \in DOMAIN u /\ rank[u[n].parent] < rank[n])
  BY <1>1
<1> QED
  BY <1>2, <1>3 DEF Good, Rooted

\* Room for a subtree.
RoomMade(t, at, width, u) ==
  /\ DOMAIN u = DOMAIN t
  /\ \A n \in DOMAIN t : /\ u[n].lft = (IF t[n].lft > at THEN t[n].lft + width ELSE t[n].lft)
                         /\ u[n].rght = (IF t[n].rght >= at THEN t[n].rght + width ELSE t[n].rght)
                         /\ u[n].parent = t[n].parent /\ u[n].depth = t[n].depth

\* The statements that make room.
LEMMA ShiftForInsertMakesRoom ==
  ASSUME NEW t, Good(t), NEW at \in Int, NEW width \in Int
  PROVE  \E u : Path(t, ShiftForInsert(at, width), u) /\ Good(u) /\ RoomMade(t, at, width, u)
<1> USE DEF RoomMade
<1> DEFINE v == Execute(t, ShiftRght(at, width))
           u == Execute(v, ShiftLft(at, width))
<1>1. /\ IsTable(v) /\ DOMAIN v = DOMAIN t
      /\ \A n \in DOMAIN t : /\ v[n].rght = (IF t[n].rght >= at THEN t[n].rght + width ELSE t[n].rght)
                             /\ v[n].lft = t[n].lft /\ v[n].parent = t[n].parent /\ v[n].depth = t[n].depth
  BY ExecuteRght DEF Good
<1>2. /\ IsTable(u) /\ DOMAIN u = DOMAIN v
      /\ \A n \in DOMAIN v : /\ u[n].lft = (IF v[n].lft > at THEN v[n].lft + width ELSE v[n].lft)
                             /\ u[n].rght = v[n].rght /\ u[n].parent = v[n].parent /\ u[n].depth = v[n].depth
  BY <1>1, ExecuteLft
<1>3. Good(v)
  BY <1>1, SameParents
<1>4. Good(u)
  BY <1>2, <1>3, SameParents
<1>5. Path(t, <<ShiftRght(at, width)>>, v) /\ Path(v, <<ShiftLft(at, width)>>, u)
  BY <1>3, <1>4, PathOne
<1>6. Path(t, ShiftForInsert(at, width), u)
  <2>1. ShiftForInsert(at, width) = <<ShiftRght(at, width)>> \o <<ShiftLft(at, width)>>
    BY DEF ShiftForInsert
  <2> HIDE DEF u, v
  <2> QED
    BY <1>5, <2>1, PathConcat
<1> HIDE DEF u, v
<1> QED
  BY <1>1, <1>2, <1>4, <1>6

\* The gap that a subtree leaves is closed.
GapClosed(t, r, width, u) ==
  /\ DOMAIN u = DOMAIN t
  /\ \A n \in DOMAIN t : /\ u[n].lft = (IF t[n].lft > r THEN t[n].lft - width ELSE t[n].lft)
                         /\ u[n].rght = (IF t[n].rght >= r + 1 THEN t[n].rght - width ELSE t[n].rght)
                         /\ u[n].parent = t[n].parent /\ u[n].depth = t[n].depth

\* The statements that close it.
LEMMA ShiftForDeleteClosesGap ==
  ASSUME NEW t, Good(t), NEW r \in Int, NEW width \in Int
  PROVE  \E u : Path(t, ShiftForDelete(r, width), u) /\ Good(u) /\ GapClosed(t, r, width, u)
<1> USE DEF GapClosed
<1>0. PICK d \in Int, q \in Int : d = -width /\ q = r + 1
  OBVIOUS
<1> DEFINE v == Execute(t, ShiftLft(r, d))
           u == Execute(v, ShiftRght(q, d))
<1>1. /\ IsTable(v) /\ DOMAIN v = DOMAIN t
      /\ \A n \in DOMAIN t : /\ v[n].lft = (IF t[n].lft > r THEN t[n].lft + d ELSE t[n].lft)
                             /\ v[n].rght = t[n].rght /\ v[n].parent = t[n].parent /\ v[n].depth = t[n].depth
  BY ExecuteLft DEF Good
<1>2. /\ IsTable(u) /\ DOMAIN u = DOMAIN v
      /\ \A n \in DOMAIN v : /\ u[n].rght = (IF v[n].rght >= q THEN v[n].rght + d ELSE v[n].rght)
                             /\ u[n].lft = v[n].lft /\ u[n].parent = v[n].parent /\ u[n].depth = v[n].depth
  <2>1. IsTable(v)
    BY <1>1
  <2> HIDE DEF v
  <2> QED
    BY <2>1, ExecuteRght
<1>3. Good(v)
  BY <1>1, SameParents
<1>4. Good(u)
  BY <1>2, <1>3, SameParents
<1>5. Path(t, <<ShiftLft(r, d)>>, v) /\ Path(v, <<ShiftRght(q, d)>>, u)
  BY <1>3, <1>4, PathOne
<1>6. Path(t, ShiftForDelete(r, width), u)
  <2>1. ShiftForDelete(r, width) = <<ShiftLft(r, d)>> \o <<ShiftRght(q, d)>>
    BY <1>0 DEF ShiftForDelete
  <2> HIDE DEF u, v
  <2> QED
    BY <1>5, <2>1, PathConcat
<1>7. \A n \in DOMAIN t : t[n].lft \in Int /\ t[n].rght \in Int
  BY RowFields DEF Good
<1> HIDE DEF u, v
<1> QED
  BY <1>0, <1>1, <1>2, <1>4, <1>6, <1>7

\* A block of nodes is shifted.
LEMMA ShiftBlockShifts ==
  ASSUME NEW t, Good(t), NEW lo \in Int, NEW hi \in Int, NEW by \in Int, NEW deeper \in Int
  PROVE  \E u : /\ Path(t, <<ShiftBlock(lo, hi, by, deeper)>>, u) /\ Good(u)
                /\ BlockShifted(t, lo, hi, by, deeper, u)
<1>1. PICK u : u = Execute(t, ShiftBlock(lo, hi, by, deeper))
  OBVIOUS
<1>2. IsTable(u) /\ BlockShifted(t, lo, hi, by, deeper, u)
  BY <1>1, ExecuteBlock DEF Good
<1>3. Good(u)
  BY <1>2, SameParents DEF BlockShifted
<1>4. Path(t, <<ShiftBlock(lo, hi, by, deeper)>>, u)
  BY <1>1, <1>3, PathOne
<1> QED
  BY <1>2, <1>3, <1>4

\* The greatest right number is the last one.
LEMMA MaxRghtIsLast ==
  ASSUME NEW t, NEW M, Shape(t, M)
  PROVE  MaxRght(t) = M
<1>1. M \in Nat /\ (\A n \in DOMAIN t : t[n].rght \in Int /\ t[n].lft \in Int /\ t[n].lft < t[n].rght /\ t[n].rght <= M)
  BY ShapeFacts
<1>2. CASE DOMAIN t = {}
  <2>1. M = 0
    <3>1. M # 0 => \E n \in DOMAIN t : t[n].lft = M \/ t[n].rght = M
      BY <1>1 DEF Shape, Filled
    <3> QED
      BY <1>2, <3>1
  <2> QED
    BY <1>2, <2>1 DEF MaxRght
<1>3. CASE DOMAIN t # {}
  <2>1. M \in 1..M
    BY <1>1, <1>3, ShapeFacts
  <2>2. PICK n \in DOMAIN t : t[n].lft = M \/ t[n].rght = M
    BY <2>1 DEF Shape, Filled
  <2>3. t[n].rght = M
    BY <2>2, <1>1
  <2>4. M \in {t[x].rght : x \in DOMAIN t} /\ \A x \in DOMAIN t : t[x].rght <= M
    BY <2>3, <1>1
  <2>5. \A r \in {t[x].rght : x \in DOMAIN t} : (\A x \in DOMAIN t : t[x].rght <= r) => r = M
    BY <2>3, <1>1
  <2> QED
    BY <2>4, <2>5, <1>3 DEF MaxRght
<1> QED
  BY <1>2, <1>3

-----------------------------------------------------------------------------
(* The operations.                                                           *)

\* The statements make a nested set of the table.
Reaches(t, s) == \E u, K : Path(t, s, u) /\ Shape(u, K)

\* A node alone.
LEMMA OneNode ==
  ASSUME NEW n, n # Root
  PROVE  Shape([x \in {n} |-> Row(Root, 1, 2, 0)], 2)
<1> DEFINE b == [x \in {n} |-> Row(Root, 1, 2, 0)]
<1>1. /\ DOMAIN b = {n}
      /\ \A x \in DOMAIN b : b[x].lft = 1 /\ b[x].rght = 2 /\ b[x].depth = 0 /\ b[x].parent = Root
  BY DEF Row
<1> HIDE DEF b
<1>2. Typed(b)
  BY <1>1 DEF Typed
<1>3. Filled(b, 2)
  BY <1>1 DEF Filled
<1>4. Laminar(b)
  BY <1>1 DEF Laminar
<1>5. \A x \in DOMAIN b : ParentOK(b, x)
  BY <1>1 DEF ParentOK, Above
<1>6. Shape(b, 2)
  BY <1>2, <1>3, <1>4, <1>5 DEF Shape
<1> QED
  BY <1>6 DEF b

\* A node alone is put in.
LEMMA GraftOne ==
  ASSUME NEW s, NEW M, Shape(s, M), NEW n, n # Root, n \notin DOMAIN s,
         NEW q \in DOMAIN s \cup {Root}, NEW at \in 1..M + 1, PlaceUnder(s, at, q),
         NEW d \in Int, d = DepthBelow(s, q),
         NEW u, DOMAIN u = DOMAIN s \cup {n},
         \A x \in DOMAIN s : /\ u[x].lft = Opened(s[x].lft, at, 2) /\ u[x].rght = Opened(s[x].rght, at, 2)
                             /\ u[x].parent = s[x].parent /\ u[x].depth = s[x].depth,
         u[n].lft = at, u[n].rght = at + 1, u[n].parent = q, u[n].depth = d
  PROVE  Shape(u, M + 2)
<1>1. PICK b, w : b = [x \in {n} |-> Row(Root, 1, 2, 0)] /\ w = 2 /\ Shape(b, w)
  BY OneNode
<1>2. /\ DOMAIN b = {n}
      /\ b[n].lft = 1 /\ b[n].rght = 2 /\ b[n].depth = 0 /\ b[n].parent = Root
  BY <1>1 DEF Row
<1>3. M \in Nat
  BY ShapeFacts
<1>4. Grafted(s, b, w, at, q, d, u)
  BY <1>1, <1>2, <1>3 DEF Grafted
<1>5. Shape(u, M + w)
  BY <1>1, <1>4, Graft
<1> QED
  BY <1>1, <1>5

\* The place behind the last child of a node is below it and nothing else.
LEMMA LastChildPlace ==
  ASSUME NEW t, NEW M, Shape(t, M), NEW p \in DOMAIN t
  PROVE  /\ t[p].rght \in 1..M /\ PlaceUnder(t, t[p].rght, p)
         /\ \A n \in DOMAIN t : t[n].lft # t[p].rght
<1>1. t[p].rght \in 1..M
  BY ShapeFacts
<1>2. p # Root
  BY DEF Shape, Typed
<1>3. ASSUME NEW n \in DOMAIN t
      PROVE  t[n].lft # t[p].rght
             /\ ((t[n].lft < t[p].rght /\ t[p].rght <= t[n].rght) <=> (n = p \/ Above(t, n, p)))
  <2>1. n = p \/ Apart(t[n], t[p])
    BY ShapeFacts
  <2> QED
    BY <2>1, ShapeFacts DEF Apart, Above
<1> QED
  BY <1>1, <1>2, <1>3 DEF PlaceUnder

\* The place behind everything is below nothing.
LEMMA LastRootPlace ==
  ASSUME NEW t, NEW M, Shape(t, M)
  PROVE  M + 1 \in 1..M + 1 /\ PlaceUnder(t, M + 1, Root)
BY ShapeFacts DEF PlaceUnder

\* insertAsChild() makes a nested set of a nested set.
LEMMA InsertReaches ==
  ASSUME IsTable(rows), NEW M, Shape(rows, M), NEW n \in Nodes, n \notin DOMAIN rows,
         NEW p \in DOMAIN rows \cup {Root}
  PROVE  Reaches(rows, InsertScript(n, p))
<1>1. Good(rows) /\ M \in Nat /\ n # Root
  BY ShapeIsRooted, ShapeFacts, RowFields DEF Good
<1>2. CASE p = Root
  <2> DEFINE row == Row(Root, M + 1, M + 2, 0)
  <2>1. InsertScript(n, p) = <<>> \o <<Insert(n, row)>>
    BY <1>1, <1>2, MaxRghtIsLast DEF InsertScript, InsertAsRoot
  <2>2. row \in Records /\ row.lft = M + 1 /\ row.rght = M + 1 + 1 /\ row.depth = 0 /\ row.parent = Root
    BY <1>1, RowFields DEF Row
  <2> HIDE DEF row
  <2>u. PICK u : u = Execute(rows, Insert(n, row))
    OBVIOUS
  <2>3. IsTable(u) /\ DOMAIN u = DOMAIN rows \cup {n} /\ \A x \in DOMAIN u : u[x] = IF x = n THEN row ELSE rows[x]
    <3>1. IsTable(u) /\ Added(rows, n, row, u)
      BY <2>2, <2>u, ExecuteInsert
    <3> QED
      BY <3>1 DEF Added
  <2>4. Shape(u, M + 2)
    <3>1. \A x \in DOMAIN rows : u[x] = rows[x] /\ rows[x].lft < M + 1 /\ rows[x].rght < M + 1
                                 /\ rows[x].lft \in Int /\ rows[x].rght \in Int
      BY <2>3, ShapeFacts
    <3>2. \A x \in DOMAIN rows : /\ u[x].lft = Opened(rows[x].lft, M + 1, 2)
                                 /\ u[x].rght = Opened(rows[x].rght, M + 1, 2)
                                 /\ u[x].parent = rows[x].parent /\ u[x].depth = rows[x].depth
      BY <3>1, <1>1 DEF Opened
    <3>3. PICK at, d \in Int : at = M + 1 /\ d = 0 /\ d = DepthBelow(rows, Root)
      BY <1>1 DEF DepthBelow
    <3> QED
      BY <3>2, <3>3, <2>2, <2>3, <1>1, LastRootPlace, GraftOne
  <2>5. Path(rows, <<>> \o <<Insert(n, row)>>, u)
    BY <2>3, <2>4, <2>u, <1>1, ShapeIsRooted, PathEmpty, PathOne, PathConcat DEF Good
  <2> QED
    BY <2>1, <2>4, <2>5 DEF Reaches
<1>3. CASE p # Root
  <2> DEFINE T == rows[p].rght
             d == rows[p].depth + 1
             row == Row(p, T, T + 1, d)
  <2>0. p \in DOMAIN rows /\ p \in Nodes /\ T \in 1..M /\ T \in Int /\ d \in Int /\ PlaceUnder(rows, T, p)
        /\ \A x \in DOMAIN rows : rows[x].lft # T /\ rows[x].lft \in Int /\ rows[x].rght \in Int
    BY <1>3, LastChildPlace, ShapeFacts, RowFields
  <2>1. InsertScript(n, p) = ShiftForInsert(T, 2) \o <<Insert(n, row)>>
    BY <1>3 DEF InsertScript, InsertAsLastChild
  <2>2. row \in Records /\ row.lft = T /\ row.rght = T + 1 /\ row.depth = d /\ row.parent = p
    BY <2>0, RowFields DEF Row
  <2> HIDE DEF T, d, row
  <2>3. PICK v : Path(rows, ShiftForInsert(T, 2), v) /\ Good(v) /\ RoomMade(rows, T, 2, v)
    <3>1. PICK w \in Int : w = 2
      OBVIOUS
    <3> QED
      BY <1>1, <2>0, <3>1, ShiftForInsertMakesRoom
  <2>4. Good(v) /\ IsTable(v) /\ DOMAIN v = DOMAIN rows
    BY <2>3 DEF Good, RoomMade
  <2>u. PICK u : u = Execute(v, Insert(n, row))
    OBVIOUS
  <2>5. IsTable(u) /\ DOMAIN u = DOMAIN v \cup {n} /\ \A x \in DOMAIN u : u[x] = IF x = n THEN row ELSE v[x]
    <3>1. IsTable(u) /\ Added(v, n, row, u)
      BY <2>2, <2>4, <2>u, ExecuteInsert
    <3> QED
      BY <3>1 DEF Added
  <2>6. Shape(u, M + 2)
    <3>1. \A x \in DOMAIN rows : /\ u[x].lft = Opened(rows[x].lft, T, 2)
                                 /\ u[x].rght = Opened(rows[x].rght, T, 2)
                                 /\ u[x].parent = rows[x].parent /\ u[x].depth = rows[x].depth
      BY <2>0, <2>3, <2>5 DEF Opened, RoomMade
    <3>2. T \in 1..M + 1 /\ d = DepthBelow(rows, p)
      BY <2>0, <1>1, <1>3 DEF d, DepthBelow
    <3>3. u[n].lft = T /\ u[n].rght = T + 1 /\ u[n].parent = p /\ u[n].depth = d /\ DOMAIN u = DOMAIN rows \cup {n}
      BY <2>2, <2>4, <2>5
    <3> QED
      BY <3>1, <3>2, <3>3, <2>0, <1>1, GraftOne
  <2>7. Path(rows, ShiftForInsert(T, 2) \o <<Insert(n, row)>>, u)
    BY <2>3, <2>4, <2>5, <2>6, <2>u, ShapeIsRooted, PathOne, PathConcat DEF Good
  <2> QED
    BY <2>1, <2>6, <2>7 DEF Reaches
<1> QED
  BY <1>2, <1>3

\* What is not below a node has a parent that is not below it either.
LEMMA RestIsGood ==
  ASSUME NEW t, IsTable(t), NEW M, Shape(t, M), NEW n \in DOMAIN t,
         NEW v, IsTable(v), DOMAIN v = DOMAIN t \ Inside(t, n), \A x \in DOMAIN v : v[x] = t[x]
  PROVE  Good(v)
<1> DEFINE rank == [x \in DOMAIN v |-> t[x].lft]
<1>1. rank \in [DOMAIN v -> Nat]
  BY ShapeFacts
<1>2. ASSUME NEW x \in DOMAIN v
      PROVE  v[x].parent = Root \/ (v[x].parent \in DOMAIN v /\ rank[v[x].parent] < rank[x])
  <2> SUFFICES ASSUME t[x].parent # Root
               PROVE  t[x].parent \in DOMAIN t /\ t[x].parent \notin Inside(t, n) /\ t[t[x].parent].lft < t[x].lft
    OBVIOUS
  <2>1. t[x].parent \in DOMAIN t /\ Above(t, t[x].parent, x) /\ x \in DOMAIN t /\ x \notin Inside(t, n)
    BY DEF Shape, Typed, ParentOK
  <2> QED
    BY <2>1, ShapeFacts DEF Inside, Above
<1> HIDE DEF rank
<1> QED
  BY <1>1, <1>2 DEF Good, Rooted

\* deleteSubtree() makes a nested set of a nested set.
LEMMA DeleteReaches ==
  ASSUME IsTable(rows), NEW M, Shape(rows, M), NEW n \in DOMAIN rows
  PROVE  Reaches(rows, DeleteScript(n))
<1>1. Good(rows) /\ M \in Nat
  BY ShapeIsRooted, ShapeFacts DEF Good
<1>t. PICK t : t = rows
  OBVIOUS
<1>b. PICK l \in Int, r \in Int : l = t[n].lft /\ r = t[n].rght /\ l < r
  BY <1>t, ShapeFacts
<1>w. PICK w \in Int : w = r - l + 1 /\ w = SubtreeWidth(t[n])
  BY <1>b DEF SubtreeWidth
<1>2. t = rows /\ IsTable(t) /\ Shape(t, M) /\ n \in DOMAIN t
      /\ l \in Int /\ r \in Int /\ w \in Int
      /\ l = t[n].lft /\ r = t[n].rght /\ w = r - l + 1 /\ w = SubtreeWidth(t[n]) /\ l < r
  BY <1>t, <1>b, <1>w
<1>3. PICK v : v = Execute(t, DeleteBlock(l, r))
  OBVIOUS
<1>4. /\ IsTable(v)
      /\ \A x : x \in DOMAIN v <=> (x \in DOMAIN t /\ ~(t[x].lft >= l /\ t[x].rght <= r))
      /\ \A x \in DOMAIN v : v[x] = t[x]
  <2>1. IsTable(t) /\ l \in Int /\ r \in Int
    BY <1>2
  <2>2. IsTable(v) /\ Deleted(t, l, r, v)
    BY <2>1, <1>3, ExecuteDelete
  <2> QED
    BY <2>2 DEF Deleted
<1>5. DOMAIN v = DOMAIN t \ Inside(t, n)
  BY <1>2, <1>4, ShapeFacts DEF Inside
<1>6. Good(v)
  BY <1>2, <1>4, <1>5, RestIsGood
<1>7. PICK u : Path(v, ShiftForDelete(r, w), u) /\ GapClosed(v, r, w, u)
  BY <1>2, <1>6, ShiftForDeleteClosesGap
<1>8. \A x \in DOMAIN u : /\ u[x].lft = Closed(t[x].lft, t[n]) /\ u[x].rght = Closed(t[x].rght, t[n])
                          /\ u[x].parent = t[x].parent /\ u[x].depth = t[x].depth
  BY <1>2, <1>4, <1>7, ShapeFacts DEF Closed, GapClosed
<1>9. Shape(u, M - w)
  <2>1. Pruned(t, n, u)
    BY <1>5, <1>7, <1>8 DEF Pruned, GapClosed
  <2> QED
    BY <2>1, <1>2, Prune
<1>10. Path(t, <<DeleteBlock(l, r)>> \o ShiftForDelete(r, w), u)
  <2>1. Path(t, <<DeleteBlock(l, r)>>, v)
    BY <1>1, <1>2, <1>3, <1>6, PathOne
  <2> QED
    BY <2>1, <1>7, PathConcat
<1>11. DeleteScript(n) = <<DeleteBlock(l, r)>> \o ShiftForDelete(r, w)
  BY <1>2 DEF DeleteScript
<1> QED
  BY <1>2, <1>9, <1>10, <1>11 DEF Reaches

\* A node that goes leaves its children to its parent.
LEMMA AdoptedIsGood ==
  ASSUME NEW t, IsTable(t), NEW M, Shape(t, M), NEW n \in DOMAIN t,
         NEW v, IsTable(v), DOMAIN v = DOMAIN t,
         \A x \in DOMAIN t : v[x].parent = (IF t[x].parent = n THEN t[n].parent ELSE t[x].parent)
  PROVE  Good(v)
<1> DEFINE rank == [x \in DOMAIN v |-> t[x].lft]
<1>1. rank \in [DOMAIN v -> Nat]
  BY ShapeFacts
<1>2. ASSUME NEW x \in DOMAIN v
      PROVE  v[x].parent = Root \/ (v[x].parent \in DOMAIN v /\ rank[v[x].parent] < rank[x])
  <2>1. \A y \in DOMAIN t : t[y].parent = Root \/ (t[y].parent \in DOMAIN t /\ t[t[y].parent].lft < t[y].lft)
    BY DEF Shape, Typed, ParentOK, Above
  <2>2. rank[x] = t[x].lft /\ \A y \in DOMAIN t : rank[y] = t[y].lft /\ t[y].lft \in Int
    BY ShapeFacts
  <2> HIDE DEF rank
  <2>3. CASE t[x].parent # n
    BY <2>1, <2>2, <2>3
  <2>4. CASE t[x].parent = n
    <3>1. v[x].parent = t[n].parent /\ (n = Root \/ t[n].lft < t[x].lft)
      BY <2>1, <2>4
    <3>2. n # Root
      BY DEF Shape, Typed
    <3> QED
      BY <2>1, <2>2, <3>1, <3>2
  <2> QED
    BY <2>3, <2>4
<1> HIDE DEF rank
<1> QED
  BY <1>1, <1>2 DEF Good, Rooted

\* The tables after each step of a removal.
RemovedInSteps(t, n, a, b, c) ==
  /\ ChildrenAdopted(t, n, t[n].parent, a)
  /\ BlockShifted(a, t[n].lft + 1, t[n].rght - 1, -1, -1, b)
  /\ GapClosed(b, t[n].rght, 2, c)

\* To give the children away and to close the gap is to promote the children.
LEMMA StepsPromote ==
  ASSUME NEW t, NEW M, Shape(t, M), NEW n \in DOMAIN t,
         NEW a, NEW b, NEW c, RemovedInSteps(t, n, a, b, c)
  PROVE  DOMAIN c = DOMAIN t /\ ChildrenPromoted(t, n, c)
<1> DEFINE l == t[n].lft
           r == t[n].rght
<1> USE DEF ChildrenAdopted, ChildrenPromoted, RemovedInSteps
<1>1. DOMAIN a = DOMAIN t /\ DOMAIN b = DOMAIN t /\ DOMAIN c = DOMAIN t
  BY DEF BlockShifted, GapClosed
<1>2. l \in Int /\ r \in Int /\ l < r
  BY ShapeFacts
<1>3. ASSUME NEW x \in DOMAIN t \ {n}
      PROVE  /\ c[x].lft = Promoted(t[x].lft, t[n]) /\ c[x].rght = Promoted(t[x].rght, t[n])
             /\ c[x].parent = (IF t[x].parent = n THEN t[n].parent ELSE t[x].parent)
             /\ c[x].depth = (IF Above(t, n, x) THEN t[x].depth - 1 ELSE t[x].depth)
  <2> DEFINE xl == t[x].lft
             xr == t[x].rght
  <2>1. /\ xl \in Int /\ xr \in Int /\ xl < xr /\ t[x].depth \in Int
        /\ \/ l < xl /\ xr < r
           \/ xl < l /\ r < xr
           \/ xr < l
           \/ r < xl
    BY ShapeFacts DEF Apart
  <2>2. Above(t, n, x) <=> (l < xl /\ xr < r)
    BY DEF Above
  <2>3. /\ b[x].lft = (IF Above(t, n, x) THEN xl - 1 ELSE xl) /\ b[x].rght = (IF Above(t, n, x) THEN xr - 1 ELSE xr)
        /\ b[x].depth = (IF Above(t, n, x) THEN t[x].depth - 1 ELSE t[x].depth)
        /\ b[x].parent = (IF t[x].parent = n THEN t[n].parent ELSE t[x].parent)
    <3>1. (a[x].lft >= l + 1 /\ a[x].rght <= r - 1) <=> Above(t, n, x)
      BY <1>2, <2>1, <2>2
    <3> QED
      BY <3>1, <1>1, <1>2, <2>1 DEF BlockShifted
  <2>4. /\ c[x].lft = (IF b[x].lft > r THEN b[x].lft - 2 ELSE b[x].lft)
        /\ c[x].rght = (IF b[x].rght >= r + 1 THEN b[x].rght - 2 ELSE b[x].rght)
        /\ c[x].parent = b[x].parent /\ c[x].depth = b[x].depth
    BY <1>1 DEF GapClosed
  <2> HIDE DEF xl, xr
  <2>5. /\ c[x].lft = (IF xl > r THEN xl - 2 ELSE IF xl > l THEN xl - 1 ELSE xl)
        /\ c[x].rght = (IF xr > r THEN xr - 2 ELSE IF xr > l THEN xr - 1 ELSE xr)
    BY <1>2, <2>1, <2>2, <2>3, <2>4
  <2> QED
    BY <2>3, <2>4, <2>5 DEF Promoted, xl, xr
<1> QED
  BY <1>1, <1>3

\* removeFromTree() makes a nested set of a nested set.
LEMMA RemoveReaches ==
  ASSUME IsTable(rows), NEW M, Shape(rows, M), NEW n \in DOMAIN rows
  PROVE  Reaches(rows, RemoveScript(n))
<1>t. PICK t : t = rows
  OBVIOUS
<1>b. PICK l, r, p : l \in Int /\ r \in Int /\ l = t[n].lft /\ r = t[n].rght /\ p = t[n].parent
  BY <1>t, ShapeFacts
<1>1. /\ t = rows /\ IsTable(t) /\ Shape(t, M) /\ n \in DOMAIN t /\ n \in Nodes /\ n # Root
      /\ l \in Int /\ r \in Int /\ l = t[n].lft /\ r = t[n].rght /\ p = t[n].parent /\ p \in Nodes \cup {Root}
      /\ 1 <= l /\ l < r /\ r <= M /\ M \in Nat /\ Good(t)
  BY <1>t, <1>b, ShapeFacts, RowFields, ShapeIsRooted DEF Good
<1>a. PICK a : a = Execute(t, Adopt(n, p))
  OBVIOUS
<1>2. /\ IsTable(a) /\ ChildrenAdopted(t, n, p, a) /\ DOMAIN a = DOMAIN t
      /\ \A x \in DOMAIN t : /\ a[x].parent = (IF t[x].parent = n THEN p ELSE t[x].parent)
                             /\ a[x].lft = t[x].lft /\ a[x].rght = t[x].rght
  <2>1. IsTable(a) /\ ChildrenAdopted(t, n, p, a)
    BY <1>1, <1>a, ExecuteAdopt
  <2> QED
    BY <2>1 DEF ChildrenAdopted
<1>3. Good(a) /\ Path(t, <<Adopt(n, p)>>, a)
  <2>1. Good(a)
    BY <1>1, <1>2, AdoptedIsGood
  <2> QED
    BY <2>1, <1>1, <1>a, PathOne
<1> DEFINE rise == IF IsLeaf(t[n]) THEN <<>> ELSE <<ShiftBlock(l + 1, r - 1, -1, -1)>>
<1>4. \E b : Path(a, rise, b) /\ Good(b) /\ BlockShifted(a, l + 1, r - 1, -1, -1, b)
  <2>1. CASE IsLeaf(t[n])
    <3>1. r = l + 1
      BY <2>1, <1>1 DEF IsLeaf
    <3>2. \A x \in DOMAIN a : ~(a[x].lft >= l + 1 /\ a[x].rght <= r - 1)
      BY <3>1, <1>1, <1>2, ShapeFacts
    <3>3. BlockShifted(a, l + 1, r - 1, -1, -1, a)
      BY <3>2 DEF BlockShifted
    <3> QED
      BY <2>1, <3>3, <1>3, PathEmpty
  <2>2. CASE ~IsLeaf(t[n])
    <3>1. PICK lo \in Int, hi \in Int, by \in Int : lo = l + 1 /\ hi = r - 1 /\ by = -1
      BY <1>1
    <3>2. \E b : Path(a, <<ShiftBlock(lo, hi, by, by)>>, b) /\ Good(b) /\ BlockShifted(a, lo, hi, by, by, b)
      BY <3>1, <1>3, ShiftBlockShifts
    <3> QED
      BY <2>2, <3>1, <3>2
  <2> QED
    BY <2>1, <2>2
<1> HIDE DEF rise
<1>5. PICK b : Path(a, rise, b) /\ Good(b) /\ BlockShifted(a, l + 1, r - 1, -1, -1, b)
  BY <1>4
<1>6. PICK c : Path(b, ShiftForDelete(r, 2), c) /\ Good(c) /\ GapClosed(b, r, 2, c)
  <2>1. PICK w \in Int : w = 2
    OBVIOUS
  <2> QED
    BY <2>1, <1>1, <1>5, ShiftForDeleteClosesGap
<1>7. DOMAIN c = DOMAIN t /\ ChildrenPromoted(t, n, c)
  <2>1. RemovedInSteps(t, n, a, b, c)
    BY <1>1, <1>2, <1>5, <1>6 DEF RemovedInSteps
  <2> QED
    BY <2>1, <1>1, StepsPromote
<1> DEFINE s == [x \in DOMAIN t \ {n} |-> c[x]]
<1>8. Shape(s, M - 2)
  <2>1. DOMAIN s = DOMAIN t \ {n} /\ \A x \in DOMAIN s : s[x] = c[x]
    OBVIOUS
  <2> HIDE DEF s
  <2> QED
    <3>1. ChildrenPromoted(t, n, s)
      BY <2>1, <1>7 DEF ChildrenPromoted
    <3> QED
      BY <2>1, <3>1, <1>1, Promote
<1>9. DOMAIN s = DOMAIN t \ {n} /\ \A x \in DOMAIN s : s[x] = c[x]
  OBVIOUS
<1> HIDE DEF s
<1>q. PICK row : row = Row(Root, M - 1, M, 0)
  OBVIOUS
<1>r. row \in Records /\ row.lft = M - 1 /\ row.rght = M /\ row.depth = 0 /\ row.parent = Root
  <2>1. M - 1 \in Int /\ M \in Int
    BY <1>1
  <2> QED
    BY <2>1, <1>q DEF Row, Records
<1>u. PICK u : u = Execute(c, Place(n, row))
  OBVIOUS
<1>10. IsTable(u) /\ DOMAIN u = DOMAIN c /\ \A x \in DOMAIN c : u[x] = IF x = n THEN row ELSE c[x]
  BY <1>6, <1>r, <1>u, ExecutePlace, SMTT(60) DEF Good
<1>11. Shape(u, M)
  <2>1. PICK at, d, K : at \in Int /\ d \in Int /\ K = M - 2 /\ at = M - 1 /\ at = K + 1 /\ K + 2 = M /\ K \in Nat /\ d = 0 /\ d = DepthBelow(s, Root)
    BY <1>1, <1>8, ShapeFacts DEF DepthBelow
  <2>2. at \in 1..K + 1 /\ PlaceUnder(s, at, Root)
    BY <2>1, <1>8, LastRootPlace
  <2>3. \A x \in DOMAIN s : s[x].lft < at /\ s[x].rght < at /\ s[x].lft \in Int /\ s[x].rght \in Int
    BY <2>1, <1>8, ShapeFacts
  <2>4. \A x \in DOMAIN s : /\ u[x].lft = Opened(s[x].lft, at, 2) /\ u[x].rght = Opened(s[x].rght, at, 2)
                            /\ u[x].parent = s[x].parent /\ u[x].depth = s[x].depth
    BY <2>1, <2>3, <1>7, <1>9, <1>10 DEF Opened
  <2>5. DOMAIN u = DOMAIN s \cup {n} /\ u[n].lft = at /\ u[n].rght = at + 1 /\ u[n].parent = Root /\ u[n].depth = d
    <3>1. DOMAIN u = DOMAIN s \cup {n} /\ u[n] = row
      BY <1>1, <1>7, <1>9, <1>10
    <3> QED
      BY <3>1, <2>1, <1>r
  <2> QED
    BY <2>1, <2>2, <2>4, <2>5, <1>1, <1>8, <1>9, GraftOne
<1>12. Path(c, <<Place(n, row)>>, u)
  BY <1>6, <1>10, <1>11, <1>u, ShapeIsRooted, PathOne DEF Good
<1>13. Path(t, ((<<Adopt(n, p)>> \o rise) \o ShiftForDelete(r, 2)) \o <<Place(n, row)>>, u)
  BY <1>3, <1>5, <1>6, <1>12, PathConcat
<1>14. RemoveScript(n) = ((<<Adopt(n, p)>> \o rise) \o ShiftForDelete(r, 2)) \o <<Place(n, row)>>
  BY <1>1, <1>q, MaxRghtIsLast DEF RemoveScript, rise
<1> QED
  BY <1>1, <1>11, <1>13, <1>14 DEF Reaches

\* The nested set that is left without a subtree, and the subtree as one of its own.
Rest(t, n) == [x \in DOMAIN t \ Inside(t, n) |->
                 Row(t[x].parent, Closed(t[x].lft, t[n]), Closed(t[x].rght, t[n]), t[x].depth)]

Branch(t, n) == [x \in Inside(t, n) |->
                   Row(IF x = n THEN Root ELSE t[x].parent,
                       t[x].lft - t[n].lft + 1, t[x].rght - t[n].lft + 1, t[x].depth - t[n].depth)]

\* The subtree of n goes to a number of what is left, below q and at a depth.
SubtreeMoved(t, n, at, q, d, u) ==
  /\ DOMAIN u = DOMAIN t
  /\ \A x \in Inside(t, n) : /\ u[x].lft = t[x].lft - t[n].lft + at /\ u[x].rght = t[x].rght - t[n].lft + at
                             /\ u[x].parent = (IF x = n THEN q ELSE t[x].parent)
                             /\ u[x].depth = t[x].depth - t[n].depth + d
  /\ \A x \in DOMAIN t \ Inside(t, n) :
       /\ u[x].lft = Opened(Closed(t[x].lft, t[n]), at, SubtreeWidth(t[n]))
       /\ u[x].rght = Opened(Closed(t[x].rght, t[n]), at, SubtreeWidth(t[n]))
       /\ u[x].parent = t[x].parent /\ u[x].depth = t[x].depth

\* Both parts of a nested set are nested sets.
LEMMA RestAndBranch ==
  ASSUME NEW t, NEW M, Shape(t, M), NEW n \in DOMAIN t
  PROVE  /\ Shape(Rest(t, n), M - SubtreeWidth(t[n])) /\ Shape(Branch(t, n), SubtreeWidth(t[n]))
         /\ DOMAIN Rest(t, n) = DOMAIN t \ Inside(t, n) /\ DOMAIN Branch(t, n) = Inside(t, n)
         /\ SubtreeWidth(t[n]) \in Nat
<1>1. PICK s, b : s = Rest(t, n) /\ b = Branch(t, n)
  OBVIOUS
<1>2. /\ DOMAIN s = DOMAIN t \ Inside(t, n)
      /\ \A x \in DOMAIN s : /\ s[x].lft = Closed(t[x].lft, t[n]) /\ s[x].rght = Closed(t[x].rght, t[n])
                             /\ s[x].parent = t[x].parent /\ s[x].depth = t[x].depth
  BY <1>1 DEF Rest, Row
<1>3. /\ DOMAIN b = Inside(t, n)
      /\ \A x \in DOMAIN b : /\ b[x].lft = t[x].lft - t[n].lft + 1 /\ b[x].rght = t[x].rght - t[n].lft + 1
                             /\ b[x].parent = (IF x = n THEN Root ELSE t[x].parent)
                             /\ b[x].depth = t[x].depth - t[n].depth
  BY <1>1 DEF Branch, Row
<1>4. Shape(s, M - SubtreeWidth(t[n])) /\ SubtreeWidth(t[n]) \in Nat
  <2>1. Pruned(t, n, s)
    BY <1>2 DEF Pruned
  <2> QED
    BY <2>1, Prune
<1>5. Shape(b, SubtreeWidth(t[n]))
  BY <1>3, Subtree
<1> QED
  BY <1>1, <1>2, <1>3, <1>4, <1>5

\* Within a subtree only its root has a parent outside.
LEMMA InsideHasParent ==
  ASSUME NEW t, NEW M, Shape(t, M), NEW n \in DOMAIN t, NEW x \in Inside(t, n), x # n
  PROVE  t[x].parent # Root
<1>1. Above(t, n, x)
  BY ShapeFacts DEF Apart, Above, Inside
<1> QED
  BY <1>1 DEF Shape, ParentOK, Inside

\* A nested set stays one when a subtree moves.
LEMMA MoveKeepsShape ==
  ASSUME NEW t, NEW M, Shape(t, M), NEW n \in DOMAIN t,
         NEW w, w = SubtreeWidth(t[n]), NEW s, s = Rest(t, n),
         NEW q \in DOMAIN s \cup {Root}, NEW at \in 1..(M - w) + 1, PlaceUnder(s, at, q),
         NEW d \in Int, d = DepthBelow(s, q), NEW u, SubtreeMoved(t, n, at, q, d, u)
  PROVE  Shape(u, M)
<1>1. PICK b : b = Branch(t, n)
  OBVIOUS
<1>2. /\ Shape(s, M - w) /\ Shape(b, w) /\ w \in Nat /\ M \in Nat
      /\ DOMAIN s = DOMAIN t \ Inside(t, n) /\ DOMAIN b = Inside(t, n)
  BY <1>1, RestAndBranch, ShapeFacts
<1>3. \A x \in DOMAIN t \ Inside(t, n) :
        /\ u[x].lft = Opened(s[x].lft, at, w) /\ u[x].rght = Opened(s[x].rght, at, w)
        /\ u[x].parent = s[x].parent /\ u[x].depth = s[x].depth
  BY DEF Rest, Row, SubtreeMoved
<1>4. \A x \in Inside(t, n) :
        /\ u[x].lft = b[x].lft + at - 1 /\ u[x].rght = b[x].rght + at - 1
        /\ u[x].parent = (IF b[x].parent = Root THEN q ELSE b[x].parent)
        /\ u[x].depth = b[x].depth + d
  <2> SUFFICES ASSUME NEW x \in Inside(t, n)
               PROVE  /\ u[x].lft = b[x].lft + at - 1 /\ u[x].rght = b[x].rght + at - 1
                      /\ u[x].parent = (IF b[x].parent = Root THEN q ELSE b[x].parent)
                      /\ u[x].depth = b[x].depth + d
    OBVIOUS
  <2>1. /\ b[x].lft = t[x].lft - t[n].lft + 1 /\ b[x].rght = t[x].rght - t[n].lft + 1
        /\ b[x].parent = (IF x = n THEN Root ELSE t[x].parent) /\ b[x].depth = t[x].depth - t[n].depth
    BY <1>1 DEF Branch, Row
  <2>2. /\ u[x].lft = t[x].lft - t[n].lft + at /\ u[x].rght = t[x].rght - t[n].lft + at
        /\ u[x].parent = (IF x = n THEN q ELSE t[x].parent) /\ u[x].depth = t[x].depth - t[n].depth + d
    BY DEF SubtreeMoved
  <2>3. /\ t[x].lft \in Int /\ t[x].rght \in Int /\ t[n].lft \in Int /\ at \in Int
        /\ t[x].depth \in Int /\ t[n].depth \in Int
    BY <1>2, ShapeFacts DEF Inside
  <2>4. x # n => t[x].parent # Root
    BY InsideHasParent
  <2> QED
    BY <2>1, <2>2, <2>3, <2>4
<1>5. Grafted(s, b, w, at, q, d, u)
  <2>1. DOMAIN u = DOMAIN s \cup DOMAIN b /\ DOMAIN s \cap DOMAIN b = {}
    BY <1>2 DEF SubtreeMoved, Inside
  <2> QED
    BY <2>1, <1>2, <1>3, <1>4 DEF Grafted
<1>6. Shape(u, (M - w) + w)
  <2>1. PICK K : K = M - w
    OBVIOUS
  <2>2. Shape(s, K) /\ at \in 1..K + 1
    BY <2>1, <1>2
  <2>3. Shape(u, K + w)
    BY <2>2, <1>2, <1>5, Graft
  <2> QED
    BY <2>1, <2>3
<1>7. (M - w) + w = M
  BY <1>2
<1> QED
  BY <1>6, <1>7

\* The tables after each step of a move, but for the parent.
MovedInSteps(t, n, at, d, a, b, c, e) ==
  LET park == -Offset - t[n].rght
  IN  /\ BlockShifted(t, t[n].lft, t[n].rght, park, 0, a)
      /\ GapClosed(a, t[n].rght, SubtreeWidth(t[n]), b)
      /\ RoomMade(b, at, SubtreeWidth(t[n]), c)
      /\ BlockShifted(c, t[n].lft + park, t[n].rght + park, at - t[n].lft - park, d - t[n].depth, e)

\* A subtree that is parked below zero is out of the way of the shifts.
LEMMA StepsMove ==
  ASSUME NEW t, NEW M, Shape(t, M), NEW n \in DOMAIN t, NEW at \in Nat, at >= 1,
         NEW q, NEW d \in Int, \A x \in DOMAIN Rest(t, n) : Rest(t, n)[x].lft # at,
         NEW a, NEW b, NEW c, NEW e, MovedInSteps(t, n, at, d, a, b, c, e),
         NEW u, DOMAIN u = DOMAIN e,
         \A x \in DOMAIN e : /\ u[x].parent = (IF x = n THEN q ELSE e[x].parent)
                             /\ u[x].lft = e[x].lft /\ u[x].rght = e[x].rght /\ u[x].depth = e[x].depth
  PROVE  SubtreeMoved(t, n, at, q, d, u)
<1> DEFINE l == t[n].lft
           r == t[n].rght
           w == SubtreeWidth(t[n])
           park == -Offset - r
<1>1. l \in Int /\ r \in Int /\ 1 <= l /\ l < r /\ w = r - l + 1 /\ t[n].depth \in Int /\ Offset \in Nat /\ Offset > 0
  BY ShapeFacts DEF SubtreeWidth, Offset
<1>2. DOMAIN a = DOMAIN t /\ DOMAIN b = DOMAIN t /\ DOMAIN c = DOMAIN t /\ DOMAIN e = DOMAIN t /\ n \in Inside(t, n)
  BY <1>1 DEF MovedInSteps, BlockShifted, GapClosed, RoomMade, Inside
<1>3. /\ BlockShifted(t, l, r, park, 0, a) /\ GapClosed(a, r, w, b) /\ RoomMade(b, at, w, c)
      /\ BlockShifted(c, l + park, r + park, at - l - park, d - t[n].depth, e)
  BY DEF MovedInSteps
<1>s. \A x \in DOMAIN t \ Inside(t, n) : Closed(t[x].lft, t[n]) # at
  BY DEF Rest, Row
<1> HIDE DEF l, r, w, park
<1>p. park = -Offset - r
  BY DEF park
<1>4. ASSUME NEW x \in Inside(t, n)
      PROVE  /\ e[x].lft = t[x].lft - l + at /\ e[x].rght = t[x].rght - l + at
             /\ e[x].parent = t[x].parent /\ e[x].depth = t[x].depth - t[n].depth + d
  <2>1. x \in DOMAIN t /\ t[x].lft \in Int /\ t[x].rght \in Int /\ t[x].lft < t[x].rght /\ l <= t[x].lft /\ t[x].rght <= r
        /\ t[x].depth \in Int
    BY ShapeFacts DEF Inside, l, r
  <2>2. /\ a[x].lft = t[x].lft + park /\ a[x].rght = t[x].rght + park
        /\ a[x].parent = t[x].parent /\ a[x].depth = t[x].depth
    BY <2>1, <1>3, <1>1 DEF BlockShifted
  <2>3. a[x].lft < 0 /\ a[x].rght < 0 /\ a[x].lft \in Int /\ a[x].rght \in Int
    BY <2>1, <2>2, <1>1, <1>p
  <2>4. /\ b[x].lft = a[x].lft /\ b[x].rght = a[x].rght
        /\ b[x].parent = a[x].parent /\ b[x].depth = a[x].depth
    BY <2>1, <2>3, <1>1, <1>2, <1>3 DEF GapClosed
  <2>5. /\ c[x].lft = b[x].lft /\ c[x].rght = b[x].rght
        /\ c[x].parent = b[x].parent /\ c[x].depth = b[x].depth
    BY <2>1, <2>3, <2>4, <1>2, <1>3 DEF RoomMade
  <2>6. c[x].lft >= l + park /\ c[x].rght <= r + park
    BY <2>1, <2>2, <2>4, <2>5, <1>1, <1>p
  <2>7. /\ e[x].lft = c[x].lft + (at - l - park) /\ e[x].rght = c[x].rght + (at - l - park)
        /\ e[x].parent = c[x].parent /\ e[x].depth = c[x].depth + (d - t[n].depth)
    BY <2>1, <2>6, <1>2, <1>3 DEF BlockShifted
  <2>8. park \in Int
    BY <1>1, <1>p
  <2> QED
    BY <2>1, <2>2, <2>4, <2>5, <2>7, <2>8, <1>1
<1>5. ASSUME NEW x \in DOMAIN t \ Inside(t, n)
      PROVE  /\ e[x].lft = Opened(Closed(t[x].lft, t[n]), at, w) /\ e[x].rght = Opened(Closed(t[x].rght, t[n]), at, w)
             /\ e[x].parent = t[x].parent /\ e[x].depth = t[x].depth
  <2>1. /\ t[x].lft \in Int /\ t[x].rght \in Int /\ 1 <= t[x].lft /\ t[x].lft < t[x].rght
        /\ ~(t[x].lft >= l /\ t[x].rght <= r) /\ t[x].lft # r /\ t[x].rght # r /\ (t[x].lft < l \/ r < t[x].lft) /\ (t[x].rght < l \/ r < t[x].rght)
    BY <1>1, ShapeFacts, OutsideFacts DEF Inside, l, r, Above
  <2>2. /\ a[x].lft = t[x].lft /\ a[x].rght = t[x].rght
        /\ a[x].parent = t[x].parent /\ a[x].depth = t[x].depth
    BY <2>1, <1>3 DEF BlockShifted
  <2>3. /\ b[x].lft = Closed(t[x].lft, t[n]) /\ b[x].rght = Closed(t[x].rght, t[n])
        /\ b[x].lft \in Int /\ b[x].rght \in Int /\ 1 <= b[x].lft /\ 1 <= b[x].rght
        /\ b[x].parent = t[x].parent /\ b[x].depth = t[x].depth
    <3>1. /\ b[x].lft = (IF a[x].lft > r THEN a[x].lft - w ELSE a[x].lft)
          /\ b[x].rght = (IF a[x].rght >= r + 1 THEN a[x].rght - w ELSE a[x].rght)
          /\ b[x].parent = a[x].parent /\ b[x].depth = a[x].depth
      BY <1>2, <1>3 DEF GapClosed
    <3>2. /\ Closed(t[x].lft, t[n]) = (IF t[x].lft > r THEN t[x].lft - w ELSE t[x].lft)
          /\ Closed(t[x].rght, t[n]) = (IF t[x].rght > r THEN t[x].rght - w ELSE t[x].rght)
      BY DEF Closed, r, w
    <3> QED
      BY <3>1, <3>2, <2>1, <2>2, <1>1
  <2>4. /\ c[x].lft = Opened(b[x].lft, at, w) /\ c[x].rght = Opened(b[x].rght, at, w)
        /\ c[x].parent = b[x].parent /\ c[x].depth = b[x].depth
    BY <2>3, <1>2, <1>3, <1>s DEF RoomMade, Opened
  <2>5. ~(c[x].rght <= r + park)
    BY <2>3, <2>4, <1>1, <1>p DEF Opened
  <2>6. e[x].lft = c[x].lft /\ e[x].rght = c[x].rght /\ e[x].parent = c[x].parent /\ e[x].depth = c[x].depth
    BY <2>5, <1>2, <1>3 DEF BlockShifted
  <2> QED
    BY <2>3, <2>4, <2>6
<1>6. \A x \in Inside(t, n) : x \in DOMAIN t
  BY DEF Inside
<1> QED
  BY <1>2, <1>4, <1>5, <1>6 DEF SubtreeMoved, l, w

\* One node gets another parent.
OnlyParent(t, n, q, u) ==
  /\ DOMAIN u = DOMAIN t
  /\ \A x \in DOMAIN t : /\ u[x].parent = (IF x = n THEN q ELSE t[x].parent)
                         /\ u[x].lft = t[x].lft /\ u[x].rght = t[x].rght /\ u[x].depth = t[x].depth

\* Two statements, one after the other.
LEMMA PairIsConcat ==
  ASSUME NEW x, NEW y
  PROVE  <<x>> \o <<y>> = <<x, y>>
<1> DEFINE s == <<x>> \o <<y>>
           r == <<x, y>>
<1>1. s \in Seq({x, y}) /\ Len(s) = 2 /\ s[1] = x /\ s[2] = y
  OBVIOUS
<1>2. r \in Seq({x, y}) /\ Len(r) = 2 /\ r[1] = x /\ r[2] = y
  OBVIOUS
<1> HIDE DEF s, r
<1>3. \A i \in 1..Len(s) : s[i] = r[i]
  BY <1>1, <1>2
<1>4. s = r
  BY <1>1, <1>2, <1>3, SeqEqual
<1> QED
  BY <1>4 DEF s, r

\* Three statements, one after the other.
LEMMA TripleIsConcat ==
  ASSUME NEW x, NEW y, NEW z
  PROVE  (<<x>> \o <<y>>) \o <<z>> = <<x, y, z>>
<1> DEFINE s == <<x, y>> \o <<z>>
           r == <<x, y, z>>
<1>1. s \in Seq({x, y, z}) /\ Len(s) = 3 /\ s[1] = x /\ s[2] = y /\ s[3] = z
  OBVIOUS
<1>2. r \in Seq({x, y, z}) /\ Len(r) = 3 /\ r[1] = x /\ r[2] = y /\ r[3] = z
  OBVIOUS
<1>e. <<x>> \o <<y>> = <<x, y>>
  BY PairIsConcat
<1> HIDE DEF s, r
<1>3. \A i \in 1..Len(s) : s[i] = r[i]
  BY <1>1, <1>2
<1>4. s = r
  BY <1>1, <1>2, <1>3, SeqEqual
<1> QED
  BY <1>4, <1>e DEF s, r

\* moveSubtree() moves a subtree to the place that it is told.
LEMMA MoveSubtreeReaches ==
  ASSUME IsTable(rows), NEW M, Shape(rows, M), NEW n \in DOMAIN rows,
         NEW s, s = Rest(rows, n), NEW q \in DOMAIN s \cup {Root},
         NEW at \in 1..(M - SubtreeWidth(rows[n])) + 1, PlaceUnder(s, at, q), \A x \in DOMAIN s : s[x].lft # at,
         NEW d \in Int, d = DepthBelow(s, q)
  PROVE  Reaches(rows, MoveSubtree(n, at, q, d))
<1>t. PICK t : t = rows
  OBVIOUS
<1>1. /\ t = rows /\ IsTable(t) /\ Shape(t, M) /\ n \in DOMAIN t /\ n \in Nodes /\ n # Root /\ M \in Nat /\ Good(t)
      /\ q \in Nodes \cup {Root} /\ DOMAIN s \subseteq DOMAIN t
  BY <1>t, ShapeFacts, RowFields, ShapeIsRooted DEF Good, Rest
<1>b. PICK l \in Int, r \in Int : l = t[n].lft /\ r = t[n].rght /\ 1 <= l /\ l < r
  BY <1>1, ShapeFacts
<1>w. PICK w \in Int, park \in Int, D \in Int : w = SubtreeWidth(t[n]) /\ park = -Offset - r /\ D = d - t[n].depth
  BY <1>1, <1>b, ShapeFacts DEF SubtreeWidth, Offset
<1>i. /\ at \in Int /\ at \in Nat /\ at >= 1 /\ at \in 1..(M - w) + 1
  BY <1>1, <1>w
<1>h. PICK hl \in Int, hr \in Int, back \in Int : hl = l + park /\ hr = r + park /\ back = at - l - park
  BY <1>b, <1>w, <1>i
<1>z. PICK zero \in Int : zero = 0
  OBVIOUS
<1>2. PICK a : Path(t, <<ShiftBlock(l, r, park, zero)>>, a) /\ Good(a) /\ BlockShifted(t, l, r, park, zero, a)
  BY <1>1, <1>b, <1>w, <1>z, ShiftBlockShifts
<1>3. PICK b : Path(a, ShiftForDelete(r, w), b) /\ Good(b) /\ GapClosed(a, r, w, b)
  BY <1>2, <1>b, <1>w, ShiftForDeleteClosesGap
<1>4. PICK c : Path(b, ShiftForInsert(at, w), c) /\ Good(c) /\ RoomMade(b, at, w, c)
  BY <1>3, <1>w, <1>i, ShiftForInsertMakesRoom
<1>5. PICK e : Path(c, <<ShiftBlock(hl, hr, back, D)>>, e) /\ Good(e) /\ BlockShifted(c, hl, hr, back, D, e)
  BY <1>4, <1>w, <1>h, ShiftBlockShifts
<1>6. MovedInSteps(t, n, at, d, a, b, c, e)
  BY <1>b, <1>w, <1>h, <1>z, <1>2, <1>3, <1>4, <1>5 DEF MovedInSteps
<1>u. PICK u : u = Execute(e, SetParent(n, q))
  OBVIOUS
<1>7. IsTable(u) /\ OnlyParent(e, n, q, u)
  <2>1. IsTable(e)
    BY <1>5 DEF Good
  <2> QED
    BY <2>1, <1>1, <1>u, ExecuteParent, SMTT(60) DEF OnlyParent
<1>8. SubtreeMoved(t, n, at, q, d, u)
  <2>1. /\ DOMAIN u = DOMAIN e
        /\ \A x \in DOMAIN e : /\ u[x].parent = (IF x = n THEN q ELSE e[x].parent)
                               /\ u[x].lft = e[x].lft /\ u[x].rght = e[x].rght /\ u[x].depth = e[x].depth
    BY <1>7 DEF OnlyParent
  <2>2. \A x \in DOMAIN Rest(t, n) : Rest(t, n)[x].lft # at
    BY <1>1
  <2> QED
    BY <2>1, <2>2, <1>1, <1>6, <1>i, StepsMove, SMTT(60)
<1>9. Shape(u, M)
  BY <1>1, <1>8, <1>w, <1>i, MoveKeepsShape
<1>10. Path(e, <<SetParent(n, q)>>, u)
  BY <1>5, <1>7, <1>9, <1>u, ShapeIsRooted, PathOne DEF Good
<1>11. Path(c, <<ShiftBlock(hl, hr, back, D)>> \o <<SetParent(n, q)>>, u)
  BY <1>5, <1>10, PathConcat
<1>12. <<ShiftBlock(hl, hr, back, D)>> \o <<SetParent(n, q)>> = <<ShiftBlock(hl, hr, back, D), SetParent(n, q)>>
  BY PairIsConcat
<1>13. Path(t, ((<<ShiftBlock(l, r, park, zero)>> \o ShiftForDelete(r, w)) \o ShiftForInsert(at, w))
               \o <<ShiftBlock(hl, hr, back, D), SetParent(n, q)>>, u)
  BY <1>2, <1>3, <1>4, <1>11, <1>12, PathConcat
<1>14. MoveSubtree(n, at, q, d) =
         ((<<ShiftBlock(l, r, park, zero)>> \o ShiftForDelete(r, w)) \o ShiftForInsert(at, w))
            \o <<ShiftBlock(hl, hr, back, D), SetParent(n, q)>>
  BY <1>1, <1>b, <1>w, <1>h, <1>z DEF MoveSubtree
<1> QED
  BY <1>1, <1>9, <1>13, <1>14 DEF Reaches

\* moveTo() makes a nested set of a nested set.
LEMMA MoveReaches ==
  ASSUME IsTable(rows), NEW M, Shape(rows, M), NEW n \in DOMAIN rows,
         NEW p \in (DOMAIN rows \cup {Root}) \ Inside(rows, n)
  PROVE  Reaches(rows, MoveScript(n, p))
<1>1. PICK s, K : /\ s = Rest(rows, n) /\ K = M - SubtreeWidth(rows[n]) /\ Shape(s, K) /\ K \in Nat /\ M \in Nat
                  /\ DOMAIN s = DOMAIN rows \ Inside(rows, n) /\ SubtreeWidth(rows[n]) \in Nat
  BY RestAndBranch, ShapeFacts
<1>2. rows[n].rght \in Int /\ rows[n].lft \in Int /\ rows[n].lft < rows[n].rght /\ rows[n].rght <= M
      /\ SubtreeWidth(rows[n]) = rows[n].rght - rows[n].lft + 1
  BY ShapeFacts DEF SubtreeWidth
<1>3. CASE p = Root
  <2>1. PICK at, d \in Int : at = K + 1 /\ d = 0
    BY <1>1
  <2>2. MoveScript(n, p) = MoveSubtree(n, at, p, d)
    <3>1. M + 1 > rows[n].rght /\ M + 1 - SubtreeWidth(rows[n]) = at
      BY <1>1, <1>2, <2>1
    <3> QED
      <4>1. MaxRght(rows) = M
        BY MaxRghtIsLast
      <4>2. MoveScript(n, Root) =
              MoveSubtree(n, IF InsertAsRoot(M).lft > rows[n].rght THEN InsertAsRoot(M).lft - SubtreeWidth(rows[n])
                             ELSE InsertAsRoot(M).lft, Root, InsertAsRoot(M).depth)
        BY <4>1 DEF MoveScript
      <4>3. InsertAsRoot(M).lft = M + 1 /\ InsertAsRoot(M).depth = d
        BY <2>1 DEF InsertAsRoot
      <4>4. (IF InsertAsRoot(M).lft > rows[n].rght THEN InsertAsRoot(M).lft - SubtreeWidth(rows[n])
             ELSE InsertAsRoot(M).lft) = at
        BY <3>1, <4>3, <1>1, <1>2
      <4> QED
        BY <4>2, <4>3, <4>4, <1>3, Zenon
  <2>3. /\ at \in 1..(M - SubtreeWidth(rows[n])) + 1 /\ PlaceUnder(s, at, p) /\ d = DepthBelow(s, p)
        /\ \A x \in DOMAIN s : s[x].lft # at
    BY <1>1, <1>3, <2>1, LastRootPlace, ShapeFacts DEF DepthBelow
  <2> QED
    BY <1>1, <1>3, <2>1, <2>2, <2>3, MoveSubtreeReaches
<1>4. CASE p # Root
  <2>1. p \in DOMAIN rows /\ p \in DOMAIN s
    BY <1>1, <1>4
  <2>2. PICK at, d \in Int : at = s[p].rght /\ d = rows[p].depth + 1
    <3>1. s[p].rght \in Int /\ rows[p].depth \in Int
      BY <1>1, <2>1, ShapeFacts
    <3> QED
      BY <3>1
  <2>3. s[p].rght = Closed(rows[p].rght, rows[n]) /\ s[p].depth = rows[p].depth
    BY <1>1, <2>1 DEF Rest, Row
  <2>4. MoveScript(n, p) = MoveSubtree(n, at, p, d)
    <3>1. (IF rows[p].rght > rows[n].rght THEN rows[p].rght - SubtreeWidth(rows[n]) ELSE rows[p].rght) = at
      BY <2>2, <2>3 DEF Closed
    <3> QED
      BY <3>1, <2>2, <1>4 DEF MoveScript, InsertAsLastChild
  <2>5. /\ at \in 1..(M - SubtreeWidth(rows[n])) + 1 /\ PlaceUnder(s, at, p) /\ d = DepthBelow(s, p)
        /\ \A x \in DOMAIN s : s[x].lft # at
    <3>1. s[p].rght \in 1..K /\ PlaceUnder(s, s[p].rght, p) /\ \A x \in DOMAIN s : s[x].lft # s[p].rght
      BY <1>1, <2>1, LastChildPlace
    <3> QED
      BY <3>1, <1>1, <1>4, <2>1, <2>2, <2>3 DEF DepthBelow
  <2> QED
    BY <1>1, <2>1, <2>2, <2>4, <2>5, MoveSubtreeReaches
<1> QED
  BY <1>3, <1>4

\* The elements of a set in the order of numbers of their own.
LEMMA InOrderSorts ==
  ASSUME NEW S, IsFiniteSet(S), NEW number, \A x \in S : number[x] \in Int,
         \A x, y \in S : x # y => number[x] # number[y],
         NEW s, s = InOrder(S, number)
  PROVE  /\ Cardinality(S) \in Nat /\ s \in [1..Cardinality(S) -> S]
         /\ \A i, j \in 1..Cardinality(S) : i < j => number[s[i]] < number[s[j]]
         /\ \A x \in S : \E i \in 1..Cardinality(S) : s[i] = x
<1> DEFINE N == Cardinality(S)
           below(x) == {y \in S : number[y] <= number[x]}
           position == [x \in S |-> Cardinality(below(x))]
<1>1. N \in Nat /\ IsFiniteSet(1..N) /\ Cardinality(1..N) = N
  BY FS_CardinalityType, FS_Interval
<1>2. ASSUME NEW x \in S
      PROVE  IsFiniteSet(below(x)) /\ Cardinality(below(x)) \in 1..N
  <2>1. below(x) \in SUBSET S /\ x \in below(x)
    OBVIOUS
  <2> HIDE DEF below
  <2>2. IsFiniteSet(below(x)) /\ Cardinality(below(x)) <= N
    BY <2>1, FS_Subset
  <2>3. Cardinality(below(x)) \in Nat /\ Cardinality(below(x)) # 0
    BY <2>1, <2>2, FS_CardinalityType, FS_EmptySet
  <2> QED
    BY <2>2, <2>3, <1>1
<1>3. ASSUME NEW x \in S, NEW y \in S, number[x] < number[y]
      PROVE  position[x] < position[y]
  <2>1. below(x) \in SUBSET below(y) /\ y \in below(y) /\ y \notin below(x)
    BY <1>3
  <2>2. IsFiniteSet(below(y)) /\ Cardinality(below(x)) \in Nat /\ Cardinality(below(y)) \in Nat
    <3> HIDE DEF below
    <3>1. /\ IsFiniteSet(below(x)) /\ Cardinality(below(x)) \in 1..N
          /\ IsFiniteSet(below(y)) /\ Cardinality(below(y)) \in 1..N
      BY <1>2
    <3> QED
      BY <3>1, <1>1
  <2>3. position[x] = Cardinality(below(x)) /\ position[y] = Cardinality(below(y))
    OBVIOUS
  <2> HIDE DEF below, position
  <2>4. Cardinality(below(x)) <= Cardinality(below(y)) /\ Cardinality(below(y)) # Cardinality(below(x))
    BY <2>1, <2>2, FS_Subset
  <2> QED
    BY <2>2, <2>3, <2>4
<1>4. position \in [S -> 1..N]
  BY <1>2
<1> HIDE DEF position
<1>5. position \in Surjection(S, 1..N)
  <2>1. \A x, y \in S : x # y => position[x] # position[y]
    <3> SUFFICES ASSUME NEW x \in S, NEW y \in S, x # y PROVE position[x] # position[y]
      OBVIOUS
    <3>1. position[x] \in 1..N /\ position[y] \in 1..N
      BY <1>4
    <3>2. number[x] < number[y] \/ number[y] < number[x]
      OBVIOUS
    <3> QED
      BY <3>1, <3>2, <1>1, <1>3
  <2>2. position \in Injection(S, 1..N)
    BY <2>1, <1>4 DEF Injection, IsInjective
  <2> QED
    BY <2>2, <1>1, FS_Injection
<1>6. \A i \in 1..N : \E x \in S : position[x] = i
  BY <1>5 DEF Surjection
<1> DEFINE sorted == [i \in 1..N |-> CHOOSE x \in S : position[x] = i]
<1>7. \A i \in 1..N : sorted[i] \in S /\ position[sorted[i]] = i
  BY <1>6
<1>8. sorted \in [1..N -> S]
  BY <1>7
<1>9. ASSUME NEW i \in 1..N, NEW j \in 1..N, i < j
      PROVE  sorted[i] # sorted[j] /\ number[sorted[i]] <= number[sorted[j]]
  <2>1. sorted[i] \in S /\ sorted[j] \in S /\ position[sorted[i]] = i /\ position[sorted[j]] = j
    BY <1>7
  <2> HIDE DEF sorted
  <2>2. ~(number[sorted[j]] < number[sorted[i]])
    BY <2>1, <1>1, <1>3, <1>9
  <2> QED
    BY <2>1, <2>2, <1>9, <1>1
<1> HIDE DEF sorted, N
<1>10. \E q \in [1..N -> S] : \A i, j \in DOMAIN q : i < j => q[i] # q[j] /\ number[q[i]] <= number[q[j]]
  BY <1>8, <1>9
<1>11. s \in [1..N -> S] /\ \A i, j \in DOMAIN s : i < j => s[i] # s[j] /\ number[s[i]] <= number[s[j]]
  BY <1>10 DEF InOrder, N
<1>12. \A i, j \in 1..N : i < j => number[s[i]] < number[s[j]]
  <2> SUFFICES ASSUME NEW i \in 1..N, NEW j \in 1..N, i < j PROVE number[s[i]] < number[s[j]]
    OBVIOUS
  <2>1. s[i] \in S /\ s[j] \in S /\ s[i] # s[j] /\ number[s[i]] <= number[s[j]]
    BY <1>11
  <2> QED
    BY <2>1
<1>13. s \in Surjection(1..N, S)
  <2>1. \A i, j \in 1..N : i # j => s[i] # s[j]
    <3> SUFFICES ASSUME NEW i \in 1..N, NEW j \in 1..N, i # j PROVE s[i] # s[j]
      OBVIOUS
    <3>1. i < j \/ j < i
      BY <1>1
    <3> QED
      BY <3>1, <1>11
  <2>2. s \in Injection(1..N, S)
    BY <2>1, <1>11 DEF Injection, IsInjective
  <2>3. Cardinality(1..N) = Cardinality(S)
    BY <1>1 DEF N
  <2> QED
    BY <2>2, <2>3, FS_Injection
<1>14. \A x \in S : \E i \in 1..N : s[i] = x
  BY <1>13 DEF Surjection
<1> QED
  BY <1>1, <1>11, <1>12, <1>14 DEF N

\* The first place of an element in a sequence, or 0.
FirstPlace(s, x) ==
  LET I == {i \in 1..Len(s) : s[i] = x}
  IN  IF I # {} THEN Min(I) ELSE 0

\* The element is at this place, if it is anywhere.
PlacedAt(s, N, x, k) == k \in 0..N /\ (k # 0 => s[k] = x)

\* So it is at its first place.
LEMMA PlaceInSequence ==
  ASSUME NEW N \in Nat, NEW S, NEW s \in [1..N -> S], NEW x, NEW k, k = FirstPlace(s, x)
  PROVE  PlacedAt(s, N, x, k)
<1> USE DEF PlacedAt
<1> DEFINE I == {i \in 1..N : s[i] = x}
<1>1. Len(s) = N
  OBVIOUS
<1>2. FirstPlace(s, x) = IF I # {} THEN Min(I) ELSE 0
  BY <1>1 DEF FirstPlace
<1>3. I # {} => Min(I) \in I
  <2> SUFFICES ASSUME I # {} PROVE Min(I) \in I
    OBVIOUS
  <2>1. I \in SUBSET Nat
    OBVIOUS
  <2> HIDE DEF I
  <2>2. \E m \in I : \A i \in I : m <= i
    BY <2>1, LeastExists
  <2> QED
    BY <2>2 DEF Min
<1> QED
  BY <1>1, <1>2, <1>3

\* The sibling before a node, as moveUp() finds it: nobody is between them.
LEMMA PreviousSibling ==
  ASSUME IsTable(rows), NEW M, Shape(rows, M), IsFiniteSet(DOMAIN rows), NEW n \in DOMAIN rows,
         ~(IndexAmong(n) <= 1), NEW b, b = Siblings(n)[IndexAmong(n) - 1]
  PROVE  /\ b \in DOMAIN rows /\ rows[n].parent # Root /\ rows[b].parent = rows[n].parent
         /\ rows[b].lft < rows[n].lft
         /\ \A x \in DOMAIN rows : rows[x].parent = rows[n].parent => ~(rows[b].lft < rows[x].lft /\ rows[x].lft < rows[n].lft)
<1>1. PICK S, number : S = FindDirectChildren(rows, rows[n].parent) /\ number = [x \in S |-> rows[x].lft]
  OBVIOUS
<1>2. /\ S \subseteq DOMAIN rows
      /\ \A x \in DOMAIN rows : x \in S <=> (rows[n].parent # Root /\ rows[x].parent = rows[n].parent)
  BY <1>1 DEF FindDirectChildren
<1>3. IsFiniteSet(S)
  BY <1>2, FS_Subset
<1>4. /\ \A x \in S : number[x] = rows[x].lft /\ number[x] \in Int
      /\ \A x, y \in S : x # y => number[x] # number[y]
  <2>1. \A x \in S : number[x] = rows[x].lft /\ number[x] \in Int
    BY <1>1, <1>2, ShapeFacts
  <2>2. ASSUME NEW x \in S, NEW y \in S, x # y PROVE rows[x].lft # rows[y].lft
    BY <2>2, <1>2, ShapeFacts DEF Apart
  <2> QED
    BY <2>1, <2>2
<1>5. PICK s, N : s = Siblings(n) /\ s = InOrder(S, number) /\ N = Cardinality(S)
  BY <1>1 DEF Siblings, ByLeft
<1>6. /\ N \in Nat /\ s \in [1..N -> S]
      /\ \A i, j \in 1..N : i < j => number[s[i]] < number[s[j]]
      /\ \A x \in S : \E i \in 1..N : s[i] = x
  BY <1>3, <1>4, <1>5, InOrderSorts
<1>7. PICK k : k = IndexAmong(n) /\ k \in 0..N /\ (k # 0 => s[k] = n)
  <2>1. IndexAmong(n) = FirstPlace(s, n)
    BY <1>5 DEF IndexAmong, SelectInSeq, FirstPlace
  <2>2. PICK k : k = FirstPlace(s, n)
    OBVIOUS
  <2>3. N \in Nat /\ s \in [1..N -> S]
    BY <1>6
  <2>4. PlacedAt(s, N, n, k)
    BY <2>2, <2>3, PlaceInSequence
  <2> QED
    BY <2>1, <2>2, <2>4 DEF PlacedAt
<1>8. /\ k \in 1..N /\ k - 1 \in 1..N /\ s[k] = n /\ b = s[k - 1] /\ s[k] \in S /\ s[k - 1] \in S
      /\ number[s[k - 1]] < number[s[k]]
  BY <1>5, <1>6, <1>7
<1>9. ASSUME NEW x \in S PROVE ~(number[b] < number[x] /\ number[x] < number[n])
  <2>1. PICK i \in 1..N : s[i] = x
    BY <1>6
  <2>2. i <= k - 1 \/ i >= k
    BY <1>6, <1>8
  <2>3. CASE i <= k - 1
    <3>1. i = k - 1 \/ i < k - 1
      BY <2>3, <1>6, <1>8
    <3>2. number[x] \in Int /\ number[b] \in Int /\ (number[x] < number[b] \/ number[x] = number[b])
      BY <3>1, <2>1, <1>4, <1>6, <1>8
    <3> QED
      BY <3>2
  <2>4. CASE i >= k
    <3>1. i = k \/ k < i
      BY <2>4, <1>6, <1>8
    <3>2. number[x] \in Int /\ number[n] \in Int /\ (number[n] < number[x] \/ number[x] = number[n])
      BY <3>1, <2>1, <1>4, <1>6, <1>8
    <3> QED
      BY <3>2
  <2> QED
    BY <2>2, <2>3, <2>4
<1>10. b \in S /\ n \in S /\ number[b] < number[n]
  BY <1>8
<1> QED
  BY <1>2, <1>4, <1>9, <1>10

\* Between a node and the sibling before it there are no numbers.
LEMMA SiblingsTouch ==
  ASSUME NEW t, NEW M, Shape(t, M), NEW n \in DOMAIN t, NEW b \in DOMAIN t,
         t[n].parent # Root, t[b].parent = t[n].parent, t[b].lft < t[n].lft,
         \A x \in DOMAIN t : t[x].parent = t[n].parent => ~(t[b].lft < t[x].lft /\ t[x].lft < t[n].lft)
  PROVE  t[b].rght + 1 = t[n].lft
<1> DEFINE p == t[n].parent
<1>f. \A x \in DOMAIN t : t[x].lft \in Int /\ t[x].rght \in Int /\ 1 <= t[x].lft /\ t[x].lft < t[x].rght /\ t[x].rght <= M
  BY ShapeFacts
<1>m. M \in Nat
  BY ShapeFacts
<1>1. /\ p \in DOMAIN t /\ Above(t, p, n) /\ Above(t, p, b)
      /\ \A a \in DOMAIN t : Above(t, a, n) \/ Above(t, a, b) => a = p \/ Above(t, a, p)
  BY DEF Shape, Typed, ParentOK
<1>2. n # b /\ ~Above(t, b, n)
  BY <1>1, <1>f DEF Above
<1>3. t[b].rght < t[n].lft
  <2>1. Apart(t[b], t[n])
    BY <1>2, ShapeFacts
  <2> QED
    BY <2>1, <1>2, <1>f DEF Apart, Above
<1> SUFFICES ASSUME t[b].rght + 1 # t[n].lft PROVE FALSE
  OBVIOUS
<1>4. t[b].rght + 1 \in 1..M /\ t[b].rght + 1 < t[n].lft
  BY <1>3, <1>f, <1>m
<1>5. PICK x \in DOMAIN t : t[x].lft = t[b].rght + 1 \/ t[x].rght = t[b].rght + 1
  BY <1>4 DEF Shape, Filled
<1>6. x # b /\ x # n /\ Apart(t[x], t[b]) /\ Apart(t[x], t[n])
  <2>1. x # b /\ x # n
    BY <1>4, <1>5, <1>f
  <2> QED
    BY <2>1, ShapeFacts
<1>7. CASE t[x].rght = t[b].rght + 1
  <2>1. Above(t, x, b)
    BY <1>6, <1>7, <1>f DEF Apart, Above
  <2>2. x = p \/ Above(t, x, p)
    BY <1>1, <2>1
  <2> QED
    BY <2>2, <1>1, <1>4, <1>7, <1>f DEF Above
<1>8. CASE t[x].lft = t[b].rght + 1
  <2>1. ~Above(t, x, n)
    <3> SUFFICES ASSUME Above(t, x, n) PROVE FALSE
      OBVIOUS
    <3>1. x = p \/ Above(t, x, p)
      BY <1>1
    <3> QED
      BY <3>1, <1>1, <1>8, <1>f DEF Above
  <2>2. t[x].rght < t[n].lft
    BY <2>1, <1>4, <1>6, <1>8, <1>f DEF Apart, Above
  <2>3. Above(t, p, x)
    BY <2>2, <1>1, <1>8, <1>f DEF Above
  <2>4. t[x].parent # Root /\ ParentOK(t, x)
    BY <2>3, <1>1 DEF Shape, ParentOK
  <2> DEFINE q == t[x].parent
  <2>5. q \in DOMAIN t /\ Above(t, q, x) /\ (p = q \/ Above(t, p, q))
    BY <2>3, <2>4, <1>1 DEF Shape, Typed, ParentOK
  <2>6. q # p
    BY <2>2, <1>8, <1>f
  <2>7. q # b /\ Apart(t[q], t[b])
    <3>1. q # b
      BY <2>5, <1>8, <1>f DEF Above
    <3> QED
      BY <3>1, <2>5, ShapeFacts
  <2>8. Above(t, q, b)
    <3>1. t[q].lft <= t[b].rght /\ t[q].rght > t[b].rght
      BY <2>5, <1>8, <1>f DEF Above
    <3> QED
      BY <3>1, <2>5, <2>7, <1>f DEF Apart, Above
  <2>9. Above(t, q, p)
    BY <2>5, <2>6, <2>8, <1>1
  <2> QED
    BY <2>5, <2>6, <2>9, <1>1, <1>f DEF Above
<1> QED
  BY <1>5, <1>7, <1>8

\* What is left of a nested set has the same nodes around each other.
LEMMA RestAbove ==
  ASSUME NEW t, NEW M, Shape(t, M), NEW n \in DOMAIN t,
         NEW a \in DOMAIN t \ Inside(t, n), NEW c \in DOMAIN t \ Inside(t, n)
  PROVE  Above(Rest(t, n), a, c) <=> Above(t, a, c)
<1> DEFINE s == Rest(t, n)
           l == t[n].lft
           r == t[n].rght
<1>1. l \in Int /\ r \in Int /\ l < r /\ SubtreeWidth(t[n]) = r - l + 1
  BY ShapeFacts DEF SubtreeWidth
<1>2. \A x \in DOMAIN t \ Inside(t, n) :
        /\ s[x].lft = (IF t[x].lft > r THEN t[x].lft - (r - l + 1) ELSE t[x].lft)
        /\ s[x].rght = (IF t[x].rght > r THEN t[x].rght - (r - l + 1) ELSE t[x].rght)
        /\ t[x].lft \in Int /\ t[x].rght \in Int
        /\ (t[x].lft < l \/ r < t[x].lft) /\ (t[x].rght < l \/ r < t[x].rght)
  <2> SUFFICES ASSUME NEW x \in DOMAIN t \ Inside(t, n)
               PROVE  /\ s[x].lft = (IF t[x].lft > r THEN t[x].lft - (r - l + 1) ELSE t[x].lft)
                      /\ s[x].rght = (IF t[x].rght > r THEN t[x].rght - (r - l + 1) ELSE t[x].rght)
                      /\ t[x].lft \in Int /\ t[x].rght \in Int
                      /\ (t[x].lft < l \/ r < t[x].lft) /\ (t[x].rght < l \/ r < t[x].rght)
    OBVIOUS
  <2>1. s[x].lft = Closed(t[x].lft, t[n]) /\ s[x].rght = Closed(t[x].rght, t[n])
    BY DEF Rest, Row
  <2>2. /\ t[x].lft \in Int /\ t[x].rght \in Int
        /\ (t[x].lft < l \/ r < t[x].lft) /\ (t[x].rght < l \/ r < t[x].rght)
    BY <1>1, ShapeFacts, OutsideFacts DEF Above
  <2> QED
    BY <1>1, <2>1, <2>2 DEF Closed
<1> HIDE DEF s, l, r
<1>3. Above(s, a, c) <=> Above(t, a, c)
  BY <1>1, <1>2 DEF Above
<1> QED
  BY <1>3 DEF s

\* The tables after each step of an exchange of n with the sibling b before it.
SwappedInSteps(t, n, b, v, w, u) ==
  /\ BlockShifted(t, t[n].lft, t[n].rght, Offset, 0, v)
  /\ BlockShifted(v, t[b].lft, t[b].rght, SubtreeWidth(t[n]), 0, w)
  /\ BlockShifted(w, t[n].lft + Offset, 3 * Offset, -SubtreeWidth(t[b]) - Offset, 0, u)

\* If there is room beyond the table, to exchange the two is to move n before b.
LEMMA StepsSwap ==
  ASSUME NEW t, NEW M, Shape(t, M), M <= Offset, NEW n \in DOMAIN t, NEW b \in DOMAIN t,
         t[b].rght + 1 = t[n].lft, NEW v, NEW w, NEW u, SwappedInSteps(t, n, b, v, w, u)
  PROVE  SubtreeMoved(t, n, t[b].lft, t[n].parent, t[n].depth, u)
<1> DEFINE l == t[n].lft
           r == t[n].rght
           bl == t[b].lft
           br == t[b].rght
           far == Offset
<1>1. /\ l \in Int /\ r \in Int /\ bl \in Int /\ br \in Int /\ M \in Nat
      /\ 1 <= bl /\ bl < br /\ br + 1 = l /\ l < r /\ r <= M /\ t[n].depth \in Int
      /\ SubtreeWidth(t[n]) = r - l + 1 /\ SubtreeWidth(t[b]) = br - bl + 1
  BY ShapeFacts DEF SubtreeWidth
<1>o. far \in Int /\ M <= far
  BY DEF Offset
<1>2. DOMAIN v = DOMAIN t /\ DOMAIN w = DOMAIN t /\ DOMAIN u = DOMAIN t
  BY DEF SwappedInSteps, BlockShifted
<1>3. /\ BlockShifted(t, l, r, far, 0, v) /\ BlockShifted(v, bl, br, r - l + 1, 0, w)
      /\ BlockShifted(w, l + far, 3 * far, -(br - bl + 1) - far, 0, u)
  BY <1>1 DEF SwappedInSteps
<1>f. \A x \in DOMAIN t : t[x].lft \in Int /\ t[x].rght \in Int /\ 1 <= t[x].lft /\ t[x].lft < t[x].rght
                          /\ t[x].rght <= M /\ t[x].depth \in Int
  BY ShapeFacts
<1>4. ASSUME NEW x \in Inside(t, n)
      PROVE  /\ u[x].lft = t[x].lft - l + bl /\ u[x].rght = t[x].rght - l + bl
             /\ u[x].parent = t[x].parent /\ u[x].depth = t[x].depth
  <2>1. x \in DOMAIN t /\ l <= t[x].lft /\ t[x].rght <= r
    BY DEF Inside
  <2> HIDE DEF l, r, bl, br, far
  <2>2. /\ v[x].lft = t[x].lft + far /\ v[x].rght = t[x].rght + far
        /\ v[x].parent = t[x].parent /\ v[x].depth = t[x].depth
    BY <2>1, <1>3, <1>f DEF BlockShifted
  <2>3. ~(v[x].lft >= bl /\ v[x].rght <= br)
    BY <2>1, <2>2, <1>1, <1>f, <1>o
  <2>4. /\ w[x].lft = v[x].lft /\ w[x].rght = v[x].rght
        /\ w[x].parent = v[x].parent /\ w[x].depth = v[x].depth
    BY <2>1, <2>3, <1>2, <1>3 DEF BlockShifted
  <2>5. w[x].lft >= l + far /\ w[x].rght <= 3 * far
    BY <2>1, <2>2, <2>4, <1>1, <1>f, <1>o
  <2>6. /\ u[x].lft = w[x].lft + (-(br - bl + 1) - far) /\ u[x].rght = w[x].rght + (-(br - bl + 1) - far)
        /\ u[x].parent = w[x].parent /\ u[x].depth = w[x].depth + 0
    BY <2>1, <2>5, <1>2, <1>3 DEF BlockShifted
  <2> QED
    BY <2>1, <2>2, <2>4, <2>6, <1>1, <1>f, <1>o
<1>5. ASSUME NEW x \in DOMAIN t \ Inside(t, n)
      PROVE  /\ u[x].lft = Opened(Closed(t[x].lft, t[n]), bl, r - l + 1)
             /\ u[x].rght = Opened(Closed(t[x].rght, t[n]), bl, r - l + 1)
             /\ u[x].parent = t[x].parent /\ u[x].depth = t[x].depth
  <2>1. /\ ~(t[x].lft >= l /\ t[x].rght <= r)
        /\ (t[x].lft < l \/ r < t[x].lft) /\ (t[x].rght < l \/ r < t[x].rght)
    BY <1>1, <1>f, OutsideFacts DEF Inside, Above
  <2>2. \/ bl <= t[x].lft /\ t[x].rght <= br
        \/ /\ ~(bl <= t[x].lft /\ t[x].rght <= br)
           /\ (t[x].lft < bl \/ br < t[x].lft) /\ (t[x].rght < bl \/ br < t[x].rght)
    <3>1. x = b \/ Apart(t[x], t[b])
      BY ShapeFacts
    <3> QED
      BY <3>1, <1>1, <1>f DEF Apart
  <2>c. /\ Closed(t[x].lft, t[n]) = (IF t[x].lft > r THEN t[x].lft - (r - l + 1) ELSE t[x].lft)
        /\ Closed(t[x].rght, t[n]) = (IF t[x].rght > r THEN t[x].rght - (r - l + 1) ELSE t[x].rght)
    BY <1>1 DEF Closed
  <2>3. /\ v[x].lft = t[x].lft /\ v[x].rght = t[x].rght
        /\ v[x].parent = t[x].parent /\ v[x].depth = t[x].depth
    BY <2>1, <1>3 DEF BlockShifted
  <2> HIDE DEF l, r, bl, br, far
  <2>4. LET in == bl <= t[x].lft /\ t[x].rght <= br
        IN  /\ w[x].lft = (IF in THEN t[x].lft + (r - l + 1) ELSE t[x].lft)
            /\ w[x].rght = (IF in THEN t[x].rght + (r - l + 1) ELSE t[x].rght)
            /\ w[x].parent = t[x].parent /\ w[x].depth = t[x].depth
    BY <2>3, <1>2, <1>3, <1>f, <1>1 DEF BlockShifted
  <2>5. ~(w[x].lft >= l + far)
    BY <2>4, <1>1, <1>f, <1>o
  <2>6. u[x].lft = w[x].lft /\ u[x].rght = w[x].rght /\ u[x].parent = w[x].parent /\ u[x].depth = w[x].depth
    BY <2>5, <1>2, <1>3 DEF BlockShifted
  <2>7. /\ w[x].lft = Opened(Closed(t[x].lft, t[n]), bl, r - l + 1)
        /\ w[x].rght = Opened(Closed(t[x].rght, t[n]), bl, r - l + 1)
    BY <2>1, <2>2, <2>4, <2>c, <1>1, <1>f DEF Opened
  <2> QED
    BY <2>4, <2>6, <2>7
<1>6. \A x \in Inside(t, n) : x \in DOMAIN t
  BY DEF Inside
<1>7. \A x \in Inside(t, n) :
        /\ u[x].lft = t[x].lft - t[n].lft + t[b].lft /\ u[x].rght = t[x].rght - t[n].lft + t[b].lft
        /\ u[x].parent = (IF x = n THEN t[n].parent ELSE t[x].parent)
        /\ u[x].depth = t[x].depth - t[n].depth + t[n].depth
  BY <1>4, <1>6, <1>f, <1>1
<1> QED
  BY <1>1, <1>2, <1>5, <1>7 DEF SubtreeMoved

\* The place before the previous sibling is below the parent and nothing else.
LEMMA PlaceBeforeSibling ==
  ASSUME NEW t, NEW M, Shape(t, M), NEW n \in DOMAIN t, NEW b \in DOMAIN t,
         t[n].parent # Root, t[b].parent = t[n].parent, t[b].rght + 1 = t[n].lft
  PROVE  /\ t[n].parent \in DOMAIN t \ Inside(t, n)
         /\ PlaceUnder(Rest(t, n), t[b].lft, t[n].parent)
         /\ t[b].lft \in 1..(M - SubtreeWidth(t[n])) + 1
         /\ t[n].depth = DepthBelow(Rest(t, n), t[n].parent)
<1> DEFINE p == t[n].parent
           s == Rest(t, n)
<1>f. /\ M \in Nat
      /\ \A x \in DOMAIN t : t[x].lft \in Int /\ t[x].rght \in Int /\ 1 <= t[x].lft /\ t[x].lft < t[x].rght /\ t[x].rght <= M
  BY ShapeFacts
<1>1. /\ p \in DOMAIN t /\ Above(t, p, n) /\ Above(t, p, b) /\ t[n].depth = t[p].depth + 1
      /\ \A a \in DOMAIN t : Above(t, a, b) => a = p \/ Above(t, a, p)
  BY DEF Shape, Typed, ParentOK
<1>2. p \in DOMAIN t \ Inside(t, n)
  BY <1>1, <1>f DEF Above, Inside
<1>3. DOMAIN s = DOMAIN t \ Inside(t, n)
      /\ \A x \in DOMAIN s : /\ s[x].lft = Closed(t[x].lft, t[n]) /\ s[x].rght = Closed(t[x].rght, t[n])
                             /\ s[x].depth = t[x].depth
  BY DEF Rest, Row
<1>4. ASSUME NEW o \in DOMAIN s
      PROVE  (s[o].lft < t[b].lft /\ t[b].lft <= s[o].rght) <=> (o = p \/ Above(s, o, p))
  <2>1. o \in DOMAIN t /\ (Above(s, o, p) <=> Above(t, o, p))
    BY <1>2, <1>3, RestAbove
  <2>2. (s[o].lft < t[b].lft /\ t[b].lft <= s[o].rght) <=> (t[o].lft < t[b].lft /\ t[b].lft <= t[o].rght)
    BY <1>3, <1>f DEF Closed, SubtreeWidth
  <2>3. o = b \/ Apart(t[o], t[b])
    BY <2>1, ShapeFacts
  <2>4. (t[o].lft < t[b].lft /\ t[b].lft <= t[o].rght) <=> Above(t, o, b)
    BY <2>1, <2>3, <1>f DEF Apart, Above
  <2>5. Above(t, o, b) <=> (o = p \/ Above(t, o, p))
    BY <2>1, <1>1, <1>f DEF Above
  <2> QED
    BY <2>1, <2>2, <2>4, <2>5
<1>5. t[b].lft \in 1..(M - SubtreeWidth(t[n])) + 1
  BY <1>f DEF SubtreeWidth
<1> QED
  BY <1>1, <1>2, <1>3, <1>4, <1>5 DEF PlaceUnder, DepthBelow

\* swapNodes() of a node and the sibling before it makes a nested set of a nested set.
LEMMA SwapReaches ==
  ASSUME IsTable(rows), NEW M, Shape(rows, M), M <= Offset, NEW n \in DOMAIN rows, NEW b \in DOMAIN rows,
         rows[n].parent # Root, rows[b].parent = rows[n].parent, rows[b].rght + 1 = rows[n].lft
  PROVE  Reaches(rows, Swap(n, b))
<1>t. PICK t : t = rows
  OBVIOUS
<1>1. t = rows /\ Shape(t, M) /\ n \in DOMAIN t /\ b \in DOMAIN t /\ M \in Nat /\ Good(t)
  BY <1>t, ShapeFacts, ShapeIsRooted DEF Good
<1>b. PICK l \in Int, r \in Int, bl \in Int, br \in Int :
        l = t[n].lft /\ r = t[n].rght /\ bl = t[b].lft /\ br = t[b].rght
  BY <1>1, ShapeFacts
<1>w. PICK wide \in Int, far \in Int, zero \in Int : wide = SubtreeWidth(t[n]) /\ far = Offset /\ zero = 0
  BY <1>b DEF SubtreeWidth, Offset
<1>h. PICK hl \in Int, hr \in Int, back \in Int : hl = l + far /\ hr = 3 * far /\ back = -SubtreeWidth(t[b]) - far
  BY <1>b, <1>w DEF SubtreeWidth
<1>2. PICK v : Path(t, <<ShiftBlock(l, r, far, zero)>>, v) /\ Good(v) /\ BlockShifted(t, l, r, far, zero, v)
  BY <1>1, <1>b, <1>w, ShiftBlockShifts
<1>3. PICK w : Path(v, <<ShiftBlock(bl, br, wide, zero)>>, w) /\ Good(w) /\ BlockShifted(v, bl, br, wide, zero, w)
  BY <1>2, <1>b, <1>w, ShiftBlockShifts
<1>4. PICK u : Path(w, <<ShiftBlock(hl, hr, back, zero)>>, u) /\ Good(u) /\ BlockShifted(w, hl, hr, back, zero, u)
  BY <1>3, <1>h, <1>w, ShiftBlockShifts
<1>5. SwappedInSteps(t, n, b, v, w, u)
  BY <1>b, <1>w, <1>h, <1>2, <1>3, <1>4 DEF SwappedInSteps
<1>6. SubtreeMoved(t, n, t[b].lft, t[n].parent, t[n].depth, u)
  BY <1>1, <1>5, StepsSwap
<1>7. Shape(u, M)
  <2>d. PICK d \in Int : d = t[n].depth
    BY <1>1, ShapeFacts
  <2>1. PICK s, q, at, W : s = Rest(t, n) /\ q = t[n].parent /\ at = t[b].lft /\ W = SubtreeWidth(t[n])
    OBVIOUS
  <2>2. /\ q \in DOMAIN t \ Inside(t, n) /\ PlaceUnder(s, at, q) /\ at \in 1..(M - W) + 1 /\ d = DepthBelow(s, q)
    BY <2>1, <2>d, <1>1, PlaceBeforeSibling
  <2>3. q \in DOMAIN s \cup {Root}
    BY <2>1, <2>2 DEF Rest
  <2>4. SubtreeMoved(t, n, at, q, d, u)
    BY <2>1, <2>d, <1>6
  <2> QED
    BY <2>1, <2>d, <2>2, <2>3, <2>4, <1>1, MoveKeepsShape
<1>8. Path(t, (<<ShiftBlock(l, r, far, zero)>> \o <<ShiftBlock(bl, br, wide, zero)>>) \o <<ShiftBlock(hl, hr, back, zero)>>, u)
  BY <1>2, <1>3, <1>4, PathConcat
<1>9. (<<ShiftBlock(l, r, far, zero)>> \o <<ShiftBlock(bl, br, wide, zero)>>) \o <<ShiftBlock(hl, hr, back, zero)>>
      = <<ShiftBlock(l, r, far, zero), ShiftBlock(bl, br, wide, zero), ShiftBlock(hl, hr, back, zero)>>
  BY TripleIsConcat
<1>10. Swap(n, b) = <<ShiftBlock(l, r, far, zero), ShiftBlock(bl, br, wide, zero), ShiftBlock(hl, hr, back, zero)>>
  <2>1. /\ MoveUpShifts(t[n], t[b]).sibling = wide
        /\ MoveUpShifts(t[n], t[b]).node - Offset = back
    BY <1>w, <1>h DEF MoveUpShifts
  <2>2. Swap(n, b) = <<ShiftBlock(t[n].lft, t[n].rght, Offset, 0),
                       ShiftBlock(t[b].lft, t[b].rght, MoveUpShifts(t[n], t[b]).sibling, 0),
                       ShiftBlock(t[n].lft + Offset, 3 * Offset, MoveUpShifts(t[n], t[b]).node - Offset, 0)>>
    BY <1>1, Zenon DEF Swap
  <2> QED
    BY <2>1, <2>2, <1>b, <1>w, <1>h
<1> QED
  BY <1>1, <1>7, <1>8, <1>9, <1>10 DEF Reaches

\* Nothing to do leaves a nested set as it is.
LEMMA NothingReaches ==
  ASSUME IsTable(rows), NEW M, Shape(rows, M)
  PROVE  Reaches(rows, <<>>)
BY ShapeIsRooted, PathEmpty DEF Good, Reaches

\* moveUp() makes a nested set of a nested set.
LEMMA MoveUpReaches ==
  ASSUME IsTable(rows), NEW M, Shape(rows, M), M <= Offset, IsFiniteSet(DOMAIN rows), NEW n \in DOMAIN rows
  PROVE  Reaches(rows, MoveUpScript(n))
<1>1. CASE IndexAmong(n) <= 1
  BY <1>1, NothingReaches DEF MoveUpScript
<1>2. CASE ~(IndexAmong(n) <= 1)
  <2>1. PICK b : b = Siblings(n)[IndexAmong(n) - 1]
    OBVIOUS
  <2>2. /\ b \in DOMAIN rows /\ rows[n].parent # Root /\ rows[b].parent = rows[n].parent
        /\ rows[b].lft < rows[n].lft
        /\ \A x \in DOMAIN rows : rows[x].parent = rows[n].parent => ~(rows[b].lft < rows[x].lft /\ rows[x].lft < rows[n].lft)
    BY <2>1, <1>2, PreviousSibling
  <2>3. rows[b].rght + 1 = rows[n].lft
    BY <2>2, SiblingsTouch
  <2>4. Reaches(rows, Swap(n, b))
    BY <2>2, <2>3, SwapReaches
  <2> QED
    BY <2>1, <2>4, <1>2 DEF MoveUpScript
<1> QED
  BY <1>1, <1>2

-----------------------------------------------------------------------------
(* The walk of recover().                                                    *)

\* One child more, and the recursion that the fold over the children is.
AddTour(acc, walk, n) == acc \o <<n>> \o walk[n] \o <<n>>
NextTour(g, walk, c, s) == LET x == Max(s) IN AddTour(g[s \ {x}], walk, c[x])
Folds(g, walk, c, D) == g = [s \in SUBSET D |-> IF s = {} THEN <<>> ELSE NextTour(g, walk, c, s)]

\* The tours of the children are made by such a function.
LEMMA ToursAreFolds ==
  ASSUME NEW walk, NEW c
  PROVE  Tours(walk, c) = (CHOOSE g : Folds(g, walk, c, DOMAIN c))[DOMAIN c]
BY SMT DEF Tours, FoldLeft, MapThenFoldSet, Folds, NextTour, AddTour

\* The greatest element of a set of numbers.
LEMMA GreatestOf ==
  ASSUME NEW s \in SUBSET Int, NEW x \in s, \A y \in s : y <= x
  PROVE  Max(s) = x
<1>1. \A y \in s : x >= y
  OBVIOUS
<1>2. \A z \in s : (\A y \in s : z >= y) => z = x
  BY <1>1
<1> QED
  BY <1>1, <1>2 DEF Max

\* A set of numbers from 1 to k has a greatest element.
LEMMA MaxOfSome ==
  ASSUME NEW k \in Nat, NEW s \in SUBSET (1..k), s # {}
  PROVE  Max(s) \in s /\ \A y \in s : y <= Max(s)
<1> DEFINE S == {k - x : x \in s}
<1>1. S \in SUBSET Nat /\ S # {}
  OBVIOUS
<1>2. \E m \in S : \A n \in S : m <= n
  <2> HIDE DEF S
  <2> QED
    BY <1>1, LeastExists
<1>3. PICK x \in s : \A n \in S : k - x <= n
  BY <1>2
<1>4. \A y \in s : k - y \in S
  OBVIOUS
<1>5. \A y \in s : y <= x
  BY <1>3, <1>4
<1>6. Max(s) = x
  BY <1>5, GreatestOf
<1> QED
  BY <1>5, <1>6

\* There is such a function.
LEMMA FoldExists ==
  ASSUME NEW walk, NEW c, NEW N \in Nat
  PROVE  \E g : Folds(g, walk, c, 1..N)
<1> DEFINE Wrong == {k \in Nat : ~ \E g : Folds(g, walk, c, 1..k)}
<1>1. SUFFICES ASSUME Wrong # {} PROVE FALSE
  OBVIOUS
<1>2. PICK k \in Wrong : \A j \in Wrong : k <= j
  <2>1. Wrong \in SUBSET Nat
    OBVIOUS
  <2> HIDE DEF Wrong
  <2> QED
    BY <2>1, <1>1, LeastExists
<1>3. k # 0
  <2>1. 1..0 = {}
    OBVIOUS
  <2> DEFINE g == [s \in {{}} |-> <<>>]
  <2>2. g = [s \in SUBSET {} |-> IF s = {} THEN <<>> ELSE NextTour(g, walk, c, s)]
    <3>1. SUBSET {} = {{}}
      OBVIOUS
    <3> QED
      BY <3>1
  <2>3. Folds(g, walk, c, {})
    BY <2>2 DEF Folds
  <2> HIDE DEF g
  <2> QED
    BY <2>1, <2>3
<1>4. PICK j \in Nat : k = j + 1
  <2>1. k - 1 \in Nat /\ k = (k - 1) + 1
    BY <1>3
  <2> QED
    BY <2>1
<1>5. PICK g : Folds(g, walk, c, 1..j)
  BY <1>2, <1>4
<1> DEFINE h == [s \in SUBSET (1..k) |-> IF k \in s THEN AddTour(g[s \ {k}], walk, c[k]) ELSE g[s]]
<1>6. ASSUME NEW s \in SUBSET (1..k)
      PROVE  h[s] = IF s = {} THEN <<>> ELSE NextTour(h, walk, c, s)
  <2>1. \A r \in SUBSET (1..j) : g[r] = IF r = {} THEN <<>> ELSE NextTour(g, walk, c, r)
    BY <1>5 DEF Folds
  <2>2. \A r \in SUBSET (1..j) : r \in SUBSET (1..k) /\ k \notin r /\ h[r] = g[r]
    BY <1>4
  <2>3. CASE k \in s
    <3>1. Max(s) = k
      <4>1. s \in SUBSET Int /\ \A y \in s : y <= k
        OBVIOUS
      <4> QED
        BY <4>1, <2>3, GreatestOf
    <3>2. s \ {k} \in SUBSET (1..j)
      BY <1>4
    <3>3. h[s] = AddTour(g[s \ {k}], walk, c[k])
      BY <2>3
    <3>4. h[s \ {k}] = g[s \ {k}]
      BY <2>2, <3>2
    <3> HIDE DEF h
    <3> QED
      BY <2>3, <3>1, <3>3, <3>4 DEF NextTour
  <2>4. CASE k \notin s
    <3>1. s \in SUBSET (1..j) /\ h[s] = g[s]
      BY <2>4, <1>4
    <3> DEFINE x == Max(s)
    <3>2. h[s \ {x}] = g[s \ {x}]
      BY <3>1, <2>2
    <3> HIDE DEF h
    <3> QED
      BY <2>1, <3>1, <3>2 DEF NextTour
  <2> QED
    BY <2>3, <2>4
<1>7. h = [s \in SUBSET (1..k) |-> h[s]]
  OBVIOUS
<1> HIDE DEF h
<1>8. h = [s \in SUBSET (1..k) |-> IF s = {} THEN <<>> ELSE NextTour(h, walk, c, s)]
  BY <1>6, <1>7
<1>9. Folds(h, walk, c, 1..k)
  BY <1>8 DEF Folds
<1> QED
  BY <1>9

\* The tour of the children as a series of longer and longer ones.
Steps(F, N, walk, c) ==
  /\ F[0] = <<>> /\ F[N] = Tours(walk, c)
  /\ \A k \in 1..N : F[k] = AddTour(F[k - 1], walk, c[k])

\* The tours are made child after child.
LEMMA ToursInSteps ==
  ASSUME NEW walk, NEW N \in Nat, NEW S, NEW c \in [1..N -> S]
  PROVE  \E F : Steps(F, N, walk, c)
<1> DEFINE g == CHOOSE g : Folds(g, walk, c, 1..N)
           F == [k \in 0..N |-> g[1..k]]
<1>1. Folds(g, walk, c, 1..N)
  <2>1. \E h : Folds(h, walk, c, 1..N)
    BY FoldExists
  <2> QED
    BY <2>1, Zenon
<1>2. Tours(walk, c) = g[1..N]
  <2>1. DOMAIN c = 1..N
    OBVIOUS
  <2> QED
    BY <2>1, ToursAreFolds, Zenon
<1> HIDE DEF g
<1>3. \A s \in SUBSET (1..N) : g[s] = IF s = {} THEN <<>> ELSE NextTour(g, walk, c, s)
  BY <1>1 DEF Folds
<1>4. g[1..0] = <<>>
  <2>1. 1..0 = {} /\ {} \in SUBSET (1..N)
    OBVIOUS
  <2> QED
    BY <2>1, <1>3
<1>5. ASSUME NEW k \in 1..N PROVE g[1..k] = AddTour(g[1..k-1], walk, c[k])
  <2>0. k \in Nat /\ k <= N /\ 1 <= k
    OBVIOUS
  <2>1. 1..k \in SUBSET (1..N) /\ k \in 1..k /\ 1..k # {} /\ 1..k \in SUBSET Int
    BY <2>0
  <2>4. (1..k) \ {k} = 1..k-1
    BY <2>0
  <2>2. Max(1..k) = k
    <3>1. \A y \in 1..k : y <= k
      OBVIOUS
    <3> QED
      BY <2>1, <3>1, GreatestOf
  <2>3. g[1..k] = NextTour(g, walk, c, 1..k)
    BY <2>1, <1>3
  <2> QED
    BY <2>1, <2>2, <2>3, <2>4 DEF NextTour
<1>6. F[0] = <<>> /\ F[N] = Tours(walk, c) /\ \A k \in 1..N : F[k] = AddTour(F[k - 1], walk, c[k])
  BY <1>2, <1>4, <1>5
<1> HIDE DEF F
<1> QED
  BY <1>6 DEF Steps

\* Two walks that do the same at some nodes.
Alike(walk, other, S) == \A n \in S : walk[n] = other[n]

\* The tours of the children are made of the tours below them, and of nothing else.
LEMMA ToursAgree ==
  ASSUME NEW N \in Nat, NEW S, NEW c \in [1..N -> S], NEW walk, NEW other, Alike(walk, other, S)
  PROVE  Tours(walk, c) = Tours(other, c)
<1>1. PICK F : Steps(F, N, walk, c)
  BY ToursInSteps
<1>2. PICK G : Steps(G, N, other, c)
  BY ToursInSteps
<1> DEFINE Wrong == {k \in 0..N : F[k] # G[k]}
<1>3. Wrong = {}
  <2> SUFFICES ASSUME Wrong # {} PROVE FALSE
    OBVIOUS
  <2>1. PICK k \in Wrong : \A j \in Wrong : k <= j
    <3>1. Wrong \in SUBSET Nat
      OBVIOUS
    <3> HIDE DEF Wrong
    <3> QED
      BY <3>1, LeastExists
  <2>2. k # 0 /\ k \in 1..N
    BY <1>1, <1>2 DEF Steps
  <2>3. k - 1 \notin Wrong /\ k - 1 \in 0..N
    BY <2>1, <2>2
  <2>4. F[k - 1] = G[k - 1] /\ c[k] \in S /\ walk[c[k]] = other[c[k]]
    BY <2>2, <2>3 DEF Alike
  <2>5. F[k] = AddTour(F[k - 1], walk, c[k]) /\ G[k] = AddTour(G[k - 1], other, c[k])
    BY <1>1, <1>2, <2>2 DEF Steps
  <2> QED
    BY <2>1, <2>4, <2>5 DEF AddTour
<1>4. N \in 0..N
  OBVIOUS
<1> QED
  BY <1>1, <1>2, <1>3, <1>4 DEF Steps

-----------------------------------------------------------------------------
(* Numbers for the nodes of a forest, which fall or rise from parent to child. *)

Rises(t, level) ==
  /\ level \in [DOMAIN t \cup {Root} -> Nat] /\ level[Root] = 0
  /\ \A n \in DOMAIN t : t[n].parent \in DOMAIN t \cup {Root} /\ level[t[n].parent] < level[n]

Falls(t, height) ==
  /\ height \in [DOMAIN t \cup {Root} -> Nat]
  /\ \A n \in DOMAIN t : /\ t[n].parent \in DOMAIN t \cup {Root}
                        /\ height[n] < height[t[n].parent] /\ height[n] < height[Root]

\* The parents of a table make a forest.
LEMMA LevelsExist ==
  ASSUME NEW t, Good(t)
  PROVE  Root \notin DOMAIN t /\ \E level : Rises(t, level)
<1>1. Root \notin DOMAIN t
  BY RowFields DEF Good, IsTable
<1>2. PICK rank \in [DOMAIN t -> Nat] :
        \A n \in DOMAIN t : t[n].parent = Root \/ (t[n].parent \in DOMAIN t /\ rank[t[n].parent] < rank[n])
  BY DEF Good, Rooted
<1> DEFINE level == [n \in DOMAIN t \cup {Root} |-> IF n = Root THEN 0 ELSE rank[n] + 1]
<1>3. \A n \in DOMAIN t : level[n] = rank[n] + 1 /\ rank[n] \in Nat
  BY <1>1, <1>2
<1>4. level[Root] = 0 /\ level \in [DOMAIN t \cup {Root} -> Nat]
  BY <1>2
<1> HIDE DEF level
<1>5. ASSUME NEW n \in DOMAIN t
      PROVE  t[n].parent \in DOMAIN t \cup {Root} /\ level[t[n].parent] < level[n]
  <2>1. t[n].parent = Root \/ (t[n].parent \in DOMAIN t /\ rank[t[n].parent] < rank[n])
    BY <1>2
  <2>2. CASE t[n].parent = Root
    BY <2>2, <1>3, <1>4
  <2>3. CASE t[n].parent \in DOMAIN t /\ rank[t[n].parent] < rank[n]
    BY <2>3, <1>3
  <2> QED
    BY <2>1, <2>2, <2>3
<1>6. Rises(t, level)
  BY <1>4, <1>5 DEF Rises
<1> QED
  BY <1>1, <1>6

\* Fewer nodes are lower, the lower a node is.
LEMMA HeightsExist ==
  ASSUME NEW t, Good(t), IsFiniteSet(DOMAIN t)
  PROVE  \E height : Falls(t, height)
<1>1. PICK level : Rises(t, level)
  BY LevelsExist
<1> DEFINE D == DOMAIN t
           Lower(p) == {n \in D : level[p] < level[n]}
           height == [p \in D \cup {Root} |-> Cardinality(Lower(p))]
<1>2. \A p \in D \cup {Root} : IsFiniteSet(Lower(p)) /\ Cardinality(Lower(p)) \in Nat
  BY FS_Subset, FS_CardinalityType
<1>3. ASSUME NEW n \in D
      PROVE  /\ t[n].parent \in D \cup {Root}
             /\ \A p \in {t[n].parent, Root} : Cardinality(Lower(n)) < Cardinality(Lower(p))
  <2>0. t[n].parent \in D \cup {Root}
    BY <1>1 DEF Rises
  <2> SUFFICES ASSUME NEW p \in {t[n].parent, Root} PROVE Cardinality(Lower(n)) < Cardinality(Lower(p))
    BY <2>0
  <2>1. p \in D \cup {Root} /\ level[p] < level[n] /\ level[p] \in Nat /\ \A x \in D : level[x] \in Nat
    BY <1>1, <2>0 DEF Rises
  <2>2. n \in Lower(p) /\ n \notin Lower(n) /\ Lower(n) \subseteq Lower(p)
    BY <2>1
  <2>3. IsFiniteSet(Lower(p)) /\ Cardinality(Lower(p)) \in Nat /\ Cardinality(Lower(n)) \in Nat
    BY <1>2, <2>1
  <2> HIDE DEF Lower
  <2>4. Cardinality(Lower(n)) <= Cardinality(Lower(p)) /\ Cardinality(Lower(n)) # Cardinality(Lower(p))
    BY <2>2, <2>3, FS_Subset
  <2>5. Cardinality(Lower(n)) < Cardinality(Lower(p))
    BY <2>3, <2>4
  <2> QED
    BY <2>5
<1>4. height \in [D \cup {Root} -> Nat] /\ \A p \in D \cup {Root} : height[p] = Cardinality(Lower(p))
  BY <1>2
<1> HIDE DEF height, Lower
<1>5. Falls(t, height)
  BY <1>3, <1>4 DEF Falls
<1> QED
  BY <1>5
-----------------------------------------------------------------------------
(* The walk is there, and what it does at a node.                            *)

ChildrenOf(t, p) == {n \in DOMAIN t : t[n].parent = p}

\* The children of a node, each once.
EachChild(t, p, N, c) ==
  /\ c = Children(t, p) /\ N \in Nat /\ c \in [1..N -> ChildrenOf(t, p)]
  /\ \A i, j \in 1..N : i < j => c[i] # c[j]
  /\ \A n \in ChildrenOf(t, p) : \E i \in 1..N : c[i] = n

\* The walk takes the children of a node in the order of their keys.
LEMMA ChildrenInOrder ==
  ASSUME NEW t, IsTable(t), IsFiniteSet(DOMAIN t), NEW p
  PROVE  \E N, c : EachChild(t, p, N, c)
<1>1. PICK S, number : S = ChildrenOf(t, p) /\ number = [n \in S |-> n]
  OBVIOUS
<1>2. PICK s, N : s = InOrder(S, number) /\ N = Cardinality(S)
  OBVIOUS
<1>3. s = Children(t, p)
  BY <1>1, <1>2 DEF Children, ChildrenOf
<1>4. IsFiniteSet(S)
  BY <1>1, FS_Subset DEF ChildrenOf
<1>5. /\ \A x \in S : number[x] \in Int
      /\ \A x, y \in S : x # y => number[x] # number[y]
  BY <1>1, TreeAssumption DEF ChildrenOf, IsTable
<1>6. /\ N \in Nat /\ s \in [1..N -> S]
      /\ \A i, j \in 1..N : i < j => number[s[i]] < number[s[j]]
      /\ \A x \in S : \E i \in 1..N : s[i] = x
  BY <1>2, <1>4, <1>5, InOrderSorts
<1>7. \A i, j \in 1..N : i < j => s[i] # s[j]
  <2> SUFFICES ASSUME NEW i \in 1..N, NEW j \in 1..N, i < j PROVE s[i] # s[j]
    OBVIOUS
  <2>1. number[s[i]] < number[s[j]] /\ number[s[i]] \in Int
    BY <1>5, <1>6
  <2> QED
    BY <2>1
<1> QED
  BY <1>1, <1>3, <1>6, <1>7 DEF EachChild

Walks(t, walk) == walk = [p \in DOMAIN t \cup {Root} |-> Tours(walk, Children(t, p))]

\* The walk is well-defined: children are lower than their parent.
LEMMA WalkExists ==
  ASSUME NEW t, Good(t), IsFiniteSet(DOMAIN t)
  PROVE  \E walk : Walks(t, walk)
<1>0. IsTable(t)
  BY DEF Good
<1>1. PICK height : Falls(t, height)
  BY HeightsExist
<1> DEFINE P == DOMAIN t \cup {Root}
           Wrong == {h \in Nat : ~ \E f : \A p \in P : height[p] < h => f[p] = Tours(f, Children(t, p))}
<1>2. \A p \in P : height[p] \in Nat /\ \A n \in ChildrenOf(t, p) : n \in P /\ height[n] < height[p]
  BY <1>1 DEF Falls, ChildrenOf
<1>3. Wrong = {}
  <2> SUFFICES ASSUME Wrong # {} PROVE FALSE
    OBVIOUS
  <2>1. PICK k \in Wrong : \A j \in Wrong : k <= j
    <3>1. Wrong \in SUBSET Nat
      OBVIOUS
    <3> HIDE DEF Wrong
    <3> QED
      BY <3>1, LeastExists
  <2>2. k # 0
    BY <1>2
  <2>3. PICK j \in Nat : k = j + 1
    <3>1. k - 1 \in Nat /\ k = (k - 1) + 1
      BY <2>2
    <3> QED
      BY <3>1
  <2>4. PICK f : \A p \in P : height[p] < j => f[p] = Tours(f, Children(t, p))
    BY <2>1, <2>3
  <2> DEFINE g == [p \in P |-> IF height[p] = j THEN Tours(f, Children(t, p)) ELSE f[p]]
  <2>5. ASSUME NEW p \in P, height[p] < k PROVE g[p] = Tours(f, Children(t, p))
    <3>1. height[p] = j \/ height[p] < j
      BY <1>2, <2>3, <2>5
    <3> QED
      BY <2>4, <3>1
  <2>6. ASSUME NEW p \in P, height[p] < k PROVE Tours(f, Children(t, p)) = Tours(g, Children(t, p))
    <3>1. ASSUME NEW n \in ChildrenOf(t, p) PROVE f[n] = g[n]
      <4>1. n \in P /\ height[n] \in Nat /\ height[p] \in Nat /\ height[n] < height[p]
        BY <1>2
      <4>2. height[n] # j
        BY <4>1, <2>3, <2>6
      <4> QED
        BY <4>1, <4>2
    <3>2. PICK S, N, c : N \in Nat /\ c \in [1..N -> S] /\ c = Children(t, p) /\ S = ChildrenOf(t, p)
      BY <1>0, ChildrenInOrder DEF EachChild
    <3> HIDE DEF g
    <3>3. Alike(f, g, S)
      BY <3>1, <3>2 DEF Alike
    <3>4. N \in Nat /\ c \in [1..N -> S]
      BY <3>2
    <3>5. Tours(f, c) = Tours(g, c)
      BY <3>3, <3>4, ToursAgree
    <3> QED
      BY <3>2, <3>5
  <2>7. \A p \in P : height[p] < k => g[p] = Tours(g, Children(t, p))
    BY <2>5, <2>6
  <2> HIDE DEF g
  <2> QED
    BY <2>1, <2>7
<1>4. PICK f : \A p \in P : f[p] = Tours(f, Children(t, p))
  <2>1. height[Root] + 1 \in Nat /\ \A p \in P : height[p] < height[Root] + 1
    BY <1>1, <1>2 DEF Falls
  <2>2. PICK f : \A p \in P : height[p] < height[Root] + 1 => f[p] = Tours(f, Children(t, p))
    BY <1>3, <2>1
  <2> QED
    BY <2>1, <2>2
<1> DEFINE walk == [p \in P |-> f[p]]
<1>5. ASSUME NEW p \in P PROVE Tours(f, Children(t, p)) = Tours(walk, Children(t, p))
  <2>1. \A n \in ChildrenOf(t, p) : f[n] = walk[n]
    BY <1>2
  <2>2. PICK S, N, c : N \in Nat /\ c \in [1..N -> S] /\ c = Children(t, p) /\ S = ChildrenOf(t, p)
    BY <1>0, ChildrenInOrder DEF EachChild
  <2> HIDE DEF walk
  <2>3. Alike(f, walk, S)
    BY <2>1, <2>2 DEF Alike
  <2>4. N \in Nat /\ c \in [1..N -> S]
    BY <2>2
  <2>5. Tours(f, c) = Tours(walk, c)
    BY <2>3, <2>4, ToursAgree
  <2> QED
    BY <2>2, <2>5
<1>6. \A p \in P : walk[p] = Tours(walk, Children(t, p))
  BY <1>4, <1>5
<1>7. walk = [p \in P |-> walk[p]]
  OBVIOUS
<1> HIDE DEF walk
<1>8. Walks(t, walk)
  BY <1>6, <1>7 DEF Walks
<1> QED
  BY <1>8

\* The tour is what the walk finds below Root.
LEMMA TourIsWalk ==
  ASSUME NEW t, Good(t), IsFiniteSet(DOMAIN t)
  PROVE  \E walk : /\ \A p \in DOMAIN t \cup {Root} : walk[p] = Tours(walk, Children(t, p))
                   /\ Tour(t) = walk[Root]
<1> DEFINE walk == CHOOSE walk : Walks(t, walk)
<1>1. Walks(t, walk)
  BY WalkExists
<1>2. Tour(t) = walk[Root]
  BY Zenon DEF Tour, Walks
<1> HIDE DEF walk
<1>3. \A p \in DOMAIN t \cup {Root} : walk[p] = Tours(walk, Children(t, p))
  BY <1>1 DEF Walks
<1> QED
  BY <1>2, <1>3

-----------------------------------------------------------------------------
(* What the tour of some children is: the numbers that a nested set of them  *)
(* and of what is below them gives out.                                      *)

Toured(t, p, C, w, b) ==
  /\ C \subseteq ChildrenOf(t, p) /\ w \in Seq(DOMAIN t)
  /\ DOMAIN b \subseteq DOMAIN t /\ Shape(b, Len(w))
  /\ \A n \in DOMAIN b : /\ w[b[n].lft] = n /\ w[b[n].rght] = n
                         /\ b[n].parent = IF t[n].parent = p THEN Root ELSE t[n].parent
  /\ \A n \in DOMAIN t : n \in DOMAIN b <=> (n \in C \/ t[n].parent \in DOMAIN b)

\* All of them are below the parent.
LEMMA TouredIsLower ==
  ASSUME NEW t, NEW level, Rises(t, level), NEW p \in DOMAIN t \cup {Root},
         NEW C, NEW w, NEW b, Toured(t, p, C, w, b), NEW n \in DOMAIN b
  PROVE  level[p] < level[n]
<1> DEFINE Wrong == {x \in DOMAIN b : level[x] <= level[p]}
           Levels == {level[x] : x \in Wrong}
<1>1. level[p] \in Nat /\ \A x \in DOMAIN b : x \in DOMAIN t /\ level[x] \in Nat
  BY DEF Toured, Rises
<1>2. Wrong = {}
  <2> SUFFICES ASSUME Wrong # {} PROVE FALSE
    OBVIOUS
  <2>1. PICK m \in Levels : \A y \in Levels : m <= y
    <3>1. Levels \in SUBSET Nat /\ Levels # {}
      BY <1>1
    <3> HIDE DEF Levels
    <3> QED
      BY <3>1, LeastExists
  <2>2. PICK x \in Wrong : m = level[x]
    BY <2>1
  <2>3. x \in DOMAIN t /\ x \in DOMAIN b /\ level[x] <= level[p] /\ level[t[x].parent] < level[x]
    BY <1>1, <2>2 DEF Rises
  <2>4. x \in C \/ t[x].parent \in DOMAIN b
    BY <2>3 DEF Toured
  <2>5. CASE x \in C
    <3>1. t[x].parent = p
      BY <2>5 DEF Toured, ChildrenOf
    <3> QED
      BY <3>1, <2>3, <1>1
  <2>6. CASE t[x].parent \in DOMAIN b
    <3>1. t[x].parent \in Wrong
      BY <2>3, <2>6, <1>1
    <3>2. m <= level[t[x].parent]
      BY <3>1, <2>1
    <3> QED
      BY <3>2, <2>2, <2>3, <2>6, <1>1
  <2> QED
    BY <2>4, <2>5, <2>6
<1>3. ~(level[n] <= level[p])
  BY <1>2
<1> QED
  BY <1>1, <1>3

\* The tours of two children have no node in common.
LEMMA TouredApart ==
  ASSUME NEW t, Root \notin DOMAIN t, NEW level, Rises(t, level), NEW p \in DOMAIN t \cup {Root},
         NEW C, NEW w, NEW s, Toured(t, p, C, w, s), NEW c \in ChildrenOf(t, p), c \notin C,
         NEW v, NEW b, Toured(t, c, ChildrenOf(t, c), v, b)
  PROVE  c \in DOMAIN t /\ c \notin DOMAIN s /\ c \notin DOMAIN b /\ DOMAIN s \cap DOMAIN b = {}
         /\ p \notin DOMAIN s /\ p \notin DOMAIN b /\ p # c
<1>1. c \in DOMAIN t /\ t[c].parent = p /\ level[p] < level[c] /\ level[p] \in Nat /\ level[c] \in Nat
  BY DEF Rises, ChildrenOf
<1>2. \A n \in DOMAIN s : level[p] < level[n]
  BY TouredIsLower
<1>3. \A n \in DOMAIN b : level[c] < level[n]
  BY <1>1, TouredIsLower
<1>4. \A n \in DOMAIN s \cup DOMAIN b : n \in DOMAIN t /\ level[n] \in Nat
  BY DEF Toured, Rises
<1>5. p \notin DOMAIN s /\ p \notin DOMAIN b /\ p # c /\ c \notin DOMAIN b
  BY <1>1, <1>2, <1>3, <1>4
<1>6. c \notin DOMAIN s
  BY <1>1, <1>5 DEF Toured
<1> DEFINE Wrong == DOMAIN s \cap DOMAIN b
           Levels == {level[x] : x \in Wrong}
<1>7. Wrong = {}
  <2> SUFFICES ASSUME Wrong # {} PROVE FALSE
    OBVIOUS
  <2>1. PICK m \in Levels : \A y \in Levels : m <= y
    <3>1. Levels \in SUBSET Nat /\ Levels # {}
      BY <1>4
    <3> HIDE DEF Levels
    <3> QED
      BY <3>1, LeastExists
  <2>2. PICK x \in Wrong : m = level[x]
    BY <2>1
  <2>3. x \in DOMAIN t /\ level[t[x].parent] < level[x] /\ level[x] \in Nat
    BY <1>4, <2>2 DEF Rises
  <2>4. x \in C \/ t[x].parent \in DOMAIN s
    BY <2>2, <2>3 DEF Toured
  <2>5. t[x].parent = c \/ t[x].parent \in DOMAIN b
    BY <2>2, <2>3 DEF Toured, ChildrenOf
  <2>6. t[x].parent \in DOMAIN s
    <3>1. x \in C => t[x].parent = p
      BY DEF Toured, ChildrenOf
    <3> QED
      BY <3>1, <2>4, <2>5, <1>5
  <2>7. t[x].parent \in Wrong
    BY <2>5, <2>6, <1>6
  <2>8. m <= level[t[x].parent] /\ level[t[x].parent] \in Nat
    BY <2>7, <2>1, <1>4
  <2> QED
    BY <2>8, <2>2, <2>3
<1> QED
  BY <1>1, <1>5, <1>6, <1>7

\* Where the elements of two sequences are when one is put behind the other.
Behind(x, M, y, K, z) ==
  /\ M \in Nat /\ K \in Nat /\ Len(x) = M /\ Len(y) = K /\ Len(z) = M + K
  /\ \A i \in 1..M : z[i] = x[i]
  /\ \A i \in 1..K : z[M + i] = y[i]

\* So it is with \o.
LEMMA ConcatPlaces ==
  ASSUME NEW D, NEW x \in Seq(D), NEW y \in Seq(D)
  PROVE  x \o y \in Seq(D) /\ Behind(x, Len(x), y, Len(y), x \o y)
<1>1. PICK M \in Nat, K \in Nat : M = Len(x) /\ K = Len(y)
  OBVIOUS
<1>2. x \o y \in Seq(D) /\ Len(x \o y) = M + K
  BY <1>1
<1>3. \A i \in 1..M : (x \o y)[i] = x[i]
  BY <1>1
<1>4. \A i \in 1..K : (x \o y)[M + i] = y[i]
  BY <1>1
<1> QED
  BY <1>1, <1>2, <1>3, <1>4 DEF Behind

\* Where the elements of a longer tour are.
Longer(w, M, c, v, K, r) ==
  /\ M \in Nat /\ K \in Nat /\ Len(w) = M /\ Len(v) = K /\ Len(r) = M + 2 + K
  /\ \A i \in 1..M : r[i] = w[i]
  /\ r[M + 1] = c /\ r[M + 2 + K] = c
  /\ \A i \in 1..K : r[i + (M + 1)] = v[i]

\* A child and what is below it are put behind.
LEMMA AddTourPlaces ==
  ASSUME NEW D, NEW w \in Seq(D), NEW walk, NEW c \in D, NEW v \in Seq(D), v = walk[c]
  PROVE  /\ AddTour(w, walk, c) \in Seq(D)
         /\ Longer(w, Len(w), c, v, Len(v), AddTour(w, walk, c))
<1>1. PICK one : one = <<c>>
  OBVIOUS
<1>2. one \in Seq(D) /\ Len(one) = 1 /\ one[1] = c
  BY <1>1
<1>3. PICK a : a = w \o one /\ a \in Seq(D) /\ Behind(w, Len(w), one, Len(one), a)
  BY <1>2, ConcatPlaces
<1>4. PICK e : e = a \o v /\ e \in Seq(D) /\ Behind(a, Len(a), v, Len(v), e)
  BY <1>3, ConcatPlaces
<1>5. PICK r : r = e \o one /\ r \in Seq(D) /\ Behind(e, Len(e), one, Len(one), r)
  BY <1>2, <1>4, ConcatPlaces
<1>6. r = AddTour(w, walk, c)
  BY <1>1, <1>3, <1>4, <1>5 DEF AddTour
<1>7. PICK M \in Nat, K \in Nat : M = Len(w) /\ K = Len(v)
  OBVIOUS
<1>8. Len(a) = M + 1 /\ (\A i \in 1..M : a[i] = w[i]) /\ a[M + 1] = c
  BY <1>2, <1>3, <1>7 DEF Behind
<1>9. Len(e) = M + 1 + K /\ (\A i \in 1..M + 1 : e[i] = a[i]) /\ (\A i \in 1..K : e[M + 1 + i] = v[i])
  BY <1>4, <1>7, <1>8 DEF Behind
<1>10. Len(r) = M + 1 + K + 1 /\ (\A i \in 1..M + 1 + K : r[i] = e[i]) /\ r[M + 1 + K + 1] = c
  BY <1>2, <1>5, <1>9 DEF Behind
<1>11. \A i \in 1..M : r[i] = w[i]
  BY <1>8, <1>9, <1>10
<1>12. r[M + 1] = c
  BY <1>8, <1>9, <1>10
<1>13. \A i \in 1..K : r[i + (M + 1)] = v[i]
  <2> SUFFICES ASSUME NEW i \in 1..K PROVE r[i + (M + 1)] = v[i]
    OBVIOUS
  <2>1. M + 1 + i \in 1..M + 1 + K /\ i + (M + 1) = M + 1 + i
    OBVIOUS
  <2> QED
    BY <2>1, <1>9, <1>10
<1>14. M + 1 + K + 1 = M + 2 + K
  OBVIOUS
<1>15. Longer(w, M, c, v, K, r)
  BY <1>7, <1>10, <1>11, <1>12, <1>13, <1>14 DEF Longer
<1> QED
  BY <1>5, <1>6, <1>7, <1>15

\* A child and what is below it come behind the children before: the node alone, then the others
\* into it.
LEMMA TourAdded ==
  ASSUME NEW t, Root \notin DOMAIN t, NEW level, Rises(t, level), NEW p \in DOMAIN t \cup {Root},
         NEW C, NEW w, NEW s, Toured(t, p, C, w, s), NEW c \in ChildrenOf(t, p), c \notin C,
         NEW walk, NEW v, v = walk[c], NEW b, Toured(t, c, ChildrenOf(t, c), v, b)
  PROVE  \E u : Toured(t, p, C \cup {c}, AddTour(w, walk, c), u)
<1>1. /\ c \in DOMAIN t /\ c \notin DOMAIN s /\ c \notin DOMAIN b /\ DOMAIN s \cap DOMAIN b = {}
      /\ p \notin DOMAIN s /\ p \notin DOMAIN b /\ p # c /\ c # Root /\ t[c].parent = p
  BY TouredApart DEF ChildrenOf
<1>2. PICK M, K : M = Len(w) /\ K = Len(v) /\ Shape(s, M) /\ Shape(b, K)
  BY DEF Toured
<1>3. M \in Nat /\ K \in Nat
  BY <1>2, ShapeFacts
<1>4. PICK r : r = AddTour(w, walk, c) /\ r \in Seq(DOMAIN t) /\ Longer(w, M, c, v, K, r)
  <2>1. w \in Seq(DOMAIN t) /\ v \in Seq(DOMAIN t)
    BY DEF Toured
  <2> QED
    BY <2>1, <1>1, <1>2, AddTourPlaces
<1>5. PICK m, h, e : m = M + 1 /\ h = M + 2 /\ e = 1 /\ m \in Int /\ h \in Int /\ e \in Int
  BY <1>3
<1>o. PICK one : one = [x \in DOMAIN s \cup {c} |-> IF x = c THEN Row(Root, m, h, 0) ELSE s[x]]
  OBVIOUS
<1>6. /\ DOMAIN one = DOMAIN s \cup {c}
      /\ \A x \in DOMAIN s : one[x] = s[x]
      /\ one[c].parent = Root /\ one[c].lft = m /\ one[c].rght = h /\ one[c].depth = 0
  BY <1>1, <1>o DEF Row
<1>7. Shape(one, h)
  <2>1. m \in 1..M + 1 /\ PlaceUnder(s, m, Root)
    BY <1>2, <1>5, LastRootPlace
  <2>0. PICK a, k : a = [x \in {c} |-> Row(Root, 1, 2, 0)] /\ k = 2 /\ Shape(a, k)
    BY <1>1, OneNode
  <2>2. PICK z \in Int : z = 0
    OBVIOUS
  <2>3. DOMAIN a = {c} /\ a[c].lft = 1 /\ a[c].rght = 2 /\ a[c].depth = 0 /\ a[c].parent = Root
    BY <2>0 DEF Row
  <2>4. Grafted(s, a, k, m, Root, z, one)
    <3>1. \A x \in DOMAIN s : /\ one[x].lft = Opened(s[x].lft, m, k) /\ one[x].rght = Opened(s[x].rght, m, k)
                              /\ one[x].parent = s[x].parent /\ one[x].depth = s[x].depth
      BY <1>2, <1>3, <1>5, <1>6, <2>0, ShapeFacts DEF Opened
    <3> QED
      BY <3>1, <2>0, <2>2, <2>3, <1>1, <1>3, <1>5, <1>6 DEF Grafted
  <2>5. Shape(one, M + k)
    <3>1. z = DepthBelow(s, Root) /\ Root \in DOMAIN s \cup {Root}
      BY <2>2 DEF DepthBelow
    <3> QED
      BY <3>1, <1>2, <2>0, <2>1, <2>2, <2>4, Graft
  <2> QED
    BY <2>5, <2>0, <1>5
<1> DEFINE u == [x \in DOMAIN one \cup DOMAIN b |->
                  IF x \in DOMAIN b
                  THEN Row(IF b[x].parent = Root THEN c ELSE b[x].parent, b[x].lft + h - 1, b[x].rght + h - 1, b[x].depth + e)
                  ELSE Row(one[x].parent, Opened(one[x].lft, h, K), Opened(one[x].rght, h, K), one[x].depth)]
<1>8. Grafted(one, b, K, h, c, e, u)
  BY <1>1, <1>6 DEF Grafted, Row
<1> HIDE DEF u
<1>9. Shape(u, h + K)
  <2>1. one[c].rght \in 1..h /\ PlaceUnder(one, one[c].rght, c)
    BY <1>6, <1>7, LastChildPlace
  <2>2. h \in 1..h + 1 /\ PlaceUnder(one, h, c)
    BY <2>1, <1>5, <1>6
  <2>3. e = DepthBelow(one, c) /\ c \in DOMAIN one \cup {Root}
    BY <1>1, <1>5, <1>6 DEF DepthBelow
  <2> QED
    BY <2>2, <2>3, <1>2, <1>5, <1>7, <1>8, Graft
<1>10. DOMAIN u = DOMAIN s \cup {c} \cup DOMAIN b
  BY <1>6, <1>8 DEF Grafted
<1>11. h + K = Len(r)
  BY <1>4, <1>5 DEF Longer
<1>12. ASSUME NEW n \in DOMAIN s
       PROVE  /\ r[u[n].lft] = n /\ r[u[n].rght] = n
              /\ u[n].parent = IF t[n].parent = p THEN Root ELSE t[n].parent
  <2>1. s[n].lft \in 1..M /\ s[n].rght \in 1..M
    BY <1>2, ShapeFacts
  <2>2. u[n].lft = s[n].lft /\ u[n].rght = s[n].rght /\ u[n].parent = s[n].parent
    BY <2>1, <1>3, <1>5, <1>6, <1>8 DEF Grafted, Opened
  <2>3. w[s[n].lft] = n /\ w[s[n].rght] = n /\ s[n].parent = IF t[n].parent = p THEN Root ELSE t[n].parent
    BY DEF Toured
  <2> QED
    BY <2>1, <2>2, <2>3, <1>4 DEF Longer
<1>13. /\ r[u[c].lft] = c /\ r[u[c].rght] = c
       /\ u[c].parent = IF t[c].parent = p THEN Root ELSE t[c].parent
  <2>1. u[c].lft = M + 1 /\ u[c].rght = M + 2 + K /\ u[c].parent = Root
    BY <1>3, <1>5, <1>6, <1>8 DEF Grafted, Opened
  <2> QED
    BY <2>1, <1>1, <1>4 DEF Longer
<1>14. ASSUME NEW n \in DOMAIN b
       PROVE  /\ r[u[n].lft] = n /\ r[u[n].rght] = n
              /\ u[n].parent = IF t[n].parent = p THEN Root ELSE t[n].parent
  <2>1. b[n].lft \in 1..K /\ b[n].rght \in 1..K
    BY <1>2, ShapeFacts
  <2>2. u[n].lft = b[n].lft + (M + 1) /\ u[n].rght = b[n].rght + (M + 1)
    <3>1. u[n].lft = b[n].lft + h - 1 /\ u[n].rght = b[n].rght + h - 1
      BY <1>8 DEF Grafted
    <3> QED
      BY <3>1, <2>1, <1>3, <1>5
  <2>3. /\ v[b[n].lft] = n /\ v[b[n].rght] = n
        /\ b[n].parent = IF t[n].parent = c THEN Root ELSE t[n].parent
        /\ n \in DOMAIN t /\ (t[n].parent = c \/ t[n].parent \in DOMAIN b)
    BY DEF Toured, ChildrenOf
  <2>4. u[n].parent = IF b[n].parent = Root THEN c ELSE b[n].parent
    BY <1>8 DEF Grafted
  <2>5. t[n].parent # p /\ (t[n].parent # c => t[n].parent # Root)
    <3>1. Root \notin DOMAIN b
      BY <1>2 DEF Shape, Typed
    <3> QED
      BY <3>1, <2>3, <1>1
  <2>6. u[n].parent = IF t[n].parent = p THEN Root ELSE t[n].parent
    BY <2>3, <2>4, <2>5
  <2>7. r[b[n].lft + (M + 1)] = n /\ r[b[n].rght + (M + 1)] = n
    BY <2>1, <2>3, <1>4 DEF Longer
  <2> QED
    BY <2>2, <2>6, <2>7
<1>15. ASSUME NEW n \in DOMAIN t
       PROVE  n \in DOMAIN u <=> (n \in C \cup {c} \/ t[n].parent \in DOMAIN u)
  <2>1. n \in DOMAIN s <=> (n \in C \/ t[n].parent \in DOMAIN s)
    BY DEF Toured
  <2>2. n \in DOMAIN b <=> (t[n].parent = c \/ t[n].parent \in DOMAIN b)
    BY DEF Toured, ChildrenOf
  <2> QED
    BY <2>1, <2>2, <1>10
<1>16. C \cup {c} \subseteq ChildrenOf(t, p) /\ DOMAIN u \subseteq DOMAIN t
  BY <1>1, <1>10 DEF Toured
<1>17. Toured(t, p, C \cup {c}, r, u)
  <2>1. \A n \in DOMAIN u : /\ r[u[n].lft] = n /\ r[u[n].rght] = n
                            /\ u[n].parent = IF t[n].parent = p THEN Root ELSE t[n].parent
    BY <1>10, <1>12, <1>13, <1>14
  <2> QED
    BY <2>1, <1>4, <1>9, <1>11, <1>15, <1>16 DEF Toured
<1> QED
  BY <1>4, <1>17
\* Nothing has been walked yet.
LEMMA NothingToured ==
  ASSUME NEW t, Root \notin DOMAIN t, NEW p
  PROVE  Toured(t, p, {}, <<>>, <<>>)
<1>1. PICK b : b = <<>> /\ DOMAIN b = {}
  OBVIOUS
<1>e. <<>> \in Seq(DOMAIN t) /\ Len(<<>>) = 0
  OBVIOUS
<1>2. PICK w : w = <<>> /\ w \in Seq(DOMAIN t) /\ Len(w) = 0
  BY <1>e
<1>3. Shape(b, 0)
  BY <1>1 DEF Shape, Typed, Filled, Laminar
<1>4. Toured(t, p, {}, w, b)
  BY <1>1, <1>2, <1>3 DEF Toured
<1> QED
  BY <1>1, <1>2, <1>4

\* What is below a node has a tour.
HasTour(t, p, w) == \E b : Toured(t, p, ChildrenOf(t, p), w, b)

\* If all children have theirs, the parent has one: child after child.
LEMMA ParentHasTour ==
  ASSUME NEW t, Good(t), IsFiniteSet(DOMAIN t), NEW p \in DOMAIN t \cup {Root}, NEW walk,
         \A n \in ChildrenOf(t, p) : HasTour(t, n, walk[n])
  PROVE  HasTour(t, p, Tours(walk, Children(t, p)))
<1>1. PICK level : Root \notin DOMAIN t /\ Rises(t, level)
  BY LevelsExist
<1>2. PICK N, c : EachChild(t, p, N, c)
  BY ChildrenInOrder DEF Good
<1>3. N \in Nat /\ c \in [1..N -> ChildrenOf(t, p)] /\ c = Children(t, p)
  BY <1>2 DEF EachChild
<1>4. PICK F : Steps(F, N, walk, c)
  BY <1>3, ToursInSteps
<1> DEFINE Done(k) == {c[i] : i \in 1..k}
           Wrong == {k \in 0..N : ~ \E u : Toured(t, p, Done(k), F[k], u)}
<1>5. Wrong = {}
  <2> SUFFICES ASSUME Wrong # {} PROVE FALSE
    OBVIOUS
  <2>1. PICK k \in Wrong : \A j \in Wrong : k <= j
    <3>1. Wrong \in SUBSET Nat
      BY <1>3
    <3> HIDE DEF Wrong
    <3> QED
      BY <3>1, LeastExists
  <2>2. k # 0
    <3>1. Done(0) = {}
      OBVIOUS
    <3>2. F[0] = <<>>
      BY <1>4 DEF Steps
    <3>3. Toured(t, p, Done(0), F[0], <<>>)
      BY <3>1, <3>2, <1>1, NothingToured, Zenon
    <3> QED
      BY <3>3
  <2>3. k \in 1..N /\ k - 1 \in 0..N
    BY <2>2, <1>3
  <2>4. PICK s : Toured(t, p, Done(k - 1), F[k - 1], s)
    <3>1. k - 1 \notin Wrong
      BY <2>1, <2>3
    <3> QED
      BY <3>1, <2>3
  <2>5. PICK x, C, w : x = c[k] /\ C = Done(k - 1) /\ w = F[k - 1]
    OBVIOUS
  <2>6. x \in ChildrenOf(t, p) /\ x \notin C
    <3>1. \A i \in 1..k - 1 : i \in 1..N /\ i < k
      BY <2>3, <1>3
    <3>2. \A i \in 1..k - 1 : c[i] # c[k]
      BY <3>1, <2>3, <1>2 DEF EachChild
    <3> QED
      BY <3>2, <2>3, <2>5, <1>3
  <2>7. Done(k) = C \cup {x}
    <3>1. 1..k = (1..k - 1) \cup {k}
      BY <2>3, <1>3
    <3> QED
      BY <3>1, <2>5
  <2>8. F[k] = AddTour(w, walk, x)
    BY <2>3, <2>5, <1>4 DEF Steps
  <2>9. PICK v, b : v = walk[x] /\ Toured(t, x, ChildrenOf(t, x), v, b)
    BY <2>6 DEF HasTour
  <2>10. Toured(t, p, C, w, s)
    BY <2>4, <2>5
  <2>11. \E u : Toured(t, p, C \cup {x}, AddTour(w, walk, x), u)
    BY <2>6, <2>9, <2>10, <1>1, TourAdded
  <2> QED
    BY <2>1, <2>7, <2>8, <2>11
<1>6. N \in 0..N
  BY <1>3
<1>7. Done(N) = ChildrenOf(t, p)
  BY <1>2 DEF EachChild
<1>8. F[N] = Tours(walk, Children(t, p))
  BY <1>3, <1>4 DEF Steps
<1> QED
  BY <1>5, <1>6, <1>7, <1>8 DEF HasTour

\* So the walk makes a tour at every node: the lower nodes first.
LEMMA WalkMakesTours ==
  ASSUME NEW t, Good(t), IsFiniteSet(DOMAIN t), NEW walk,
         \A p \in DOMAIN t \cup {Root} : walk[p] = Tours(walk, Children(t, p))
  PROVE  \A p \in DOMAIN t \cup {Root} : HasTour(t, p, walk[p])
<1>1. PICK height : Falls(t, height)
  BY HeightsExist
<1> DEFINE P == DOMAIN t \cup {Root}
           Wrong == {p \in P : ~HasTour(t, p, walk[p])}
           Heights == {height[p] : p \in Wrong}
<1>2. \A p \in P : height[p] \in Nat /\ \A n \in ChildrenOf(t, p) : n \in P /\ height[n] < height[p]
  BY <1>1 DEF Falls, ChildrenOf
<1>3. Wrong = {}
  <2> SUFFICES ASSUME Wrong # {} PROVE FALSE
    OBVIOUS
  <2>1. PICK m \in Heights : \A y \in Heights : m <= y
    <3>1. Heights \in SUBSET Nat /\ Heights # {}
      BY <1>2
    <3> HIDE DEF Heights
    <3> QED
      BY <3>1, LeastExists
  <2>2. PICK p \in Wrong : m = height[p]
    BY <2>1
  <2>3. ASSUME NEW n \in ChildrenOf(t, p) PROVE HasTour(t, n, walk[n])
    <3>1. n \in P /\ height[n] \in Nat /\ height[p] \in Nat /\ height[n] < height[p]
      BY <1>2, <2>2
    <3>2. n \notin Wrong
      BY <2>1, <2>2, <3>1
    <3> QED
      BY <3>1, <3>2
  <2>4. HasTour(t, p, Tours(walk, Children(t, p)))
    BY <2>2, <2>3, ParentHasTour
  <2> QED
    BY <2>2, <2>4
<1> QED
  BY <1>3

\* The walk from Root comes to every node: the numbers that it gives out make a nested set with
\* the parents of the table.
LEMMA TourIsShape ==
  ASSUME NEW t, Good(t), IsFiniteSet(DOMAIN t)
  PROVE  \E b : /\ Tour(t) \in Seq(DOMAIN t) /\ Shape(b, Len(Tour(t))) /\ DOMAIN b = DOMAIN t
                /\ \A n \in DOMAIN t : /\ Tour(t)[b[n].lft] = n /\ Tour(t)[b[n].rght] = n
                                       /\ b[n].parent = t[n].parent
<1>1. PICK level : Root \notin DOMAIN t /\ Rises(t, level)
  BY LevelsExist
<1>2. PICK walk : /\ \A p \in DOMAIN t \cup {Root} : walk[p] = Tours(walk, Children(t, p))
                  /\ Tour(t) = walk[Root]
  BY TourIsWalk
<1>3. HasTour(t, Root, walk[Root])
  BY <1>2, WalkMakesTours
<1>4. PICK b, w : w = Tour(t) /\ Toured(t, Root, ChildrenOf(t, Root), w, b)
  BY <1>2, <1>3 DEF HasTour
<1> DEFINE Wrong == DOMAIN t \ DOMAIN b
           Levels == {level[n] : n \in Wrong}
<1>5. \A n \in DOMAIN t : level[n] \in Nat
  BY <1>1 DEF Rises
<1>6. Wrong = {}
  <2> SUFFICES ASSUME Wrong # {} PROVE FALSE
    OBVIOUS
  <2>1. PICK m \in Levels : \A y \in Levels : m <= y
    <3>1. Levels \in SUBSET Nat /\ Levels # {}
      BY <1>5
    <3> HIDE DEF Levels
    <3> QED
      BY <3>1, LeastExists
  <2>2. PICK n \in Wrong : m = level[n]
    BY <2>1
  <2>3. n \in DOMAIN t /\ t[n].parent \in DOMAIN t \cup {Root} /\ level[t[n].parent] < level[n]
    BY <2>2, <1>1 DEF Rises
  <2>4. t[n].parent # Root /\ t[n].parent \notin DOMAIN b
    BY <2>2, <2>3, <1>4 DEF Toured, ChildrenOf
  <2>5. t[n].parent \in Wrong
    BY <2>3, <2>4
  <2>6. m <= level[t[n].parent] /\ level[t[n].parent] \in Nat /\ level[n] \in Nat
    BY <2>1, <2>5, <2>3, <1>5
  <2> QED
    BY <2>2, <2>3, <2>6
<1>7. DOMAIN b = DOMAIN t
  BY <1>4, <1>6 DEF Toured
<1>8. w \in Seq(DOMAIN t) /\ Shape(b, Len(w))
      /\ \A n \in DOMAIN t : w[b[n].lft] = n /\ w[b[n].rght] = n /\ b[n].parent = t[n].parent
  BY <1>4, <1>7 DEF Toured
<1> QED
  BY <1>4, <1>7, <1>8

-----------------------------------------------------------------------------
(* The statements of recover().                                              *)

\* The last place of an element in a sequence, or 0.
LastPlace(s, x) ==
  LET I == {i \in 1..Len(s) : s[i] = x}
  IN  IF I # {} THEN Max(I) ELSE 0

\* The nodes around one, as a tour says.
AroundIn(w, n) == {a \in ToSet(w) : FirstPlace(w, a) < FirstPlace(w, n) /\ LastPlace(w, n) < LastPlace(w, a)}

\* The numbers are the places in the tour.
LEMMA UpdatesArePlaces ==
  ASSUME NEW t, NEW w, w = Tour(t), NEW s, s = InOrder(ToSet(w), [n \in ToSet(w) |-> LastPlace(w, n)])
  PROVE  RecoverUpdates(t) =
           [i \in DOMAIN s |-> [node |-> s[i], lft |-> FirstPlace(w, s[i]), rght |-> LastPlace(w, s[i]),
                                depth |-> Cardinality(AroundIn(w, s[i]))]]
BY DEF RecoverUpdates, SelectInSeq, SelectLastInSeq, FirstPlace, LastPlace, AroundIn

\* Both numbers of a node are the places at which the tour comes to it.
LEMMA PlacesAreNumbers ==
  ASSUME NEW D, NEW w \in Seq(D), NEW b, Shape(b, Len(w)), DOMAIN b = D,
         \A n \in D : w[b[n].lft] = n /\ w[b[n].rght] = n
  PROVE  /\ ToSet(w) = D
         /\ \A n \in D : FirstPlace(w, n) = b[n].lft /\ LastPlace(w, n) = b[n].rght
<1>1. PICK K : K = Len(w) /\ K \in Nat /\ DOMAIN w = 1..K /\ Shape(b, K)
  OBVIOUS
<1>2. \A n \in D : /\ b[n].lft \in 1..K /\ b[n].rght \in 1..K /\ b[n].lft < b[n].rght
                   /\ b[n].lft \in Int /\ b[n].rght \in Int
  BY <1>1, ShapeFacts
<1>3. \A y \in 1..K : w[y] \in D /\ (y = b[w[y]].lft \/ y = b[w[y]].rght)
  <2> SUFFICES ASSUME NEW y \in 1..K PROVE w[y] \in D /\ (y = b[w[y]].lft \/ y = b[w[y]].rght)
    OBVIOUS
  <2>1. PICK n \in D : b[n].lft = y \/ b[n].rght = y
    BY <1>1 DEF Shape, Filled
  <2> QED
    BY <2>1
<1>4. ToSet(w) = D
  BY <1>1, <1>2, <1>3 DEF ToSet
<1>5. ASSUME NEW n \in D PROVE FirstPlace(w, n) = b[n].lft /\ LastPlace(w, n) = b[n].rght
  <2> DEFINE I == {i \in 1..K : w[i] = n}
  <2>1. I = {b[n].lft, b[n].rght}
    BY <1>2, <1>3
  <2>2. FirstPlace(w, n) = Min(I) /\ LastPlace(w, n) = Max(I)
    BY <1>1, <2>1 DEF FirstPlace, LastPlace
  <2>3. Min({b[n].lft, b[n].rght}) = b[n].lft
    BY <1>2 DEF Min
  <2>4. Max({b[n].lft, b[n].rght}) = b[n].rght
    BY <1>2 DEF Max
  <2> HIDE DEF I
  <2> QED
    BY <2>1, <2>2, <2>3, <2>4
<1> QED
  BY <1>4, <1>5

\* Two tables with the same in their columns.
SameColumns(t, b) ==
  /\ DOMAIN t = DOMAIN b
  /\ \A n \in DOMAIN b : t[n].lft = b[n].lft /\ t[n].rght = b[n].rght /\ t[n].parent = b[n].parent /\ t[n].depth = b[n].depth

\* Only the columns count.
LEMMA SameShape ==
  ASSUME NEW b, NEW K, Shape(b, K), NEW t, SameColumns(t, b)
  PROVE  Shape(t, K)
<1>1. Typed(t)
  BY DEF Shape, Typed, SameColumns
<1>2. Filled(t, K)
  BY DEF Shape, Filled, SameColumns
<1>3. Laminar(t)
  BY DEF Shape, Laminar, Apart, SameColumns
<1>4. ASSUME NEW n \in DOMAIN t PROVE ParentOK(t, n)
  <2>1. \A a, x \in DOMAIN t : Above(t, a, x) <=> Above(b, a, x)
    BY DEF Above, SameColumns
  <2>2. ParentOK(b, n) /\ b[n].parent \in DOMAIN b \cup {Root} /\ DOMAIN t = DOMAIN b
    BY DEF Shape, Typed, SameColumns
  <2> QED
    BY <2>1, <2>2 DEF ParentOK, SameColumns
<1> QED
  BY <1>1, <1>2, <1>3, <1>4 DEF Shape

\* The statements give the nodes of a sequence the numbers that they have in a nested set.
Rebuilds(s, b, statements) ==
  statements = [i \in DOMAIN s |-> SetBounds(s[i], b[s[i]].lft, b[s[i]].rght, b[s[i]].depth)]

\* recover() gives every node the numbers of the nested set that its tour stands for.
LEMMA RecoverIsRebuild ==
  ASSUME Good(rows), IsFiniteSet(DOMAIN rows)
  PROVE  \E b, K, N, s : /\ Shape(b, K) /\ DOMAIN b = DOMAIN rows /\ \A n \in DOMAIN rows : b[n].parent = rows[n].parent
                         /\ N \in Nat /\ s \in [1..N -> DOMAIN rows] /\ \A n \in DOMAIN rows : \E i \in 1..N : s[i] = n
                         /\ Rebuilds(s, b, RecoverScript)
<1> DEFINE D == DOMAIN rows
<1>1. PICK w, b : /\ w = Tour(rows) /\ w \in Seq(D) /\ Shape(b, Len(w)) /\ DOMAIN b = D
                  /\ \A n \in D : w[b[n].lft] = n /\ w[b[n].rght] = n /\ b[n].parent = rows[n].parent
  BY TourIsShape
<1>2. /\ ToSet(w) = D
      /\ \A n \in D : FirstPlace(w, n) = b[n].lft /\ LastPlace(w, n) = b[n].rght
  BY <1>1, PlacesAreNumbers
<1>3. PICK number, s : number = [n \in ToSet(w) |-> LastPlace(w, n)] /\ s = InOrder(ToSet(w), number)
  OBVIOUS
<1>4. /\ \A x \in D : number[x] = b[x].rght /\ number[x] \in Int
      /\ \A x, y \in D : x # y => number[x] # number[y]
  <2>1. \A x \in D : number[x] = b[x].rght /\ number[x] \in Int
    BY <1>1, <1>2, <1>3, ShapeFacts
  <2>2. ASSUME NEW x \in D, NEW y \in D, x # y PROVE b[x].rght # b[y].rght
    BY <2>2, <1>1, ShapeFacts DEF Apart
  <2> QED
    BY <2>1, <2>2
<1>5. PICK N : N = Cardinality(D)
  OBVIOUS
<1>6. /\ N \in Nat /\ s \in [1..N -> D]
      /\ \A x \in D : \E i \in 1..N : s[i] = x
  <2>1. s = InOrder(D, number)
    BY <1>2, <1>3
  <2> HIDE DEF D
  <2> QED
    BY <2>1, <1>4, <1>5, InOrderSorts DEF D
<1>7. ASSUME NEW n \in D PROVE Cardinality(AroundIn(w, n)) = b[n].depth
  <2>1. AroundIn(w, n) = Encloses(b, n)
    BY <1>1, <1>2 DEF AroundIn, Encloses, IsAncestorOf
  <2> QED
    BY <2>1, <1>1, DepthCountsNodesAround
<1>8. RecoverUpdates(rows) =
        [i \in DOMAIN s |-> [node |-> s[i], lft |-> FirstPlace(w, s[i]), rght |-> LastPlace(w, s[i]),
                             depth |-> Cardinality(AroundIn(w, s[i]))]]
  BY <1>1, <1>3, UpdatesArePlaces
<1>9. \A i \in DOMAIN s : /\ FirstPlace(w, s[i]) = b[s[i]].lft /\ LastPlace(w, s[i]) = b[s[i]].rght
                          /\ Cardinality(AroundIn(w, s[i])) = b[s[i]].depth
  BY <1>2, <1>6, <1>7
<1>10. RecoverScript = [i \in DOMAIN s |-> SetBounds(s[i], FirstPlace(w, s[i]), LastPlace(w, s[i]), Cardinality(AroundIn(w, s[i])))]
  BY <1>8 DEF RecoverScript
<1>11. Rebuilds(s, b, RecoverScript)
  BY <1>9, <1>10 DEF Rebuilds
<1> QED
  BY <1>1, <1>6, <1>11

\* The statements of recover() make a nested set of any table whose parents are a forest.
LEMMA RecoverReaches ==
  ASSUME Good(rows), IsFiniteSet(DOMAIN rows)
  PROVE  Reaches(rows, RecoverScript)
<1> DEFINE D == DOMAIN rows
<1>1. PICK b, K, N, s : /\ Shape(b, K) /\ DOMAIN b = D /\ \A n \in D : b[n].parent = rows[n].parent
                        /\ N \in Nat /\ s \in [1..N -> D] /\ \A n \in D : \E i \in 1..N : s[i] = n
                        /\ Rebuilds(s, b, RecoverScript)
  BY RecoverIsRebuild
<1> DEFINE New(n) == Row(rows[n].parent, b[n].lft, b[n].rght, b[n].depth)
           Done(i) == {s[j] : j \in 1..i - 1}
           T == [i \in 1..N + 1 |-> [n \in D |-> IF n \in Done(i) THEN New(n) ELSE rows[n]]]
<1>2. PICK r : r = RecoverScript
  OBVIOUS
<1>3. PICK S : /\ Len(r) = N /\ r \in Seq(S)
               /\ \A i \in 1..N : r[i] = SetBounds(s[i], b[s[i]].lft, b[s[i]].rght, b[s[i]].depth)
  <2>1. r = [i \in 1..N |-> SetBounds(s[i], b[s[i]].lft, b[s[i]].rght, b[s[i]].depth)]
    BY <1>1, <1>2 DEF Rebuilds
  <2>2. PICK S : S = {r[i] : i \in 1..N}
    OBVIOUS
  <2>3. r \in [1..N -> S]
    BY <2>1, <2>2
  <2>4. Len(r) = N /\ r \in Seq(S)
    BY <2>3, <1>1
  <2>5. \A i \in 1..N : r[i] = SetBounds(s[i], b[s[i]].lft, b[s[i]].rght, b[s[i]].depth)
    BY <2>1
  <2> QED
    BY <2>4, <2>5
<1>4. \A n \in D : New(n) \in Records /\ rows[n] \in Records /\ New(n).parent = rows[n].parent
  <2>1. IsTable(rows) /\ \A n \in D : b[n].lft \in Int /\ b[n].rght \in Int /\ b[n].depth \in Int
    BY <1>1, ShapeFacts DEF Good
  <2>2. \A n \in D : rows[n] \in Records /\ rows[n].parent \in Nodes \cup {Root}
    BY <2>1 DEF IsTable, Records
  <2> QED
    BY <2>1, <2>2 DEF Row, Records
<1> HIDE DEF New
<1>5. ASSUME NEW i \in 1..N + 1 PROVE Good(T[i])
  <2>0. PICK C, u : C = Done(i) /\ u = [n \in D |-> IF n \in C THEN New(n) ELSE rows[n]] /\ u = T[i]
    OBVIOUS
  <2>1. DOMAIN u = D /\ \A n \in D : u[n] \in Records /\ u[n].parent = rows[n].parent
    <3> HIDE DEF Done, T
    <3> QED
      BY <2>0, <1>4
  <2>2. u = [n \in D |-> u[n]]
    BY <2>0
  <2>3. IsTable(u)
    <3>1. u \in [D -> Records] /\ D \subseteq Nodes
      BY <2>1, <2>2 DEF Good, IsTable
    <3> QED
      BY <3>1, <2>1 DEF IsTable, Records
  <2> QED
    BY <2>0, <2>1, <2>3, SameParents
<1>6. ASSUME NEW i \in 1..N PROVE T[i + 1] = Execute(T[i], r[i])
  <2>1. PICK x : x = s[i] /\ x \in D /\ r[i] = SetBounds(x, b[x].lft, b[x].rght, b[x].depth)
    BY <1>1, <1>3
  <2>2. i \in 1..N + 1 /\ i + 1 \in 1..N + 1 /\ (i + 1) - 1 = i
    BY <1>1
  <2>3. PICK t : t = T[i]
    OBVIOUS
  <2>4. DOMAIN t = D /\ \A n \in D : t[n] = (IF n \in Done(i) THEN New(n) ELSE rows[n]) /\ t[n].parent = rows[n].parent
    BY <2>2, <2>3, <1>4
  <2>5. Execute(t, r[i]) = [n \in D |-> IF n = x THEN New(x) ELSE t[n]]
    BY <2>1, <2>4 DEF Execute, SetBounds, New
  <2>6. Done(i + 1) = Done(i) \cup {x}
    <3>1. 1..i = (1..i - 1) \cup {i}
      BY <1>1
    <3> QED
      BY <3>1, <2>1, <2>2
  <2>7. T[i + 1] = [n \in D |-> IF n \in Done(i) \cup {x} THEN New(n) ELSE rows[n]]
    BY <2>2, <2>6
  <2>8. \A n \in D : (IF n \in Done(i) \cup {x} THEN New(n) ELSE rows[n]) = (IF n = x THEN New(x) ELSE t[n])
    <3> HIDE DEF Done
    <3> QED
      BY <2>4
  <2> HIDE DEF T, Done
  <2> QED
    BY <2>3, <2>5, <2>7, <2>8
<1>7. T[1] = rows
  <2>1. Done(1) = {}
    OBVIOUS
  <2>2. rows = [n \in D |-> rows[n]]
    BY DEF Good, IsTable
  <2> QED
    BY <2>1, <2>2, <1>1
<1>8. PICK u : u = T[N + 1] /\ u = [n \in D |-> New(n)]
  <2>1. N + 1 \in 1..N + 1 /\ (N + 1) - 1 = N
    BY <1>1
  <2>2. \A n \in D : n \in Done(N + 1)
    BY <2>1, <1>1
  <2>3. T[N + 1] = [n \in D |-> IF n \in Done(N + 1) THEN New(n) ELSE rows[n]]
    BY <2>1
  <2> HIDE DEF T, Done
  <2> QED
    BY <2>2, <2>3
<1> HIDE DEF T
<1>9. Path(rows, r, u)
  BY <1>1, <1>3, <1>5, <1>6, <1>7, <1>8 DEF Path
<1>10. SameColumns(u, b)
  <2>1. DOMAIN u = D /\ \A n \in D : u[n] = New(n)
    BY <1>8
  <2>2. \A n \in D : /\ New(n).lft = b[n].lft /\ New(n).rght = b[n].rght
                     /\ New(n).parent = rows[n].parent /\ New(n).depth = b[n].depth
    BY DEF New, Row
  <2> QED
    BY <2>1, <2>2, <1>1 DEF SameColumns
<1>11. Shape(u, K)
  BY <1>1, <1>10, SameShape
<1> QED
  BY <1>2, <1>9, <1>11 DEF Reaches

-----------------------------------------------------------------------------
(* The invariant.                                                            *)

\* One manager at a time works on the table.
OneWorks == \A m, o \in Managers : m # o => call[m] = "idle" \/ call[o] = "idle"

\* What was carried out is a nested set; so is what a call makes, if nothing throws.
Sound(t) == \E K : Shape(t, K)

TreeInv ==
  /\ TypeOK
  /\ OneWorks
  /\ Good(rows)
  /\ ~damaged => Sound(saved)
  /\ (~damaged /\ \A m \in Managers : call[m] = "idle") => rows = saved
  /\ \A m \in Managers : call[m] # "idle" => Reaches(rows, script[m])
  /\ \A m \in Managers : damaged /\ call[m] # "idle" => call[m] = "recover"

\* The assumptions of the theorem: a manager locks the table, no node is moved below itself or
\* below a sibling, and the offset is beyond all the numbers.
Sane ==
  /\ Locked /\ ~Nested /\ ~Downwards
  /\ IsFiniteSet(Nodes) /\ 2 * Cardinality(Nodes) <= Offset

\* A table has finitely many rows, and numbers up to the offset at most.
LEMMA RoomForAll ==
  ASSUME Sane, IsTable(rows)
  PROVE  IsFiniteSet(DOMAIN rows) /\ \A M : Shape(rows, M) => M <= Offset
<1>1. IsFiniteSet(DOMAIN rows) /\ Cardinality(DOMAIN rows) <= Cardinality(Nodes)
  BY FS_Subset DEF Sane, IsTable
<1>2. Cardinality(DOMAIN rows) \in Nat /\ Cardinality(Nodes) \in Nat
  BY <1>1, FS_CardinalityType DEF Sane
<1>3. ASSUME NEW M, Shape(rows, M) PROVE M <= Offset
  <2>1. M = 2 * Cardinality(DOMAIN rows)
    BY <1>1, <1>3, TwoNumbersEach
  <2> QED
    BY <2>1, <1>1, <1>2 DEF Sane, Offset
<1> QED
  BY <1>1, <1>3

\* Nothing is in the table at first, which is a nested set.
LEMMA InitEstablishes ==
  ASSUME Init
  PROVE  TreeInv
<1>1. rows = <<>> /\ saved = <<>> /\ damaged = FALSE /\ (\A m \in Managers : call[m] = "idle" /\ script[m] = <<>>)
  BY DEF Init
<1>2. DOMAIN rows = {}
  BY <1>1
<1>3. Shape(rows, 0)
  BY <1>2 DEF Shape, Typed, Filled, Laminar
<1>4. IsTable(rows)
  BY <1>2, <1>1 DEF IsTable
<1>5. TypeOK
  BY <1>1, <1>4 DEF TypeOK, Init, Operations
<1>6. Good(rows) /\ Sound(saved)
  BY <1>1, <1>3, <1>4, ShapeIsRooted DEF Good, Sound
<1> QED
  BY <1>1, <1>5, <1>6 DEF TreeInv, OneWorks

\* A manager begins what leads to a nested set.
LEMMA StartKeeps ==
  ASSUME TreeInv, Sane, NEW m \in Managers, Idle(m),
         NEW operation \in Operations \ {"idle"}, NEW statements, Start(m, operation, statements),
         ~damaged \/ operation = "recover", Reaches(rows, statements)
  PROVE  TreeInv'
<1>1. /\ rows' = rows /\ saved' = saved /\ damaged' = damaged
      /\ call' = [call EXCEPT ![m] = operation] /\ script' = [script EXCEPT ![m] = statements]
      /\ \E way \in Modes : mode' = [mode EXCEPT ![m] = way]
  BY DEF Start
<1>2. \A o \in Managers : call[o] = "idle"
  BY DEF Idle, Sane
<1>3. TypeOK
  BY DEF TreeInv
<1>4. TypeOK'
  BY <1>1, <1>3, TreeAssumption DEF TypeOK, IsTable
<1>5. call'[m] = operation /\ script'[m] = statements /\ \A o \in Managers : o # m => call'[o] = "idle"
  BY <1>1, <1>2, <1>3 DEF TypeOK
<1>6. OneWorks' /\ \A o \in Managers : damaged' /\ call'[o] # "idle" => call'[o] = "recover"
  BY <1>1, <1>5 DEF OneWorks
<1>7. \A o \in Managers : call'[o] # "idle" => Reaches(rows', script'[o])
  BY <1>1, <1>5
<1>8. Good(rows)' /\ (~damaged => Sound(saved))'
  BY <1>1 DEF TreeInv
<1>9. ~(\A o \in Managers : call'[o] = "idle")
  BY <1>5
<1> QED
  BY <1>4, <1>6, <1>7, <1>8, <1>9 DEF TreeInv

\* A statement takes the table one step further.
LEMMA StatementKeeps ==
  ASSUME TreeInv, NEW m \in Managers, Statement(m)
  PROVE  TreeInv'
<1>1. /\ script[m] # <<>> /\ rows' = Execute(rows, Head(script[m]))
      /\ script' = [script EXCEPT ![m] = Tail(@)]
      /\ saved' = saved /\ damaged' = damaged /\ call' = call /\ mode' = mode
  BY DEF Statement
<1>2. TypeOK
  BY DEF TreeInv
<1>3. call[m] # "idle" /\ script' = [script EXCEPT ![m] = Tail(script[m])] /\ script'[m] = Tail(script[m])
  BY <1>1, <1>2 DEF TypeOK
<1>4. PICK u, K : Path(rows, script[m], u) /\ Shape(u, K)
  BY <1>3 DEF TreeInv, Reaches
<1>5. Path(rows', script'[m], u)
  BY <1>1, <1>3, <1>4, PathTail
<1>6. Good(rows') /\ Reaches(rows', script'[m])
  BY <1>4, <1>5, PathTail DEF Reaches
<1>7. \A o \in Managers : o # m => call[o] = "idle"
  BY <1>3 DEF TreeInv, OneWorks
<1>8. TypeOK'
  <2>1. IsTable(rows)' /\ IsTable(saved)'
    BY <1>1, <1>2, <1>6 DEF TypeOK, Good, IsTable
  <2>2. \A o \in Managers : call'[o] = "idle" => script'[o] = <<>>
    BY <1>1, <1>2, <1>3 DEF TypeOK
  <2> QED
    BY <2>1, <2>2, <1>1, <1>2, <1>3 DEF TypeOK
<1>9. \A o \in Managers : call'[o] # "idle" => Reaches(rows', script'[o])
  BY <1>1, <1>6, <1>7
<1>10. OneWorks' /\ (~damaged => Sound(saved))' /\ (\A o \in Managers : damaged /\ call[o] # "idle" => call[o] = "recover")'
  BY <1>1 DEF TreeInv, OneWorks
<1>11. ~(\A o \in Managers : call'[o] = "idle")
  BY <1>1, <1>3
<1>12. Good(rows)'
  BY <1>6 DEF Good, Rooted, IsTable
<1> QED
  BY <1>8, <1>9, <1>10, <1>11, <1>12 DEF TreeInv

\* What a call leaves when it returns is a nested set.
LEMMA ReturnKeeps ==
  ASSUME TreeInv, NEW m \in Managers, Return(m)
  PROVE  TreeInv'
<1>1. /\ call[m] # "idle" /\ script[m] = <<>>
      /\ saved' = rows /\ damaged' = (damaged /\ call[m] # "recover")
      /\ call' = [call EXCEPT ![m] = "idle"] /\ mode' = [mode EXCEPT ![m] = "autocommit"]
      /\ rows' = rows /\ script' = script
  BY DEF Return
<1>2. TypeOK
  BY DEF TreeInv
<1>3. damaged' = FALSE
  BY <1>1, <1>2 DEF TreeInv, TypeOK
<1>4. Sound(rows)
  <2>1. PICK u, K : Path(rows, <<>>, u) /\ Shape(u, K)
    BY <1>1 DEF TreeInv, Reaches
  <2>2. rows = u
    BY <2>1, PathTail
  <2> QED
    BY <2>1, <2>2 DEF Sound
<1>5. \A o \in Managers : call'[o] = "idle"
  BY <1>1, <1>2 DEF TreeInv, OneWorks, TypeOK
<1>6. TypeOK'
  <2>1. IsTable(rows)' /\ IsTable(saved)'
    BY <1>1, <1>2 DEF TypeOK, IsTable
  <2>2. \A o \in Managers : script'[o] = <<>>
    BY <1>1, <1>2 DEF TypeOK, TreeInv, OneWorks
  <2> QED
    BY <2>1, <2>2, <1>1, <1>2, <1>3 DEF TypeOK, Operations
<1>7. Good(rows)' /\ Sound(saved)' /\ rows' = saved'
  BY <1>1, <1>4 DEF TreeInv
<1> QED
  BY <1>3, <1>5, <1>6, <1>7 DEF TreeInv, OneWorks

\* A call that throws is undone, or leaves a damaged table.
LEMMA ThrowKeeps ==
  ASSUME TreeInv, NEW m \in Managers, Throw(m)
  PROVE  TreeInv'
<1>1. /\ script[m] # <<>> /\ saved' = saved
      /\ call' = [call EXCEPT ![m] = "idle"] /\ mode' = [mode EXCEPT ![m] = "autocommit"]
      /\ script' = [script EXCEPT ![m] = <<>>]
  BY DEF Throw
<1>2. TypeOK
  BY DEF TreeInv
<1>3. call[m] # "idle" /\ \A o \in Managers : o # m => call[o] = "idle" /\ script[o] = <<>>
  BY <1>1, <1>2 DEF TreeInv, OneWorks, TypeOK
<1>4. \A o \in Managers : call'[o] = "idle" /\ script'[o] = <<>>
  BY <1>1, <1>2, <1>3 DEF TypeOK
<1>5. /\ damaged' \in BOOLEAN /\ Good(rows)' /\ (~damaged => Sound(saved))'
      /\ (~damaged' => rows' = saved')
  <2>1. CASE mode[m] = "transaction" /\ call[m] # "recover"
    <3>1. rows' = saved /\ damaged' = damaged /\ damaged = FALSE
      BY <2>1, <1>2, <1>3 DEF Throw, TreeInv, TypeOK
    <3>2. Good(saved) /\ Sound(saved)
      <4>1. PICK K : Shape(saved, K)
        BY <3>1 DEF TreeInv, Sound
      <4> QED
        BY <4>1, <1>2, ShapeIsRooted DEF Good, TypeOK, Sound
    <3> QED
      BY <3>1, <3>2, <1>1
  <2>2. CASE ~(mode[m] = "transaction" /\ call[m] # "recover")
    BY <2>2, <1>1 DEF Throw, TreeInv
  <2> QED
    BY <2>1, <2>2
<1>6. TypeOK'
  <2>1. IsTable(rows)' /\ IsTable(saved)'
    BY <1>1, <1>2, <1>5 DEF TypeOK, IsTable, Good
  <2> QED
    BY <2>1, <1>1, <1>2, <1>4, <1>5 DEF TypeOK, Operations
<1> QED
  BY <1>4, <1>5, <1>6 DEF TreeInv, OneWorks

\* Every step keeps the invariant.
LEMMA StepKeeps ==
  ASSUME TreeInv, Sane, [Next]_vars
  PROVE  TreeInv'
<1>0. TypeOK /\ IsTable(rows) /\ Good(rows)
  BY DEF TreeInv, TypeOK
<1>1. ASSUME NEW m \in Managers, Idle(m), ~damaged
      PROVE  \E K : Shape(rows, K)
  <2>1. rows = saved /\ Sound(saved)
    BY <1>1 DEF TreeInv, Idle, Sane
  <2> QED
    BY <2>1 DEF Sound
<1>2. ASSUME NEW m \in Managers, NEW n \in Nodes, NEW p \in Nodes \cup {Root}, InsertAsChild(m, n, p)
      PROVE  TreeInv'
  <2>1. Idle(m) /\ ~damaged /\ n \notin DOMAIN rows /\ p \in DOMAIN rows \cup {Root} /\ Start(m, "insert", InsertScript(n, p))
    BY <1>2 DEF InsertAsChild
  <2>2. Reaches(rows, InsertScript(n, p))
    BY <2>1, <1>0, <1>1, InsertReaches
  <2> QED
    BY <2>1, <2>2, StartKeeps DEF Operations
<1>3. ASSUME NEW m \in Managers, NEW n \in Nodes, NEW p \in Nodes \cup {Root}, MoveTo(m, n, p)
      PROVE  TreeInv'
  <2>1. Idle(m) /\ ~damaged /\ n \in DOMAIN rows /\ p \in Targets(n) /\ Start(m, "moveTo", MoveScript(n, p))
    BY <1>3 DEF MoveTo
  <2>2. PICK K : Shape(rows, K)
    BY <2>1, <1>1
  <2>3. p \in (DOMAIN rows \cup {Root}) \ Inside(rows, n)
    <3>1. FindSubtree(rows, rows[n]) = Inside(rows, n)
      BY <2>1, <2>2, ShapeFacts DEF FindSubtree, Inside
    <3> QED
      BY <3>1, <2>1 DEF Targets, Sane
  <2>4. Reaches(rows, MoveScript(n, p))
    BY <2>1, <2>2, <2>3, <1>0, MoveReaches
  <2> QED
    BY <2>1, <2>4, StartKeeps DEF Operations
<1>4. ASSUME NEW m \in Managers, NEW n \in Nodes, MoveUp(m, n)
      PROVE  TreeInv'
  <2>1. Idle(m) /\ ~damaged /\ n \in DOMAIN rows /\ Start(m, "moveUp", MoveUpScript(n))
    BY <1>4 DEF MoveUp
  <2>2. PICK K : Shape(rows, K)
    BY <2>1, <1>1
  <2>3. K <= Offset /\ IsFiniteSet(DOMAIN rows)
    BY <2>2, <1>0, RoomForAll
  <2>4. Reaches(rows, MoveUpScript(n))
    BY <2>1, <2>2, <2>3, <1>0, MoveUpReaches
  <2> QED
    BY <2>1, <2>4, StartKeeps DEF Operations
<1>5. ASSUME NEW m \in Managers, NEW n \in Nodes, MoveDown(m, n)
      PROVE  TreeInv'
  <2>1. Idle(m) /\ ~damaged /\ n \in DOMAIN rows /\ Start(m, "moveDown", MoveDownScript(n)) /\ MoveDownScript(n) = <<>>
    BY <1>5 DEF MoveDown, Sane
  <2>2. Reaches(rows, MoveDownScript(n))
    BY <2>1, <1>0, <1>1, NothingReaches
  <2> QED
    BY <2>1, <2>2, StartKeeps DEF Operations
<1>6. ASSUME NEW m \in Managers, NEW n \in Nodes, RemoveFromTree(m, n)
      PROVE  TreeInv'
  <2>1. Idle(m) /\ ~damaged /\ n \in DOMAIN rows /\ Start(m, "remove", RemoveScript(n))
    BY <1>6 DEF RemoveFromTree
  <2>2. Reaches(rows, RemoveScript(n))
    BY <2>1, <1>0, <1>1, RemoveReaches
  <2> QED
    BY <2>1, <2>2, StartKeeps DEF Operations
<1>7. ASSUME NEW m \in Managers, NEW n \in Nodes, DeleteSubtree(m, n)
      PROVE  TreeInv'
  <2>1. Idle(m) /\ ~damaged /\ n \in DOMAIN rows /\ Start(m, "delete", DeleteScript(n))
    BY <1>7 DEF DeleteSubtree
  <2>2. Reaches(rows, DeleteScript(n))
    BY <2>1, <1>0, <1>1, DeleteReaches
  <2> QED
    BY <2>1, <2>2, StartKeeps DEF Operations
<1>8. ASSUME NEW m \in Managers, Recover(m)
      PROVE  TreeInv'
  <2>1. Idle(m) /\ Start(m, "recover", RecoverScript)
    BY <1>8 DEF Recover
  <2>2. Reaches(rows, RecoverScript)
    BY <1>0, RoomForAll, RecoverReaches
  <2> QED
    BY <2>1, <2>2, StartKeeps DEF Operations
<1>9. CASE UNCHANGED vars
  BY <1>9 DEF vars, TreeInv, TypeOK, OneWorks, IsTable
<1> QED
  BY <1>2, <1>3, <1>4, <1>5, <1>6, <1>7, <1>8, <1>9, StatementKeeps, ReturnKeeps, ThrowKeeps DEF Next

\* If a manager has the table to itself, no node is moved below itself or below a sibling, and the
\* offset lies beyond the numbers, then whatever the operations and wherever they throw, the table is
\* a nested set without gaps, with the right parents and depths, whenever nobody works and no
\* operation was left half way: one that was is undone by its transaction, or by recover().
THEOREM TreeWellFormed ==
  ASSUME Locked, ~Nested, ~Downwards, IsFiniteSet(Nodes), 2 * Cardinality(Nodes) <= Offset
  PROVE  Spec => []WellFormed
<1>0. Sane
  BY DEF Sane
<1>1. Init => TreeInv
  BY InitEstablishes
<1>2. TreeInv /\ [Next]_vars => TreeInv'
  BY <1>0, StepKeeps
<1>3. TreeInv => WellFormed
  <2> SUFFICES ASSUME TreeInv PROVE WellFormed
    OBVIOUS
  <2>1. TypeOK
    BY DEF TreeInv
  <2>2. ASSUME ~damaged /\ \A m \in Managers : call[m] = "idle"
        PROVE  rows = saved /\ IsNestedSet(rows)
    <3>1. rows = saved /\ Sound(saved)
      BY <2>2 DEF TreeInv
    <3>2. IsFiniteSet(DOMAIN rows)
      BY <2>1, <1>0, RoomForAll DEF TypeOK
    <3> QED
      BY <3>1, <3>2, ShapeIsNestedSet DEF Sound
  <2> QED
    BY <2>1, <2>2 DEF WellFormed
<1> QED
  BY <1>1, <1>2, <1>3, PTL DEF Spec

=============================================================================
