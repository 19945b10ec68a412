---------------------------- MODULE SessionProofs ----------------------------
(***************************************************************************)
(* Proofs about Session, for every set of surroundings and all bounds.     *)
(***************************************************************************)
EXTENDS Session, SequenceTheorems, TLAPS

-----------------------------------------------------------------------------
(* The parts of the inductive invariant that hold whatever user code calls *)

\* The frames speak of changes that were made; every savepoint has a number.
FrameOK(f, n) ==
    /\ f.todo \subseteq 1..n /\ f.made \subseteq 1..n
    /\ f.kind = "inner" => f.sp > 0

StackOK ==
    /\ stack \in Seq(Frames)
    /\ \A i \in 1..Len(stack) : FrameOK(stack[i], made)

\* A transaction has its base layer, and its layers hold changes that were made.
LayersOK ==
    /\ layers \in Seq(Layer)
    /\ \A j \in 1..Len(layers) : layers[j].writes \subseteq 1..made
    /\ open <=> layers # <<>>
    /\ open => layers[1].name = 0

\* The sets of changes.
ChangesOK ==
    /\ made \in 0..MaxChanges
    /\ dirty \subseteq 1..made /\ links \subseteq 1..made /\ committed \subseteq 1..made
    /\ acked \subseteq 1..made /\ refused \subseteq 1..made /\ dropped \subseteq 1..made

\* A transaction that was left in the pool is like that of the connection.
StrayOK(s, n) ==
    /\ s \in Seq(Layer) /\ s # <<>> /\ s[1].name = 0
    /\ \A j \in 1..Len(s) : s[j].writes \subseteq 1..n

\* The fields of the session, its connection and the pool.
FieldsOK ==
    /\ setup \in Setups
    /\ depth \in Nat /\ counter \in Nat /\ rollbackOnly \in BOOLEAN
    /\ lease \in BOOLEAN /\ open \in BOOLEAN
    /\ \A s \in stray : StrayOK(s, made)

Base == StackOK /\ LayersOK /\ ChangesOK /\ FieldsOK

\* They say that every variable has its type.
LEMMA BaseIsTyped == Base => TypeOK
<1>1. FieldsOK => stray \subseteq Seq(Layer)
  BY DEF FieldsOK, StrayOK
<1> QED
  BY <1>1 DEF Base, TypeOK, StackOK, LayersOK, ChangesOK, FieldsOK

\* A change that was made is one of those that may be.
LEMMA MadeChanges ==
    ASSUME ChangesOK
    PROVE  1..made \subseteq 1..MaxChanges /\ made \in Nat
<1>1. MaxChanges \in Nat
  BY SessionAssumption
<1> QED
  BY <1>1 DEF ChangesOK

-----------------------------------------------------------------------------
(* The stack.  Three things happen to it; each lemma says what that does to    *)
(* every field of every frame.                                                 *)

Begins(kind, point, sp, todo) ==
    /\ Len(stack') = Len(stack) + 1
    /\ \A i \in 1..Len(stack) : stack'[i] = stack[i]
    /\ LET f == stack'[Len(stack) + 1] IN
       /\ f.kind = kind /\ f.pc = point /\ f.sp = sp /\ f.todo = todo /\ f.failed = FALSE
       /\ f.made = IF kind = "inner" THEN {} ELSE dirty \cup links

GoesOn(point, todo) ==
    /\ Len(stack') = Len(stack)
    /\ \A i \in 1..Len(stack) :
         /\ i # Len(stack) => stack'[i] = stack[i]
         /\ stack'[i].kind = stack[i].kind /\ stack'[i].sp = stack[i].sp
         /\ stack'[i].made = stack[i].made /\ stack'[i].failed = stack[i].failed
    /\ stack'[Len(stack)].pc = point /\ stack'[Len(stack)].todo = todo

Ends(failed) ==
    /\ Len(stack') = Len(stack) - 1
    /\ \A i \in 1..Len(stack') :
         /\ stack'[i].kind = stack[i].kind /\ stack'[i].pc = stack[i].pc
         /\ stack'[i].sp = stack[i].sp /\ stack'[i].todo = stack[i].todo
         /\ stack'[i].made = stack[i].made
         /\ stack'[i].failed = (stack[i].failed \/ (failed /\ Top.kind = "inner"))

\* The innermost frame is a frame.
LEMMA TopFrame ==
    ASSUME StackOK, stack # <<>>
    PROVE  /\ Len(stack) \in Nat /\ Len(stack) > 0 /\ Len(stack) \in 1..Len(stack)
           /\ Top \in Frames /\ FrameOK(Top, made) /\ Top = stack[Len(stack)]
<1>1. stack \in Seq(Frames) /\ Len(stack) \in Nat /\ Len(stack) > 0
  BY DEF StackOK
<1> QED
  BY <1>1 DEF StackOK, Top

\* A call begins: the frames below stay what they are.
LEMMA PushStack ==
    ASSUME StackOK, ChangesOK, NEW kind \in Kinds, NEW point \in Points, NEW sp \in Nat,
           NEW todo \in SUBSET (1..made), Push(kind, point, sp, todo), kind = "inner" => sp > 0
    PROVE  Begins(kind, point, sp, todo) /\ (made' = made => StackOK')
<1> DEFINE f == [kind |-> kind, pc |-> point, sp |-> sp, todo |-> todo,
                 made |-> IF kind = "inner" THEN {} ELSE dirty \cup links, failed |-> FALSE]
<1>1. dirty \subseteq 1..made /\ links \subseteq 1..made /\ 1..made \subseteq 1..MaxChanges
  BY MadeChanges DEF ChangesOK
<1>2. f \in Frames /\ FrameOK(f, made)
  BY <1>1 DEF Frames, FrameOK
<1>3. stack' = Append(stack, f) /\ stack \in Seq(Frames)
  BY DEF Push, StackOK
<1> HIDE DEF f
<1>4. /\ stack' \in Seq(Frames) /\ Len(stack') = Len(stack) + 1 /\ stack'[Len(stack) + 1] = f
      /\ \A i \in 1..Len(stack) : stack'[i] = stack[i]
  BY <1>2, <1>3
<1>5. made' = made => StackOK'
  BY <1>2, <1>3, <1>4 DEF StackOK
<1> QED
  BY <1>4, <1>5 DEF f, Begins

\* The innermost call goes on: only its point and what it has to do change.
LEMMA GoToStack ==
    ASSUME StackOK, ChangesOK, stack # <<>>, NEW point \in Points, NEW todo \in SUBSET (1..made),
           GoTo(point, todo)
    PROVE  GoesOn(point, todo) /\ (made' = made => StackOK')
<1> DEFINE f == [Top EXCEPT !.pc = point, !.todo = todo]
<1>1. stack \in Seq(Frames) /\ Len(stack) \in Nat /\ Len(stack) > 0
  BY DEF StackOK
<1>2. Top \in Frames /\ todo \in SUBSET (1..MaxChanges)
  BY TopFrame, MadeChanges
<1>3. f \in Frames /\ FrameOK(f, made)
  BY <1>2, TopFrame DEF Frames, FrameOK
<1>4. /\ f.pc = point /\ f.todo = todo /\ f.kind = Top.kind /\ f.sp = Top.sp
      /\ f.made = Top.made /\ f.failed = Top.failed
  BY <1>2 DEF Frames
<1>5. stack' = [stack EXCEPT ![Len(stack)] = f]
  BY DEF GoTo, Top
<1> HIDE DEF f
<1>6. /\ stack' \in Seq(Frames) /\ Len(stack') = Len(stack) /\ stack'[Len(stack)] = f
      /\ \A i \in 1..Len(stack) : i # Len(stack) => stack'[i] = stack[i]
  BY <1>1, <1>3, <1>5
<1>7. made' = made => StackOK'
  BY <1>1, <1>3, <1>6 DEF StackOK
<1> QED
  BY <1>1, <1>4, <1>6, <1>7 DEF GoesOn, Top

\* The innermost call is over: the frames below note at most its failure.
LEMMA PopStack ==
    ASSUME StackOK, ChangesOK, stack # <<>>, NEW failed \in BOOLEAN, Pop(failed)
    PROVE  Ends(failed) /\ (made' = made => StackOK')
<1> DEFINE f(i) == [stack[i] EXCEPT !.failed = @ \/ (failed /\ Top.kind = "inner")]
<1>1. stack \in Seq(Frames) /\ Len(stack) - 1 \in Nat
  BY DEF StackOK
<1>2. \A i \in 1..Len(stack) - 1 :
        /\ f(i) \in Frames /\ FrameOK(f(i), made)
        /\ f(i).kind = stack[i].kind /\ f(i).pc = stack[i].pc
        /\ f(i).sp = stack[i].sp /\ f(i).todo = stack[i].todo /\ f(i).made = stack[i].made
        /\ f(i).failed = (stack[i].failed \/ (failed /\ Top.kind = "inner"))
  <2> TAKE i \in 1..Len(stack) - 1
  <2>1. stack[i] \in Frames /\ FrameOK(stack[i], made)
    BY <1>1 DEF StackOK
  <2> QED
    BY <2>1 DEF Frames, FrameOK
<1>3. stack' = [i \in 1..Len(stack) - 1 |-> f(i)]
  BY DEF Pop
<1> HIDE DEF f
<1>4. stack' \in [1..Len(stack) - 1 -> Frames]
  BY <1>2, <1>3
<1>5. /\ stack' \in Seq(Frames) /\ Len(stack') = Len(stack) - 1
      /\ \A i \in 1..Len(stack') : stack'[i] = f(i)
  BY <1>1, <1>3, <1>4
<1>6. made' = made => StackOK'
  BY <1>1, <1>2, <1>5 DEF StackOK
<1> QED
  BY <1>2, <1>5, <1>6 DEF Ends

\* An error inside a call: its catch block is next, or the call is over.
LEMMA ThrowStack ==
    ASSUME StackOK, ChangesOK, stack # <<>>, Throw
    PROVE  /\ made' = made => StackOK'
           /\ \/ /\ Top.kind \in {"outer", "inner", "commit"} /\ GoesOn("undo", {})
                 /\ rollbackOnly' = (rollbackOnly \/ Top.kind = "inner") /\ UNCHANGED promiseVars
              \/ /\ Top.kind \in {"bare", "flush"} /\ Reject /\ Ends(TRUE)
                 /\ UNCHANGED rollbackOnly
<1>1. CASE /\ Top.kind \in {"outer", "inner", "commit"} /\ GoTo("undo", {})
           /\ rollbackOnly' = (rollbackOnly \/ Top.kind = "inner") /\ UNCHANGED promiseVars
  <2>1. {} \in SUBSET (1..made) /\ "undo" \in Points
    BY DEF Points
  <2> QED
    BY <1>1, <2>1, GoToStack
<1>2. CASE Top.kind \in {"bare", "flush"} /\ Reject /\ UNCHANGED rollbackOnly
  <2>1. Pop(TRUE)
    BY <1>2 DEF Reject
  <2> QED
    BY <1>2, <2>1, PopStack
<1> QED
  BY <1>1, <1>2 DEF Throw

-----------------------------------------------------------------------------
(* The layers *)

\* The layers up to the n-th keep their names.
NamesKept(n) ==
    /\ Len(layers') = n /\ n <= Len(layers)
    /\ \A j \in 1..n : layers'[j].name = layers[j].name

\* The first elements of a sequence.
LEMMA PrefixProperties ==
    ASSUME NEW S, NEW s \in Seq(S), NEW n \in 0..Len(s)
    PROVE  /\ SubSeq(s, 1, n) \in Seq(S) /\ Len(SubSeq(s, 1, n)) = n
           /\ \A j \in 1..n : SubSeq(s, 1, n)[j] = s[j]
<1>1. \A j \in 1..n : s[j] \in S
  OBVIOUS
<1>2. /\ SubSeq(s, 1, n) \in Seq(S) /\ Len(SubSeq(s, 1, n)) = IF 1 <= n THEN n - 1 + 1 ELSE 0
      /\ \A j \in 1..n - 1 + 1 : SubSeq(s, 1, n)[j] = s[1 + j - 1]
  BY <1>1, SubSeqProperties
<1> QED
  BY <1>2

\* What is in the layers is in one of them.
LEMMA InLayersMember ==
    ASSUME NEW c
    PROVE  c \in InLayers <=> \E j \in 1..Len(layers) : c \in layers[j].writes
BY DEF InLayers

\* Outside of a transaction there are no layers and nothing is in them.
LEMMA NoLayers ==
    ASSUME LayersOK, ~open
    PROVE  Len(layers) = 0 /\ InLayers = {}
<1>1. Len(layers) = 0
  BY DEF LayersOK
<1> QED
  BY <1>1, InLayersMember

\* A statement puts its change in the last layer, or straight in the database.
LEMMA StatementLayers ==
    ASSUME LayersOK, ChangesOK, NEW c \in 1..made, Statement(c), UNCHANGED <<made, open>>
    PROVE  /\ LayersOK' /\ NamesKept(Len(layers))
           /\ open => InLayers' = InLayers \cup {c} /\ committed' = committed
           /\ ~open => InLayers' = InLayers /\ committed' = committed \cup {c}
<1>1. layers \in Seq(Layer) /\ Len(layers) \in Nat /\ 1..made \subseteq 1..MaxChanges
  BY MadeChanges DEF LayersOK
<1>2. CASE ~open
  <2>1. layers' = layers /\ committed' = committed \cup {c}
    BY <1>2 DEF Statement
  <2>2. LayersOK' /\ InLayers' = InLayers
    BY <2>1 DEF LayersOK, InLayers
  <2>3. NamesKept(Len(layers))
    BY <1>1, <2>1 DEF NamesKept
  <2>4. ~open => InLayers' = InLayers /\ committed' = committed \cup {c}
    BY <2>1, <2>2
  <2> QED
    BY <1>2, <2>2, <2>3, <2>4
<1>3. CASE open
  <2> DEFINE n == Len(layers)
             l == [layers[n] EXCEPT !.writes = @ \cup {c}]
  <2>1. n \in 1..n /\ layers[n] \in Layer
    BY <1>1, <1>3 DEF LayersOK
  <2>2. layers[n].writes \subseteq 1..made
    BY <2>1, <1>3 DEF LayersOK
  <2>3. l \in Layer /\ l.name = layers[n].name /\ l.writes = layers[n].writes \cup {c}
    BY <1>1, <2>1 DEF Layer
  <2>4. layers' = [layers EXCEPT ![n] = l] /\ committed' = committed
    BY <1>3 DEF Statement
  <2> HIDE DEF l
  <2>5. /\ layers' \in Seq(Layer) /\ Len(layers') = n /\ layers'[n] = l
        /\ \A j \in 1..n : j # n => layers'[j] = layers[j]
    BY <1>1, <2>1, <2>3, <2>4
  <2>6. \A j \in 1..n : /\ layers'[j].name = layers[j].name
                        /\ layers'[j].writes = layers[j].writes \cup (IF j = n THEN {c} ELSE {})
    BY <2>3, <2>5
  <2>7. InLayers' = InLayers \cup {c}
    <3>1. \A d : d \in InLayers' <=> \E j \in 1..n : d \in layers'[j].writes
      BY <2>5 DEF InLayers
    <3>2. \A d : d \in InLayers <=> \E j \in 1..n : d \in layers[j].writes
      BY DEF InLayers
    <3> QED
      BY <2>1, <2>6, <3>1, <3>2
  <2>8. LayersOK'
    <3>1. layers' # <<>> /\ 1 \in 1..n /\ layers'[1].name = 0
      BY <1>1, <1>3, <2>1, <2>5, <2>6 DEF LayersOK
    <3>2. \A j \in 1..n : layers'[j].writes \subseteq 1..made
      BY <2>6 DEF LayersOK
    <3> QED
      BY <1>3, <2>5, <3>1, <3>2 DEF LayersOK
  <2>9. NamesKept(Len(layers))
    BY <1>1, <2>5, <2>6 DEF NamesKept
  <2> QED
    BY <1>3, <2>4, <2>7, <2>8, <2>9
<1> QED
  BY <1>2, <1>3

\* A savepoint is a layer of its own, empty at first.
LEMMA AppendedLayers ==
    ASSUME LayersOK, open, NEW sp \in Nat, UNCHANGED <<made, open>>,
           layers' = Append(layers, [name |-> sp, writes |-> {}])
    PROVE  /\ LayersOK' /\ InLayers' = InLayers
           /\ Len(layers') = Len(layers) + 1 /\ layers'[Len(layers) + 1].name = sp
           /\ \A j \in 1..Len(layers) : layers'[j] = layers[j]
<1> DEFINE l == [name |-> sp, writes |-> {}]
<1>1. l \in Layer /\ l.name = sp /\ l.writes = {}
  BY DEF Layer
<1>2. layers' = Append(layers, l) /\ layers \in Seq(Layer) /\ Len(layers) \in Nat
  BY DEF LayersOK
<1> HIDE DEF l
<1>3. /\ layers' \in Seq(Layer) /\ Len(layers') = Len(layers) + 1 /\ layers'[Len(layers) + 1] = l
      /\ \A j \in 1..Len(layers) : layers'[j] = layers[j]
  BY <1>1, <1>2
<1>4. \A d : d \in InLayers' <=> \E j \in 1..Len(layers) + 1 : d \in layers'[j].writes
  BY <1>3 DEF InLayers
<1>5. \A d : d \in InLayers <=> \E j \in 1..Len(layers) : d \in layers[j].writes
  BY DEF InLayers
<1>6. InLayers' = InLayers
  <2>1. \A j \in 1..Len(layers) : layers'[j].writes = layers[j].writes
    BY <1>3
  <2>2. layers'[Len(layers) + 1].writes = {} /\ 1..Len(layers) + 1 = (1..Len(layers)) \cup {Len(layers) + 1}
    BY <1>1, <1>2, <1>3
  <2>3. \A d : d \in InLayers' <=> d \in InLayers
    BY <1>4, <1>5, <2>1, <2>2
  <2> QED
    BY <2>3
<1>7. Len(layers) > 0 /\ layers' # <<>> /\ layers'[1].name = 0
  BY <1>2, <1>3 DEF LayersOK
<1>8. \A j \in 1..Len(layers') : layers'[j].writes \subseteq 1..made
  BY <1>1, <1>2, <1>3 DEF LayersOK
<1> QED
  BY <1>1, <1>3, <1>6, <1>7, <1>8 DEF LayersOK

Merged(i) ==
    layers' = [SubSeq(layers, 1, i - 1) EXCEPT ![i - 1].writes =
                 @ \cup UNION {layers[j].writes : j \in i..Len(layers)}]

Truncated(i) == layers' = [SubSeq(layers, 1, i) EXCEPT ![i].writes = {}]

\* RELEASE: the layers from a savepoint on are merged into the one below.
LEMMA MergedLayers ==
    ASSUME LayersOK, ChangesOK, NEW sp \in Nat, sp > 0, NEW i \in LayerOf(sp),
           UNCHANGED <<made, open>>, Merged(i)
    PROVE  LayersOK' /\ NamesKept(i - 1) /\ InLayers' = InLayers
<1>1. layers \in Seq(Layer) /\ Len(layers) \in Nat /\ i \in 1..Len(layers) /\ layers[i].name = sp
  BY DEF LayersOK, LayerOf
<1>2. open /\ layers[1].name = 0 /\ i > 1
  BY <1>1 DEF LayersOK
<1> DEFINE below == SubSeq(layers, 1, i - 1)
           S == UNION {layers[j].writes : j \in i..Len(layers)}
           l == [below[i - 1] EXCEPT !.writes = @ \cup S]
<1>3. /\ below \in Seq(Layer) /\ Len(below) = i - 1 /\ i - 1 \in 1..i - 1
      /\ \A j \in 1..i - 1 : below[j] = layers[j]
  BY <1>1, <1>2, PrefixProperties
<1>4. \A d : d \in S <=> \E j \in i..Len(layers) : d \in layers[j].writes
  OBVIOUS
<1>5. S \subseteq 1..made /\ 1..made \subseteq 1..MaxChanges
  BY <1>1, <1>4, MadeChanges DEF LayersOK
<1> HIDE DEF S
<1>6. below[i - 1] \in Layer /\ below[i - 1].writes \subseteq 1..made
  <2>1. i - 1 \in 1..Len(layers) /\ below[i - 1] = layers[i - 1]
    BY <1>1, <1>2, <1>3
  <2> QED
    BY <1>1, <2>1 DEF LayersOK
<1>7. l \in Layer /\ l.name = below[i - 1].name /\ l.writes = below[i - 1].writes \cup S
  BY <1>5, <1>6 DEF Layer
<1>8. layers' = [below EXCEPT ![i - 1] = l]
  BY DEF S, Merged
<1> HIDE DEF below, l
<1>9. /\ layers' \in Seq(Layer) /\ Len(layers') = i - 1 /\ layers'[i - 1] = l
      /\ \A j \in 1..i - 1 : j # i - 1 => layers'[j] = layers[j]
  <2>1. i - 1 \in 1..Len(below) /\ \A j \in 1..i - 1 : j \in 1..Len(below)
    BY <1>3
  <2>2. /\ layers' \in Seq(Layer) /\ Len(layers') = Len(below) /\ layers'[i - 1] = l
        /\ \A j \in 1..Len(below) : j # i - 1 => layers'[j] = below[j]
    <3>1. below \in Seq(Layer) /\ l \in Layer
      BY <1>3, <1>7
    <3> QED
      BY <1>8, <2>1, <3>1
  <2> QED
    BY <1>3, <2>1, <2>2
<1>10. \A j \in 1..i - 1 : /\ layers'[j].name = layers[j].name
                           /\ layers'[j].writes = layers[j].writes \cup (IF j = i - 1 THEN S ELSE {})
  BY <1>3, <1>7, <1>9
<1>11. InLayers' = InLayers
  <2>1. \A d : d \in InLayers' <=> \E j \in 1..i - 1 : d \in layers'[j].writes
    BY <1>9 DEF InLayers
  <2>2. \A d : d \in InLayers <=> \E j \in 1..Len(layers) : d \in layers[j].writes
    BY DEF InLayers
  <2>3. 1..Len(layers) = (1..i - 1) \cup (i..Len(layers))
    BY <1>1
  <2>4. \A d : d \in InLayers' <=> (d \in S \/ \E j \in 1..i - 1 : d \in layers[j].writes)
    BY <1>3, <1>10, <2>1
  <2> QED
    BY <1>4, <2>2, <2>3, <2>4
<1>12. LayersOK'
  <2>1. layers' # <<>> /\ 1 \in 1..i - 1 /\ layers'[1].name = 0
    <3>1. 1 \in 1..i - 1 /\ layers'[1].name = layers[1].name
      <4>1. 1 \in 1..i - 1
        BY <1>1, <1>2
      <4> QED
        BY <1>10, <4>1
    <3> QED
      BY <1>2, <1>9, <3>1
  <2>2. \A j \in 1..i - 1 : layers'[j].writes \subseteq 1..made
    <3> SUFFICES ASSUME NEW j \in 1..i - 1
                 PROVE  layers'[j].writes \subseteq 1..made
      OBVIOUS
    <3>1. j \in 1..Len(layers)
      BY <1>1
    <3> QED
      BY <3>1, <1>5, <1>10 DEF LayersOK
  <2> QED
    BY <1>2, <1>9, <2>1, <2>2 DEF LayersOK
<1> QED
  BY <1>1, <1>9, <1>10, <1>11, <1>12 DEF NamesKept

\* ROLLBACK TO: the layers from a savepoint on are emptied, the savepoint stays.
LEMMA TruncatedLayers ==
    ASSUME LayersOK, ChangesOK, NEW sp \in Nat, NEW i \in LayerOf(sp), UNCHANGED <<made, open>>,
           Truncated(i)
    PROVE  LayersOK' /\ NamesKept(i) /\ InLayers' \subseteq InLayers
<1>1. layers \in Seq(Layer) /\ Len(layers) \in Nat /\ i \in 1..Len(layers)
  BY DEF LayersOK, LayerOf
<1>2. open
  BY <1>1 DEF LayersOK
<1> DEFINE below == SubSeq(layers, 1, i)
           l == [below[i] EXCEPT !.writes = {}]
<1>3. below \in Seq(Layer) /\ Len(below) = i /\ \A j \in 1..i : below[j] = layers[j]
  BY <1>1
<1>4. below[i] \in Layer /\ below[i] = layers[i]
  BY <1>1, <1>3
<1>5. l \in Layer /\ l.name = layers[i].name /\ l.writes = {}
  BY <1>4 DEF Layer
<1>6. layers' = [below EXCEPT ![i] = l]
  BY DEF Truncated
<1> HIDE DEF below, l
<1>7. /\ layers' \in Seq(Layer) /\ Len(layers') = i /\ layers'[i] = l
      /\ \A j \in 1..i : j # i => layers'[j] = layers[j]
  <2>1. i \in 1..Len(below) /\ \A j \in 1..i : j \in 1..Len(below)
    BY <1>1, <1>3
  <2>2. /\ layers' \in Seq(Layer) /\ Len(layers') = Len(below) /\ layers'[i] = l
        /\ \A j \in 1..Len(below) : j # i => layers'[j] = below[j]
    <3>1. below \in Seq(Layer) /\ l \in Layer
      BY <1>3, <1>5
    <3> QED
      BY <1>6, <2>1, <3>1
  <2> QED
    BY <1>3, <2>1, <2>2
<1>8. \A j \in 1..i : /\ layers'[j].name = layers[j].name
                      /\ layers'[j].writes \subseteq layers[j].writes
  BY <1>5, <1>7
<1>9. InLayers' \subseteq InLayers
  <2>1. \A d : d \in InLayers' <=> \E j \in 1..i : d \in layers'[j].writes
    BY <1>7 DEF InLayers
  <2>2. \A d : d \in InLayers <=> \E j \in 1..Len(layers) : d \in layers[j].writes
    BY DEF InLayers
  <2> QED
    <3>1. 1..i \subseteq 1..Len(layers)
      BY <1>1
    <3> QED
      BY <1>8, <2>1, <2>2, <3>1
<1>10. LayersOK'
  <2>1. layers' # <<>> /\ 1 \in 1..i /\ layers'[1].name = 0
    BY <1>1, <1>2, <1>7, <1>8 DEF LayersOK
  <2>2. \A j \in 1..i : layers'[j].writes \subseteq 1..made
    BY <1>1, <1>8 DEF LayersOK
  <2> QED
    BY <1>2, <1>7, <2>1, <2>2 DEF LayersOK
<1> QED
  BY <1>1, <1>7, <1>8, <1>9, <1>10 DEF NamesKept
-----------------------------------------------------------------------------
(* The steps.  For every action, a lemma says that it keeps Base and what it   *)
(* does to the stack and the layers.                                           *)

LayersSame == UNCHANGED <<layers, open>>

\* The layers of a transaction that goes on stay what they are.
LEMMA SameLayers ==
    ASSUME LayersOK, LayersSame, made' = made
    PROVE  LayersOK' /\ InLayers' = InLayers /\ NamesKept(Len(layers))
<1>1. LayersOK' /\ InLayers' = InLayers
  BY DEF LayersOK, LayersSame, InLayers
<1>2. Len(layers) \in Nat
  BY DEF LayersOK
<1> QED
  BY <1>1, <1>2 DEF NamesKept, LayersSame

\* Those of a transaction that is over are gone.
LEMMA Disconnected ==
    ASSUME Disconnect
    PROVE  LayersOK' /\ InLayers' = {} /\ Len(layers') = 0
<1>1. layers' = <<>> /\ Len(layers') = 0 /\ open' = FALSE
  BY DEF Disconnect
<1>2. layers' \in Seq(Layer)
  BY <1>1
<1>3. InLayers' = {}
  BY <1>1 DEF InLayers
<1> QED
  BY <1>1, <1>2, <1>3 DEF LayersOK

\* When a call resolves it acknowledges changes that were made.
LEMMA ResolveStep ==
    ASSUME StackOK, ChangesOK, stack # <<>>, Resolve
    PROVE  /\ Ends(FALSE) /\ acked' \subseteq 1..made /\ UNCHANGED <<refused, dropped>>
           /\ made' = made => StackOK'
<1>1. Pop(FALSE) /\ UNCHANGED <<refused, dropped>>
  BY DEF Resolve
<1>2. Top.made \subseteq 1..made
  BY TopFrame DEF FrameOK
<1>3. acked' \subseteq 1..made
  BY <1>2 DEF Resolve, ChangesOK
<1> QED
  BY <1>1, <1>3, PopStack

\* When it rejects it refuses or drops changes that were made.
LEMMA RejectStep ==
    ASSUME StackOK, ChangesOK, stack # <<>>, Reject
    PROVE  /\ Ends(TRUE) /\ refused' \subseteq 1..made /\ dropped' \subseteq 1..made /\ acked' = acked
           /\ made' = made => StackOK'
<1>1. Pop(TRUE) /\ acked' = acked
  BY DEF Reject
<1>2. Top.made \subseteq 1..made
  BY TopFrame DEF FrameOK
<1>3. refused' \subseteq 1..made /\ dropped' \subseteq 1..made
  BY <1>2 DEF Reject, ChangesOK
<1> QED
  BY <1>1, <1>3, PopStack

\* What a step does that changes only the stack, rollbackOnly and the promises.
LEMMA ThrowStep ==
    ASSUME Base, stack # <<>>, Throw,
           UNCHANGED <<setup, depth, counter, pendingVars, connVars, committed, made>>
    PROVE  /\ Base' /\ LayersSame
           /\ \/ /\ Top.kind \in {"outer", "inner", "commit"} /\ GoesOn("undo", {})
                 /\ rollbackOnly' = (rollbackOnly \/ Top.kind = "inner") /\ UNCHANGED promiseVars
              \/ /\ Top.kind \in {"bare", "flush"} /\ Reject /\ Ends(TRUE)
                 /\ UNCHANGED rollbackOnly
<1>1. UNCHANGED <<setup, depth, counter, dirty, links, lease, open, layers, stray, committed, made>>
  BY DEF pendingVars, connVars
<1>2. StackOK /\ LayersOK /\ ChangesOK /\ FieldsOK
  BY DEF Base
<1>3. LayersSame
  BY <1>1 DEF LayersSame
<1>4. LayersOK'
  BY <1>1, <1>2, <1>3, SameLayers
<1>5. FieldsOK'
  <2>1. rollbackOnly' \in BOOLEAN
    BY <1>2 DEF Throw, FieldsOK
  <2> QED
    BY <1>1, <1>2, <2>1 DEF FieldsOK
<1>6. ChangesOK'
  <2>1. acked' \subseteq 1..made /\ refused' \subseteq 1..made /\ dropped' \subseteq 1..made
    <3>1. CASE Reject
      BY <1>2, <3>1, RejectStep DEF ChangesOK
    <3>2. CASE UNCHANGED promiseVars
      BY <1>2, <3>2 DEF ChangesOK, promiseVars
    <3> QED
      BY <3>1, <3>2 DEF Throw
  <2> QED
    BY <1>1, <1>2, <2>1 DEF ChangesOK
<1> QED
  BY <1>1, <1>2, <1>3, <1>4, <1>5, <1>6, ThrowStack DEF Base
\* Only the changes that the calls answer for are different.
Marks ==
    /\ Len(stack') = Len(stack)
    /\ \A i \in 1..Len(stack) :
         /\ stack'[i].kind = stack[i].kind /\ stack'[i].pc = stack[i].pc
         /\ stack'[i].sp = stack[i].sp /\ stack'[i].todo = stack[i].todo
         /\ stack'[i].failed = stack[i].failed

\* A change belongs to the running calls that have not committed yet.
LEMMA ChangeStep ==
    ASSUME Base, Change, setup' = setup
    PROVE  /\ Base' /\ LayersSame /\ Marks /\ made' = made + 1
           /\ UserRuns \/ At("before")
           /\ \/ dirty' = dirty \cup {made'} /\ links' = links
              \/ links' = links \cup {made'} /\ dirty' = dirty
           /\ UNCHANGED <<lease, committed, depth, counter, rollbackOnly, promiseVars>>
           /\ \A i \in 1..Len(stack) :
                stack'[i].made = stack[i].made \cup (IF Answers(i) THEN {made'} ELSE {})
<1> DEFINE f(i) == IF Answers(i) THEN [stack[i] EXCEPT !.made = @ \cup {made'}] ELSE stack[i]
<1>1. StackOK /\ LayersOK /\ ChangesOK /\ FieldsOK
  BY DEF Base
<1>2. /\ made' = made + 1 /\ made < MaxChanges
      /\ UNCHANGED <<depth, counter, rollbackOnly, lease, open, layers, stray, committed,
                     acked, refused, dropped>>
      /\ UserRuns \/ At("before")
      /\ \/ dirty' = dirty \cup {made'} /\ links' = links
         \/ links' = links \cup {made'} /\ dirty' = dirty
  BY DEF Change, sessionVars, connVars, promiseVars
<1>3. MaxChanges \in Nat /\ made \in Nat
  <2>1. MaxChanges \in Nat
    BY SessionAssumption
  <2> QED
    BY <1>1, <2>1, MadeChanges
<1>4. made' \in 0..MaxChanges /\ 1..made \subseteq 1..made' /\ made' \in 1..made' /\ 1..made' \subseteq 1..MaxChanges
  BY <1>2, <1>3
<1>5. ChangesOK' /\ FieldsOK'
  <2>1. ChangesOK'
    BY <1>1, <1>2, <1>4 DEF ChangesOK
  <2>2. \A s \in stray : StrayOK(s, made) => StrayOK(s, made')
    BY <1>4 DEF StrayOK
  <2> QED
    BY <1>1, <1>2, <2>1, <2>2 DEF FieldsOK
<1>6. LayersOK' /\ LayersSame
  BY <1>1, <1>2, <1>4 DEF LayersOK, LayersSame
<1>7. stack \in Seq(Frames) /\ Len(stack) \in Nat
  BY <1>1 DEF StackOK
<1>8. \A i \in 1..Len(stack) :
        /\ f(i) \in Frames /\ FrameOK(f(i), made')
        /\ f(i).kind = stack[i].kind /\ f(i).pc = stack[i].pc
        /\ f(i).sp = stack[i].sp /\ f(i).todo = stack[i].todo /\ f(i).failed = stack[i].failed
        /\ f(i).made = stack[i].made \cup (IF Answers(i) THEN {made'} ELSE {})
  <2> TAKE i \in 1..Len(stack)
  <2>1. stack[i] \in Frames /\ FrameOK(stack[i], made)
    BY <1>1 DEF StackOK
  <2>2. FrameOK(stack[i], made')
    BY <1>4, <2>1 DEF FrameOK
  <2>3. CASE Answers(i)
    <3>1. f(i) = [stack[i] EXCEPT !.made = @ \cup {made'}]
      BY <2>3
    <3>2. stack[i].made \cup {made'} \in SUBSET (1..MaxChanges)
      BY <1>4, <2>2 DEF FrameOK
    <3> HIDE DEF f
    <3> QED
      BY <1>4, <2>1, <2>2, <2>3, <3>1, <3>2 DEF Frames, FrameOK
  <2>4. CASE ~Answers(i)
    BY <2>1, <2>2, <2>4 DEF Frames
  <2> QED
    BY <2>3, <2>4
<1>9. stack' = [i \in 1..Len(stack) |-> f(i)]
  BY DEF Change
<1> HIDE DEF f
<1>10. stack' \in [1..Len(stack) -> Frames]
  BY <1>8, <1>9
<1>11. stack' \in Seq(Frames) /\ Len(stack') = Len(stack) /\ \A i \in 1..Len(stack') : stack'[i] = f(i)
  BY <1>7, <1>9, <1>10
<1>12. StackOK'
  BY <1>8, <1>11 DEF StackOK
<1> QED
  BY <1>2, <1>5, <1>6, <1>8, <1>11, <1>12 DEF Base, Marks, promiseVars

\* rollback() forgets what the calls answer for.
LEMMA RollbackStep ==
    ASSUME Base, Rollback, setup' = setup
    PROVE  /\ Base' /\ Marks /\ made' = made
           /\ (Disconnect /\ lease' = FALSE) \/ (LayersSame /\ lease' = lease /\ ~Transactions)
<1> DEFINE f(i) == [stack[i] EXCEPT !.made = {}]
<1>1. StackOK /\ LayersOK /\ ChangesOK /\ FieldsOK /\ made' = made
  BY DEF Base, Rollback
<1>2. stack \in Seq(Frames) /\ Len(stack) \in Nat
  BY <1>1 DEF StackOK
<1>3. \A i \in 1..Len(stack) :
        /\ f(i) \in Frames /\ FrameOK(f(i), made)
        /\ f(i).kind = stack[i].kind /\ f(i).pc = stack[i].pc
        /\ f(i).sp = stack[i].sp /\ f(i).todo = stack[i].todo /\ f(i).failed = stack[i].failed
  <2> TAKE i \in 1..Len(stack)
  <2>1. stack[i] \in Frames /\ FrameOK(stack[i], made)
    BY <1>1 DEF StackOK
  <2> QED
    BY <2>1 DEF Frames, FrameOK
<1>4. stack' = [i \in 1..Len(stack) |-> f(i)]
  BY DEF Rollback
<1> HIDE DEF f
<1>5. stack' \in [1..Len(stack) -> Frames]
  BY <1>3, <1>4
<1>6. stack' \in Seq(Frames) /\ Len(stack') = Len(stack) /\ \A i \in 1..Len(stack') : stack'[i] = f(i)
  BY <1>2, <1>4, <1>5
<1>7. StackOK' /\ Marks
  BY <1>1, <1>3, <1>6 DEF StackOK, Marks
<1>8. /\ dirty' \subseteq dirty /\ links' \subseteq links /\ committed' = committed
      /\ UNCHANGED <<acked, dropped, stray>> /\ lease' \in BOOLEAN
      /\ depth' \in Nat /\ counter' \in Nat /\ rollbackOnly' \in BOOLEAN
  <2>1. /\ UNCHANGED <<acked, dropped, stray, committed>>
        /\ lease' = FALSE \/ lease' = lease
    BY DEF Rollback, RollbackTransaction, RollbackTransactionFails, Finish, connVars
  <2>2. \/ depth' = 0 /\ counter' = 0 /\ rollbackOnly' = FALSE /\ dirty' = {} /\ links' = {}
        \/ UNCHANGED <<depth, counter, rollbackOnly, dirty, links>>
    BY DEF Rollback, ForgetPending, ResetSession, pendingVars, sessionVars
  <2>3. dirty' \subseteq dirty /\ links' \subseteq links
    BY <2>2
  <2>4. depth' \in Nat /\ counter' \in Nat /\ rollbackOnly' \in BOOLEAN
    <3>1. /\ 0 \in Nat /\ FALSE \in BOOLEAN
          /\ depth \in Nat /\ counter \in Nat /\ rollbackOnly \in BOOLEAN
      BY <1>1 DEF FieldsOK
    <3> QED
      BY <2>2, <3>1, Zenon
  <2>5. lease' \in BOOLEAN
    BY <1>1, <2>1 DEF FieldsOK
  <2> QED
    BY <2>1, <2>3, <2>4, <2>5
<1>9. (Disconnect /\ lease' = FALSE) \/ (LayersSame /\ lease' = lease /\ ~Transactions)
  BY DEF Rollback, RollbackTransaction, RollbackTransactionFails, connVars, LayersSame, Finish
<1>10. LayersOK' /\ open' \in BOOLEAN
  <2>1. Disconnect \/ LayersSame
    BY <1>9
  <2>2. ASSUME Disconnect PROVE open' = FALSE
    BY <2>2 DEF Disconnect
  <2>3. ASSUME LayersSame PROVE open' = open
    BY <2>3 DEF LayersSame
  <2> QED
    BY <1>1, <2>1, <2>2, <2>3, Disconnected, SameLayers DEF FieldsOK
<1>11. ChangesOK'
  <2>1. InLayers \subseteq 1..made
    BY <1>1, InLayersMember DEF LayersOK
  <2>2. refused' \subseteq 1..made
    BY <1>1, <2>1 DEF Rollback, ChangesOK
  <2> QED
    BY <1>1, <1>8, <2>2 DEF ChangesOK
<1>12. FieldsOK'
  BY <1>1, <1>8, <1>10 DEF FieldsOK
<1> QED
  BY <1>1, <1>7, <1>9, <1>10, <1>11, <1>12 DEF Base

\* A transaction that is given back is left in the pool.
LEMMA GiveBackStep ==
    ASSUME Base, GiveBack, setup' = setup, made' = made
    PROVE  /\ LayersOK' /\ lease' = FALSE /\ open' \in BOOLEAN
           /\ \A s \in stray' : StrayOK(s, made)
           /\ LayersSame \/ (open /\ Disconnect)
<1>1. LayersOK /\ FieldsOK
  BY DEF Base
<1>2. CASE open /\ Disconnect /\ stray' = stray \cup {layers}
  <2>1. StrayOK(layers, made)
    BY <1>1, <1>2 DEF LayersOK, StrayOK
  <2> QED
    BY <1>1, <1>2, <2>1, Disconnected DEF FieldsOK, GiveBack, Disconnect
<1>3. CASE UNCHANGED <<open, layers, stray>>
  <2>1. LayersSame
    BY <1>3 DEF LayersSame
  <2> QED
    BY <1>1, <1>3, <2>1, SameLayers DEF FieldsOK, GiveBack
<1> QED
  BY <1>2, <1>3 DEF GiveBack

\* dispose() gives the lease back and forgets what is pending.
LEMMA DisposeEffect ==
    ASSUME Base, Dispose, setup' = setup
    PROVE  /\ Base' /\ stack = <<>> /\ lease' = FALSE /\ dirty' = {} /\ links' = {}
           /\ LayersSame \/ open
           /\ refused' = refused \cup dirty \cup links
           /\ UNCHANGED <<stack, made, depth, counter, rollbackOnly, committed, acked, dropped>>
<1>1. StackOK /\ LayersOK /\ ChangesOK /\ FieldsOK
  BY DEF Base
<1>2. /\ UNCHANGED <<stack, made, depth, counter, rollbackOnly, committed, acked, dropped>>
      /\ stack = <<>> /\ GiveBack /\ dirty' = {} /\ links' = {}
      /\ refused' = refused \cup dirty \cup links
  BY DEF Dispose, ForgetPending, sessionVars
<1>3. /\ LayersOK' /\ lease' = FALSE /\ open' \in BOOLEAN /\ (LayersSame \/ open)
      /\ \A s \in stray' : StrayOK(s, made)
  BY <1>2, GiveBackStep
<1>4. StackOK' /\ ChangesOK' /\ FieldsOK'
  BY <1>1, <1>2, <1>3 DEF StackOK, ChangesOK, FieldsOK
<1> QED
  BY <1>1, <1>2, <1>3, <1>4 DEF Base
\* A step that leaves the connection, the changes and the fields alone keeps all
\* of Base but what it says of the stack.
LEMMA RestSame ==
    ASSUME Base, UNCHANGED <<setup, connVars, pendingVars, committed, made>>
    PROVE  /\ LayersOK' /\ LayersSame
           /\ acked' \subseteq 1..made /\ refused' \subseteq 1..made /\ dropped' \subseteq 1..made => ChangesOK'
           /\ depth' \in Nat /\ counter' \in Nat /\ rollbackOnly' \in BOOLEAN => FieldsOK'
<1>1. UNCHANGED <<setup, dirty, links, lease, open, layers, stray, committed, made>>
  BY DEF pendingVars, connVars
<1>2. LayersOK /\ ChangesOK /\ FieldsOK
  BY DEF Base
<1>3. LayersSame /\ LayersOK'
  BY <1>1, <1>2, SameLayers DEF LayersSame
<1>4. acked' \subseteq 1..made /\ refused' \subseteq 1..made /\ dropped' \subseteq 1..made => ChangesOK'
  BY <1>1, <1>2 DEF ChangesOK
<1>5. depth' \in Nat /\ counter' \in Nat /\ rollbackOnly' \in BOOLEAN => FieldsOK'
  BY <1>1, <1>2 DEF FieldsOK
<1> QED
  BY <1>3, <1>4, <1>5

\* flush(), commit() and transaction() begin a call.
LEMMA CallStep ==
    ASSUME Base, Flush \/ Commit \/ Transaction, setup' = setup
    PROVE  /\ Base' /\ LayersSame
           /\ UNCHANGED <<lease, dirty, links, committed, made, depth, promiseVars>>
           /\ \/ Flush /\ Begins("flush", "flush1", 0, dirty) /\ UNCHANGED <<counter, rollbackOnly>>
              \/ Commit /\ Transactions /\ Begins("commit", "begin", 0, {}) /\ UNCHANGED <<counter, rollbackOnly>>
              \/ Commit /\ ~Transactions /\ Begins("bare", "before", 0, {}) /\ UNCHANGED <<counter, rollbackOnly>>
              \/ Transaction /\ ~Transactions /\ Begins("bare", "body", 0, {}) /\ UNCHANGED <<counter, rollbackOnly>>
              \/ /\ Transaction /\ Transactions /\ depth = 0 /\ Begins("outer", "begin", 0, {})
                 /\ rollbackOnly' = FALSE /\ counter' = counter
              \/ /\ Transaction /\ Transactions /\ depth > 0 /\ Begins("inner", "begin", counter', {})
                 /\ counter' = counter + 1 /\ rollbackOnly' = rollbackOnly
<1>1. StackOK /\ LayersOK /\ ChangesOK /\ FieldsOK
  BY DEF Base
<1>2. UNCHANGED <<setup, connVars, pendingVars, committed, made, depth, promiseVars>>
  BY DEF Flush, Commit, Transaction, sessionVars
<1>3. UNCHANGED <<lease, dirty, links, committed, made, depth, acked, refused, dropped>>
  BY <1>2 DEF pendingVars, promiseVars, connVars
<1>4. LayersOK' /\ LayersSame /\ ChangesOK'
  BY <1>1, <1>2, <1>3, RestSame DEF ChangesOK
<1>5. dirty \in SUBSET (1..made) /\ {} \in SUBSET (1..made) /\ 0 \in Nat
  BY <1>1 DEF ChangesOK
<1>6. ASSUME NEW kind \in Kinds, NEW point \in Points, NEW sp \in Nat, NEW todo \in SUBSET (1..made),
             Push(kind, point, sp, todo), kind = "inner" => sp > 0,
             counter' \in Nat, rollbackOnly' \in BOOLEAN
      PROVE  Base' /\ Begins(kind, point, sp, todo)
  <2>1. StackOK' /\ Begins(kind, point, sp, todo)
    BY <1>1, <1>3, <1>6, PushStack
  <2>2. FieldsOK'
    BY <1>1, <1>2, <1>3, <1>6, RestSame DEF FieldsOK
  <2> QED
    BY <1>4, <2>1, <2>2 DEF Base
<1>7. /\ counter \in Nat /\ rollbackOnly \in BOOLEAN /\ FALSE \in BOOLEAN /\ counter + 1 \in Nat /\ counter + 1 > 0
      /\ {"flush", "commit", "bare", "outer", "inner"} \subseteq Kinds
      /\ {"flush1", "begin", "before", "body"} \subseteq Points
  BY <1>1 DEF FieldsOK, Kinds, Points
<1>8. CASE Flush
  <2>1. Push("flush", "flush1", 0, dirty) /\ UNCHANGED <<counter, rollbackOnly>>
    BY <1>8 DEF Flush, sessionVars
  <2>2. Base' /\ Begins("flush", "flush1", 0, dirty)
    BY <1>5, <1>6, <1>7, <2>1
  <2> QED
    BY <1>3, <1>4, <1>8, <2>1, <2>2 DEF promiseVars
<1>9. CASE Commit
  <2>1. UNCHANGED <<counter, rollbackOnly>>
    BY <1>9 DEF Commit, sessionVars
  <2>2. CASE Transactions
    <3>1. Push("commit", "begin", 0, {})
      BY <1>9, <2>2 DEF Commit
    <3>2. Base' /\ Begins("commit", "begin", 0, {})
      BY <1>5, <1>6, <1>7, <2>1, <3>1
    <3> QED
      BY <1>3, <1>4, <1>9, <2>1, <2>2, <3>2 DEF promiseVars
  <2>3. CASE ~Transactions
    <3>1. Push("bare", "before", 0, {})
      BY <1>9, <2>3 DEF Commit
    <3>2. Base' /\ Begins("bare", "before", 0, {})
      BY <1>5, <1>6, <1>7, <2>1, <3>1
    <3> QED
      BY <1>3, <1>4, <1>9, <2>1, <2>3, <3>2 DEF promiseVars
  <2> QED
    BY <2>2, <2>3
<1>10. CASE Transaction
  <2>1. CASE ~Transactions /\ Push("bare", "body", 0, {}) /\ UNCHANGED <<counter, rollbackOnly>>
    <3>1. Base' /\ Begins("bare", "body", 0, {})
      BY <1>5, <1>6, <1>7, <2>1
    <3> QED
      BY <1>3, <1>4, <1>10, <2>1, <3>1 DEF promiseVars
  <2>2. CASE /\ Transactions /\ depth = 0 /\ Push("outer", "begin", 0, {})
             /\ rollbackOnly' = FALSE /\ UNCHANGED counter
    <3>1. Base' /\ Begins("outer", "begin", 0, {})
      BY <1>5, <1>6, <1>7, <2>2
    <3> QED
      BY <1>3, <1>4, <1>10, <2>2, <3>1 DEF promiseVars
  <2>3. CASE /\ Transactions /\ depth > 0 /\ counter' = counter + 1
             /\ Push("inner", "begin", counter', {}) /\ UNCHANGED rollbackOnly
    <3>1. Base' /\ Begins("inner", "begin", counter', {})
      BY <1>5, <1>6, <1>7, <2>3
    <3> QED
      BY <1>3, <1>4, <1>10, <2>3, <3>1 DEF promiseVars
  <2> QED
    BY <1>10, <2>1, <2>2, <2>3 DEF Transaction
<1> QED
  BY <1>8, <1>9, <1>10

\* The body of a transaction returns or throws, a statement or an interceptor
\* throws, RELEASE fails.
LEMMA BodyStep ==
    ASSUME Base, BodyReturns \/ BodyThrows \/ FlushFailed \/ ReleaseFailed, setup' = setup
    PROVE  /\ Base' /\ LayersSame /\ stack # <<>>
           /\ UNCHANGED <<lease, dirty, links, committed, made, depth, counter>>
           /\ \/ Throw /\ ~(BodyReturns /\ (Top.kind = "bare" \/ ~rollbackOnly))
              \/ /\ BodyReturns /\ (Top.kind = "bare" \/ ~rollbackOnly)
                 /\ GoesOn("before", {}) /\ rollbackOnly' = rollbackOnly /\ UNCHANGED promiseVars
<1>1. StackOK /\ LayersOK /\ ChangesOK /\ FieldsOK
  BY DEF Base
<1>2. stack # <<>> /\ UNCHANGED <<setup, depth, counter, pendingVars, connVars, committed, made>>
  BY DEF BodyReturns, BodyThrows, FlushFailed, ReleaseFailed, At, InterceptorThrows
<1>3. UNCHANGED <<lease, dirty, links, committed, made, depth, counter>>
  BY <1>2 DEF pendingVars, connVars
<1>4. CASE Throw /\ ~(BodyReturns /\ (Top.kind = "bare" \/ ~rollbackOnly))
  BY <1>2, <1>3, <1>4, ThrowStep
<1>5. CASE BodyReturns /\ (Top.kind = "bare" \/ ~rollbackOnly)
  <2>1. GoTo("before", {}) /\ UNCHANGED <<rollbackOnly, promiseVars>>
    BY <1>5 DEF BodyReturns
  <2>2. {} \in SUBSET (1..made) /\ "before" \in Points
    BY DEF Points
  <2>3. StackOK' /\ GoesOn("before", {})
    BY <1>1, <1>2, <1>3, <2>1, <2>2, GoToStack
  <2>4. ChangesOK' /\ FieldsOK' /\ LayersOK' /\ LayersSame
    BY <1>1, <1>2, <1>3, <2>1, RestSame DEF ChangesOK, FieldsOK, promiseVars
  <2> QED
    BY <1>2, <1>3, <1>5, <2>1, <2>3, <2>4 DEF Base
<1>6. Throw \/ (BodyReturns /\ (Top.kind = "bare" \/ ~rollbackOnly))
  BY DEF BodyReturns, BodyThrows, FlushFailed, ReleaseFailed
<1> QED
  BY <1>4, <1>5, <1>6
\* BEGIN: a connection in no transaction opens one; one that is not strict goes
\* on with the transaction it is in.
LEMMA BegunStep ==
    ASSUME Base, Begun, setup' = setup
    PROVE  /\ Base' /\ stack # <<>> /\ Top.pc = "begin" /\ open' = TRUE /\ lease' = Pooled
           /\ UNCHANGED <<dirty, links, committed, made, counter, rollbackOnly, promiseVars>>
           /\ \/ ~open /\ Len(layers') = 1 /\ layers'[1].name = 0 /\ InLayers' = {}
              \/ open /\ layers' = layers /\ InLayers' = InLayers
           /\ \/ Top.kind = "outer" /\ GoesOn("body", {}) /\ depth' = depth + 1
              \/ Top.kind = "commit" /\ GoesOn("before", {}) /\ depth' = depth
<1>1. StackOK /\ LayersOK /\ ChangesOK /\ FieldsOK
  BY DEF Base
<1>2. stack # <<>> /\ Top.pc = "begin" /\ Top.kind \in {"outer", "commit"}
  BY DEF Begun, At
<1>3. /\ UNCHANGED <<setup, dirty, links, stray, committed, made, counter, rollbackOnly, acked, refused, dropped>>
      /\ open' = TRUE /\ lease' = Pooled
  BY DEF Begun, pendingVars, promiseVars
<1>4. /\ StackOK'
      /\ \/ Top.kind = "outer" /\ GoesOn("body", {}) /\ depth' = depth + 1
         \/ Top.kind = "commit" /\ GoesOn("before", {}) /\ depth' = depth
  <2>1. {} \in SUBSET (1..made) /\ {"body", "before"} \subseteq Points
    BY DEF Points
  <2>2. CASE Top.kind = "outer"
    <3>1. GoTo("body", {}) /\ depth' = depth + 1
      BY <2>2 DEF Begun, Enter
    <3> QED
      BY <1>1, <1>2, <1>3, <2>1, <2>2, <3>1, GoToStack
  <2>3. CASE Top.kind = "commit"
    <3>1. GoTo("before", {}) /\ depth' = depth
      BY <2>3 DEF Begun, Enter
    <3> QED
      BY <1>1, <1>2, <1>3, <2>1, <2>3, <3>1, GoToStack
  <2> QED
    BY <1>2, <2>2, <2>3
<1>5. /\ LayersOK'
      /\ \/ ~open /\ Len(layers') = 1 /\ layers'[1].name = 0 /\ InLayers' = {}
         \/ open /\ layers' = layers /\ InLayers' = InLayers
  <2>1. CASE ~open /\ layers' = <<[name |-> 0, writes |-> {}]>>
    <3> DEFINE l == [name |-> 0, writes |-> {}]
    <3>1. l \in Layer /\ l.name = 0 /\ l.writes = {}
      BY DEF Layer
    <3>2. layers' = <<l>>
      BY <2>1
    <3> HIDE DEF l
    <3>3. layers' \in Seq(Layer) /\ Len(layers') = 1 /\ layers'[1] = l /\ layers' # <<>>
      BY <3>1, <3>2
    <3>4. InLayers' = {}
      <4>1. \A d : d \in InLayers' <=> \E j \in 1..1 : d \in layers'[j].writes
        BY <3>3 DEF InLayers
      <4>2. 1..1 = {1}
        OBVIOUS
      <4> QED
        BY <3>1, <3>3, <4>1, <4>2
    <3>5. \A j \in 1..Len(layers') : layers'[j].writes \subseteq 1..made'
      BY <3>1, <3>3
    <3> QED
      BY <1>3, <2>1, <3>1, <3>3, <3>4, <3>5 DEF LayersOK
  <2>2. CASE open /\ layers' = layers
    <3>1. LayersSame
      BY <1>1, <1>3, <2>2 DEF LayersSame, FieldsOK
    <3> QED
      BY <1>1, <1>3, <2>2, <3>1, SameLayers
  <2> QED
    BY <2>1, <2>2 DEF Begun
<1>6. ChangesOK'
  BY <1>1, <1>3 DEF ChangesOK
<1>7. FieldsOK'
  <2>1. depth' \in Nat
    BY <1>1, <1>4 DEF FieldsOK
  <2>2. lease' \in BOOLEAN /\ open' \in BOOLEAN
    <3>1. Pooled \in BOOLEAN
      BY DEF Pooled
    <3> QED
      BY <1>3, <3>1
  <2> QED
    BY <1>1, <1>3, <2>1, <2>2 DEF FieldsOK
<1> QED
  BY <1>2, <1>3, <1>4, <1>5, <1>6, <1>7 DEF Base, promiseVars

\* BEGIN, SAVEPOINT: the call rejects before its try block.
LEMMA RefusedStep ==
    ASSUME Base, BeginFailed \/ SavepointFailed, setup' = setup
    PROVE  /\ Base' /\ stack # <<>> /\ Top.pc = "begin" /\ LayersSame /\ Reject /\ Ends(TRUE)
           /\ UNCHANGED <<dirty, links, committed, made, depth, counter, rollbackOnly>>
           /\ \/ BeginFailed /\ Top.kind \in {"outer", "commit"} /\ lease' \in {lease, Pooled}
              \/ SavepointFailed /\ Top.kind = "inner" /\ lease' = lease
<1>1. StackOK /\ LayersOK /\ ChangesOK /\ FieldsOK
  BY DEF Base
<1>2. stack # <<>> /\ Top.pc = "begin" /\ Reject
  BY DEF BeginFailed, SavepointFailed, At
<1>3. UNCHANGED <<setup, dirty, links, open, layers, stray, committed, made, depth, counter, rollbackOnly>>
  BY DEF BeginFailed, SavepointFailed, connVars, sessionVars, pendingVars
<1>4. \/ BeginFailed /\ Top.kind \in {"outer", "commit"} /\ lease' \in {lease, Pooled}
      \/ SavepointFailed /\ Top.kind = "inner" /\ lease' = lease
  BY DEF BeginFailed, SavepointFailed, connVars
<1>5. Ends(TRUE) /\ StackOK' /\ refused' \subseteq 1..made /\ dropped' \subseteq 1..made /\ acked' = acked
  BY <1>1, <1>2, <1>3, RejectStep
<1>6. LayersSame /\ LayersOK'
  BY <1>1, <1>3, SameLayers DEF LayersSame
<1>7. ChangesOK'
  BY <1>1, <1>3, <1>5 DEF ChangesOK
<1>8. FieldsOK'
  <2>1. lease' \in BOOLEAN
    <3>1. Pooled \in BOOLEAN
      BY DEF Pooled
    <3> QED
      BY <1>1, <1>4, <3>1 DEF FieldsOK
  <2> QED
    BY <1>1, <1>3, <2>1 DEF FieldsOK
<1> QED
  BY <1>2, <1>3, <1>4, <1>5, <1>6, <1>7, <1>8 DEF Base

\* SAVEPOINT: a layer on top.
LEMMA SavepointStep ==
    ASSUME Base, SavepointSet, setup' = setup
    PROVE  /\ Base' /\ stack # <<>> /\ Top.pc = "begin" /\ Top.kind = "inner" /\ GoesOn("body", {})
           /\ open /\ open' = open /\ InLayers' = InLayers
           /\ Len(layers') = Len(layers) + 1 /\ layers'[Len(layers) + 1].name = Top.sp
           /\ \A j \in 1..Len(layers) : layers'[j] = layers[j]
           /\ depth' = depth + 1
           /\ UNCHANGED <<lease, dirty, links, committed, made, counter, rollbackOnly, promiseVars>>
<1>1. StackOK /\ LayersOK /\ ChangesOK /\ FieldsOK
  BY DEF Base
<1>2. stack # <<>> /\ Top.pc = "begin" /\ Top.kind = "inner" /\ open /\ GoTo("body", {})
  BY DEF SavepointSet, At
<1>3. /\ UNCHANGED <<setup, lease, open, dirty, links, stray, committed, made, counter, rollbackOnly, acked, refused, dropped>>
      /\ depth' = depth + 1
  BY DEF SavepointSet, pendingVars, promiseVars
<1>4. {} \in SUBSET (1..made) /\ "body" \in Points
  BY DEF Points
<1>5. StackOK' /\ GoesOn("body", {})
  BY <1>1, <1>2, <1>3, <1>4, GoToStack
<1>6. Top.sp \in Nat
  BY <1>1, <1>2, TopFrame DEF Frames
<1>7. /\ LayersOK' /\ InLayers' = InLayers
      /\ Len(layers') = Len(layers) + 1 /\ layers'[Len(layers) + 1].name = Top.sp
      /\ \A j \in 1..Len(layers) : layers'[j] = layers[j]
  <2>1. layers' = Append(layers, [name |-> Top.sp, writes |-> {}])
    BY DEF SavepointSet
  <2> QED
    BY <1>1, <1>2, <1>3, <1>6, <2>1, AppendedLayers
<1>8. ChangesOK'
  BY <1>1, <1>3 DEF ChangesOK
<1>9. FieldsOK'
  BY <1>1, <1>3 DEF FieldsOK
<1> QED
  BY <1>2, <1>3, <1>5, <1>7, <1>8, <1>9 DEF Base, promiseVars
\* A statement of a pass.
LEMMA StatementStep ==
    ASSUME Base, Flushed \/ Processed, setup' = setup
    PROVE  /\ Base' /\ stack # <<>> /\ Top.pc \in {"flush1", "links", "flush2"} /\ NamesKept(Len(layers))
           /\ UNCHANGED <<open, lease, links, made, depth, counter, rollbackOnly, promiseVars>>
           /\ \E c \in Top.todo :
                /\ GoesOn(Top.pc, Top.todo \ {c})
                /\ \/ /\ IF open THEN InLayers' = InLayers \cup {c} /\ committed' = committed
                                 ELSE InLayers' = InLayers /\ committed' = committed \cup {c}
                      /\ \/ Top.pc # "links" /\ dirty' = dirty \ {c}
                         \/ Top.pc = "links" /\ dirty' = dirty
                   \/ /\ Top.pc = "links" /\ InLayers' = InLayers /\ committed' = committed
                      /\ dirty' = dirty \cup {c}
<1>1. StackOK /\ LayersOK /\ ChangesOK /\ FieldsOK
  BY DEF Base
<1>2. stack # <<>> /\ Top.pc \in {"flush1", "links", "flush2"}
  BY DEF Flushed, Processed, At
<1>3. UNCHANGED <<setup, open, lease, links, stray, made, depth, counter, rollbackOnly, acked, refused, dropped>>
  BY DEF Flushed, Processed, sessionVars, promiseVars
<1>4. PICK c \in Top.todo :
        /\ GoTo(Top.pc, Top.todo \ {c})
        /\ \/ Statement(c) /\ Top.pc # "links" /\ dirty' = dirty \ {c}
           \/ Statement(c) /\ Top.pc = "links" /\ dirty' = dirty
           \/ Top.pc = "links" /\ dirty' = dirty \cup {c} /\ UNCHANGED <<layers, committed>>
  <2>1. CASE Flushed
    BY <2>1 DEF Flushed, At
  <2>2. CASE Processed
    BY <2>2 DEF Processed, At
  <2> QED
    BY <2>1, <2>2
<1>5. c \in 1..made /\ Top.todo \ {c} \in SUBSET (1..made) /\ Top.pc \in Points
  <2>1. Top.todo \subseteq 1..made
    BY <1>1, <1>2, TopFrame DEF FrameOK
  <2> QED
    BY <1>2, <2>1 DEF Points
<1>6. StackOK' /\ GoesOn(Top.pc, Top.todo \ {c})
  BY <1>1, <1>2, <1>3, <1>4, <1>5, GoToStack
<1>7. /\ LayersOK' /\ NamesKept(Len(layers))
      /\ \/ /\ IF open THEN InLayers' = InLayers \cup {c} /\ committed' = committed
                       ELSE InLayers' = InLayers /\ committed' = committed \cup {c}
            /\ \/ Top.pc # "links" /\ dirty' = dirty \ {c}
               \/ Top.pc = "links" /\ dirty' = dirty
         \/ /\ Top.pc = "links" /\ InLayers' = InLayers /\ committed' = committed
            /\ dirty' = dirty \cup {c}
  <2>1. CASE Statement(c)
    <3>1. /\ LayersOK' /\ NamesKept(Len(layers))
          /\ open => InLayers' = InLayers \cup {c} /\ committed' = committed
          /\ ~open => InLayers' = InLayers /\ committed' = committed \cup {c}
      BY <1>1, <1>3, <1>5, <2>1, StatementLayers
    <3>2. \/ Top.pc # "links" /\ dirty' = dirty \ {c}
          \/ Top.pc = "links" /\ dirty' = dirty
          \/ Top.pc = "links" /\ dirty' = dirty \cup {c} /\ UNCHANGED <<layers, committed>>
      BY <1>4
    <3>3. UNCHANGED layers => InLayers' = InLayers
      BY DEF InLayers
    <3> QED
      BY <3>1, <3>2, <3>3
  <2>2. CASE Top.pc = "links" /\ dirty' = dirty \cup {c} /\ UNCHANGED <<layers, committed>>
    BY <1>1, <1>3, <2>2, SameLayers DEF LayersSame
  <2> QED
    BY <1>4, <2>1, <2>2
<1>8. ChangesOK'
  <2>1. dirty' \subseteq 1..made /\ committed' \subseteq 1..made
    BY <1>1, <1>5, <1>7 DEF ChangesOK
  <2> QED
    BY <1>1, <1>3, <2>1 DEF ChangesOK
<1>9. FieldsOK'
  BY <1>1, <1>3 DEF FieldsOK
<1> QED
  BY <1>2, <1>3, <1>4, <1>6, <1>7, <1>8, <1>9 DEF Base, promiseVars

\* The interceptors have run, or a pass is over.
LEMMA PassStep ==
    ASSUME Base, setup' = setup,
           \/ Intercepted /\ UNCHANGED <<depth, counter, pendingVars, connVars, committed, made>>
           \/ stack # <<>> /\ PassOver
    PROVE  /\ Base' /\ LayersSame /\ stack # <<>>
           /\ UNCHANGED <<lease, dirty, committed, made, depth, counter>>
           /\ \/ /\ Top.pc = "before" /\ GoesOn("flush1", dirty) /\ links' = links
                 /\ rollbackOnly' = rollbackOnly /\ UNCHANGED promiseVars
              \/ /\ Top.pc = "after" /\ Throw /\ Top.kind \in {"outer", "inner"} /\ rollbackOnly
                 /\ links' = links
              \/ /\ Top.pc = "after" /\ GoesOn("dispatch", {}) /\ Top.kind = "bare"
                 /\ links' = links /\ rollbackOnly' = rollbackOnly /\ UNCHANGED promiseVars
              \/ /\ Top.pc = "after" /\ GoesOn("end", {}) /\ Top.kind # "bare"
                 /\ ~(Top.kind \in {"outer", "inner"} /\ rollbackOnly)
                 /\ links' = links /\ rollbackOnly' = rollbackOnly /\ UNCHANGED promiseVars
              \/ /\ Top.pc = "flush1" /\ Top.todo = {} /\ Top.kind # "flush" /\ GoesOn("links", links)
                 /\ links' = {} /\ rollbackOnly' = rollbackOnly /\ UNCHANGED promiseVars
              \/ /\ Top.pc = "flush1" /\ Top.todo = {} /\ Top.kind = "flush" /\ Resolve /\ Ends(FALSE)
                 /\ links' = links /\ rollbackOnly' = rollbackOnly /\ UNCHANGED promiseVars
              \/ /\ Top.pc = "links" /\ Top.todo = {} /\ GoesOn("flush2", dirty)
                 /\ links' = links /\ rollbackOnly' = rollbackOnly /\ UNCHANGED promiseVars
              \/ /\ Top.pc = "flush2" /\ Top.todo = {} /\ GoesOn("after", {})
                 /\ links' = links /\ rollbackOnly' = rollbackOnly /\ UNCHANGED promiseVars
<1>1. StackOK /\ LayersOK /\ ChangesOK /\ FieldsOK
  BY DEF Base
<1>2. stack # <<>> /\ UNCHANGED <<setup, depth, counter, dirty, connVars, committed, made>>
  BY DEF Intercepted, PassOver, At, pendingVars, sessionVars
<1>3. UNCHANGED <<setup, depth, counter, dirty, lease, open, layers, stray, committed, made>>
  BY <1>2 DEF connVars
<1>4. LayersSame /\ LayersOK'
  BY <1>1, <1>3, SameLayers DEF LayersSame
<1>5. dirty \in SUBSET (1..made) /\ links \in SUBSET (1..made) /\ {} \in SUBSET (1..made)
  BY <1>1 DEF ChangesOK
<1>6. {"flush1", "dispatch", "end", "links", "flush2", "after"} \subseteq Points
  BY DEF Points
<1>7. ASSUME links' \in {links, {}}, rollbackOnly' = rollbackOnly, UNCHANGED promiseVars, StackOK'
      PROVE  Base'
  <2>1. ChangesOK'
    BY <1>1, <1>3, <1>7 DEF ChangesOK, promiseVars
  <2>2. FieldsOK'
    BY <1>1, <1>3, <1>7 DEF FieldsOK
  <2> QED
    BY <1>4, <1>7, <2>1, <2>2 DEF Base
<1>8. ASSUME NEW point \in Points, NEW todo \in SUBSET (1..made), GoTo(point, todo)
      PROVE  StackOK' /\ GoesOn(point, todo)
  BY <1>1, <1>2, <1>3, <1>8, GoToStack
<1>9. CASE Intercepted /\ UNCHANGED <<depth, counter, pendingVars, connVars, committed, made>>
  <2>1. links' = links
    BY <1>9 DEF pendingVars
  <2>2. CASE Top.pc = "before" /\ GoTo("flush1", dirty) /\ UNCHANGED <<rollbackOnly, promiseVars>>
    BY <1>2, <1>3, <1>4, <1>5, <1>6, <1>7, <1>8, <2>1, <2>2
  <2>3. CASE Top.pc = "after" /\ Throw /\ Top.kind \in {"outer", "inner"} /\ rollbackOnly
    BY <1>2, <1>3, <1>4, <1>9, <2>1, <2>3, ThrowStep
  <2>4. CASE Top.pc = "after" /\ GoTo("dispatch", {}) /\ Top.kind = "bare" /\ UNCHANGED <<rollbackOnly, promiseVars>>
    BY <1>2, <1>3, <1>4, <1>5, <1>6, <1>7, <1>8, <2>1, <2>4
  <2>5. CASE /\ Top.pc = "after" /\ GoTo("end", {}) /\ Top.kind # "bare"
             /\ ~(Top.kind \in {"outer", "inner"} /\ rollbackOnly) /\ UNCHANGED <<rollbackOnly, promiseVars>>
    BY <1>2, <1>3, <1>4, <1>5, <1>6, <1>7, <1>8, <2>1, <2>5
  <2> QED
    BY <1>9, <2>2, <2>3, <2>4, <2>5 DEF Intercepted, At
<1>10. CASE PassOver
  <2>1. rollbackOnly' = rollbackOnly /\ Top.todo = {}
    BY <1>10 DEF PassOver, sessionVars
  <2>2. CASE Top.pc = "flush1" /\ Top.kind # "flush" /\ GoTo("links", links) /\ links' = {} /\ UNCHANGED promiseVars
    BY <1>2, <1>3, <1>4, <1>5, <1>6, <1>7, <1>8, <2>1, <2>2
  <2>3. CASE Top.pc = "flush1" /\ Top.kind = "flush" /\ Resolve /\ links' = links
    <3>1. Ends(FALSE) /\ StackOK' /\ UNCHANGED <<refused, dropped>>
      BY <1>1, <1>2, <1>3, <2>3, ResolveStep
    <3>2. UNCHANGED promiseVars
      BY <2>3, <3>1 DEF Resolve, promiseVars
    <3> QED
      BY <1>2, <1>3, <1>4, <1>7, <2>1, <2>3, <3>1, <3>2
  <2>4. CASE Top.pc = "links" /\ GoTo("flush2", dirty) /\ UNCHANGED <<links, promiseVars>>
    BY <1>2, <1>3, <1>4, <1>5, <1>6, <1>7, <1>8, <2>1, <2>4
  <2>5. CASE Top.pc = "flush2" /\ GoTo("after", {}) /\ UNCHANGED <<links, promiseVars>>
    BY <1>2, <1>3, <1>4, <1>5, <1>6, <1>7, <1>8, <2>1, <2>5
  <2> QED
    BY <1>10, <2>2, <2>3, <2>4, <2>5 DEF PassOver, At
<1> QED
  BY <1>9, <1>10
\* COMMIT: the layers are in the database and the transaction is over.
LEMMA CommittedStep ==
    ASSUME Base, Committed, setup' = setup
    PROVE  /\ Base' /\ stack # <<>> /\ Top.pc = "end" /\ Top.kind \in {"outer", "commit"}
           /\ GoesOn("dispatch", {}) /\ Disconnect /\ lease' = FALSE
           /\ committed' = committed \cup InLayers /\ InLayers' = {} /\ Len(layers') = 0
           /\ UNCHANGED <<dirty, links, made, depth, counter, rollbackOnly, promiseVars>>
<1>1. StackOK /\ LayersOK /\ ChangesOK /\ FieldsOK
  BY DEF Base
<1>2. /\ stack # <<>> /\ Top.pc = "end" /\ Top.kind \in {"outer", "commit"}
      /\ GoTo("dispatch", {}) /\ Disconnect /\ lease' = FALSE /\ committed' = committed \cup InLayers
  BY DEF Committed, CommitTransaction, Finish, At
<1>3. UNCHANGED <<setup, dirty, links, stray, made, depth, counter, rollbackOnly, acked, refused, dropped>>
  BY DEF Committed, CommitTransaction, Finish, pendingVars, promiseVars, sessionVars
<1>4. {} \in SUBSET (1..made) /\ "dispatch" \in Points
  BY DEF Points
<1>5. StackOK' /\ GoesOn("dispatch", {})
  BY <1>1, <1>2, <1>3, <1>4, GoToStack
<1>6. LayersOK' /\ InLayers' = {} /\ Len(layers') = 0
  BY <1>2, Disconnected
<1>7. ChangesOK'
  <2>1. InLayers \subseteq 1..made
    BY <1>1, InLayersMember DEF LayersOK
  <2> QED
    BY <1>1, <1>2, <1>3, <2>1 DEF ChangesOK
<1>8. FieldsOK'
  BY <1>1, <1>2, <1>3 DEF FieldsOK, Disconnect
<1> QED
  BY <1>2, <1>3, <1>5, <1>6, <1>7, <1>8 DEF Base, promiseVars

\* A COMMIT that fails: the transaction is over or still open.
LEMMA CommitFailedStep ==
    ASSUME Base, CommitFailed, setup' = setup
    PROVE  /\ Base' /\ stack # <<>> /\ Top.pc = "end" /\ Top.kind \in {"outer", "commit"}
           /\ GoesOn("undo", {}) /\ lease' = FALSE
           /\ \/ Disconnect /\ InLayers' = {} /\ Len(layers') = 0
              \/ open /\ LayersSame /\ InLayers' = InLayers
           /\ UNCHANGED <<dirty, links, committed, made, depth, counter, rollbackOnly, promiseVars>>
<1>1. StackOK /\ LayersOK /\ ChangesOK /\ FieldsOK
  BY DEF Base
<1>2. /\ stack # <<>> /\ Top.pc = "end" /\ Top.kind \in {"outer", "commit"} /\ Throw
      /\ CommitTransactionFails
  BY DEF CommitFailed, At
<1>3. UNCHANGED <<setup, dirty, links, committed, made, depth, counter>>
  BY DEF CommitFailed, CommitTransactionFails, pendingVars
<1>4. /\ lease' = FALSE /\ (Disconnect \/ (open /\ LayersSame))
      /\ \A s \in stray' : StrayOK(s, made)
  <2>1. CASE Finish
    BY <1>1, <2>1 DEF Finish, FieldsOK
  <2>2. CASE GiveBack
    <3>1. ~open /\ LayersSame => Disconnect
      BY <1>1 DEF LayersOK, FieldsOK, LayersSame, Disconnect
    <3> QED
      BY <1>3, <2>2, <3>1, GiveBackStep
  <2> QED
    BY <1>2, <2>1, <2>2 DEF CommitTransactionFails
<1>5. /\ StackOK' /\ GoesOn("undo", {})
      /\ UNCHANGED <<rollbackOnly, acked, refused, dropped>>
  <2>1. rollbackOnly \in BOOLEAN
    BY <1>1 DEF FieldsOK
  <2>2. /\ StackOK' /\ GoesOn("undo", {})
        /\ rollbackOnly' = (rollbackOnly \/ Top.kind = "inner") /\ UNCHANGED promiseVars
    BY <1>1, <1>2, <1>3, ThrowStack
  <2>3. rollbackOnly' = rollbackOnly
    BY <1>2, <2>1, <2>2
  <2> QED
    BY <2>2, <2>3 DEF promiseVars
<1>6. /\ LayersOK' /\ open' \in BOOLEAN
      /\ \/ Disconnect /\ InLayers' = {} /\ Len(layers') = 0
         \/ open /\ LayersSame /\ InLayers' = InLayers
  <2>1. CASE Disconnect
    <3>1. open' = FALSE
      BY <2>1 DEF Disconnect
    <3> QED
      BY <2>1, <3>1, Disconnected
  <2>2. CASE open /\ LayersSame
    <3>1. open' = open
      BY <2>2 DEF LayersSame
    <3> QED
      BY <1>1, <1>3, <2>2, <3>1, SameLayers DEF FieldsOK
  <2> QED
    BY <1>4, <2>1, <2>2
<1>7. ChangesOK'
  BY <1>1, <1>3, <1>5 DEF ChangesOK
<1>8. FieldsOK'
  BY <1>1, <1>3, <1>4, <1>5, <1>6 DEF FieldsOK
<1> QED
  BY <1>2, <1>3, <1>4, <1>5, <1>6, <1>7, <1>8 DEF Base, promiseVars

\* The finally block of transaction().
LEMMA LeaveFields ==
    ASSUME NEW n \in Nat, NEW flag \in BOOLEAN, Leave(n, flag), counter \in Nat
    PROVE  /\ depth' = (IF n > 0 THEN n - 1 ELSE 0) /\ depth' \in Nat
           /\ counter' = (IF depth' = 0 THEN 0 ELSE counter) /\ counter' \in Nat
           /\ rollbackOnly' = (IF depth' = 0 THEN FALSE ELSE flag) /\ rollbackOnly' \in BOOLEAN
<1>1. depth' = (IF n > 0 THEN n - 1 ELSE 0) /\ depth' \in Nat
  BY DEF Leave
<1>2. counter' = (IF depth' = 0 THEN 0 ELSE counter) /\ counter' \in Nat
  BY DEF Leave
<1>3. rollbackOnly' = (IF depth' = 0 THEN FALSE ELSE flag)
  BY DEF Leave
<1> QED
  BY <1>1, <1>2, <1>3

\* RELEASE: the layers from the savepoint on are merged, or stay where they are.
LEMMA ReleasedStep ==
    ASSUME Base, SavepointReleased, setup' = setup
    PROVE  /\ Base' /\ stack # <<>> /\ Top.pc = "end" /\ Top.kind = "inner" /\ Ends(FALSE)
           /\ open' = open /\ InLayers' = InLayers /\ Leave(depth, rollbackOnly)
           /\ \/ NamesKept(Len(layers)) \/ \E i \in LayerOf(Top.sp) : NamesKept(i - 1)
           /\ UNCHANGED <<lease, dirty, links, committed, made, promiseVars>>
<1>1. StackOK /\ LayersOK /\ ChangesOK /\ FieldsOK
  BY DEF Base
<1>2. stack # <<>> /\ Top.pc = "end" /\ Top.kind = "inner" /\ Resolve /\ Leave(depth, rollbackOnly)
  BY DEF SavepointReleased, At
<1>3. UNCHANGED <<setup, open, lease, dirty, links, stray, committed, made>>
  BY DEF SavepointReleased, pendingVars
<1>4. StackOK' /\ Ends(FALSE) /\ UNCHANGED <<refused, dropped>>
  BY <1>1, <1>2, <1>3, ResolveStep
<1>5. acked' = acked
  BY <1>2 DEF Resolve
<1>6. /\ LayersOK' /\ InLayers' = InLayers
      /\ \/ NamesKept(Len(layers)) \/ \E i \in LayerOf(Top.sp) : NamesKept(i - 1)
  <2>1. Top.sp \in Nat /\ Top.sp > 0
    BY <1>1, <1>2, TopFrame DEF Frames, FrameOK
  <2>2. PICK i \in LayerOf(Top.sp) : Merged(i) \/ UNCHANGED layers
    BY DEF SavepointReleased, Merged
  <2>3. CASE Merged(i)
    <3>1. LayersOK' /\ NamesKept(i - 1) /\ InLayers' = InLayers
      BY <1>1, <1>3, <2>1, <2>3, MergedLayers
    <3> QED
      BY <3>1
  <2>4. CASE UNCHANGED layers
    BY <1>1, <1>3, <2>4, SameLayers DEF LayersSame
  <2> QED
    BY <2>2, <2>3, <2>4
<1>7. ChangesOK'
  BY <1>1, <1>3, <1>4, <1>5 DEF ChangesOK
<1>8. FieldsOK'
  <2>1. depth \in Nat /\ rollbackOnly \in BOOLEAN /\ counter \in Nat
    BY <1>1 DEF FieldsOK
  <2>2. depth' \in Nat /\ counter' \in Nat /\ rollbackOnly' \in BOOLEAN
    BY <1>2, <2>1, LeaveFields
  <2> QED
    BY <1>1, <1>3, <2>2 DEF FieldsOK
<1> QED
  BY <1>2, <1>3, <1>4, <1>5, <1>6, <1>7, <1>8 DEF Base, promiseVars
\* The domain events are dispatched: the call resolves.
LEMMA DispatchedStep ==
    ASSUME Base, Dispatched, setup' = setup
    PROVE  /\ Base' /\ stack # <<>> /\ Top.pc = "dispatch" /\ Resolve /\ Ends(FALSE) /\ LayersSame
           /\ IF Top.kind = "outer" THEN Leave(depth, rollbackOnly)
                                    ELSE UNCHANGED <<depth, counter, rollbackOnly>>
           /\ UNCHANGED <<lease, dirty, links, committed, made, refused, dropped>>
<1>1. StackOK /\ LayersOK /\ ChangesOK /\ FieldsOK
  BY DEF Base
<1>2. stack # <<>> /\ Top.pc = "dispatch" /\ Resolve
  BY DEF Dispatched, At
<1>3. UNCHANGED <<setup, connVars, pendingVars, committed, made, lease, dirty, links>>
  BY DEF Dispatched, pendingVars, connVars
<1>4. /\ depth' \in Nat /\ counter' \in Nat /\ rollbackOnly' \in BOOLEAN
      /\ IF Top.kind = "outer" THEN Leave(depth, rollbackOnly)
                               ELSE UNCHANGED <<depth, counter, rollbackOnly>>
  <2>1. depth \in Nat /\ rollbackOnly \in BOOLEAN /\ counter \in Nat
    BY <1>1 DEF FieldsOK
  <2>2. CASE Top.kind = "outer"
    <3>1. Leave(depth, rollbackOnly)
      BY <2>2 DEF Dispatched
    <3> QED
      BY <2>1, <2>2, <3>1, LeaveFields
  <2>3. CASE Top.kind # "outer"
    BY <2>1, <2>3 DEF Dispatched, sessionVars
  <2> QED
    BY <2>2, <2>3
<1>5. StackOK' /\ Ends(FALSE) /\ UNCHANGED <<refused, dropped>> /\ acked' \subseteq 1..made
  BY <1>1, <1>2, <1>3, ResolveStep
<1>6. refused' \subseteq 1..made /\ dropped' \subseteq 1..made
  BY <1>1, <1>5 DEF ChangesOK
<1>7. LayersSame /\ LayersOK' /\ ChangesOK' /\ FieldsOK'
  BY <1>3, <1>4, <1>5, <1>6, RestSame
<1> QED
  BY <1>2, <1>3, <1>4, <1>5, <1>7 DEF Base

\* A handler throws: the transaction() is undone, another call rejects.
LEMMA HandlerStep ==
    ASSUME Base, HandlerThrows, setup' = setup
    PROVE  /\ Base' /\ stack # <<>> /\ Top.pc = "dispatch" /\ LayersSame /\ "handler" \in Faults
           /\ \/ /\ Top.kind = "outer" /\ GoesOn("undo", {}) /\ UNCHANGED promiseVars
              \/ /\ Top.kind # "outer" /\ Reject /\ Ends(TRUE)
           /\ UNCHANGED <<lease, dirty, links, committed, made, depth, counter, rollbackOnly>>
<1>1. StackOK /\ LayersOK /\ ChangesOK /\ FieldsOK
  BY DEF Base
<1>2. stack # <<>> /\ Top.pc = "dispatch" /\ "handler" \in Faults
  BY DEF HandlerThrows, At
<1>3. UNCHANGED <<setup, connVars, pendingVars, committed, made, lease, dirty, links, depth, counter>>
  BY DEF HandlerThrows, pendingVars, connVars
<1>4. CASE Top.kind = "outer"
  <2>1. Throw
    BY <1>4 DEF HandlerThrows
  <2>2. /\ Base' /\ LayersSame /\ GoesOn("undo", {})
        /\ rollbackOnly' = (rollbackOnly \/ Top.kind = "inner") /\ UNCHANGED promiseVars
    BY <1>2, <1>3, <1>4, <2>1, ThrowStep
  <2>3. rollbackOnly' = rollbackOnly
    BY <1>1, <1>4, <2>2 DEF FieldsOK
  <2> QED
    BY <1>2, <1>3, <1>4, <2>2, <2>3
<1>5. CASE Top.kind # "outer"
  <2>1. Reject /\ rollbackOnly' = rollbackOnly
    BY <1>5 DEF HandlerThrows
  <2>2. StackOK' /\ Ends(TRUE) /\ refused' \subseteq 1..made /\ dropped' \subseteq 1..made /\ acked' = acked
    BY <1>1, <1>2, <1>3, <2>1, RejectStep
  <2>3. acked' \subseteq 1..made /\ depth' \in Nat /\ counter' \in Nat /\ rollbackOnly' \in BOOLEAN
    BY <1>1, <1>3, <2>1, <2>2 DEF ChangesOK, FieldsOK
  <2>4. LayersSame /\ LayersOK' /\ ChangesOK' /\ FieldsOK'
    BY <1>3, <2>2, <2>3, RestSame
  <2> QED
    BY <1>2, <1>3, <1>5, <2>1, <2>2, <2>4 DEF Base
<1> QED
  BY <1>4, <1>5

\* The catch block of the outermost call.
LEMMA UndoneStep ==
    ASSUME Base, OuterUndone \/ CommitUndone, setup' = setup
    PROVE  /\ Base' /\ stack # <<>> /\ Top.pc = "undo" /\ Reject /\ Ends(TRUE)
           /\ Disconnect /\ lease' = FALSE /\ InLayers' = {} /\ Len(layers') = 0
           /\ UNCHANGED <<committed, made>>
           /\ \/ /\ OuterUndone /\ Top.kind = "outer" /\ RollbackTransaction /\ dirty' = {} /\ links' = {}
                 /\ depth' = 0 /\ rollbackOnly' = FALSE /\ counter' = 0
              \/ /\ OuterUndone /\ Top.kind = "outer" /\ RollbackTransactionFails /\ Leave(depth, rollbackOnly)
                 /\ UNCHANGED <<dirty, links>>
              \/ /\ CommitUndone /\ Top.kind = "commit"
                 /\ UNCHANGED <<dirty, links, depth, counter, rollbackOnly>>
<1>1. StackOK /\ LayersOK /\ ChangesOK /\ FieldsOK
  BY DEF Base
<1>2. stack # <<>> /\ Top.pc = "undo" /\ Reject
  BY DEF OuterUndone, CommitUndone, At
<1>3. Disconnect /\ lease' = FALSE /\ UNCHANGED <<setup, stray, committed, made>>
  BY DEF OuterUndone, CommitUndone, RollbackTransaction, RollbackTransactionFails, Finish
<1>4. \/ /\ OuterUndone /\ Top.kind = "outer" /\ RollbackTransaction /\ dirty' = {} /\ links' = {}
         /\ Leave(0, FALSE)
      \/ /\ OuterUndone /\ Top.kind = "outer" /\ RollbackTransactionFails /\ Leave(depth, rollbackOnly)
         /\ UNCHANGED <<dirty, links>>
      \/ /\ CommitUndone /\ Top.kind = "commit"
         /\ UNCHANGED <<dirty, links, depth, counter, rollbackOnly>>
  BY DEF OuterUndone, CommitUndone, ForgetPending, pendingVars, sessionVars
<1>5. depth \in Nat /\ rollbackOnly \in BOOLEAN /\ counter \in Nat /\ 0 \in Nat /\ FALSE \in BOOLEAN
  BY <1>1 DEF FieldsOK
<1>6. Leave(0, FALSE) => depth' = 0 /\ rollbackOnly' = FALSE /\ counter' = 0
  BY <1>5 DEF Leave
<1>7. depth' \in Nat /\ counter' \in Nat /\ rollbackOnly' \in BOOLEAN
  <2>1. ASSUME Leave(depth, rollbackOnly) PROVE depth' \in Nat /\ counter' \in Nat /\ rollbackOnly' \in BOOLEAN
    BY <1>5, <2>1, LeaveFields
  <2>2. ASSUME Leave(0, FALSE) PROVE depth' \in Nat /\ counter' \in Nat /\ rollbackOnly' \in BOOLEAN
    BY <1>5, <2>2, LeaveFields
  <2>3. ASSUME UNCHANGED <<depth, counter, rollbackOnly>>
        PROVE  depth' \in Nat /\ counter' \in Nat /\ rollbackOnly' \in BOOLEAN
    BY <1>5, <2>3
  <2> QED
    BY <1>4, <2>1, <2>2, <2>3
<1>8. StackOK' /\ Ends(TRUE) /\ refused' \subseteq 1..made /\ dropped' \subseteq 1..made /\ acked' = acked
  BY <1>1, <1>2, <1>3, RejectStep
<1>9. LayersOK' /\ InLayers' = {} /\ Len(layers') = 0
  BY <1>3, Disconnected
<1>10. ChangesOK'
  <2>1. dirty' \subseteq dirty /\ links' \subseteq links
    BY <1>4
  <2> QED
    BY <1>1, <1>3, <1>8, <2>1 DEF ChangesOK
<1>11. FieldsOK'
  BY <1>1, <1>3, <1>7 DEF FieldsOK, Disconnect
<1> QED
  BY <1>2, <1>3, <1>4, <1>6, <1>8, <1>9, <1>10, <1>11 DEF Base

\* The catch block of a nested transaction().
LEMMA InnerUndoneStep ==
    ASSUME Base, InnerUndone, setup' = setup
    PROVE  /\ Base' /\ stack # <<>> /\ Top.pc = "undo" /\ Top.kind = "inner" /\ Ends(TRUE)
           /\ open' = open /\ InLayers' \subseteq InLayers /\ Leave(depth, rollbackOnly)
           /\ \/ NamesKept(Len(layers)) \/ \E i \in LayerOf(Top.sp) : NamesKept(i)
           /\ UNCHANGED <<lease, dirty, links, committed, made, promiseVars>>
<1>1. StackOK /\ LayersOK /\ ChangesOK /\ FieldsOK
  BY DEF Base
<1>2. stack # <<>> /\ Top.pc = "undo" /\ Top.kind = "inner" /\ Reject /\ Leave(depth, rollbackOnly)
  BY DEF InnerUndone, At
<1>3. UNCHANGED <<setup, open, lease, dirty, links, stray, committed, made>>
  BY DEF InnerUndone, pendingVars
<1>4. StackOK' /\ Ends(TRUE) /\ acked' = acked
  BY <1>1, <1>2, <1>3, RejectStep
<1>5. refused' = refused /\ dropped' = dropped
  BY <1>2 DEF Reject
<1>6. /\ LayersOK' /\ InLayers' \subseteq InLayers
      /\ \/ NamesKept(Len(layers)) \/ \E i \in LayerOf(Top.sp) : NamesKept(i)
  <2>1. Top.sp \in Nat
    BY <1>1, <1>2, TopFrame DEF Frames, FrameOK
  <2>2. (\E i \in LayerOf(Top.sp) : Truncated(i)) \/ UNCHANGED layers
    BY DEF InnerUndone, Truncated
  <2>3. CASE \E i \in LayerOf(Top.sp) : Truncated(i)
    <3>1. PICK i \in LayerOf(Top.sp) : Truncated(i)
      BY <2>3
    <3>2. LayersOK' /\ NamesKept(i) /\ InLayers' \subseteq InLayers
      BY <1>1, <1>3, <2>1, <3>1, TruncatedLayers
    <3> QED
      BY <3>2
  <2>4. CASE UNCHANGED layers
    BY <1>1, <1>3, <2>4, SameLayers DEF LayersSame
  <2> QED
    BY <2>2, <2>3, <2>4
<1>7. ChangesOK'
  BY <1>1, <1>3, <1>4, <1>5 DEF ChangesOK
<1>8. FieldsOK'
  <2>1. depth \in Nat /\ rollbackOnly \in BOOLEAN /\ counter \in Nat
    BY <1>1 DEF FieldsOK
  <2>2. depth' \in Nat /\ counter' \in Nat /\ rollbackOnly' \in BOOLEAN
    BY <1>2, <2>1, LeaveFields
  <2> QED
    BY <1>1, <1>3, <2>2 DEF FieldsOK
<1> QED
  BY <1>2, <1>3, <1>4, <1>5, <1>6, <1>7, <1>8 DEF Base, promiseVars
-----------------------------------------------------------------------------
(* Base is an invariant, whatever user code calls.                             *)

\* The actions, those that one of the lemmas above is about together.
LEMMA StepCases ==
    ASSUME [Next]_vars
    PROVE  \/ setup' = setup /\ Change
           \/ setup' = setup /\ (Flush \/ Commit \/ Transaction)
           \/ setup' = setup /\ Rollback
           \/ setup' = setup /\ Dispose
           \/ setup' = setup /\ (BodyReturns \/ BodyThrows \/ FlushFailed \/ ReleaseFailed)
           \/ setup' = setup /\ Begun
           \/ setup' = setup /\ (BeginFailed \/ SavepointFailed)
           \/ setup' = setup /\ SavepointSet
           \/ setup' = setup /\ (Flushed \/ Processed)
           \/ /\ setup' = setup
              /\ \/ Intercepted /\ UNCHANGED <<depth, counter, pendingVars, connVars, committed, made>>
                 \/ stack # <<>> /\ PassOver
           \/ setup' = setup /\ Committed
           \/ setup' = setup /\ CommitFailed
           \/ setup' = setup /\ SavepointReleased
           \/ setup' = setup /\ Dispatched
           \/ setup' = setup /\ HandlerThrows
           \/ setup' = setup /\ (OuterUndone \/ CommitUndone)
           \/ setup' = setup /\ InnerUndone
           \/ setup' = setup /\ Astray
           \/ UNCHANGED vars
BY DEF Next, User, Running, FlushStep

\* The call that is given a connection in an old transaction.
LEMMA BegunAstrayStep ==
    ASSUME Base, BegunAstray, setup' = setup
    PROVE  Base'
<1>1. StackOK /\ LayersOK /\ ChangesOK /\ FieldsOK
  BY DEF Base
<1>2. PICK s \in stray : stray' = stray \ {s} /\ layers' = s
  BY DEF BegunAstray
<1>3. /\ UNCHANGED <<setup, dirty, links, committed, made, counter, rollbackOnly>>
      /\ stack # <<>> /\ open' = TRUE /\ lease' = TRUE /\ Top.kind \in {"outer", "commit"}
      /\ (Enter /\ UNCHANGED promiseVars) \/ (Reject /\ depth' = depth)
  BY DEF BegunAstray, At, pendingVars
<1>4. StrayOK(s, made) /\ layers' = s /\ open' = TRUE /\ made' = made
  BY <1>1, <1>2, <1>3 DEF FieldsOK
<1>5. LayersOK'
  BY <1>4 DEF LayersOK, StrayOK
<1>6. StackOK' /\ depth' \in Nat /\ ChangesOK'
  <2>1. CASE Enter /\ UNCHANGED promiseVars
    <3>1. {} \in SUBSET (1..made) /\ {"body", "before"} \subseteq Points
      BY DEF Points
    <3>2. \E point \in Points : GoTo(point, {})
      BY <1>3, <2>1, <3>1 DEF Enter
    <3>3. StackOK'
      BY <1>1, <1>3, <3>1, <3>2, GoToStack
    <3>4. depth' \in Nat
      BY <1>1, <2>1 DEF Enter, FieldsOK
    <3> QED
      BY <1>1, <1>3, <2>1, <3>3, <3>4 DEF ChangesOK, promiseVars
  <2>2. CASE Reject /\ depth' = depth
    <3>1. /\ StackOK' /\ refused' \subseteq 1..made /\ dropped' \subseteq 1..made /\ acked' = acked
      BY <1>1, <1>3, <2>2, RejectStep
    <3>2. ChangesOK' /\ depth' \in Nat
      BY <1>1, <1>3, <2>2, <3>1 DEF ChangesOK, FieldsOK
    <3> QED
      BY <3>1, <3>2
  <2> QED
    BY <1>3, <2>1, <2>2
<1>7. FieldsOK'
  BY <1>1, <1>2, <1>3, <1>6 DEF FieldsOK
<1> QED
  BY <1>5, <1>6, <1>7 DEF Base

\* The statement that runs in one.
LEMMA StatementAstrayStep ==
    ASSUME Base, StatementAstray, setup' = setup
    PROVE  Base'
<1>1. StackOK /\ LayersOK /\ ChangesOK /\ FieldsOK
  BY DEF Base
<1>2. stack # <<>> /\ UNCHANGED <<setup, depth, counter, rollbackOnly, links, lease, open, layers, committed,
                                  made, acked, refused, dropped>>
  BY DEF StatementAstray, At, sessionVars, promiseVars
<1>3. PICK c \in Top.todo, s \in stray :
        /\ stray' = (stray \ {s}) \cup {[s EXCEPT ![Len(s)].writes = @ \cup {c}]}
        /\ dirty' = IF At("links") THEN dirty ELSE dirty \ {c}
        /\ GoTo(Top.pc, Top.todo \ {c})
  BY DEF StatementAstray
<1>4. Top.pc \in Points /\ Top.todo \subseteq 1..made /\ c \in 1..made
  BY <1>1, <1>2, <1>3, TopFrame DEF Frames, FrameOK
<1>5. StackOK'
  BY <1>1, <1>2, <1>3, <1>4, GoToStack
<1>6. LayersOK'
  BY <1>1, <1>2, SameLayers DEF LayersSame
<1>7. ChangesOK'
  BY <1>1, <1>2, <1>3 DEF ChangesOK
<1>8. FieldsOK'
  <2> DEFINE n == Len(s)
             l == [s[n] EXCEPT !.writes = @ \cup {c}]
  <2>1. StrayOK(s, made)
    BY <1>1, <1>3 DEF FieldsOK
  <2>2. /\ s \in Seq(Layer) /\ n \in 1..n /\ s[n] \in Layer /\ s[n].writes \subseteq 1..made
        /\ s[1].name = 0
    BY <2>1 DEF StrayOK
  <2>3. c \in 1..MaxChanges
    BY <1>1, <1>4, MadeChanges
  <2>4. l \in Layer /\ l.name = s[n].name /\ l.writes = s[n].writes \cup {c}
    BY <2>2, <2>3 DEF Layer
  <2>5. [s EXCEPT ![Len(s)].writes = @ \cup {c}] = [s EXCEPT ![n] = l]
    OBVIOUS
  <2> HIDE DEF l
  <2>6. StrayOK([s EXCEPT ![n] = l], made)
    <3> DEFINE w == [s EXCEPT ![n] = l]
    <3>1. /\ w \in Seq(Layer) /\ Len(w) = n /\ w[n] = l
          /\ \A j \in 1..n : j # n => w[j] = s[j]
      BY <2>2, <2>4
    <3> HIDE DEF w
    <3>2. w # <<>> /\ 1 \in 1..n /\ w[1].name = 0
      BY <2>2, <2>4, <3>1
    <3>3. \A j \in 1..n : w[j].writes \subseteq 1..made
      BY <1>4, <2>1, <2>4, <3>1 DEF StrayOK
    <3>4. StrayOK(w, made)
      BY <3>1, <3>2, <3>3 DEF StrayOK
    <3> QED
      BY <3>4 DEF w
  <2>7. \A x \in stray' : StrayOK(x, made)
    BY <1>1, <1>3, <2>5, <2>6 DEF FieldsOK
  <2> QED
    BY <1>1, <1>2, <2>7 DEF FieldsOK
<1> QED
  BY <1>5, <1>6, <1>7, <1>8 DEF Base

\* What others do with one.
LEMMA StrayEndsStep ==
    ASSUME Base, StrayEnds, setup' = setup
    PROVE  Base'
<1>1. StackOK /\ LayersOK /\ ChangesOK /\ FieldsOK
  BY DEF Base
<1>2. UNCHANGED <<setup, stack, depth, counter, rollbackOnly, dirty, links, lease, open, layers, made,
                  acked, refused, dropped>>
  BY DEF StrayEnds, sessionVars, pendingVars, promiseVars
<1>3. PICK s \in stray :
        /\ stray' = stray \ {s}
        /\ committed' \in {committed, committed \cup UNION {s[i].writes : i \in 1..Len(s)}}
  BY DEF StrayEnds
<1>4. committed' \subseteq 1..made
  <2>1. StrayOK(s, made)
    BY <1>1 DEF FieldsOK
  <2>2. UNION {s[i].writes : i \in 1..Len(s)} \subseteq 1..made
    BY <2>1 DEF StrayOK
  <2> QED
    BY <1>1, <1>3, <2>2 DEF ChangesOK
<1>5. StackOK' /\ ChangesOK' /\ FieldsOK'
  BY <1>1, <1>2, <1>3, <1>4 DEF StackOK, ChangesOK, FieldsOK
<1>6. LayersOK'
  BY <1>1, <1>2, SameLayers DEF LayersSame
<1> QED
  BY <1>5, <1>6 DEF Base

\* Nothing but a type invariant: the steps keep it.
LEMMA BaseStep ==
    ASSUME Base, [Next]_vars
    PROVE  Base'
<1>1. CASE UNCHANGED vars
  BY <1>1 DEF vars, sessionVars, pendingVars, connVars, promiseVars, Base, StackOK, LayersOK, ChangesOK,
              FieldsOK
<1>2. setup' = setup /\ Astray => Base'
  BY BegunAstrayStep, StatementAstrayStep, StrayEndsStep DEF Astray
<1>3. setup' = setup /\ Dispose => Base'
  BY DisposeEffect
<1> QED
  BY <1>1, <1>2, <1>3, StepCases, ChangeStep, CallStep, RollbackStep, BodyStep, BegunStep, RefusedStep,
     SavepointStep, StatementStep, PassStep, CommittedStep, CommitFailedStep, ReleasedStep,
     DispatchedStep, HandlerStep, UndoneStep, InnerUndoneStep, Zenon

\* It holds at first.
LEMMA InitBase == Init => Base
<1> SUFFICES ASSUME Init PROVE Base
  OBVIOUS
<1>1. setup \in Setups /\ stack = <<>> /\ layers = <<>> /\ made = 0
  BY DEF Init
<1>2. stack \in Seq(Frames) /\ Len(stack) = 0 /\ layers \in Seq(Layer) /\ Len(layers) = 0
  BY <1>1
<1>3. MaxChanges \in Nat
  BY SessionAssumption
<1>4. StackOK /\ LayersOK
  BY <1>2 DEF StackOK, LayersOK, Init
<1>5. ChangesOK
  BY <1>1, <1>3 DEF ChangesOK, Init
<1>6. FieldsOK
  BY DEF FieldsOK, Init
<1> QED
  BY <1>4, <1>5, <1>6 DEF Base
-----------------------------------------------------------------------------
(* What holds the connection                                                   *)

\* A call that has begun a transaction and not ended it.
Holds(f) == f.kind \in {"outer", "commit"} /\ f.pc \notin {"begin", "dispatch"}
Held == \E i \in 1..Len(stack) : Holds(stack[i])

BeginIsSafe == Pooled => "begin" \notin Faults

\* There is a transaction or a lease only while such a call runs.
HeldOK ==
    /\ open => Held
    /\ BeginIsSafe /\ lease => Held

\* And no transaction has been left in the pool.
CloseOK == HeldOK /\ stray = {}

\* A pool's COMMIT does not fail with its transaction still open: the connection
\* would be given back in it.
CommitsEnd == \A s \in Setups : s.executor \in {"pool", "strict pool"} => "busy" \notin s.faults

\* So no connection is left in a transaction.
LEMMA NothingStray ==
    ASSUME CommitsEnd, Base, CloseOK, [Next]_vars
    PROVE  stray' = {}
<1>1. stray = {} /\ setup \in Setups
  BY DEF CloseOK, Base, FieldsOK
<1>2. CASE Dispose
  <2>1. ~open
    BY <1>2 DEF Dispose, CloseOK, HeldOK, Held
  <2> QED
    BY <1>1, <1>2, <2>1 DEF Dispose, GiveBack
<1>3. CASE CommitFailed
  <2>1. "busy" \in Faults => ~Pooled
    BY <1>1 DEF CommitsEnd, Pooled, Faults
  <2>2. CASE Finish
    BY <1>1, <2>2 DEF Finish
  <2>3. CASE GiveBack /\ ("busy" \in Faults \/ (Pooled /\ ~lease) \/ ~open)
    BY <1>1, <2>1, <2>3 DEF GiveBack
  <2> QED
    BY <1>3, <2>2, <2>3 DEF CommitFailed, CommitTransactionFails
<1>4. CASE stray' = stray
  BY <1>1, <1>4
<1>5. ~Astray
  BY <1>1 DEF Astray, BegunAstray, StatementAstray, StrayEnds
<1>6. CASE UNCHANGED connVars
  BY <1>4, <1>6 DEF connVars
<1>7. CASE Rollback \/ Committed \/ OuterUndone \/ CommitUndone
  BY <1>4, <1>6, <1>7 DEF Rollback, Committed, CommitTransaction, OuterUndone, CommitUndone,
       RollbackTransaction, RollbackTransactionFails, Finish, connVars
<1>8. CASE Begun \/ BeginFailed \/ SavepointSet \/ SavepointReleased \/ InnerUndone \/ Flushed \/ Processed
  BY <1>4, <1>8 DEF Begun, BeginFailed, SavepointSet, SavepointReleased, InnerUndone, Flushed, Processed
<1>9. CASE \/ Change \/ Flush \/ Commit \/ Transaction \/ BodyReturns \/ BodyThrows
           \/ SavepointFailed \/ FlushFailed \/ ReleaseFailed \/ Dispatched \/ HandlerThrows
  BY <1>6, <1>9 DEF Change, Flush, Commit, Transaction, BodyReturns, BodyThrows, SavepointFailed,
       FlushFailed, ReleaseFailed, Dispatched, HandlerThrows
<1>10. CASE \/ Intercepted /\ UNCHANGED <<depth, counter, pendingVars, connVars, committed, made>>
            \/ stack # <<>> /\ PassOver
  BY <1>6, <1>10 DEF PassOver
<1>11. CASE UNCHANGED vars
  BY <1>6, <1>11 DEF vars
<1> QED
  BY <1>2, <1>3, <1>5, <1>7, <1>8, <1>9, <1>10, <1>11, StepCases

\* The actions, as long as nothing is left in the pool.
LEMMA OrderlyCases ==
    ASSUME CloseOK, [Next]_vars
    PROVE  \/ setup' = setup /\ Change
           \/ setup' = setup /\ (Flush \/ Commit \/ Transaction)
           \/ setup' = setup /\ Rollback
           \/ setup' = setup /\ Dispose
           \/ setup' = setup /\ (BodyReturns \/ BodyThrows \/ FlushFailed \/ ReleaseFailed)
           \/ setup' = setup /\ Begun
           \/ setup' = setup /\ (BeginFailed \/ SavepointFailed)
           \/ setup' = setup /\ SavepointSet
           \/ setup' = setup /\ (Flushed \/ Processed)
           \/ /\ setup' = setup
              /\ \/ Intercepted /\ UNCHANGED <<depth, counter, pendingVars, connVars, committed, made>>
                 \/ stack # <<>> /\ PassOver
           \/ setup' = setup /\ Committed
           \/ setup' = setup /\ CommitFailed
           \/ setup' = setup /\ SavepointReleased
           \/ setup' = setup /\ Dispatched
           \/ setup' = setup /\ HandlerThrows
           \/ setup' = setup /\ (OuterUndone \/ CommitUndone)
           \/ setup' = setup /\ InnerUndone
           \/ UNCHANGED vars
<1>1. ~Astray
  BY DEF CloseOK, Astray, BegunAstray, StatementAstray, StrayEnds
<1> QED
  BY <1>1, StepCases

\* dispose() finds no transaction open.
LEMMA DisposeStep ==
    ASSUME Base, CloseOK, Dispose, setup' = setup
    PROVE  /\ Base' /\ LayersSame /\ stack = <<>> /\ lease' = FALSE /\ dirty' = {} /\ links' = {}
           /\ refused' = refused \cup dirty \cup links
           /\ UNCHANGED <<stack, made, depth, counter, rollbackOnly, committed, acked, dropped>>
<1>1. ~open
  BY DEF Dispose, CloseOK, HeldOK, Held
<1> QED
  BY <1>1, DisposeEffect

\* A call that begins, or a change, lets go of nothing.
LEMMA HeldOn ==
    ASSUME StackOK, Held,
           Marks \/ \E kind, point, sp, todo : Begins(kind, point, sp, todo)
    PROVE  Held'
<1>1. PICK i \in 1..Len(stack) : Holds(stack[i])
  BY DEF Held
<1>2. Len(stack) \in Nat
  BY DEF StackOK
<1>3. CASE Marks
  BY <1>1, <1>2, <1>3 DEF Held, Holds, Marks
<1>4. CASE \E kind, point, sp, todo : Begins(kind, point, sp, todo)
  <2>1. Len(stack') = Len(stack) + 1 /\ stack'[i] = stack[i]
    BY <1>1, <1>4 DEF Begins
  <2>2. i \in 1..Len(stack') /\ Holds(stack'[i])
    BY <1>1, <1>2, <2>1
  <2> QED
    BY <2>2 DEF Held
<1> QED
  BY <1>3, <1>4

\* Nor does a call that goes on inside its transaction.
LEMMA HeldThrough ==
    ASSUME StackOK, stack # <<>>, NEW point \in Points \ {"begin", "dispatch"}, NEW todo,
           GoesOn(point, todo), Held \/ Top.kind \in {"outer", "commit"}
    PROVE  Held'
<1>1. Len(stack) \in Nat /\ Len(stack) \in 1..Len(stack) /\ Top = stack[Len(stack)]
  BY TopFrame
<1>2. Len(stack') = Len(stack) /\ stack'[Len(stack)].pc = point
      /\ stack'[Len(stack)].kind = Top.kind
  BY <1>1 DEF GoesOn
<1>3. CASE Top.kind \in {"outer", "commit"}
  BY <1>1, <1>2, <1>3 DEF Held, Holds
<1>4. CASE Held /\ Top.kind \notin {"outer", "commit"}
  <2>1. PICK i \in 1..Len(stack) : Holds(stack[i])
    BY <1>4 DEF Held
  <2>2. i # Len(stack)
    BY <1>1, <1>4, <2>1 DEF Holds
  <2>3. stack'[i] = stack[i]
    BY <2>1, <2>2 DEF GoesOn
  <2> QED
    BY <1>2, <2>1, <2>3 DEF Held
<1> QED
  BY <1>3, <1>4

\* Nor the end of a call that has no transaction of its own.
LEMMA HeldBelow ==
    ASSUME StackOK, stack # <<>>, NEW failed \in BOOLEAN, Ends(failed), Held, ~Holds(Top)
    PROVE  Held'
<1>1. PICK i \in 1..Len(stack) : Holds(stack[i])
  BY DEF Held
<1>2. Len(stack) \in Nat /\ Top = stack[Len(stack)]
  BY TopFrame
<1>3. i \in 1..Len(stack')
  BY <1>1, <1>2 DEF Ends
<1> QED
  BY <1>1, <1>3 DEF Ends, Held, Holds

\* A step that takes no transaction away keeps HeldOK.
LEMMA HeldKept ==
    ASSUME HeldOK, open' => open, lease' => lease, setup' = setup, Held => Held'
    PROVE  HeldOK'
<1>1. BeginIsSafe' <=> BeginIsSafe
  BY DEF BeginIsSafe, Pooled, Faults
<1> QED
  BY <1>1 DEF HeldOK

\* Every step keeps it.
LEMMA HeldStep ==
    ASSUME Base, CloseOK, [Next]_vars
    PROVE  HeldOK'
<1>1. StackOK /\ FieldsOK /\ HeldOK
  BY DEF Base, CloseOK
<1>2. ASSUME LayersSame, UNCHANGED <<lease, setup>>, Held => Held'
      PROVE  HeldOK'
  BY <1>1, <1>2, HeldKept DEF LayersSame
<1>3. ASSUME setup' = setup, stack # <<>>, Throw, Top.pc # "dispatch",
             UNCHANGED <<depth, counter, pendingVars, connVars, committed, made>>
      PROVE  Held => Held'
  <2>1. \/ GoesOn("undo", {})
        \/ Ends(TRUE) /\ Top.kind \in {"bare", "flush"}
    BY <1>3, ThrowStep
  <2>2. "undo" \in Points \ {"begin", "dispatch"}
    BY DEF Points
  <2>3. CASE GoesOn("undo", {})
    BY <1>1, <1>3, <2>2, <2>3, HeldThrough
  <2>4. CASE Ends(TRUE) /\ Top.kind \in {"bare", "flush"}
    BY <1>1, <1>3, <2>4, HeldBelow DEF Holds
  <2> QED
    BY <2>1, <2>3, <2>4
<1>4. CASE setup' = setup /\ Change
  BY <1>1, <1>2, <1>4, ChangeStep, HeldOn
<1>5. CASE setup' = setup /\ (Flush \/ Commit \/ Transaction)
  <2>1. LayersSame /\ lease' = lease /\ \E kind, point, sp, todo : Begins(kind, point, sp, todo)
    BY <1>5, CallStep, Zenon
  <2> QED
    BY <1>1, <1>2, <1>5, <2>1, HeldOn
<1>6. CASE setup' = setup /\ Rollback
  <2>1. /\ Marks
        /\ (Disconnect /\ lease' = FALSE) \/ (LayersSame /\ lease' = lease)
    BY <1>6, RollbackStep
  <2>2. Held => Held'
    BY <1>1, <2>1, HeldOn
  <2>3. CASE Disconnect /\ lease' = FALSE
    BY <1>6, <2>2, <2>3, <1>1, HeldKept DEF Disconnect
  <2> QED
    BY <1>2, <1>6, <2>1, <2>2, <2>3
<1>7. CASE setup' = setup /\ Dispose
  <2>1. stack' = stack /\ LayersSame /\ lease' = FALSE
    BY <1>7, DisposeStep
  <2>2. Held => Held'
    BY <2>1 DEF Held
  <2> QED
    BY <1>7, <2>1, <2>2, <1>1, HeldKept DEF LayersSame
<1>8. CASE setup' = setup /\ (BodyReturns \/ BodyThrows \/ FlushFailed \/ ReleaseFailed)
  <2>1. LayersSame /\ lease' = lease /\ stack # <<>> /\ (Throw \/ GoesOn("before", {}))
    BY <1>8, BodyStep
  <2>2. Top.pc # "dispatch" /\ UNCHANGED <<depth, counter, pendingVars, connVars, committed, made>>
    BY <1>8 DEF BodyReturns, BodyThrows, FlushFailed, ReleaseFailed, At, InterceptorThrows
  <2>3. "before" \in Points \ {"begin", "dispatch"}
    BY DEF Points
  <2>4. GoesOn("before", {}) /\ Held => Held'
    BY <1>1, <2>1, <2>3, HeldThrough
  <2> QED
    BY <1>2, <1>3, <1>8, <2>1, <2>2, <2>4
<1>9. CASE setup' = setup /\ Begun
  <2>1. stack # <<>> /\ \/ Top.kind = "outer" /\ GoesOn("body", {})
                        \/ Top.kind = "commit" /\ GoesOn("before", {})
    BY <1>9, BegunStep
  <2>2. {"body", "before"} \subseteq Points \ {"begin", "dispatch"}
    BY DEF Points
  <2>3. Held'
    BY <1>1, <2>1, <2>2, HeldThrough
  <2> QED
    BY <2>3 DEF HeldOK
<1>10. CASE setup' = setup /\ (BeginFailed \/ SavepointFailed)
  <2>1. /\ stack # <<>> /\ Top.pc = "begin" /\ LayersSame /\ Ends(TRUE)
        /\ \/ BeginFailed /\ lease' \in {lease, Pooled}
           \/ lease' = lease
    BY <1>10, RefusedStep
  <2>2. Held => Held'
    BY <1>1, <2>1, HeldBelow DEF Holds
  <2>3. CASE lease' = lease
    BY <1>2, <1>10, <2>1, <2>2, <2>3
  <2>4. CASE BeginFailed /\ lease' = Pooled
    <3>1. "begin" \in Faults \/ open
      BY <2>4 DEF BeginFailed
    <3>2. BeginIsSafe' /\ lease' => Held'
      BY <1>1, <1>10, <2>2, <2>4, <3>1 DEF BeginIsSafe, HeldOK, Pooled, Faults
    <3>3. open' => Held'
      BY <1>1, <2>1, <2>2 DEF HeldOK, LayersSame
    <3> QED
      BY <3>2, <3>3 DEF HeldOK
  <2> QED
    BY <2>1, <2>3, <2>4
<1>11. CASE setup' = setup /\ SavepointSet
  <2>1. "body" \in Points \ {"begin", "dispatch"}
    BY DEF Points
  <2>2. stack # <<>> /\ GoesOn("body", {}) /\ UNCHANGED <<open, lease>>
    BY <1>11, SavepointStep
  <2>3. Held => Held'
    BY <1>1, <2>1, <2>2, HeldThrough
  <2> QED
    BY <1>11, <2>2, <2>3, <1>1, HeldKept
<1>12. CASE setup' = setup /\ (Flushed \/ Processed)
  <2>1. /\ stack # <<>> /\ UNCHANGED <<open, lease>> /\ Top.pc \in {"flush1", "links", "flush2"}
        /\ \E c \in Top.todo : GoesOn(Top.pc, Top.todo \ {c})
    BY <1>12, StatementStep
  <2>2. Top.pc \in Points \ {"begin", "dispatch"}
    BY <2>1 DEF Points
  <2>3. Held => Held'
    BY <1>1, <2>1, <2>2, HeldThrough
  <2> QED
    BY <1>12, <2>1, <2>3, <1>1, HeldKept
<1>13. CASE /\ setup' = setup
            /\ \/ Intercepted /\ UNCHANGED <<depth, counter, pendingVars, connVars, committed, made>>
               \/ stack # <<>> /\ PassOver
  <2>1. /\ stack # <<>> /\ LayersSame /\ lease' = lease
        /\ \/ \E point \in {"flush1", "end", "links", "flush2", "after"} : \E todo : GoesOn(point, todo)
           \/ Top.kind = "bare" /\ GoesOn("dispatch", {})
           \/ Top.kind = "flush" /\ Ends(FALSE)
           \/ Top.pc = "after" /\ Throw
    BY <1>13, PassStep
  <2>2. CASE \E point \in {"flush1", "end", "links", "flush2", "after"} : \E todo : GoesOn(point, todo)
    <3>1. PICK point \in {"flush1", "end", "links", "flush2", "after"} : \E todo : GoesOn(point, todo)
      BY <2>2
    <3>2. point \in Points \ {"begin", "dispatch"}
      BY <3>1 DEF Points
    <3>3. Held => Held'
      BY <1>1, <2>1, <3>1, <3>2, HeldThrough
    <3> QED
      BY <1>2, <1>13, <2>1, <3>3
  <2>3. CASE Top.kind = "bare" /\ GoesOn("dispatch", {})
    <3>1. ASSUME Held PROVE Held'
      <4>1. PICK i \in 1..Len(stack) : Holds(stack[i])
        BY <3>1 DEF Held
      <4>2. i # Len(stack)
        BY <2>3, <4>1 DEF Holds, Top
      <4> QED
        BY <2>3, <4>1, <4>2 DEF GoesOn, Held
    <3> QED
      BY <1>2, <1>13, <2>1, <3>1
  <2>4. CASE Top.kind = "flush" /\ Ends(FALSE)
    <3>1. Held => Held'
      BY <1>1, <2>1, <2>4, HeldBelow DEF Holds
    <3> QED
      BY <1>2, <1>13, <2>1, <3>1
  <2>5. CASE Top.pc = "after" /\ Throw
    <3>1. UNCHANGED <<depth, counter, pendingVars, connVars, committed, made>>
      BY <1>13, <2>5 DEF PassOver, At
    <3> QED
      BY <1>2, <1>3, <1>13, <2>1, <2>5, <3>1
  <2> QED
    BY <2>1, <2>2, <2>3, <2>4, <2>5
<1>14. CASE setup' = setup /\ Committed
  <2>1. open' = FALSE /\ lease' = FALSE
    BY <1>14, CommittedStep DEF Disconnect
  <2> QED
    BY <2>1 DEF HeldOK
<1>15. CASE setup' = setup /\ CommitFailed
  <2>1. stack # <<>> /\ GoesOn("undo", {}) /\ Top.kind \in {"outer", "commit"}
    BY <1>15, CommitFailedStep
  <2>2. "undo" \in Points \ {"begin", "dispatch"}
    BY DEF Points
  <2>3. Held'
    BY <1>1, <2>1, <2>2, HeldThrough
  <2> QED
    BY <2>3 DEF HeldOK
<1>16. CASE setup' = setup /\ SavepointReleased
  <2>1. stack # <<>> /\ Ends(FALSE) /\ Top.kind = "inner" /\ UNCHANGED <<open, lease>>
    BY <1>16, ReleasedStep
  <2>2. Held => Held'
    BY <1>1, <2>1, HeldBelow DEF Holds
  <2> QED
    BY <1>16, <2>1, <2>2, <1>1, HeldKept
<1>17. CASE setup' = setup /\ Dispatched
  <2>1. stack # <<>> /\ Ends(FALSE) /\ Top.pc = "dispatch" /\ LayersSame /\ lease' = lease
    BY <1>17, DispatchedStep
  <2>2. Held => Held'
    BY <1>1, <2>1, HeldBelow DEF Holds
  <2> QED
    BY <1>2, <1>17, <2>1, <2>2
<1>18. CASE setup' = setup /\ HandlerThrows
  <2>1. /\ stack # <<>> /\ LayersSame /\ lease' = lease /\ Top.pc = "dispatch"
        /\ GoesOn("undo", {}) \/ Ends(TRUE)
    BY <1>18, HandlerStep
  <2>2. "undo" \in Points \ {"begin", "dispatch"}
    BY DEF Points
  <2>3. Held => Held'
    BY <1>1, <2>1, <2>2, HeldThrough, HeldBelow DEF Holds
  <2> QED
    BY <1>2, <1>18, <2>1, <2>3
<1>19. CASE setup' = setup /\ (OuterUndone \/ CommitUndone)
  <2>1. open' = FALSE /\ lease' = FALSE
    BY <1>19, UndoneStep DEF Disconnect
  <2> QED
    BY <2>1 DEF HeldOK
<1>20. CASE setup' = setup /\ InnerUndone
  <2>1. stack # <<>> /\ Ends(TRUE) /\ Top.kind = "inner" /\ UNCHANGED <<open, lease>>
    BY <1>20, InnerUndoneStep
  <2>2. Held => Held'
    BY <1>1, <2>1, HeldBelow DEF Holds
  <2> QED
    BY <1>20, <2>1, <2>2, <1>1, HeldKept
<1>21. CASE UNCHANGED vars
  BY <1>1, <1>21 DEF vars, connVars, HeldOK, Held, BeginIsSafe, Pooled, Faults
<1> QED
  BY <1>4, <1>5, <1>6, <1>7, <1>8, <1>9, <1>10, <1>11, <1>12, <1>13, <1>14, <1>15, <1>16, <1>17, <1>18,
     <1>19, <1>20, <1>21, OrderlyCases
LEMMA CloseStep ==
    ASSUME CommitsEnd, Base, CloseOK, [Next]_vars
    PROVE  CloseOK'
BY HeldStep, NothingStray DEF CloseOK

\* Before any call nothing is open or leased.
LEMMA InitClose == Init => CloseOK
BY DEF Init, CloseOK, HeldOK

\* Every variable keeps its type, whatever user code calls and whatever throws.
THEOREM Typed == Spec => []TypeOK
<1>1. Init => Base
  BY InitBase
<1>2. Base /\ [Next]_vars => Base'
  BY BaseStep
<1>3. Base => TypeOK
  BY BaseIsTyped
<1> QED
  BY <1>1, <1>2, <1>3, PTL DEF Spec

\* A pool's BEGIN does not throw: a lease that was taken for one that does stays.
PoolsBegin == \A s \in Setups : s.executor \in {"pool", "strict pool"} => "begin" \notin s.faults

\* When no call runs, the connection is in no transaction and nothing is leased,
\* whatever user code calls (OrmSession.transaction, commit and rollback), if on a
\* pool BEGIN works and a COMMIT that fails has ended its transaction: the lease is
\* given back either way.
THEOREM NothingStaysOpen ==
    ASSUME PoolsBegin, CommitsEnd
    PROVE  Spec => []QuietIsClosed
<1>1. Init => Base /\ CloseOK
  BY InitBase, InitClose
<1>2. Base /\ CloseOK /\ [Next]_vars => (Base /\ CloseOK)'
  BY BaseStep, CloseStep
<1>3. Base /\ CloseOK => QuietIsClosed
  <2> SUFFICES ASSUME Base, CloseOK
               PROVE  QuietIsClosed
    OBVIOUS
  <2>1. BeginIsSafe
    BY DEF PoolsBegin, BeginIsSafe, Pooled, Faults, Base, FieldsOK
  <2>2. stack = <<>> => ~Held
    BY DEF Held
  <2> QED
    BY <2>1, <2>2, BaseIsTyped DEF QuietIsClosed, CloseOK, HeldOK
<1> QED
  BY <1>1, <1>2, <1>3, PTL DEF Spec
-----------------------------------------------------------------------------
(* The shape of the stack, when user code in a transaction leaves commit(),    *)
(* rollback() and, in handlers, the session alone.                             *)

Disciplined == \A s \in Setups : s.calls \cap {"rollback", "commit", "handler"} = {}

\* The points that a call of a kind can reach, with transactions or without.
Fits(kind, pc, transactions) ==
    /\ kind \in {"outer", "inner", "commit"} => transactions
    /\ kind = "bare" => ~transactions /\ pc \notin {"begin", "end", "undo"}
    /\ kind = "flush" => pc = "flush1"
    /\ kind = "commit" => pc # "body"
    /\ kind = "inner" => pc # "dispatch"

\* Calls nest in the bodies of transactions, nested transactions in an outer one.
ShapeOK ==
    \A i \in 1..Len(stack) :
        /\ Fits(stack[i].kind, stack[i].pc, Transactions)
        /\ i < Len(stack) => stack[i].pc = "body"
        /\ i = 1 => stack[i].kind # "inner"
        /\ i > 1 => stack[i].kind \notin {"outer", "commit"}

Deep == stack # <<>> /\ stack[1].kind = "outer"
Level == IF ~Deep THEN 0
         ELSE IF Top.pc = "begin" \/ Top.kind = "flush" THEN Len(stack) - 1 ELSE Len(stack)

\* The depth counts the transactions that have begun, and only an outermost one
\* that has begun can be marked.
DepthOK ==
    /\ depth = Level
    /\ rollbackOnly => Deep /\ stack[1].pc # "begin"

\* What the discipline leaves of the guards.
LEMMA DisciplineLeaves ==
    ASSUME Disciplined, FieldsOK
    PROVE  /\ UserRuns => stack = <<>> \/ (stack # <<>> /\ Top.pc = "body")
           /\ Commit => stack = <<>>
           /\ Rollback => stack = <<>> /\ "abandon" \in UserCalls
<1>1. "rollback" \notin UserCalls /\ "commit" \notin UserCalls /\ "handler" \notin UserCalls
  BY DEF Disciplined, FieldsOK, UserCalls
<1> QED
  BY <1>1 DEF UserRuns, Commit, Rollback, At

\* What the shape says of the innermost call.
LEMMA ShapeFacts ==
    ASSUME StackOK, ShapeOK, stack # <<>>
    PROVE  /\ Len(stack) \in Nat /\ Len(stack) > 0 /\ 1 \in 1..Len(stack) /\ Top = stack[Len(stack)]
           /\ Fits(Top.kind, Top.pc, Transactions)
           /\ Top.kind \in {"outer", "commit"} => Len(stack) = 1
           /\ Top.kind = "inner" => Deep /\ Len(stack) > 1
           /\ Top.kind = "bare" \/ Top.kind = "commit" => ~Deep
           /\ Len(stack) > 1 => /\ stack[1].pc = "body" /\ stack[Len(stack) - 1].pc = "body"
                                /\ stack[Len(stack) - 1].kind # "flush"
                                /\ stack[1].kind \in {"outer", "bare"}
<1>1. Len(stack) \in Nat /\ Len(stack) > 0 /\ Len(stack) \in 1..Len(stack) /\ Top = stack[Len(stack)]
  BY TopFrame
<1>2. 1 \in 1..Len(stack) /\ stack[1] \in Frames
  BY <1>1 DEF StackOK
<1>3. Fits(Top.kind, Top.pc, Transactions) /\ Fits(stack[1].kind, stack[1].pc, Transactions)
  BY <1>1, <1>2 DEF ShapeOK
<1>4. Top.kind \in {"outer", "commit"} => Len(stack) = 1
  <2>1. Len(stack) > 1 => Top.kind \notin {"outer", "commit"}
    BY <1>1 DEF ShapeOK
  <2> QED
    BY <1>1, <2>1
<1>5. Len(stack) > 1 => /\ stack[1].pc = "body" /\ stack[1].kind \in {"outer", "bare"}
                        /\ stack[Len(stack) - 1].pc = "body" /\ stack[Len(stack) - 1].kind # "flush"
  <2> SUFFICES ASSUME Len(stack) > 1
               PROVE  /\ stack[1].pc = "body" /\ stack[1].kind \in {"outer", "bare"}
                      /\ stack[Len(stack) - 1].pc = "body" /\ stack[Len(stack) - 1].kind # "flush"
    OBVIOUS
  <2>1. Len(stack) - 1 \in 1..Len(stack) /\ Len(stack) - 1 < Len(stack)
    BY <1>1
  <2>2. stack[Len(stack) - 1].pc = "body" /\ Fits(stack[Len(stack) - 1].kind, "body", Transactions)
    BY <2>1 DEF ShapeOK
  <2>3. stack[1].pc = "body" /\ stack[1].kind # "inner"
    BY <1>2 DEF ShapeOK
  <2>4. stack[1].kind \in Kinds
    BY <1>2 DEF Frames
  <2> QED
    BY <1>3, <2>2, <2>3, <2>4 DEF Fits, Kinds
<1>6. Top.kind = "inner" => Deep /\ Len(stack) > 1
  <2> SUFFICES ASSUME Top.kind = "inner"
               PROVE  Deep /\ Len(stack) > 1
    OBVIOUS
  <2>1. Len(stack) > 1
    BY <1>1 DEF ShapeOK
  <2>2. Transactions
    BY <1>3 DEF Fits
  <2> QED
    BY <1>3, <1>5, <2>1, <2>2 DEF Deep, Fits
<1>7. Top.kind = "bare" \/ Top.kind = "commit" => ~Deep
  <2>1. CASE Top.kind = "bare"
    BY <1>3, <2>1 DEF Fits, Deep
  <2>2. CASE Top.kind = "commit"
    BY <1>1, <1>4, <2>2 DEF Deep
  <2> QED
    BY <2>1, <2>2
<1> QED
  BY <1>1, <1>2, <1>3, <1>4, <1>5, <1>6, <1>7

\* A call begins in a body, or outside of every call.
LEMMA ShapeBegins ==
    ASSUME StackOK, ShapeOK, setup' = setup, NEW kind \in Kinds, NEW point, NEW sp, NEW todo,
           Begins(kind, point, sp, todo), Fits(kind, point, Transactions),
           \/ stack = <<>> /\ kind # "inner" /\ (kind = "outer" => point = "begin")
           \/ /\ stack # <<>> /\ Top.pc = "body" /\ kind \notin {"outer", "commit"}
              /\ kind = "inner" => point = "begin"
    PROVE  /\ ShapeOK' /\ Level' = Level
           /\ Deep /\ stack[1].pc # "begin" => (Deep /\ stack[1].pc # "begin")'
<1>1. Len(stack) \in Nat /\ (stack = <<>> <=> Len(stack) = 0)
  BY DEF StackOK
<1>2. Len(stack') = Len(stack) + 1 /\ \A i \in 1..Len(stack) : stack'[i] = stack[i]
  BY DEF Begins
<1>3. /\ stack'[Len(stack) + 1].kind = kind /\ stack'[Len(stack) + 1].pc = point
      /\ Top' = stack'[Len(stack) + 1] /\ stack' # <<>>
  BY <1>1, <1>2 DEF Begins, Top
<1>4. Transactions' = Transactions
  BY DEF Transactions
<1>5. ShapeOK'
  <2> SUFFICES ASSUME NEW i \in 1..Len(stack')
               PROVE  /\ Fits(stack'[i].kind, stack'[i].pc, Transactions)
                      /\ i < Len(stack') => stack'[i].pc = "body"
                      /\ i = 1 => stack'[i].kind # "inner"
                      /\ i > 1 => stack'[i].kind \notin {"outer", "commit"}
    BY <1>4 DEF ShapeOK
  <2>1. CASE i = Len(stack) + 1
    BY <1>1, <1>2, <1>3, <2>1
  <2>2. CASE i \in 1..Len(stack)
    <3>1. stack'[i] = stack[i] /\ i <= Len(stack)
      BY <1>2, <2>2
    <3>2. stack[i].pc = "body"
      <4>1. stack # <<>> /\ Top.pc = "body"
        BY <1>1, <2>2
      <4> QED
        BY <1>1, <2>2, <4>1 DEF ShapeOK, Top
    <3> QED
      BY <2>2, <3>1, <3>2 DEF ShapeOK
  <2> QED
    BY <1>1, <1>2, <2>1, <2>2
<1>6. CASE stack = <<>>
  <2>1. Len(stack') = 1 /\ stack'[1].kind = kind /\ stack'[1].pc = point /\ Top'.pc = point
    BY <1>1, <1>2, <1>3, <1>6
  <2>2. ~Deep /\ Level = 0
    BY <1>6 DEF Deep, Level
  <2>3. Deep' => point = "begin"
    BY <1>6, <2>1 DEF Deep
  <2>4. Level' = 0
    BY <2>1, <2>3 DEF Level
  <2> QED
    BY <1>5, <2>2, <2>4
<1>7. CASE stack # <<>>
  <2>1. 1 \in 1..Len(stack) /\ stack'[1] = stack[1]
    BY <1>1, <1>2, <1>7
  <2>2. Deep' <=> Deep
    BY <1>3, <1>7, <2>1 DEF Deep
  <2>3. Deep => Level = Len(stack)
    <3>1. Fits(Top.kind, Top.pc, Transactions) /\ Top.pc = "body"
      BY <1>7, ShapeFacts
    <3> QED
      BY <3>1 DEF Level, Fits
  <2>4. Deep => Level' = Len(stack)
    <3> SUFFICES ASSUME Deep PROVE Level' = Len(stack)
      OBVIOUS
    <3>1. Transactions
      BY <2>1 DEF Deep, ShapeOK, Fits
    <3>2. Top'.pc = "begin" \/ Top'.kind = "flush" \/ kind \notin {"inner", "flush", "bare"}
      BY <1>3, <1>7, <3>1 DEF Fits
    <3> QED
      BY <1>1, <1>2, <1>3, <1>7, <2>2, <3>1, <3>2 DEF Level, Kinds, Fits
  <2>5. ~Deep => Level' = Level
    BY <2>2 DEF Level
  <2> QED
    BY <1>5, <2>1, <2>2, <2>3, <2>4, <2>5
<1> QED
  BY <1>6, <1>7
\* A call goes on.
LEMMA ShapeGoesOn ==
    ASSUME StackOK, ShapeOK, setup' = setup, stack # <<>>, NEW point, NEW todo,
           GoesOn(point, todo), Fits(Top.kind, point, Transactions), point # "begin"
    PROVE  /\ ShapeOK' /\ stack' # <<>> /\ stack'[1].kind = stack[1].kind
           /\ Level' = IF Top.pc = "begin" /\ Deep THEN Level + 1 ELSE Level
           /\ Deep /\ stack[1].pc # "begin" => (Deep /\ stack[1].pc # "begin")'
<1>1. /\ Len(stack) \in Nat /\ Len(stack) > 0 /\ Len(stack) \in 1..Len(stack) /\ 1 \in 1..Len(stack)
      /\ Top = stack[Len(stack)]
  BY TopFrame
<1>2. Len(stack') = Len(stack) /\ stack' # <<>>
  BY <1>1 DEF GoesOn
<1>3. \A i \in 1..Len(stack) :
        stack'[i].kind = stack[i].kind /\ stack'[i].pc = (IF i = Len(stack) THEN point ELSE stack[i].pc)
  BY <1>1 DEF GoesOn
<1>4. Transactions' = Transactions
  BY DEF Transactions
<1>5. ShapeOK'
  <2> SUFFICES ASSUME NEW i \in 1..Len(stack)
               PROVE  /\ Fits(stack'[i].kind, stack'[i].pc, Transactions)
                      /\ i < Len(stack) => stack'[i].pc = "body"
                      /\ i = 1 => stack'[i].kind # "inner"
                      /\ i > 1 => stack'[i].kind \notin {"outer", "commit"}
    BY <1>2, <1>4 DEF ShapeOK
  <2>1. CASE i = Len(stack)
    BY <1>1, <1>3, <2>1 DEF ShapeOK
  <2>2. CASE i # Len(stack)
    BY <1>3, <2>2 DEF ShapeOK
  <2> QED
    BY <2>1, <2>2
<1>6. Deep' <=> Deep
  BY <1>1, <1>2, <1>3 DEF Deep
<1>7. Top'.kind = Top.kind /\ Top'.pc = point
  BY <1>1, <1>2, <1>3 DEF Top
<1>8. Level' = IF Top.pc = "begin" /\ Deep THEN Level + 1 ELSE Level
  <2>1. Top.kind = "flush" => Top.pc # "begin"
    BY ShapeFacts DEF Fits
  <2>2. CASE ~Deep
    BY <1>6, <2>2 DEF Level
  <2>3. CASE Deep /\ Top.pc = "begin"
    BY <1>1, <1>2, <1>6, <1>7, <2>1, <2>3 DEF Level
  <2>4. CASE Deep /\ Top.pc # "begin"
    BY <1>1, <1>2, <1>6, <1>7, <2>4 DEF Level
  <2> QED
    BY <2>2, <2>3, <2>4
<1> QED
  BY <1>1, <1>2, <1>3, <1>5, <1>6, <1>8

\* A call is over.
LEMMA ShapeEnds ==
    ASSUME StackOK, ShapeOK, setup' = setup, stack # <<>>, NEW failed \in BOOLEAN, Ends(failed)
    PROVE  /\ ShapeOK'
           /\ Level' = IF Top.kind \in {"outer", "inner"} /\ Top.pc # "begin" THEN Level - 1 ELSE Level
           /\ Len(stack) > 1 => stack' # <<>> /\ Top'.pc = "body" /\ stack'[1].kind = stack[1].kind
                                /\ stack'[1].pc = stack[1].pc
           /\ Len(stack) = 1 => stack' = <<>> /\ Level' = 0
<1>1. /\ Len(stack) \in Nat /\ Len(stack) > 0 /\ Len(stack) \in 1..Len(stack)
      /\ Top = stack[Len(stack)]
  BY TopFrame
<1>2. Len(stack') = Len(stack) - 1
  BY DEF Ends
<1>3. \A i \in 1..Len(stack') :
        i \in 1..Len(stack) /\ i < Len(stack) /\ stack'[i].kind = stack[i].kind /\ stack'[i].pc = stack[i].pc
  BY <1>1, <1>2 DEF Ends
<1>4. Transactions' = Transactions
  BY DEF Transactions
<1>5. ShapeOK'
  <2> SUFFICES ASSUME NEW i \in 1..Len(stack')
               PROVE  /\ Fits(stack'[i].kind, stack'[i].pc, Transactions)
                      /\ i < Len(stack') => stack'[i].pc = "body"
                      /\ i = 1 => stack'[i].kind # "inner"
                      /\ i > 1 => stack'[i].kind \notin {"outer", "commit"}
    BY <1>4 DEF ShapeOK
  <2> QED
    BY <1>3 DEF ShapeOK
<1>6. CASE Len(stack) = 1
  <2>1. Len(stack') = 0
    BY <1>2, <1>6
  <2>2. stack' = <<>>
    BY <2>1 DEF Ends
  <2>3. Level' = 0
    BY <2>2 DEF Level, Deep
  <2>4. Level = IF Top.kind = "outer" /\ Top.pc # "begin" THEN 1 ELSE 0
    BY <1>1, <1>6 DEF Level, Deep
  <2>5. Top.kind # "inner"
    BY <1>6, ShapeFacts
  <2> QED
    BY <1>5, <1>6, <2>2, <2>3, <2>4, <2>5
<1>7. CASE Len(stack) > 1
  <2>1. Len(stack) - 1 \in 1..Len(stack') /\ 1 \in 1..Len(stack') /\ stack' # <<>>
    BY <1>1, <1>2, <1>7
  <2>2. /\ Top'.kind = stack[Len(stack) - 1].kind /\ Top'.pc = stack[Len(stack) - 1].pc
        /\ stack'[1].kind = stack[1].kind /\ stack'[1].pc = stack[1].pc
    BY <1>2, <1>3, <2>1 DEF Top
  <2>3. Top'.pc = "body" /\ Top'.kind # "flush"
    BY <1>7, <2>2, ShapeFacts
  <2>4. Deep' <=> Deep
    BY <2>1, <2>2 DEF Deep
  <2>5. Deep => Level' = Len(stack) - 1
    BY <1>2, <2>3, <2>4 DEF Level
  <2>6. Deep => Level = IF Top.kind = "inner" /\ Top.pc # "begin" THEN Len(stack) ELSE Len(stack) - 1
    <3> SUFFICES ASSUME Deep
                 PROVE  Level = IF Top.kind = "inner" /\ Top.pc # "begin" THEN Len(stack) ELSE Len(stack) - 1
      OBVIOUS
    <3>1. Top.kind \in {"inner", "flush"}
      <4>1. Top.kind \in Kinds
        BY TopFrame DEF Frames
      <4>2. Top.kind \notin {"outer", "commit", "bare"}
        BY <1>7, ShapeFacts
      <4> QED
        BY <4>1, <4>2 DEF Kinds
    <3> QED
      BY <3>1 DEF Level
  <2>7. ~Deep => Level' = 0 /\ Level = 0 /\ Top.kind # "inner"
    BY <2>4, ShapeFacts DEF Level
  <2>8. Top.kind # "outer"
    BY <1>7, ShapeFacts
  <2> QED
    BY <1>1, <1>5, <1>7, <2>1, <2>2, <2>3, <2>5, <2>6, <2>7, <2>8
<1> QED
  BY <1>1, <1>6, <1>7

\* A step that leaves the kinds and the points of the calls alone.
LEMMA ShapeSame ==
    ASSUME StackOK, ShapeOK, setup' = setup, Marks \/ stack' = stack
    PROVE  /\ ShapeOK' /\ Level' = Level
           /\ Deep /\ stack[1].pc # "begin" => (Deep /\ stack[1].pc # "begin")'
<1>1. Transactions' = Transactions /\ Len(stack) \in Nat
  BY DEF Transactions, StackOK
<1>2. /\ Len(stack') = Len(stack)
      /\ \A i \in 1..Len(stack) : stack'[i].kind = stack[i].kind /\ stack'[i].pc = stack[i].pc
  BY DEF Marks
<1>3. ShapeOK'
  BY <1>1, <1>2 DEF ShapeOK
<1>4. stack' = <<>> <=> stack = <<>>
  <2>1. CASE stack' = stack
    BY <2>1
  <2>2. CASE Marks
    <3>1. stack = <<>> <=> Len(stack) = 0
      BY DEF StackOK
    <3>2. stack' = <<>> <=> Len(stack') = 0
      BY <2>2 DEF Marks
    <3> QED
      BY <1>2, <3>1, <3>2
  <2> QED
    BY <2>1, <2>2
<1>5. CASE stack = <<>>
  BY <1>3, <1>4, <1>5 DEF Level, Deep
<1>6. CASE stack # <<>>
  <2>1. Len(stack) \in 1..Len(stack) /\ 1 \in 1..Len(stack)
    BY <1>6, TopFrame
  <2>2. Top'.kind = Top.kind /\ Top'.pc = Top.pc /\ stack'[1].kind = stack[1].kind /\ stack'[1].pc = stack[1].pc
    BY <1>2, <2>1 DEF Top
  <2> QED
    BY <1>2, <1>3, <1>4, <2>2 DEF Level, Deep
<1> QED
  BY <1>3, <1>5, <1>6
FrameworkOK == ShapeOK /\ DepthOK

\* Nothing but the stack and the depth matter to the framework: steps that leave
\* the level, the depth and the mark alone.
LEMMA FrameworkSame ==
    ASSUME FrameworkOK, ShapeOK', Level' = Level, depth' = depth, rollbackOnly' => rollbackOnly,
           Deep /\ stack[1].pc # "begin" => (Deep /\ stack[1].pc # "begin")'
    PROVE  FrameworkOK'
BY DEF FrameworkOK, DepthOK

\* An error inside a call.
LEMMA FrameworkThrow ==
    ASSUME Base, FrameworkOK, setup' = setup, stack # <<>>, Throw, Top.pc # "begin",
           UNCHANGED <<depth, counter, pendingVars, connVars, committed, made>>
    PROVE  FrameworkOK'
<1>1. StackOK /\ ShapeOK /\ DepthOK /\ rollbackOnly \in BOOLEAN
  BY DEF Base, FrameworkOK, FieldsOK
<1>2. \/ /\ Top.kind \in {"outer", "inner", "commit"} /\ GoesOn("undo", {})
         /\ rollbackOnly' = (rollbackOnly \/ Top.kind = "inner")
      \/ /\ Top.kind \in {"bare", "flush"} /\ Ends(TRUE) /\ rollbackOnly' = rollbackOnly
  BY ThrowStep
<1>3. Fits(Top.kind, Top.pc, Transactions) /\ (Top.kind = "inner" => Deep /\ Len(stack) > 1)
      /\ (Len(stack) > 1 => stack[1].pc = "body")
  BY <1>1, ShapeFacts
<1>4. CASE /\ Top.kind \in {"outer", "inner", "commit"} /\ GoesOn("undo", {})
           /\ rollbackOnly' = (rollbackOnly \/ Top.kind = "inner")
  <2>1. Fits(Top.kind, "undo", Transactions)
    BY <1>3, <1>4 DEF Fits
  <2>2. /\ ShapeOK' /\ Level' = Level
        /\ Deep /\ stack[1].pc # "begin" => (Deep /\ stack[1].pc # "begin")'
    BY <1>1, <1>4, <2>1, ShapeGoesOn
  <2>3. rollbackOnly' => Deep /\ stack[1].pc # "begin"
    BY <1>1, <1>3, <1>4 DEF DepthOK
  <2>4. depth' = depth
    OBVIOUS
  <2> QED
    BY <1>1, <2>2, <2>3, <2>4 DEF FrameworkOK, DepthOK
<1>5. CASE Top.kind \in {"bare", "flush"} /\ Ends(TRUE) /\ rollbackOnly' = rollbackOnly
  <2>1. /\ ShapeOK' /\ Level' = Level
        /\ Len(stack) > 1 => stack' # <<>> /\ stack'[1].kind = stack[1].kind /\ stack'[1].pc = stack[1].pc
    BY <1>1, <1>5, ShapeEnds
  <2>2. Len(stack) = 1 => ~Deep
    BY <1>5, TopFrame, <1>1 DEF Deep
  <2>3. Deep /\ stack[1].pc # "begin" => (Deep /\ stack[1].pc # "begin")'
    <3>1. Len(stack) = 1 \/ Len(stack) > 1
      BY <1>1, TopFrame
    <3> QED
      BY <2>1, <2>2, <3>1 DEF Deep
  <2> QED
    BY <1>5, <2>1, <2>3, FrameworkSame
<1> QED
  BY <1>2, <1>4, <1>5

\* The calls that begin.
LEMMA FrameworkCall ==
    ASSUME Disciplined, Base, FrameworkOK, setup' = setup, Flush \/ Commit \/ Transaction
    PROVE  FrameworkOK'
<1>1. StackOK /\ ShapeOK /\ DepthOK /\ FieldsOK
  BY DEF Base, FrameworkOK
<1>2. stack # <<>> => Fits(Top.kind, Top.pc, Transactions)
  BY <1>1, ShapeFacts
<1>3. {"flush", "commit", "bare", "outer", "inner"} \subseteq Kinds
  BY DEF Kinds
<1>4. stack = <<>> => ~Deep /\ Level = 0
  BY DEF Deep, Level
<1>5. stack = <<>> \/ (stack # <<>> /\ Top.pc = "body")
  BY <1>1, DisciplineLeaves DEF Flush, Transaction, At
<1>6. ASSUME NEW kind \in Kinds, NEW point, NEW sp, NEW todo, Begins(kind, point, sp, todo),
             Fits(kind, point, Transactions),
             \/ stack = <<>> /\ kind # "inner" /\ (kind = "outer" => point = "begin")
             \/ /\ stack # <<>> /\ Top.pc = "body" /\ kind \notin {"outer", "commit"}
                /\ kind = "inner" => point = "begin",
             rollbackOnly' => rollbackOnly
      PROVE  FrameworkOK'
  <2>1. /\ ShapeOK' /\ Level' = Level
        /\ Deep /\ stack[1].pc # "begin" => (Deep /\ stack[1].pc # "begin")'
    BY <1>1, <1>6, ShapeBegins
  <2>2. depth' = depth
    BY CallStep
  <2> QED
    BY <1>6, <2>1, <2>2, FrameworkSame
<1>7. CASE Flush /\ Begins("flush", "flush1", 0, dirty) /\ rollbackOnly' = rollbackOnly
  <2>1. Fits("flush", "flush1", Transactions)
    BY DEF Fits
  <2> QED
    BY <1>3, <1>5, <1>6, <1>7, <2>1
<1>8. CASE Commit /\ Transactions /\ Begins("commit", "begin", 0, {}) /\ rollbackOnly' = rollbackOnly
  <2>1. Fits("commit", "begin", Transactions) /\ stack = <<>>
    BY <1>1, <1>8, DisciplineLeaves DEF Fits
  <2> QED
    BY <1>3, <1>6, <1>8, <2>1
<1>9. CASE Commit /\ ~Transactions /\ Begins("bare", "before", 0, {}) /\ rollbackOnly' = rollbackOnly
  <2>1. Fits("bare", "before", Transactions) /\ stack = <<>>
    BY <1>1, <1>9, DisciplineLeaves DEF Fits
  <2> QED
    BY <1>3, <1>6, <1>9, <2>1
<1>10. CASE ~Transactions /\ Begins("bare", "body", 0, {}) /\ rollbackOnly' = rollbackOnly
  <2>1. Fits("bare", "body", Transactions)
    BY <1>10 DEF Fits
  <2> QED
    BY <1>3, <1>5, <1>6, <1>10, <2>1
<1>11. CASE Transactions /\ depth = 0 /\ Begins("outer", "begin", 0, {}) /\ rollbackOnly' = FALSE
  <2>1. Fits("outer", "begin", Transactions)
    BY <1>11 DEF Fits
  <2>2. stack = <<>>
    <3> SUFFICES ASSUME stack # <<>> PROVE FALSE
      OBVIOUS
    <3>1. Top.pc = "body" /\ Fits(Top.kind, Top.pc, Transactions) /\ 1 \in 1..Len(stack)
      BY <1>2, <1>5, <1>1, ShapeFacts
    <3>2. Deep
      <4>1. Top.kind \in Kinds
        BY <1>1, TopFrame DEF Frames
      <4>2. CASE Len(stack) = 1
        <5>1. Top.kind # "inner" /\ Top = stack[1]
          BY <1>1, <3>1, <4>2 DEF ShapeOK, Top
        <5>2. Top.kind \notin {"commit", "bare", "flush"}
          BY <1>11, <3>1 DEF Fits
        <5>3. Top.kind = "outer"
          BY <4>1, <5>1, <5>2 DEF Kinds
        <5>4. stack # <<>>
          OBVIOUS
        <5> QED
          BY <5>1, <5>3, <5>4 DEF Deep
      <4>3. CASE Len(stack) > 1
        <5>1. stack[1].kind \in {"outer", "bare"}
          BY <1>1, <4>3, ShapeFacts
        <5>2. Fits(stack[1].kind, stack[1].pc, Transactions)
          BY <1>1, <3>1 DEF ShapeOK
        <5> QED
          <6>1. stack[1].kind # "bare"
            BY <1>11, <5>2 DEF Fits
          <6>2. stack # <<>>
            OBVIOUS
          <6> QED
            BY <5>1, <6>1, <6>2 DEF Deep
      <4>4. Len(stack) = 1 \/ Len(stack) > 1
        <5>1. Len(stack) \in Nat /\ Len(stack) > 0
          BY <1>1, TopFrame
        <5> QED
          BY <5>1
      <4> QED
        BY <4>2, <4>3, <4>4
    <3>3. Level > 0
      BY <1>1, <3>1, <3>2, TopFrame DEF Level, Fits
    <3> QED
      BY <1>1, <1>11, <3>3 DEF DepthOK
  <2> QED
    BY <1>3, <1>6, <1>11, <2>1, <2>2
<1>12. CASE Transactions /\ depth > 0 /\ Begins("inner", "begin", counter', {}) /\ rollbackOnly' = rollbackOnly
  <2>1. Fits("inner", "begin", Transactions)
    BY <1>12 DEF Fits
  <2>2. stack # <<>>
    BY <1>1, <1>4, <1>12 DEF DepthOK
  <2> QED
    BY <1>3, <1>5, <1>6, <1>12, <2>1, <2>2
<1> QED
  BY <1>7, <1>8, <1>9, <1>10, <1>11, <1>12, CallStep, Zenon
\* Every step keeps the framework.
LEMMA FrameworkStep ==
    ASSUME Disciplined, Base, CloseOK, FrameworkOK, [Next]_vars
    PROVE  FrameworkOK'
<1>1. StackOK /\ ShapeOK /\ DepthOK /\ FieldsOK /\ rollbackOnly \in BOOLEAN
  BY DEF Base, FrameworkOK, FieldsOK
<1>2. ASSUME stack # <<>>
      PROVE  /\ Fits(Top.kind, Top.pc, Transactions) /\ Top.kind \in Kinds
             /\ Top.kind \in {"outer", "commit"} => Len(stack) = 1
             /\ Top.kind = "inner" => Deep /\ Len(stack) > 1 /\ stack[1].pc = "body"
             /\ Top.kind = "bare" \/ Top.kind = "commit" => ~Deep
             /\ Len(stack) = 1 => Top = stack[1]
             /\ Len(stack) = 1 \/ Len(stack) > 1
  <2>1. Top.kind \in Kinds
    BY <1>1, <1>2, TopFrame DEF Frames
  <2>2. Len(stack) = 1 => Top = stack[1]
    BY DEF Top
  <2>3. Len(stack) = 1 \/ Len(stack) > 1
    <3>1. Len(stack) \in Nat /\ Len(stack) > 0
      BY <1>1, <1>2, TopFrame
    <3> QED
      BY <3>1
  <2> QED
    BY <1>1, <1>2, <2>1, <2>2, <2>3, ShapeFacts
<1>3. ASSUME setup' = setup, stack # <<>>, NEW point, NEW todo, GoesOn(point, todo), point # "begin",
             Fits(Top.kind, point, Transactions), rollbackOnly' => rollbackOnly,
             depth' = IF Top.pc = "begin" /\ Deep THEN depth + 1 ELSE depth
      PROVE  FrameworkOK'
  <2>1. /\ ShapeOK' /\ Level' = IF Top.pc = "begin" /\ Deep THEN Level + 1 ELSE Level
        /\ Deep /\ stack[1].pc # "begin" => (Deep /\ stack[1].pc # "begin")'
    BY <1>1, <1>3, ShapeGoesOn
  <2> QED
    BY <1>1, <1>3, <2>1 DEF FrameworkOK, DepthOK
<1>4. ASSUME setup' = setup, stack # <<>>, NEW failed \in BOOLEAN, Ends(failed),
             Top.kind \notin {"outer", "inner"} \/ Top.pc = "begin", depth' = depth, rollbackOnly' => rollbackOnly
      PROVE  FrameworkOK'
  <2>1. /\ ShapeOK' /\ Level' = Level
        /\ Len(stack) > 1 => stack' # <<>> /\ stack'[1].kind = stack[1].kind /\ stack'[1].pc = stack[1].pc
    BY <1>1, <1>4, ShapeEnds
  <2>2. Deep /\ stack[1].pc # "begin" => (Deep /\ stack[1].pc # "begin")'
    <3>1. Len(stack) = 1 => ~(Deep /\ stack[1].pc # "begin")
      BY <1>2, <1>4 DEF Deep
    <3> QED
      BY <1>2, <1>4, <2>1, <3>1 DEF Deep
  <2> QED
    BY <1>4, <2>1, <2>2, FrameworkSame
<1>5. ASSUME setup' = setup, stack # <<>>, NEW failed \in BOOLEAN, Ends(failed),
             Top.kind \in {"outer", "inner"}, Top.pc # "begin", Leave(depth, rollbackOnly)
      PROVE  FrameworkOK'
  <2>1. /\ ShapeOK' /\ Level' = Level - 1
        /\ Len(stack) > 1 => stack' # <<>> /\ stack'[1].kind = stack[1].kind /\ stack'[1].pc = stack[1].pc
    BY <1>1, <1>5, ShapeEnds
  <2>2. depth = Level /\ Level > 0
    <3>1. Deep
      BY <1>2, <1>5 DEF Deep
    <3>2. Level = Len(stack) /\ Len(stack) > 0
      BY <1>1, <1>5, <3>1, TopFrame DEF Level
    <3> QED
      BY <1>1, <3>2 DEF DepthOK
  <2>3. /\ depth' = (IF depth > 0 THEN depth - 1 ELSE 0)
        /\ rollbackOnly' = (IF depth' = 0 THEN FALSE ELSE rollbackOnly)
    BY <1>5 DEF Leave
  <2>4. depth' = Level'
    BY <1>1, <2>1, <2>2, <2>3 DEF FieldsOK
  <2>5. CASE Top.kind = "outer"
    <3>1. Len(stack) = 1 /\ Level' = 0
      BY <1>1, <1>2, <1>5, <2>5, ShapeEnds
    <3>2. ~rollbackOnly'
      BY <2>3, <2>4, <3>1
    <3> QED
      BY <2>1, <2>4, <3>2 DEF FrameworkOK, DepthOK
  <2>6. CASE Top.kind = "inner"
    <3>1. Deep' /\ stack'[1].pc # "begin"
      BY <1>2, <1>5, <2>1, <2>6 DEF Deep
    <3> QED
      BY <2>1, <2>4, <3>1 DEF FrameworkOK, DepthOK
  <2> QED
    BY <1>5, <2>5, <2>6
<1>6. CASE setup' = setup /\ Change
  <2>1. Marks /\ depth' = depth /\ rollbackOnly' = rollbackOnly
    BY <1>6, ChangeStep
  <2> QED
    BY <1>1, <1>6, <2>1, ShapeSame, FrameworkSame
<1>7. CASE setup' = setup /\ (Flush \/ Commit \/ Transaction)
  BY <1>7, FrameworkCall
<1>8. CASE setup' = setup /\ Rollback
  <2>1. stack = <<>> /\ Marks
    BY <1>1, <1>8, DisciplineLeaves, RollbackStep
  <2>2. depth = 0 /\ ~rollbackOnly
    BY <1>1, <2>1 DEF DepthOK, Level, Deep
  <2>3. depth' = 0 /\ ~rollbackOnly'
    BY <1>8, <2>2 DEF Rollback, ResetSession, sessionVars
  <2> QED
    BY <1>1, <1>8, <2>1, <2>2, <2>3, ShapeSame, FrameworkSame
<1>9. CASE setup' = setup /\ Dispose
  <2>1. stack' = stack /\ depth' = depth /\ rollbackOnly' = rollbackOnly
    BY <1>9, DisposeStep
  <2> QED
    BY <1>1, <1>9, <2>1, ShapeSame, FrameworkSame
<1>10. CASE setup' = setup /\ (BodyReturns \/ BodyThrows \/ FlushFailed \/ ReleaseFailed)
  <2>1. /\ stack # <<>> /\ depth' = depth
        /\ Throw \/ (BodyReturns /\ GoesOn("before", {}) /\ rollbackOnly' = rollbackOnly)
    BY <1>10, BodyStep
  <2>2. Top.pc # "begin" /\ UNCHANGED <<depth, counter, pendingVars, connVars, committed, made>>
    BY <1>10 DEF BodyReturns, BodyThrows, FlushFailed, ReleaseFailed, At, InterceptorThrows
  <2>3. CASE Throw
    BY <1>10, <2>1, <2>2, <2>3, FrameworkThrow
  <2>4. CASE BodyReturns /\ GoesOn("before", {}) /\ rollbackOnly' = rollbackOnly
    <3>1. Fits(Top.kind, "before", Transactions)
      BY <1>2, <2>1, <2>4 DEF Fits, BodyReturns, At
    <3> QED
      BY <1>3, <1>10, <2>1, <2>2, <2>4, <3>1
  <2> QED
    BY <2>1, <2>3, <2>4
<1>11. CASE setup' = setup /\ Begun
  <2>1. /\ stack # <<>> /\ Top.pc = "begin" /\ rollbackOnly' = rollbackOnly
        /\ \/ Top.kind = "outer" /\ GoesOn("body", {}) /\ depth' = depth + 1
           \/ Top.kind = "commit" /\ GoesOn("before", {}) /\ depth' = depth
    BY <1>11, BegunStep
  <2>2. Top.kind = "outer" => Deep /\ Fits(Top.kind, "body", Transactions)
    BY <1>2, <2>1 DEF Deep, Fits
  <2>3. Top.kind = "commit" => ~Deep /\ Fits(Top.kind, "before", Transactions)
    BY <1>2, <2>1 DEF Fits
  <2> QED
    BY <1>3, <1>11, <2>1, <2>2, <2>3
<1>12. CASE setup' = setup /\ (BeginFailed \/ SavepointFailed)
  <2>1. /\ stack # <<>> /\ Top.pc = "begin" /\ Ends(TRUE)
        /\ UNCHANGED <<depth, rollbackOnly>>
    BY <1>12, RefusedStep
  <2> QED
    BY <1>4, <1>12, <2>1
<1>13. CASE setup' = setup /\ SavepointSet
  <2>1. /\ stack # <<>> /\ Top.pc = "begin" /\ Top.kind = "inner" /\ GoesOn("body", {})
        /\ depth' = depth + 1 /\ rollbackOnly' = rollbackOnly
    BY <1>13, SavepointStep
  <2>2. Deep /\ Fits(Top.kind, "body", Transactions)
    BY <1>2, <2>1 DEF Fits
  <2> QED
    BY <1>3, <1>13, <2>1, <2>2
<1>14. CASE setup' = setup /\ (Flushed \/ Processed)
  <2>1. /\ stack # <<>> /\ Top.pc \in {"flush1", "links", "flush2"} /\ UNCHANGED <<depth, rollbackOnly>>
        /\ \E todo : GoesOn(Top.pc, todo)
    BY <1>14, StatementStep
  <2> QED
    BY <1>2, <1>3, <1>14, <2>1
<1>15. CASE /\ setup' = setup
            /\ \/ Intercepted /\ UNCHANGED <<depth, counter, pendingVars, connVars, committed, made>>
               \/ stack # <<>> /\ PassOver
  <2>1. /\ stack # <<>> /\ depth' = depth
        /\ \/ Top.pc = "before" /\ GoesOn("flush1", dirty) /\ rollbackOnly' = rollbackOnly
           \/ Top.pc = "after" /\ Throw
           \/ Top.pc = "after" /\ GoesOn("dispatch", {}) /\ Top.kind = "bare" /\ rollbackOnly' = rollbackOnly
           \/ Top.pc = "after" /\ GoesOn("end", {}) /\ Top.kind # "bare" /\ rollbackOnly' = rollbackOnly
           \/ Top.pc = "flush1" /\ Top.kind # "flush" /\ GoesOn("links", links) /\ rollbackOnly' = rollbackOnly
           \/ Top.pc = "flush1" /\ Top.kind = "flush" /\ Ends(FALSE) /\ rollbackOnly' = rollbackOnly
           \/ Top.pc = "links" /\ GoesOn("flush2", dirty) /\ rollbackOnly' = rollbackOnly
           \/ Top.pc = "flush2" /\ GoesOn("after", {}) /\ rollbackOnly' = rollbackOnly
    BY <1>15, PassStep
  <2>2. Fits(Top.kind, Top.pc, Transactions)
    BY <1>2, <2>1
  <2>3. CASE Top.pc = "before" /\ GoesOn("flush1", dirty) /\ rollbackOnly' = rollbackOnly
    BY <1>3, <1>15, <2>1, <2>2, <2>3 DEF Fits
  <2>4. CASE Top.pc = "after" /\ Throw
    <3>1. UNCHANGED <<depth, counter, pendingVars, connVars, committed, made>>
      BY <1>15, <2>4 DEF PassOver, At
    <3> QED
      BY <1>15, <2>1, <2>4, <3>1, FrameworkThrow
  <2>5. CASE Top.pc = "after" /\ GoesOn("dispatch", {}) /\ Top.kind = "bare" /\ rollbackOnly' = rollbackOnly
    BY <1>3, <1>15, <2>1, <2>2, <2>5 DEF Fits
  <2>6. CASE Top.pc = "after" /\ GoesOn("end", {}) /\ Top.kind # "bare" /\ rollbackOnly' = rollbackOnly
    BY <1>3, <1>15, <2>1, <2>2, <2>6 DEF Fits
  <2>7. CASE Top.pc = "flush1" /\ Top.kind # "flush" /\ GoesOn("links", links) /\ rollbackOnly' = rollbackOnly
    BY <1>3, <1>15, <2>1, <2>2, <2>7 DEF Fits
  <2>8. CASE Top.pc = "flush1" /\ Top.kind = "flush" /\ Ends(FALSE) /\ rollbackOnly' = rollbackOnly
    BY <1>4, <1>15, <2>1, <2>8
  <2>9. CASE Top.pc = "links" /\ GoesOn("flush2", dirty) /\ rollbackOnly' = rollbackOnly
    BY <1>3, <1>15, <2>1, <2>2, <2>9 DEF Fits
  <2>10. CASE Top.pc = "flush2" /\ GoesOn("after", {}) /\ rollbackOnly' = rollbackOnly
    BY <1>3, <1>15, <2>1, <2>2, <2>10 DEF Fits
  <2> QED
    BY <2>1, <2>3, <2>4, <2>5, <2>6, <2>7, <2>8, <2>9, <2>10
<1>16. CASE setup' = setup /\ Committed
  <2>1. /\ stack # <<>> /\ Top.pc = "end" /\ Top.kind \in {"outer", "commit"} /\ GoesOn("dispatch", {})
        /\ UNCHANGED <<depth, rollbackOnly>>
    BY <1>16, CommittedStep
  <2>2. Fits(Top.kind, "dispatch", Transactions)
    BY <1>2, <2>1 DEF Fits
  <2> QED
    BY <1>3, <1>16, <2>1, <2>2
<1>17. CASE setup' = setup /\ CommitFailed
  <2>1. /\ stack # <<>> /\ Top.pc = "end" /\ Top.kind \in {"outer", "commit"} /\ GoesOn("undo", {})
        /\ UNCHANGED <<depth, rollbackOnly>>
    BY <1>17, CommitFailedStep
  <2>2. Fits(Top.kind, "undo", Transactions)
    BY <1>2, <2>1 DEF Fits
  <2> QED
    BY <1>3, <1>17, <2>1, <2>2
<1>18. CASE setup' = setup /\ SavepointReleased
  BY <1>5, <1>18, ReleasedStep
<1>19. CASE setup' = setup /\ Dispatched
  <2>1. /\ stack # <<>> /\ Top.pc = "dispatch" /\ Ends(FALSE)
        /\ IF Top.kind = "outer" THEN Leave(depth, rollbackOnly)
                                 ELSE UNCHANGED <<depth, counter, rollbackOnly>>
    BY <1>19, DispatchedStep
  <2>2. Top.kind # "inner"
    BY <1>2, <2>1 DEF Fits
  <2> QED
    BY <1>4, <1>5, <1>19, <2>1, <2>2
<1>20. CASE setup' = setup /\ HandlerThrows
  <2>1. /\ stack # <<>> /\ Top.pc = "dispatch" /\ UNCHANGED <<depth, rollbackOnly>>
        /\ \/ Top.kind = "outer" /\ GoesOn("undo", {})
           \/ Top.kind # "outer" /\ Ends(TRUE)
    BY <1>20, HandlerStep
  <2>2. Top.kind # "inner" /\ (Top.kind = "outer" => Fits(Top.kind, "undo", Transactions))
    BY <1>2, <2>1 DEF Fits
  <2> QED
    BY <1>3, <1>4, <1>20, <2>1, <2>2
<1>21. CASE setup' = setup /\ (OuterUndone \/ CommitUndone)
  <2>1. /\ stack # <<>> /\ Top.pc = "undo" /\ Ends(TRUE)
        /\ \/ Top.kind = "outer" /\ depth' = 0 /\ rollbackOnly' = FALSE
           \/ Top.kind = "outer" /\ Leave(depth, rollbackOnly)
           \/ Top.kind = "commit" /\ UNCHANGED <<depth, rollbackOnly>>
    BY <1>21, UndoneStep
  <2>2. CASE Top.kind = "outer" /\ depth' = 0 /\ rollbackOnly' = FALSE
    <3>1. ShapeOK' /\ Level' = 0
      BY <1>1, <1>2, <1>21, <2>1, <2>2, ShapeEnds
    <3> QED
      BY <2>2, <3>1 DEF FrameworkOK, DepthOK
  <2>3. CASE Top.kind = "outer" /\ Leave(depth, rollbackOnly)
    BY <1>5, <1>21, <2>1, <2>3
  <2>4. CASE Top.kind = "commit" /\ UNCHANGED <<depth, rollbackOnly>>
    BY <1>4, <1>21, <2>1, <2>4
  <2> QED
    BY <2>1, <2>2, <2>3, <2>4
<1>22. CASE setup' = setup /\ InnerUndone
  BY <1>5, <1>22, InnerUndoneStep
<1>23. CASE UNCHANGED vars
  <2>1. UNCHANGED <<setup, stack, depth, rollbackOnly>>
    BY <1>23 DEF vars, sessionVars
  <2> QED
    BY <1>1, <2>1, ShapeSame, FrameworkSame
<1> QED
  BY <1>6, <1>7, <1>8, <1>9, <1>10, <1>11, <1>12, <1>13, <1>14, <1>15, <1>16, <1>17, <1>18, <1>19, <1>20,
     <1>21, <1>22, <1>23, OrderlyCases
-----------------------------------------------------------------------------
(* The outermost call                                                          *)

\* A call that begins is the innermost one, and the outermost if it is alone.
LEMMA FirstBegins ==
    ASSUME StackOK, NEW kind, NEW point, NEW sp, NEW todo, Begins(kind, point, sp, todo)
    PROVE  /\ stack' # <<>> /\ Top'.kind = kind /\ Top'.pc = point /\ Top'.todo = todo
           /\ stack # <<>> => stack'[1] = stack[1]
           /\ stack = <<>> => /\ stack'[1].kind = kind /\ stack'[1].pc = point /\ ~stack'[1].failed
                              /\ Len(stack') = 1
<1>1. Len(stack) \in Nat /\ (stack = <<>> <=> Len(stack) = 0)
  BY DEF StackOK
<1>2. Len(stack') = Len(stack) + 1 /\ stack' # <<>>
  BY <1>1 DEF Begins
<1>3. Top'.kind = kind /\ Top'.pc = point /\ Top'.todo = todo
  BY <1>2 DEF Top, Begins
<1>4. ASSUME stack # <<>> PROVE stack'[1] = stack[1]
  <2>1. 1 \in 1..Len(stack)
    BY <1>1, <1>4
  <2> QED
    BY <2>1 DEF Begins
<1>5. ASSUME stack = <<>>
      PROVE  /\ stack'[1].kind = kind /\ stack'[1].pc = point /\ ~stack'[1].failed
             /\ Len(stack') = 1
  BY <1>1, <1>2, <1>5 DEF Begins
<1> QED
  BY <1>2, <1>3, <1>4, <1>5

\* A call that goes on stays where it is.
LEMMA FirstGoesOn ==
    ASSUME StackOK, stack # <<>>, NEW point, NEW todo, GoesOn(point, todo)
    PROVE  /\ stack' # <<>> /\ Top'.kind = Top.kind /\ Top'.pc = point /\ Top'.todo = todo
           /\ stack'[1].kind = stack[1].kind /\ stack'[1].failed = stack[1].failed
           /\ stack'[1].made = stack[1].made
           /\ stack'[1].pc = IF Len(stack) = 1 THEN point ELSE stack[1].pc
<1>1. /\ Len(stack) \in Nat /\ Len(stack) > 0 /\ Len(stack) \in 1..Len(stack) /\ 1 \in 1..Len(stack)
      /\ Top = stack[Len(stack)]
  BY TopFrame
<1>2. Len(stack') = Len(stack) /\ stack' # <<>>
  BY <1>1 DEF GoesOn
<1>3. Top' = stack'[Len(stack)]
  BY <1>2 DEF Top
<1>4. Top'.kind = Top.kind /\ Top'.pc = point /\ Top'.todo = todo
  BY <1>1, <1>3 DEF GoesOn
<1>5. /\ stack'[1].kind = stack[1].kind /\ stack'[1].failed = stack[1].failed
      /\ stack'[1].made = stack[1].made
  BY <1>1 DEF GoesOn
<1>6. stack'[1].pc = IF Len(stack) = 1 THEN point ELSE stack[1].pc
  BY <1>1 DEF GoesOn
<1> QED
  BY <1>2, <1>4, <1>5, <1>6

\* A call that is over leaves the one below innermost.
LEMMA FirstEnds ==
    ASSUME StackOK, ShapeOK, stack # <<>>, NEW failed \in BOOLEAN, Ends(failed)
    PROVE  /\ Len(stack) = 1 => stack' = <<>>
           /\ Len(stack) > 1 => /\ stack' # <<>> /\ Top'.pc = "body"
                                /\ stack'[1].kind = stack[1].kind /\ stack'[1].pc = stack[1].pc
                                /\ stack'[1].pc = "body" /\ stack'[1].made = stack[1].made
                                /\ stack'[1].failed = (stack[1].failed \/ (failed /\ Top.kind = "inner"))
           /\ Len(stack) = 1 \/ Len(stack) > 1
<1>1. Len(stack) \in Nat /\ Len(stack) > 0 /\ Len(stack) \in 1..Len(stack) /\ Top = stack[Len(stack)]
  BY TopFrame
<1>2. Len(stack') = Len(stack) - 1
  BY DEF Ends
<1>3. CASE Len(stack) = 1
  <2>1. Len(stack') = 0
    BY <1>2, <1>3
  <2>2. stack' = <<>>
    BY <2>1 DEF Ends
  <2> QED
    BY <1>3, <2>2
<1>4. CASE Len(stack) > 1
  <2>1. Len(stack') \in 1..Len(stack') /\ 1 \in 1..Len(stack') /\ Len(stack') = Len(stack) - 1 /\ stack' # <<>>
    BY <1>1, <1>2, <1>4
  <2>2. Top'.pc = stack[Len(stack) - 1].pc
    BY <2>1 DEF Ends, Top
  <2>3. stack[1].pc = "body" /\ stack[Len(stack) - 1].pc = "body"
    BY <1>4, ShapeFacts
  <2>4. /\ stack'[1].kind = stack[1].kind /\ stack'[1].pc = stack[1].pc /\ stack'[1].made = stack[1].made
        /\ stack'[1].failed = (stack[1].failed \/ (failed /\ Top.kind = "inner"))
    BY <2>1 DEF Ends
  <2> QED
    BY <1>4, <2>1, <2>2, <2>3, <2>4
<1>5. Len(stack) = 1 \/ Len(stack) > 1
  <2>1. Len(stack) \in Nat /\ Len(stack) > 0
    BY <1>1
  <2> QED
    BY <2>1
<1> QED
  BY <1>3, <1>4, <1>5

\* While the outermost call is between its BEGIN and its end, its transaction is open.
Working == stack # <<>> /\ stack[1].kind \in {"outer", "commit"}
                        /\ stack[1].pc \notin {"begin", "dispatch", "undo"}
OpenOK == Working => open

\* A nested transaction that is undone has marked the session, an outermost one
\* that commits is not marked, and one in which another failed is marked or undone.
DoomOK ==
    /\ stack # <<>> /\ Top.kind = "inner" /\ Top.pc = "undo" => rollbackOnly
    /\ Deep /\ stack[1].pc \in {"end", "dispatch"} => ~rollbackOnly
    /\ "savepoint" \notin Faults /\ Deep /\ stack[1].failed => rollbackOnly \/ stack[1].pc = "undo"

OutermostOK == OpenOK /\ DoomOK

\* Without a call there is nothing to say.
LEMMA OutermostEmpty ==
    ASSUME stack = <<>>
    PROVE  OutermostOK
BY DEF OutermostOK, OpenOK, DoomOK, Working, Deep

\* Leaving a nested transaction leaves the mark and the counter alone.
LEMMA InnerLeaves ==
    ASSUME Base, FrameworkOK, stack # <<>>, Top.kind = "inner", Top.pc # "begin", Leave(depth, rollbackOnly)
    PROVE  rollbackOnly' = rollbackOnly /\ counter' = counter
<1>1. StackOK /\ ShapeOK /\ depth = Level /\ Len(stack) \in Nat
  BY DEF Base, FrameworkOK, DepthOK, StackOK
<1>2. Deep /\ Len(stack) > 1
  BY <1>1, ShapeFacts
<1>3. depth = Len(stack)
  BY <1>1, <1>2 DEF Level
<1>4. depth' = depth - 1
  BY <1>1, <1>2, <1>3 DEF Leave
<1>5. depth' # 0
  BY <1>1, <1>2, <1>3, <1>4
<1> QED
  BY <1>5 DEF Leave

\* A positive number is one, or greater.
LEMMA PositiveCases ==
    ASSUME NEW n \in Nat, n > 0
    PROVE  n = 1 \/ (n > 1 /\ n # 1)
OBVIOUS

\* The innermost call is the outermost one, or it is not.
LEMMA OneOrMore ==
    ASSUME StackOK, stack # <<>>
    PROVE  Len(stack) = 1 \/ (Len(stack) > 1 /\ Len(stack) # 1)
<1>1. Len(stack) \in Nat /\ Len(stack) > 0
  BY TopFrame
<1> QED
  BY <1>1, PositiveCases, Zenon

\* The outermost call at its work has its transaction.
LEMMA OutermostWorks ==
    ASSUME StackOK, ShapeOK, OutermostOK, stack # <<>>, Top.kind \in {"outer", "commit"},
           Top.pc \notin {"begin", "dispatch", "undo"}
    PROVE  open
<1>1. Len(stack) = 1 /\ Top = stack[Len(stack)]
  BY ShapeFacts
<1>2. Working
  BY <1>1 DEF Working
<1> QED
  BY <1>2 DEF OutermostOK, OpenOK

\* Calls that begin.
LEMMA OutermostBegins ==
    ASSUME StackOK, ShapeOK, OutermostOK, setup' = setup, open' = open,
           NEW kind, NEW point, NEW sp, NEW todo, Begins(kind, point, sp, todo),
           point \notin {"undo", "end", "dispatch"}, stack # <<>> => rollbackOnly' = rollbackOnly,
           stack = <<>> /\ kind \in {"outer", "commit"} => point = "begin"
    PROVE  OutermostOK'
<1>1. /\ stack' # <<>> /\ Top'.kind = kind /\ Top'.pc = point
      /\ stack # <<>> => stack'[1] = stack[1]
      /\ stack = <<>> => stack'[1].kind = kind /\ stack'[1].pc = point /\ ~stack'[1].failed
  BY FirstBegins
<1>2. OpenOK'
  BY <1>1 DEF OutermostOK, OpenOK, Working
<1>3. (stack # <<>> /\ Top.kind = "inner" /\ Top.pc = "undo" => rollbackOnly)'
  BY <1>1
<1>4. (Deep /\ stack[1].pc \in {"end", "dispatch"} => ~rollbackOnly)'
  BY <1>1 DEF OutermostOK, DoomOK, Deep
<1>5. ("savepoint" \notin Faults /\ Deep /\ stack[1].failed => rollbackOnly \/ stack[1].pc = "undo")'
  BY <1>1 DEF OutermostOK, DoomOK, Deep, Faults
<1> QED
  BY <1>2, <1>3, <1>4, <1>5 DEF OutermostOK, DoomOK

\* Calls that go on.
LEMMA OutermostGoesOn ==
    ASSUME StackOK, ShapeOK, OutermostOK, setup' = setup, stack # <<>>, Top.pc # "undo",
           NEW point, NEW todo, GoesOn(point, todo),
           Top.kind \in {"outer", "commit"} /\ point \notin {"dispatch", "undo"} => open',
           Top.kind \notin {"outer", "commit"} => open' = open,
           rollbackOnly' = (rollbackOnly \/ (point = "undo" /\ Top.kind = "inner")),
           point \in {"end", "dispatch"} /\ Top.kind = "outer" => ~rollbackOnly
    PROVE  OutermostOK'
<1>1. /\ stack' # <<>> /\ Top'.kind = Top.kind /\ Top'.pc = point
      /\ stack'[1].kind = stack[1].kind /\ stack'[1].failed = stack[1].failed
      /\ stack'[1].pc = IF Len(stack) = 1 THEN point ELSE stack[1].pc
  BY FirstGoesOn
<1>2. /\ Top = stack[Len(stack)]
      /\ Top.kind \in {"outer", "commit"} => Len(stack) = 1
      /\ Len(stack) > 1 => stack[1].pc = "body"
  BY ShapeFacts
<1>3. Len(stack) = 1 \/ Len(stack) > 1
  BY OneOrMore
<1>4. CASE Len(stack) = 1
  <2>1. Top = stack[1] /\ stack'[1].pc = point
    BY <1>1, <1>2, <1>4
  <2>2. OpenOK'
    BY <1>1, <2>1 DEF OpenOK, Working
  <2>3. (stack # <<>> /\ Top.kind = "inner" /\ Top.pc = "undo" => rollbackOnly)'
    BY <1>1
  <2>4. (Deep /\ stack[1].pc \in {"end", "dispatch"} => ~rollbackOnly)'
    BY <1>1, <2>1 DEF Deep
  <2>5. ("savepoint" \notin Faults /\ Deep /\ stack[1].failed => rollbackOnly \/ stack[1].pc = "undo")'
    BY <1>1, <2>1 DEF OutermostOK, DoomOK, Deep, Faults
  <2> QED
    BY <2>2, <2>3, <2>4, <2>5 DEF OutermostOK, DoomOK
<1>5. CASE Len(stack) > 1
  <2>1. stack'[1].pc = stack[1].pc /\ stack[1].pc = "body" /\ Top.kind \notin {"outer", "commit"}
    <3>1. Len(stack) # 1
      BY <1>5
    <3> QED
      BY <1>1, <1>2, <1>5, <3>1
  <2>2. OpenOK'
    BY <1>1, <2>1 DEF OpenOK, Working, OutermostOK
  <2>3. (stack # <<>> /\ Top.kind = "inner" /\ Top.pc = "undo" => rollbackOnly)'
    BY <1>1
  <2>4. (Deep /\ stack[1].pc \in {"end", "dispatch"} => ~rollbackOnly)'
    BY <1>1, <2>1 DEF Deep
  <2>5. ("savepoint" \notin Faults /\ Deep /\ stack[1].failed => rollbackOnly \/ stack[1].pc = "undo")'
    BY <1>1, <2>1 DEF OutermostOK, DoomOK, Deep, Faults
  <2> QED
    BY <2>2, <2>3, <2>4, <2>5 DEF OutermostOK, DoomOK
<1> QED
  BY <1>3, <1>4, <1>5

\* Calls that are over.
LEMMA OutermostEnds ==
    ASSUME StackOK, ShapeOK, OutermostOK, setup' = setup, stack # <<>>, NEW failed \in BOOLEAN, Ends(failed),
           Len(stack) > 1 => open' = open /\ rollbackOnly' = rollbackOnly,
           failed /\ Top.kind = "inner" /\ "savepoint" \notin Faults => rollbackOnly
    PROVE  OutermostOK'
<1>1. /\ Len(stack) = 1 => stack' = <<>>
      /\ Len(stack) > 1 => /\ stack' # <<>> /\ Top'.pc = "body"
                           /\ stack'[1].kind = stack[1].kind /\ stack'[1].pc = stack[1].pc
                           /\ stack'[1].pc = "body"
                           /\ stack'[1].failed = (stack[1].failed \/ (failed /\ Top.kind = "inner"))
      /\ Len(stack) = 1 \/ Len(stack) > 1
  BY FirstEnds
<1>2. CASE Len(stack) = 1
  <2>1. stack' = <<>>
    BY <1>1, <1>2
  <2> QED
    BY <2>1 DEF OutermostOK, OpenOK, DoomOK, Working, Deep
<1>3. CASE Len(stack) > 1
  <2>1. OpenOK'
    BY <1>1, <1>3 DEF OpenOK, Working, OutermostOK
  <2>2. (stack # <<>> /\ Top.kind = "inner" /\ Top.pc = "undo" => rollbackOnly)'
    BY <1>1, <1>3
  <2>3. (Deep /\ stack[1].pc \in {"end", "dispatch"} => ~rollbackOnly)'
    BY <1>1, <1>3 DEF Deep
  <2>4. ("savepoint" \notin Faults /\ Deep /\ stack[1].failed => rollbackOnly \/ stack[1].pc = "undo")'
    BY <1>1, <1>3 DEF OutermostOK, DoomOK, Deep, Faults
  <2> QED
    BY <2>1, <2>2, <2>3, <2>4 DEF OutermostOK, DoomOK
<1> QED
  BY <1>1, <1>2, <1>3

\* Steps that change no point of a call.
LEMMA OutermostSame ==
    ASSUME StackOK, OutermostOK, setup' = setup, open' = open, rollbackOnly' = rollbackOnly,
           Marks \/ stack' = stack
    PROVE  OutermostOK'
<1>1. CASE stack' = stack
  BY <1>1 DEF OutermostOK, OpenOK, DoomOK, Working, Deep, Top, Faults
<1>2. CASE Marks
  <2>1. CASE stack = <<>>
    <3>1. stack' = <<>>
      BY <1>2, <2>1 DEF Marks
    <3> QED
      BY <3>1 DEF OutermostOK, OpenOK, DoomOK, Working, Deep
  <2>2. CASE stack # <<>>
    <3>1. Len(stack) \in 1..Len(stack) /\ 1 \in 1..Len(stack)
      <4>1. Len(stack) \in Nat /\ Len(stack) > 0
        BY <2>2, TopFrame
      <4> QED
        BY <4>1
    <3>2. stack' # <<>> /\ Top'.kind = Top.kind /\ Top'.pc = Top.pc
      BY <1>2, <3>1 DEF Marks, Top
    <3>3. /\ stack'[1].kind = stack[1].kind /\ stack'[1].pc = stack[1].pc
          /\ stack'[1].failed = stack[1].failed
      BY <1>2, <3>1 DEF Marks
    <3> QED
      BY <2>2, <3>2, <3>3 DEF OutermostOK, OpenOK, DoomOK, Working, Deep, Faults
  <2> QED
    BY <2>1, <2>2
<1> QED
  BY <1>1, <1>2

\* An error inside the try block of a call.
LEMMA OutermostThrow ==
    ASSUME Base, FrameworkOK, OutermostOK, setup' = setup, stack # <<>>, Throw,
           Top.pc \notin {"begin", "undo"},
           UNCHANGED <<depth, counter, pendingVars, connVars, committed, made>>
    PROVE  OutermostOK'
<1>1. StackOK /\ ShapeOK /\ open' = open /\ (Top.kind \notin {"outer", "commit"} => open' = open)
  BY DEF Base, FrameworkOK, connVars
<1>2. \/ /\ Top.kind \in {"outer", "inner", "commit"} /\ GoesOn("undo", {})
         /\ rollbackOnly' = (rollbackOnly \/ Top.kind = "inner")
      \/ /\ Top.kind \in {"bare", "flush"} /\ Ends(TRUE)
         /\ UNCHANGED rollbackOnly
  BY ThrowStep
<1>3. CASE /\ GoesOn("undo", {})
           /\ rollbackOnly' = (rollbackOnly \/ Top.kind = "inner")
  BY <1>1, <1>3, OutermostGoesOn
<1>4. CASE Top.kind \in {"bare", "flush"} /\ Ends(TRUE) /\ UNCHANGED rollbackOnly
  <2>1. TRUE \in BOOLEAN /\ Top.kind # "inner"
    BY <1>4
  <2> QED
    BY <1>1, <1>4, <2>1, OutermostEnds
<1> QED
  BY <1>2, <1>3, <1>4

\* An outermost transaction begins where no call runs.
LEMMA OuterBegins ==
    ASSUME StackOK, ShapeOK', NEW point, NEW sp, NEW todo, Begins("outer", point, sp, todo)
    PROVE  stack = <<>>
<1>1. Len(stack) \in Nat /\ (stack = <<>> <=> Len(stack) = 0)
  BY DEF StackOK
<1>2. Len(stack') = Len(stack) + 1 /\ stack'[Len(stack) + 1].kind = "outer"
  BY DEF Begins
<1>3. SUFFICES ASSUME Len(stack) > 0 PROVE FALSE
  BY <1>1
<1>4. Len(stack) + 1 \in 1..Len(stack') /\ Len(stack) + 1 > 1
  BY <1>1, <1>2, <1>3
<1> QED
  BY <1>2, <1>4 DEF ShapeOK

\* Steps of a session whose user code is disciplined keep the outermost call's promises.
LEMMA OutermostStep ==
    ASSUME Disciplined, Base, CloseOK, FrameworkOK, OutermostOK, [Next]_vars
    PROVE  OutermostOK'
<1>1. StackOK /\ ShapeOK /\ DepthOK /\ FieldsOK
  BY DEF Base, FrameworkOK
<1>2. TRUE \in BOOLEAN /\ FALSE \in BOOLEAN /\ rollbackOnly \in BOOLEAN
  BY <1>1 DEF FieldsOK
<1>3. ASSUME stack # <<>>
      PROVE  /\ Top.kind \in {"outer", "commit"} => Len(stack) = 1
             /\ Top.kind \in {"outer", "commit"} /\ Top.pc \notin {"begin", "dispatch", "undo"} => open
             /\ Fits(Top.kind, Top.pc, Transactions)
  BY <1>1, <1>3, OutermostWorks, ShapeFacts
<1>4. CASE setup' = setup /\ Change
  <2>1. Marks /\ open' = open /\ rollbackOnly' = rollbackOnly
    BY <1>4, ChangeStep DEF LayersSame
  <2> QED
    BY <1>1, <1>4, <2>1, OutermostSame
<1>5. CASE setup' = setup /\ (Flush \/ Commit \/ Transaction)
  <2>1. open' = open
    BY <1>5, CallStep DEF LayersSame
  <2>2. ShapeOK' /\ (Commit => stack = <<>>)
    BY <1>1, <1>5, DisciplineLeaves, FrameworkCall DEF FrameworkOK
  <2>3. CASE Begins("flush", "flush1", 0, dirty) /\ rollbackOnly' = rollbackOnly
    BY <1>1, <1>5, <2>1, <2>3, OutermostBegins
  <2>4. CASE Begins("commit", "begin", 0, {}) /\ rollbackOnly' = rollbackOnly
    BY <1>1, <1>5, <2>1, <2>4, OutermostBegins
  <2>5. CASE Begins("bare", "before", 0, {}) /\ rollbackOnly' = rollbackOnly
    BY <1>1, <1>5, <2>1, <2>5, OutermostBegins
  <2>6. CASE Begins("bare", "body", 0, {}) /\ rollbackOnly' = rollbackOnly
    BY <1>1, <1>5, <2>1, <2>6, OutermostBegins
  <2>7. CASE Begins("outer", "begin", 0, {})
    <3>1. stack = <<>>
      BY <1>1, <2>2, <2>7, OuterBegins
    <3> QED
      BY <1>1, <1>5, <2>1, <2>7, <3>1, OutermostBegins
  <2>8. CASE Begins("inner", "begin", counter', {}) /\ rollbackOnly' = rollbackOnly
    BY <1>1, <1>5, <2>1, <2>8, OutermostBegins
  <2> QED
    BY <1>5, <2>3, <2>4, <2>5, <2>6, <2>7, <2>8, CallStep, Zenon
<1>6. CASE setup' = setup /\ Rollback
  <2>1. stack = <<>> /\ Marks
    BY <1>1, <1>6, DisciplineLeaves, RollbackStep
  <2>2. stack' = <<>>
    BY <2>1 DEF Marks
  <2> QED
    BY <2>2 DEF OutermostOK, OpenOK, DoomOK, Working, Deep
<1>7. CASE setup' = setup /\ Dispose
  <2>1. stack' = <<>>
    BY <1>7, DisposeStep
  <2> QED
    BY <2>1 DEF OutermostOK, OpenOK, DoomOK, Working, Deep
<1>8. CASE setup' = setup /\ (BodyReturns \/ BodyThrows \/ FlushFailed \/ ReleaseFailed)
  <2>1. stack # <<>> /\ Top.pc \notin {"begin", "undo", "dispatch"}
    BY <1>8, BodyStep DEF BodyReturns, BodyThrows, FlushFailed, ReleaseFailed, InterceptorThrows, At
  <2>2. UNCHANGED <<depth, counter, pendingVars, connVars, committed, made>>
    BY <1>8 DEF BodyReturns, BodyThrows, FlushFailed, ReleaseFailed
  <2>3. CASE Throw
    BY <1>8, <2>1, <2>2, <2>3, OutermostThrow
  <2>4. CASE GoesOn("before", {}) /\ rollbackOnly' = rollbackOnly
    <3>1. open' = open /\ (Top.kind \in {"outer", "commit"} => open')
      BY <1>3, <2>1, <2>2 DEF connVars
    <3> QED
      BY <1>1, <1>2, <1>8, <2>1, <2>4, <3>1, OutermostGoesOn
  <2> QED
    BY <1>8, <2>3, <2>4, BodyStep
<1>9. CASE setup' = setup /\ Begun
  <2>1. /\ stack # <<>> /\ Top.pc = "begin" /\ open' /\ rollbackOnly' = rollbackOnly
        /\ Top.kind \in {"outer", "commit"}
        /\ GoesOn("body", {}) \/ GoesOn("before", {})
    BY <1>9, BegunStep
  <2>2. CASE GoesOn("body", {})
    BY <1>1, <1>2, <1>9, <2>1, <2>2, OutermostGoesOn
  <2>3. CASE GoesOn("before", {})
    BY <1>1, <1>2, <1>9, <2>1, <2>3, OutermostGoesOn
  <2> QED
    BY <2>1, <2>2, <2>3
<1>10. CASE setup' = setup /\ (BeginFailed \/ SavepointFailed)
  <2>1. stack # <<>> /\ Top.pc = "begin" /\ Ends(TRUE) /\ open' = open /\ rollbackOnly' = rollbackOnly
    BY <1>10, RefusedStep DEF LayersSame
  <2>2. Top.kind = "inner" => SavepointFailed
    BY <1>10, RefusedStep
  <2>3. Top.kind = "inner" => open
    <3>1. Top.kind = "inner" => Deep /\ Len(stack) > 1
      BY <1>1, <2>1, ShapeFacts
    <3>2. Top.kind = "inner" => Working
      BY <1>1, <2>1, <3>1, ShapeFacts DEF Working, Deep
    <3> QED
      BY <3>2 DEF OutermostOK, OpenOK
  <2>4. Top.kind = "inner" => "savepoint" \in Faults
    BY <2>2, <2>3 DEF SavepointFailed
  <2> QED
    BY <1>1, <1>2, <1>10, <2>1, <2>4, OutermostEnds
<1>11. CASE setup' = setup /\ SavepointSet
  <2>1. /\ stack # <<>> /\ Top.pc = "begin" /\ open' = open /\ rollbackOnly' = rollbackOnly
        /\ Top.kind = "inner" /\ GoesOn("body", {})
    BY <1>11, SavepointStep
  <2> QED
    BY <1>1, <1>2, <1>11, <2>1, OutermostGoesOn
<1>12. CASE setup' = setup /\ (Flushed \/ Processed)
  <2>1. /\ stack # <<>> /\ open' = open /\ rollbackOnly' = rollbackOnly
        /\ Top.pc \in {"flush1", "links", "flush2"}
        /\ \E c \in Top.todo : GoesOn(Top.pc, Top.todo \ {c})
    BY <1>12, StatementStep
  <2>2. Top.pc \notin {"begin", "undo", "dispatch", "end"}
    BY <2>1
  <2>3. Top.kind \in {"outer", "commit"} => open'
    BY <1>3, <2>1, <2>2
  <2> QED
    BY <1>1, <1>2, <1>12, <2>1, <2>2, <2>3, OutermostGoesOn
<1>13. CASE /\ setup' = setup
            /\ \/ Intercepted /\ UNCHANGED <<depth, counter, pendingVars, connVars, committed, made>>
               \/ stack # <<>> /\ PassOver
  <2>1. stack # <<>> /\ open' = open
    BY <1>13, PassStep DEF LayersSame
  <2>2. CASE Top.pc = "after" /\ Throw
    <3>1. Intercepted /\ UNCHANGED <<depth, counter, pendingVars, connVars, committed, made>>
      BY <1>13, <2>2 DEF PassOver, At
    <3> QED
      BY <1>13, <2>1, <2>2, <3>1, OutermostThrow
  <2>3. CASE Ends(FALSE) /\ rollbackOnly' = rollbackOnly
    BY <1>1, <1>2, <1>13, <2>1, <2>3, OutermostEnds
  <2>4. ASSUME NEW point, NEW todo, GoesOn(point, todo), point # "undo",
               Top.pc \notin {"begin", "undo", "dispatch"}, rollbackOnly' = rollbackOnly,
               point = "dispatch" => Top.kind = "bare",
               point = "end" => ~(Top.kind \in {"outer", "inner"} /\ rollbackOnly)
        PROVE  OutermostOK'
    <3>1. Top.kind \in {"outer", "commit"} => open'
      BY <1>3, <2>1, <2>4
    <3>2. point \in {"end", "dispatch"} /\ Top.kind = "outer" => ~rollbackOnly
      BY <2>4
    <3>3. rollbackOnly' = (rollbackOnly \/ (point = "undo" /\ Top.kind = "inner"))
      BY <1>2, <2>4
    <3> QED
      BY <1>1, <1>13, <2>1, <2>4, <3>1, <3>2, <3>3, OutermostGoesOn
  <2>5. CASE Top.pc = "before" /\ GoesOn("flush1", dirty) /\ rollbackOnly' = rollbackOnly
    BY <2>4, <2>5
  <2>6. CASE Top.pc = "after" /\ GoesOn("dispatch", {}) /\ Top.kind = "bare" /\ rollbackOnly' = rollbackOnly
    BY <2>4, <2>6
  <2>7. CASE /\ Top.pc = "after" /\ GoesOn("end", {}) /\ rollbackOnly' = rollbackOnly
             /\ ~(Top.kind \in {"outer", "inner"} /\ rollbackOnly)
    BY <2>4, <2>7
  <2>8. CASE Top.pc = "flush1" /\ GoesOn("links", links) /\ rollbackOnly' = rollbackOnly
    BY <2>4, <2>8
  <2>9. CASE Top.pc = "links" /\ GoesOn("flush2", dirty) /\ rollbackOnly' = rollbackOnly
    BY <2>4, <2>9
  <2>10. CASE Top.pc = "flush2" /\ GoesOn("after", {}) /\ rollbackOnly' = rollbackOnly
    BY <2>4, <2>10
  <2> QED
    BY <1>13, <2>2, <2>3, <2>5, <2>6, <2>7, <2>8, <2>9, <2>10, PassStep, Zenon
<1>14. CASE setup' = setup /\ Committed
  <2>1. /\ stack # <<>> /\ Top.pc = "end" /\ rollbackOnly' = rollbackOnly
        /\ Top.kind \in {"outer", "commit"} /\ GoesOn("dispatch", {})
    BY <1>14, CommittedStep
  <2>2. Top.kind = "outer" => ~rollbackOnly
    <3>1. Top.kind = "outer" => Deep /\ stack[1] = Top
      BY <1>1, <1>3, <2>1, ShapeFacts DEF Deep
    <3> QED
      BY <2>1, <3>1 DEF OutermostOK, DoomOK
  <2> QED
    BY <1>1, <1>2, <1>14, <2>1, <2>2, OutermostGoesOn
<1>15. CASE setup' = setup /\ CommitFailed
  <2>1. /\ stack # <<>> /\ Top.pc = "end" /\ rollbackOnly' = rollbackOnly
        /\ Top.kind \in {"outer", "commit"} /\ GoesOn("undo", {})
    BY <1>15, CommitFailedStep
  <2> QED
    BY <1>1, <1>2, <1>15, <2>1, OutermostGoesOn
<1>16. CASE setup' = setup /\ SavepointReleased
  <2>1. /\ stack # <<>> /\ Top.pc = "end" /\ Top.kind = "inner" /\ Ends(FALSE) /\ open' = open
        /\ Leave(depth, rollbackOnly)
    BY <1>16, ReleasedStep
  <2>2. rollbackOnly' = rollbackOnly
    BY <2>1, InnerLeaves
  <2> QED
    BY <1>1, <1>2, <1>16, <2>1, <2>2, OutermostEnds
<1>17. CASE setup' = setup /\ Dispatched
  <2>1. /\ stack # <<>> /\ Top.pc = "dispatch" /\ Ends(FALSE) /\ open' = open
        /\ Top.kind # "outer" => rollbackOnly' = rollbackOnly
    BY <1>17, DispatchedStep DEF LayersSame
  <2>2. Len(stack) > 1 => Top.kind # "outer"
    <3>1. Top.kind = "outer" => Len(stack) = 1
      BY <1>3, <2>1
    <3>2. CASE Len(stack) = 1
      <4>1. ~(Len(stack) > 1)
        BY <3>2
      <4> QED
        BY <4>1
    <3>3. CASE Len(stack) # 1
      BY <3>1, <3>3
    <3> QED
      BY <3>2, <3>3
  <2> QED
    BY <1>1, <1>2, <1>17, <2>1, <2>2, OutermostEnds
<1>18. CASE setup' = setup /\ HandlerThrows
  <2>1. /\ stack # <<>> /\ Top.pc = "dispatch" /\ open' = open /\ rollbackOnly' = rollbackOnly
        /\ \/ Top.kind = "outer" /\ GoesOn("undo", {})
           \/ Top.kind # "outer" /\ Ends(TRUE)
    BY <1>18, HandlerStep DEF LayersSame
  <2>2. Top.kind # "inner"
    BY <1>3, <2>1 DEF Fits
  <2>3. CASE Top.kind = "outer" /\ GoesOn("undo", {})
    BY <1>1, <1>2, <1>18, <2>1, <2>3, OutermostGoesOn
  <2>4. CASE Ends(TRUE)
    BY <1>1, <1>2, <1>18, <2>1, <2>2, <2>4, OutermostEnds
  <2> QED
    BY <2>1, <2>3, <2>4
<1>19. CASE setup' = setup /\ (OuterUndone \/ CommitUndone)
  <2>1. stack # <<>> /\ Ends(TRUE) /\ Top.kind \in {"outer", "commit"}
    BY <1>19, UndoneStep
  <2>2. stack' = <<>>
    BY <1>1, <1>2, <1>3, <2>1, FirstEnds
  <2> QED
    BY <2>2 DEF OutermostOK, OpenOK, DoomOK, Working, Deep
<1>20. CASE setup' = setup /\ InnerUndone
  <2>1. /\ stack # <<>> /\ Top.pc = "undo" /\ Top.kind = "inner" /\ Ends(TRUE) /\ open' = open
        /\ Leave(depth, rollbackOnly)
    BY <1>20, InnerUndoneStep
  <2>2. rollbackOnly' = rollbackOnly
    BY <2>1, InnerLeaves
  <2>3. rollbackOnly
    BY <2>1 DEF OutermostOK, DoomOK
  <2> QED
    BY <1>1, <1>2, <1>20, <2>1, <2>2, <2>3, OutermostEnds
<1>21. CASE UNCHANGED vars
  <2>1. UNCHANGED <<setup, open, rollbackOnly, stack>>
    BY <1>21 DEF vars, sessionVars, connVars
  <2> QED
    BY <1>1, <2>1, OutermostSame
<1> QED
  BY <1>4, <1>5, <1>6, <1>7, <1>8, <1>9, <1>10, <1>11, <1>12, <1>13, <1>14, <1>15, <1>16, <1>17, <1>18,
     <1>19, <1>20, <1>21, OrderlyCases

\* The outermost call's promises hold from the start.
LEMMA InitFramework == Init => FrameworkOK /\ OutermostOK
<1> SUFFICES ASSUME Init PROVE FrameworkOK /\ OutermostOK
  OBVIOUS
<1>1. stack = <<>> /\ depth = 0 /\ ~rollbackOnly
  BY DEF Init
<1>2. OutermostOK
  BY <1>1, OutermostEmpty
<1>3. ~Deep /\ Level = 0
  BY <1>1 DEF Deep, Level
<1>4. ShapeOK
  BY <1>1 DEF ShapeOK
<1> QED
  BY <1>1, <1>2, <1>3, <1>4 DEF FrameworkOK, DepthOK

\* What every reachable state of a session with disciplined user code satisfies.
LEMMA Invariance ==
    ASSUME Disciplined, CommitsEnd
    PROVE  Spec => [](Base /\ CloseOK /\ FrameworkOK /\ OutermostOK)
<1>1. Init => Base /\ CloseOK /\ FrameworkOK /\ OutermostOK
  BY InitBase, InitClose, InitFramework
<1>2. Base /\ CloseOK /\ FrameworkOK /\ OutermostOK /\ [Next]_vars
        => (Base /\ CloseOK /\ FrameworkOK /\ OutermostOK)'
  BY BaseStep, CloseStep, FrameworkStep, OutermostStep
<1> QED
  BY <1>1, <1>2, PTL DEF Spec

\* A transaction in which a nested one failed never reaches its COMMIT, whatever
\* the body does with the error (rollbackOnly, throwIfRollbackOnly), as long as
\* user code leaves the session's own rollback() and commit() alone in a body (and
\* no connection comes out of a pool in the transaction of a failed COMMIT).
THEOREM FailureIsFinal ==
    ASSUME Disciplined, CommitsEnd
    PROVE  Spec => []FailureDooms
<1>1. Base /\ CloseOK /\ FrameworkOK /\ OutermostOK => FailureDooms
  <2> SUFFICES ASSUME Base, FrameworkOK, OutermostOK, "savepoint" \notin Faults,
                      NEW i \in 1..Len(stack), stack[i].kind = "outer", stack[i].failed
               PROVE  stack[i].pc \notin {"end", "dispatch"}
    BY DEF FailureDooms
  <2>1. i = 1 /\ stack # <<>>
    BY DEF FrameworkOK, ShapeOK, Base, StackOK
  <2> QED
    BY <2>1 DEF OutermostOK, DoomOK, Deep
<1> QED
  BY <1>1, Invariance, PTL
-----------------------------------------------------------------------------
(* Savepoints                                                                  *)

\* The savepoints of the database are numbered in the order in which they were
\* set, and no number is given out twice in a transaction.
NamesOK ==
    /\ \A i, j \in 1..Len(layers) : i < j => layers[i].name < layers[j].name
    /\ \A j \in 1..Len(layers) : layers[j].name <= counter

\* A nested transaction has a number of its own, and once it has begun the
\* database has its savepoint.
OwnOK(f) ==
    f.kind = "inner" =>
        /\ f.sp <= counter
        /\ f.pc = "begin" => \A j \in 1..Len(layers) : layers[j].name < f.sp
        /\ f.pc # "begin" => \E j \in 1..Len(layers) : layers[j].name = f.sp
SavepointsOK ==
    /\ \A i \in 1..Len(stack) : OwnOK(stack[i])
    /\ \A i, j \in 1..Len(stack) :
         i < j /\ stack[i].kind = "inner" /\ stack[j].kind = "inner" => stack[i].sp < stack[j].sp

NestOK == NamesOK /\ SavepointsOK

\* The first layers of a transaction are numbered as all of them.
LEMMA KeptNames ==
    ASSUME LayersOK, NamesOK, NEW n \in 0..Len(layers), NamesKept(n), counter' = counter
    PROVE  NamesOK'
<1>1. Len(layers) \in Nat /\ Len(layers') = n /\ \A j \in 1..n : layers'[j].name = layers[j].name /\ j \in 1..Len(layers)
  BY DEF LayersOK, NamesKept
<1> QED
  BY <1>1 DEF NamesOK

\* Without a call there is no transaction, and no savepoint.
LEMMA NestQuiet ==
    ASSUME stack = <<>>, Base, CloseOK
    PROVE  NestOK
<1>1. Len(stack) = 0
  BY DEF Base, StackOK
<1>2. ~open
  BY <1>1 DEF CloseOK, HeldOK, Held
<1>3. Len(layers) = 0
  BY <1>2, NoLayers DEF Base
<1> QED
  BY <1>1, <1>3 DEF NestOK, NamesOK, SavepointsOK

\* A transaction that begins or ends on the outside nests nothing.
LEMMA NestAlone ==
    ASSUME StackOK, ShapeOK, stack # <<>>, Top.kind \in {"outer", "commit"}, NEW point, NEW todo,
           GoesOn(point, todo), NamesOK'
    PROVE  NestOK'
<1>1. Len(stack) = 1 /\ Top = stack[Len(stack)]
  BY ShapeFacts
<1>2. Len(stack') = 1 /\ stack'[1].kind = Top.kind
  BY <1>1 DEF GoesOn
<1>3. ASSUME NEW i \in 1..Len(stack') PROVE stack'[i].kind # "inner"
  <2>1. i = 1
    BY <1>2
  <2> QED
    BY <1>2, <2>1
<1> QED
  BY <1>3 DEF NestOK, SavepointsOK, OwnOK

\* A transaction that goes on keeps its savepoints.
LEMMA NestGoesOn ==
    ASSUME StackOK, LayersOK, NestOK, stack # <<>>, NEW point, NEW todo, GoesOn(point, todo),
           Top.kind = "inner" => Top.pc # "begin", point # "begin",
           NamesKept(Len(layers)), counter' = counter
    PROVE  NestOK'
<1>1. Len(layers) \in 0..Len(layers)
  BY DEF LayersOK
<1>2. NamesOK'
  BY <1>1, KeptNames DEF NestOK
<1>3. /\ Len(stack') = Len(stack) /\ Top = stack[Len(stack)] /\ Len(stack) \in Nat
      /\ \A i \in 1..Len(stack) : /\ stack'[i].kind = stack[i].kind /\ stack'[i].sp = stack[i].sp
                                  /\ i # Len(stack) => stack'[i] = stack[i]
      /\ stack'[Len(stack)].pc = point
  BY TopFrame DEF GoesOn
<1>4. Len(layers') = Len(layers) /\ \A j \in 1..Len(layers) : layers'[j].name = layers[j].name
  BY DEF NamesKept
<1>5. ASSUME NEW i \in 1..Len(stack'), stack'[i].kind = "inner"
      PROVE  /\ stack'[i].sp <= counter'
             /\ stack'[i].pc = "begin" => \A j \in 1..Len(layers') : layers'[j].name < stack'[i].sp
             /\ stack'[i].pc # "begin" => \E j \in 1..Len(layers') : layers'[j].name = stack'[i].sp
  <2>1. i \in 1..Len(stack) /\ stack[i].kind = "inner" /\ OwnOK(stack[i]) /\ stack'[i].sp = stack[i].sp
    BY <1>3, <1>5 DEF NestOK, SavepointsOK
  <2>2. stack'[i].pc = stack[i].pc \/ (stack[i].pc # "begin" /\ stack'[i].pc # "begin")
    BY <1>3, <2>1
  <2> QED
    BY <1>4, <2>1, <2>2 DEF OwnOK
<1>6. \A i \in 1..Len(stack') : OwnOK(stack[i])'
  BY <1>5 DEF OwnOK
<1>7. \A i, j \in 1..Len(stack') :
        i < j /\ stack'[i].kind = "inner" /\ stack'[j].kind = "inner" => stack'[i].sp < stack'[j].sp
  BY <1>3 DEF NestOK, SavepointsOK
<1> QED
  BY <1>2, <1>6, <1>7 DEF NestOK, SavepointsOK

\* Steps that change no point of a call.
LEMMA NestSame ==
    ASSUME StackOK, LayersOK, NestOK, Marks \/ stack' = stack, LayersSame, counter' = counter
    PROVE  NestOK'
<1>1. layers' = layers
  BY DEF LayersSame
<1>2. NamesOK'
  BY <1>1 DEF NestOK, NamesOK
<1>3. /\ Len(stack') = Len(stack)
      /\ \A i \in 1..Len(stack) : /\ stack'[i].kind = stack[i].kind /\ stack'[i].sp = stack[i].sp
                                  /\ stack'[i].pc = stack[i].pc
  BY DEF Marks
<1>4. \A i \in 1..Len(stack') : OwnOK(stack[i])'
  BY <1>1, <1>3 DEF NestOK, SavepointsOK, OwnOK
<1>5. \A i, j \in 1..Len(stack') :
        i < j /\ stack'[i].kind = "inner" /\ stack'[j].kind = "inner" => stack'[i].sp < stack'[j].sp
  BY <1>3 DEF NestOK, SavepointsOK
<1> QED
  BY <1>2, <1>4, <1>5 DEF NestOK, SavepointsOK

\* A call that begins; a nested transaction takes the next number.
LEMMA NestBegins ==
    ASSUME StackOK, LayersOK, FieldsOK, NestOK, LayersSame,
           NEW kind, NEW point, NEW sp, NEW todo, Begins(kind, point, sp, todo),
           \/ kind # "inner" /\ counter' = counter
           \/ kind = "inner" /\ point = "begin" /\ counter' = counter + 1 /\ sp = counter'
    PROVE  NestOK'
<1>1. layers' = layers /\ counter \in Nat /\ counter' >= counter
  BY DEF LayersSame, FieldsOK
<1>2. \A j \in 1..Len(layers) : layers[j].name \in Nat /\ layers[j].name <= counter
  <2>1. ASSUME NEW j \in 1..Len(layers) PROVE layers[j].name \in Nat
    <3>1. layers[j] \in Layer
      BY DEF LayersOK
    <3> QED
      BY <3>1 DEF Layer
  <2> QED
    BY <2>1 DEF NestOK, NamesOK
<1>3. NamesOK'
  BY <1>1, <1>2 DEF NestOK, NamesOK
<1>4. /\ Len(stack) \in Nat /\ Len(stack') = Len(stack) + 1
      /\ \A i \in 1..Len(stack) : stack'[i] = stack[i]
      /\ stack'[Len(stack) + 1].kind = kind /\ stack'[Len(stack) + 1].pc = point
      /\ stack'[Len(stack) + 1].sp = sp
  BY DEF StackOK, Begins
<1>5. ASSUME NEW i \in 1..Len(stack), stack[i].kind = "inner"
      PROVE  /\ stack[i].sp \in Nat /\ stack[i].sp <= counter
             /\ stack[i].pc = "begin" => \A j \in 1..Len(layers) : layers[j].name < stack[i].sp
             /\ stack[i].pc # "begin" => \E j \in 1..Len(layers) : layers[j].name = stack[i].sp
  <2>1. stack[i] \in Frames /\ OwnOK(stack[i])
    BY DEF StackOK, NestOK, SavepointsOK
  <2>2. stack[i].sp \in Nat
    BY <2>1 DEF Frames
  <2> QED
    BY <1>5, <2>1, <2>2 DEF OwnOK
<1>6. ASSUME NEW i \in 1..Len(stack'), stack'[i].kind = "inner"
      PROVE  /\ stack'[i].sp <= counter'
             /\ stack'[i].pc = "begin" => \A j \in 1..Len(layers') : layers'[j].name < stack'[i].sp
             /\ stack'[i].pc # "begin" => \E j \in 1..Len(layers') : layers'[j].name = stack'[i].sp
  <2>1. CASE i \in 1..Len(stack)
    <3>1. stack'[i] = stack[i]
      BY <1>4, <2>1
    <3>2. stack[i].sp <= counter'
      BY <1>1, <1>5, <1>6, <2>1, <3>1
    <3> QED
      BY <1>1, <1>5, <1>6, <2>1, <3>1, <3>2
  <2>2. CASE i = Len(stack) + 1
    <3>1. point = "begin" /\ counter' = counter + 1 /\ sp = counter' /\ stack'[i].sp = sp /\ stack'[i].pc = point
      BY <1>4, <1>6, <2>2
    <3> QED
      BY <1>1, <1>2, <3>1
  <2> QED
    BY <1>4, <2>1, <2>2
<1>7. \A i \in 1..Len(stack') : OwnOK(stack[i])'
  BY <1>6 DEF OwnOK
<1>8. ASSUME NEW i \in 1..Len(stack'), NEW j \in 1..Len(stack'), i < j,
             stack'[i].kind = "inner", stack'[j].kind = "inner"
      PROVE  stack'[i].sp < stack'[j].sp
  <2>1. i \in 1..Len(stack) /\ stack'[i] = stack[i]
    BY <1>4, <1>8
  <2>2. CASE j \in 1..Len(stack)
    BY <1>4, <1>8, <2>1, <2>2 DEF NestOK, SavepointsOK
  <2>3. CASE j = Len(stack) + 1
    <3>1. stack[i].sp \in Nat /\ stack[i].sp <= counter /\ stack'[j].sp = counter + 1
      BY <1>4, <1>5, <1>8, <2>1, <2>3
    <3> QED
      BY <1>1, <2>1, <3>1
  <2> QED
    BY <1>4, <2>2, <2>3
<1> QED
  BY <1>3, <1>7, <1>8 DEF NestOK, SavepointsOK

\* A call that is over, without a savepoint of its own or with the savepoints
\* above its own gone.
LEMMA NestEnds ==
    ASSUME StackOK, LayersOK, NestOK, stack # <<>>, NEW failed \in BOOLEAN, Ends(failed), counter' = counter,
           NEW n \in 0..Len(layers), NamesKept(n),
           \/ n = Len(layers)
           \/ Top.kind = "inner" /\ \E m \in LayerOf(Top.sp) : n = m - 1 \/ n = m
    PROVE  NestOK'
<1>1. NamesOK'
  BY KeptNames DEF NestOK
<1>2. /\ Len(stack) \in Nat /\ Len(stack) > 0 /\ Len(stack') = Len(stack) - 1 /\ Top = stack[Len(stack)]
      /\ \A i \in 1..Len(stack') : /\ i \in 1..Len(stack) /\ i < Len(stack)
                                   /\ stack'[i].kind = stack[i].kind /\ stack'[i].sp = stack[i].sp
                                   /\ stack'[i].pc = stack[i].pc
  <2>1. Len(stack) \in Nat /\ Len(stack) > 0 /\ Len(stack') = Len(stack) - 1 /\ Top = stack[Len(stack)]
    BY TopFrame DEF Ends
  <2> QED
    BY <2>1 DEF Ends
<1>3. /\ Len(layers) \in Nat /\ Len(layers') = n
      /\ \A j \in 1..n : j \in 1..Len(layers) /\ layers'[j].name = layers[j].name
  BY DEF LayersOK, NamesKept
<1>4. ASSUME NEW i \in 1..Len(stack'), stack[i].kind = "inner", NEW j \in 1..Len(layers),
             layers[j].name = stack[i].sp
      PROVE  j \in 1..n
  <2>1. CASE n = Len(layers)
    BY <2>1
  <2>2. CASE Top.kind = "inner" /\ \E m \in LayerOf(Top.sp) : n = m - 1 \/ n = m
    <3>1. PICK m \in 1..Len(layers) : layers[m].name = Top.sp /\ (n = m - 1 \/ n = m)
      BY <2>2 DEF LayerOf
    <3>2. stack[i].sp < Top.sp
      <4>1. i \in 1..Len(stack) /\ Len(stack) \in 1..Len(stack) /\ i < Len(stack)
        BY <1>2
      <4> QED
        BY <1>2, <1>4, <2>2, <4>1 DEF NestOK, SavepointsOK
    <3>3. layers[j].name < layers[m].name
      BY <1>4, <3>1, <3>2
    <3>4. ASSUME m <= j PROVE FALSE
      <4>1. layers[j].name \in Nat /\ layers[m].name \in Nat
        <5>1. layers[j] \in Layer /\ layers[m] \in Layer
          BY DEF LayersOK
        <5> QED
          BY <5>1 DEF Layer
      <4>2. m < j => layers[m].name < layers[j].name
        BY DEF NestOK, NamesOK
      <4>3. m = j => layers[m].name = layers[j].name
        OBVIOUS
      <4>4. m < j \/ m = j
        BY <3>4
      <4> QED
        BY <3>3, <4>1, <4>2, <4>3, <4>4
    <3>5. j < m
      BY <3>4
    <3> QED
      BY <3>1, <3>5
  <2> QED
    BY <2>1, <2>2
<1>5. ASSUME NEW i \in 1..Len(stack'), stack'[i].kind = "inner"
      PROVE  /\ stack'[i].sp <= counter'
             /\ stack'[i].pc = "begin" => \A j \in 1..Len(layers') : layers'[j].name < stack'[i].sp
             /\ stack'[i].pc # "begin" => \E j \in 1..Len(layers') : layers'[j].name = stack'[i].sp
  <2>1. /\ i \in 1..Len(stack) /\ stack[i].kind = "inner" /\ OwnOK(stack[i]) /\ stack'[i].sp = stack[i].sp
        /\ stack'[i].pc = stack[i].pc
    BY <1>2, <1>5 DEF NestOK, SavepointsOK
  <2>2. /\ stack[i].sp <= counter
        /\ stack[i].pc = "begin" => \A j \in 1..Len(layers) : layers[j].name < stack[i].sp
        /\ stack[i].pc # "begin" => \E j \in 1..Len(layers) : layers[j].name = stack[i].sp
    BY <2>1 DEF OwnOK
  <2>3. ASSUME stack[i].pc # "begin"
        PROVE  \E j \in 1..Len(layers') : layers'[j].name = stack[i].sp
    <3>1. PICK j \in 1..Len(layers) : layers[j].name = stack[i].sp
      BY <2>2, <2>3
    <3>2. j \in 1..n
      BY <1>4, <2>1, <3>1
    <3> QED
      BY <1>3, <3>1, <3>2
  <2>4. ASSUME stack[i].pc = "begin"
        PROVE  \A j \in 1..Len(layers') : layers'[j].name < stack[i].sp
    BY <1>3, <2>2, <2>4
  <2> QED
    BY <2>1, <2>2, <2>3, <2>4
<1>6. \A i \in 1..Len(stack') : OwnOK(stack[i])'
  BY <1>5 DEF OwnOK
<1>7. \A i, j \in 1..Len(stack') :
        i < j /\ stack'[i].kind = "inner" /\ stack'[j].kind = "inner" => stack'[i].sp < stack'[j].sp
  BY <1>2 DEF NestOK, SavepointsOK
<1> QED
  BY <1>1, <1>6, <1>7 DEF NestOK, SavepointsOK

\* The same of the next state.
LEMMA QuietNests ==
    ASSUME stack' = <<>>, Base', CloseOK'
    PROVE  NestOK'
<1>1. Len(stack') = 0
  BY DEF Base, StackOK
<1>2. ~open'
  BY <1>1 DEF CloseOK, HeldOK, Held
<1>3. Len(layers') = 0
  BY <1>2 DEF Base, LayersOK
<1> QED
  BY <1>1, <1>3 DEF NestOK, NamesOK, SavepointsOK

\* A nested transaction sets its savepoint.
LEMMA NestSavepoint ==
    ASSUME StackOK, LayersOK, FieldsOK, ShapeOK, NestOK, stack # <<>>, Top.pc = "begin", Top.kind = "inner",
           NEW todo, GoesOn("body", todo), counter' = counter,
           Len(layers') = Len(layers) + 1, layers'[Len(layers) + 1].name = Top.sp,
           \A j \in 1..Len(layers) : layers'[j] = layers[j]
    PROVE  NestOK'
<1>1. /\ Len(stack) \in Nat /\ Len(stack) \in 1..Len(stack) /\ Top = stack[Len(stack)]
      /\ Len(layers) \in Nat
  BY TopFrame DEF LayersOK
<1>2. OwnOK(Top)
  BY <1>1 DEF NestOK, SavepointsOK
<1>3. Top.sp <= counter /\ \A j \in 1..Len(layers) : layers[j].name < Top.sp
  BY <1>2 DEF OwnOK
<1>4. NamesOK'
  <2>1. ASSUME NEW i \in 1..Len(layers'), NEW j \in 1..Len(layers'), i < j
        PROVE  layers'[i].name < layers'[j].name
    <3>1. i \in 1..Len(layers)
      BY <1>1, <2>1
    <3>2. CASE j \in 1..Len(layers)
      BY <2>1, <3>1, <3>2 DEF NestOK, NamesOK
    <3>3. CASE j = Len(layers) + 1
      BY <1>3, <3>1, <3>3
    <3> QED
      BY <1>1, <3>2, <3>3
  <2>2. ASSUME NEW j \in 1..Len(layers')
        PROVE  layers'[j].name <= counter'
    <3>1. CASE j \in 1..Len(layers)
      BY <3>1 DEF NestOK, NamesOK
    <3>2. CASE j = Len(layers) + 1
      BY <1>3, <3>2
    <3> QED
      BY <1>1, <3>1, <3>2
  <2> QED
    BY <2>1, <2>2 DEF NamesOK
<1>5. /\ Len(stack') = Len(stack)
      /\ \A i \in 1..Len(stack) : /\ stack'[i].kind = stack[i].kind /\ stack'[i].sp = stack[i].sp
                                  /\ i # Len(stack) => stack'[i] = stack[i]
      /\ stack'[Len(stack)].pc = "body"
  BY <1>1 DEF GoesOn
<1>6. ASSUME NEW i \in 1..Len(stack'), stack'[i].kind = "inner"
      PROVE  /\ stack'[i].sp <= counter'
             /\ stack'[i].pc = "begin" => \A j \in 1..Len(layers') : layers'[j].name < stack'[i].sp
             /\ stack'[i].pc # "begin" => \E j \in 1..Len(layers') : layers'[j].name = stack'[i].sp
  <2>1. i \in 1..Len(stack) /\ stack[i].kind = "inner" /\ OwnOK(stack[i]) /\ stack'[i].sp = stack[i].sp
    BY <1>5, <1>6 DEF NestOK, SavepointsOK
  <2>2. stack'[i].sp <= counter'
    BY <2>1 DEF OwnOK
  <2>3. stack'[i].pc # "begin"
    <3>1. CASE i = Len(stack)
      BY <1>5, <3>1
    <3>2. CASE i < Len(stack)
      BY <1>5, <2>1, <3>2 DEF ShapeOK
    <3> QED
      BY <1>1, <2>1, <3>1, <3>2
  <2>4. \E j \in 1..Len(layers') : layers'[j].name = stack'[i].sp
    <3>1. CASE i = Len(stack)
      <4>1. Len(layers) + 1 \in 1..Len(layers') /\ layers'[Len(layers) + 1].name = stack'[i].sp
        BY <1>1, <2>1, <3>1
      <4> QED
        BY <4>1
    <3>2. CASE i < Len(stack)
      <4>1. stack[i].pc # "begin"
        BY <2>1, <3>2 DEF ShapeOK
      <4>2. PICK j \in 1..Len(layers) : layers[j].name = stack[i].sp
        BY <2>1, <4>1 DEF OwnOK
      <4>3. j \in 1..Len(layers') /\ layers'[j].name = stack'[i].sp
        BY <1>1, <2>1, <4>2
      <4> QED
        BY <4>3
    <3> QED
      BY <1>1, <2>1, <3>1, <3>2
  <2> QED
    BY <2>2, <2>3, <2>4
<1>7. \A i \in 1..Len(stack') : OwnOK(stack[i])'
  BY <1>6 DEF OwnOK
<1>8. \A i, j \in 1..Len(stack') :
        i < j /\ stack'[i].kind = "inner" /\ stack'[j].kind = "inner" => stack'[i].sp < stack'[j].sp
  BY <1>5 DEF NestOK, SavepointsOK
<1> QED
  BY <1>4, <1>7, <1>8 DEF NestOK, SavepointsOK

\* Every step keeps the savepoints nested.
LEMMA NestStep ==
    ASSUME Disciplined, CommitsEnd, Base, CloseOK, FrameworkOK, NestOK, [Next]_vars
    PROVE  NestOK'
<1>1. /\ StackOK /\ LayersOK /\ FieldsOK /\ ShapeOK /\ TRUE \in BOOLEAN /\ FALSE \in BOOLEAN
      /\ Len(layers) \in 0..Len(layers)
  BY DEF Base, FrameworkOK, LayersOK
<1>2. Base' /\ CloseOK' /\ FrameworkOK' /\ ShapeOK'
  BY BaseStep, CloseStep, FrameworkStep DEF FrameworkOK
<1>3. ASSUME stack' = <<>> PROVE NestOK'
  BY <1>2, <1>3, QuietNests
<1>4. ASSUME stack # <<>>
      PROVE  /\ Top.kind \in {"outer", "commit"} => Len(stack) = 1
             /\ Fits(Top.kind, Top.pc, Transactions)
  BY <1>1, <1>4, ShapeFacts
<1>5. LayersSame /\ made' = made => NamesKept(Len(layers))
  BY <1>1, SameLayers
<1>6. CASE setup' = setup /\ Change
  <2>1. Marks /\ LayersSame /\ counter' = counter
    BY <1>6, ChangeStep
  <2> QED
    BY <1>1, <2>1, NestSame
<1>7. CASE setup' = setup /\ (Flush \/ Commit \/ Transaction)
  <2>1. LayersSame
    BY <1>7, CallStep
  <2>2. ASSUME NEW kind, NEW point, NEW sp, NEW todo, Begins(kind, point, sp, todo),
               kind # "inner", counter' = counter
        PROVE  NestOK'
    BY <1>1, <2>1, <2>2, NestBegins
  <2>3. CASE Begins("inner", "begin", counter', {}) /\ counter' = counter + 1
    BY <1>1, <2>1, <2>3, NestBegins
  <2>4. CASE Begins("flush", "flush1", 0, dirty) /\ counter' = counter
    BY <2>2, <2>4
  <2>5. CASE Begins("commit", "begin", 0, {}) /\ counter' = counter
    BY <2>2, <2>5
  <2>6. CASE Begins("bare", "before", 0, {}) /\ counter' = counter
    BY <2>2, <2>6
  <2>7. CASE Begins("bare", "body", 0, {}) /\ counter' = counter
    BY <2>2, <2>7
  <2>8. CASE Begins("outer", "begin", 0, {}) /\ counter' = counter
    BY <2>2, <2>8
  <2> QED
    BY <1>7, <2>3, <2>4, <2>5, <2>6, <2>7, <2>8, CallStep, Zenon
<1>8. CASE setup' = setup /\ Rollback
  <2>1. stack = <<>> /\ Marks
    BY <1>1, <1>8, DisciplineLeaves, RollbackStep
  <2>2. stack' = <<>>
    BY <2>1, <1>2 DEF Marks, Base, StackOK
  <2> QED
    BY <1>3, <2>2
<1>9. CASE setup' = setup /\ Dispose
  <2>1. stack' = <<>>
    BY <1>9, DisposeStep
  <2> QED
    BY <1>3, <2>1
<1>10. ASSUME NEW failed \in BOOLEAN, stack # <<>>, Ends(failed), LayersSame, counter' = counter, made' = made
       PROVE  NestOK'
  BY <1>1, <1>5, <1>10, NestEnds
<1>11. ASSUME stack # <<>>, NEW point, NEW todo, GoesOn(point, todo), point # "begin", Top.pc # "begin",
              LayersSame, counter' = counter, made' = made
       PROVE  NestOK'
  BY <1>1, <1>5, <1>11, NestGoesOn
<1>12. ASSUME stack # <<>>, Throw, LayersSame, counter' = counter, made' = made, Top.pc # "begin",
              UNCHANGED <<setup, depth, counter, pendingVars, connVars, committed, made>>
       PROVE  NestOK'
  <2>1. GoesOn("undo", {}) \/ Ends(TRUE)
    BY <1>12, ThrowStep
  <2>2. CASE GoesOn("undo", {})
    BY <1>11, <1>12, <2>2
  <2>3. CASE Ends(TRUE)
    BY <1>1, <1>10, <1>12, <2>3
  <2> QED
    BY <2>1, <2>2, <2>3
<1>13. CASE setup' = setup /\ (BodyReturns \/ BodyThrows \/ FlushFailed \/ ReleaseFailed)
  <2>1. stack # <<>> /\ Top.pc # "begin" /\ LayersSame /\ counter' = counter /\ made' = made
    BY <1>13, BodyStep DEF BodyReturns, BodyThrows, FlushFailed, ReleaseFailed, InterceptorThrows, At
  <2>2. UNCHANGED <<setup, depth, counter, pendingVars, connVars, committed, made>>
    BY <1>13 DEF BodyReturns, BodyThrows, FlushFailed, ReleaseFailed
  <2>3. CASE Throw
    BY <1>12, <2>1, <2>2, <2>3
  <2>4. CASE GoesOn("before", {})
    BY <1>11, <2>1, <2>4
  <2> QED
    BY <1>13, <2>3, <2>4, BodyStep
<1>14. CASE setup' = setup /\ Begun
  <2>1. /\ stack # <<>> /\ Top.pc = "begin" /\ Top.kind \in {"outer", "commit"} /\ counter' = counter
        /\ ~open => Len(layers') = 1 /\ layers'[1].name = 0
        /\ GoesOn("body", {}) \/ GoesOn("before", {})
    BY <1>14, BegunStep
  <2>2. ~open
    <3>1. Len(stack) = 1 /\ Top = stack[1]
      BY <1>1, <1>4, <2>1, ShapeFacts
    <3>2. ~Held
      BY <2>1, <3>1 DEF Held, Holds
    <3> QED
      BY <3>2 DEF CloseOK, HeldOK
  <2>3. NamesOK'
    <3>1. counter' \in Nat /\ Len(layers') = 1 /\ layers'[1].name = 0
      BY <1>1, <2>1, <2>2 DEF FieldsOK
    <3> QED
      BY <3>1 DEF NamesOK
  <2>4. CASE GoesOn("body", {})
    BY <1>1, <2>1, <2>3, <2>4, NestAlone
  <2>5. CASE GoesOn("before", {})
    BY <1>1, <2>1, <2>3, <2>5, NestAlone
  <2> QED
    BY <2>1, <2>4, <2>5
<1>15. CASE setup' = setup /\ (BeginFailed \/ SavepointFailed)
  <2>1. stack # <<>> /\ Ends(TRUE) /\ LayersSame /\ counter' = counter /\ made' = made
    BY <1>15, RefusedStep
  <2> QED
    BY <1>1, <1>10, <2>1
<1>16. CASE setup' = setup /\ SavepointSet
  <2>1. /\ stack # <<>> /\ Top.pc = "begin" /\ Top.kind = "inner" /\ GoesOn("body", {}) /\ counter' = counter
        /\ Len(layers') = Len(layers) + 1 /\ layers'[Len(layers) + 1].name = Top.sp
        /\ \A j \in 1..Len(layers) : layers'[j] = layers[j]
    BY <1>16, SavepointStep
  <2> QED
    BY <1>1, <2>1, NestSavepoint
<1>17. CASE setup' = setup /\ (Flushed \/ Processed)
  <2>1. /\ stack # <<>> /\ Top.pc \in {"flush1", "links", "flush2"} /\ NamesKept(Len(layers)) /\ counter' = counter
        /\ \E c \in Top.todo : GoesOn(Top.pc, Top.todo \ {c})
    BY <1>17, StatementStep
  <2>2. Top.pc # "begin"
    BY <2>1
  <2> QED
    BY <1>1, <2>1, <2>2, NestGoesOn
<1>18. CASE /\ setup' = setup
            /\ \/ Intercepted /\ UNCHANGED <<depth, counter, pendingVars, connVars, committed, made>>
               \/ stack # <<>> /\ PassOver
  <2>1. /\ stack # <<>> /\ LayersSame /\ counter' = counter /\ made' = made
        /\ Top.pc \in {"before", "after", "flush1", "links", "flush2"}
    BY <1>18, PassStep
  <2>2. Top.pc # "begin"
    BY <2>1
  <2>3. CASE Top.pc = "after" /\ Throw
    <3>1. Intercepted /\ UNCHANGED <<setup, depth, counter, pendingVars, connVars, committed, made>>
      BY <1>18, <2>3 DEF PassOver, At
    <3> QED
      BY <1>12, <2>1, <2>2, <2>3, <3>1
  <2>4. CASE Ends(FALSE)
    BY <1>1, <1>10, <2>1, <2>4
  <2>5. CASE GoesOn("flush1", dirty)
    BY <1>11, <2>1, <2>2, <2>5
  <2>6. CASE GoesOn("dispatch", {})
    BY <1>11, <2>1, <2>2, <2>6
  <2>7. CASE GoesOn("end", {})
    BY <1>11, <2>1, <2>2, <2>7
  <2>8. CASE GoesOn("links", links)
    BY <1>11, <2>1, <2>2, <2>8
  <2>9. CASE GoesOn("flush2", dirty)
    BY <1>11, <2>1, <2>2, <2>9
  <2>10. CASE GoesOn("after", {})
    BY <1>11, <2>1, <2>2, <2>10
  <2> QED
    BY <1>18, <2>3, <2>4, <2>5, <2>6, <2>7, <2>8, <2>9, <2>10, PassStep, Zenon
<1>19. CASE setup' = setup /\ Committed
  <2>1. /\ stack # <<>> /\ Top.kind \in {"outer", "commit"} /\ GoesOn("dispatch", {}) /\ Len(layers') = 0
    BY <1>19, CommittedStep
  <2>2. NamesOK'
    BY <2>1 DEF NamesOK
  <2> QED
    BY <1>1, <2>1, <2>2, NestAlone
<1>20. CASE setup' = setup /\ CommitFailed
  <2>1. /\ stack # <<>> /\ Top.kind \in {"outer", "commit"} /\ GoesOn("undo", {})
        /\ Len(layers') = 0 \/ LayersSame
        /\ counter' = counter /\ made' = made
    BY <1>20, CommitFailedStep
  <2>2. NamesOK'
    <3>1. CASE Len(layers') = 0
      BY <3>1 DEF NamesOK
    <3>2. CASE LayersSame
      BY <2>1, <3>2 DEF NestOK, NamesOK, LayersSame
    <3> QED
      BY <2>1, <3>1, <3>2
  <2> QED
    BY <1>1, <2>1, <2>2, NestAlone
<1>21. CASE setup' = setup /\ SavepointReleased
  <2>1. /\ stack # <<>> /\ Top.pc = "end" /\ Top.kind = "inner" /\ Ends(FALSE) /\ Leave(depth, rollbackOnly)
        /\ NamesKept(Len(layers)) \/ \E i \in LayerOf(Top.sp) : NamesKept(i - 1)
    BY <1>21, ReleasedStep
  <2>2. counter' = counter
    BY <2>1, InnerLeaves
  <2>3. CASE NamesKept(Len(layers))
    BY <1>1, <2>1, <2>2, <2>3, NestEnds
  <2>4. CASE \E i \in LayerOf(Top.sp) : NamesKept(i - 1)
    <3>1. PICK i \in LayerOf(Top.sp) : NamesKept(i - 1)
      BY <2>4
    <3>2. i - 1 \in 0..Len(layers) /\ \E m \in LayerOf(Top.sp) : i - 1 = m - 1 \/ i - 1 = m
      BY <1>1 DEF LayerOf
    <3> QED
      BY <1>1, <2>1, <2>2, <3>1, <3>2, NestEnds
  <2> QED
    BY <2>1, <2>3, <2>4
<1>22. CASE setup' = setup /\ Dispatched
  <2>1. /\ stack # <<>> /\ Top.pc = "dispatch" /\ Ends(FALSE) /\ LayersSame /\ made' = made
        /\ Top.kind # "outer" => counter' = counter
    BY <1>22, DispatchedStep
  <2>2. CASE Top.kind = "outer"
    <3>1. stack' = <<>>
      BY <1>1, <1>4, <2>1, <2>2, FirstEnds
    <3> QED
      BY <1>3, <3>1
  <2>3. CASE Top.kind # "outer"
    BY <1>1, <1>10, <2>1, <2>3
  <2> QED
    BY <2>2, <2>3
<1>23. CASE setup' = setup /\ HandlerThrows
  <2>1. /\ stack # <<>> /\ Top.pc = "dispatch" /\ LayersSame /\ counter' = counter /\ made' = made
        /\ GoesOn("undo", {}) \/ Ends(TRUE)
    BY <1>23, HandlerStep
  <2>2. CASE GoesOn("undo", {})
    BY <1>11, <2>1, <2>2
  <2>3. CASE Ends(TRUE)
    BY <1>1, <1>10, <2>1, <2>3
  <2> QED
    BY <2>1, <2>2, <2>3
<1>24. CASE setup' = setup /\ (OuterUndone \/ CommitUndone)
  <2>1. stack # <<>> /\ Ends(TRUE) /\ Top.kind \in {"outer", "commit"}
    BY <1>24, UndoneStep
  <2>2. stack' = <<>>
    BY <1>1, <1>4, <2>1, FirstEnds
  <2> QED
    BY <1>3, <2>2
<1>25. CASE setup' = setup /\ InnerUndone
  <2>1. /\ stack # <<>> /\ Top.pc = "undo" /\ Top.kind = "inner" /\ Ends(TRUE) /\ Leave(depth, rollbackOnly)
        /\ NamesKept(Len(layers)) \/ \E i \in LayerOf(Top.sp) : NamesKept(i)
    BY <1>25, InnerUndoneStep
  <2>2. counter' = counter
    BY <2>1, InnerLeaves
  <2>3. CASE NamesKept(Len(layers))
    BY <1>1, <2>1, <2>2, <2>3, NestEnds
  <2>4. CASE \E i \in LayerOf(Top.sp) : NamesKept(i)
    <3>1. PICK i \in LayerOf(Top.sp) : NamesKept(i)
      BY <2>4
    <3>2. i \in 0..Len(layers) /\ \E m \in LayerOf(Top.sp) : i = m - 1 \/ i = m
      BY <1>1 DEF LayerOf
    <3> QED
      BY <1>1, <2>1, <2>2, <3>1, <3>2, NestEnds
  <2> QED
    BY <2>1, <2>3, <2>4
<1>26. CASE UNCHANGED vars
  <2>1. LayersSame /\ counter' = counter /\ stack' = stack
    BY <1>26 DEF vars, connVars, sessionVars, LayersSame
  <2> QED
    BY <1>1, <2>1, NestSame
<1> QED
  BY <1>6, <1>7, <1>8, <1>9, <1>13, <1>14, <1>15, <1>16, <1>17, <1>18, <1>19, <1>20, <1>21, <1>22,
     <1>23, <1>24, <1>25, <1>26, OrderlyCases

\* Every transaction() in its try block has a savepoint of its own, and the
\* savepoints are nested as the calls are: RELEASE and ROLLBACK TO of a call reach
\* its own statements and those of the calls in it (OrmSession.transaction), on a
\* connection that was given in no other transaction.
THEOREM SavepointsAreNested ==
    ASSUME Disciplined, CommitsEnd
    PROVE  Spec => []SavepointsNest
<1>1. Init => NestOK
  <2> SUFFICES ASSUME Init PROVE NestOK
    OBVIOUS
  <2>1. stack = <<>>
    BY DEF Init
  <2> QED
    BY <2>1, InitBase, InitClose, NestQuiet
<1>2. Base /\ CloseOK /\ FrameworkOK /\ NestOK /\ [Next]_vars => NestOK'
  BY NestStep
<1>3. Base /\ NestOK => SavepointsNest
  <2> SUFFICES ASSUME Base, NestOK PROVE SavepointsNest
    OBVIOUS
  <2>1. LayersOK /\ NamesOK /\ SavepointsOK /\ Len(layers) \in Nat
    BY DEF Base, NestOK, LayersOK
  <2>2. ASSUME NEW i \in 1..Len(layers), NEW j \in 1..Len(layers)
        PROVE  /\ layers[i].name < layers[j].name => i < j
               /\ layers[i].name = layers[j].name => i = j
    <3>1. layers[i] \in Layer /\ layers[j] \in Layer
      BY <2>1 DEF LayersOK
    <3>2. layers[i].name \in Nat /\ layers[j].name \in Nat
      BY <3>1 DEF Layer
    <3>3. /\ i < j => layers[i].name < layers[j].name
          /\ j < i => layers[j].name < layers[i].name
      BY <2>1 DEF NamesOK
    <3> QED
      BY <3>2, <3>3
  <2>3. ASSUME NEW i \in Entered, stack[i].kind = "inner"
        PROVE  i \in 1..Len(stack) /\ LayerOf(stack[i].sp) # {}
    <3>1. i \in 1..Len(stack) /\ stack[i].pc # "begin" /\ OwnOK(stack[i])
      BY <2>1 DEF Entered, SavepointsOK
    <3>2. \E m \in 1..Len(layers) : layers[m].name = stack[i].sp
      BY <2>3, <3>1 DEF OwnOK
    <3> QED
      BY <3>1, <3>2 DEF LayerOf
  <2>4. ASSUME NEW i \in Entered, NEW j \in Entered, stack[i].kind = "inner", stack[j].kind = "inner", i < j,
               NEW m \in LayerOf(stack[i].sp), NEW n \in LayerOf(stack[j].sp)
        PROVE  m < n
    <3>1. stack[i].sp < stack[j].sp
      BY <2>1, <2>3, <2>4 DEF SavepointsOK
    <3>2. /\ m \in 1..Len(layers) /\ layers[m].name = stack[i].sp
          /\ n \in 1..Len(layers) /\ layers[n].name = stack[j].sp
      BY DEF LayerOf
    <3> QED
      BY <2>2, <3>1, <3>2
  <2> QED
    BY <2>2, <2>3, <2>4 DEF SavepointsNest
<1> QED
  BY <1>1, <1>2, <1>3, Invariance, PTL DEF Spec
=============================================================================
