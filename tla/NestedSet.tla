------------------------------ MODULE NestedSet ------------------------------
(***************************************************************************)
(* The algebra of nested sets (nested-set-strategy.ts), the conditions of  *)
(* the tree queries (tree-query.ts) and the UPDATE statements of the tree  *)
(* manager, as operators on a table: a partial function from keys to rows  *)
(* [lft, rght, parent, depth].  Keys are positive numbers; Root is NULL.   *)
(***************************************************************************)
EXTENDS Integers, Sequences, FiniteSets, SequencesExt

Root == 0

Row(parent, lft, rght, depth) == [parent |-> parent, lft |-> lft, rght |-> rght, depth |-> depth]

(***************************************************************************)
(* NestedSetStrategy: bounds of one or two nodes.                          *)
(***************************************************************************)

ChildCount(b) == (b.rght - b.lft - 1) \div 2
IsLeaf(b) == b.rght - b.lft = 1
IsAncestorOf(a, b) == a.lft < b.lft /\ a.rght > b.rght
SubtreeWidth(b) == b.rght - b.lft + 1

InsertAsFirstChild(parent) == [lft |-> parent.lft + 1, depth |-> parent.depth + 1] \* a mutant
InsertAsLastChild(parent) == [lft |-> parent.rght, depth |-> parent.depth + 1]
InsertAsRoot(maxRght) == [lft |-> maxRght + 1, depth |-> 0]

\* How far a node and its neighbour go when they change places (calculateMoveUp).
MoveUpShifts(node, sibling) ==
  [node |-> -SubtreeWidth(sibling), sibling |-> SubtreeWidth(node)]

(***************************************************************************)
(* Queries.                                                                *)
(***************************************************************************)

FindAncestorsOrSelf(t, b) == {n \in DOMAIN t : t[n].lft <= b.lft /\ t[n].rght >= b.rght} \* a mutant
FindAncestors(t, b)   == {n \in DOMAIN t : t[n].lft < b.lft /\ t[n].rght > b.rght}
FindDescendants(t, b) == {n \in DOMAIN t : t[n].lft > b.lft /\ t[n].rght < b.rght}
FindSubtree(t, b)     == {n \in DOMAIN t : t[n].lft >= b.lft /\ t[n].rght <= b.rght}
FindRoots(t)          == {n \in DOMAIN t : t[n].parent = Root}
FindLeaves(t)         == {n \in DOMAIN t : t[n].rght - t[n].lft = 1}
FindAtDepth(t, d)     == {n \in DOMAIN t : t[n].depth = d}

\* The parent is compared with =, which holds for no row when it is NULL.
FindDirectChildren(t, p) == {n \in DOMAIN t : p # Root /\ t[n].parent = p}

\* The elements of a set, ordered by a number that belongs to each (ORDER BY, sort()).
InOrder(S, number) ==
  CHOOSE s \in [1..Cardinality(S) -> S] :
    \A i, j \in DOMAIN s : i < j => s[i] # s[j] /\ number[s[i]] <= number[s[j]]

ByLeft(t, S) == InOrder(S, [n \in S |-> t[n].lft])

MaxRght(t) == IF DOMAIN t = {} THEN 0
              ELSE CHOOSE r \in {t[n].rght : n \in DOMAIN t} : \A n \in DOMAIN t : t[n].rght <= r

(***************************************************************************)
(* Whole trees: one pass over the rows ordered by lft, with a stack.       *)
(***************************************************************************)

\* The loops pop until the top of the stack is one of those to keep.
PopUntil(stack, keep) == SubSeq(stack, 1, SelectLastInSeq(stack, LAMBDA a : a \in keep))

PushUnlessLeaf(t, stack, n) == IF IsLeaf(t[n]) THEN stack ELSE Append(stack, n)

\* toThreaded(): the children of each node, those of Root being the result.
Threaded(t) ==
  LET visit(acc, n) ==
        LET stack == PopUntil(acc.stack, {a \in DOMAIN t : t[a].rght > t[n].rght})
            top == IF stack = <<>> THEN Root ELSE Last(stack)
        IN  [stack |-> PushUnlessLeaf(t, stack, n), kids |-> [acc.kids EXCEPT ![top] = Append(@, n)]]
  IN  FoldLeft(visit, [stack |-> <<>>, kids |-> [p \in DOMAIN t \cup {Root} |-> <<>>]],
               ByLeft(t, DOMAIN t)).kids

CalculateDepths(t) ==
  LET visit(acc, n) ==
        LET stack == PopUntil(acc.stack, {a \in DOMAIN t : t[a].rght >= t[n].lft})
        IN  [stack |-> PushUnlessLeaf(t, stack, n), depths |-> [acc.depths EXCEPT ![n] = Len(stack)]]
  IN  FoldLeft(visit, [stack |-> <<>>, depths |-> [n \in DOMAIN t |-> 0]], ByLeft(t, DOMAIN t)).depths

\* validateTree(): the nodes, or pairs of nodes, that it reports.
Errors(t) ==
  {<<n>> : n \in {i \in DOMAIN t : t[i].lft >= t[i].rght \/ t[i].lft < 1}} \cup
  {e \in (DOMAIN t) \X (DOMAIN t) :
     t[e[1]].lft < t[e[2]].lft /\ t[e[2]].lft < t[e[1]].rght /\ t[e[2]].rght > t[e[1]].rght}

(***************************************************************************)
(* recover(): a depth-first walk by parent, siblings in the order of keys. *)
(***************************************************************************)

Children(t, p) == LET S == {n \in DOMAIN t : t[n].parent = p} IN InOrder(S, [n \in S |-> n])

\* Every child twice, where its left and its right number are given out, around its own walk.
Tours(walk, children) == FoldLeft(LAMBDA acc, n : acc \o <<n>> \o walk[n] \o <<n>>, <<>>, children)

Tour(t) ==
  LET walk[p \in DOMAIN t \cup {Root}] == Tours(walk, Children(t, p))
  IN  walk[Root]

RecoverUpdates(t) ==
  LET tour == Tour(t)
      lft(n)   == SelectInSeq(tour, LAMBDA a : a = n)
      rght(n)  == SelectLastInSeq(tour, LAMBDA a : a = n)
      above(n) == {a \in ToSet(tour) : lft(a) < lft(n) /\ rght(n) < rght(a)}
      order == InOrder(ToSet(tour), [n \in ToSet(tour) |-> rght(n)])
  IN  [i \in DOMAIN order |->
        [node |-> order[i], lft |-> lft(order[i]), rght |-> rght(order[i]),
         depth |-> Cardinality(above(order[i]))]]

(***************************************************************************)
(* The statements of the tree manager, and what each does to the table.    *)
(***************************************************************************)

ShiftLft(from, by)  == [op |-> "lft", from |-> from, by |-> by]     \* WHERE lft > from
ShiftRght(from, by) == [op |-> "rght", from |-> from, by |-> by]    \* WHERE rght >= from
ShiftBlock(lo, hi, by, deeper) == [op |-> "block", lo |-> lo, hi |-> hi, by |-> by, deeper |-> deeper]
Adopt(from, to)     == [op |-> "adopt", from |-> from, to |-> to]
SetParent(n, p)     == [op |-> "parent", node |-> n, to |-> p]
SetBounds(n, l, r, d) == [op |-> "bounds", node |-> n, lft |-> l, rght |-> r, depth |-> d]
Place(n, row)       == [op |-> "place", node |-> n, row |-> row]
Insert(n, row)      == [op |-> "insert", node |-> n, row |-> row]
DeleteBlock(lo, hi) == [op |-> "delete", lo |-> lo, hi |-> hi]

Moved(row, s) == [row EXCEPT !.lft = @ + s.by, !.rght = @ + s.by, !.depth = @ + s.deeper]

Execute(t, s) ==
  CASE s.op = "lft"  -> [n \in DOMAIN t |-> IF t[n].lft > s.from THEN [t[n] EXCEPT !.lft = @ + s.by] ELSE t[n]]
    [] s.op = "rght" -> [n \in DOMAIN t |-> IF t[n].rght >= s.from THEN [t[n] EXCEPT !.rght = @ + s.by] ELSE t[n]]
    [] s.op = "block" -> [n \in DOMAIN t |-> IF n \in FindSubtree(t, [lft |-> s.lo, rght |-> s.hi])
                                             THEN Moved(t[n], s) ELSE t[n]]
    [] s.op = "adopt" -> [n \in DOMAIN t |-> IF t[n].parent = s.from THEN [t[n] EXCEPT !.parent = s.to] ELSE t[n]]
    [] s.op = "parent" -> [n \in DOMAIN t |-> IF n = s.node THEN [t[n] EXCEPT !.parent = s.to] ELSE t[n]]
    [] s.op = "bounds" -> [n \in DOMAIN t |-> IF n = s.node THEN Row(t[n].parent, s.lft, s.rght, s.depth) ELSE t[n]]
    [] s.op = "place" -> [n \in DOMAIN t |-> IF n = s.node THEN s.row ELSE t[n]]
    [] s.op = "insert" -> [n \in DOMAIN t \cup {s.node} |-> IF n = s.node THEN s.row ELSE t[n]]
    [] s.op = "delete" -> [n \in DOMAIN t \ FindSubtree(t, [lft |-> s.lo, rght |-> s.hi]) |-> t[n]]

ShiftForInsert(at, width) == <<ShiftRght(at, width), ShiftLft(at, width)>>
ShiftForDelete(rght, width) == <<ShiftLft(rght, -width), ShiftRght(rght + 1, -width)>>

=============================================================================
