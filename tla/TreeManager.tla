----------------------------- MODULE TreeManager -----------------------------
(***************************************************************************)
(* The tree manager of metal-orm (tree-manager.ts): each operation reads   *)
(* the bounds it needs, then sends a series of statements with numbers     *)
(* computed from what it has read.  Statements of several managers may     *)
(* interleave and each may throw.                                          *)
(***************************************************************************)
EXTENDS NestedSet

CONSTANTS Nodes,     \* the keys that rows may have
          Managers,  \* activities that use the tree
          Locked,    \* TRUE: a manager has the table to itself while it works
          Nested,    \* TRUE: a node may be moved below itself
          Downwards, \* TRUE: moveDown() of nodes that have a sibling below them
          Modes      \* "transaction": inside of session.transaction(); "autocommit"

ASSUME TreeAssumption ==
  /\ Nodes \subseteq Nat \ {Root}
  /\ {Locked, Nested, Downwards} \subseteq BOOLEAN
  /\ Modes \subseteq {"transaction", "autocommit"}

VARIABLES rows,   \* the table
          saved,  \* the table after the last operation that was carried out
          damaged,\* an operation ended half way and nothing has been rebuilt since
          call,   \* the operation that a manager is in
          mode,   \* whether it is in a transaction
          script  \* the statements that are left of it

vars == <<rows, saved, damaged, call, mode, script>>

Operations == {"idle", "insert", "moveTo", "moveUp", "moveDown", "remove", "delete", "recover"}

IsTable(t) ==
  /\ DOMAIN t \subseteq Nodes
  /\ t \in [DOMAIN t -> [parent : Nodes \cup {Root}, lft : Int, rght : Int, depth : Int]]

Init ==
  /\ rows = <<>> /\ saved = <<>> /\ damaged = FALSE
  /\ call = [m \in Managers |-> "idle"]
  /\ mode = [m \in Managers |-> "autocommit"]
  /\ script = [m \in Managers |-> <<>>]

Offset == 10000000 \* beyond every bound

(***************************************************************************)
(* The statements of each operation.                                       *)
(***************************************************************************)

InsertScript(n, p) ==
  LET at == IF p = Root THEN InsertAsRoot(MaxRght(rows)) ELSE InsertAsLastChild(rows[p])
  IN  (IF p = Root THEN <<>> ELSE ShiftForInsert(at.lft, 2))
        \o <<Insert(n, Row(p, at.lft, at.lft + 1, at.depth))>>

\* moveSubtree(): the subtree is parked below zero, the gap closed, a new one opened.
MoveSubtree(n, target, p, depth) ==
  LET width == SubtreeWidth(rows[n])
      park == -Offset - rows[n].rght
      back == target - rows[n].lft - park
  IN  <<ShiftBlock(rows[n].lft, rows[n].rght, park, 0)>>
        \o ShiftForDelete(rows[n].rght, width)
        \o ShiftForInsert(target, width)
        \o <<ShiftBlock(rows[n].lft + park, rows[n].rght + park, back, depth - rows[n].depth),
             SetParent(n, p)>>

\* A mutant: as if closing the gap moved nothing.
MoveScriptUnadjusted(n, p) ==
  LET at == IF p = Root THEN InsertAsRoot(MaxRght(rows)) ELSE InsertAsLastChild(rows[p])
  IN  MoveSubtree(n, at.lft, p, at.depth)

MoveScript(n, p) ==
  LET at == IF p = Root THEN InsertAsRoot(MaxRght(rows)) ELSE InsertAsLastChild(rows[p])
      target == IF at.lft > rows[n].rght THEN at.lft - SubtreeWidth(rows[n]) ELSE at.lft
  IN  MoveSubtree(n, target, p, at.depth)

\* swapNodes(a, b): a goes out of the way, b moves, a comes back.
Swap(a, b) ==
  LET shift == MoveUpShifts(rows[a], rows[b])
  IN  <<ShiftBlock(rows[a].lft, rows[a].rght, Offset, 0),
        ShiftBlock(rows[b].lft, rows[b].rght, shift.sibling, 0),
        ShiftBlock(rows[a].lft + Offset, 3 * Offset, shift.node - Offset, 0)>>

Siblings(n) == ByLeft(rows, FindDirectChildren(rows, rows[n].parent))
IndexAmong(n) == SelectInSeq(Siblings(n), LAMBDA s : s = n)

MoveUpScript(n) ==
  IF IndexAmong(n) <= 1 THEN <<>> ELSE Swap(n, Siblings(n)[IndexAmong(n) - 1])

MoveDownScript(n) ==
  IF IndexAmong(n) \in {0, Len(Siblings(n))} THEN <<>> ELSE Swap(n, Siblings(n)[IndexAmong(n) + 1])

RemoveScript(n) ==
  LET max == MaxRght(rows)
  IN  <<Adopt(n, rows[n].parent)>>
        \o (IF IsLeaf(rows[n]) THEN <<>>
            ELSE <<ShiftBlock(rows[n].lft + 1, rows[n].rght - 1, -1, -1)>>)
        \o ShiftForDelete(rows[n].rght, 2)
        \o <<Place(n, Row(Root, max - 1, max, 0))>>

DeleteScript(n) ==
  <<DeleteBlock(rows[n].lft, rows[n].rght)>> \o ShiftForDelete(rows[n].rght, SubtreeWidth(rows[n]))

RecoverScript ==
  LET updates == RecoverUpdates(rows)
  IN  [i \in DOMAIN updates |->
        SetBounds(updates[i].node, updates[i].lft, updates[i].rght, updates[i].depth)]

(***************************************************************************)
(* Operations.                                                             *)
(***************************************************************************)

Idle(m) == /\ call[m] = "idle"
           /\ Locked => \A o \in Managers : call[o] = "idle"

Start(m, operation, statements) ==
  /\ call' = [call EXCEPT ![m] = operation]
  /\ script' = [script EXCEPT ![m] = statements]
  /\ \E way \in Modes : mode' = [mode EXCEPT ![m] = way]
  /\ UNCHANGED <<rows, saved, damaged>>

InsertAsChild(m, n, p) ==
  /\ Idle(m) /\ ~damaged
  /\ n \notin DOMAIN rows /\ p \in DOMAIN rows \cup {Root}
  /\ Start(m, "insert", InsertScript(n, p))

\* Nobody looks whether the new parent is below the node.
Targets(n) == (DOMAIN rows \cup {Root}) \
              (IF Nested THEN {} ELSE FindSubtree(rows, rows[n]))

MoveTo(m, n, p) ==
  /\ Idle(m) /\ ~damaged
  /\ n \in DOMAIN rows /\ p \in Targets(n)
  /\ Start(m, "moveTo", MoveScript(n, p))

MoveUp(m, n) ==
  /\ Idle(m) /\ ~damaged /\ n \in DOMAIN rows
  /\ Start(m, "moveUp", MoveUpScript(n))

MoveDown(m, n) ==
  /\ Idle(m) /\ ~damaged /\ n \in DOMAIN rows
  /\ ~Downwards => MoveDownScript(n) = <<>>
  /\ Start(m, "moveDown", MoveDownScript(n))

RemoveFromTree(m, n) ==
  /\ Idle(m) /\ ~damaged /\ n \in DOMAIN rows
  /\ Start(m, "remove", RemoveScript(n))

DeleteSubtree(m, n) ==
  /\ Idle(m) /\ ~damaged /\ n \in DOMAIN rows
  /\ Start(m, "delete", DeleteScript(n))

Recover(m) ==
  /\ Idle(m)
  /\ Start(m, "recover", RecoverScript)

Statement(m) ==
  /\ script[m] # <<>>
  /\ rows' = Execute(rows, Head(script[m]))
  /\ script' = [script EXCEPT ![m] = Tail(@)]
  /\ UNCHANGED <<saved, damaged, call, mode>>

Return(m) ==
  /\ call[m] # "idle" /\ script[m] = <<>>
  /\ saved' = rows /\ damaged' = (damaged /\ call[m] # "recover")
  /\ call' = [call EXCEPT ![m] = "idle"]
  /\ mode' = [mode EXCEPT ![m] = "autocommit"]
  /\ UNCHANGED <<rows, script>>

\* A statement throws.  A transaction undoes the rest, save that recover() catches the
\* error and returns: what it has done so far is committed.
Throw(m) ==
  /\ script[m] # <<>>
  /\ IF mode[m] = "transaction" /\ call[m] # "recover"
     THEN rows' = saved /\ UNCHANGED damaged
     ELSE damaged' = TRUE /\ UNCHANGED rows
  /\ call' = [call EXCEPT ![m] = "idle"]
  /\ mode' = [mode EXCEPT ![m] = "autocommit"]
  /\ script' = [script EXCEPT ![m] = <<>>]
  /\ UNCHANGED saved

Next ==
  \E m \in Managers :
    \/ \E n \in Nodes, p \in Nodes \cup {Root} : InsertAsChild(m, n, p) \/ MoveTo(m, n, p)
    \/ \E n \in Nodes : MoveUp(m, n) \/ MoveDown(m, n) \/ RemoveFromTree(m, n) \/ DeleteSubtree(m, n)
    \/ Recover(m) \/ Statement(m) \/ Return(m) \/ Throw(m)

Spec == Init /\ [][Next]_vars

(***************************************************************************)
(* Properties.                                                             *)
(***************************************************************************)

\* Types; bounds may be anywhere while a subtree is parked.  Statements are left only of a call.
TypeOK ==
  /\ IsTable(rows) /\ IsTable(saved)
  /\ damaged \in BOOLEAN
  /\ call \in [Managers -> Operations]
  /\ mode \in [Managers -> {"transaction", "autocommit"}]
  /\ DOMAIN script = Managers
  /\ \A m \in Managers : call[m] = "idle" => script[m] = <<>>

Encloses(t, n) == {a \in DOMAIN t : IsAncestorOf(t[a], t[n])}

\* The numbers of n nodes are 1..2n, every node has two of its own, subtrees do not
\* overlap, the parent is the nearest node around, and depth counts the nodes around.
IsNestedSet(t) ==
  /\ {t[n].lft : n \in DOMAIN t} \cup {t[n].rght : n \in DOMAIN t} = 1..(2 * Cardinality(DOMAIN t))
  /\ \A n \in DOMAIN t :
       /\ t[n].lft < t[n].rght
       /\ t[n].depth = Cardinality(Encloses(t, n))
       /\ t[n].parent \in Encloses(t, n) \cup {Root}
       /\ (t[n].parent = Root) = (Encloses(t, n) = {})
       /\ \A a \in Encloses(t, n) : a = t[n].parent \/ IsAncestorOf(t[a], t[t[n].parent])
  /\ \A a, b \in DOMAIN t : a = b \/ IsAncestorOf(t[a], t[b]) \/ IsAncestorOf(t[b], t[a])
                                  \/ t[a].rght < t[b].lft \/ t[b].rght < t[a].lft

\* Every operation that was carried out, and every one that a transaction has undone, leaves a
\* nested set without gaps whose parents and depths agree with the bounds.
WellFormed ==
  /\ TypeOK
  /\ (~damaged /\ \A m \in Managers : call[m] = "idle") => rows = saved /\ IsNestedSet(rows)

KidsOf(t) == [p \in Nodes \cup {Root} |-> ByLeft(t, {n \in DOMAIN t : t[n].parent = p})]

\* The queries by bounds and the algorithms on lists of rows see the tree that the parents say:
\* paths, subtrees, leaves, counts, threaded trees, computed depths; validate() accepts it.
QueriesAgree ==
  LET under[n \in DOMAIN saved] == {n} \cup UNION {under[c] : c \in ToSet(KidsOf(saved)[n])}
  IN  /\ \A n \in DOMAIN saved :
           /\ FindDescendants(saved, saved[n]) = under[n] \ {n}
           /\ FindAncestors(saved, saved[n]) = {a \in DOMAIN saved : n \in under[a] /\ a # n}
           /\ ChildCount(saved[n]) = Cardinality(under[n]) - 1
           /\ (n \in FindLeaves(saved)) = (under[n] = {n})
           /\ n \in FindAtDepth(saved, Cardinality(FindAncestors(saved, saved[n])))
           /\ CalculateDepths(saved)[n] = saved[n].depth
      /\ \A p \in DOMAIN saved \cup {Root} : Threaded(saved)[p] = KidsOf(saved)[p]
      /\ FindRoots(saved) = ToSet(KidsOf(saved)[Root])
      /\ Errors(saved) = {}

Trees == INSTANCE Forest WITH kids <- KidsOf(saved), broken <- damaged

\* The operations do to the forest what their names say: the last child, one place up, the
\* children promoted in place, the subtree gone; all else keeps its place and its order.
ImplementsForest == Trees!Spec

=============================================================================
