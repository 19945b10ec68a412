------------------------------- MODULE Forest -------------------------------
(***************************************************************************)
(* What a tree manager promises: an ordered forest, whose operations move  *)
(* one node with all that is below it and leave everything else as it is.  *)
(* A failure may leave it broken, until it is rebuilt from its parents.    *)
(***************************************************************************)
EXTENDS Naturals, Sequences, SequencesExt

CONSTANTS Nodes, Root

VARIABLES kids,   \* the children of every node, and the roots, in order
          broken

Present == UNION {ToSet(kids[p]) : p \in Nodes \cup {Root}}
ParentOf(n) == CHOOSE p \in Nodes \cup {Root} : n \in ToSet(kids[p])

\* A node and all that is below it.
Below(n) ==
  LET under[m \in Nodes] == {m} \cup UNION {under[c] : c \in ToSet(kids[m])}
  IN  under[n]

Init == kids = [p \in Nodes \cup {Root} |-> <<>>] /\ broken = FALSE

Without(n) == [p \in Nodes \cup {Root} |-> Remove(kids[p], n)]

AddLast(n, p) ==
  /\ n \notin Present /\ p \in Present \cup {Root}
  /\ kids' = [kids EXCEPT ![p] = Append(@, n)]

MoveLast(n, p) ==
  /\ n \in Present /\ p \in (Present \cup {Root}) \ Below(n)
  /\ kids' = [Without(n) EXCEPT ![p] = Append(@, n)]

Exchange(n) ==
  /\ n \in Present
  /\ LET p == ParentOf(n)
         i == SelectInSeq(kids[p], LAMBDA m : m = n)
     IN  /\ i > 1
         /\ kids' = [kids EXCEPT ![p] = [@ EXCEPT ![i] = kids[p][i - 1], ![i - 1] = n]]

\* The children take the place of their parent, which becomes the last root.
Detach(n) ==
  /\ n \in Present
  /\ LET p == ParentOf(n)
         i == SelectInSeq(kids[p], LAMBDA m : m = n)
         promoted == [kids EXCEPT ![p] = ReplaceFirstSubSeq(kids[n], <<n>>, @), ![n] = <<>>]
     IN  kids' = [promoted EXCEPT ![Root] = Append(@, n)]

Delete(n) ==
  /\ n \in Present
  /\ kids' = [p \in Nodes \cup {Root} |->
                IF p \in Below(n) THEN <<>> ELSE Remove(kids[p], n)]

\* Siblings go in the order of their keys.
Rebuild == kids' = [p \in Nodes \cup {Root} |-> SetToSortSeq(ToSet(kids[p]), <)]

Break == broken' = TRUE /\ UNCHANGED kids

\* Whatever the failure has left of the parents is the forest again.
Repair ==
  /\ broken /\ ~broken'
  /\ \A p \in Nodes \cup {Root} : IsSorted(kids'[p], <)

Operation(n, p) == AddLast(n, p) \/ MoveLast(n, p) \/ Exchange(n) \/ Detach(n) \/ Delete(n) \/ Rebuild

Next ==
  \/ \E n \in Nodes, p \in Nodes \cup {Root} : ~broken /\ Operation(n, p) /\ UNCHANGED broken
  \/ Break
  \/ Repair

Spec == Init /\ [][Next]_<<kids, broken>>

=============================================================================
