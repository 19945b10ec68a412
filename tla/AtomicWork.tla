----------------------------- MODULE AtomicWork -----------------------------
(***************************************************************************)
(* What a unit of work promises: the changes made since the last save are  *)
(* saved together or not at all.  Session.tla implements this module.      *)
(***************************************************************************)
CONSTANT Changes

VARIABLES saved,    \* the changes that are in the database for good
          pending   \* the changes that were made and not decided on

vars == <<saved, pending>>

Init == saved = {} /\ pending = {}

Make(c) ==
    /\ c \notin saved \cup pending
    /\ pending' = pending \cup {c}
    /\ UNCHANGED saved

\* All of the pending changes become permanent in one step.
Save ==
    /\ saved' = saved \cup pending
    /\ pending' = {}

\* Some are given up: none of them is ever saved, as none is pending again.
GiveUp(gone) ==
    /\ pending' = pending \ gone
    /\ UNCHANGED saved

Next == \/ \E c \in Changes : Make(c)
        \/ Save
        \/ \E gone \in SUBSET pending : GiveUp(gone)

Spec == Init /\ [][Next]_vars
=============================================================================
