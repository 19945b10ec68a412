------------------------------- MODULE Lending -------------------------------
(***************************************************************************)
(* What a resource pool promises its callers, without saying how: a        *)
(* resource is lent to one caller at a time, only while it is open, and is *)
(* closed only while nobody has it.  Pool.tla implements this module.      *)
(***************************************************************************)
CONSTANTS Callers, Resources, None

VARIABLES alive,   \* the resources that exist (created and not destroyed)
          lent     \* for every caller, the resource it may use, or None

vars == <<alive, lent>>

LentOut == {r \in Resources : \E c \in Callers : lent[c] = r}

Init == /\ alive = {}
        /\ lent = [c \in Callers |-> None]

\* A caller gets an open resource nobody has, possibly one opened for it.
Grant(c, r) ==
    /\ lent[c] = None
    /\ r \notin LentOut
    /\ lent' = [lent EXCEPT ![c] = r]
    /\ alive' = alive \cup {r}

Return(c) ==
    /\ lent[c] # None
    /\ lent' = [lent EXCEPT ![c] = None]
    /\ UNCHANGED alive

\* The resource goes from one caller straight to another.
HandOver(c, d) ==
    /\ lent[c] # None
    /\ lent[d] = None
    /\ lent' = [lent EXCEPT ![c] = None, ![d] = lent[c]]
    /\ UNCHANGED alive

Open(r) ==
    /\ r \notin alive
    /\ alive' = alive \cup {r}
    /\ UNCHANGED lent

Close(r) ==
    /\ r \notin LentOut
    /\ alive' = alive \ {r}
    /\ UNCHANGED lent

Next == \/ \E c \in Callers : \/ Return(c)
                              \/ \E r \in Resources : Grant(c, r)
                              \/ \E d \in Callers : HandOver(c, d)
        \/ \E r \in Resources : Open(r) \/ Close(r)

Spec == Init /\ [][Next]_vars
==============================================================================
