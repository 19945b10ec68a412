---------------------------- MODULE MCUnitOfWork ----------------------------
(* Instances of UnitOfWork for TLC. *)
EXTENDS UnitOfWork, TLC

Symmetric == Permutations(Entities) \cup Permutations(Keys) \cup Permutations(Values)
=============================================================================
