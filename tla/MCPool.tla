------------------------------- MODULE MCPool -------------------------------
(***************************************************************************)
(* Instances of Pool for TLC, and statements of the repository's comments  *)
(* and documents that the code does not keep.                              *)
(***************************************************************************)
EXTENDS Pool, TLC

CallersAndResources == Permutations(Callers) \cup Permutations(Resources)

\* pool-types.ts:2: max is the "Maximum number of live resources (idle + leased)".
WithinMax == Cardinality(idle) + leased <= Max

\* The same at rest, when every acquire() and release() is over.
AtRestWithinMax == Quiet => Cardinality(idle) <= Max

\* pool.ts:121: destroy() "waits for in-flight creations to settle".
DestroyWaitsForCreations == destroyed /\ closing = None => creating = 0

\* pool.ts:131: destroy() rejects "all waiters": none waits in a destroyed pool.
NoWaiterInDestroyedPool == destroyed => waiters = <<>>

\* pool.ts:78: acquire() must "Prefer idle": nobody waits next to an idle resource.
NobodyWaitsBesideIdle == waiters # <<>> => idle = {}

\* docs/pooling.md:7: "No leaks by default".
NoOrphanedLease == orphans = {}
=============================================================================
