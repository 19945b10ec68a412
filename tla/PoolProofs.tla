----------------------------- MODULE PoolProofs -----------------------------
(***************************************************************************)
(* Theorems about Pool, for every number of callers and resources and      *)
(* every setting of the options.                                           *)
(*                                                                         *)
(* IInv, at the end, is the inductive invariant.  Its parts are the type   *)
(* invariant; CallsOK, what a suspended call holds; WaitOK, who is in the  *)
(* queue; Places, where the resources are; and the two counters.  Each     *)
(* part has a lemma that says every step of Pool preserves it.             *)
(***************************************************************************)
EXTENDS Pool, QueueLemmas, FiniteSetTheorems, TLAPS

-----------------------------------------------------------------------------
(* The parts of the inductive invariant *)

\* A suspended caller has no lease, and pc says what its call holds.
CallsOK ==
    \A c \in Callers :
      /\ pc[c] # "ready" => ~Live(c)
      /\ Live(c) => lease[c] # None
      /\ frame[c] # None <=> pc[c] \in Holding
      /\ serving[c] # None => pc[c] = "replacing"

\* Exclusive and NothingClosedIsUsed, resource by resource.
Places ==
    /\ \A c, d \in Callers :
         /\ Live(c) /\ Live(d) /\ lease[c] = lease[d] => c = d
         /\ frame[c] # None /\ frame[c] = frame[d] => c = d
         /\ Live(c) /\ frame[d] # None => lease[c] # frame[d]
    /\ \A c \in Callers :
         /\ Live(c) => lease[c] \in open \ (idle \cup orphans \cup {closing})
         /\ frame[c] # None => frame[c] \in open \ (idle \cup orphans \cup {closing})
    /\ \A kill \in reaping :
         /\ kill \subseteq open \ (idle \cup orphans \cup {closing})
         /\ \A c \in Callers : frame[c] \notin kill /\ (Live(c) => lease[c] \notin kill)
    /\ \A k1, k2 \in reaping : k1 # k2 => k1 \cap k2 = {}
    /\ idle \subseteq open \ orphans
    /\ orphans \subseteq open
    /\ closing # None => closing \in open \ (idle \cup orphans)

\* WaitersKept, caller by caller.
WaitOK ==
    /\ Distinct(waiters)
    /\ \A c, d \in Callers : serving[c] # None /\ serving[c] = serving[d] => c = d
    /\ \A c \in Callers : serving[c] \notin Elems(waiters)
    /\ \A c \in Callers : pc[c] = "waiting" <=> c \in Elems(waiters) \/ \E d \in Callers : serving[d] = c

CreatingCallers == {c \in Callers : pc[c] \in {"creating", "replacing"}}
LeasingCallers == {c \in Callers : Live(c)}
WarmCreates == IF warming THEN 1 ELSE 0

CreatingOK == creating = Cardinality(CreatingCallers) + WarmCreates
LeasedOK == leased = Cardinality(LeasingCallers) + Cardinality(orphans)

IInv == TypeOK /\ CallsOK /\ WaitOK /\ Places /\ CreatingOK /\ LeasedOK

-----------------------------------------------------------------------------
(* Types *)

\* A new pool has its types.
LEMMA TypeInit == ASSUME Init PROVE TypeOK
<1>1. warming \in BOOLEAN
  BY DEF Init
<1>2. creating \in Int
  <2>1. creating = 0 \/ creating = 1
    BY DEF Init
  <2> QED
    BY <2>1
<1>3. /\ leased \in Nat /\ waiters \in Seq(Callers) /\ idle \subseteq Resources /\ reaping \subseteq SUBSET Resources
      /\ open \subseteq Resources /\ orphans \subseteq Resources
  BY DEF Init
<1>4. /\ pc \in [Callers -> {"ready"} \cup Acquiring \cup Returning]
      /\ frame \in [Callers -> Resources \cup {None}]
      /\ serving \in [Callers -> Callers \cup {None}]
      /\ lease \in [Callers -> Resources \cup {None}]
      /\ done \in [Callers -> BOOLEAN]
      /\ closing \in Resources \cup {None}
  BY DEF Init
<1>5. destroyed \in BOOLEAN
  BY DEF Init
<1> QED
  BY <1>1, <1>2, <1>3, <1>4, <1>5 DEF TypeOK

\* warm() giving up keeps the types.
LEMMA TypeWarmFailed ==
    ASSUME TypeOK, WarmFailed
    PROVE  TypeOK'
<1>1. warming' \in BOOLEAN /\ creating' = creating - 1
  BY DEF WarmFailed
<1>2. creating' \in Int
  BY <1>1 DEF TypeOK
<1> QED
  BY <1>1, <1>2 DEF WarmFailed, TypeOK, poolVars, callVars

\* acquire() going on to create or to wait keeps the types.
LEMMA TypeMissed ==
    ASSUME TypeOK, NEW c \in Callers, Missed(c)
    PROVE  TypeOK'
<1>1. waiters' \in Seq(Callers)
  BY DEF Missed, TypeOK
<1>2. creating' \in Int
  BY DEF Missed, TypeOK
<1>3. pc' \in [Callers -> {"ready"} \cup Acquiring \cup Returning]
  BY DEF Missed, TypeOK, Acquiring
<1> QED
  BY <1>1, <1>2, <1>3 DEF Missed, TypeOK, poolVars, callVars, bgVars

\* Handing a released resource to the first waiter keeps the types.
LEMMA TypeReleaseToWaiter ==
    ASSUME TypeOK, NEW c \in Callers, ReleaseToWaiter(c)
    PROVE  TypeOK'
<1>1. Head(waiters) \in Callers /\ Tail(waiters) \in Seq(Callers)
  BY DEF ReleaseToWaiter, TypeOK
<1>2. leased' \in Nat
  BY DEF ReleaseToWaiter, TypeOK, Dec
<1> QED
  BY <1>1, <1>2 DEF ReleaseToWaiter, TypeOK, poolVars, callVars, bgVars

\* destroyResource() after the destruction keeps the types.
LEMMA TypeDropped ==
    ASSUME TypeOK, NEW c \in Callers, Dropped(c)
    PROVE  TypeOK'
<1>1. waiters # <<>> => Head(waiters) \in Callers /\ Tail(waiters) \in Seq(Callers)
  BY DEF TypeOK
<1>2. creating' \in Int
  BY DEF Dropped, TypeOK
<1>3. waiters' \in Seq(Callers) /\ serving' \in [Callers -> Callers \cup {None}]
  BY <1>1 DEF Dropped, TypeOK
<1>4. pc' \in [Callers -> {"ready"} \cup Acquiring \cup Returning]
  BY DEF Dropped, TypeOK, Returning
<1> QED
  BY <1>3, <1>2, <1>4, PoolAssumption DEF Dropped, TypeOK, poolVars, callVars, bgVars

\* destroyResource() with its replacement keeps the types.
LEMMA TypeReplaced ==
    ASSUME TypeOK, NEW c \in Callers, Replaced(c)
    PROVE  TypeOK'
<1>2. creating' \in Int
  BY DEF Replaced, TypeOK
<1>3. leased' \in Nat
  BY DEF Replaced, TypeOK
<1>4. pc' \in [Callers -> {"ready"} \cup Acquiring \cup Returning]
  BY DEF Replaced, TypeOK, Returning
<1>5. /\ open' \subseteq Resources /\ orphans' \subseteq Resources
      /\ lease' \in [Callers -> Resources \cup {None}]
  BY DEF Replaced, TypeOK
<1>6. done' \in [Callers -> BOOLEAN]
  <2>1. CASE done' = done
    BY <2>1 DEF TypeOK
  <2>2. CASE serving[c] # None /\ done' = [done EXCEPT ![serving[c]] = FALSE]
    BY <2>2 DEF TypeOK
  <2> QED
    BY <2>1, <2>2 DEF Replaced
<1>7. serving' \in [Callers -> Callers \cup {None}] /\ idle' \subseteq Resources
  BY DEF Replaced, TypeOK
<1> QED
  BY <1>2, <1>3, <1>4, <1>5, <1>6, <1>7 DEF Replaced, TypeOK, poolVars, callVars, bgVars

\* warm() stacking a new resource keeps the types.
LEMMA TypeWarmCreated ==
    ASSUME TypeOK, WarmCreated
    PROVE  TypeOK'
<1>1. warming' \in BOOLEAN 
  BY DEF WarmCreated, TypeOK
<1>2. creating' \in Int
  <2>1. creating' = creating \/ creating' = creating - 1
    BY DEF WarmCreated
  <2> QED
    BY <2>1 DEF TypeOK
<1>3. open' \subseteq Resources /\ idle' \subseteq Resources
  BY DEF TypeOK, WarmCreated
<1> QED
  BY <1>1, <1>2, <1>3 DEF WarmCreated, TypeOK, poolVars, callVars

\* Every step keeps the types.
LEMMA TypeStep ==
    ASSUME TypeOK, Next
    PROVE  TypeOK'
<1> USE PoolAssumption
<1>1. ASSUME NEW c \in Callers, Acquire(c) PROVE TypeOK'
  BY <1>1 DEF Acquire, TypeOK, Acquiring, Returning, TakeIdle, bgVars
<1>2. ASSUME NEW c \in Callers, AcquireRefused(c) PROVE TypeOK'
  BY <1>2
    DEF AcquireRefused, TypeOK, Acquiring, Returning, poolVars, callVars,
        bgVars, vars
<1>3. ASSUME NEW c \in Callers, Timeout(c) PROVE TypeOK'
  <2>1. waiters' \in Seq(Callers)
    <3>1. waiters \in Seq(Callers)
      BY DEF TypeOK
    <3>2. \A i \in 1..Len(waiters) : Splice(i) \in Seq(Callers)
      BY <3>1, SpliceProperties DEF Splice
    <3> QED
      BY <1>3, <3>1, <3>2 DEF Timeout
  <2> QED
    BY <1>3, <2>1 DEF Timeout, TypeOK, bgVars
<1>4. ASSUME NEW c \in Callers, ReleaseClosed(c) PROVE TypeOK'
  BY <1>4
    DEF ReleaseClosed, TypeOK, Acquiring, Returning, CanReturn, Dec, bgVars
<1>5. ASSUME NEW c \in Callers, ReleaseToWaiter(c) PROVE TypeOK'
  BY <1>5, TypeReleaseToWaiter
<1>6. ASSUME NEW c \in Callers, ReleaseToIdle(c) PROVE TypeOK'
  BY <1>6
    DEF ReleaseToIdle, TypeOK, Acquiring, Returning, Trim, CanReturn, Dec,
        bgVars
<1>7. ASSUME NEW c \in Callers, Drop(c) PROVE TypeOK'
  BY <1>7 DEF Drop, TypeOK, Acquiring, Returning, CanReturn, Dec, bgVars
<1>8. ASSUME NEW c \in Callers, Validated(c) PROVE TypeOK'
  BY <1>8 DEF Validated, TypeOK, Acquiring, Returning, poolVars, bgVars
<1>9. ASSUME NEW c \in Callers, ValidateFailed(c) PROVE TypeOK'
  BY <1>9 DEF ValidateFailed, TypeOK, Acquiring, Returning, poolVars, bgVars
<1>10. ASSUME NEW c \in Callers, Discarded(c) PROVE TypeOK'
  BY <1>10 DEF Discarded, TypeOK, Acquiring, Returning, TakeIdle, bgVars
<1>11. ASSUME NEW c \in Callers, Taken(c) PROVE TypeOK'
  BY <1>11 DEF Taken, TypeOK, Acquiring, Returning, bgVars
<1>12. ASSUME NEW c \in Callers, Missed(c) PROVE TypeOK'
  BY <1>12, TypeMissed
<1>13. ASSUME NEW c \in Callers, Created(c) PROVE TypeOK'
  BY <1>13 DEF Created, TypeOK, Acquiring, Returning, bgVars
<1>14. ASSUME NEW c \in Callers, CreateFailed(c) PROVE TypeOK'
  BY <1>14 DEF CreateFailed, TypeOK, Acquiring, Returning, bgVars
<1>15. ASSUME NEW c \in Callers, Closed(c) PROVE TypeOK'
  BY <1>15 DEF Closed, TypeOK, Acquiring, Returning, poolVars, bgVars
<1>16. ASSUME NEW c \in Callers, Trimmed(c) PROVE TypeOK'
  BY <1>16 DEF Trimmed, TypeOK, Acquiring, Returning, Trim, bgVars
<1>17. ASSUME NEW c \in Callers, Dropped(c) PROVE TypeOK'
  BY <1>17, TypeDropped
<1>18. ASSUME NEW c \in Callers, Replaced(c) PROVE TypeOK'
  BY <1>18, TypeReplaced
<1>19. ASSUME NEW c \in Callers, ReplaceFailed(c) PROVE TypeOK'
  BY <1>19 DEF ReplaceFailed, TypeOK, Acquiring, Returning, bgVars
<1>20. ASSUME NEW c \in Callers, CloseFailed(c) PROVE TypeOK'
  BY <1>20 DEF CloseFailed, TypeOK, Acquiring, Returning, poolVars, bgVars
<1>21. ASSUME WarmCreated PROVE TypeOK'
  BY <1>21, TypeWarmCreated
<1>22. ASSUME WarmFailed PROVE TypeOK'
  BY <1>22, TypeWarmFailed
<1>23. ASSUME ReapClosed PROVE TypeOK'
  BY <1>23 DEF ReapClosed, TypeOK, Acquiring, Returning, poolVars, callVars
<1>24. ASSUME ReapFailed PROVE TypeOK'
  BY <1>24 DEF ReapFailed, TypeOK, Acquiring, Returning, poolVars, callVars
<1>25. ASSUME DestroyClosed PROVE TypeOK'
  BY <1>25 DEF DestroyClosed, TypeOK, Acquiring, Returning, CloseNext, callVars
<1>26. ASSUME DestroyFailed PROVE TypeOK'
  BY <1>26 DEF DestroyFailed, TypeOK, Acquiring, Returning, poolVars, callVars
<1>27. ASSUME Reap PROVE TypeOK'
  BY <1>27 DEF Reap, TypeOK, Acquiring, Returning, callVars
<1>28. ASSUME DestroyPool PROVE TypeOK'
  BY <1>28 DEF DestroyPool, TypeOK, Acquiring, Returning, CloseNext, Queued
<1> QED
  BY <1>1, <1>2, <1>3, <1>4, <1>5, <1>6, <1>7, <1>8, <1>9, <1>10, <1>11, <1>12,
     <1>13, <1>14, <1>15, <1>16, <1>17, <1>18, <1>19, <1>20, <1>21, <1>22,
     <1>23, <1>24, <1>25, <1>26, <1>27, <1>28
    DEF Next, Background, Resume, Release

-----------------------------------------------------------------------------
(* Suspended calls *)

\* The first of the queue is a caller suspended in acquire().
LEMMA HeadWaits ==
    ASSUME TypeOK, CallsOK, WaitersKept, waiters # <<>>
    PROVE  /\ Head(waiters) \in Callers /\ pc[Head(waiters)] = "waiting"
           /\ ~Live(Head(waiters)) /\ frame[Head(waiters)] = None
           /\ serving[Head(waiters)] = None
<1>1. Head(waiters) \in Callers /\ Head(waiters) \in Queued
  BY DEF TypeOK, Queued
<1>2. pc[Head(waiters)] = "waiting"
  BY <1>1 DEF WaitersKept
<1> QED
  BY <1>1, <1>2 DEF CallsOK, Holding

\* Whom destroyResource() has taken from the queue is still suspended: a timeout ends both.
LEMMA ServedWaits ==
    ASSUME TypeOK, CallsOK, WaitersKept, NEW c \in Callers, serving[c] # None
    PROVE  /\ serving[c] \in Callers /\ pc[serving[c]] = "waiting"
           /\ ~Live(serving[c]) /\ frame[serving[c]] = None
           /\ serving[serving[c]] = None /\ serving[c] # c
<1>1. serving[c] \in Callers
  BY DEF TypeOK
<1>2. pc[serving[c]] = "waiting"
  BY <1>1 DEF WaitersKept
<1> QED
  BY <1>1, <1>2 DEF CallsOK, Holding

\* Handing over a resource leaves every call holding what its point says.
LEMMA CallsReleaseToWaiter ==
    ASSUME TypeOK, CallsOK, WaitersKept, NEW c \in Callers, ReleaseToWaiter(c)
    PROVE  CallsOK'
<1>1. waiters # <<>>
  BY DEF ReleaseToWaiter
<1>2. lease[c] # None
  BY DEF ReleaseToWaiter, CanReturn
<1> DEFINE next == Head(waiters)
<1> HIDE DEF next
<1>3. /\ lease' = [lease EXCEPT ![next] = lease[c]]
      /\ done' = [done EXCEPT ![c] = TRUE, ![next] = FALSE]
      /\ pc' = [pc EXCEPT ![next] = "ready"]
      /\ UNCHANGED <<frame, serving>> /\ next \in Callers /\ pc[next] = "waiting"
      /\ frame[next] = None /\ serving[next] = None /\ ~Live(next) /\ pc[c] = "ready"
  BY <1>1, HeadWaits DEF ReleaseToWaiter, next, CanReturn
<1> QED
  BY <1>2, <1>3 DEF CallsOK, TypeOK, Live, Holding

\* A replacement leaves every call holding what its point says.
LEMMA CallsReplaced ==
    ASSUME TypeOK, CallsOK, WaitersKept, NEW c \in Callers, Replaced(c)
    PROVE  CallsOK'
<1>1. frame' = frame /\ serving' = [serving EXCEPT ![c] = None] /\ pc[c] = "replacing"
  BY DEF Replaced
<1>2. CASE serving[c] = None
  BY <1>1, <1>2 DEF Replaced, CallsOK, TypeOK, Live, Holding
<1>3. CASE serving[c] # None
  <2>1. PICK r \in Resources \ open : lease' = [lease EXCEPT ![serving[c]] = r]
    BY <1>3 DEF Replaced
  <2>2. /\ done' = [done EXCEPT ![serving[c]] = FALSE]
        /\ pc' = [pc EXCEPT ![c] = "ready", ![serving[c]] = "ready"]
    BY <1>3 DEF Replaced
  <2>3. r # None
    BY PoolAssumption
  <2> QED
    BY <1>1, <1>3, <2>1, <2>2, <2>3, ServedWaits DEF CallsOK, TypeOK, Live, Holding
<1> QED
  BY <1>2, <1>3

\* A failed replacement leaves every call holding what its point says.
LEMMA CallsReplaceFailed ==
    ASSUME TypeOK, CallsOK, WaitersKept, NEW c \in Callers, ReplaceFailed(c)
    PROVE  CallsOK'
<1>1. /\ frame' = frame /\ serving' = [serving EXCEPT ![c] = None] /\ pc[c] = "replacing"
      /\ pc' = [d \in Callers |-> IF d \in {c, serving[c]} THEN "ready" ELSE pc[d]]
      /\ lease' = lease /\ done' = done
  BY DEF ReplaceFailed
<1>2. \A d \in Callers : d = serving[c] => frame[d] = None /\ serving[d] = None /\ ~Live(d)
  BY ServedWaits, PoolAssumption
<1> QED
  BY <1>1, <1>2 DEF CallsOK, TypeOK, Live, Holding

\* Rejecting all waiters leaves every call holding what its point says.
LEMMA CallsDestroyPool ==
    ASSUME TypeOK, CallsOK, WaitersKept, DestroyPool
    PROVE  CallsOK'
<1>1. \A c \in Callers : c \in Queued => pc[c] = "waiting"
  BY DEF WaitersKept
<1>2. /\ pc' = [c \in Callers |-> IF c \in Queued THEN "ready" ELSE pc[c]]
      /\ UNCHANGED <<frame, serving, lease, done>>
  BY DEF DestroyPool
<1> QED
  BY <1>1, <1>2 DEF CallsOK, TypeOK, Live, Holding

\* Every step leaves each suspended call holding what its point says.
LEMMA CallsStep ==
    ASSUME TypeOK, CallsOK, WaitersKept, Next
    PROVE  CallsOK'
<1> USE PoolAssumption
<1>1. ASSUME NEW c \in Callers, Acquire(c) PROVE CallsOK'
  BY <1>1 DEF Acquire, CallsOK, TypeOK, Live, Holding, TakeIdle, bgVars
<1>2. ASSUME NEW c \in Callers, AcquireRefused(c) PROVE CallsOK'
  BY <1>2
    DEF AcquireRefused, CallsOK, TypeOK, Live, Holding, poolVars, callVars,
        bgVars, vars
<1>3. ASSUME NEW c \in Callers, Timeout(c) PROVE CallsOK'
  BY <1>3 DEF Timeout, CallsOK, TypeOK, Live, Holding, bgVars
<1>4. ASSUME NEW c \in Callers, ReleaseClosed(c) PROVE CallsOK'
  BY <1>4 DEF ReleaseClosed, CallsOK, TypeOK, Live, Holding, CanReturn, bgVars
<1>5. ASSUME NEW c \in Callers, ReleaseToWaiter(c) PROVE CallsOK'
  BY <1>5, CallsReleaseToWaiter
<1>6. ASSUME NEW c \in Callers, ReleaseToIdle(c) PROVE CallsOK'
  BY <1>6
    DEF ReleaseToIdle, CallsOK, TypeOK, Live, Holding, Trim, CanReturn, bgVars
<1>7. ASSUME NEW c \in Callers, Drop(c) PROVE CallsOK'
  BY <1>7 DEF Drop, CallsOK, TypeOK, Live, Holding, CanReturn, bgVars
<1>8. ASSUME NEW c \in Callers, Validated(c) PROVE CallsOK'
  BY <1>8 DEF Validated, CallsOK, TypeOK, Live, Holding, poolVars, bgVars
<1>9. ASSUME NEW c \in Callers, ValidateFailed(c) PROVE CallsOK'
  BY <1>9 DEF ValidateFailed, CallsOK, TypeOK, Live, Holding, poolVars, bgVars
<1>10. ASSUME NEW c \in Callers, Discarded(c) PROVE CallsOK'
  BY <1>10 DEF Discarded, CallsOK, TypeOK, Live, Holding, TakeIdle, bgVars
<1>11. ASSUME NEW c \in Callers, Taken(c) PROVE CallsOK'
  BY <1>11 DEF Taken, CallsOK, TypeOK, Live, Holding, bgVars
<1>12. ASSUME NEW c \in Callers, Missed(c) PROVE CallsOK'
  BY <1>12 DEF Missed, CallsOK, TypeOK, Live, Holding, bgVars
<1>13. ASSUME NEW c \in Callers, Created(c) PROVE CallsOK'
  BY <1>13 DEF Created, CallsOK, TypeOK, Live, Holding, bgVars
<1>14. ASSUME NEW c \in Callers, CreateFailed(c) PROVE CallsOK'
  BY <1>14 DEF CreateFailed, CallsOK, TypeOK, Live, Holding, bgVars
<1>15. ASSUME NEW c \in Callers, Closed(c) PROVE CallsOK'
  BY <1>15 DEF Closed, CallsOK, TypeOK, Live, Holding, poolVars, bgVars
<1>16. ASSUME NEW c \in Callers, Trimmed(c) PROVE CallsOK'
  BY <1>16 DEF Trimmed, CallsOK, TypeOK, Live, Holding, Trim, bgVars
<1>17. ASSUME NEW c \in Callers, Dropped(c) PROVE CallsOK'
  BY <1>17 DEF Dropped, CallsOK, TypeOK, Live, Holding, bgVars
<1>18. ASSUME NEW c \in Callers, Replaced(c) PROVE CallsOK'
  BY <1>18, CallsReplaced
<1>19. ASSUME NEW c \in Callers, ReplaceFailed(c) PROVE CallsOK'
  BY <1>19, CallsReplaceFailed
<1>20. ASSUME NEW c \in Callers, CloseFailed(c) PROVE CallsOK'
  BY <1>20 DEF CloseFailed, CallsOK, TypeOK, Live, Holding, poolVars, bgVars
<1>21. ASSUME WarmCreated PROVE CallsOK'
  BY <1>21 DEF WarmCreated, CallsOK, TypeOK, Live, Holding, callVars
<1>22. ASSUME WarmFailed PROVE CallsOK'
  BY <1>22 DEF WarmFailed, CallsOK, TypeOK, Live, Holding, callVars
<1>23. ASSUME ReapClosed PROVE CallsOK'
  BY <1>23 DEF ReapClosed, CallsOK, TypeOK, Live, Holding, poolVars, callVars
<1>24. ASSUME ReapFailed PROVE CallsOK'
  BY <1>24 DEF ReapFailed, CallsOK, TypeOK, Live, Holding, poolVars, callVars
<1>25. ASSUME DestroyClosed PROVE CallsOK'
  BY <1>25 DEF DestroyClosed, CallsOK, TypeOK, Live, Holding, callVars
<1>26. ASSUME DestroyFailed PROVE CallsOK'
  BY <1>26
    DEF DestroyFailed, CallsOK, TypeOK, Live, Holding, poolVars, callVars
<1>27. ASSUME Reap PROVE CallsOK'
  BY <1>27 DEF Reap, CallsOK, TypeOK, Live, Holding, callVars
<1>28. ASSUME DestroyPool PROVE CallsOK'
  BY <1>28, CallsDestroyPool
<1> QED
  BY <1>1, <1>2, <1>3, <1>4, <1>5, <1>6, <1>7, <1>8, <1>9, <1>10, <1>11, <1>12,
     <1>13, <1>14, <1>15, <1>16, <1>17, <1>18, <1>19, <1>20, <1>21, <1>22,
     <1>23, <1>24, <1>25, <1>26, <1>27, <1>28
    DEF Next, Background, Resume, Release

-----------------------------------------------------------------------------
(* The queue *)

\* WaitersKept is WaitOK, caller by caller.
LEMMA WaitForm == ASSUME TypeOK PROVE WaitersKept <=> WaitOK
<1>1. Queued = Elems(waiters)
  BY DEF Queued, Elems
<1>2. Queued \subseteq Callers
  BY DEF Queued, TypeOK
<1>3. \A d \in Callers : serving[d] # None => serving[d] \in Callers
  BY DEF TypeOK
<1> QED
  BY <1>1, <1>2, <1>3, PoolAssumption DEF WaitersKept, WaitOK, Distinct

\* acquire() that joins the queue is in it once.
LEMMA WaitMissed ==
    ASSUME TypeOK, CallsOK, WaitOK, NEW c \in Callers, Missed(c)
    PROVE  WaitOK'
<1>1. c \notin Elems(waiters) /\ \A d \in Callers : serving[d] # c
  BY DEF Missed, WaitOK
<1>2. Distinct(Append(waiters, c)) /\ Elems(Append(waiters, c)) = Elems(waiters) \cup {c}
  BY <1>1, AppendQueue DEF WaitOK, TypeOK
<1>3. serving' = serving
  BY DEF Missed
<1>4. CASE waiters' = Append(waiters, c) /\ pc' = [pc EXCEPT ![c] = "waiting"]
  BY <1>1, <1>2, <1>3, <1>4 DEF WaitOK, TypeOK
<1>5. CASE waiters' = waiters /\ pc' = [pc EXCEPT ![c] = "creating"]
  BY <1>1, <1>3, <1>5 DEF WaitOK, TypeOK, Missed
<1> QED
  BY <1>4, <1>5 DEF Missed

\* A timeout takes the caller out of the queue, wherever it is in it.
LEMMA WaitTimeout ==
    ASSUME TypeOK, CallsOK, WaitOK, NEW c \in Callers, Timeout(c)
    PROVE  WaitOK'
<1>1. Elems(waiters') = Elems(waiters) \ {c} /\ Distinct(waiters')
  <2>1. CASE c \notin Queued /\ waiters' = waiters
    BY <2>1 DEF WaitOK, Queued, Elems
  <2>2. CASE \E i \in 1..Len(waiters) : waiters[i] = c /\ waiters' = Splice(i)
    <3>1. PICK i \in 1..Len(waiters) : waiters[i] = c /\ waiters' = Splice(i)
      BY <2>2
    <3>2. waiters \in Seq(Callers)
      BY DEF TypeOK
    <3>4. Distinct(waiters)
      BY DEF WaitOK
    <3>5. Distinct(Splice(i)) /\ Elems(Splice(i)) = Elems(waiters) \ {c}
      BY <3>1, <3>2, <3>4, SpliceQueue DEF Splice
    <3> QED
      BY <3>1, <3>5 DEF Distinct, Elems
  <2> QED
    BY <2>1, <2>2 DEF Timeout
<1>2. /\ serving' = [d \in Callers |-> IF serving[d] = c THEN None ELSE serving[d]]
      /\ pc' = [pc EXCEPT ![c] = "ready"]
  BY DEF Timeout
<1>3. \A d \in Callers : serving'[d] = IF serving[d] = c THEN None ELSE serving[d]
  BY <1>2
<1>4. \A d \in Callers : pc'[d] = "waiting" <=> pc[d] = "waiting" /\ d # c
  BY <1>2 DEF TypeOK
<1>5. \A d \in Callers : (\E e \in Callers : serving'[e] = d) <=> d # c /\ \E e \in Callers : serving[e] = d
  BY <1>3, PoolAssumption
<1>6. \A d, e \in Callers : serving'[d] # None /\ serving'[d] = serving'[e] => d = e
  BY <1>3 DEF WaitOK
<1>7. \A d \in Callers : serving'[d] \notin Elems(waiters')
  <2>1. Elems(waiters) \subseteq Callers
    BY DEF TypeOK, Elems
  <2> QED
    BY <2>1, <1>1, <1>3, PoolAssumption DEF WaitOK
<1>8. \A d \in Callers : pc'[d] = "waiting" <=> d \in Elems(waiters') \/ \E e \in Callers : serving'[e] = d
  BY <1>1, <1>4, <1>5 DEF WaitOK
<1> QED
  BY <1>1, <1>6, <1>7, <1>8 DEF WaitOK

\* A waiter that is handed a resource is out of the queue.
LEMMA WaitReleaseToWaiter ==
    ASSUME TypeOK, CallsOK, WaitOK, NEW c \in Callers, ReleaseToWaiter(c)
    PROVE  WaitOK'
<1>1. /\ waiters # <<>> /\ waiters' = Tail(waiters) /\ serving' = serving
      /\ pc' = [pc EXCEPT ![Head(waiters)] = "ready"]
  BY DEF ReleaseToWaiter
<1>2. /\ Distinct(Tail(waiters)) /\ Elems(Tail(waiters)) = Elems(waiters) \ {Head(waiters)}
      /\ Head(waiters) \in Elems(waiters)
  BY <1>1, TailQueue DEF WaitOK, TypeOK
<1> QED
  BY <1>1, <1>2 DEF WaitOK, TypeOK

\* destroyResource() takes the first waiter out of the queue into its own hands.
LEMMA WaitDropped ==
    ASSUME TypeOK, CallsOK, WaitOK, NEW c \in Callers, Dropped(c)
    PROVE  WaitOK'
<1>1. pc[c] = "dropping" /\ serving[c] = None
  BY DEF Dropped, CallsOK
<1>2. CASE UNCHANGED <<waiters, serving>> /\ pc' = [pc EXCEPT ![c] = "ready"]
  BY <1>1, <1>2 DEF WaitOK, TypeOK
<1>3. CASE /\ waiters # <<>> /\ waiters' = Tail(waiters)
           /\ serving' = [serving EXCEPT ![c] = Head(waiters)]
           /\ pc' = [pc EXCEPT ![c] = "replacing"]
  <2>1. /\ Distinct(Tail(waiters)) /\ Elems(Tail(waiters)) = Elems(waiters) \ {Head(waiters)}
        /\ Head(waiters) \in Elems(waiters) /\ Head(waiters) \in Callers
    BY <1>3, TailQueue DEF WaitOK, TypeOK
  <2> QED
    BY <1>1, <1>3, <2>1, PoolAssumption DEF WaitOK, TypeOK
<1> QED
  BY <1>2, <1>3 DEF Dropped

\* destroy() empties the queue and settles every waiter in it.
LEMMA WaitDestroyPool ==
    ASSUME TypeOK, CallsOK, WaitOK, DestroyPool
    PROVE  WaitOK'
<1>1. /\ waiters' = <<>> /\ serving' = serving
      /\ pc' = [c \in Callers |-> IF c \in Queued THEN "ready" ELSE pc[c]]
  BY DEF DestroyPool
<1>2. Queued = Elems(waiters)
  BY DEF Queued, Elems
<1>3. Distinct(<<>>) /\ Elems(<<>>) = {}
  BY DEF Distinct, Elems
<1> QED
  BY <1>1, <1>2, <1>3 DEF WaitOK, TypeOK

\* Every step keeps suspended callers and queue in agreement.
LEMMA WaitStep ==
    ASSUME TypeOK, CallsOK, WaitOK, Next
    PROVE  WaitOK'
<1> USE PoolAssumption
<1>1. ASSUME NEW c \in Callers, Acquire(c) PROVE WaitOK'
  BY <1>1 DEF Acquire, WaitOK, CallsOK, TypeOK, TakeIdle, bgVars
<1>2. ASSUME NEW c \in Callers, AcquireRefused(c) PROVE WaitOK'
  BY <1>2
    DEF AcquireRefused, WaitOK, CallsOK, TypeOK, poolVars, callVars, bgVars,
        vars
<1>3. ASSUME NEW c \in Callers, Timeout(c) PROVE WaitOK'
  BY <1>3, WaitTimeout
<1>4. ASSUME NEW c \in Callers, ReleaseClosed(c) PROVE WaitOK'
  BY <1>4 DEF ReleaseClosed, WaitOK, CallsOK, TypeOK, CanReturn, bgVars
<1>5. ASSUME NEW c \in Callers, ReleaseToWaiter(c) PROVE WaitOK'
  BY <1>5, WaitReleaseToWaiter
<1>6. ASSUME NEW c \in Callers, ReleaseToIdle(c) PROVE WaitOK'
  BY <1>6 DEF ReleaseToIdle, WaitOK, CallsOK, TypeOK, Trim, CanReturn, bgVars
<1>7. ASSUME NEW c \in Callers, Drop(c) PROVE WaitOK'
  BY <1>7 DEF Drop, WaitOK, CallsOK, TypeOK, CanReturn, bgVars
<1>8. ASSUME NEW c \in Callers, Validated(c) PROVE WaitOK'
  BY <1>8 DEF Validated, WaitOK, CallsOK, TypeOK, poolVars, bgVars
<1>9. ASSUME NEW c \in Callers, ValidateFailed(c) PROVE WaitOK'
  BY <1>9 DEF ValidateFailed, WaitOK, CallsOK, TypeOK, poolVars, bgVars
<1>10. ASSUME NEW c \in Callers, Discarded(c) PROVE WaitOK'
  BY <1>10 DEF Discarded, WaitOK, CallsOK, TypeOK, TakeIdle, bgVars
<1>11. ASSUME NEW c \in Callers, Taken(c) PROVE WaitOK'
  BY <1>11 DEF Taken, WaitOK, CallsOK, TypeOK, bgVars
<1>12. ASSUME NEW c \in Callers, Missed(c) PROVE WaitOK'
  BY <1>12, WaitMissed
<1>13. ASSUME NEW c \in Callers, Created(c) PROVE WaitOK'
  BY <1>13 DEF Created, WaitOK, CallsOK, TypeOK, bgVars
<1>14. ASSUME NEW c \in Callers, CreateFailed(c) PROVE WaitOK'
  BY <1>14 DEF CreateFailed, WaitOK, CallsOK, TypeOK, bgVars
<1>15. ASSUME NEW c \in Callers, Closed(c) PROVE WaitOK'
  BY <1>15 DEF Closed, WaitOK, CallsOK, TypeOK, poolVars, bgVars
<1>16. ASSUME NEW c \in Callers, Trimmed(c) PROVE WaitOK'
  BY <1>16 DEF Trimmed, WaitOK, CallsOK, TypeOK, Trim, bgVars
<1>17. ASSUME NEW c \in Callers, Dropped(c) PROVE WaitOK'
  BY <1>17, WaitDropped
<1>18. ASSUME NEW c \in Callers, Replaced(c) PROVE WaitOK'
  BY <1>18 DEF Replaced, WaitOK, CallsOK, TypeOK, bgVars
<1>19. ASSUME NEW c \in Callers, ReplaceFailed(c) PROVE WaitOK'
  BY <1>19 DEF ReplaceFailed, WaitOK, CallsOK, TypeOK, bgVars
<1>20. ASSUME NEW c \in Callers, CloseFailed(c) PROVE WaitOK'
  BY <1>20 DEF CloseFailed, WaitOK, CallsOK, TypeOK, poolVars, bgVars
<1>21. ASSUME WarmCreated PROVE WaitOK'
  BY <1>21 DEF WarmCreated, WaitOK, CallsOK, TypeOK, callVars
<1>22. ASSUME WarmFailed PROVE WaitOK'
  BY <1>22 DEF WarmFailed, WaitOK, CallsOK, TypeOK, callVars
<1>23. ASSUME ReapClosed PROVE WaitOK'
  BY <1>23 DEF ReapClosed, WaitOK, CallsOK, TypeOK, poolVars, callVars
<1>24. ASSUME ReapFailed PROVE WaitOK'
  BY <1>24 DEF ReapFailed, WaitOK, CallsOK, TypeOK, poolVars, callVars
<1>25. ASSUME DestroyClosed PROVE WaitOK'
  BY <1>25 DEF DestroyClosed, WaitOK, CallsOK, TypeOK, callVars
<1>26. ASSUME DestroyFailed PROVE WaitOK'
  BY <1>26 DEF DestroyFailed, WaitOK, CallsOK, TypeOK, poolVars, callVars
<1>27. ASSUME Reap PROVE WaitOK'
  BY <1>27 DEF Reap, WaitOK, CallsOK, TypeOK, callVars
<1>28. ASSUME DestroyPool PROVE WaitOK'
  BY <1>28, WaitDestroyPool
<1> QED
  BY <1>1, <1>2, <1>3, <1>4, <1>5, <1>6, <1>7, <1>8, <1>9, <1>10, <1>11, <1>12,
     <1>13, <1>14, <1>15, <1>16, <1>17, <1>18, <1>19, <1>20, <1>21, <1>22,
     <1>23, <1>24, <1>25, <1>26, <1>27, <1>28
    DEF Next, Background, Resume, Release

-----------------------------------------------------------------------------
(* Places *)

\* Handing a resource over moves it from one lease to another.
LEMMA PlacesReleaseToWaiter ==
    ASSUME TypeOK, CallsOK, WaitersKept, Places, NEW c \in Callers, ReleaseToWaiter(c)
    PROVE  Places'
<1> DEFINE next == Head(waiters)
<1> HIDE DEF next
<1>1. waiters # <<>>
  BY DEF ReleaseToWaiter
<1>3. /\ lease' = [lease EXCEPT ![next] = lease[c]]
      /\ done' = [done EXCEPT ![c] = TRUE, ![next] = FALSE]
      /\ UNCHANGED <<frame, open, orphans, idle, reaping, closing>> /\ next \in Callers
      /\ ~Live(next) /\ Live(c)
  BY <1>1, HeadWaits DEF ReleaseToWaiter, next, CanReturn, bgVars, Live
<1>4. \A d \in Callers : Live(d)' => lease'[d] = (IF d = next THEN lease[c] ELSE lease[d]) /\ (d # next => d # c /\ Live(d))
  BY <1>3 DEF Live, TypeOK
<1> QED
  BY <1>3, <1>4 DEF Places, TypeOK

\* A replacement is a new resource, in one place.
LEMMA PlacesReplaced ==
    ASSUME TypeOK, CallsOK, WaitersKept, Places, NEW c \in Callers, Replaced(c)
    PROVE  Places'
<1>1. PICK r \in Resources \ open :
         /\ open' = open \cup {r}
         /\ serving[c] # None => 
                 /\ lease' = [lease EXCEPT ![serving[c]] = r]
                 /\ done' = [done EXCEPT ![serving[c]] = FALSE]
                 /\ UNCHANGED orphans
         /\ serving[c] = None =>
                 /\ orphans' = orphans \cup {r}
                 /\ UNCHANGED <<lease, done>>
  BY DEF Replaced
<1>2. UNCHANGED <<frame, idle, reaping, closing>>
  BY DEF Replaced, bgVars
<1>6. r \notin idle /\ r \notin orphans /\ r # closing /\ r # None /\ \A k \in reaping : r \notin k
  BY PoolAssumption DEF Places
<1>7. \A d \in Callers : frame[d] # r /\ (Live(d) => lease[d] # r)
  BY <1>6 DEF Places
<1>3. CASE serving[c] = None
  BY <1>1, <1>2, <1>3, <1>6, <1>7 DEF Places, Live
<1>4. CASE serving[c] # None
  <2>1. /\ serving[c] \in Callers
        /\ \A d \in Callers : Live(d)' => IF d = serving[c] THEN lease'[d] = r ELSE lease'[d] = lease[d] /\ Live(d)
    BY <1>1, <1>4, ServedWaits DEF Live, TypeOK
  <2>2. UNCHANGED orphans /\ open' = open \cup {r}
    BY <1>1, <1>4
  <2> QED
    BY <2>1, <2>2, <1>2, <1>6, <1>7 DEF Places
<1> QED
  BY <1>3, <1>4

\* The reaper destroys what it took out, and nothing else.
LEMMA PlacesReapClosed ==
    ASSUME TypeOK, Places, ReapClosed
    PROVE  Places'
<1>0. PICK kill \in reaping : \E r \in kill :
         /\ open' = open \ {r}
         /\ reaping' = (reaping \ {kill}) \cup ({kill \ {r}} \ {{}})
  BY DEF ReapClosed
<1>1. PICK r \in kill :
         /\ open' = open \ {r}
         /\ reaping' = (reaping \ {kill}) \cup ({kill \ {r}} \ {{}})
  BY <1>0
<1>2. UNCHANGED <<frame, idle, closing, orphans, lease, done>>
  BY DEF ReapClosed, poolVars, callVars
<1>3. \A k \in reaping' : \E k2 \in reaping : k \subseteq k2 /\ r \notin k /\ (k2 = kill \/ k = k2)
  BY <1>1 DEF Places
<1>4. \A k1, k2 \in reaping' : k1 # k2 => k1 \cap k2 = {}
  BY <1>1 DEF Places
<1>5. r \in open \ (idle \cup orphans \cup {closing}) /\ \A c \in Callers : frame[c] # r /\ (Live(c) => lease[c] # r)
  BY DEF Places
<1>6. \A k \in reaping' : /\ k \subseteq open' \ (idle' \cup orphans' \cup {closing'})
         /\ \A c \in Callers : frame'[c] \notin k /\ (Live(c)' => lease'[c] \notin k)
  BY <1>1, <1>2, <1>3 DEF Places, Live
<1> QED
  BY <1>1, <1>2, <1>4, <1>5, <1>6 DEF Places, Live

\* Every step keeps each resource in one place, and open there.
LEMMA PlacesStep ==
    ASSUME TypeOK, CallsOK, WaitersKept, Places, Next
    PROVE  Places'
<1> USE PoolAssumption
<1>1. ASSUME NEW c \in Callers, Acquire(c) PROVE Places'
  BY <1>1 DEF Acquire, Places, CallsOK, TypeOK, Live, Holding, TakeIdle, bgVars
<1>2. ASSUME NEW c \in Callers, AcquireRefused(c) PROVE Places'
  BY <1>2
    DEF AcquireRefused, Places, CallsOK, TypeOK, Live, Holding, poolVars,
        callVars, bgVars, vars
<1>3. ASSUME NEW c \in Callers, Timeout(c) PROVE Places'
  BY <1>3 DEF Timeout, Places, CallsOK, TypeOK, Live, Holding, bgVars
<1>4. ASSUME NEW c \in Callers, ReleaseClosed(c) PROVE Places'
  BY <1>4
    DEF ReleaseClosed, Places, CallsOK, TypeOK, Live, Holding, CanReturn,
        bgVars
<1>5. ASSUME NEW c \in Callers, ReleaseToWaiter(c) PROVE Places'
  BY <1>5, PlacesReleaseToWaiter
<1>6. ASSUME NEW c \in Callers, ReleaseToIdle(c) PROVE Places'
  BY <1>6
    DEF ReleaseToIdle, Places, CallsOK, TypeOK, Live, Holding, Trim, CanReturn,
        bgVars
<1>7. ASSUME NEW c \in Callers, Drop(c) PROVE Places'
  BY <1>7 DEF Drop, Places, CallsOK, TypeOK, Live, Holding, CanReturn, bgVars
<1>8. ASSUME NEW c \in Callers, Validated(c) PROVE Places'
  BY <1>8
    DEF Validated, Places, CallsOK, TypeOK, Live, Holding, poolVars, bgVars
<1>9. ASSUME NEW c \in Callers, ValidateFailed(c) PROVE Places'
  BY <1>9
    DEF ValidateFailed, Places, CallsOK, TypeOK, Live, Holding, poolVars,
        bgVars
<1>10. ASSUME NEW c \in Callers, Discarded(c) PROVE Places'
  BY <1>10
    DEF Discarded, Places, CallsOK, TypeOK, Live, Holding, TakeIdle, bgVars
<1>11. ASSUME NEW c \in Callers, Taken(c) PROVE Places'
  BY <1>11 DEF Taken, Places, CallsOK, TypeOK, Live, Holding, bgVars
<1>12. ASSUME NEW c \in Callers, Missed(c) PROVE Places'
  BY <1>12 DEF Missed, Places, CallsOK, TypeOK, Live, Holding, bgVars
<1>13. ASSUME NEW c \in Callers, Created(c) PROVE Places'
  BY <1>13 DEF Created, Places, CallsOK, TypeOK, Live, Holding, bgVars
<1>14. ASSUME NEW c \in Callers, CreateFailed(c) PROVE Places'
  BY <1>14 DEF CreateFailed, Places, CallsOK, TypeOK, Live, Holding, bgVars
<1>15. ASSUME NEW c \in Callers, Closed(c) PROVE Places'
  BY <1>15 DEF Closed, Places, CallsOK, TypeOK, Live, Holding, poolVars, bgVars
<1>16. ASSUME NEW c \in Callers, Trimmed(c) PROVE Places'
  BY <1>16 DEF Trimmed, Places, CallsOK, TypeOK, Live, Holding, Trim, bgVars
<1>17. ASSUME NEW c \in Callers, Dropped(c) PROVE Places'
  BY <1>17 DEF Dropped, Places, CallsOK, TypeOK, Live, Holding, bgVars
<1>18. ASSUME NEW c \in Callers, Replaced(c) PROVE Places'
  BY <1>18, PlacesReplaced
<1>19. ASSUME NEW c \in Callers, ReplaceFailed(c) PROVE Places'
  BY <1>19 DEF ReplaceFailed, Places, CallsOK, TypeOK, Live, Holding, bgVars
<1>20. ASSUME NEW c \in Callers, CloseFailed(c) PROVE Places'
  BY <1>20
    DEF CloseFailed, Places, CallsOK, TypeOK, Live, Holding, poolVars, bgVars
<1>21. ASSUME WarmCreated PROVE Places'
  BY <1>21 DEF WarmCreated, Places, CallsOK, TypeOK, Live, Holding, callVars
<1>22. ASSUME WarmFailed PROVE Places'
  BY <1>22 DEF WarmFailed, Places, CallsOK, TypeOK, Live, Holding, callVars
<1>23. ASSUME ReapClosed PROVE Places'
  BY <1>23, PlacesReapClosed
<1>24. ASSUME ReapFailed PROVE Places'
  BY <1>24
    DEF ReapFailed, Places, CallsOK, TypeOK, Live, Holding, poolVars, callVars
<1>25. ASSUME DestroyClosed PROVE Places'
  BY <1>25
    DEF DestroyClosed, Places, CallsOK, TypeOK, Live, Holding, CloseNext,
        callVars
<1>26. ASSUME DestroyFailed PROVE Places'
  BY <1>26
    DEF DestroyFailed, Places, CallsOK, TypeOK, Live, Holding, poolVars,
        callVars
<1>27. ASSUME Reap PROVE Places'
  BY <1>27 DEF Reap, Places, CallsOK, TypeOK, Live, Holding, callVars
<1>28. ASSUME DestroyPool PROVE Places'
  BY <1>28 DEF DestroyPool, Places, CallsOK, TypeOK, Live, Holding, CloseNext
<1> QED
  BY <1>1, <1>2, <1>3, <1>4, <1>5, <1>6, <1>7, <1>8, <1>9, <1>10, <1>11, <1>12,
     <1>13, <1>14, <1>15, <1>16, <1>17, <1>18, <1>19, <1>20, <1>21, <1>22,
     <1>23, <1>24, <1>25, <1>26, <1>27, <1>28
    DEF Next, Background, Resume, Release

-----------------------------------------------------------------------------
(* Counters *)

\* The sets that the counters count are finite.
LEMMA FinitePlaces ==
    ASSUME TypeOK
    PROVE  /\ IsFiniteSet(CreatingCallers) /\ IsFiniteSet(LeasingCallers) /\ IsFiniteSet(orphans)
           /\ Cardinality(CreatingCallers) \in Nat /\ Cardinality(LeasingCallers) \in Nat
           /\ Cardinality(orphans) \in Nat
<1>1. CreatingCallers \subseteq Callers /\ LeasingCallers \subseteq Callers /\ orphans \subseteq Resources
  BY DEF TypeOK, CreatingCallers, LeasingCallers
<1>2. IsFiniteSet(CreatingCallers) /\ IsFiniteSet(LeasingCallers) /\ IsFiniteSet(orphans)
  BY <1>1, PoolAssumption, FS_Subset
<1> QED
  BY <1>2, FS_CardinalityType

\* The steps that neither start nor end a create().
LEMMA CreatingSame ==
    ASSUME TypeOK, CallsOK, WaitersKept,
           \/ \E c \in Callers : Acquire(c) \/ AcquireRefused(c) \/ Timeout(c) \/ ReleaseClosed(c) \/ ReleaseToWaiter(c) \/ ReleaseToIdle(c) \/ Drop(c) \/ Validated(c) \/ ValidateFailed(c) \/ Discarded(c) \/ Taken(c) \/ Closed(c) \/ Trimmed(c) \/ CloseFailed(c)
           \/ Reap \/ ReapClosed \/ ReapFailed \/ DestroyPool \/ DestroyClosed \/ DestroyFailed
    PROVE  CreatingCallers' = CreatingCallers /\ creating' = creating /\ warming' = warming
<1>1. ASSUME NEW c \in Callers, Acquire(c) PROVE CreatingCallers' = CreatingCallers /\ creating' = creating /\ warming' = warming
  BY <1>1 DEF Acquire, TypeOK, Live, CreatingCallers, TakeIdle, Trim, CanReturn, CloseNext, poolVars, callVars, bgVars, vars, Queued
<1>2. ASSUME NEW c \in Callers, AcquireRefused(c) PROVE CreatingCallers' = CreatingCallers /\ creating' = creating /\ warming' = warming
  BY <1>2 DEF AcquireRefused, TypeOK, Live, CreatingCallers, TakeIdle, Trim, CanReturn, CloseNext, poolVars, callVars, bgVars, vars, Queued
<1>3. ASSUME NEW c \in Callers, Timeout(c) PROVE CreatingCallers' = CreatingCallers /\ creating' = creating /\ warming' = warming
  BY <1>3 DEF Timeout, TypeOK, Live, CreatingCallers, TakeIdle, Trim, CanReturn, CloseNext, poolVars, callVars, bgVars, vars, Queued
<1>4. ASSUME NEW c \in Callers, ReleaseClosed(c) PROVE CreatingCallers' = CreatingCallers /\ creating' = creating /\ warming' = warming
  BY <1>4 DEF ReleaseClosed, TypeOK, Live, CreatingCallers, TakeIdle, Trim, CanReturn, CloseNext, poolVars, callVars, bgVars, vars, Queued
<1>5. ASSUME NEW c \in Callers, ReleaseToWaiter(c) PROVE CreatingCallers' = CreatingCallers /\ creating' = creating /\ warming' = warming
  <2>1. waiters # <<>> /\ pc' = [pc EXCEPT ![Head(waiters)] = "ready"]
    BY <1>5 DEF ReleaseToWaiter
  <2> QED
    BY <1>5, <2>1, HeadWaits DEF ReleaseToWaiter, TypeOK, CreatingCallers, bgVars
<1>6. ASSUME NEW c \in Callers, ReleaseToIdle(c) PROVE CreatingCallers' = CreatingCallers /\ creating' = creating /\ warming' = warming
  BY <1>6 DEF ReleaseToIdle, TypeOK, Live, CreatingCallers, TakeIdle, Trim, CanReturn, CloseNext, poolVars, callVars, bgVars, vars, Queued
<1>7. ASSUME NEW c \in Callers, Drop(c) PROVE CreatingCallers' = CreatingCallers /\ creating' = creating /\ warming' = warming
  BY <1>7 DEF Drop, TypeOK, Live, CreatingCallers, TakeIdle, Trim, CanReturn, CloseNext, poolVars, callVars, bgVars, vars, Queued
<1>8. ASSUME NEW c \in Callers, Validated(c) PROVE CreatingCallers' = CreatingCallers /\ creating' = creating /\ warming' = warming
  BY <1>8 DEF Validated, TypeOK, Live, CreatingCallers, TakeIdle, Trim, CanReturn, CloseNext, poolVars, callVars, bgVars, vars, Queued
<1>9. ASSUME NEW c \in Callers, ValidateFailed(c) PROVE CreatingCallers' = CreatingCallers /\ creating' = creating /\ warming' = warming
  BY <1>9 DEF ValidateFailed, TypeOK, Live, CreatingCallers, TakeIdle, Trim, CanReturn, CloseNext, poolVars, callVars, bgVars, vars, Queued
<1>10. ASSUME NEW c \in Callers, Discarded(c) PROVE CreatingCallers' = CreatingCallers /\ creating' = creating /\ warming' = warming
  BY <1>10 DEF Discarded, TypeOK, Live, CreatingCallers, TakeIdle, Trim, CanReturn, CloseNext, poolVars, callVars, bgVars, vars, Queued
<1>11. ASSUME NEW c \in Callers, Taken(c) PROVE CreatingCallers' = CreatingCallers /\ creating' = creating /\ warming' = warming
  BY <1>11 DEF Taken, TypeOK, Live, CreatingCallers, TakeIdle, Trim, CanReturn, CloseNext, poolVars, callVars, bgVars, vars, Queued
<1>12. ASSUME NEW c \in Callers, Closed(c) PROVE CreatingCallers' = CreatingCallers /\ creating' = creating /\ warming' = warming
  BY <1>12 DEF Closed, TypeOK, Live, CreatingCallers, TakeIdle, Trim, CanReturn, CloseNext, poolVars, callVars, bgVars, vars, Queued
<1>13. ASSUME NEW c \in Callers, Trimmed(c) PROVE CreatingCallers' = CreatingCallers /\ creating' = creating /\ warming' = warming
  BY <1>13 DEF Trimmed, TypeOK, Live, CreatingCallers, TakeIdle, Trim, CanReturn, CloseNext, poolVars, callVars, bgVars, vars, Queued
<1>14. ASSUME NEW c \in Callers, CloseFailed(c) PROVE CreatingCallers' = CreatingCallers /\ creating' = creating /\ warming' = warming
  BY <1>14 DEF CloseFailed, TypeOK, Live, CreatingCallers, TakeIdle, Trim, CanReturn, CloseNext, poolVars, callVars, bgVars, vars, Queued
<1>15. ASSUME Reap PROVE CreatingCallers' = CreatingCallers /\ creating' = creating /\ warming' = warming
  BY <1>15 DEF Reap, TypeOK, Live, CreatingCallers, TakeIdle, Trim, CanReturn, CloseNext, poolVars, callVars, bgVars, vars, Queued
<1>16. ASSUME ReapClosed PROVE CreatingCallers' = CreatingCallers /\ creating' = creating /\ warming' = warming
  BY <1>16 DEF ReapClosed, TypeOK, Live, CreatingCallers, TakeIdle, Trim, CanReturn, CloseNext, poolVars, callVars, bgVars, vars, Queued
<1>17. ASSUME ReapFailed PROVE CreatingCallers' = CreatingCallers /\ creating' = creating /\ warming' = warming
  BY <1>17 DEF ReapFailed, TypeOK, Live, CreatingCallers, TakeIdle, Trim, CanReturn, CloseNext, poolVars, callVars, bgVars, vars, Queued
<1>18. ASSUME DestroyClosed PROVE CreatingCallers' = CreatingCallers /\ creating' = creating /\ warming' = warming
  BY <1>18 DEF DestroyClosed, TypeOK, Live, CreatingCallers, TakeIdle, Trim, CanReturn, CloseNext, poolVars, callVars, bgVars, vars, Queued
<1>19. ASSUME DestroyFailed PROVE CreatingCallers' = CreatingCallers /\ creating' = creating /\ warming' = warming
  BY <1>19 DEF DestroyFailed, TypeOK, Live, CreatingCallers, TakeIdle, Trim, CanReturn, CloseNext, poolVars, callVars, bgVars, vars, Queued
<1>20. ASSUME DestroyPool PROVE CreatingCallers' = CreatingCallers /\ creating' = creating /\ warming' = warming
  <2>1. \A c \in Callers : c \in Queued => pc[c] = "waiting"
    BY DEF WaitersKept
  <2> QED
    BY <1>20, <2>1 DEF DestroyPool, CreatingCallers
<1> QED
  BY <1>1, <1>2, <1>3, <1>4, <1>5, <1>6, <1>7, <1>8, <1>9, <1>10, <1>11, <1>12, <1>13, <1>14, <1>15, <1>16, <1>17, <1>18, <1>19, <1>20

\* Every step keeps creating the number of running create() calls.
LEMMA CreatingStep ==
    ASSUME TypeOK, CallsOK, WaitersKept, CreatingOK, Next PROVE CreatingOK'
<1> USE FinitePlaces
<1>1. ASSUME NEW c \in Callers, Missed(c) PROVE CreatingOK'
  <2>1. CASE creating' = creating
    <3>1. CreatingCallers' = CreatingCallers /\ warming' = warming
      BY <1>1, <2>1 DEF Missed, CreatingCallers, TypeOK, bgVars
    <3> QED
      BY <2>1, <3>1 DEF CreatingOK, WarmCreates
  <2>2. CASE creating' = creating + 1 /\ pc' = [pc EXCEPT ![c] = "creating"]
    <3>1. CreatingCallers' = CreatingCallers \cup {c} /\ c \notin CreatingCallers /\ warming' = warming
      BY <1>1, <2>2 DEF Missed, CreatingCallers, TypeOK, bgVars
    <3>2. Cardinality(CreatingCallers') = Cardinality(CreatingCallers) + 1
      BY <3>1, OneMore
    <3> QED
      BY <2>2, <3>1, <3>2 DEF CreatingOK, WarmCreates
  <2> QED
    BY <1>1, <2>1, <2>2 DEF Missed
<1>2. ASSUME NEW c \in Callers, Dropped(c) PROVE CreatingOK'
  <2>1. CASE creating' = creating /\ pc' = [pc EXCEPT ![c] = "ready"]
    <3>1. CreatingCallers' = CreatingCallers /\ warming' = warming
      BY <1>2, <2>1 DEF Dropped, CreatingCallers, TypeOK, bgVars
    <3> QED
      BY <2>1, <3>1 DEF CreatingOK, WarmCreates
  <2>2. CASE creating' = creating + 1 /\ pc' = [pc EXCEPT ![c] = "replacing"]
    <3>1. CreatingCallers' = CreatingCallers \cup {c} /\ c \notin CreatingCallers /\ warming' = warming
      BY <1>2, <2>2 DEF Dropped, CreatingCallers, TypeOK, bgVars
    <3>2. Cardinality(CreatingCallers') = Cardinality(CreatingCallers) + 1
      BY <3>1, OneMore
    <3> QED
      BY <2>2, <3>1, <3>2 DEF CreatingOK, WarmCreates
  <2> QED
    BY <1>2, <2>1, <2>2 DEF Dropped
<1>3. ASSUME NEW c \in Callers, Created(c) \/ CreateFailed(c) \/ Replaced(c) \/ ReplaceFailed(c)
      PROVE CreatingOK'
  <2>1. c \in CreatingCallers /\ creating' = creating - 1 /\ warming' = warming
    BY <1>3 DEF Created, CreateFailed, Replaced, ReplaceFailed, CreatingCallers, bgVars
  <2>2. CreatingCallers' = CreatingCallers \ {c}
    <3>1. CASE Created(c) \/ CreateFailed(c)
      BY <3>1 DEF Created, CreateFailed, CreatingCallers, TypeOK
    <3>2. CASE serving[c] = None /\ (Replaced(c) \/ ReplaceFailed(c))
      <4>1. \A d \in Callers : pc'[d] = IF d = c THEN "ready" ELSE pc[d]
        BY <3>2, PoolAssumption DEF Replaced, ReplaceFailed, TypeOK
      <4> QED
        BY <4>1 DEF CreatingCallers
    <3>3. CASE serving[c] # None /\ (Replaced(c) \/ ReplaceFailed(c))
      <4>1. \A d \in Callers : pc'[d] = IF d \in {c, serving[c]} THEN "ready" ELSE pc[d]
        BY <3>3, ServedWaits DEF Replaced, ReplaceFailed, TypeOK
      <4> QED
        BY <3>3, <4>1, ServedWaits DEF CreatingCallers
    <3> QED
      BY <1>3, <3>1, <3>2, <3>3
  <2>3. Cardinality(CreatingCallers') = Cardinality(CreatingCallers) - 1
    BY <2>1, <2>2, OneLess
  <2> QED
    BY <2>1, <2>3 DEF CreatingOK, WarmCreates
<1>4. ASSUME WarmCreated \/ WarmFailed PROVE CreatingOK'
  <2>1. CreatingCallers' = CreatingCallers
    BY <1>4 DEF WarmCreated, WarmFailed, callVars, CreatingCallers
  <2>2. \/ creating' = creating /\ WarmCreates' = WarmCreates
        \/ creating' = creating - 1 /\ WarmCreates' = 0 /\ WarmCreates = 1
    BY <1>4 DEF WarmCreated, WarmFailed, WarmCreates
  <2>3. WarmCreates \in {0, 1}
    BY DEF WarmCreates
  <2> QED
    BY <2>1, <2>2, <2>3 DEF CreatingOK
<1>5. CASE CreatingCallers' = CreatingCallers /\ creating' = creating /\ warming' = warming
  BY <1>5 DEF CreatingOK, WarmCreates
<1> QED
  BY <1>1, <1>2, <1>3, <1>4, <1>5, CreatingSame DEF Next, Background, Resume, Release

\* The steps that neither make nor end a lease.
LEMMA LeasedSame ==
    ASSUME TypeOK,
           \/ \E c \in Callers : Acquire(c) \/ AcquireRefused(c) \/ Timeout(c) \/ Validated(c) \/ ValidateFailed(c) \/ Discarded(c) \/ Missed(c) \/ CreateFailed(c) \/ Closed(c) \/ Trimmed(c) \/ Dropped(c) \/ ReplaceFailed(c) \/ CloseFailed(c)
           \/ WarmCreated \/ WarmFailed \/ ReapClosed \/ ReapFailed \/ DestroyClosed \/ DestroyFailed \/ Reap \/ DestroyPool
    PROVE  LeasingCallers' = LeasingCallers /\ leased' = leased /\ orphans' = orphans
<1>1. ASSUME NEW c \in Callers, Acquire(c) PROVE LeasingCallers' = LeasingCallers /\ leased' = leased /\ orphans' = orphans
  BY <1>1 DEF Acquire, Live, LeasingCallers, poolVars, callVars, bgVars, vars
<1>2. ASSUME NEW c \in Callers, AcquireRefused(c) PROVE LeasingCallers' = LeasingCallers /\ leased' = leased /\ orphans' = orphans
  BY <1>2 DEF AcquireRefused, Live, LeasingCallers, poolVars, callVars, bgVars, vars
<1>3. ASSUME NEW c \in Callers, Timeout(c) PROVE LeasingCallers' = LeasingCallers /\ leased' = leased /\ orphans' = orphans
  BY <1>3 DEF Timeout, Live, LeasingCallers, poolVars, callVars, bgVars, vars
<1>4. ASSUME NEW c \in Callers, Validated(c) PROVE LeasingCallers' = LeasingCallers /\ leased' = leased /\ orphans' = orphans
  BY <1>4 DEF Validated, Live, LeasingCallers, poolVars, callVars, bgVars, vars
<1>5. ASSUME NEW c \in Callers, ValidateFailed(c) PROVE LeasingCallers' = LeasingCallers /\ leased' = leased /\ orphans' = orphans
  BY <1>5 DEF ValidateFailed, Live, LeasingCallers, poolVars, callVars, bgVars, vars
<1>6. ASSUME NEW c \in Callers, Discarded(c) PROVE LeasingCallers' = LeasingCallers /\ leased' = leased /\ orphans' = orphans
  BY <1>6 DEF Discarded, Live, LeasingCallers, poolVars, callVars, bgVars, vars
<1>7. ASSUME NEW c \in Callers, Missed(c) PROVE LeasingCallers' = LeasingCallers /\ leased' = leased /\ orphans' = orphans
  BY <1>7 DEF Missed, Live, LeasingCallers, poolVars, callVars, bgVars, vars
<1>8. ASSUME NEW c \in Callers, CreateFailed(c) PROVE LeasingCallers' = LeasingCallers /\ leased' = leased /\ orphans' = orphans
  BY <1>8 DEF CreateFailed, Live, LeasingCallers, poolVars, callVars, bgVars, vars
<1>9. ASSUME NEW c \in Callers, Closed(c) PROVE LeasingCallers' = LeasingCallers /\ leased' = leased /\ orphans' = orphans
  BY <1>9 DEF Closed, Live, LeasingCallers, poolVars, callVars, bgVars, vars
<1>10. ASSUME NEW c \in Callers, Trimmed(c) PROVE LeasingCallers' = LeasingCallers /\ leased' = leased /\ orphans' = orphans
  BY <1>10 DEF Trimmed, Live, LeasingCallers, poolVars, callVars, bgVars, vars
<1>11. ASSUME NEW c \in Callers, Dropped(c) PROVE LeasingCallers' = LeasingCallers /\ leased' = leased /\ orphans' = orphans
  BY <1>11 DEF Dropped, Live, LeasingCallers, poolVars, callVars, bgVars, vars
<1>12. ASSUME NEW c \in Callers, ReplaceFailed(c) PROVE LeasingCallers' = LeasingCallers /\ leased' = leased /\ orphans' = orphans
  BY <1>12 DEF ReplaceFailed, Live, LeasingCallers, poolVars, callVars, bgVars, vars
<1>13. ASSUME NEW c \in Callers, CloseFailed(c) PROVE LeasingCallers' = LeasingCallers /\ leased' = leased /\ orphans' = orphans
  BY <1>13 DEF CloseFailed, Live, LeasingCallers, poolVars, callVars, bgVars, vars
<1>14. ASSUME WarmCreated PROVE LeasingCallers' = LeasingCallers /\ leased' = leased /\ orphans' = orphans
  BY <1>14 DEF WarmCreated, Live, LeasingCallers, poolVars, callVars, bgVars, vars
<1>15. ASSUME WarmFailed PROVE LeasingCallers' = LeasingCallers /\ leased' = leased /\ orphans' = orphans
  BY <1>15 DEF WarmFailed, Live, LeasingCallers, poolVars, callVars, bgVars, vars
<1>16. ASSUME ReapClosed PROVE LeasingCallers' = LeasingCallers /\ leased' = leased /\ orphans' = orphans
  BY <1>16 DEF ReapClosed, Live, LeasingCallers, poolVars, callVars, bgVars, vars
<1>17. ASSUME ReapFailed PROVE LeasingCallers' = LeasingCallers /\ leased' = leased /\ orphans' = orphans
  BY <1>17 DEF ReapFailed, Live, LeasingCallers, poolVars, callVars, bgVars, vars
<1>18. ASSUME DestroyClosed PROVE LeasingCallers' = LeasingCallers /\ leased' = leased /\ orphans' = orphans
  BY <1>18 DEF DestroyClosed, Live, LeasingCallers, poolVars, callVars, bgVars, vars
<1>19. ASSUME DestroyFailed PROVE LeasingCallers' = LeasingCallers /\ leased' = leased /\ orphans' = orphans
  BY <1>19 DEF DestroyFailed, Live, LeasingCallers, poolVars, callVars, bgVars, vars
<1>20. ASSUME Reap PROVE LeasingCallers' = LeasingCallers /\ leased' = leased /\ orphans' = orphans
  BY <1>20 DEF Reap, Live, LeasingCallers, poolVars, callVars, bgVars, vars
<1>21. ASSUME DestroyPool PROVE LeasingCallers' = LeasingCallers /\ leased' = leased /\ orphans' = orphans
  BY <1>21 DEF DestroyPool, Live, LeasingCallers, poolVars, callVars, bgVars, vars
<1> QED
  BY <1>1, <1>2, <1>3, <1>4, <1>5, <1>6, <1>7, <1>8, <1>9, <1>10, <1>11, <1>12, <1>13, <1>14, <1>15, <1>16, <1>17, <1>18, <1>19, <1>20, <1>21

\* Every step keeps leased the number of live leases, lost ones included.
LEMMA LeasedStep ==
    ASSUME TypeOK, CallsOK, WaitersKept, Places, LeasedOK, Next PROVE LeasedOK'
<1> USE FinitePlaces
<1>1. ASSUME NEW c \in Callers, ReleaseClosed(c) \/ ReleaseToIdle(c) \/ Drop(c) PROVE LeasedOK'
  <2>1. c \in LeasingCallers /\ LeasingCallers' = LeasingCallers \ {c}
    BY <1>1 DEF ReleaseClosed, ReleaseToIdle, Drop, CanReturn, LeasingCallers, Live, TypeOK
  <2>2. leased' = Dec(leased) /\ orphans' = orphans
    BY <1>1 DEF ReleaseClosed, ReleaseToIdle, Drop
  <2>3. Cardinality(LeasingCallers') = Cardinality(LeasingCallers) - 1 /\ Cardinality(LeasingCallers) > 0
    BY <2>1, OneLess
  <2>4. leased' = leased - 1
    BY <2>2, <2>3 DEF Dec, LeasedOK
  <2> QED
    BY <2>2, <2>3, <2>4 DEF LeasedOK
<1>2. ASSUME NEW c \in Callers, ReleaseToWaiter(c) PROVE LeasedOK'
  <2> DEFINE next == Head(waiters)
  <2>1. waiters # <<>> /\ leased' = Dec(leased) + 1 /\ orphans' = orphans
        /\ done' = [done EXCEPT ![c] = TRUE, ![next] = FALSE] /\ ~done[c]
    BY <1>2 DEF ReleaseToWaiter, CanReturn
  <2>2. next \in Callers /\ ~Live(next)
    BY <2>1, HeadWaits
  <2> HIDE DEF next
  <2>3. /\ c \in LeasingCallers /\ next \notin LeasingCallers \ {c}
        /\ LeasingCallers' = (LeasingCallers \ {c}) \cup {next}
    BY <2>1, <2>2 DEF LeasingCallers, Live, TypeOK
  <2>4. Cardinality(LeasingCallers \ {c}) = Cardinality(LeasingCallers) - 1 /\ Cardinality(LeasingCallers) > 0
        /\ IsFiniteSet(LeasingCallers \ {c})
    BY <2>3, OneLess, FS_RemoveElement
  <2>5. Cardinality(LeasingCallers') = Cardinality(LeasingCallers \ {c}) + 1
    BY <2>3, <2>4, OneMore
  <2>6. leased' = leased
    BY <2>1, <2>4 DEF Dec, LeasedOK
  <2> QED
    BY <2>1, <2>4, <2>5, <2>6 DEF LeasedOK
<1>3. ASSUME NEW c \in Callers, Taken(c) \/ Created(c) PROVE LeasedOK'
  <2>1. pc[c] # "ready" /\ leased' = leased + 1 /\ orphans' = orphans /\ done' = [done EXCEPT ![c] = FALSE]
    BY <1>3 DEF Taken, Created
  <2>2. c \notin LeasingCallers /\ LeasingCallers' = LeasingCallers \cup {c}
    BY <2>1 DEF LeasingCallers, CallsOK, Live, TypeOK
  <2>3. Cardinality(LeasingCallers') = Cardinality(LeasingCallers) + 1
    BY <2>2, OneMore
  <2> QED
    BY <2>1, <2>3 DEF LeasedOK
<1>4. ASSUME NEW c \in Callers, Replaced(c) PROVE LeasedOK'
  <2>1. leased' = leased + 1
    BY <1>4 DEF Replaced
  <2>2. CASE serving[c] = None
    <3>1. PICK r \in Resources \ open : orphans' = orphans \cup {r} /\ done' = done
      BY <1>4, <2>2 DEF Replaced
    <3>2. r \notin orphans /\ LeasingCallers' = LeasingCallers
      BY <3>1 DEF Places, LeasingCallers, Live
    <3>3. Cardinality(orphans') = Cardinality(orphans) + 1
      BY <3>1, <3>2, OneMore
    <3> QED
      BY <2>1, <3>2, <3>3 DEF LeasedOK
  <2>3. CASE serving[c] # None
    <3>1. orphans' = orphans /\ done' = [done EXCEPT ![serving[c]] = FALSE]
      BY <1>4, <2>3 DEF Replaced
    <3>2. serving[c] \notin LeasingCallers /\ LeasingCallers' = LeasingCallers \cup {serving[c]}
      BY <2>3, <3>1, ServedWaits DEF LeasingCallers, Live, TypeOK
    <3>3. Cardinality(LeasingCallers') = Cardinality(LeasingCallers) + 1
      BY <3>2, OneMore
    <3> QED
      BY <2>1, <3>1, <3>3 DEF LeasedOK
  <2> QED
    BY <2>2, <2>3
<1>5. CASE LeasingCallers' = LeasingCallers /\ leased' = leased /\ orphans' = orphans
  BY <1>5 DEF LeasedOK
<1> QED
  BY <1>1, <1>2, <1>3, <1>4, <1>5, LeasedSame DEF Next, Background, Resume, Release
-----------------------------------------------------------------------------
(* The invariant *)

\* A new pool satisfies the inductive invariant.
LEMMA IInvInit == ASSUME Init PROVE IInv
<1>1. TypeOK
  BY TypeInit
<1>2. CallsOK /\ Places
  BY PoolAssumption DEF Init, CallsOK, Places, Live, Holding
<1>3. WaitOK
  <2>1. Distinct(<<>>) /\ Elems(<<>>) = {}
    BY DEF Distinct, Elems
  <2>2. waiters = <<>> /\ \A c \in Callers : serving[c] = None /\ pc[c] = "ready"
    BY DEF Init
  <2> QED
    BY <2>1, <2>2, PoolAssumption DEF WaitOK
<1>4. CreatingOK
  <2>1. CreatingCallers = {}
    BY DEF Init, CreatingCallers
  <2>2. creating = WarmCreates
    BY DEF Init, WarmCreates
  <2>3. WarmCreates \in {0, 1}
    BY DEF WarmCreates
  <2> QED
    BY <2>1, <2>2, <2>3, FS_EmptySet DEF CreatingOK
<1>5. LeasedOK
  <2>1. LeasingCallers = {} /\ orphans = {} /\ leased = 0
    BY DEF Init, LeasingCallers, Live
  <2> QED
    BY <2>1, FS_EmptySet DEF LeasedOK
<1> QED
  BY <1>1, <1>2, <1>3, <1>4, <1>5 DEF IInv

\* Every step preserves the inductive invariant.
LEMMA IInvStep == ASSUME IInv, [Next]_vars PROVE IInv'
<1>1. CASE Next
  BY <1>1, WaitForm, TypeStep, CallsStep, WaitStep, PlacesStep, CreatingStep, LeasedStep
  DEF IInv
<1>2. CASE UNCHANGED vars
  <2>1. TypeOK' /\ CallsOK' /\ Places'
    BY <1>2 DEF IInv, TypeOK, CallsOK, Places, Live, vars, poolVars, callVars, bgVars
  <2>2. WaitOK'
    BY <1>2 DEF IInv, WaitOK, Distinct, Elems, vars, poolVars, callVars
  <2>3. CreatingOK' /\ LeasedOK'
    <3>1. CreatingCallers' = CreatingCallers /\ LeasingCallers' = LeasingCallers
      BY <1>2 DEF CreatingCallers, LeasingCallers, Live, vars, callVars
    <3>2. WarmCreates' = WarmCreates
      BY <1>2 DEF WarmCreates, vars, bgVars
    <3> QED
      BY <1>2, <3>1, <3>2 DEF IInv, CreatingOK, LeasedOK, vars, poolVars
  <2> QED
    BY <2>1, <2>2, <2>3 DEF IInv
<1> QED
  BY <1>1, <1>2

\* The inductive invariant holds of every reachable state of the pool: each suspended
\* call, queue entry, resource and counter is in agreement with the others.
THEOREM PoolInvariant == Spec => []IInv
<1>1. Init => IInv
  BY IInvInit
<1>2. IInv /\ [Next]_vars => IInv'
  BY IInvStep
<1> QED
  BY <1>1, <1>2, PTL DEF Spec

\* The types of the pool's fields hold whatever the options and the faults.
THEOREM PoolTypeOK == Spec => []TypeOK
<1>1. IInv => TypeOK
  BY DEF IInv
<1> QED
  BY <1>1, PoolInvariant, PTL

\* What is being destroyed is what calls, the reaper and destroy() hold for it.
LEMMA DyingForm ==
    ASSUME IInv, NEW r, r \in Dying
    PROVE  /\ r \in open /\ r \notin idle /\ r \notin orphans
           /\ \A c \in Callers : frame[c] # r /\ (Live(c) => lease[c] # r)
<1>1. CASE r \in UNION reaping
  <2>1. PICK kill \in reaping : r \in kill
    BY <1>1
  <2> QED
    BY <2>1 DEF IInv, Places
<1>2. CASE r = closing /\ closing # None
  BY <1>2 DEF IInv, Places
<1>3. r \in UNION reaping \/ (r = closing /\ closing # None)
  <2>1. r \in (UNION reaping) \cup ({closing} \ {None})
    BY DEF Dying
  <2> QED
    BY <2>1
<1> QED
  BY <1>1, <1>2, <1>3

\* No resource is in two places at once: pool.ts never leases a connection twice,
\* and never destroys or stacks one that is leased.
THEOREM PoolExclusive == Spec => []Exclusive
<1>1. ASSUME IInv PROVE Exclusive
  <2>1. \A c, d \in Callers :
          /\ Live(c) /\ Live(d) /\ lease[c] = lease[d] => c = d
          /\ frame[c] # None /\ frame[c] = frame[d] => c = d
    BY <1>1 DEF IInv, Places
  <2>2. \A k1, k2 \in reaping : k1 # k2 => k1 \cap k2 = {}
    BY <1>1 DEF IInv, Places
  <2>3. closing \notin UNION reaping
    BY <1>1 DEF IInv, Places
  <2>4. Leased \cap (idle \cup Framed \cup Dying \cup orphans) = {}
    BY <1>1, DyingForm DEF IInv, Places, Leased, Framed
  <2>5. idle \cap (Framed \cup Dying \cup orphans) = {}
    BY <1>1, DyingForm DEF IInv, Places, Framed
  <2>6. Framed \cap (Dying \cup orphans) = {}
    BY <1>1, DyingForm DEF IInv, Places, Framed
  <2>7. Dying \cap orphans = {}
    BY <1>1, DyingForm
  <2> QED
    BY <2>1, <2>2, <2>3, <2>4, <2>5, <2>6, <2>7 DEF Exclusive
<1> QED
  BY <1>1, PoolInvariant, PTL

\* What the pool refers to is open.
THEOREM PoolNothingClosedIsUsed == Spec => []NothingClosedIsUsed
<1>1. ASSUME IInv PROVE NothingClosedIsUsed
  <2>1. idle \subseteq open /\ orphans \subseteq open
    BY <1>1 DEF IInv, Places
  <2>2. Leased \subseteq open /\ Framed \subseteq open
    BY <1>1 DEF IInv, Places, Leased, Framed
  <2>3. Dying \subseteq open
    BY <1>1, DyingForm
  <2> QED
    BY <2>1, <2>2, <2>3 DEF NothingClosedIsUsed, Placed
<1> QED
  BY <1>1, PoolInvariant, PTL

\* A waiting acquire() can be settled by the queue or by one replacement, never
\* by both and never by neither.
THEOREM PoolWaitersKept == Spec => []WaitersKept
<1>1. IInv => WaitersKept
  BY WaitForm DEF IInv
<1> QED
  BY <1>1, PoolInvariant, PTL

\* leased and creating are exact, so totalLive() counts what it says it counts.
THEOREM PoolCountersExact == Spec => []CountersExact
<1>1. IInv => CountersExact
  BY DEF IInv, CreatingOK, LeasedOK, CountersExact, CreatingCallers,
         LeasingCallers, WarmCreates
<1> QED
  BY <1>1, PoolInvariant, PTL

-----------------------------------------------------------------------------
(* Pool implements Lending *)

\* To the abstract lender the resources that are out are the leased ones.
LEMMA LentOutForm == ASSUME IInv PROVE Lend!LentOut = Leased
<1>1. \A c \in Callers : Live(c) => lease[c] \in Resources
  BY DEF IInv, TypeOK, CallsOK
<1> QED
  BY <1>1, PoolAssumption DEF Lend!LentOut, lent, Leased

\* The steps in which no resource is opened, closed, leased or returned.
LEMMA LendStutters ==
    ASSUME \/ \E c \in Callers :
                  Acquire(c) \/ AcquireRefused(c) \/ Timeout(c) \/ Validated(c) \/ ValidateFailed(c)
                  \/ Missed(c) \/ CreateFailed(c) \/ ReplaceFailed(c) \/ CloseFailed(c)
           \/ WarmFailed \/ Reap \/ ReapFailed \/ DestroyPool \/ DestroyFailed
    PROVE  UNCHANGED <<open, lease, done>>
  BY DEF Acquire, AcquireRefused, Timeout, Validated, ValidateFailed, Missed, CreateFailed, ReplaceFailed, CloseFailed, WarmFailed, Reap, ReapFailed, DestroyPool, DestroyFailed,
         poolVars, callVars, bgVars, vars

\* Every step of the pool is a step of the abstract lender, or one it does not see.
LEMMA LendStep == ASSUME IInv, [Next]_vars PROVE [Lend!Next]_(Lend!vars)
<1> USE PoolAssumption
<1>1. ASSUME UNCHANGED <<open, lease, done>> PROVE UNCHANGED Lend!vars
  BY <1>1 DEF Lend!vars, lent, Live
<1>2. ASSUME NEW r \in Resources, r \notin Leased, UNCHANGED <<lease, done>>,
             open' = open \ {r}
      PROVE  Lend!Close(r)
  BY <1>2, LentOutForm DEF Lend!Close, lent, Live
<1>3. ASSUME NEW c \in Callers, Discarded(c) \/ Closed(c) \/ Trimmed(c) \/ Dropped(c)
      PROVE  \E r \in Resources : Lend!Close(r)
  <2>1. /\ frame[c] \in Resources /\ frame[c] \notin Leased
        /\ UNCHANGED <<lease, done>> /\ open' = open \ {frame[c]}
    BY <1>3
    DEF Discarded, Closed, Trimmed, Dropped, IInv, TypeOK, CallsOK, Holding,
        Places, Leased
  <2> QED
    BY <2>1, <1>2
<1>4. ASSUME ReapClosed PROVE \E r \in Resources : Lend!Close(r)
  <2>1. PICK kill \in reaping : \E r \in kill : open' = open \ {r}
    BY <1>4 DEF ReapClosed
  <2>2. PICK r \in kill : open' = open \ {r}
    BY <2>1
  <2>3. r \in Resources /\ r \notin Leased /\ UNCHANGED <<lease, done>>
    BY <1>4 DEF ReapClosed, callVars, IInv, TypeOK, Places, Leased
  <2> QED
    BY <2>2, <2>3, <1>2
<1>5. ASSUME DestroyClosed PROVE \E r \in Resources : Lend!Close(r)
  <2>1. /\ closing \in Resources /\ closing \notin Leased
        /\ UNCHANGED <<lease, done>> /\ open' = open \ {closing}
    BY <1>5 DEF DestroyClosed, callVars, IInv, TypeOK, Places, Leased
  <2> QED
    BY <2>1, <1>2
<1>6. ASSUME NEW c \in Callers, ReleaseClosed(c) \/ ReleaseToIdle(c) \/ Drop(c)
      PROVE  Lend!Return(c)
  <2>1. /\ Live(c) /\ lease[c] # None /\ UNCHANGED <<open, lease>>
        /\ done' = [done EXCEPT ![c] = TRUE]
    BY <1>6 DEF ReleaseClosed, ReleaseToIdle, Drop, CanReturn, Live
  <2> QED
    BY <2>1 DEF Lend!Return, lent, Live, IInv, TypeOK
<1>7. ASSUME NEW c \in Callers, ReleaseToWaiter(c)
      PROVE  \E d \in Callers : Lend!HandOver(c, d)
  <2> DEFINE next == Head(waiters)
  <2>1. /\ waiters # <<>> /\ lease' = [lease EXCEPT ![next] = lease[c]]
        /\ done' = [done EXCEPT ![c] = TRUE, ![next] = FALSE]
        /\ Live(c) /\ lease[c] # None /\ open' = open
    BY <1>7 DEF ReleaseToWaiter, CanReturn, Live
  <2>2. next \in Callers /\ ~Live(next)
    BY <2>1, HeadWaits, WaitForm DEF IInv
  <2> HIDE DEF next
  <2>3. lent' = [lent EXCEPT ![c] = None, ![next] = lent[c]]
    BY <2>1, <2>2 DEF lent, Live, IInv, TypeOK
  <2> QED
    BY <2>1, <2>2, <2>3 DEF Lend!HandOver, lent
<1>8. ASSUME NEW c \in Callers, ~Live(c), NEW r \in Resources, r \notin Leased,
             lease' = [lease EXCEPT ![c] = r], done' = [done EXCEPT ![c] = FALSE],
             open' = open \cup {r}
      PROVE  Lend!Grant(c, r)
  BY <1>8, LentOutForm DEF Lend!Grant, lent, Live, IInv, TypeOK
<1>9. ASSUME NEW c \in Callers, Taken(c) PROVE Lend!Grant(c, frame[c])
  <2>1. /\ ~Live(c) /\ frame[c] \in Resources /\ frame[c] \notin Leased
        /\ frame[c] \in open
    BY <1>9 DEF Taken, IInv, TypeOK, CallsOK, Holding, Places, Leased
  <2> QED
    BY <1>8, <1>9, <2>1 DEF Taken
<1>10. ASSUME NEW c \in Callers, Created(c)
       PROVE  \E r \in Resources : Lend!Grant(c, r)
  <2>1. PICK r \in Resources \ open :
               open' = open \cup {r} /\ lease' = [lease EXCEPT ![c] = r]
    BY <1>10 DEF Created
  <2>2. ~Live(c) /\ done' = [done EXCEPT ![c] = FALSE]
    BY <1>10 DEF Created, IInv, CallsOK
  <2>3. r \notin Leased
    BY <2>1 DEF IInv, Places, Leased
  <2> QED
    BY <1>8, <2>1, <2>2, <2>3
<1>11. ASSUME NEW c \in Callers, Replaced(c)
       PROVE  \E r \in Resources : Lend!Open(r) \/ \E d \in Callers : Lend!Grant(d, r)
  <2>1. PICK r \in Resources \ open :
          /\ open' = open \cup {r}
          /\ serving[c] # None => /\ lease' = [lease EXCEPT ![serving[c]] = r]
                                  /\ done' = [done EXCEPT ![serving[c]] = FALSE]
          /\ serving[c] = None => UNCHANGED <<lease, done>>
    BY <1>11 DEF Replaced
  <2>2. r \notin Leased
    BY <2>1 DEF IInv, Places, Leased
  <2>3. CASE serving[c] = None
    BY <2>1, <2>3 DEF Lend!Open, lent, Live
  <2>4. CASE serving[c] # None
    <3>1. serving[c] \in Callers /\ ~Live(serving[c])
      BY <2>4, ServedWaits, WaitForm DEF IInv
    <3> QED
      BY <1>8, <2>1, <2>2, <2>4, <3>1
  <2> QED
    BY <2>3, <2>4
<1>12. ASSUME WarmCreated PROVE \E r \in Resources : Lend!Open(r)
  <2>1. PICK r \in Resources \ open : open' = open \cup {r}
    BY <1>12 DEF WarmCreated
  <2>2. UNCHANGED <<lease, done>>
    BY <1>12 DEF WarmCreated, callVars
  <2> QED
    BY <2>1, <2>2 DEF Lend!Open, lent, Live
<1>13. CASE UNCHANGED vars
  BY <1>1, <1>13 DEF vars, callVars
<1>14. ASSUME NEW c \in Callers, Taken(c) PROVE \E r \in Resources : Lend!Grant(c, r)
  BY <1>9, <1>14 DEF Taken, IInv, TypeOK, CallsOK, Holding
<1> QED
  BY <1>1, <1>3, <1>4, <1>5, <1>6, <1>7, <1>10, <1>11, <1>12, <1>13, <1>14, LendStutters
  DEF Next, Background, Resume, Release, Lend!Next

\* Pool implements Lending: no reader of the pool can tell it from something that
\* lends open connections to one caller at a time.
THEOREM PoolLendsExclusively == Spec => LendsExclusively
<1>1. Init => Lend!Init
  BY DEF Init, Lend!Init, lent, Live
<1>2. IInv /\ [Next]_vars => [Lend!Next]_(Lend!vars)
  BY LendStep
<1> QED
  BY <1>1, <1>2, PoolInvariant, PTL DEF Spec, LendsExclusively, Lend!Spec

-----------------------------------------------------------------------------
(* The account of the connections.  Three more parts make an invariant:        *)
(* where an open resource can be, how many are kept idle, and what a destroyed *)
(* pool still has.                                                             *)

\* Placed, resource by resource.
InPlace(r) ==
    \/ r \in idle \/ r \in orphans \/ (r = closing /\ closing # None)
    \/ \E c \in Callers : Live(c) /\ lease[c] = r
    \/ \E c \in Callers : frame[c] # None /\ frame[c] = r
    \/ \E kill \in reaping : r \in kill

\* No adapter.destroy() or validate() throws.
Reliable == Faults \subseteq {"create"}
FoundOK  == Reliable => \A r \in open : InPlace(r)

\* The pool keeps a place for what warm() is creating.
KeptOK == MinIdle < Max => Cardinality(idle) + WarmCreates <= Max

\* destroy() is at work until nothing is idle, and nothing becomes idle again.
DrainOK ==
    /\ ~destroyed => closing = None
    /\ MinIdle = 0 => ~warming
    /\ destroyed /\ MinIdle = 0 /\ "destroy" \notin Faults => closing # None \/ idle = {}

\* The sets of Exclusive say the same of all resources.
LEMMA PlacedForm == \A r : InPlace(r) => r \in Placed
<1> SUFFICES ASSUME NEW r, InPlace(r) PROVE r \in Placed
  OBVIOUS
<1>1. CASE r \in idle \/ r \in orphans
  BY <1>1 DEF Placed
<1>2. CASE r = closing /\ closing # None
  <2>1. r \in Dying
    BY <1>2 DEF Dying
  <2> QED
    BY <2>1 DEF Placed
<1>3. CASE \E c \in Callers : Live(c) /\ lease[c] = r
  <2>1. r \in Leased
    BY <1>3 DEF Leased
  <2> QED
    BY <2>1 DEF Placed
<1>4. CASE \E c \in Callers : frame[c] # None /\ frame[c] = r
  <2>1. r \in Framed
    BY <1>4 DEF Framed
  <2> QED
    BY <2>1 DEF Placed
<1>5. CASE \E kill \in reaping : r \in kill
  <2>1. r \in Dying
    BY <1>5 DEF Dying
  <2> QED
    BY <2>1 DEF Placed
<1> QED
  BY <1>1, <1>2, <1>3, <1>4, <1>5 DEF InPlace

\* Handing a resource over moves it from one lease to another.
LEMMA FoundReleaseToWaiter ==
    ASSUME TypeOK, CallsOK, WaitersKept, FoundOK, NEW c \in Callers, ReleaseToWaiter(c)
    PROVE  FoundOK'
<1> DEFINE next == Head(waiters)
<1> HIDE DEF next
<1>1. waiters # <<>>
  BY DEF ReleaseToWaiter
<1>2. /\ lease' = [lease EXCEPT ![next] = lease[c]]
      /\ done' = [done EXCEPT ![c] = TRUE, ![next] = FALSE]
      /\ UNCHANGED <<frame, open, orphans, idle, reaping, closing>> /\ next \in Callers
      /\ ~Live(next) /\ Live(c)
  BY <1>1, HeadWaits DEF ReleaseToWaiter, next, CanReturn, bgVars, Live
<1>3. /\ ~done'[next] /\ lease'[next] = lease[c]
      /\ \A d \in Callers : Live(d) /\ d # c => Live(d)' /\ lease'[d] = lease[d]
  BY <1>2 DEF Live, TypeOK
<1>4. \A r : (\E d \in Callers : Live(d) /\ lease[d] = r) => (\E d \in Callers : Live(d)' /\ lease'[d] = r)
  BY <1>2, <1>3 DEF Live
<1> QED
  BY <1>2, <1>4 DEF FoundOK, InPlace, Reliable

\* A replacement is leased to whom it was created for, or orphaned.
LEMMA FoundReplaced ==
    ASSUME TypeOK, CallsOK, WaitersKept, FoundOK, NEW c \in Callers, Replaced(c)
    PROVE  FoundOK'
<1>1. PICK r \in Resources \ open :
         /\ open' = open \cup {r}
         /\ serving[c] # None =>
                 /\ lease' = [lease EXCEPT ![serving[c]] = r]
                 /\ done' = [done EXCEPT ![serving[c]] = FALSE]
                 /\ UNCHANGED orphans
         /\ serving[c] = None =>
                 /\ orphans' = orphans \cup {r}
                 /\ UNCHANGED <<lease, done>>
  BY DEF Replaced
<1>2. UNCHANGED <<frame, idle, reaping, closing>>
  BY DEF Replaced, bgVars
<1>3. CASE serving[c] = None
  BY <1>1, <1>2, <1>3 DEF FoundOK, InPlace, Live
<1>4. CASE serving[c] # None
  <2>1. /\ serving[c] \in Callers /\ ~Live(serving[c]) /\ ~done'[serving[c]] /\ lease'[serving[c]] = r
        /\ \A d \in Callers : Live(d) => Live(d)' /\ lease'[d] = lease[d]
    BY <1>1, <1>4, ServedWaits DEF Live, TypeOK
  <2>2. \A s : InPlace(s) => InPlace(s)'
    BY <1>1, <1>2, <1>4, <2>1 DEF InPlace
  <2>3. InPlace(r)'
    BY <2>1 DEF InPlace, Live
  <2> QED
    BY <1>1, <2>2, <2>3 DEF FoundOK
<1> QED
  BY <1>3, <1>4

\* What the reaper has not destroyed yet, it still has.
LEMMA FoundReapClosed ==
    ASSUME TypeOK, FoundOK, ReapClosed
    PROVE  FoundOK'
<1>1. PICK kill \in reaping : \E r \in kill :
         /\ open' = open \ {r}
         /\ reaping' = (reaping \ {kill}) \cup ({kill \ {r}} \ {{}})
  BY DEF ReapClosed
<1>2. PICK r \in kill :
         /\ open' = open \ {r}
         /\ reaping' = (reaping \ {kill}) \cup ({kill \ {r}} \ {{}})
  BY <1>1
<1>3. UNCHANGED <<frame, idle, closing, orphans, lease, done>>
  BY DEF ReapClosed, poolVars, callVars
<1>4. ASSUME NEW s, s # r, NEW k \in reaping, s \in k
      PROVE  \E k2 \in reaping' : s \in k2
  <2>1. CASE k = kill
    <3>1. s \in kill \ {r} /\ kill \ {r} \in reaping'
      BY <1>2, <1>4, <2>1
    <3> QED
      BY <3>1
  <2>2. CASE k # kill
    BY <1>2, <1>4, <2>2
  <2> QED
    BY <2>1, <2>2
<1>5. \A s : s # r /\ InPlace(s) => InPlace(s)'
  BY <1>3, <1>4 DEF InPlace, Live
<1> QED
  BY <1>2, <1>5 DEF FoundOK

\* Every step leaves an open resource in one of the places of the pool.
LEMMA FoundStep ==
    ASSUME TypeOK, CallsOK, WaitersKept, DrainOK, FoundOK, Next
    PROVE  FoundOK'
<1> USE PoolAssumption
<1>1. ASSUME NEW c \in Callers, Acquire(c) PROVE FoundOK'
  BY <1>1 DEF Acquire, FoundOK, InPlace, CallsOK, TypeOK, Live, Holding, TakeIdle, bgVars
<1>2. ASSUME UNCHANGED <<open, idle, orphans, closing, lease, done, frame, reaping>> PROVE FoundOK'
  BY <1>2 DEF FoundOK, InPlace, Live
<1>3. ASSUME NEW c \in Callers, AcquireRefused(c) \/ Timeout(c) \/ Validated(c) \/ Missed(c) \/ CreateFailed(c)
                                \/ ReplaceFailed(c)
      PROVE  UNCHANGED <<open, idle, orphans, closing, lease, done, frame, reaping>>
  BY <1>3 DEF AcquireRefused, Timeout, Validated, Missed, CreateFailed, ReplaceFailed, WarmFailed, poolVars,
              callVars, bgVars, vars
<1>4. ASSUME NEW c \in Callers, ReleaseClosed(c) \/ Drop(c) PROVE FoundOK'
  BY <1>4 DEF ReleaseClosed, Drop, FoundOK, InPlace, CallsOK, TypeOK, Live, Holding, CanReturn, bgVars
<1>5. ASSUME NEW c \in Callers, ReleaseToIdle(c) PROVE FoundOK'
  BY <1>5 DEF ReleaseToIdle, FoundOK, InPlace, CallsOK, TypeOK, Live, Holding, Trim, CanReturn, bgVars
<1>6. ASSUME NEW c \in Callers, Discarded(c) PROVE FoundOK'
  BY <1>6 DEF Discarded, FoundOK, InPlace, CallsOK, TypeOK, Live, Holding, TakeIdle, bgVars
<1>7. ASSUME NEW c \in Callers, Taken(c) PROVE FoundOK'
  BY <1>7 DEF Taken, FoundOK, InPlace, CallsOK, TypeOK, Live, Holding, bgVars
<1>8. ASSUME NEW c \in Callers, Created(c) PROVE FoundOK'
  BY <1>8 DEF Created, FoundOK, InPlace, CallsOK, TypeOK, Live, Holding, bgVars
<1>9. ASSUME NEW c \in Callers, Closed(c) PROVE FoundOK'
  BY <1>9 DEF Closed, FoundOK, InPlace, CallsOK, TypeOK, Live, Holding, poolVars, bgVars
<1>10. ASSUME NEW c \in Callers, Trimmed(c) PROVE FoundOK'
  BY <1>10 DEF Trimmed, FoundOK, InPlace, CallsOK, TypeOK, Live, Holding, Trim, bgVars
<1>11. ASSUME NEW c \in Callers, Dropped(c) PROVE FoundOK'
  BY <1>11 DEF Dropped, FoundOK, InPlace, CallsOK, TypeOK, Live, Holding, bgVars
<1>12. ASSUME WarmCreated PROVE FoundOK'
  BY <1>12 DEF WarmCreated, FoundOK, InPlace, Live, callVars
<1>13. ASSUME DestroyClosed PROVE FoundOK'
  BY <1>13 DEF DestroyClosed, FoundOK, InPlace, TypeOK, Live, CloseNext, callVars
<1>14. ASSUME Reap PROVE FoundOK'
  BY <1>14 DEF Reap, FoundOK, InPlace, Live, callVars
<1>15. ASSUME DestroyPool PROVE FoundOK'
  BY <1>15 DEF DestroyPool, FoundOK, InPlace, Live, CloseNext, DrainOK, TypeOK
<1>16. ASSUME NEW c \in Callers, ValidateFailed(c) \/ CloseFailed(c) PROVE FoundOK'
  BY <1>16 DEF ValidateFailed, CloseFailed, FoundOK, Reliable
<1>17. ASSUME ReapFailed \/ DestroyFailed PROVE FoundOK'
  BY <1>17 DEF ReapFailed, DestroyFailed, FoundOK, Reliable
<1>18. WarmFailed => UNCHANGED <<open, idle, orphans, closing, lease, done, frame, reaping>>
  BY DEF WarmFailed, callVars
<1> QED
  BY <1>1, <1>2, <1>3, <1>4, <1>5, <1>6, <1>7, <1>8, <1>9, <1>10, <1>11, <1>12, <1>13, <1>14, <1>15, <1>16,
     <1>17, <1>18, FoundReleaseToWaiter, FoundReplaced, FoundReapClosed
     DEF Next, Background, Resume, Release

\* Taking a resource from the idle ones, or putting one back, moves their number by one.
LEMMA IdleFinite ==
    ASSUME TypeOK
    PROVE  /\ IsFiniteSet(idle) /\ Cardinality(idle) \in Nat
           /\ \A S \in SUBSET Resources : IsFiniteSet(S) /\ Cardinality(S) \in Nat
           /\ \A S \in SUBSET idle : Cardinality(S) <= Cardinality(idle)
<1>1. \A S \in SUBSET Resources : IsFiniteSet(S) /\ Cardinality(S) \in Nat
  BY PoolAssumption, FS_Subset, FS_CardinalityType
<1>2. idle \in SUBSET Resources
  BY DEF TypeOK
<1>3. \A S \in SUBSET idle : Cardinality(S) <= Cardinality(idle)
  BY <1>1, <1>2, FS_Subset
<1> QED
  BY <1>1, <1>2, <1>3

\* There is room for an idle resource less.
LEMMA KeptLess ==
    ASSUME TypeOK, KeptOK, idle' \subseteq idle, WarmCreates' <= WarmCreates
    PROVE  KeptOK'
<1>1. Cardinality(idle') <= Cardinality(idle) /\ Cardinality(idle) \in Nat /\ Cardinality(idle') \in Nat
  <2>1. idle' \in SUBSET idle /\ idle' \in SUBSET Resources
    BY DEF TypeOK
  <2> QED
    BY <2>1, IdleFinite
<1>2. WarmCreates \in {0, 1} /\ WarmCreates' \in {0, 1}
  BY DEF WarmCreates
<1>3. Max \in Nat /\ MinIdle \in Nat
  BY PoolAssumption
<1>4. MinIdle < Max => Cardinality(idle') + WarmCreates' <= Max
  BY <1>1, <1>2, <1>3 DEF KeptOK
<1> QED
  BY <1>4 DEF KeptOK

\* The loop of trimToMinMax() leaves no more than there may be.
LEMMA KeptTrim ==
    ASSUME TypeOK, KeptOK, CreatingOK, NEW c \in Callers, NEW pool \in SUBSET Resources, NEW n \in Nat,
           Trim(c, pool, n), warming' = warming, pool = idle \/ \E r \in Resources : pool = idle \cup {r}
    PROVE  KeptOK'
<1>1. /\ Cardinality(pool) \in Nat /\ IsFiniteSet(pool) /\ Cardinality(idle) \in Nat /\ IsFiniteSet(idle)
  BY IdleFinite
<1>2. Cardinality(pool) <= Cardinality(idle) + 1
  <2>1. CASE pool = idle
    BY <1>1, <2>1
  <2>2. CASE \E r \in Resources : pool = idle \cup {r}
    <3>1. PICK r \in Resources : pool = idle \cup {r}
      BY <2>2
    <3>2. CASE r \in idle
      <4>1. pool = idle
        BY <3>1, <3>2
      <4> QED
        BY <1>1, <4>1
    <3>3. CASE r \notin idle
      BY <1>1, <3>1, <3>3, OneMore
    <3> QED
      BY <3>2, <3>3
  <2> QED
    BY <2>1, <2>2
<1>3. WarmCreates' = WarmCreates /\ WarmCreates \in {0, 1}
  BY DEF WarmCreates
<1>4. Max \in Nat /\ MinIdle \in Nat
  BY PoolAssumption
<1>5. creating \in Int /\ creating >= WarmCreates
  BY <1>3, FinitePlaces DEF CreatingOK, TypeOK
<1>6. CASE Cardinality(pool) + n + creating > Max /\ Cardinality(pool) > MinIdle
  <2>1. PICK r \in pool : idle' = pool \ {r}
    BY <1>6 DEF Trim
  <2>2. Cardinality(idle') = Cardinality(pool) - 1
    BY <1>1, <2>1, OneLess
  <2>3. MinIdle < Max => Cardinality(idle') + WarmCreates' <= Max
    BY <1>1, <1>2, <1>3, <1>4, <2>2 DEF KeptOK
  <2> QED
    BY <2>3 DEF KeptOK
<1>7. CASE ~(Cardinality(pool) + n + creating > Max /\ Cardinality(pool) > MinIdle)
  <2>1. idle' = pool
    BY <1>7 DEF Trim
  <2>2. MinIdle < Max => Cardinality(pool) + WarmCreates <= Max
    BY <1>1, <1>3, <1>4, <1>5, <1>7
  <2>3. MinIdle < Max => Cardinality(idle') + WarmCreates' <= Max
    BY <1>3, <2>1, <2>2
  <2> QED
    BY <2>3 DEF KeptOK
<1> QED
  BY <1>6, <1>7

\* warm() stops when there are enough.
LEMMA KeptWarm ==
    ASSUME TypeOK, KeptOK, CreatingOK, WarmCreated
    PROVE  KeptOK'
<1>1. PICK r \in Resources \ open : idle' = idle \cup {r}
  BY DEF WarmCreated
<1>2. /\ IsFiniteSet(idle) /\ Cardinality(idle) \in Nat /\ Cardinality(idle') \in Nat
  <2>1. idle' \in SUBSET Resources
    BY <1>1 DEF TypeOK
  <2> QED
    BY <2>1, IdleFinite
<1>3. Cardinality(idle') <= Cardinality(idle) + 1
  <2>1. CASE r \in idle
    <3>1. idle' = idle
      BY <1>1, <2>1
    <3> QED
      BY <1>2, <3>1
  <2>2. CASE r \notin idle
    BY <1>1, <1>2, <2>2, OneMore
  <2> QED
    BY <2>1, <2>2
<1>4. Max \in Nat /\ MinIdle \in Nat /\ WarmCreates = 1
  BY PoolAssumption DEF WarmCreates, WarmCreated
<1>5. MinIdle < Max => Cardinality(idle) + 1 <= Max
  BY <1>4 DEF KeptOK
<1>6. CASE warming' = FALSE
  <2>1. WarmCreates' = 0
    BY <1>6 DEF WarmCreates
  <2>2. MinIdle < Max => Cardinality(idle') + WarmCreates' <= Max
    BY <1>2, <1>3, <1>4, <1>5, <2>1
  <2> QED
    BY <2>2 DEF KeptOK
<1>7. CASE Cardinality(idle') < MinIdle
  <2>1. WarmCreates' \in {0, 1}
    BY DEF WarmCreates
  <2>2. MinIdle < Max => Cardinality(idle') + WarmCreates' <= Max
    BY <1>2, <1>4, <1>7, <2>1
  <2> QED
    BY <2>2 DEF KeptOK
<1> QED
  BY <1>6, <1>7 DEF WarmCreated

\* Every step keeps the idle resources within Max.
LEMMA KeptStep ==
    ASSUME TypeOK, KeptOK, CreatingOK, Next
    PROVE  KeptOK'
<1>1. ASSUME idle' \subseteq idle, warming' = warming \/ warming' = FALSE PROVE KeptOK'
  <2>1. WarmCreates' <= WarmCreates
    BY <1>1 DEF WarmCreates
  <2> QED
    BY <1>1, <2>1, KeptLess
<1>2. ASSUME NEW c \in Callers, ReleaseToIdle(c) PROVE KeptOK'
  <2>1. Trim(c, idle \cup {lease[c]}, Dec(leased)) /\ lease[c] \in Resources /\ warming' = warming
    BY <1>2 DEF ReleaseToIdle, CanReturn, TypeOK, bgVars
  <2>2. Dec(leased) \in Nat /\ idle \cup {lease[c]} \in SUBSET Resources
    BY <2>1 DEF Dec, TypeOK
  <2> QED
    BY <2>1, <2>2, KeptTrim
<1>3. ASSUME NEW c \in Callers, Trimmed(c) PROVE KeptOK'
  <2>1. Trim(c, idle, leased) /\ warming' = warming /\ idle \in SUBSET Resources /\ leased \in Nat
    BY <1>3 DEF Trimmed, TypeOK, bgVars
  <2> QED
    BY <2>1, KeptTrim
<1>4. ASSUME NEW c \in Callers, Acquire(c) \/ Discarded(c) PROVE KeptOK'
  BY <1>1, <1>4 DEF Acquire, Discarded, TakeIdle, bgVars
<1>5. ASSUME NEW c \in Callers, AcquireRefused(c) \/ Timeout(c) \/ ReleaseClosed(c) \/ ReleaseToWaiter(c) \/ Drop(c)
                                \/ Validated(c) \/ ValidateFailed(c) \/ Taken(c) \/ Missed(c)
      PROVE  KeptOK'
  <2>1. idle' = idle /\ warming' = warming
    BY <1>5 DEF AcquireRefused, Timeout, ReleaseClosed, ReleaseToWaiter, Drop, Validated, ValidateFailed, Taken,
                Missed, vars, poolVars, bgVars
  <2> QED
    BY <1>1, <2>1
<1>6. ASSUME NEW c \in Callers, Created(c) \/ CreateFailed(c) \/ Closed(c) \/ Dropped(c) \/ Replaced(c)
                                \/ ReplaceFailed(c) \/ CloseFailed(c)
      PROVE  KeptOK'
  <2>1. idle' = idle /\ warming' = warming
    BY <1>6 DEF Created, CreateFailed, Closed, Dropped, Replaced, ReplaceFailed, CloseFailed, poolVars, bgVars
  <2> QED
    BY <1>1, <2>1
<1>7. CASE WarmFailed \/ ReapClosed \/ ReapFailed \/ DestroyFailed
  <2>1. idle' = idle /\ (warming' = warming \/ warming' = FALSE)
    BY <1>7 DEF WarmFailed, ReapClosed, ReapFailed, DestroyFailed, poolVars
  <2> QED
    BY <1>1, <2>1
<1>8. CASE Reap \/ DestroyPool \/ DestroyClosed
  <2>1. idle' \subseteq idle /\ warming' = warming
    BY <1>8 DEF Reap, DestroyPool, DestroyClosed, CloseNext
  <2> QED
    BY <1>1, <2>1
<1> QED
  BY <1>2, <1>3, <1>4, <1>5, <1>6, <1>7, <1>8, KeptWarm DEF Next, Background, Resume, Release

\* Every step leaves destroy() at work, or nothing for it to do.
LEMMA DrainStep ==
    ASSUME TypeOK, DrainOK, Next
    PROVE  DrainOK'
<1> USE PoolAssumption
<1>1. ASSUME idle' \subseteq idle, closing' = closing, destroyed' = destroyed, warming' = warming \/ warming' = FALSE
      PROVE  DrainOK'
  BY <1>1 DEF DrainOK
<1>2. ASSUME NEW c \in Callers, Acquire(c) \/ Discarded(c) PROVE DrainOK'
  BY <1>1, <1>2 DEF Acquire, Discarded, TakeIdle, bgVars
<1>3. ASSUME NEW c \in Callers, Trimmed(c) PROVE DrainOK'
  <2>1. idle' \subseteq idle /\ UNCHANGED <<closing, destroyed, warming>>
    BY <1>3 DEF Trimmed, Trim, bgVars
  <2> QED
    BY <1>1, <2>1
<1>4. ASSUME NEW c \in Callers, ReleaseToIdle(c) PROVE DrainOK'
  <2>1. ~destroyed /\ UNCHANGED <<closing, destroyed, warming>>
    BY <1>4 DEF ReleaseToIdle, bgVars
  <2> QED
    BY <2>1 DEF DrainOK
<1>5. ASSUME NEW c \in Callers, AcquireRefused(c) \/ Timeout(c) \/ ReleaseClosed(c) \/ ReleaseToWaiter(c) \/ Drop(c)
                                \/ Validated(c) \/ ValidateFailed(c) \/ Taken(c) \/ Missed(c)
      PROVE  DrainOK'
  <2>1. UNCHANGED <<idle, closing, destroyed, warming>>
    BY <1>5 DEF AcquireRefused, Timeout, ReleaseClosed, ReleaseToWaiter, Drop, Validated, ValidateFailed, Taken,
                Missed, vars, poolVars, bgVars
  <2> QED
    BY <1>1, <2>1
<1>6. ASSUME NEW c \in Callers, Created(c) \/ CreateFailed(c) \/ Closed(c) \/ Dropped(c) \/ Replaced(c)
                                \/ ReplaceFailed(c) \/ CloseFailed(c)
      PROVE  DrainOK'
  <2>1. UNCHANGED <<idle, closing, destroyed, warming>>
    BY <1>6 DEF Created, CreateFailed, Closed, Dropped, Replaced, ReplaceFailed, CloseFailed, poolVars, bgVars
  <2> QED
    BY <1>1, <2>1
<1>7. CASE WarmFailed \/ ReapClosed \/ ReapFailed
  <2>1. UNCHANGED <<idle, closing, destroyed>> /\ (warming' = warming \/ warming' = FALSE)
    BY <1>7 DEF WarmFailed, ReapClosed, ReapFailed, poolVars
  <2> QED
    BY <1>1, <2>1
<1>8. CASE Reap
  BY <1>1, <1>8 DEF Reap
<1>9. CASE WarmCreated
  BY <1>9 DEF WarmCreated, DrainOK
<1>10. CASE DestroyPool \/ DestroyClosed
  BY <1>10 DEF DestroyPool, DestroyClosed, CloseNext, DrainOK, TypeOK
<1>11. CASE DestroyFailed
  BY <1>11 DEF DestroyFailed, DrainOK, poolVars
<1> QED
  BY <1>2, <1>3, <1>4, <1>5, <1>6, <1>7, <1>8, <1>9, <1>10, <1>11 DEF Next, Background, Resume, Release

\* While no adapter.destroy() or validate() throws, every open connection is idle,
\* leased or about to be destroyed; with MinIdle < Max there are never more than Max
\* idle ones; and a pool at rest after destroy() has no connection open but those whose
\* lease reached nobody (releaseResource, trimToMinMax, warm and destroy of pool.ts).
THEOREM PoolAccounted == Spec => []Accounted
<1>1. Init => FoundOK /\ KeptOK /\ DrainOK
  <2> SUFFICES ASSUME Init PROVE FoundOK /\ KeptOK /\ DrainOK
    OBVIOUS
  <2>1. FoundOK
    BY DEF Init, FoundOK
  <2>2. DrainOK
    <3>1. ~destroyed /\ closing = None /\ warming = (MinIdle > 0)
      BY DEF Init
    <3>2. MinIdle = 0 => ~(MinIdle > 0)
      OBVIOUS
    <3>3. MinIdle = 0 => ~warming
      BY <3>1, <3>2
    <3> QED
      BY <3>1, <3>3 DEF DrainOK
  <2>3. Cardinality(idle) = 0
    BY FS_EmptySet DEF Init
  <2>4. Max \in Nat \ {0} /\ WarmCreates \in {0, 1}
    BY PoolAssumption DEF WarmCreates
  <2>5. Cardinality(idle) + WarmCreates <= Max
    BY <2>3, <2>4
  <2> QED
    BY <2>1, <2>2, <2>5 DEF KeptOK
<1>2. IInv /\ FoundOK /\ KeptOK /\ DrainOK /\ [Next]_vars => (FoundOK /\ KeptOK /\ DrainOK)'
  <2> SUFFICES ASSUME IInv, FoundOK, KeptOK, DrainOK, [Next]_vars PROVE (FoundOK /\ KeptOK /\ DrainOK)'
    OBVIOUS
  <2>1. TypeOK /\ CallsOK /\ WaitersKept /\ CreatingOK
    BY WaitForm DEF IInv
  <2>2. CASE Next
    BY <2>1, <2>2, FoundStep, KeptStep, DrainStep
  <2>3. CASE UNCHANGED vars
    <3>1. UNCHANGED <<open, idle, orphans, closing, lease, done, frame, reaping, warming, destroyed>>
      BY <2>3 DEF vars, poolVars, callVars, bgVars
    <3>2. FoundOK'
      BY <3>1 DEF FoundOK, InPlace, Live
    <3>3. KeptOK'
      BY <3>1 DEF KeptOK, WarmCreates
    <3> QED
      BY <3>1, <3>2, <3>3 DEF DrainOK
  <2> QED
    BY <2>2, <2>3
<1>3. IInv /\ FoundOK /\ KeptOK /\ DrainOK => Accounted
  <2> SUFFICES ASSUME IInv, FoundOK, KeptOK, DrainOK PROVE Accounted
    OBVIOUS
  <2>1. TypeOK
    BY DEF IInv
  <2>2. NothingLost
    BY PlacedForm DEF NothingLost, FoundOK, Reliable
  <2>3. IdleWithinMax
    <3>1. Cardinality(idle) \in Nat /\ Max \in Nat /\ WarmCreates \in {0, 1}
      BY <2>1, IdleFinite, PoolAssumption DEF WarmCreates
    <3>2. MinIdle < Max => Cardinality(idle) + WarmCreates <= Max
      BY DEF KeptOK
    <3>3. MinIdle < Max => Cardinality(idle) <= Max
      BY <3>1, <3>2
    <3> QED
      BY <3>3 DEF IdleWithinMax
  <2>4. DestroyedIsDrained
    <3> SUFFICES ASSUME Quiet, destroyed, MinIdle = 0, Faults \subseteq {"create"}, NEW r \in open
                 PROVE  r \in orphans
      BY DEF DestroyedIsDrained
    <3>1. InPlace(r)
      BY DEF FoundOK, Reliable
    <3>2. idle = {} /\ closing = None /\ reaping = {}
      BY DEF DrainOK, Quiet
    <3>3. \A c \in Callers : ~Live(c) /\ frame[c] = None
      BY DEF Quiet, IInv, CallsOK, Holding
    <3> QED
      BY <3>1, <3>2, <3>3 DEF InPlace
  <2> QED
    BY <2>1, <2>2, <2>3, <2>4 DEF Accounted
<1> QED
  BY <1>1, <1>2, <1>3, PoolInvariant, PTL DEF Spec

\* Closing a resource, and warming up, changes no lease.
LEMMA DoneSame ==
    ASSUME \/ \E c \in Callers : Discarded(c) \/ Closed(c) \/ Trimmed(c) \/ Dropped(c)
           \/ WarmCreated \/ ReapClosed \/ DestroyClosed
    PROVE  done' = done
BY DEF Discarded, Closed, Trimmed, Dropped, WarmCreated, ReapClosed, DestroyClosed, callVars

\* A later waiter is not answered before an earlier one: whoever of the queue gets a
\* lease is its first (releaseResource, destroyResource).
THEOREM PoolServesInOrder == Spec => FifoService
<1>1. ASSUME IInv, [Next]_vars PROVE FifoStep
  <2> SUFFICES ASSUME NEW i \in 1..Len(waiters), NEW j \in 1..Len(waiters),
                      i < j, ~Live(waiters[j]), ~done'[waiters[j]]
               PROVE  FALSE
    BY DEF FifoStep
  <2>1. /\ TypeOK /\ CallsOK /\ WaitersKept
        /\ waiters \in Seq(Callers) /\ waiters # <<>>
    BY <1>1, WaitForm DEF IInv, TypeOK
  <2>2. waiters[j] \in Callers /\ waiters[j] \in Queued /\ pc[waiters[j]] = "waiting" /\ done[waiters[j]]
    BY <2>1 DEF WaitersKept, Queued, Live
  <2> DEFINE x == waiters[j]
  <2> HIDE DEF x
  <2>3. x \in Callers /\ pc[x] = "waiting" /\ done[x] /\ ~done'[x] /\ x \in Queued
    BY <2>2 DEF x
  <2>4. x # Head(waiters)
    <3>1. Head(waiters) = waiters[1] /\ 1 \in 1..Len(waiters) /\ j # 1
      BY <2>1
    <3> QED
      BY <2>1, <3>1 DEF WaitersKept, x
  <2>5. ASSUME NEW c \in Callers, Taken(c) \/ Created(c) PROVE FALSE
    <3>1. done' = [done EXCEPT ![c] = FALSE] /\ pc[c] # "waiting"
      BY <2>5 DEF Taken, Created
    <3> QED
      BY <2>1, <2>3, <3>1 DEF TypeOK
  <2>6. ASSUME NEW c \in Callers, ReleaseToWaiter(c) PROVE FALSE
    <3>1. done' = [done EXCEPT ![c] = TRUE, ![Head(waiters)] = FALSE]
      BY <2>6 DEF ReleaseToWaiter
    <3> QED
      BY <2>1, <2>3, <2>4, <3>1 DEF TypeOK
  <2>7. ASSUME NEW c \in Callers, Replaced(c) PROVE FALSE
    <3>1. done' = done \/ done' = [done EXCEPT ![serving[c]] = FALSE]
      BY <2>7 DEF Replaced
    <3>2. serving[c] # x
      BY <2>1, <2>3 DEF WaitersKept
    <3> QED
      BY <2>1, <2>3, <3>1, <3>2 DEF TypeOK
  <2>8. ASSUME NEW c \in Callers, ReleaseClosed(c) \/ ReleaseToIdle(c) \/ Drop(c) PROVE FALSE
    <3>1. done' = [done EXCEPT ![c] = TRUE]
      BY <2>8 DEF ReleaseClosed, ReleaseToIdle, Drop
    <3> QED
      BY <2>1, <2>3, <3>1 DEF TypeOK
  <2>9. CASE done' = done
    BY <2>3, <2>9
  <2>10. CASE Next
    BY <2>5, <2>6, <2>7, <2>8, <2>9, <2>10, LendStutters, DoneSame DEF Next, Background, Resume, Release
  <2> QED
    BY <1>1, <2>9, <2>10 DEF vars, callVars
<1> QED
  BY <1>1, PoolInvariant, PTL DEF Spec, FifoService
=============================================================================
