-------------------------------- MODULE Pool --------------------------------
(***************************************************************************)
(* The connection pool, src/src/core/execution/pooling/pool.ts.            *)
(*                                                                         *)
(* The program has one thread, so the code between two awaits is one step  *)
(* and every await is a point where the other activities run.  An activity *)
(* is a caller inside acquire(), lease.release() or lease.destroy(); the   *)
(* warm-up loop; a tick of the reap timer; or the call of destroy().  pc   *)
(* says at which await a caller is suspended, frame which resource its     *)
(* suspended call holds in a local variable.                               *)
(*                                                                         *)
(* The idle stack is a set here: which of the idle resources pop() and     *)
(* shift() choose is left open, as no property tells two of them apart.    *)
(***************************************************************************)
EXTENDS Integers, Sequences, FiniteSets

CONSTANTS Callers,      \* activities that acquire and release, one lease each
          Resources,    \* names for open resources: bounds how many are open
          None,         \* no resource, no caller
          Max,          \* options.max
          MinIdle,      \* options.min
          HasValidate,  \* does the adapter have a validate()?
          HasTimeout,   \* is acquireTimeoutMillis set?
          HasReaper,    \* is idleTimeoutMillis set?
          Faults        \* the adapter calls that may throw

ASSUME PoolAssumption ==
    /\ None \notin Callers /\ None \notin Resources
    /\ IsFiniteSet(Callers) /\ IsFiniteSet(Resources)
    /\ Max \in Nat \ {0} /\ MinIdle \in Nat
    /\ HasValidate \in BOOLEAN /\ HasTimeout \in BOOLEAN /\ HasReaper \in BOOLEAN
    /\ Faults \subseteq {"create", "destroy", "validate"}

VARIABLES destroyed, creating, leased, idle, waiters,  \* the fields of Pool
          pc, frame, serving,   \* the suspended call of each caller
          lease, done,          \* the last lease object of each caller
          warming,              \* is warm() waiting for a create()?
          reaping,              \* for every running reapIdle(), what it still has to destroy
          closing,              \* what the running destroy() is destroying
          open,                 \* the resources that exist outside the pool
          orphans               \* resources of leases that reached nobody

poolVars == <<destroyed, creating, leased, idle, waiters>>
callVars == <<pc, frame, serving, lease, done>>
bgVars   == <<warming, reaping, closing>>
vars     == <<poolVars, callVars, bgVars, open, orphans>>

-----------------------------------------------------------------------------
Acquiring == {"taken", "missed", "validating", "discarding", "creating", "waiting"}
Returning == {"closing", "trimming", "dropping", "replacing"}
Holding   == {"taken", "validating", "discarding", "closing", "trimming", "dropping"}

TotalLive == Cardinality(idle) + leased + creating

\* Math.max(0, n - 1)
Dec(n) == IF n > 0 THEN n - 1 ELSE 0

Queued == {waiters[i] : i \in 1..Len(waiters)}

\* The caller has a lease on which neither release() nor destroy() was called.
Live(c) == ~done[c]

Init ==
    /\ destroyed = FALSE /\ leased = 0 /\ idle = {} /\ waiters = <<>>
    /\ pc = [c \in Callers |-> "ready"]
    /\ frame = [c \in Callers |-> None]
    /\ serving = [c \in Callers |-> None]
    /\ lease = [c \in Callers |-> None]
    /\ done = [c \in Callers |-> TRUE]
    \* The constructor runs warm() up to its first create().
    /\ warming = (MinIdle > 0)
    /\ creating = IF MinIdle > 0 THEN 1 ELSE 0
    /\ reaping = {} /\ closing = None
    /\ open = {} /\ orphans = {}

-----------------------------------------------------------------------------
(* acquire *)

\* Variant: the resource is looked at but not popped.
TakeIdlePeeks(c) ==
    \/ /\ idle = {}
       /\ pc' = [pc EXCEPT ![c] = "missed"]
       /\ frame' = [frame EXCEPT ![c] = None]
       /\ UNCHANGED idle
    \/ \E r \in idle :
       /\ frame' = [frame EXCEPT ![c] = r]
       /\ pc' = [pc EXCEPT ![c] = IF HasValidate THEN "validating" ELSE "taken"]
       /\ UNCHANGED idle

\* One turn of the loop of takeIdleValidated(), up to its next await.
TakeIdle(c) ==
    \/ /\ idle = {}
       /\ pc' = [pc EXCEPT ![c] = "missed"]
       /\ frame' = [frame EXCEPT ![c] = None]
       /\ UNCHANGED idle
    \/ \E r \in idle :
       /\ idle' = idle \ {r}
       /\ frame' = [frame EXCEPT ![c] = r]
       /\ pc' = [pc EXCEPT ![c] = IF HasValidate THEN "validating" ELSE "taken"]

\* Variant: a destroyed pool still serves.
AcquireUnguarded(c) ==
    /\ pc[c] = "ready" /\ ~Live(c)
    /\ TakeIdle(c)
    /\ UNCHANGED <<destroyed, creating, leased, waiters, serving, lease, done,
                   bgVars, open, orphans>>

Acquire(c) ==
    /\ pc[c] = "ready" /\ ~Live(c)
    /\ ~destroyed
    /\ TakeIdle(c)
    /\ UNCHANGED <<destroyed, creating, leased, waiters, serving, lease, done,
                   bgVars, open, orphans>>

\* A destroyed pool throws at once.
AcquireRefused(c) ==
    /\ pc[c] = "ready" /\ ~Live(c)
    /\ destroyed
    /\ UNCHANGED vars

Validated(c) ==
    /\ pc[c] = "validating"
    /\ \E next \in {"taken", "discarding"} : pc' = [pc EXCEPT ![c] = next]
    /\ UNCHANGED <<poolVars, frame, serving, lease, done, bgVars, open, orphans>>

\* validate() throws out of acquire(): the popped resource is forgotten.
ValidateFailed(c) ==
    /\ pc[c] = "validating" /\ "validate" \in Faults
    /\ pc' = [pc EXCEPT ![c] = "ready"]
    /\ frame' = [frame EXCEPT ![c] = None]
    /\ UNCHANGED <<poolVars, serving, lease, done, bgVars, open, orphans>>

\* Variant: the invalid resource is destroyed and returned all the same.
DiscardedReturned(c) ==
    /\ pc[c] = "discarding"
    /\ open' = open \ {frame[c]}
    /\ pc' = [pc EXCEPT ![c] = "taken"]
    /\ UNCHANGED <<poolVars, frame, serving, lease, done, bgVars, orphans>>

\* An invalid resource is destroyed and the loop goes on.
Discarded(c) ==
    /\ pc[c] = "discarding"
    /\ open' = open \ {frame[c]}
    /\ TakeIdle(c)
    /\ UNCHANGED <<destroyed, creating, leased, waiters, serving, lease, done,
                   bgVars, orphans>>

\* acquire() resumes with a resource from takeIdleValidated().
Taken(c) ==
    /\ pc[c] = "taken"
    /\ leased' = leased + 1
    /\ lease' = [lease EXCEPT ![c] = frame[c]]
    /\ done' = [done EXCEPT ![c] = FALSE]
    /\ pc' = [pc EXCEPT ![c] = "ready"]
    /\ frame' = [frame EXCEPT ![c] = None]
    /\ UNCHANGED <<destroyed, creating, idle, waiters, serving, bgVars, open, orphans>>

\* acquire() resumes with null: create if there is room, wait otherwise.
Missed(c) ==
    /\ pc[c] = "missed"
    /\ \/ /\ TotalLive < Max
          /\ creating' = creating + 1
          /\ pc' = [pc EXCEPT ![c] = "creating"]
          /\ UNCHANGED waiters
       \/ /\ TotalLive >= Max
          /\ waiters' = Append(waiters, c)
          /\ pc' = [pc EXCEPT ![c] = "waiting"]
          /\ UNCHANGED creating
    /\ UNCHANGED <<destroyed, leased, idle, frame, serving, lease, done, bgVars,
                   open, orphans>>

Created(c) ==
    /\ pc[c] = "creating"
    /\ \E r \in Resources \ open :
         /\ open' = open \cup {r}
         /\ lease' = [lease EXCEPT ![c] = r]
    /\ leased' = leased + 1
    /\ creating' = creating - 1
    /\ done' = [done EXCEPT ![c] = FALSE]
    /\ pc' = [pc EXCEPT ![c] = "ready"]
    /\ UNCHANGED <<destroyed, idle, waiters, frame, serving, bgVars, orphans>>

\* Variant: the slot of the failed create() stays taken.
CreateFailedKeeps(c) ==
    /\ pc[c] = "creating" /\ "create" \in Faults
    /\ pc' = [pc EXCEPT ![c] = "ready"]
    /\ UNCHANGED <<poolVars, frame, serving, lease, done, bgVars, open, orphans>>

CreateFailed(c) ==
    /\ pc[c] = "creating" /\ "create" \in Faults
    /\ creating' = creating - 1
    /\ pc' = [pc EXCEPT ![c] = "ready"]
    /\ UNCHANGED <<destroyed, leased, idle, waiters, frame, serving, lease, done,
                   bgVars, open, orphans>>

\* Variant: the waiter that gave up stays in the queue.
SpliceNothing(i) == waiters

\* waiters without its i-th element: splice(i, 1)
Splice(i) == SubSeq(waiters, 1, i - 1) \o SubSeq(waiters, i + 1, Len(waiters))

\* Variant: the waiter leaves the queue, but its promise is not rejected.
TimeoutSilent(c) ==
    /\ HasTimeout /\ pc[c] = "waiting"
    /\ \E i \in 1..Len(waiters) : waiters[i] = c /\ waiters' = Splice(i)
    /\ UNCHANGED <<destroyed, creating, leased, idle, callVars, bgVars, open, orphans>>

\* The timer of a waiter fires: it leaves the queue if it is still in it, and
\* its promise is rejected even when destroyResource() has taken it out to serve.
Timeout(c) ==
    /\ HasTimeout /\ pc[c] = "waiting"
    /\ \/ \E i \in 1..Len(waiters) : waiters[i] = c /\ waiters' = Splice(i)
       \/ c \notin Queued /\ UNCHANGED waiters
    /\ serving' = [d \in Callers |-> IF serving[d] = c THEN None ELSE serving[d]]
    /\ pc' = [pc EXCEPT ![c] = "ready"]
    /\ UNCHANGED <<destroyed, creating, leased, idle, frame, lease, done, bgVars,
                   open, orphans>>

-----------------------------------------------------------------------------
(* release and destroy of a lease *)

\* Variant: the loop is forgotten.
TrimNothing(c, pool, n) ==
    /\ idle' = pool
    /\ frame' = [frame EXCEPT ![c] = None]
    /\ pc' = [pc EXCEPT ![c] = "ready"]

\* One turn of the loop of trimToMinMax(), for idle = pool and leased = n.
Trim(c, pool, n) ==
    IF Cardinality(pool) + n + creating > Max /\ Cardinality(pool) > MinIdle
    THEN \E r \in pool : /\ idle' = pool \ {r}
                         /\ frame' = [frame EXCEPT ![c] = r]
                         /\ pc' = [pc EXCEPT ![c] = "trimming"]
    ELSE /\ idle' = pool
         /\ frame' = [frame EXCEPT ![c] = None]
         /\ pc' = [pc EXCEPT ![c] = "ready"]

\* makeLease().release(): the done flag makes every later call return at once.
CanReturn(c) == pc[c] = "ready" /\ lease[c] # None /\ ~done[c]

ReleaseClosed(c) ==
    /\ CanReturn(c) /\ destroyed
    /\ done' = [done EXCEPT ![c] = TRUE]
    /\ leased' = Dec(leased)
    /\ frame' = [frame EXCEPT ![c] = lease[c]]
    /\ pc' = [pc EXCEPT ![c] = "closing"]
    /\ UNCHANGED <<destroyed, creating, idle, waiters, serving, lease, bgVars,
                   open, orphans>>

\* Variant: the resource goes to the last waiter.
ReleaseToLastWaiter(c) ==
    /\ CanReturn(c) /\ ~destroyed /\ waiters # <<>>
    /\ LET next == waiters[Len(waiters)] IN
         /\ lease' = [lease EXCEPT ![next] = lease[c]]
         /\ done' = [done EXCEPT ![c] = TRUE, ![next] = FALSE]
         /\ pc' = [pc EXCEPT ![next] = "ready"]
    /\ waiters' = SubSeq(waiters, 1, Len(waiters) - 1)
    /\ leased' = Dec(leased) + 1
    /\ UNCHANGED <<destroyed, creating, idle, frame, serving, bgVars, open, orphans>>

\* The resource goes to the longest waiting caller, whose acquire() returns.
ReleaseToWaiter(c) ==
    /\ CanReturn(c) /\ ~destroyed /\ waiters # <<>>
    /\ LET next == Head(waiters) IN
         /\ lease' = [lease EXCEPT ![next] = lease[c]]
         /\ done' = [done EXCEPT ![c] = TRUE, ![next] = FALSE]
         /\ pc' = [pc EXCEPT ![next] = "ready"]
    /\ waiters' = Tail(waiters)
    /\ leased' = Dec(leased) + 1
    /\ UNCHANGED <<destroyed, creating, idle, frame, serving, bgVars, open, orphans>>

ReleaseToIdle(c) ==
    /\ CanReturn(c) /\ ~destroyed /\ waiters = <<>>
    /\ done' = [done EXCEPT ![c] = TRUE]
    /\ leased' = Dec(leased)
    /\ Trim(c, idle \cup {lease[c]}, Dec(leased))
    /\ UNCHANGED <<destroyed, creating, waiters, serving, lease, bgVars, open, orphans>>

Release(c) == ReleaseClosed(c) \/ ReleaseToWaiter(c) \/ ReleaseToIdle(c)

Closed(c) ==
    /\ pc[c] = "closing"
    /\ open' = open \ {frame[c]}
    /\ pc' = [pc EXCEPT ![c] = "ready"]
    /\ frame' = [frame EXCEPT ![c] = None]
    /\ UNCHANGED <<poolVars, serving, lease, done, bgVars, orphans>>

Trimmed(c) ==
    /\ pc[c] = "trimming"
    /\ open' = open \ {frame[c]}
    /\ Trim(c, idle, leased)
    /\ UNCHANGED <<destroyed, creating, leased, waiters, serving, lease, done,
                   bgVars, orphans>>

\* makeLease().destroy()
Drop(c) ==
    /\ CanReturn(c)
    /\ done' = [done EXCEPT ![c] = TRUE]
    /\ leased' = Dec(leased)
    /\ frame' = [frame EXCEPT ![c] = lease[c]]
    /\ pc' = [pc EXCEPT ![c] = "dropping"]
    /\ UNCHANGED <<destroyed, creating, idle, waiters, serving, lease, bgVars,
                   open, orphans>>

\* The dropped resource is gone: create another for the first waiter, if any.
Dropped(c) ==
    /\ pc[c] = "dropping"
    /\ open' = open \ {frame[c]}
    /\ frame' = [frame EXCEPT ![c] = None]
    /\ IF ~destroyed /\ waiters # <<>> /\ TotalLive < Max
       THEN /\ serving' = [serving EXCEPT ![c] = Head(waiters)]
            /\ waiters' = Tail(waiters)
            /\ creating' = creating + 1
            /\ pc' = [pc EXCEPT ![c] = "replacing"]
       ELSE /\ pc' = [pc EXCEPT ![c] = "ready"]
            /\ UNCHANGED <<serving, waiters, creating>>
    /\ UNCHANGED <<destroyed, leased, idle, lease, done, bgVars, orphans>>

\* The replacement exists; resolving a promise that has timed out does nothing,
\* so the lease made for it is lost.
Replaced(c) ==
    /\ pc[c] = "replacing"
    /\ \E r \in Resources \ open :
         /\ open' = open \cup {r}
         /\ IF serving[c] # None
            THEN /\ lease' = [lease EXCEPT ![serving[c]] = r]
                 /\ done' = [done EXCEPT ![serving[c]] = FALSE]
                 /\ pc' = [pc EXCEPT ![c] = "ready", ![serving[c]] = "ready"]
                 /\ UNCHANGED orphans
            ELSE /\ orphans' = orphans \cup {r}
                 /\ pc' = [pc EXCEPT ![c] = "ready"]
                 /\ UNCHANGED <<lease, done>>
    /\ leased' = leased + 1
    /\ creating' = creating - 1
    /\ serving' = [serving EXCEPT ![c] = None]
    /\ UNCHANGED <<destroyed, idle, waiters, frame, bgVars>>

ReplaceFailed(c) ==
    /\ pc[c] = "replacing" /\ "create" \in Faults
    /\ creating' = creating - 1
    /\ pc' = [d \in Callers |-> IF d \in {c, serving[c]} THEN "ready" ELSE pc[d]]
    /\ serving' = [serving EXCEPT ![c] = None]
    /\ UNCHANGED <<destroyed, leased, idle, waiters, frame, lease, done, bgVars,
                   open, orphans>>

\* adapter.destroy() throws out of the suspended call; the resource stays open.
CloseFailed(c) ==
    /\ pc[c] \in {"discarding", "closing", "trimming", "dropping"}
    /\ "destroy" \in Faults
    /\ pc' = [pc EXCEPT ![c] = "ready"]
    /\ frame' = [frame EXCEPT ![c] = None]
    /\ UNCHANGED <<poolVars, serving, lease, done, bgVars, open, orphans>>

-----------------------------------------------------------------------------
(* background activities *)

\* A create() of warm() ends and the loop condition is evaluated again.
WarmCreated ==
    /\ warming
    /\ \E r \in Resources \ open : open' = open \cup {r} /\ idle' = idle \cup {r}
    /\ IF /\ ~destroyed
          /\ Cardinality(idle') < MinIdle
          /\ Cardinality(idle') + leased + (creating - 1) < Max
       THEN UNCHANGED <<creating, warming>>
       ELSE creating' = creating - 1 /\ warming' = FALSE
    /\ UNCHANGED <<destroyed, leased, waiters, callVars, reaping, closing, orphans>>

WarmFailed ==
    /\ warming /\ "create" \in Faults
    /\ creating' = creating - 1
    /\ warming' = FALSE
    /\ UNCHANGED <<destroyed, leased, idle, waiters, callVars, reaping, closing,
                   open, orphans>>

\* reapIdle(): of the idle resources whose time is over, those beyond MinIdle.
\* The time is not modelled: any of the idle resources may be expired.
Reap ==
    /\ HasReaper /\ ~destroyed
    /\ \E expired \in SUBSET idle : \E kill \in SUBSET expired :
         /\ kill # {}
         /\ IF Cardinality(idle \ expired) >= MinIdle
            THEN kill = expired
            ELSE Cardinality(idle \ kill) = MinIdle
         /\ idle' = idle \ kill
         /\ reaping' = reaping \cup {kill}
    /\ UNCHANGED <<destroyed, creating, leased, waiters, callVars, warming, closing,
                   open, orphans>>

ReapClosed ==
    /\ \E kill \in reaping : \E r \in kill :
         /\ open' = open \ {r}
         /\ reaping' = (reaping \ {kill}) \cup ({kill \ {r}} \ {{}})
    /\ UNCHANGED <<poolVars, callVars, warming, closing, orphans>>

\* adapter.destroy() throws out of reapIdle(): what it still had is forgotten.
ReapFailed ==
    /\ "destroy" \in Faults
    /\ \E kill \in reaping : reaping' = reaping \ {kill}
    /\ UNCHANGED <<poolVars, callVars, warming, closing, open, orphans>>

\* One turn of the loop of destroy() over the idle resources.
CloseNext ==
    \/ idle = {} /\ closing' = None /\ UNCHANGED idle
    \/ \E r \in idle : idle' = idle \ {r} /\ closing' = r

\* destroy(): the waiters are rejected; the timer of reapIdle() is cleared.
DestroyPool ==
    /\ ~destroyed
    /\ destroyed' = TRUE
    /\ waiters' = <<>>
    /\ pc' = [c \in Callers |-> IF c \in Queued THEN "ready" ELSE pc[c]]
    /\ CloseNext
    /\ UNCHANGED <<creating, leased, frame, serving, lease, done, warming, reaping,
                   open, orphans>>

DestroyClosed ==
    /\ closing # None
    /\ open' = open \ {closing}
    /\ CloseNext
    /\ UNCHANGED <<destroyed, creating, leased, waiters, callVars, warming, reaping,
                   orphans>>

DestroyFailed ==
    /\ closing # None /\ "destroy" \in Faults
    /\ closing' = None
    /\ UNCHANGED <<poolVars, callVars, warming, reaping, open, orphans>>

-----------------------------------------------------------------------------
\* The continuation of a suspended call of c, run by the event loop.
Resume(c) ==
    \/ Validated(c) \/ ValidateFailed(c) \/ Discarded(c) \/ Taken(c) \/ Missed(c)
    \/ Created(c) \/ CreateFailed(c)
    \/ Closed(c) \/ Trimmed(c) \/ Dropped(c) \/ Replaced(c) \/ ReplaceFailed(c)
    \/ CloseFailed(c)

Background ==
    \/ WarmCreated \/ WarmFailed \/ ReapClosed \/ ReapFailed
    \/ DestroyClosed \/ DestroyFailed

Next ==
    \/ \E c \in Callers : \/ Acquire(c) \/ AcquireRefused(c) \/ Timeout(c)
                          \/ Release(c) \/ Drop(c) \/ Resume(c)
    \/ Reap \/ DestroyPool \/ Background

Spec == Init /\ [][Next]_vars

\* The event loop runs every continuation and every due timer; adapter calls
\* settle; a caller that has a lease gives it back.  validate() does not reject
\* for ever: with an adapter that does, takeIdleValidated() may go on as long as
\* other callers release connections.
Fairness ==
    /\ \A c \in Callers : /\ WF_vars(Resume(c))
                          /\ WF_vars(Timeout(c))
                          /\ WF_vars(Release(c) \/ Drop(c))
                          /\ SF_vars(Validated(c) /\ pc'[c] = "taken")
    /\ WF_vars(Background)

FairSpec == Spec /\ Fairness

-----------------------------------------------------------------------------
(* Properties *)

Idle(c) == pc[c] = "ready"

TypeOK ==
    /\ destroyed \in BOOLEAN /\ creating \in Int /\ leased \in Nat
    /\ idle \subseteq Resources
    /\ waiters \in Seq(Callers)
    /\ pc \in [Callers -> {"ready"} \cup Acquiring \cup Returning]
    /\ frame \in [Callers -> Resources \cup {None}]
    /\ serving \in [Callers -> Callers \cup {None}]
    /\ lease \in [Callers -> Resources \cup {None}]
    /\ done \in [Callers -> BOOLEAN]
    /\ warming \in BOOLEAN
    /\ reaping \subseteq SUBSET Resources
    /\ closing \in Resources \cup {None}
    /\ open \subseteq Resources /\ orphans \subseteq Resources

Leased == {lease[c] : c \in {d \in Callers : Live(d)}}
Framed == {frame[c] : c \in {d \in Callers : frame[d] # None}}
Dying  == (UNION reaping) \cup ({closing} \ {None})

\* A resource is in one place: no lease is on a resource that is idle, held by
\* a suspended call, about to be destroyed or leased to somebody else.  This
\* is what acquire(), release() and the reaper of pool.ts have to keep between
\* their awaits.
Exclusive ==
    /\ \A c, d \in Callers :
         /\ Live(c) /\ Live(d) /\ lease[c] = lease[d] => c = d
         /\ frame[c] # None /\ frame[c] = frame[d] => c = d
    /\ \A k1, k2 \in reaping : k1 # k2 => k1 \cap k2 = {}
    /\ closing \notin UNION reaping
    /\ Leased \cap (idle \cup Framed \cup Dying \cup orphans) = {}
    /\ idle \cap (Framed \cup Dying \cup orphans) = {}
    /\ Framed \cap (Dying \cup orphans) = {}
    /\ Dying \cap orphans = {}

\* Every place of a resource; the ones in none of them are lost to the pool.
Placed == idle \cup Leased \cup Framed \cup Dying \cup orphans

\* A resource the pool or a caller refers to has not been destroyed: nobody is
\* handed a closed connection (takeIdleValidated, releaseResource, reapIdle).
NothingClosedIsUsed == Placed \subseteq open

\* While no adapter.destroy() or validate() throws, a connection that is open
\* is still idle, leased or being destroyed by somebody: none is leaked.
NothingLost == Faults \subseteq {"create"} => open \subseteq Placed

\* The counters of the capacity test (totalLive) are the leases and the
\* create() calls that exist, so Math.max(0, ..) in release never hides a
\* second release and no failed create() keeps a slot.
CountersExact ==
    /\ leased = Cardinality({c \in Callers : Live(c)}) + Cardinality(orphans)
    /\ creating = Cardinality({c \in Callers : pc[c] \in {"creating", "replacing"}})
                    + (IF warming THEN 1 ELSE 0)

\* A caller suspended in acquire() at "await waiter.promise" has exactly one
\* activity that can settle it: the queue, or the one destroyResource() that
\* took it out of the queue.
WaitersKept ==
    /\ \A i, j \in 1..Len(waiters) : waiters[i] = waiters[j] => i = j
    /\ \A c, d \in Callers : serving[c] # None /\ serving[c] = serving[d] => c = d
    /\ \A c \in Callers : serving[c] \notin Queued
    /\ {c \in Callers : pc[c] = "waiting"}
         = Queued \cup {serving[c] : c \in {d \in Callers : serving[d] # None}}

\* No activity of the pool is running and no lease is out.
Quiet == /\ \A c \in Callers : ~Live(c) /\ pc[c] \in {"ready", "waiting"}
         /\ ~warming /\ reaping = {} /\ closing = None

\* Concurrent acquire() calls can push the pool over Max (see MCPool), but the
\* loop of trimToMinMax() gives the surplus up: no more than Max are ever kept
\* idle.  It takes MinIdle < Max: otherwise trimming stops at MinIdle and a
\* resource that warm() adds later stays.
IdleWithinMax == MinIdle < Max => Cardinality(idle) <= Max

\* After destroy() the pool winds down: once its calls are over, nothing is
\* idle and no connection is open, in whatever order acquire(), release() and
\* destroy() were resumed (no warm-up running; an undelivered lease excepted).
DestroyedIsDrained ==
    Quiet /\ destroyed /\ MinIdle = 0 /\ Faults \subseteq {"create"} => open \subseteq orphans

\* The account of all connections: types, none lost, never too many idle and none left
\* after destroy() (releaseResource, trimToMinMax and destroy of pool.ts).
Accounted == TypeOK /\ NothingLost /\ IdleWithinMax /\ DestroyedIsDrained

\* waiters is a queue: a later waiter is not answered with a lease while an
\* earlier one stays in the queue (releaseResource, destroyResource).
FifoStep ==
    \A i, j \in 1..Len(waiters) :
        i < j /\ ~Live(waiters[j]) /\ ~done'[waiters[j]] => waiters[i] \notin Queued'
FifoService == [][FifoStep]_vars

\* With acquireTimeoutMillis set, every acquire() returns or throws.
AcquireReturns == \A c \in Callers : pc[c] \in Acquiring ~> Idle(c)

\* After destroy() every call ends, the warm-up and the reaper too, and the pool
\* comes to rest, where DestroyedIsDrained says what is left.
DestroyDrains == destroyed ~> []Quiet

\* The pool lends its resources as Lending.tla says.
lent == [c \in Callers |-> IF Live(c) THEN lease[c] ELSE None]
Lend == INSTANCE Lending WITH alive <- open, lent <- lent
LendsExclusively == Lend!Spec
=============================================================================
