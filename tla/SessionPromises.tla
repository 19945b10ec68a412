-------------------------- MODULE SessionPromises --------------------------
(***************************************************************************)
(* Proofs about Session.tla: what a call that returns or throws promises   *)
(* of the changes it answers for, and that a session implements            *)
(* AtomicWork.tla.  They build on the structure that SessionProofs.tla     *)
(* establishes, and on where a change can be: pending, in the layers of a  *)
(* transaction, in the database, refused or dropped.                       *)
(***************************************************************************)
EXTENDS SessionProofs

\* The changes that process() has taken out of the queue and not yet worked off.
Copied  == IF At("links") THEN Top.todo ELSE {}
Unsaved == dirty \cup links \cup Copied

\* What is pending at a point of flushWithHooks().
Pends(pc, todo) ==
    /\ pc \in {"flush1", "flush2"} => dirty = todo
    /\ pc \in {"links", "flush2"} => links = {}
    /\ pc = "links" => dirty \cap todo = {}
    /\ pc \in {"after", "end", "dispatch"} => dirty = {} /\ links = {}

PendingOK ==
    /\ dirty \cap links = {}
    /\ stack # <<>> => Pends(Top.pc, Top.todo)

\* Outside of a flush nothing is asked of what is pending.
LEMMA PendingRest ==
    ASSUME (dirty \cap links = {})', stack' = <<>> \/ Top'.pc \in {"begin", "body", "before", "undo"}
    PROVE  PendingOK'
<1>1. stack' # <<>> => Pends(Top.pc, Top.todo)'
  BY DEF Pends
<1> QED
  BY <1>1 DEF PendingOK

\* A call that is over leaves a body or nothing.
LEMMA PendingEnds ==
    ASSUME StackOK, ShapeOK, stack # <<>>, NEW failed \in BOOLEAN, Ends(failed), (dirty \cap links = {})'
    PROVE  PendingOK'
<1>1. stack' = <<>> \/ Top'.pc = "body"
  BY FirstEnds
<1> QED
  BY <1>1, PendingRest

\* A call that goes on.
LEMMA PendingGoesOn ==
    ASSUME StackOK, stack # <<>>, NEW point, NEW todo, GoesOn(point, todo), (dirty \cap links = {})',
           /\ point \in {"flush1", "flush2"} => dirty' = todo
           /\ point \in {"links", "flush2"} => links' = {}
           /\ point = "links" => dirty' \cap todo = {}
           /\ point \in {"after", "end", "dispatch"} => dirty' = {} /\ links' = {}
    PROVE  PendingOK'
<1>1. Top'.pc = point /\ Top'.todo = todo
  BY FirstGoesOn
<1>2. Pends(Top.pc, Top.todo)'
  BY <1>1 DEF Pends
<1> QED
  BY <1>2 DEF PendingOK

\* rollback() outside of a transaction.
LEMMA AbandonStep ==
    ASSUME Disciplined, Base, CloseOK, Rollback, setup' = setup
    PROVE  /\ stack = <<>> /\ stack' = <<>> /\ InLayers = {} /\ InLayers' = {} /\ made' = made /\ committed' = committed
           /\ refused' = refused \cup dirty \cup links /\ UNCHANGED <<acked, dropped>>
           /\ \/ dirty' = {} /\ links' = {}
              \/ Transactions /\ RollbackTransactionFails /\ "abandon" \in UserCalls /\ UNCHANGED <<dirty, links>>
<1>1. StackOK /\ LayersOK /\ ChangesOK /\ FieldsOK
  BY DEF Base
<1>2. stack = <<>> /\ "abandon" \in UserCalls
  BY <1>1, DisciplineLeaves
<1>3. Base' /\ made' = made /\ Marks
  BY RollbackStep
<1>4. stack' = <<>>
  BY <1>2, <1>3 DEF Marks, Base, StackOK
<1>5. Len(stack) = 0
  BY <1>2
<1>6. ~Held
  BY <1>5 DEF Held
<1>7. ~open
  BY <1>6 DEF CloseOK, HeldOK
<1>8. InLayers = {}
  BY <1>1, <1>7, NoLayers
<1>9. refused' = refused \cup dirty \cup links /\ UNCHANGED <<acked, dropped>>
  BY <1>8 DEF Rollback
<1>10. \/ dirty' = {} /\ links' = {} /\ (RollbackTransaction \/ UNCHANGED <<connVars, committed>>)
       \/ Transactions /\ RollbackTransactionFails /\ UNCHANGED <<dirty, links>>
  BY DEF Rollback, ForgetPending, pendingVars
<1>11. committed' = committed /\ InLayers' = {}
  <2>1. CASE RollbackTransaction \/ RollbackTransactionFails
    <3>1. committed' = committed /\ Disconnect
      BY <2>1 DEF RollbackTransaction, RollbackTransactionFails, Finish
    <3> QED
      BY <3>1, Disconnected
  <2>2. CASE UNCHANGED <<connVars, committed>>
    <3>1. LayersSame /\ committed' = committed
      BY <2>2 DEF connVars, LayersSame
    <3> QED
      BY <1>1, <1>3, <1>8, <3>1, SameLayers
  <2> QED
    BY <1>10, <2>1, <2>2
<1> QED
  BY <1>2, <1>3, <1>4, <1>8, <1>9, <1>10, <1>11

\* Every step keeps what is pending in order.
LEMMA PendingStep ==
    ASSUME Disciplined, Base, CloseOK, FrameworkOK, PendingOK, [Next]_vars
    PROVE  PendingOK'
<1>1. /\ StackOK /\ LayersOK /\ FieldsOK /\ ChangesOK /\ ShapeOK /\ TRUE \in BOOLEAN /\ FALSE \in BOOLEAN
      /\ dirty \cap links = {}
  BY DEF Base, FrameworkOK, PendingOK
<1>2. ASSUME stack # <<>> PROVE Pends(Top.pc, Top.todo)
  BY <1>2 DEF PendingOK
<1>3. ASSUME stack # <<>>, Throw, UNCHANGED <<setup, depth, counter, pendingVars, connVars, committed, made>>
      PROVE  PendingOK'
  <2>1. UNCHANGED <<dirty, links>>
    BY <1>3 DEF pendingVars
  <2>2. CASE GoesOn("undo", {})
    BY <1>1, <1>3, <2>1, <2>2, PendingGoesOn
  <2>3. CASE Ends(TRUE)
    BY <1>1, <1>3, <2>1, <2>3, PendingEnds
  <2> QED
    BY <1>3, <2>2, <2>3, ThrowStep
<1>4. CASE setup' = setup /\ Change
  <2>1. /\ Marks /\ made' = made + 1
        /\ UserRuns \/ At("before")
        /\ \/ dirty' = dirty \cup {made'} /\ links' = links
           \/ links' = links \cup {made'} /\ dirty' = dirty
    BY <1>4, ChangeStep
  <2>2. (dirty \cap links = {})'
    <3>1. made \in Nat
      BY <1>1, MadeChanges
    <3>2. made' \notin 1..made
      BY <2>1, <3>1
    <3>3. dirty \subseteq 1..made /\ links \subseteq 1..made
      BY <1>1 DEF ChangesOK
    <3> QED
      BY <1>1, <2>1, <3>2, <3>3
  <2>3. stack = <<>> \/ (stack # <<>> /\ Top.pc \in {"body", "before"})
    BY <1>1, <2>1, DisciplineLeaves DEF At
  <2>4. stack' = <<>> \/ Top'.pc \in {"body", "before"}
    <3>1. CASE stack = <<>>
      <4>1. Len(stack') = 0
        BY <2>1, <3>1 DEF Marks
      <4>2. stack' = <<>>
        <5>1. Base'
          BY <1>4, ChangeStep
        <5> QED
          BY <4>1, <5>1 DEF Base, StackOK
      <4> QED
        BY <4>2
    <3>2. CASE stack # <<>>
      <4>1. Len(stack) \in 1..Len(stack)
        BY <1>1, <3>2, TopFrame
      <4>2. Top'.pc = Top.pc
        BY <2>1, <4>1 DEF Marks, Top
      <4> QED
        BY <2>3, <3>2, <4>2
    <3> QED
      BY <3>1, <3>2
  <2> QED
    BY <2>2, <2>4, PendingRest
<1>5. CASE setup' = setup /\ (Flush \/ Commit \/ Transaction)
  <2>1. UNCHANGED <<dirty, links>>
    BY <1>5, CallStep
  <2>2. ASSUME NEW kind, NEW point \in {"begin", "body", "before"}, NEW sp, NEW todo, Begins(kind, point, sp, todo)
        PROVE  PendingOK'
    <3>1. Top'.pc = point
      BY <1>1, <2>2, FirstBegins
    <3> QED
      BY <1>1, <2>1, <3>1, PendingRest
  <2>3. CASE Begins("flush", "flush1", 0, dirty)
    <3>1. Top'.pc = "flush1" /\ Top'.todo = dirty
      BY <1>1, <2>3, FirstBegins
    <3>2. Pends(Top.pc, Top.todo)'
      BY <2>1, <3>1 DEF Pends
    <3> QED
      BY <1>1, <2>1, <3>2 DEF PendingOK
  <2>4. CASE Begins("commit", "begin", 0, {})
    BY <2>2, <2>4
  <2>5. CASE Begins("bare", "before", 0, {})
    BY <2>2, <2>5
  <2>6. CASE Begins("bare", "body", 0, {})
    BY <2>2, <2>6
  <2>7. CASE Begins("outer", "begin", 0, {})
    BY <2>2, <2>7
  <2>8. CASE Begins("inner", "begin", counter', {})
    BY <2>2, <2>8
  <2> QED
    BY <1>5, <2>3, <2>4, <2>5, <2>6, <2>7, <2>8, CallStep, Zenon
<1>6. CASE setup' = setup /\ Rollback
  <2>1. stack' = <<>> /\ ((dirty' = {} /\ links' = {}) \/ UNCHANGED <<dirty, links>>)
    BY <1>6, AbandonStep
  <2> QED
    BY <1>1, <2>1, PendingRest
<1>7. CASE setup' = setup /\ Dispose
  <2>1. stack' = <<>> /\ dirty' = {} /\ links' = {}
    BY <1>7, DisposeStep
  <2> QED
    BY <2>1, PendingRest
<1>8. CASE setup' = setup /\ (BodyReturns \/ BodyThrows \/ FlushFailed \/ ReleaseFailed)
  <2>1. stack # <<>> /\ UNCHANGED <<dirty, links>>
    BY <1>8, BodyStep
  <2>2. UNCHANGED <<setup, depth, counter, pendingVars, connVars, committed, made>>
    BY <1>8 DEF BodyReturns, BodyThrows, FlushFailed, ReleaseFailed
  <2>3. CASE Throw
    BY <1>3, <2>1, <2>2, <2>3
  <2>4. CASE GoesOn("before", {})
    BY <1>1, <2>1, <2>4, PendingGoesOn
  <2> QED
    BY <1>8, <2>3, <2>4, BodyStep
<1>9. CASE setup' = setup /\ Begun
  <2>1. stack # <<>> /\ UNCHANGED <<dirty, links>> /\ (GoesOn("body", {}) \/ GoesOn("before", {}))
    BY <1>9, BegunStep
  <2>2. CASE GoesOn("body", {})
    BY <1>1, <2>1, <2>2, PendingGoesOn
  <2>3. CASE GoesOn("before", {})
    BY <1>1, <2>1, <2>3, PendingGoesOn
  <2> QED
    BY <2>1, <2>2, <2>3
<1>10. CASE setup' = setup /\ (BeginFailed \/ SavepointFailed)
  <2>1. stack # <<>> /\ Ends(TRUE) /\ UNCHANGED <<dirty, links>>
    BY <1>10, RefusedStep
  <2> QED
    BY <1>1, <2>1, PendingEnds
<1>11. CASE setup' = setup /\ SavepointSet
  <2>1. stack # <<>> /\ GoesOn("body", {}) /\ UNCHANGED <<dirty, links>>
    BY <1>11, SavepointStep
  <2> QED
    BY <1>1, <2>1, PendingGoesOn
<1>12. CASE setup' = setup /\ (Flushed \/ Processed)
  <2>1. stack # <<>> /\ Top.pc \in {"flush1", "links", "flush2"} /\ links' = links
    BY <1>12, StatementStep
  <2>2. PICK c \in Top.todo :
             /\ GoesOn(Top.pc, Top.todo \ {c})
             /\ \/ Top.pc # "links" /\ dirty' = dirty \ {c}
                \/ Top.pc = "links" /\ (dirty' = dirty \/ dirty' = dirty \cup {c})
    BY <1>12, StatementStep
  <2>3. /\ Top.pc \in {"flush1", "flush2"} => dirty = Top.todo
        /\ Top.pc \in {"links", "flush2"} => links = {}
        /\ Top.pc = "links" => dirty \cap Top.todo = {}
    BY <1>2, <2>1 DEF Pends
  <2>4. CASE Top.pc # "links" /\ dirty' = dirty \ {c}
    BY <1>1, <2>1, <2>2, <2>3, <2>4, PendingGoesOn
  <2>5. CASE Top.pc = "links" /\ (dirty' = dirty \/ dirty' = dirty \cup {c})
    <3>1. dirty' \cap (Top.todo \ {c}) = {} /\ (dirty \cap links = {})'
      BY <2>1, <2>3, <2>5
    <3> QED
      BY <1>1, <2>1, <2>2, <2>3, <2>5, <3>1, PendingGoesOn
  <2> QED
    BY <2>2, <2>4, <2>5
<1>13. CASE /\ setup' = setup
            /\ \/ Intercepted /\ UNCHANGED <<depth, counter, pendingVars, connVars, committed, made>>
               \/ stack # <<>> /\ PassOver
  <2>1. stack # <<>> /\ dirty' = dirty
    BY <1>13, PassStep
  <2>2. CASE Top.pc = "after" /\ Throw
    <3>1. Intercepted /\ UNCHANGED <<setup, depth, counter, pendingVars, connVars, committed, made>>
      BY <1>13, <2>2 DEF PassOver, At
    <3> QED
      BY <1>3, <2>1, <2>2, <3>1
  <2>3. CASE Ends(FALSE) /\ links' = links
    BY <1>1, <2>1, <2>3, PendingEnds
  <2>4. CASE GoesOn("flush1", dirty) /\ links' = links
    BY <1>1, <2>1, <2>4, PendingGoesOn
  <2>5. CASE Top.pc = "after" /\ GoesOn("dispatch", {}) /\ links' = links
    <3>1. dirty = {} /\ links = {}
      BY <1>2, <2>1, <2>5 DEF Pends
    <3> QED
      BY <1>1, <2>1, <2>5, <3>1, PendingGoesOn
  <2>6. CASE Top.pc = "after" /\ GoesOn("end", {}) /\ links' = links
    <3>1. dirty = {} /\ links = {}
      BY <1>2, <2>1, <2>6 DEF Pends
    <3> QED
      BY <1>1, <2>1, <2>6, <3>1, PendingGoesOn
  <2>7. CASE GoesOn("links", links) /\ links' = {}
    BY <1>1, <2>1, <2>7, PendingGoesOn
  <2>8. CASE Top.pc = "links" /\ GoesOn("flush2", dirty) /\ links' = links
    <3>1. links = {}
      BY <1>2, <2>1, <2>8 DEF Pends
    <3> QED
      BY <1>1, <2>1, <2>8, <3>1, PendingGoesOn
  <2>9. CASE Top.pc = "flush2" /\ Top.todo = {} /\ GoesOn("after", {}) /\ links' = links
    <3>1. dirty = {} /\ links = {}
      BY <1>2, <2>1, <2>9 DEF Pends
    <3> QED
      BY <1>1, <2>1, <2>9, <3>1, PendingGoesOn
  <2> QED
    BY <1>13, <2>2, <2>3, <2>4, <2>5, <2>6, <2>7, <2>8, <2>9, PassStep, Zenon
<1>14. CASE setup' = setup /\ Committed
  <2>1. stack # <<>> /\ Top.pc = "end" /\ GoesOn("dispatch", {}) /\ UNCHANGED <<dirty, links>>
    BY <1>14, CommittedStep
  <2>2. dirty = {} /\ links = {}
    BY <1>2, <2>1 DEF Pends
  <2> QED
    BY <1>1, <2>1, <2>2, PendingGoesOn
<1>15. CASE setup' = setup /\ CommitFailed
  <2>1. stack # <<>> /\ GoesOn("undo", {}) /\ UNCHANGED <<dirty, links>>
    BY <1>15, CommitFailedStep
  <2> QED
    BY <1>1, <2>1, PendingGoesOn
<1>16. CASE setup' = setup /\ SavepointReleased
  <2>1. stack # <<>> /\ Ends(FALSE) /\ UNCHANGED <<dirty, links>>
    BY <1>16, ReleasedStep
  <2> QED
    BY <1>1, <2>1, PendingEnds
<1>17. CASE setup' = setup /\ Dispatched
  <2>1. stack # <<>> /\ Ends(FALSE) /\ UNCHANGED <<dirty, links>>
    BY <1>17, DispatchedStep
  <2> QED
    BY <1>1, <2>1, PendingEnds
<1>18. CASE setup' = setup /\ HandlerThrows
  <2>1. stack # <<>> /\ (GoesOn("undo", {}) \/ Ends(TRUE)) /\ UNCHANGED <<dirty, links>>
    BY <1>18, HandlerStep
  <2>2. CASE GoesOn("undo", {})
    BY <1>1, <2>1, <2>2, PendingGoesOn
  <2>3. CASE Ends(TRUE)
    BY <1>1, <2>1, <2>3, PendingEnds
  <2> QED
    BY <2>1, <2>2, <2>3
<1>19. CASE setup' = setup /\ (OuterUndone \/ CommitUndone)
  <2>1. stack # <<>> /\ Ends(TRUE) /\ ((dirty' = {} /\ links' = {}) \/ UNCHANGED <<dirty, links>>)
    BY <1>19, UndoneStep
  <2> QED
    BY <1>1, <2>1, PendingEnds
<1>20. CASE setup' = setup /\ InnerUndone
  <2>1. stack # <<>> /\ Ends(TRUE) /\ UNCHANGED <<dirty, links>>
    BY <1>20, InnerUndoneStep
  <2> QED
    BY <1>1, <2>1, PendingEnds
<1>21. CASE UNCHANGED vars
  <2>1. UNCHANGED <<dirty, links, stack>>
    BY <1>21 DEF vars, pendingVars
  <2> QED
    BY <2>1 DEF PendingOK, Pends, Top
<1> QED
  BY <1>4, <1>5, <1>6, <1>7, <1>8, <1>9, <1>10, <1>11, <1>12, <1>13, <1>14, <1>15, <1>16, <1>17, <1>18,
     <1>19, <1>20, <1>21, OrderlyCases
-----------------------------------------------------------------------------
(* Where the changes go: what each kind of step does to the sets of changes.   *)

\* The executors whose ROLLBACK outside of a transaction is not an error, or
\* whose user code does not ask for it.
Sure == Undoable /\ ~("abandon" \in UserCalls /\ setup.executor = "strict connection")

AtUndo == stack # <<>> /\ stack[1].pc = "undo"
Steady == InLayers' = InLayers /\ Unsaved' = Unsaved /\ UNCHANGED <<committed, made, refused, dropped>>

\* A change is made.
Making ==
    /\ made' = made + 1 /\ Marks /\ ~AtUndo'
    /\ Unsaved' = Unsaved \cup {made'} /\ InLayers' = InLayers
    /\ UNCHANGED <<committed, refused, dropped, acked, rollbackOnly>>
    /\ \A i \in 1..Len(stack) : stack'[i].made = stack[i].made \cup {made'}

\* A call begins.
Calling ==
    /\ \E kind, point, sp, todo :
         Begins(kind, point, sp, todo) /\ (kind \in {"outer", "commit", "bare"} => InLayers = {})
    /\ Steady /\ acked' = acked /\ Unsaved = dirty \cup links /\ ~AtUndo'
    /\ stack # <<>> => rollbackOnly' = rollbackOnly
    /\ stack = <<>> /\ stack'[1].kind = "flush" => "flush" \in UserCalls

\* What is pending is given up outside of every call, or should have been.
Forgetting ==
    /\ stack = <<>> /\ stack' = <<>> /\ InLayers = {} /\ InLayers' = {}
    /\ UNCHANGED <<committed, made, dropped, acked>> /\ refused' = refused \cup Unsaved
    /\ Unsaved' = {} \/ (Unsaved' = Unsaved /\ ~Sure)

\* A call goes on.
Going ==
    /\ stack # <<>> /\ Top.pc \notin {"undo", "dispatch"}
    /\ \E point, todo : point # "undo" /\ GoesOn(point, todo)
    /\ Steady /\ UNCHANGED <<acked, rollbackOnly>>

\* The try block of a call fails.
Failing ==
    /\ stack # <<>> /\ Top.kind \in {"outer", "inner", "commit"} /\ Top.pc # "undo" /\ GoesOn("undo", {})
    /\ Unsaved' \subseteq Unsaved /\ InLayers' \subseteq InLayers
    /\ UNCHANGED <<committed, made, refused, dropped, acked>>
    /\ rollbackOnly \/ Top.kind = "inner" => rollbackOnly'
    /\ Undoable => Top.pc # "dispatch"
    /\ Undoable /\ Top.kind = "outer" => open' \/ (dirty' = {} /\ links' = {})

\* A call without a transaction fails.
Yielding ==
    /\ stack # <<>> /\ Top.kind \in {"bare", "flush"} /\ Ends(TRUE)
    /\ Unsaved' = dirty \cup links /\ InLayers' = InLayers
    /\ UNCHANGED <<committed, made, refused, acked, rollbackOnly>>
    /\ Top.kind = "bare" => dropped' = dropped \cup (Top.made \ (Unsaved' \cup committed))
    /\ Top.kind = "flush" => dropped' = dropped /\ Unsaved' = Unsaved

\* An outermost call ends in a way that a session without these faults does not know.
Breaking ==
    /\ stack # <<>> /\ stack' = <<>> /\ ~Undoable
    /\ UNCHANGED <<committed, acked, made, dirty, links>>

\* A call returns, or its SAVEPOINT fails.
Returning ==
    /\ stack # <<>> /\ \E failed \in BOOLEAN : Ends(failed)
    /\ Steady
    /\ Len(stack) > 1 => rollbackOnly' = rollbackOnly
    /\ Len(stack) = 1 => Top.kind = "flush" \/ (~rollbackOnly /\ Top.pc # "undo")
    /\ \/ acked' = acked
       \/ /\ Top.pc = "dispatch" /\ Top.kind \in {"outer", "commit", "bare"}
          /\ acked' = acked \cup (Top.made \ dropped)

\* A change is written, in a transaction or not, or becomes dirty.
Writing ==
    /\ stack # <<>> /\ Top.pc \in {"flush1", "links", "flush2"} /\ \E todo : GoesOn(Top.pc, todo)
    /\ UNCHANGED <<made, refused, dropped, acked, rollbackOnly>>
    /\ \E c \in Unsaved :
         \/ InLayers' = InLayers \cup {c} /\ Unsaved' = Unsaved \ {c} /\ committed' = committed
         \/ /\ InLayers = {} /\ InLayers' = {} /\ Unsaved' = Unsaved \ {c} /\ committed' = committed \cup {c}
            /\ ~Deep /\ (Transactions => stack[1].kind = "flush")
         \/ InLayers' = InLayers /\ Unsaved' = Unsaved /\ committed' = committed

\* The transaction commits.
Committing ==
    /\ stack # <<>> /\ Len(stack) = 1 /\ Top.pc = "end" /\ GoesOn("dispatch", {}) /\ ~rollbackOnly
    /\ committed' = committed \cup InLayers /\ InLayers' = {} /\ Unsaved = {} /\ Unsaved' = {}
    /\ UNCHANGED <<made, refused, dropped, acked, rollbackOnly>>

\* The transaction is rolled back.
Unwinding ==
    /\ stack # <<>> /\ Len(stack) = 1 /\ Top.pc = "undo" /\ stack' = <<>>
    /\ InLayers' = {} /\ UNCHANGED <<committed, made, acked>>
    /\ \/ /\ Top.kind = "outer" /\ refused' = refused \cup Top.made /\ dropped' = dropped
          /\ Unsaved' \subseteq dirty \cup links
          /\ Undoable => Unsaved' = {} \/ ~open
       \/ /\ Top.kind = "commit" /\ refused' = refused
          /\ dropped' = dropped \cup (Top.made \ (Unsaved' \cup committed))
          /\ Unsaved' = dirty \cup links

\* A nested transaction is rolled back.
Unnesting ==
    /\ stack # <<>> /\ Len(stack) > 1 /\ Deep /\ Ends(TRUE) /\ rollbackOnly /\ rollbackOnly'
    /\ InLayers' \subseteq InLayers /\ Unsaved' = Unsaved
    /\ UNCHANGED <<committed, made, refused, dropped, acked>>

\* What is copied by a call that goes on, is over or begins.
LEMMA CopiedGoesOn ==
    ASSUME StackOK, stack # <<>>, NEW point, NEW todo, GoesOn(point, todo)
    PROVE  Copied' = IF point = "links" THEN todo ELSE {}
BY FirstGoesOn DEF Copied, At

\* A body, and a session without a call, have copied nothing.
LEMMA CopiedEnds ==
    ASSUME StackOK, ShapeOK, stack # <<>>, NEW failed \in BOOLEAN, Ends(failed)
    PROVE  Copied' = {}
<1>1. stack' = <<>> \/ Top'.pc = "body"
  BY FirstEnds
<1> QED
  BY <1>1 DEF Copied, At

\* A call copies nothing when it begins.
LEMMA CopiedBegins ==
    ASSUME StackOK, NEW kind, NEW point, NEW sp, NEW todo, Begins(kind, point, sp, todo), point # "links"
    PROVE  Copied' = {}
BY FirstBegins DEF Copied, At

\* Where the outermost call is after a call that goes on or is over.
LEMMA UndoGoesOn ==
    ASSUME StackOK, ShapeOK, stack # <<>>, NEW point, NEW todo, GoesOn(point, todo), point # "undo"
    PROVE  ~AtUndo'
<1>1. stack'[1].pc = IF Len(stack) = 1 THEN point ELSE stack[1].pc
  BY FirstGoesOn
<1>2. Len(stack) > 1 => stack[1].pc = "body"
  BY ShapeFacts
<1> QED
  BY <1>1, <1>2, OneOrMore DEF AtUndo

\* The outermost call is not undone before the innermost.
LEMMA UndoEnds ==
    ASSUME StackOK, ShapeOK, stack # <<>>, NEW failed \in BOOLEAN, Ends(failed)
    PROVE  ~AtUndo'
BY FirstEnds DEF AtUndo

\* There are no layers without a transaction.
LEMMA LayersAreHeld ==
    ASSUME Base, CloseOK, ShapeOK, ~Held \/ ~Transactions
    PROVE  ~open /\ InLayers = {}
<1>1. ~Transactions => ~Held
  BY DEF Held, Holds, ShapeOK, Fits
<1>2. ~open
  BY <1>1 DEF CloseOK, HeldOK
<1> QED
  BY <1>2, NoLayers DEF Base

\* Where the innermost call is, and what that says of the whole.
LEMMA TopFacts ==
    ASSUME Base, CloseOK, FrameworkOK, OutermostOK, PendingOK, stack # <<>>
    PROVE  /\ Top.kind \in {"outer", "commit"} => Len(stack) = 1 /\ Top = stack[1]
           /\ Top.kind \in {"outer", "commit"} /\ Top.pc \in {"begin", "dispatch"} => ~open /\ InLayers = {}
           /\ Top.kind = "bare" => ~Transactions /\ InLayers = {}
           /\ Top.kind \in {"bare", "commit"} => ~rollbackOnly
           /\ Top.kind = "inner" => Len(stack) > 1 /\ Deep
           /\ Top.kind = "outer" /\ Top.pc \in {"end", "dispatch"} => ~rollbackOnly
<1>1. StackOK /\ ShapeOK /\ DepthOK
  BY DEF Base, FrameworkOK
<1>2. /\ Top = stack[Len(stack)] /\ Fits(Top.kind, Top.pc, Transactions)
      /\ Top.kind \in {"outer", "commit"} => Len(stack) = 1
      /\ Top.kind = "inner" => Deep /\ Len(stack) > 1
      /\ Top.kind = "bare" \/ Top.kind = "commit" => ~Deep
  BY <1>1, ShapeFacts
<1>3. Top.kind \in {"outer", "commit"} => Len(stack) = 1 /\ Top = stack[1]
  BY <1>2
<1>4. ASSUME Top.kind \in {"outer", "commit"}, Top.pc \in {"begin", "dispatch"}
      PROVE  ~open /\ InLayers = {}
  <2>1. ~Held
    BY <1>3, <1>4 DEF Held, Holds
  <2> QED
    BY <1>1, <2>1, LayersAreHeld
<1>5. Top.kind = "bare" => ~Transactions /\ InLayers = {}
  BY <1>1, <1>2, LayersAreHeld DEF Fits
<1>6. Top.kind \in {"bare", "commit"} => ~rollbackOnly
  BY <1>1, <1>2 DEF DepthOK
<1>7. Top.kind = "outer" /\ Top.pc \in {"end", "dispatch"} => ~rollbackOnly
  BY <1>3 DEF OutermostOK, DoomOK, Deep
<1> QED
  BY <1>2, <1>3, <1>4, <1>5, <1>6, <1>7

\* Everything that is known of a session whose user code is disciplined.
Structure == Base /\ CloseOK /\ FrameworkOK /\ OutermostOK /\ PendingOK

\* A change is made outside of a flush.
LEMMA MakingStep ==
    ASSUME Disciplined, Structure, Change, setup' = setup
    PROVE  Making
<1>1. StackOK /\ ShapeOK /\ FieldsOK
  BY DEF Structure, Base, FrameworkOK
<1>2. /\ Base' /\ LayersSame /\ Marks /\ made' = made + 1
      /\ UserRuns \/ At("before")
      /\ \/ dirty' = dirty \cup {made'} /\ links' = links
         \/ links' = links \cup {made'} /\ dirty' = dirty
      /\ UNCHANGED <<lease, committed, depth, counter, rollbackOnly, promiseVars>>
      /\ \A i \in 1..Len(stack) :
           stack'[i].made = stack[i].made \cup (IF Answers(i) THEN {made'} ELSE {})
  BY ChangeStep DEF Structure
<1>3. stack = <<>> \/ (stack # <<>> /\ Top.pc \in {"body", "before"})
  BY <1>1, <1>2, DisciplineLeaves DEF At
<1>4. ASSUME NEW i \in 1..Len(stack) PROVE Answers(i)
  <2>1. Len(stack) \in Nat /\ Top = stack[Len(stack)] /\ stack # <<>>
    BY <1>1 DEF StackOK, Top
  <2>2. ASSUME NEW j \in i..Len(stack) PROVE stack[j].pc # "dispatch"
    <3>1. CASE j = Len(stack)
      BY <1>3, <2>1, <3>1
    <3>2. CASE j < Len(stack)
      BY <1>1, <3>2 DEF ShapeOK
    <3> QED
      BY <2>1, <3>1, <3>2
  <2> QED
    BY <2>2 DEF Answers
<1>5. \A i \in 1..Len(stack) : stack'[i].made = stack[i].made \cup {made'}
  BY <1>2, <1>4
<1>6. Copied = {} /\ Copied' = {} /\ ~AtUndo'
  <2>1. CASE stack = <<>>
    <3>1. Len(stack') = 0
      BY <1>2, <2>1 DEF Marks
    <3>2. stack' = <<>>
      BY <1>2, <3>1 DEF Base, StackOK
    <3> QED
      BY <2>1, <3>2 DEF Copied, At, AtUndo
  <2>2. CASE stack # <<>>
    <3>1. Len(stack) \in 1..Len(stack) /\ 1 \in 1..Len(stack) /\ Top = stack[Len(stack)]
      BY <1>1, <2>2, ShapeFacts, TopFrame
    <3>2. Top'.pc = Top.pc /\ stack'[1].pc = stack[1].pc
      BY <1>2, <3>1 DEF Marks, Top
    <3>3. stack[1].pc # "undo"
      <4>1. Len(stack) > 1 => stack[1].pc = "body"
        BY <1>1, <2>2, ShapeFacts
      <4>2. Len(stack) = 1 => stack[1].pc \in {"body", "before"}
        BY <1>3, <2>2, <3>1
      <4> QED
        BY <1>1, <2>2, <4>1, <4>2, OneOrMore
    <3> QED
      BY <1>3, <2>2, <3>2, <3>3 DEF Copied, At, AtUndo
  <2> QED
    BY <2>1, <2>2
<1>7. Unsaved' = Unsaved \cup {made'}
  BY <1>2, <1>6 DEF Unsaved
<1>8. InLayers' = InLayers
  <2>1. layers' = layers
    BY <1>2 DEF LayersSame
  <2> QED
    BY <2>1 DEF InLayers
<1> QED
  BY <1>2, <1>5, <1>6, <1>7, <1>8 DEF Making, promiseVars

\* A call begins.
LEMMA CallingStep ==
    ASSUME Disciplined, Structure, Flush \/ Commit \/ Transaction, setup' = setup
    PROVE  Calling
<1>1. StackOK /\ LayersOK /\ ShapeOK /\ FieldsOK /\ Base /\ CloseOK /\ FrameworkOK
  BY DEF Structure, Base, FrameworkOK
<1>2. /\ LayersSame
      /\ UNCHANGED <<lease, dirty, links, committed, made, depth, promiseVars>>
      /\ \/ Flush /\ Begins("flush", "flush1", 0, dirty) /\ rollbackOnly' = rollbackOnly
         \/ Commit /\ Begins("commit", "begin", 0, {}) /\ rollbackOnly' = rollbackOnly
         \/ Commit /\ Begins("bare", "before", 0, {}) /\ rollbackOnly' = rollbackOnly
         \/ ~Transactions /\ Begins("bare", "body", 0, {}) /\ rollbackOnly' = rollbackOnly
         \/ Begins("outer", "begin", 0, {})
         \/ Begins("inner", "begin", counter', {}) /\ rollbackOnly' = rollbackOnly
  BY <1>1, CallStep, Zenon
<1>3. stack = <<>> \/ (stack # <<>> /\ Top.pc = "body")
  BY <1>1, DisciplineLeaves DEF Flush, Transaction, At
<1>4. Copied = {}
  BY <1>3 DEF Copied, At
<1>5. InLayers' = InLayers
  BY <1>1, <1>2, SameLayers
<1>6. stack = <<>> \/ ~Transactions => InLayers = {}
  <2>1. stack = <<>> => ~Held
    BY DEF Held
  <2> QED
    BY <1>1, <2>1, LayersAreHeld
<1>7. ASSUME NEW kind, NEW point, NEW sp, NEW todo, Begins(kind, point, sp, todo), point \notin {"undo", "links"},
             kind \in {"outer", "commit", "bare"} => InLayers = {},
             stack # <<>> => rollbackOnly' = rollbackOnly,
             kind = "flush" => Flush
      PROVE  Calling
  <2>1. Copied' = {}
    BY <1>1, <1>7, CopiedBegins
  <2>2. ~AtUndo'
    <3>1. /\ stack # <<>> => stack'[1] = stack[1]
          /\ stack = <<>> => stack'[1].pc = point
      BY <1>1, <1>7, FirstBegins
    <3>2. ASSUME stack # <<>> PROVE stack[1].pc = "body"
      <4>1. /\ Len(stack) > 1 => stack[1].pc = "body"
            /\ Top = stack[Len(stack)]
        BY <1>1, <3>2, ShapeFacts
      <4> QED
        BY <1>1, <1>3, <3>2, <4>1, OneOrMore
    <3> QED
      BY <1>7, <3>1, <3>2 DEF AtUndo
  <2>3. Unsaved' = Unsaved /\ Unsaved = dirty \cup links
    BY <1>2, <1>4, <2>1 DEF Unsaved
  <2>4. stack = <<>> /\ stack'[1].kind = "flush" => "flush" \in UserCalls
    <3>1. stack = <<>> => stack'[1].kind = kind
      BY <1>1, <1>7, FirstBegins
    <3>2. Flush /\ stack = <<>> => "flush" \in UserCalls
      BY DEF Flush, At
    <3> QED
      BY <1>7, <3>1, <3>2
  <2> QED
    BY <1>2, <1>5, <1>7, <2>2, <2>3, <2>4 DEF Calling, Steady, promiseVars
<1>8. Commit => stack = <<>>
  BY <1>1, DisciplineLeaves
<1>9. CASE Flush /\ Begins("flush", "flush1", 0, dirty) /\ rollbackOnly' = rollbackOnly
  BY <1>7, <1>9
<1>10. CASE Commit /\ Begins("commit", "begin", 0, {}) /\ rollbackOnly' = rollbackOnly
  BY <1>6, <1>7, <1>8, <1>10
<1>11. CASE Commit /\ Begins("bare", "before", 0, {}) /\ rollbackOnly' = rollbackOnly
  BY <1>6, <1>7, <1>8, <1>11
<1>12. CASE ~Transactions /\ Begins("bare", "body", 0, {}) /\ rollbackOnly' = rollbackOnly
  BY <1>6, <1>7, <1>12
<1>13. CASE Begins("outer", "begin", 0, {})
  <2>1. ShapeOK'
    BY <1>1, FrameworkCall DEF FrameworkOK
  <2>2. stack = <<>>
    BY <1>1, <1>13, <2>1, OuterBegins
  <2> QED
    BY <1>6, <1>7, <1>13, <2>2
<1>14. CASE Begins("inner", "begin", counter', {}) /\ rollbackOnly' = rollbackOnly
  BY <1>7, <1>14
<1> QED
  BY <1>2, <1>9, <1>10, <1>11, <1>12, <1>13, <1>14

\* An error inside a try block, or in a call without one.
LEMMA FailingStep ==
    ASSUME Structure, stack # <<>>, Throw, setup' = setup, Top.pc \notin {"begin", "undo", "dispatch"},
           UNCHANGED <<depth, counter, pendingVars, connVars, committed, made>>
    PROVE  Failing \/ Yielding
<1>1. StackOK /\ LayersOK /\ ShapeOK /\ Base /\ OutermostOK /\ TRUE \in BOOLEAN
  BY DEF Structure, Base, FrameworkOK
<1>2. UNCHANGED <<dirty, links>> /\ open' = open
  BY DEF pendingVars, connVars
<1>3. InLayers' = InLayers
  <2>1. LayersSame
    BY <1>1, ThrowStep
  <2> QED
    BY <1>1, <2>1, SameLayers
<1>4. CASE /\ Top.kind \in {"outer", "inner", "commit"} /\ GoesOn("undo", {})
           /\ rollbackOnly' = (rollbackOnly \/ Top.kind = "inner") /\ UNCHANGED promiseVars
  <2>1. Copied' = {}
    BY <1>1, <1>4, CopiedGoesOn
  <2>2. Unsaved' \subseteq Unsaved
    BY <1>2, <2>1 DEF Unsaved
  <2>3. Top.kind = "outer" => open'
    BY <1>1, <1>2, OutermostWorks
  <2>4. rollbackOnly \/ Top.kind = "inner" => rollbackOnly'
    BY <1>4
  <2> QED
    BY <1>3, <1>4, <2>2, <2>3, <2>4 DEF Failing, promiseVars
<1>5. CASE Top.kind \in {"bare", "flush"} /\ Reject /\ Ends(TRUE) /\ UNCHANGED rollbackOnly
  <2>1. Unsaved' = dirty \cup links
    <3>1. Copied' = {}
      BY <1>1, <1>5, CopiedEnds
    <3> QED
      BY <1>2, <3>1 DEF Unsaved
  <2>2. Top.kind = "flush" => Unsaved' = Unsaved
    <3>1. Fits(Top.kind, Top.pc, Transactions)
      BY <1>1, ShapeFacts
    <3>2. Top.kind = "flush" => Copied = {}
      BY <3>1 DEF Fits, Copied, At
    <3> QED
      BY <2>1, <3>2 DEF Unsaved
  <2>3. /\ refused' = refused /\ acked' = acked
        /\ Top.kind = "flush" => dropped' = dropped
        /\ Top.kind = "bare" => dropped' = dropped \cup (Top.made \ (Unsaved' \cup committed))
    BY <1>5, <2>1 DEF Reject
  <2> QED
    BY <1>3, <1>5, <2>1, <2>2, <2>3 DEF Yielding
<1> QED
  BY <1>1, <1>4, <1>5, ThrowStep

\* A call goes on, and nothing has happened to the changes.
LEMMA GoingStep ==
    ASSUME Structure, stack # <<>>, NEW point, NEW todo, GoesOn(point, todo), point \notin {"undo", "links"},
           Top.pc \notin {"undo", "dispatch", "links"}, InLayers' = InLayers,
           UNCHANGED <<dirty, links, committed, made, refused, dropped, acked, rollbackOnly>>
    PROVE  Going
<1>1. Copied' = {} /\ Copied = {}
  BY CopiedGoesOn DEF Copied, At, Structure, Base
<1>2. Unsaved' = Unsaved
  BY <1>1 DEF Unsaved
<1> QED
  BY <1>2 DEF Going, Steady

\* A call is over, and nothing has happened to the changes.
LEMMA ReturningStep ==
    ASSUME Structure, stack # <<>>, NEW failed \in BOOLEAN, Ends(failed), Top.pc # "links", InLayers' = InLayers,
           UNCHANGED <<dirty, links, committed, made, refused, dropped>>,
           Len(stack) > 1 => rollbackOnly' = rollbackOnly,
           Len(stack) = 1 => Top.kind = "flush" \/ (~rollbackOnly /\ Top.pc # "undo"),
           \/ acked' = acked
           \/ /\ Top.pc = "dispatch" /\ Top.kind \in {"outer", "commit", "bare"}
              /\ acked' = acked \cup (Top.made \ dropped)
    PROVE  Returning
<1>1. StackOK /\ ShapeOK
  BY DEF Structure, Base, FrameworkOK
<1>2. Copied' = {} /\ Copied = {}
  BY <1>1, CopiedEnds DEF Copied, At
<1>3. Unsaved' = Unsaved
  BY <1>2 DEF Unsaved
<1> QED
  BY <1>3 DEF Returning, Steady

\* Without a transaction a statement is for good: only flush() of a session, or a
\* session without transactions, sends one.
LEMMA OutsideFacts ==
    ASSUME Structure, stack # <<>>, Top.pc \in {"flush1", "links", "flush2"}, ~open
    PROVE  ~Deep /\ (Transactions => stack[1].kind = "flush") /\ InLayers = {}
<1>1. StackOK /\ LayersOK /\ ShapeOK /\ OutermostOK
  BY DEF Structure, Base, FrameworkOK
<1>2. ~(Top.kind \in {"outer", "commit"})
  BY <1>1, OutermostWorks
<1>3. Top = stack[Len(stack)] /\ 1 \in 1..Len(stack)
  BY <1>1, ShapeFacts
<1>4. /\ Len(stack) > 1 => stack[1].pc = "body" /\ stack[1].kind \in {"outer", "bare"}
  BY <1>1, ShapeFacts
<1>5. ~Deep
  <2>1. CASE Len(stack) = 1
    BY <1>2, <1>3, <2>1 DEF Deep
  <2>2. CASE Len(stack) > 1
    <3>1. Deep => Working
      BY <1>4, <2>2 DEF Deep, Working
    <3> QED
      BY <1>1, <3>1 DEF OutermostOK, OpenOK
  <2> QED
    BY <1>1, <2>1, <2>2, OneOrMore
<1>6. Transactions => stack[1].kind = "flush"
  <2>1. stack[1] \in Frames /\ Fits(stack[1].kind, stack[1].pc, Transactions) /\ stack[1].kind # "inner"
    BY <1>1, <1>3 DEF StackOK, ShapeOK
  <2>2. stack[1].kind \in Kinds
    BY <2>1 DEF Frames
  <2>3. Transactions => stack[1].kind # "bare"
    BY <2>1 DEF Fits
  <2>4. stack[1].kind # "outer"
    BY <1>5 DEF Deep
  <2>5. stack[1].kind # "commit"
    BY <1>1, <1>2, <1>3, <1>4, OneOrMore
  <2> QED
    BY <2>1, <2>2, <2>3, <2>4, <2>5 DEF Kinds
<1>7. InLayers = {}
  BY <1>1, NoLayers
<1> QED
  BY <1>5, <1>6, <1>7

\* A statement of a flush.
LEMMA WritingStep ==
    ASSUME Structure, Flushed \/ Processed, setup' = setup
    PROVE  Writing
<1>1. StackOK /\ LayersOK /\ ShapeOK /\ PendingOK /\ Base
  BY DEF Structure, Base, FrameworkOK
<1>2. /\ stack # <<>> /\ Top.pc \in {"flush1", "links", "flush2"}
      /\ UNCHANGED <<open, lease, links, made, depth, counter, rollbackOnly, promiseVars>>
  BY <1>1, StatementStep
<1>3. PICK c \in Top.todo :
         /\ GoesOn(Top.pc, Top.todo \ {c})
         /\ \/ /\ IF open THEN InLayers' = InLayers \cup {c} /\ committed' = committed
                          ELSE InLayers' = InLayers /\ committed' = committed \cup {c}
               /\ \/ Top.pc # "links" /\ dirty' = dirty \ {c}
                  \/ Top.pc = "links" /\ dirty' = dirty
            \/ /\ Top.pc = "links" /\ InLayers' = InLayers /\ committed' = committed
               /\ dirty' = dirty \cup {c}
  BY <1>1, StatementStep
<1>4. /\ Top.pc \in {"flush1", "flush2"} => dirty = Top.todo
      /\ Top.pc = "links" => links = {} /\ dirty \cap Top.todo = {}
      /\ dirty \cap links = {}
  BY <1>1, <1>2 DEF PendingOK, Pends
<1>5. /\ Copied = IF Top.pc = "links" THEN Top.todo ELSE {}
      /\ Copied' = IF Top.pc = "links" THEN Top.todo \ {c} ELSE {}
  BY <1>1, <1>2, <1>3, CopiedGoesOn DEF Copied, At
<1>6. c \in Unsaved
  BY <1>2, <1>4, <1>5 DEF Unsaved
<1>7. CASE /\ IF open THEN InLayers' = InLayers \cup {c} /\ committed' = committed
                      ELSE InLayers' = InLayers /\ committed' = committed \cup {c}
           /\ \/ Top.pc # "links" /\ dirty' = dirty \ {c}
              \/ Top.pc = "links" /\ dirty' = dirty
  <2>1. Unsaved' = Unsaved \ {c}
    <3>1. CASE Top.pc # "links" /\ dirty' = dirty \ {c}
      BY <1>2, <1>4, <1>5, <3>1 DEF Unsaved
    <3>2. CASE Top.pc = "links" /\ dirty' = dirty
      BY <1>2, <1>4, <1>5, <3>2 DEF Unsaved
    <3> QED
      BY <1>7, <3>1, <3>2
  <2>2. CASE open
    BY <1>2, <1>3, <1>6, <1>7, <2>1, <2>2 DEF Writing, promiseVars
  <2>3. CASE ~open
    <3>1. ~Deep /\ (Transactions => stack[1].kind = "flush") /\ InLayers = {}
      BY <1>2, <2>3, OutsideFacts
    <3> QED
      BY <1>2, <1>3, <1>6, <1>7, <2>1, <2>3, <3>1 DEF Writing, promiseVars
  <2> QED
    BY <2>2, <2>3
<1>8. CASE Top.pc = "links" /\ InLayers' = InLayers /\ committed' = committed /\ dirty' = dirty \cup {c}
  <2>1. Unsaved' = Unsaved
    BY <1>2, <1>4, <1>5, <1>8 DEF Unsaved
  <2> QED
    BY <1>2, <1>3, <1>6, <1>8, <2>1 DEF Writing, promiseVars
<1> QED
  BY <1>3, <1>7, <1>8

\* A pass of a flush is over, or the interceptors have run.
LEMMA PassingStep ==
    ASSUME Structure, setup' = setup,
           \/ Intercepted /\ UNCHANGED <<depth, counter, pendingVars, connVars, committed, made>>
           \/ stack # <<>> /\ PassOver
    PROVE  Going \/ Failing \/ Yielding \/ Returning
<1>1. StackOK /\ LayersOK /\ ShapeOK /\ PendingOK /\ Base /\ FrameworkOK /\ CloseOK /\ OutermostOK /\ FALSE \in BOOLEAN
  BY DEF Structure, Base, FrameworkOK
<1>2. stack # <<>> /\ LayersSame /\ UNCHANGED <<dirty, committed, made>>
  BY <1>1, PassStep
<1>3. InLayers' = InLayers
  BY <1>1, <1>2, SameLayers
<1>4. CASE Top.pc = "after" /\ Throw
  <2>1. UNCHANGED <<depth, counter, pendingVars, connVars, committed, made>>
    BY <1>4 DEF PassOver, At
  <2> QED
    BY <1>2, <1>4, <2>1, FailingStep
<1>5. ASSUME NEW point, NEW todo, GoesOn(point, todo), point \notin {"undo", "links"},
             Top.pc \notin {"undo", "dispatch", "links"}, links' = links, rollbackOnly' = rollbackOnly,
             UNCHANGED promiseVars
      PROVE  Going
  BY <1>2, <1>3, <1>5, GoingStep DEF promiseVars
<1>6. CASE Top.pc = "before" /\ GoesOn("flush1", dirty) /\ links' = links
           /\ rollbackOnly' = rollbackOnly /\ UNCHANGED promiseVars
  BY <1>5, <1>6
<1>7. CASE Top.pc = "after" /\ GoesOn("dispatch", {}) /\ links' = links
           /\ rollbackOnly' = rollbackOnly /\ UNCHANGED promiseVars
  BY <1>5, <1>7
<1>8. CASE Top.pc = "after" /\ GoesOn("end", {}) /\ links' = links
           /\ rollbackOnly' = rollbackOnly /\ UNCHANGED promiseVars
  BY <1>5, <1>8
<1>9. CASE Top.pc = "flush2" /\ GoesOn("after", {}) /\ links' = links
           /\ rollbackOnly' = rollbackOnly /\ UNCHANGED promiseVars
  BY <1>5, <1>9
<1>10. CASE Top.pc = "flush1" /\ GoesOn("links", links) /\ links' = {}
            /\ rollbackOnly' = rollbackOnly /\ UNCHANGED promiseVars
  <2>1. Copied = {} /\ Copied' = links
    BY <1>1, <1>2, <1>10, CopiedGoesOn DEF Copied, At
  <2>2. Unsaved' = Unsaved
    BY <1>2, <1>10, <2>1 DEF Unsaved
  <2> QED
    BY <1>2, <1>3, <1>10, <2>2 DEF Going, Steady, promiseVars
<1>11. CASE Top.pc = "links" /\ Top.todo = {} /\ GoesOn("flush2", dirty) /\ links' = links
            /\ rollbackOnly' = rollbackOnly /\ UNCHANGED promiseVars
  <2>1. Copied = {} /\ Copied' = {}
    BY <1>1, <1>2, <1>11, CopiedGoesOn DEF Copied, At
  <2>2. Unsaved' = Unsaved
    BY <1>2, <1>11, <2>1 DEF Unsaved
  <2> QED
    BY <1>2, <1>3, <1>11, <2>2 DEF Going, Steady, promiseVars
<1>12. CASE Top.pc = "flush1" /\ Top.kind = "flush" /\ Resolve /\ Ends(FALSE)
            /\ links' = links /\ rollbackOnly' = rollbackOnly
  <2>1. UNCHANGED <<acked, refused, dropped>>
    BY <1>12 DEF Resolve
  <2> QED
    BY <1>1, <1>2, <1>3, <1>12, <2>1, ReturningStep
<1> QED
  BY <1>1, <1>4, <1>6, <1>7, <1>8, <1>9, <1>10, <1>11, <1>12, PassStep, Zenon

\* The database commits.
LEMMA CommittingStep ==
    ASSUME Structure, Committed, setup' = setup
    PROVE  Committing
<1>1. StackOK /\ PendingOK /\ Base /\ CloseOK /\ FrameworkOK /\ OutermostOK
  BY DEF Structure, Base
<1>2. /\ stack # <<>> /\ Top.pc = "end" /\ Top.kind \in {"outer", "commit"} /\ GoesOn("dispatch", {})
      /\ committed' = committed \cup InLayers /\ InLayers' = {}
      /\ UNCHANGED <<dirty, links, made, rollbackOnly, promiseVars>>
  BY <1>1, CommittedStep
<1>3. Len(stack) = 1 /\ ~rollbackOnly
  BY <1>1, <1>2, TopFacts
<1>4. dirty = {} /\ links = {}
  BY <1>1, <1>2 DEF PendingOK, Pends
<1>5. Copied = {} /\ Copied' = {}
  BY <1>1, <1>2, CopiedGoesOn DEF Copied, At
<1>6. Unsaved = {} /\ Unsaved' = {}
  BY <1>2, <1>4, <1>5 DEF Unsaved
<1> QED
  BY <1>2, <1>3, <1>6 DEF Committing, promiseVars

\* The COMMIT fails.
LEMMA CommitFailingStep ==
    ASSUME Structure, CommitFailed, setup' = setup
    PROVE  Failing
<1>1. StackOK /\ LayersOK /\ PendingOK /\ Base
  BY DEF Structure, Base
<1>2. /\ stack # <<>> /\ Top.pc = "end" /\ Top.kind \in {"outer", "commit"} /\ GoesOn("undo", {})
      /\ InLayers' = {} \/ InLayers' = InLayers
      /\ UNCHANGED <<dirty, links, committed, made, rollbackOnly, promiseVars>>
  BY <1>1, CommitFailedStep
<1>3. dirty = {} /\ links = {}
  BY <1>1, <1>2 DEF PendingOK, Pends
<1>4. Copied' = {}
  BY <1>1, <1>2, CopiedGoesOn
<1>5. Unsaved' \subseteq Unsaved
  BY <1>2, <1>4 DEF Unsaved
<1>6. Top.kind # "inner" /\ (rollbackOnly \/ Top.kind = "inner" => rollbackOnly')
  BY <1>2
<1> QED
  BY <1>2, <1>3, <1>5, <1>6 DEF Failing, promiseVars

\* rollback() and dispose() outside of every call.
LEMMA ForgettingStep ==
    ASSUME Disciplined, Structure, Rollback \/ Dispose, setup' = setup
    PROVE  Forgetting
<1>1. StackOK /\ LayersOK /\ ShapeOK /\ Base /\ CloseOK
  BY DEF Structure, Base, FrameworkOK
<1>2. CASE Rollback
  <2>1. /\ stack = <<>> /\ stack' = <<>> /\ InLayers = {} /\ InLayers' = {} /\ made' = made /\ committed' = committed
        /\ refused' = refused \cup dirty \cup links /\ UNCHANGED <<acked, dropped>>
        /\ \/ dirty' = {} /\ links' = {}
           \/ Transactions /\ RollbackTransactionFails /\ "abandon" \in UserCalls /\ UNCHANGED <<dirty, links>>
    BY <1>1, <1>2, AbandonStep
  <2>2. Copied = {} /\ Copied' = {}
    BY <2>1 DEF Copied, At
  <2>3. Unsaved = dirty \cup links /\ Unsaved' = dirty' \cup links'
    BY <2>2 DEF Unsaved
  <2>4. ASSUME RollbackTransactionFails, "abandon" \in UserCalls
        PROVE  ~Sure
    <3>1. ~Held
      BY <2>1 DEF Held
    <3>2. ~open /\ (lease => ~BeginIsSafe)
      BY <1>1, <3>1 DEF CloseOK, HeldOK
    <3>3. Strict /\ (Pooled => lease)
      BY <2>4, <3>2 DEF RollbackTransactionFails
    <3>4. Pooled => ~Undoable
      BY <3>2, <3>3 DEF BeginIsSafe, Undoable
    <3>5. ~Pooled => setup.executor = "strict connection"
      BY <3>3 DEF Strict, Pooled
    <3> QED
      BY <2>4, <3>4, <3>5 DEF Sure
  <2>5. refused' = refused \cup Unsaved
    BY <2>1, <2>3
  <2> QED
    BY <2>1, <2>3, <2>4, <2>5 DEF Forgetting
<1>3. CASE Dispose
  <2>1. /\ LayersSame /\ stack = <<>> /\ dirty' = {} /\ links' = {}
        /\ refused' = refused \cup dirty \cup links
        /\ UNCHANGED <<stack, made, committed, acked, dropped>>
    BY <1>1, <1>3, DisposeStep
  <2>2. Copied = {} /\ Copied' = {}
    BY <2>1 DEF Copied, At
  <2>3. Unsaved = dirty \cup links /\ Unsaved' = {} /\ refused' = refused \cup Unsaved
    BY <2>1, <2>2 DEF Unsaved
  <2>4. ~Held
    BY <2>1 DEF Held
  <2>5. InLayers = {}
    BY <1>1, <2>4, LayersAreHeld
  <2>6. InLayers' = {}
    BY <1>1, <2>1, <2>5, SameLayers
  <2> QED
    BY <2>1, <2>3, <2>5, <2>6 DEF Forgetting
<1> QED
  BY <1>2, <1>3

\* The body of a transaction returns or throws, or a statement or an interceptor does.
LEMMA BodyKinds ==
    ASSUME Structure, BodyReturns \/ BodyThrows \/ FlushFailed \/ ReleaseFailed, setup' = setup
    PROVE  Going \/ Failing \/ Yielding
<1>1. Base /\ LayersOK
  BY DEF Structure, Base
<1>2. stack # <<>> /\ LayersSame /\ UNCHANGED <<dirty, links, committed, made>>
  BY <1>1, BodyStep
<1>3. Top.pc \notin {"begin", "undo", "dispatch"}
  BY DEF BodyReturns, BodyThrows, FlushFailed, ReleaseFailed, InterceptorThrows, At
<1>4. UNCHANGED <<depth, counter, pendingVars, connVars, committed, made>>
  BY DEF BodyReturns, BodyThrows, FlushFailed, ReleaseFailed
<1>5. CASE Throw
  BY <1>2, <1>3, <1>4, <1>5, FailingStep
<1>6. CASE BodyReturns /\ GoesOn("before", {}) /\ rollbackOnly' = rollbackOnly /\ UNCHANGED promiseVars
  <2>1. Top.pc = "body"
    BY <1>6 DEF BodyReturns, At
  <2>2. InLayers' = InLayers
    BY <1>1, <1>2, SameLayers
  <2> QED
    BY <1>2, <1>6, <2>1, <2>2, GoingStep DEF promiseVars
<1> QED
  BY <1>1, <1>5, <1>6, BodyStep

\* A number above one is not one.
LEMMA MoreThanOne ==
    ASSUME NEW n, n > 1
    PROVE  n # 1
OBVIOUS

\* The statements that open a transaction.
LEMMA BeginKinds ==
    ASSUME Structure, Begun \/ BeginFailed \/ SavepointSet \/ SavepointFailed, setup' = setup
    PROVE  Going \/ Breaking \/ Returning
<1>1. StackOK /\ LayersOK /\ ShapeOK /\ Base /\ CloseOK /\ FrameworkOK /\ OutermostOK /\ PendingOK
      /\ TRUE \in BOOLEAN
  BY DEF Structure, Base, FrameworkOK
<1>2. CASE Begun
  <2>1. /\ stack # <<>> /\ Top.pc = "begin" /\ Top.kind \in {"outer", "commit"}
        /\ UNCHANGED <<dirty, links, committed, made, counter, rollbackOnly, promiseVars>>
        /\ InLayers' = {} \/ InLayers' = InLayers
        /\ GoesOn("body", {}) \/ GoesOn("before", {})
    BY <1>1, <1>2, BegunStep
  <2>2. InLayers' = InLayers
    BY <1>1, <2>1, TopFacts
  <2>3. CASE GoesOn("body", {})
    BY <2>1, <2>2, <2>3, GoingStep DEF promiseVars
  <2>4. CASE GoesOn("before", {})
    BY <2>1, <2>2, <2>4, GoingStep DEF promiseVars
  <2> QED
    BY <2>1, <2>3, <2>4
<1>3. CASE SavepointSet
  <2>1. /\ stack # <<>> /\ Top.pc = "begin" /\ GoesOn("body", {}) /\ InLayers' = InLayers
        /\ UNCHANGED <<dirty, links, committed, made, rollbackOnly, promiseVars>>
    BY <1>1, <1>3, SavepointStep
  <2> QED
    BY <2>1, GoingStep DEF promiseVars
<1>4. ASSUME BeginFailed \/ SavepointFailed
      PROVE  /\ stack # <<>> /\ Top.pc = "begin" /\ LayersSame /\ Reject /\ Ends(TRUE)
             /\ UNCHANGED <<dirty, links, committed, made, rollbackOnly>>
             /\ \/ BeginFailed /\ Top.kind \in {"outer", "commit"}
                \/ SavepointFailed /\ Top.kind = "inner"
  BY <1>1, <1>4, RefusedStep
<1>5. CASE BeginFailed /\ Top.kind \in {"outer", "commit"}
  <2>1. Len(stack) = 1 /\ ~open
    BY <1>1, <1>4, <1>5, TopFacts
  <2>2. stack' = <<>>
    BY <1>1, <1>4, <1>5, <2>1, FirstEnds
  <2>3. ~Undoable
    BY <1>5, <2>1 DEF BeginFailed, Undoable
  <2>4. acked' = acked
    BY <1>4, <1>5 DEF Reject
  <2> QED
    BY <1>4, <1>5, <2>2, <2>3, <2>4 DEF Breaking
<1>6. CASE SavepointFailed /\ Top.kind = "inner"
  <2>1. Len(stack) > 1
    BY <1>1, <1>4, <1>6, TopFacts
  <2>2. UNCHANGED <<refused, dropped, acked>>
    BY <1>4, <1>6 DEF Reject
  <2>3. InLayers' = InLayers
    BY <1>1, <1>4, <1>6, SameLayers
  <2>4. Len(stack) # 1
    BY <2>1, MoreThanOne
  <2> QED
    BY <1>1, <1>4, <1>6, <2>1, <2>2, <2>3, <2>4, ReturningStep
<1> QED
  BY <1>2, <1>3, <1>4, <1>5, <1>6

\* The end of a call.
LEMMA EndKinds ==
    ASSUME Structure, SavepointReleased \/ Dispatched \/ HandlerThrows, setup' = setup
    PROVE  Failing \/ Yielding \/ Breaking \/ Returning
<1>1. StackOK /\ LayersOK /\ ShapeOK /\ Base /\ CloseOK /\ FrameworkOK /\ OutermostOK /\ PendingOK
      /\ TRUE \in BOOLEAN /\ FALSE \in BOOLEAN
  BY DEF Structure, Base, FrameworkOK
<1>2. CASE SavepointReleased
  <2>1. /\ stack # <<>> /\ Top.pc = "end" /\ Top.kind = "inner" /\ Ends(FALSE)
        /\ InLayers' = InLayers /\ Leave(depth, rollbackOnly)
        /\ UNCHANGED <<lease, dirty, links, committed, made, promiseVars>>
    BY <1>1, <1>2, ReleasedStep
  <2>2. rollbackOnly' = rollbackOnly
    BY <1>1, <2>1, InnerLeaves
  <2>3. Len(stack) > 1
    BY <1>1, <2>1, TopFacts
  <2>4. Len(stack) # 1
    BY <2>3, MoreThanOne
  <2> QED
    BY <1>1, <2>1, <2>2, <2>4, ReturningStep DEF promiseVars
<1>3. ASSUME Dispatched \/ HandlerThrows
      PROVE  /\ stack # <<>> /\ Top.pc = "dispatch" /\ Top.kind \in {"outer", "commit", "bare"} /\ LayersSame
             /\ ~rollbackOnly /\ UNCHANGED <<dirty, links, committed, made>>
             /\ Top.kind \in {"outer", "commit"} => Len(stack) = 1
  <2>1. stack # <<>> /\ Top.pc = "dispatch" /\ LayersSame /\ UNCHANGED <<dirty, links, committed, made>>
    <3>1. CASE Dispatched
      BY <1>1, <3>1, DispatchedStep
    <3>2. CASE HandlerThrows
      BY <1>1, <3>2, HandlerStep
    <3> QED
      BY <1>3, <3>1, <3>2
  <2>2. Fits(Top.kind, Top.pc, Transactions) /\ Top.kind \in Kinds
    BY <1>1, <2>1, ShapeFacts, TopFrame DEF Frames
  <2>3. Top.kind \in {"outer", "commit", "bare"}
    BY <2>1, <2>2 DEF Fits, Kinds
  <2> QED
    BY <1>1, <2>1, <2>3, TopFacts
<1>4. CASE Dispatched
  <2>1. Resolve /\ Ends(FALSE) /\ (Top.kind # "outer" => rollbackOnly' = rollbackOnly)
    BY <1>1, <1>4, DispatchedStep
  <2>2. /\ Len(stack) > 1 => rollbackOnly' = rollbackOnly
        /\ acked' = acked \cup (Top.made \ dropped) /\ UNCHANGED <<refused, dropped>>
    <3>1. acked' = acked \cup (Top.made \ dropped) /\ UNCHANGED <<refused, dropped>>
      BY <1>3, <1>4, <2>1 DEF Resolve
    <3>2. ASSUME Len(stack) > 1 PROVE rollbackOnly' = rollbackOnly
      <4>1. Len(stack) # 1
        BY <3>2, MoreThanOne
      <4> QED
        BY <1>3, <1>4, <2>1, <4>1
    <3> QED
      BY <3>1, <3>2
  <2>3. InLayers' = InLayers
    BY <1>1, <1>3, <1>4, SameLayers
  <2>4. Top.pc = "dispatch" /\ Top.pc # "links" /\ Top.pc # "undo"
    BY <1>3, <1>4
  <2> QED
    BY <1>1, <1>3, <1>4, <2>1, <2>2, <2>3, <2>4, ReturningStep
<1>5. CASE HandlerThrows
  <2>1. /\ "handler" \in Faults /\ rollbackOnly' = rollbackOnly
        /\ \/ Top.kind = "outer" /\ GoesOn("undo", {}) /\ UNCHANGED promiseVars
           \/ Top.kind # "outer" /\ Reject /\ Ends(TRUE)
    BY <1>1, <1>5, HandlerStep
  <2>2. ~Undoable
    BY <2>1 DEF Undoable
  <2>3. InLayers' = InLayers
    BY <1>1, <1>3, <1>5, SameLayers
  <2>4. CASE Top.kind = "outer" /\ GoesOn("undo", {}) /\ UNCHANGED promiseVars
    <3>1. Copied' = {}
      BY <1>1, <1>3, <1>5, <2>4, CopiedGoesOn
    <3>2. Unsaved' \subseteq Unsaved
      BY <1>3, <1>5, <3>1 DEF Unsaved
    <3>3. rollbackOnly \/ Top.kind = "inner" => rollbackOnly'
      BY <1>3, <1>5, <2>4
    <3>4. stack # <<>> /\ Top.pc # "undo" /\ UNCHANGED <<committed, made>>
      BY <1>3, <1>5
    <3> QED
      BY <2>2, <2>3, <2>4, <3>2, <3>3, <3>4 DEF Failing, promiseVars
  <2>5. CASE Top.kind = "commit" /\ Reject /\ Ends(TRUE)
    <3>1. stack' = <<>>
      BY <1>1, <1>3, <1>5, <2>5, FirstEnds
    <3>2. acked' = acked
      BY <2>5 DEF Reject
    <3> QED
      BY <1>3, <1>5, <2>2, <3>1, <3>2 DEF Breaking
  <2>6. CASE Top.kind = "bare" /\ Reject /\ Ends(TRUE)
    <3>1. Copied' = {}
      BY <1>1, <1>3, <1>5, <2>6, CopiedEnds
    <3>2. Unsaved' = dirty \cup links
      BY <1>3, <1>5, <3>1 DEF Unsaved
    <3>3. /\ refused' = refused /\ acked' = acked
          /\ dropped' = dropped \cup (Top.made \ (Unsaved' \cup committed))
      BY <2>6, <3>2 DEF Reject
    <3> QED
      BY <1>3, <1>5, <2>1, <2>3, <2>6, <3>2, <3>3 DEF Yielding
  <2> QED
    BY <1>3, <1>5, <2>1, <2>4, <2>5, <2>6
<1> QED
  BY <1>2, <1>4, <1>5

\* The catch blocks.
LEMMA UndoKinds ==
    ASSUME Structure, OuterUndone \/ CommitUndone \/ InnerUndone, setup' = setup
    PROVE  Unwinding \/ Unnesting
<1>1. StackOK /\ LayersOK /\ ShapeOK /\ Base /\ CloseOK /\ FrameworkOK /\ OutermostOK /\ PendingOK
      /\ TRUE \in BOOLEAN
  BY DEF Structure, Base, FrameworkOK
<1>2. CASE OuterUndone \/ CommitUndone
  <2>1. /\ stack # <<>> /\ Top.pc = "undo" /\ Reject /\ Ends(TRUE) /\ InLayers' = {}
        /\ UNCHANGED <<committed, made>>
        /\ \/ Top.kind = "outer" /\ dirty' = {} /\ links' = {}
           \/ Top.kind = "outer" /\ RollbackTransactionFails /\ UNCHANGED <<dirty, links>>
           \/ Top.kind = "commit" /\ UNCHANGED <<dirty, links>>
    BY <1>1, <1>2, UndoneStep
  <2>2. Len(stack) = 1
    BY <1>1, <2>1, TopFacts
  <2>3. stack' = <<>>
    BY <1>1, <2>1, <2>2, FirstEnds
  <2>4. Copied' = {}
    BY <2>3 DEF Copied, At
  <2>5. Unsaved' = dirty' \cup links'
    BY <2>4 DEF Unsaved
  <2>6. acked' = acked
    BY <2>1 DEF Reject
  <2>7. CASE Top.kind = "outer"
    <3>1. refused' = refused \cup Top.made /\ dropped' = dropped
      BY <2>1, <2>7 DEF Reject
    <3>2. Unsaved' \subseteq dirty \cup links
      BY <2>1, <2>5
    <3>3. RollbackTransactionFails /\ Undoable => ~open
      BY DEF RollbackTransactionFails, Undoable
    <3>4. Undoable => Unsaved' = {} \/ ~open
      BY <2>1, <2>5, <2>7, <3>3
    <3> QED
      BY <2>1, <2>2, <2>3, <2>6, <2>7, <3>1, <3>2, <3>4 DEF Unwinding
  <2>8. CASE Top.kind = "commit"
    <3>1. Unsaved' = dirty \cup links
      BY <2>1, <2>5, <2>8
    <3>2. refused' = refused /\ dropped' = dropped \cup (Top.made \ (Unsaved' \cup committed))
      BY <2>1, <2>8, <3>1 DEF Reject
    <3> QED
      BY <2>1, <2>2, <2>3, <2>6, <2>8, <3>1, <3>2 DEF Unwinding
  <2> QED
    BY <2>1, <2>7, <2>8
<1>3. CASE InnerUndone
  <2>1. /\ stack # <<>> /\ Top.pc = "undo" /\ Top.kind = "inner" /\ Ends(TRUE)
        /\ InLayers' \subseteq InLayers /\ Leave(depth, rollbackOnly)
        /\ UNCHANGED <<lease, dirty, links, committed, made, promiseVars>>
    BY <1>1, <1>3, InnerUndoneStep
  <2>2. Len(stack) > 1 /\ Deep
    BY <1>1, <2>1, TopFacts
  <2>3. rollbackOnly' = rollbackOnly
    BY <1>1, <2>1, InnerLeaves
  <2>4. rollbackOnly
    BY <1>1, <2>1 DEF OutermostOK, DoomOK
  <2>5. Copied = {} /\ Copied' = {}
    BY <1>1, <2>1, CopiedEnds DEF Copied, At
  <2>6. Unsaved' = Unsaved
    BY <2>1, <2>5 DEF Unsaved
  <2> QED
    BY <2>1, <2>2, <2>3, <2>4, <2>6 DEF Unnesting, promiseVars
<1> QED
  BY <1>2, <1>3

\* Every step is one of these.
LEMMA StepKinds ==
    ASSUME Disciplined, Structure, [Next]_vars
    PROVE  /\ setup' = setup
           /\ \/ Making \/ Calling \/ Forgetting \/ Going \/ Failing \/ Yielding \/ Breaking \/ Returning
              \/ Writing \/ Committing \/ Unwinding \/ Unnesting \/ UNCHANGED vars
<1>1. setup' = setup
  BY DEF Next, vars
<1>2. CloseOK
  BY DEF Structure
<1> QED
  BY <1>1, <1>2, OrderlyCases, MakingStep, CallingStep, ForgettingStep, BodyKinds, BeginKinds, WritingStep, PassingStep,
     CommittingStep, CommitFailingStep, EndKinds, UndoKinds, Zenon
-----------------------------------------------------------------------------
(* What a call answers for                                                     *)

Pend == Unsaved \cup InLayers
Live == Pend \cup committed \cup dropped

\* A call that ends in a COMMIT answers for everything that is pending, and all it
\* answers for is pending, saved or dropped, unless it is lost already.
AnswerOK(f) ==
    f.kind \in {"outer", "commit", "bare"} =>
        /\ Pend \subseteq f.made
        /\ f.pc # "undo" /\ ~rollbackOnly => f.made \subseteq Live
AnswersOK == \A i \in 1..Len(stack) : AnswerOK(stack[i])

\* Without a call nobody answers.
LEMMA AnswersQuiet ==
    ASSUME Base', stack' = <<>>
    PROVE  AnswersOK'
BY DEF AnswersOK, Base, StackOK

\* A call that goes on.
LEMMA AnswersGoesOn ==
    ASSUME StackOK, ShapeOK, AnswersOK, stack # <<>>, NEW point, NEW todo, GoesOn(point, todo), Pend' \subseteq Pend,
           \/ rollbackOnly'
           \/ point = "undo" /\ Len(stack) = 1
           \/ Top.pc # "undo" /\ Live \subseteq Live' /\ (rollbackOnly => rollbackOnly')
    PROVE  AnswersOK'
<1>1. /\ Len(stack) \in Nat /\ Top = stack[Len(stack)] /\ Len(stack') = Len(stack)
      /\ stack'[Len(stack)].pc = point
      /\ \A i \in 1..Len(stack) : /\ stack'[i].kind = stack[i].kind /\ stack'[i].made = stack[i].made
                                  /\ i # Len(stack) => stack'[i].pc = stack[i].pc
  BY ShapeFacts DEF GoesOn
<1>2. ASSUME NEW i \in 1..Len(stack'), stack'[i].kind \in {"outer", "commit", "bare"}
      PROVE  /\ Pend' \subseteq stack'[i].made
             /\ stack'[i].pc # "undo" /\ ~rollbackOnly' => stack'[i].made \subseteq Live'
  <2>1. /\ i \in 1..Len(stack) /\ stack'[i].kind = stack[i].kind /\ stack'[i].made = stack[i].made
        /\ Pend \subseteq stack[i].made
        /\ stack[i].pc # "undo" /\ ~rollbackOnly => stack[i].made \subseteq Live
    BY <1>1, <1>2 DEF AnswersOK, AnswerOK
  <2>2. CASE rollbackOnly'
    BY <2>1, <2>2
  <2>3. CASE point = "undo" /\ Len(stack) = 1
    <3>1. i = Len(stack)
      BY <1>1, <2>1, <2>3
    <3> QED
      BY <1>1, <2>1, <2>3, <3>1
  <2>4. CASE Top.pc # "undo" /\ Live \subseteq Live' /\ (rollbackOnly => rollbackOnly')
    <3>1. stack[i].pc # "undo"
      <4>1. CASE i = Len(stack)
        BY <1>1, <2>4, <4>1
      <4>2. CASE i < Len(stack)
        BY <2>1, <4>2 DEF ShapeOK
      <4> QED
        BY <1>1, <2>1, <4>1, <4>2
    <3> QED
      BY <2>1, <2>4, <3>1
  <2> QED
    BY <2>2, <2>3, <2>4
<1> QED
  BY <1>2 DEF AnswersOK, AnswerOK

\* A call that is over.
LEMMA AnswersEnds ==
    ASSUME StackOK, ShapeOK, AnswersOK, stack # <<>>, NEW failed \in BOOLEAN, Ends(failed),
           Len(stack) > 1 => Pend' \subseteq Pend,
           Len(stack) > 1 => rollbackOnly' \/ (Live \subseteq Live' /\ (rollbackOnly => rollbackOnly'))
    PROVE  AnswersOK'
<1>1. Len(stack) \in Nat /\ Len(stack') = Len(stack) - 1
  BY DEF StackOK, Ends
<1>2. ASSUME NEW i \in 1..Len(stack'), stack'[i].kind \in {"outer", "commit", "bare"}
      PROVE  /\ Pend' \subseteq stack'[i].made
             /\ stack'[i].pc # "undo" /\ ~rollbackOnly' => stack'[i].made \subseteq Live'
  <2>1. i \in 1..Len(stack) /\ Len(stack) > 1
    BY <1>1
  <2>2. stack'[i].kind = stack[i].kind /\ stack'[i].made = stack[i].made /\ stack'[i].pc = stack[i].pc
    BY DEF Ends
  <2>3. /\ Pend \subseteq stack[i].made
        /\ stack[i].pc # "undo" /\ ~rollbackOnly => stack[i].made \subseteq Live
    BY <1>2, <2>1, <2>2 DEF AnswersOK, AnswerOK
  <2> QED
    BY <2>1, <2>2, <2>3
<1> QED
  BY <1>2 DEF AnswersOK, AnswerOK

\* A call that begins answers for what is pending.
LEMMA AnswersBegins ==
    ASSUME StackOK, AnswersOK, Calling
    PROVE  AnswersOK'
<1>1. PICK kind, point, sp, todo :
         Begins(kind, point, sp, todo) /\ (kind \in {"outer", "commit", "bare"} => InLayers = {})
  BY DEF Calling
<1>2. /\ Pend' = Pend /\ Live' = Live /\ Unsaved = dirty \cup links
      /\ stack # <<>> => rollbackOnly' = rollbackOnly
  BY DEF Calling, Steady, Pend, Live
<1>3. /\ Len(stack) \in Nat /\ Len(stack') = Len(stack) + 1
      /\ \A i \in 1..Len(stack) : stack'[i] = stack[i]
      /\ stack'[Len(stack) + 1].kind = kind
      /\ kind # "inner" => stack'[Len(stack) + 1].made = dirty \cup links
  BY <1>1 DEF StackOK, Begins
<1>4. ASSUME NEW i \in 1..Len(stack'), stack'[i].kind \in {"outer", "commit", "bare"}
      PROVE  /\ Pend' \subseteq stack'[i].made
             /\ stack'[i].pc # "undo" /\ ~rollbackOnly' => stack'[i].made \subseteq Live'
  <2>1. CASE i \in 1..Len(stack)
    <3>1. stack'[i] = stack[i] /\ stack # <<>>
      BY <1>3, <2>1
    <3>2. /\ Pend \subseteq stack[i].made
          /\ stack[i].pc # "undo" /\ ~rollbackOnly => stack[i].made \subseteq Live
      BY <1>4, <2>1, <3>1 DEF AnswersOK, AnswerOK
    <3> QED
      BY <1>2, <3>1, <3>2
  <2>2. CASE i = Len(stack) + 1
    <3>1. kind \in {"outer", "commit", "bare"} /\ stack'[i].made = dirty \cup links
      BY <1>3, <1>4, <2>2
    <3>2. Pend = stack'[i].made
      BY <1>1, <1>2, <3>1 DEF Pend
    <3>3. Pend \subseteq Live
      BY DEF Live
    <3> QED
      BY <1>2, <3>2, <3>3
  <2> QED
    BY <1>3, <2>1, <2>2
<1> QED
  BY <1>4 DEF AnswersOK, AnswerOK

\* Every step keeps it.
LEMMA AnswersStep ==
    ASSUME Disciplined, Structure, AnswersOK, [Next]_vars
    PROVE  AnswersOK'
<1>1. StackOK /\ ShapeOK /\ Base /\ CloseOK /\ FrameworkOK /\ OutermostOK /\ PendingOK /\ TRUE \in BOOLEAN
  BY DEF Structure, Base, FrameworkOK
<1>2. Base'
  BY <1>1, BaseStep
<1>3. ASSUME stack' = <<>> PROVE AnswersOK'
  BY <1>2, <1>3, AnswersQuiet
<1>4. CASE Making
  <2>1. /\ Len(stack') = Len(stack) /\ Pend' = Pend \cup {made'} /\ rollbackOnly' = rollbackOnly
        /\ Live' = Live \cup {made'}
    BY <1>4 DEF Making, Marks, Pend, Live
  <2>2. \A i \in 1..Len(stack) : /\ stack'[i].kind = stack[i].kind /\ stack'[i].pc = stack[i].pc
                                 /\ stack'[i].made = stack[i].made \cup {made'}
    BY <1>4 DEF Making, Marks
  <2>3. ASSUME NEW i \in 1..Len(stack'), stack'[i].kind \in {"outer", "commit", "bare"}
        PROVE  /\ Pend' \subseteq stack'[i].made
               /\ stack'[i].pc # "undo" /\ ~rollbackOnly' => stack'[i].made \subseteq Live'
    <3>1. /\ Pend \subseteq stack[i].made
          /\ stack[i].pc # "undo" /\ ~rollbackOnly => stack[i].made \subseteq Live
      BY <2>1, <2>2, <2>3 DEF AnswersOK, AnswerOK
    <3>2. Pend' \subseteq stack'[i].made
      BY <2>1, <2>2, <3>1
    <3>3. ASSUME stack'[i].pc # "undo", ~rollbackOnly' PROVE stack'[i].made \subseteq Live'
      BY <2>1, <2>2, <3>1, <3>3
    <3> QED
      BY <3>2, <3>3
  <2> QED
    BY <2>3 DEF AnswersOK, AnswerOK
<1>5. CASE Calling
  BY <1>1, <1>5, AnswersBegins
<1>6. CASE Forgetting
  BY <1>3, <1>6 DEF Forgetting
<1>7. CASE Going
  <2>1. PICK point, todo : point # "undo" /\ GoesOn(point, todo)
    BY <1>7 DEF Going
  <2>2. stack # <<>> /\ Top.pc # "undo" /\ Pend' = Pend /\ Live' = Live /\ rollbackOnly' = rollbackOnly
    BY <1>7 DEF Going, Steady, Pend, Live
  <2> QED
    BY <1>1, <2>1, <2>2, AnswersGoesOn
<1>8. CASE Failing
  <2>1. /\ stack # <<>> /\ GoesOn("undo", {}) /\ Pend' \subseteq Pend
        /\ Top.kind \in {"outer", "inner", "commit"} /\ (Top.kind = "inner" => rollbackOnly')
    BY <1>8 DEF Failing, Pend
  <2>2. rollbackOnly' \/ Len(stack) = 1
    BY <1>1, <2>1, TopFacts
  <2> QED
    BY <1>1, <2>1, <2>2, AnswersGoesOn
<1>9. CASE Yielding
  <2>1. /\ stack # <<>> /\ Ends(TRUE) /\ InLayers' = InLayers /\ UNCHANGED <<committed, rollbackOnly>>
        /\ Unsaved' = dirty \cup links
        /\ Top.kind = "bare" => dropped' = dropped \cup (Top.made \ (Unsaved' \cup committed))
        /\ Top.kind = "flush" => dropped' = dropped /\ Unsaved' = Unsaved
        /\ Top.kind \in {"bare", "flush"}
    BY <1>9 DEF Yielding
  <2>2. Pend' \subseteq Pend
    BY <2>1 DEF Pend, Unsaved
  <2>3. Live \subseteq Live'
    <3>1. CASE Top.kind = "bare"
      <4>1. Len(stack) \in 1..Len(stack) /\ Top = stack[Len(stack)]
        BY <1>1, <2>1, TopFrame
      <4>2. AnswerOK(Top)
        BY <4>1 DEF AnswersOK
      <4>3. Pend \subseteq Top.made
        BY <3>1, <4>2 DEF AnswerOK
      <4>4. dropped' = dropped \cup (Top.made \ (Unsaved' \cup committed)) /\ Unsaved \subseteq Top.made
        BY <2>1, <3>1, <4>3 DEF Pend
      <4> QED
        BY <2>1, <4>4 DEF Live, Pend
    <3>2. CASE Top.kind = "flush"
      BY <2>1, <3>2 DEF Live, Pend
    <3> QED
      BY <2>1, <3>1, <3>2
  <2> QED
    BY <1>1, <2>1, <2>2, <2>3, AnswersEnds
<1>10. CASE Breaking
  BY <1>3, <1>10 DEF Breaking
<1>11. CASE Returning
  <2>1. PICK failed \in BOOLEAN : Ends(failed)
    BY <1>11 DEF Returning
  <2>2. /\ stack # <<>> /\ Pend' = Pend /\ Live' = Live
        /\ Len(stack) > 1 => rollbackOnly' = rollbackOnly
    BY <1>11 DEF Returning, Steady, Pend, Live
  <2> QED
    BY <1>1, <2>1, <2>2, AnswersEnds
<1>12. CASE Writing
  <2>1. PICK todo : GoesOn(Top.pc, todo)
    BY <1>12 DEF Writing
  <2>2. stack # <<>> /\ Top.pc # "undo" /\ UNCHANGED <<dropped, rollbackOnly>>
    BY <1>12 DEF Writing
  <2>3. PICK c \in Unsaved :
           \/ InLayers' = InLayers \cup {c} /\ Unsaved' = Unsaved \ {c} /\ committed' = committed
           \/ /\ InLayers = {} /\ InLayers' = {} /\ Unsaved' = Unsaved \ {c} /\ committed' = committed \cup {c}
           \/ InLayers' = InLayers /\ Unsaved' = Unsaved /\ committed' = committed
    BY <1>12 DEF Writing
  <2>4. Pend' \subseteq Pend
    BY <2>3 DEF Pend
  <2>5. Live \subseteq Live'
    BY <2>2, <2>3 DEF Pend, Live
  <2> QED
    BY <1>1, <2>1, <2>2, <2>4, <2>5, AnswersGoesOn
<1>13. CASE Committing
  <2>1. stack # <<>> /\ Top.pc # "undo" /\ GoesOn("dispatch", {}) /\ UNCHANGED <<dropped, rollbackOnly>>
    BY <1>13 DEF Committing
  <2>2. committed' = committed \cup InLayers /\ InLayers' = {} /\ Unsaved = {} /\ Unsaved' = {}
    BY <1>13 DEF Committing
  <2>3. Pend' \subseteq Pend /\ Live \subseteq Live'
    BY <2>1, <2>2 DEF Pend, Live
  <2> QED
    BY <1>1, <2>1, <2>3, AnswersGoesOn
<1>14. CASE Unwinding
  BY <1>3, <1>14 DEF Unwinding
<1>15. CASE Unnesting
  <2>1. stack # <<>> /\ Ends(TRUE) /\ rollbackOnly' /\ Pend' \subseteq Pend
    BY <1>15 DEF Unnesting, Pend
  <2> QED
    BY <1>1, <2>1, AnswersEnds
<1>16. CASE UNCHANGED vars
  <2>1. stack' = stack /\ rollbackOnly' = rollbackOnly
    BY <1>16 DEF vars, sessionVars
  <2>2. Pend' = Pend /\ Live' = Live
    BY <1>16 DEF vars, pendingVars, connVars, promiseVars, Pend, Live, Unsaved, Copied, At, Top, InLayers
  <2> QED
    BY <2>1, <2>2 DEF AnswersOK, AnswerOK
<1> QED
  BY <1>4, <1>5, <1>6, <1>7, <1>8, <1>9, <1>10, <1>11, <1>12, <1>13, <1>14, <1>15, <1>16, StepKinds, Zenon

\* After the COMMIT everything a call answers for is saved, or was dropped before.
LEMMA DispatchIsSettled ==
    ASSUME Structure, AnswersOK, stack # <<>>, Top.pc = "dispatch", Top.kind \in {"outer", "commit", "bare"}
    PROVE  Top.made \subseteq committed \cup dropped /\ Pend = {}
<1>1. StackOK /\ Base /\ CloseOK /\ FrameworkOK /\ OutermostOK /\ PendingOK
  BY DEF Structure, Base
<1>2. Len(stack) \in 1..Len(stack) /\ Top = stack[Len(stack)]
  BY <1>1, TopFrame
<1>3. AnswerOK(Top)
  BY <1>2 DEF AnswersOK
<1>4. ~rollbackOnly /\ InLayers = {}
  BY <1>1, TopFacts
<1>5. dirty = {} /\ links = {}
  BY <1>1 DEF PendingOK, Pends
<1>6. Copied = {}
  BY DEF Copied, At
<1>7. Pend = {}
  BY <1>4, <1>5, <1>6 DEF Pend, Unsaved
<1>8. Top.made \subseteq Live
  BY <1>3, <1>4 DEF AnswerOK
<1> QED
  BY <1>7, <1>8 DEF Live

\* What is in the database stays there, and what is promised to be there is.
LEMMA AckStep ==
    ASSUME Disciplined, Structure, AnswersOK, ResolvedIsCommitted, [Next]_vars
    PROVE  ResolvedIsCommitted'
<1>1. committed \subseteq committed'
  <2>1. Steady => committed' = committed
    BY DEF Steady
  <2>2. Writing => committed \subseteq committed'
    BY DEF Writing
  <2>3. Committing => committed \subseteq committed'
    BY DEF Committing
  <2>4. UNCHANGED vars => committed' = committed
    BY DEF vars
  <2> QED
    BY <2>1, <2>2, <2>3, <2>4, StepKinds
       DEF Making, Calling, Forgetting, Going, Failing, Yielding, Breaking, Returning, Unwinding, Unnesting
<1>2. acked' = acked \/ /\ stack # <<>> /\ Top.pc = "dispatch" /\ Top.kind \in {"outer", "commit", "bare"}
                        /\ acked' = acked \cup (Top.made \ dropped)
  <2>1. UNCHANGED vars => acked' = acked
    BY DEF vars, promiseVars
  <2>2. Returning => \/ acked' = acked
                     \/ /\ stack # <<>> /\ Top.pc = "dispatch" /\ Top.kind \in {"outer", "commit", "bare"}
                        /\ acked' = acked \cup (Top.made \ dropped)
    BY DEF Returning
  <2>3. Making \/ Calling \/ Forgetting \/ Going \/ Failing => acked' = acked
    BY DEF Making, Calling, Forgetting, Going, Failing
  <2>4. Yielding \/ Breaking \/ Writing \/ Committing \/ Unwinding \/ Unnesting => acked' = acked
    BY DEF Yielding, Breaking, Writing, Committing, Unwinding, Unnesting
  <2> QED
    BY <2>1, <2>2, <2>3, <2>4, StepKinds, Zenon
<1>3. CASE acked' = acked
  BY <1>1, <1>3 DEF ResolvedIsCommitted
<1>4. CASE /\ stack # <<>> /\ Top.pc = "dispatch" /\ Top.kind \in {"outer", "commit", "bare"}
           /\ acked' = acked \cup (Top.made \ dropped)
  <2>1. Top.made \subseteq committed \cup dropped
    BY <1>4, DispatchIsSettled
  <2> QED
    BY <1>1, <1>4, <2>1 DEF ResolvedIsCommitted
<1> QED
  BY <1>2, <1>3, <1>4

\* They hold from the start.
LEMMA InitAnswers == Init => Structure /\ AnswersOK /\ ResolvedIsCommitted
<1> SUFFICES ASSUME Init PROVE Structure /\ AnswersOK /\ ResolvedIsCommitted
  OBVIOUS
<1>1. stack = <<>> /\ dirty = {} /\ links = {} /\ acked = {}
  BY DEF Init
<1>2. Base /\ CloseOK /\ FrameworkOK /\ OutermostOK
  BY InitBase, InitClose, InitFramework
<1>3. PendingOK
  BY <1>1 DEF PendingOK
<1>4. AnswersOK
  BY <1>1, <1>2 DEF AnswersOK, Base, StackOK
<1> QED
  BY <1>1, <1>2, <1>3, <1>4 DEF Structure, ResolvedIsCommitted

\* Every reachable state has the structure.
LEMMA StructureStep ==
    ASSUME Disciplined, CommitsEnd, Structure, [Next]_vars
    PROVE  Structure'
<1>1. Base /\ CloseOK /\ FrameworkOK /\ OutermostOK /\ PendingOK
  BY DEF Structure
<1> QED
  BY <1>1, BaseStep, CloseStep, FrameworkStep, OutermostStep, PendingStep DEF Structure

\* When transaction() or commit() resolves, every change that was pending when it
\* began or was made while it ran is in the database (OrmSession.transaction,
\* commit; runInTransaction), whatever statements, interceptors and handlers throw,
\* but for a pooled COMMIT that fails and leaves its transaction open.
THEOREM ResolvedChangesAreSaved ==
    ASSUME Disciplined, CommitsEnd
    PROVE  Spec => []ResolvedIsCommitted
<1>1. Structure /\ AnswersOK /\ ResolvedIsCommitted /\ [Next]_vars
        => (Structure /\ AnswersOK /\ ResolvedIsCommitted)'
  BY StructureStep, AnswersStep, AckStep
<1> QED
  BY <1>1, InitAnswers, PTL DEF Spec
-----------------------------------------------------------------------------
(* What a rejected call promises                                               *)

\* User code asks for a ROLLBACK outside of a transaction only where that is no error.
AbandonsSafely == \A s \in Setups : "abandon" \in s.calls => s.executor # "strict connection"

\* What is refused is neither pending nor saved, and what is pending is not saved.
ApartOK ==
    /\ refused \cap (Pend \cup committed) = {}
    /\ Pend \cap committed = {}

\* Nothing an outermost transaction answers for is saved before its COMMIT, and
\* when it is undone there is still a transaction to roll back, or nothing pending.
FirstOK ==
    Deep =>
        /\ stack[1].pc # "dispatch" => stack[1].made \cap committed = {}
        /\ stack[1].pc = "undo" => open \/ (dirty = {} /\ links = {})

UndoneOK == Sure => ApartOK /\ FirstOK

\* Without a call only the sets matter.
LEMMA FirstQuiet ==
    ASSUME stack' = <<>>
    PROVE  FirstOK'
BY DEF FirstOK, Deep

\* A call that goes on.
LEMMA FirstOKGoesOn ==
    ASSUME StackOK, ShapeOK, FirstOK, stack # <<>>, NEW point, NEW todo, GoesOn(point, todo),
           Deep => committed' \subseteq committed \/ (Len(stack) = 1 /\ point = "dispatch"),
           Top.pc # "dispatch" \/ Top.kind # "outer",
           point = "undo" /\ Top.kind = "outer" => open' \/ (dirty' = {} /\ links' = {})
    PROVE  FirstOK'
<1>1. /\ stack' # <<>> /\ stack'[1].kind = stack[1].kind /\ stack'[1].made = stack[1].made
      /\ stack'[1].pc = IF Len(stack) = 1 THEN point ELSE stack[1].pc
  BY FirstGoesOn
<1>2. Top = stack[Len(stack)] /\ (Len(stack) > 1 => stack[1].pc = "body")
  BY ShapeFacts
<1>3. SUFFICES ASSUME Deep'
               PROVE  /\ stack'[1].pc # "dispatch" => stack'[1].made \cap committed' = {}
                      /\ stack'[1].pc = "undo" => open' \/ (dirty' = {} /\ links' = {})
  BY DEF FirstOK
<1>4. Deep /\ stack[1].kind = "outer"
  BY <1>1, <1>3 DEF Deep
<1>5. CASE Len(stack) = 1
  <2>1. Top = stack[1] /\ stack'[1].pc = point
    BY <1>1, <1>2, <1>5
  <2>2. stack[1].made \cap committed = {}
    BY <1>4, <2>1 DEF FirstOK
  <2>3. point # "dispatch" => committed' \subseteq committed
    BY <1>4
  <2> QED
    BY <1>1, <1>4, <2>1, <2>2, <2>3
<1>6. CASE Len(stack) > 1 /\ Len(stack) # 1
  <2>1. stack'[1].pc = "body" /\ stack[1].pc = "body"
    BY <1>1, <1>2, <1>6
  <2>2. stack[1].made \cap committed = {}
    BY <1>4, <2>1 DEF FirstOK
  <2>3. committed' \subseteq committed
    BY <1>4, <1>6
  <2> QED
    BY <1>1, <2>1, <2>2, <2>3
<1> QED
  BY <1>5, <1>6, OneOrMore

\* A call that is over.
LEMMA FirstOKEnds ==
    ASSUME StackOK, ShapeOK, FirstOK, stack # <<>>, NEW failed \in BOOLEAN, Ends(failed), committed' = committed
    PROVE  FirstOK'
<1>1. /\ Len(stack) = 1 => stack' = <<>>
      /\ Len(stack) > 1 => /\ stack' # <<>>
                           /\ stack'[1].kind = stack[1].kind /\ stack'[1].pc = stack[1].pc
                           /\ stack'[1].pc = "body" /\ stack'[1].made = stack[1].made
      /\ Len(stack) = 1 \/ Len(stack) > 1
  BY FirstEnds
<1>2. CASE Len(stack) = 1
  BY <1>1, <1>2, FirstQuiet
<1>3. CASE Len(stack) > 1
  BY <1>1, <1>3 DEF FirstOK, Deep
<1> QED
  BY <1>1, <1>2, <1>3

\* A call that begins answers for nothing that is saved.
LEMMA FirstOKBegins ==
    ASSUME StackOK, ShapeOK, ApartOK, FirstOK, Calling
    PROVE  FirstOK'
<1>1. PICK kind, point, sp, todo : Begins(kind, point, sp, todo)
  BY DEF Calling
<1>2. /\ Unsaved = dirty \cup links /\ ~AtUndo' /\ committed' = committed
  BY DEF Calling, Steady
<1>3. stack' # <<>> /\ (stack # <<>> => stack'[1] = stack[1])
  BY <1>1, FirstBegins
<1>4. ASSUME stack = <<>>, stack'[1].kind = "outer"
      PROVE  stack'[1].made \cap committed' = {}
  <2>1. Len(stack) = 0
    BY <1>4
  <2>2. stack'[1].kind = kind /\ stack'[1].made = IF kind = "inner" THEN {} ELSE dirty \cup links
    BY <1>1, <2>1 DEF Begins
  <2>3. stack'[1].made \subseteq Pend
    BY <1>2, <2>2 DEF Pend
  <2> QED
    BY <1>2, <2>3 DEF ApartOK
<1>5. stack # <<>> => (Deep' => Deep)
  BY <1>3 DEF Deep
<1>6. SUFFICES ASSUME Deep', stack'[1].pc # "dispatch" PROVE stack'[1].made \cap committed' = {}
  BY <1>2, <1>3 DEF FirstOK, AtUndo
<1>7. CASE stack = <<>>
  BY <1>4, <1>6, <1>7 DEF Deep
<1>8. CASE stack # <<>>
  BY <1>2, <1>3, <1>5, <1>6, <1>8 DEF FirstOK
<1> QED
  BY <1>7, <1>8

\* Every step keeps what is refused apart from what is saved and pending.
LEMMA RefusedStaysApart ==
    ASSUME Disciplined, Structure, UndoneOK, [Next]_vars
    PROVE  UndoneOK'
<1>1. StackOK /\ ShapeOK /\ ChangesOK /\ Base /\ CloseOK /\ FrameworkOK /\ OutermostOK /\ PendingOK /\ TRUE \in BOOLEAN
  BY DEF Structure, Base, FrameworkOK
<1>2. Sure' => Sure
  <2>1. setup' = setup
    BY StepKinds
  <2> QED
    BY <2>1 DEF Sure, Undoable, Tidy, Pooled, Faults, UserCalls
<1>3. SUFFICES ASSUME Sure, ApartOK, FirstOK PROVE ApartOK' /\ FirstOK'
  BY <1>2 DEF UndoneOK
<1>4. Undoable
  BY <1>3 DEF Sure
<1>5. ASSUME refused' = refused, committed' = committed, Pend' \subseteq Pend PROVE ApartOK'
  BY <1>3, <1>5 DEF ApartOK
<1>6. CASE Making
  <2>1. /\ made' = made + 1 /\ Unsaved' = Unsaved \cup {made'} /\ InLayers' = InLayers
        /\ committed' = committed /\ refused' = refused /\ ~AtUndo' /\ Marks
        /\ \A i \in 1..Len(stack) : stack'[i].made = stack[i].made \cup {made'}
    BY <1>6 DEF Making
  <2>2. made' \notin committed /\ made' \notin refused
    <3>1. made \in Nat /\ committed \subseteq 1..made /\ refused \subseteq 1..made
      BY <1>1, MadeChanges DEF ChangesOK
    <3> QED
      BY <2>1, <3>1
  <2>3. ApartOK'
    <3>1. Pend' = Pend \cup {made'}
      BY <2>1 DEF Pend
    <3> QED
      BY <1>3, <2>1, <2>2, <3>1 DEF ApartOK
  <2>4. FirstOK'
    <3>1. CASE stack = <<>>
      <4>1. Len(stack') = 0
        BY <2>1, <3>1 DEF Marks
      <4>2. stack' = <<>>
        <5>1. Base'
          BY <1>1, BaseStep
        <5> QED
          BY <4>1, <5>1 DEF Base, StackOK
      <4> QED
        BY <4>2, FirstQuiet
    <3>2. CASE stack # <<>>
      <4>1. 1 \in 1..Len(stack)
        BY <1>1, <3>2, ShapeFacts
      <4>2. /\ stack'[1].kind = stack[1].kind /\ stack'[1].pc = stack[1].pc
            /\ stack'[1].made = stack[1].made \cup {made'}
        BY <2>1, <4>1 DEF Marks
      <4> QED
        BY <1>3, <2>1, <2>2, <3>2, <4>2 DEF FirstOK, Deep, AtUndo
    <3> QED
      BY <3>1, <3>2
  <2> QED
    BY <2>3, <2>4
<1>7. CASE Calling
  <2>1. Pend' = Pend /\ refused' = refused /\ committed' = committed
    BY <1>7 DEF Calling, Steady, Pend
  <2> QED
    BY <1>1, <1>3, <1>5, <1>7, <2>1, FirstOKBegins
<1>8. CASE Forgetting
  <2>1. /\ stack' = <<>> /\ refused' = refused \cup Unsaved /\ committed' = committed
        /\ Unsaved' = {} /\ InLayers' = {}
    BY <1>3, <1>8 DEF Forgetting
  <2>2. ApartOK'
    BY <1>3, <2>1 DEF ApartOK, Pend
  <2> QED
    BY <2>1, <2>2, FirstQuiet
<1>9. CASE Going
  <2>1. PICK point, todo : point # "undo" /\ GoesOn(point, todo)
    BY <1>9 DEF Going
  <2>2. /\ stack # <<>> /\ Top.pc # "dispatch" /\ Pend' = Pend /\ refused' = refused /\ committed' = committed
    BY <1>9 DEF Going, Steady, Pend
  <2> QED
    BY <1>1, <1>3, <1>5, <2>1, <2>2, FirstOKGoesOn
<1>10. CASE Failing
  <2>1. /\ stack # <<>> /\ GoesOn("undo", {}) /\ Top.pc # "dispatch" /\ Pend' \subseteq Pend
        /\ refused' = refused /\ committed' = committed
        /\ Top.kind = "outer" => open' \/ (dirty' = {} /\ links' = {})
    BY <1>4, <1>10 DEF Failing, Pend
  <2> QED
    BY <1>1, <1>3, <1>5, <2>1, FirstOKGoesOn
<1>11. CASE Yielding
  <2>1. /\ stack # <<>> /\ Ends(TRUE) /\ Pend' \subseteq Pend /\ refused' = refused /\ committed' = committed
    BY <1>11 DEF Yielding, Pend, Unsaved
  <2> QED
    BY <1>1, <1>3, <1>5, <2>1, FirstOKEnds
<1>12. CASE Breaking
  BY <1>4, <1>12 DEF Breaking
<1>13. CASE Returning
  <2>1. PICK failed \in BOOLEAN : Ends(failed)
    BY <1>13 DEF Returning
  <2>2. stack # <<>> /\ Pend' = Pend /\ refused' = refused /\ committed' = committed
    BY <1>13 DEF Returning, Steady, Pend
  <2> QED
    BY <1>1, <1>3, <1>5, <2>1, <2>2, FirstOKEnds
<1>14. CASE Writing
  <2>1. PICK todo : GoesOn(Top.pc, todo)
    BY <1>14 DEF Writing
  <2>2. stack # <<>> /\ Top.pc \notin {"dispatch", "undo"} /\ refused' = refused
    BY <1>14 DEF Writing
  <2>3. PICK c \in Unsaved :
           \/ InLayers' = InLayers \cup {c} /\ Unsaved' = Unsaved \ {c} /\ committed' = committed
           \/ /\ InLayers = {} /\ InLayers' = {} /\ Unsaved' = Unsaved \ {c} /\ committed' = committed \cup {c}
              /\ ~Deep
           \/ InLayers' = InLayers /\ Unsaved' = Unsaved /\ committed' = committed
    BY <1>14 DEF Writing
  <2>4. ApartOK'
    BY <1>3, <2>2, <2>3 DEF ApartOK, Pend
  <2>5. Deep => committed' \subseteq committed
    BY <2>3
  <2> QED
    BY <1>1, <1>3, <2>1, <2>2, <2>4, <2>5, FirstOKGoesOn
<1>15. CASE Committing
  <2>1. /\ stack # <<>> /\ Len(stack) = 1 /\ Top.pc = "end" /\ GoesOn("dispatch", {}) /\ refused' = refused
        /\ committed' = committed \cup InLayers /\ InLayers' = {} /\ Unsaved' = {}
    BY <1>15 DEF Committing
  <2>2. ApartOK'
    BY <1>3, <2>1 DEF ApartOK, Pend
  <2> QED
    BY <1>1, <1>3, <2>1, <2>2, FirstOKGoesOn
<1>16. CASE Unwinding
  <2>1. stack # <<>> /\ Len(stack) = 1 /\ Top.pc = "undo" /\ stack' = <<>> /\ InLayers' = {} /\ committed' = committed
    BY <1>16 DEF Unwinding
  <2>2. CASE /\ Top.kind = "outer" /\ refused' = refused \cup Top.made
             /\ Unsaved' \subseteq dirty \cup links /\ (Undoable => Unsaved' = {} \/ ~open)
    <3>1. Top = stack[1] /\ Deep
      BY <2>1, <2>2 DEF Top, Deep
    <3>2. /\ Top.made \cap committed = {}
          /\ open \/ (dirty = {} /\ links = {})
      BY <1>3, <2>1, <3>1 DEF FirstOK
    <3>3. Unsaved' = {}
      BY <1>4, <2>2, <3>2
    <3>4. ApartOK'
      BY <1>3, <2>1, <2>2, <3>2, <3>3 DEF ApartOK, Pend
    <3> QED
      BY <2>1, <3>4, FirstQuiet
  <2>3. CASE refused' = refused /\ Unsaved' = dirty \cup links
    <3>1. Pend' \subseteq Pend
      BY <2>1, <2>3 DEF Pend, Unsaved
    <3> QED
      BY <1>5, <2>1, <2>3, <3>1, FirstQuiet
  <2> QED
    BY <1>16, <2>2, <2>3 DEF Unwinding
<1>17. CASE Unnesting
  <2>1. stack # <<>> /\ Ends(TRUE) /\ Pend' \subseteq Pend /\ refused' = refused /\ committed' = committed
    BY <1>17 DEF Unnesting, Pend
  <2> QED
    BY <1>1, <1>3, <1>5, <2>1, FirstOKEnds
<1>18. CASE UNCHANGED vars
  <2>1. UNCHANGED <<refused, committed, stack, open, dirty, links>>
    BY <1>18 DEF vars, pendingVars, connVars, promiseVars
  <2>2. Pend' = Pend
    BY <1>18 DEF vars, pendingVars, connVars, Pend, Unsaved, Copied, At, Top, InLayers
  <2> QED
    BY <1>3, <1>5, <2>1, <2>2 DEF FirstOK, Deep
<1> QED
  BY <1>6, <1>7, <1>8, <1>9, <1>10, <1>11, <1>12, <1>13, <1>14, <1>15, <1>16, <1>17, <1>18, StepKinds, Zenon

\* A transaction() that rejects has saved nothing, and nothing of it is saved
\* later, by a call that would find it pending: BEGIN and ROLLBACK work, no
\* handler throws after the COMMIT, and rollback() is not called outside of a
\* transaction where ROLLBACK is an error there (OrmSession.rollback, transaction).
\* A COMMIT may fail; on a pool it must have ended the transaction then, as the
\* connection is given back at once (pooled-executor-factory.ts:126).
THEOREM RejectedChangesAreUndone ==
    ASSUME Disciplined, CommitsEnd, AbandonsSafely
    PROVE  Spec => []RejectedIsUndone
<1>1. Init => Structure /\ UndoneOK
  <2> SUFFICES ASSUME Init PROVE Structure /\ UndoneOK
    OBVIOUS
  <2>1. stack = <<>> /\ refused = {} /\ committed = {}
    BY DEF Init
  <2>2. ApartOK /\ FirstOK
    BY <2>1 DEF ApartOK, FirstOK, Deep
  <2> QED
    BY <2>2, InitAnswers DEF UndoneOK
<1>2. Structure /\ UndoneOK /\ [Next]_vars => (Structure /\ UndoneOK)'
  BY StructureStep, RefusedStaysApart
<1>3. Structure /\ UndoneOK => RejectedIsUndone
  <2> SUFFICES ASSUME Structure, UndoneOK, Undoable PROVE refused \cap committed = {}
    BY DEF RejectedIsUndone, Undone
  <2>1. setup \in Setups
    BY DEF Structure, Base, FieldsOK
  <2>2. Sure
    BY <2>1 DEF Sure, AbandonsSafely, UserCalls
  <2> QED
    BY <2>2 DEF UndoneOK, ApartOK
<1> QED
  BY <1>1, <1>2, <1>3, PTL DEF Spec
-----------------------------------------------------------------------------
(* The session implements AtomicWork.tla                                       *)

\* The outermost transaction is bound to be undone, with all it answers for.
Doomed == /\ stack # <<>> /\ stack[1].kind \in {"outer", "commit"}
          /\ rollbackOnly \/ stack[1].pc = "undo"
Lost   == IF Doomed THEN stack[1].made ELSE {}
Told   == committed \cup refused \cup dropped
Known  == Told \cup Pend \cup Lost

\* No change is forgotten, and none that was dropped is pending again.
SettledOK == Transactions /\ Sure => dropped \cap Pend = {} /\ 1..made \subseteq Known

\* Only user code flushes outside of a transaction.
FlushOK == stack # <<>> /\ stack[1].kind = "flush" => "flush" \in UserCalls

\* What is lost stays lost in a call that goes on.
LEMMA LostGoesOn ==
    ASSUME StackOK, ShapeOK, stack # <<>>, NEW point, NEW todo, GoesOn(point, todo),
           rollbackOnly => rollbackOnly', Top.pc # "undo"
    PROVE  Lost \subseteq Lost'
<1>1. stack' # <<>> /\ stack'[1].kind = stack[1].kind /\ stack'[1].made = stack[1].made
  BY FirstGoesOn
<1>2. stack[1].pc # "undo"
  <2>1. Top = stack[Len(stack)] /\ (Len(stack) > 1 => stack[1].pc = "body")
    BY ShapeFacts
  <2> QED
    BY <2>1, OneOrMore
<1>3. Doomed => Doomed'
  BY <1>1, <1>2 DEF Doomed
<1> QED
  BY <1>1, <1>3 DEF Lost

\* It stays lost when a call that is not the outermost is over.
LEMMA LostEnds ==
    ASSUME StackOK, ShapeOK, stack # <<>>, NEW failed \in BOOLEAN, Ends(failed), Len(stack) > 1,
           rollbackOnly => rollbackOnly'
    PROVE  Lost \subseteq Lost'
<1>1. /\ stack' # <<>> /\ stack'[1].kind = stack[1].kind /\ stack'[1].made = stack[1].made
      /\ stack'[1].pc = stack[1].pc
  BY FirstEnds
<1>2. Doomed => Doomed'
  BY <1>1 DEF Doomed
<1> QED
  BY <1>1, <1>2 DEF Lost

\* A transaction with a try block is run by an outermost call, which answers for
\* all that is pending.
LEMMA FirstAnswers ==
    ASSUME StackOK, ShapeOK, AnswersOK, stack # <<>>, Top.kind \in {"outer", "inner", "commit"}
    PROVE  stack[1].kind \in {"outer", "commit"} /\ Pend \subseteq stack[1].made
<1>1. /\ 1 \in 1..Len(stack) /\ Top = stack[Len(stack)]
      /\ Top.kind \in {"outer", "commit"} => Len(stack) = 1
      /\ Top.kind = "inner" => Deep
  BY ShapeFacts
<1>2. stack[1].kind \in {"outer", "commit"}
  BY <1>1 DEF Deep
<1>3. AnswerOK(stack[1])
  BY <1>1 DEF AnswersOK
<1> QED
  BY <1>2, <1>3 DEF AnswerOK

\* Every step keeps the flushes outside of transactions where they are allowed.
LEMMA FlushStaysOutside ==
    ASSUME Disciplined, Structure, FlushOK, [Next]_vars
    PROVE  FlushOK'
<1>1. StackOK /\ ShapeOK /\ setup' = setup
  BY StepKinds DEF Structure, Base, FrameworkOK
<1>2. UserCalls' = UserCalls
  BY <1>1 DEF UserCalls
<1>3. ASSUME stack' = <<>> \/ (stack # <<>> /\ stack'[1].kind = stack[1].kind) PROVE FlushOK'
  BY <1>2, <1>3 DEF FlushOK
<1>4. ASSUME stack # <<>>, NEW point, NEW todo, GoesOn(point, todo) PROVE FlushOK'
  BY <1>1, <1>3, <1>4, FirstGoesOn
<1>5. ASSUME stack # <<>>, NEW failed \in BOOLEAN, Ends(failed) PROVE FlushOK'
  BY <1>1, <1>3, <1>5, FirstEnds
<1>6. CASE Making
  <2>1. Marks
    BY <1>6 DEF Making
  <2>2. CASE stack = <<>>
    <3>1. Len(stack') = 0
      BY <2>1, <2>2 DEF Marks
    <3>2. stack' \in Seq(Frames)
      BY BaseStep DEF Structure, Base, StackOK
    <3>3. stack' = <<>>
      BY <3>1, <3>2
    <3> QED
      BY <1>3, <3>3
  <2>3. CASE stack # <<>>
    <3>1. 1 \in 1..Len(stack)
      BY <1>1, <2>3, ShapeFacts
    <3> QED
      BY <1>3, <2>1, <2>3, <3>1 DEF Marks
  <2> QED
    BY <2>2, <2>3
<1>7. CASE Calling
  <2>1. PICK kind, point, sp, todo : Begins(kind, point, sp, todo)
    BY <1>7 DEF Calling
  <2>2. stack # <<>> => stack'[1] = stack[1]
    BY <1>1, <2>1, FirstBegins
  <2>3. stack = <<>> /\ stack'[1].kind = "flush" => "flush" \in UserCalls
    BY <1>7 DEF Calling
  <2> QED
    BY <1>2, <1>3, <2>2, <2>3 DEF FlushOK
<1>8. CASE Forgetting \/ Breaking \/ Unwinding
  BY <1>3, <1>8 DEF Forgetting, Breaking, Unwinding
<1>9. CASE Going
  BY <1>4, <1>9 DEF Going
<1>10. CASE Failing
  BY <1>4, <1>10 DEF Failing
<1>11. CASE Writing
  BY <1>4, <1>11 DEF Writing
<1>12. CASE Committing
  BY <1>4, <1>12 DEF Committing
<1>13. CASE Yielding
  BY <1>5, <1>13 DEF Yielding
<1>14. CASE Returning
  BY <1>5, <1>14 DEF Returning
<1>15. CASE Unnesting
  BY <1>5, <1>15 DEF Unnesting
<1>16. CASE UNCHANGED vars
  <2>1. stack' = stack
    BY <1>16 DEF vars
  <2> QED
    BY <1>3, <2>1
<1> QED
  BY <1>6, <1>7, <1>8, <1>9, <1>10, <1>11, <1>12, <1>13, <1>14, <1>15, <1>16, StepKinds, Zenon

\* Every step keeps track of every change.
LEMMA SettledStep ==
    ASSUME Disciplined, Structure, AnswersOK, UndoneOK, SettledOK, [Next]_vars
    PROVE  SettledOK'
<1>1. StackOK /\ ShapeOK /\ ChangesOK /\ FieldsOK /\ setup' = setup
  BY StepKinds DEF Structure, Base, FrameworkOK
<1>2. (Transactions /\ Sure)' => Transactions /\ Sure
  BY <1>1 DEF Transactions, Sure, Undoable, Tidy, Pooled, Faults, UserCalls
<1>3. SUFFICES ASSUME Transactions, Sure
               PROVE  (dropped \cap Pend = {} /\ 1..made \subseteq Known)'
  BY <1>2 DEF SettledOK
<1>4. dropped \cap Pend = {} /\ 1..made \subseteq Known /\ Undoable
  BY <1>3 DEF SettledOK, Sure
<1>5. ASSUME made' = made, Known \subseteq Known', dropped' = dropped, Pend' \subseteq Pend
      PROVE  (dropped \cap Pend = {} /\ 1..made \subseteq Known)'
  BY <1>4, <1>5
<1>6. stack = <<>> => Lost = {}
  BY DEF Lost, Doomed
<1>7. CASE Making
  <2>1. /\ made' = made + 1 /\ Unsaved' = Unsaved \cup {made'} /\ InLayers' = InLayers
        /\ UNCHANGED <<committed, refused, dropped, rollbackOnly>> /\ Marks
        /\ \A i \in 1..Len(stack) : stack'[i].made = stack[i].made \cup {made'}
    BY <1>7 DEF Making
  <2>2. Pend' = Pend \cup {made'} /\ Told' = Told
    BY <2>1 DEF Pend, Told
  <2>3. made \in Nat /\ dropped \subseteq 1..made
    BY <1>1, MadeChanges DEF ChangesOK
  <2>4. made' \notin dropped /\ 1..made' = (1..made) \cup {made'}
    BY <2>1, <2>3
  <2>5. Lost \subseteq Lost'
    <3>1. CASE stack = <<>>
      BY <1>6, <3>1
    <3>2. CASE stack # <<>>
      <4>1. 1 \in 1..Len(stack)
        BY <1>1, <3>2, ShapeFacts
      <4>2. /\ stack'[1].kind = stack[1].kind /\ stack'[1].pc = stack[1].pc
            /\ stack'[1].made = stack[1].made \cup {made'}
        BY <2>1, <4>1 DEF Marks
      <4>3. stack' # <<>>
        BY <2>1, <4>1 DEF Marks
      <4>4. Doomed => Doomed'
        BY <2>1, <4>2, <4>3 DEF Doomed
      <4> QED
        BY <4>2, <4>4 DEF Lost
    <3> QED
      BY <3>1, <3>2
  <2>6. Known \subseteq Known' /\ made' \in Known'
    BY <2>2, <2>5 DEF Known
  <2>7. (dropped \cap Pend = {})'
    BY <1>4, <2>1, <2>2, <2>4
  <2>8. (1..made \subseteq Known)'
    BY <1>4, <2>4, <2>6
  <2> QED
    BY <2>7, <2>8
<1>8. CASE Calling
  <2>1. PICK kind, point, sp, todo : Begins(kind, point, sp, todo)
    BY <1>8 DEF Calling
  <2>2. /\ Pend' = Pend /\ Told' = Told /\ made' = made /\ dropped' = dropped
        /\ stack # <<>> => rollbackOnly' = rollbackOnly
    BY <1>8 DEF Calling, Steady, Pend, Told
  <2>3. Lost \subseteq Lost'
    <3>1. stack' # <<>> /\ (stack # <<>> => stack'[1] = stack[1])
      BY <1>1, <2>1, FirstBegins
    <3> QED
      BY <1>6, <2>2, <3>1 DEF Lost, Doomed
  <2> QED
    BY <1>5, <2>2, <2>3 DEF Known
<1>9. CASE Forgetting
  <2>1. /\ stack = <<>> /\ InLayers = {} /\ InLayers' = {} /\ UNCHANGED <<committed, made, dropped>>
        /\ refused' = refused \cup Unsaved /\ Unsaved' = {}
    BY <1>3, <1>9 DEF Forgetting
  <2>2. Pend = Unsaved /\ Pend' = {} /\ Told' = Told \cup Unsaved
    BY <2>1 DEF Pend, Told
  <2> QED
    BY <1>5, <1>6, <2>1, <2>2 DEF Known
<1>10. CASE Going
  <2>1. PICK point, todo : point # "undo" /\ GoesOn(point, todo)
    BY <1>10 DEF Going
  <2>2. /\ stack # <<>> /\ Top.pc # "undo" /\ Pend' = Pend /\ Told' = Told /\ made' = made /\ dropped' = dropped
        /\ rollbackOnly' = rollbackOnly
    BY <1>10 DEF Going, Steady, Pend, Told
  <2>3. Lost \subseteq Lost'
    BY <1>1, <2>1, <2>2, LostGoesOn
  <2> QED
    BY <1>5, <2>2, <2>3 DEF Known
<1>11. CASE Failing
  <2>1. /\ stack # <<>> /\ Top.kind \in {"outer", "inner", "commit"} /\ Top.pc # "undo" /\ GoesOn("undo", {})
        /\ rollbackOnly => rollbackOnly'
        /\ Top.kind = "inner" => rollbackOnly'
        /\ Pend' \subseteq Pend /\ Told' = Told /\ made' = made /\ dropped' = dropped
    BY <1>11 DEF Failing, Pend, Told
  <2>2. Lost \subseteq Lost'
    BY <1>1, <2>1, LostGoesOn
  <2>3. stack[1].kind \in {"outer", "commit"} /\ Pend \subseteq stack[1].made
    BY <1>1, <2>1, FirstAnswers
  <2>4. /\ stack' # <<>> /\ stack'[1].kind = stack[1].kind /\ stack'[1].made = stack[1].made
        /\ Len(stack) = 1 => stack'[1].pc = "undo"
    BY <1>1, <2>1, FirstGoesOn
  <2>5. Len(stack) > 1 => Top.kind = "inner"
    BY <1>1, <2>1, ShapeFacts
  <2>6. Doomed'
    BY <1>1, <2>1, <2>3, <2>4, <2>5, OneOrMore DEF Doomed
  <2>7. Pend \subseteq Lost'
    BY <2>3, <2>4, <2>6 DEF Lost
  <2> QED
    BY <1>5, <2>1, <2>2, <2>7 DEF Known
<1>12. CASE Yielding
  <2>1. /\ stack # <<>> /\ Top.kind \in {"bare", "flush"} /\ Ends(TRUE)
        /\ UNCHANGED <<committed, made, refused, rollbackOnly>> /\ InLayers' = InLayers
        /\ Top.kind = "flush" => dropped' = dropped /\ Unsaved' = Unsaved
    BY <1>12 DEF Yielding
  <2>2. Top.kind = "flush"
    BY <1>1, <1>3, <2>1, ShapeFacts DEF Fits
  <2>3. Lost \subseteq Lost'
    <3>1. CASE Len(stack) = 1
      <4>1. stack[1].kind = "flush"
        BY <2>2, <3>1 DEF Top
      <4> QED
        BY <4>1 DEF Lost, Doomed
    <3>2. CASE Len(stack) > 1
      BY <1>1, <2>1, <3>2, LostEnds
    <3> QED
      BY <1>1, <2>1, <3>1, <3>2, OneOrMore
  <2>4. Pend' = Pend /\ Told' = Told /\ dropped' = dropped
    BY <2>1, <2>2 DEF Pend, Told
  <2> QED
    BY <1>5, <2>1, <2>3, <2>4 DEF Known
<1>13. CASE Breaking
  BY <1>4, <1>13 DEF Breaking
<1>14. CASE Returning
  <2>1. PICK failed \in BOOLEAN : Ends(failed)
    BY <1>14 DEF Returning
  <2>2. /\ stack # <<>> /\ Pend' = Pend /\ Told' = Told /\ made' = made /\ dropped' = dropped
        /\ Len(stack) > 1 => rollbackOnly' = rollbackOnly
        /\ Len(stack) = 1 => Top.kind = "flush" \/ (~rollbackOnly /\ Top.pc # "undo")
    BY <1>14 DEF Returning, Steady, Pend, Told
  <2>3. Lost \subseteq Lost'
    <3>1. CASE Len(stack) = 1
      <4>1. Top = stack[1]
        BY <3>1 DEF Top
      <4> QED
        BY <2>2, <3>1, <4>1 DEF Lost, Doomed
    <3>2. CASE Len(stack) > 1
      BY <1>1, <2>1, <2>2, <3>2, LostEnds
    <3> QED
      BY <1>1, <2>2, <3>1, <3>2, OneOrMore
  <2> QED
    BY <1>5, <2>2, <2>3 DEF Known
<1>15. CASE Writing
  <2>1. PICK todo : GoesOn(Top.pc, todo)
    BY <1>15 DEF Writing
  <2>2. /\ stack # <<>> /\ Top.pc # "undo" /\ made' = made /\ refused' = refused /\ dropped' = dropped
        /\ rollbackOnly' = rollbackOnly
    BY <1>15 DEF Writing
  <2>3. PICK c \in Unsaved :
           \/ InLayers' = InLayers \cup {c} /\ Unsaved' = Unsaved \ {c} /\ committed' = committed
           \/ InLayers' = {} /\ InLayers = {} /\ Unsaved' = Unsaved \ {c} /\ committed' = committed \cup {c}
           \/ InLayers' = InLayers /\ Unsaved' = Unsaved /\ committed' = committed
    BY <1>15 DEF Writing
  <2>4. Pend' \subseteq Pend /\ Told \cup Pend \subseteq Told' \cup Pend'
    BY <2>2, <2>3 DEF Pend, Told
  <2>5. Lost \subseteq Lost'
    BY <1>1, <2>1, <2>2, LostGoesOn
  <2> QED
    BY <1>5, <2>2, <2>4, <2>5 DEF Known
<1>16. CASE Committing
  <2>1. /\ stack # <<>> /\ Len(stack) = 1 /\ Top.pc = "end" /\ ~rollbackOnly
        /\ committed' = committed \cup InLayers /\ InLayers' = {} /\ Unsaved = {} /\ Unsaved' = {}
        /\ UNCHANGED <<made, refused, dropped>>
    BY <1>16 DEF Committing
  <2>2. Lost = {}
    BY <2>1 DEF Lost, Doomed, Top
  <2>3. Pend' = {} /\ Told' = Told \cup Pend
    BY <2>1 DEF Pend, Told
  <2> QED
    BY <1>5, <2>1, <2>2, <2>3 DEF Known
<1>17. CASE Unwinding
  <2>1. /\ stack # <<>> /\ Len(stack) = 1 /\ Top.pc = "undo"
        /\ InLayers' = {} /\ UNCHANGED <<committed, made>> /\ Top.kind \in {"outer", "commit"}
    BY <1>17 DEF Unwinding
  <2>2. Top = stack[1]
    BY <2>1 DEF Top
  <2>3. Pend \subseteq Top.made /\ Lost \subseteq Top.made
    BY <1>1, <2>1, <2>2, FirstAnswers DEF Lost
  <2>4. Unsaved' \subseteq Pend /\ Pend' = Unsaved'
    BY <1>17, <2>1 DEF Unwinding, Pend, Unsaved
  <2>5. CASE refused' = refused \cup Top.made /\ dropped' = dropped
    <3>1. Told' = Told \cup Top.made
      BY <2>1, <2>5 DEF Told
    <3> QED
      BY <1>5, <2>1, <2>3, <2>4, <2>5, <3>1 DEF Known
  <2>6. CASE refused' = refused /\ dropped' = dropped \cup (Top.made \ (Unsaved' \cup committed))
    <3>1. Told \cup Top.made \subseteq Told' \cup Pend'
      BY <2>1, <2>4, <2>6 DEF Told
    <3>2. Known \subseteq Known'
      BY <2>3, <3>1 DEF Known
    <3>3. (dropped \cap Pend = {})'
      BY <1>4, <2>4, <2>6
    <3> QED
      BY <1>4, <2>1, <3>2, <3>3
  <2> QED
    BY <1>17, <2>5, <2>6 DEF Unwinding
<1>18. CASE Unnesting
  <2>1. /\ stack # <<>> /\ Len(stack) > 1 /\ Deep /\ Ends(TRUE) /\ rollbackOnly /\ rollbackOnly'
        /\ Pend' \subseteq Pend /\ Told' = Told /\ made' = made /\ dropped' = dropped
    BY <1>18 DEF Unnesting, Pend, Told
  <2>2. Lost \subseteq Lost'
    BY <1>1, <2>1, LostEnds
  <2>3. Lost = stack[1].made
    BY <2>1 DEF Lost, Doomed, Deep
  <2>4. Pend \subseteq stack[1].made
    <3>1. 1 \in 1..Len(stack)
      BY <1>1, <2>1, ShapeFacts
    <3>2. AnswerOK(stack[1])
      BY <3>1 DEF AnswersOK
    <3> QED
      BY <2>1, <3>2 DEF AnswerOK, Deep
  <2> QED
    BY <1>5, <2>1, <2>2, <2>3, <2>4 DEF Known
<1>19. CASE UNCHANGED vars
  <2>1. UNCHANGED <<stack, rollbackOnly, committed, refused, dropped, made>>
    BY <1>19 DEF vars, sessionVars, promiseVars
  <2>2. Pend' = Pend
    BY <1>19 DEF vars, pendingVars, connVars, Pend, Unsaved, Copied, At, Top, InLayers
  <2>3. Known' = Known
    BY <2>1, <2>2 DEF Known, Told, Lost, Doomed
  <2> QED
    BY <1>5, <2>1, <2>2, <2>3
<1> QED
  BY <1>7, <1>8, <1>9, <1>10, <1>11, <1>12, <1>13, <1>14, <1>15, <1>16, <1>17, <1>18, <1>19, StepKinds, Zenon

\* What AtomicWork.tla sees of a session with transactions.
Open == (1..made) \ Told

\* The changes that are not decided on are made one by one, saved together, or
\* given up: a statement outside of a transaction would be a save of its own.
LEMMA OpenStep ==
    ASSUME Disciplined, Structure, AnswersOK, UndoneOK, SettledOK, FlushOK, Transactions, Sure,
           "flush" \notin UserCalls, [Next]_vars
    PROVE  \/ /\ committed' = committed /\ Open' = Open \cup {made'}
              /\ made' \in 1..MaxChanges /\ made' \notin committed \cup Open
           \/ committed' = committed \cup Open /\ Open' = {}
           \/ committed' = committed /\ Open' \subseteq Open
<1>1. StackOK /\ ShapeOK /\ ChangesOK /\ FieldsOK /\ ChangesOK' /\ Undoable
  BY BaseStep DEF Structure, Base, FrameworkOK, Sure
<1>2. ASSUME committed' = committed, made' = made, refused \subseteq refused', dropped \subseteq dropped'
      PROVE  committed' = committed /\ Open' \subseteq Open
  BY <1>2 DEF Open, Told
<1>3. CASE Making
  <2>1. made' = made + 1 /\ UNCHANGED <<committed, refused, dropped>>
    BY <1>3 DEF Making
  <2>2. made \in Nat /\ Told \subseteq 1..made /\ 1..made' \subseteq 1..MaxChanges /\ made' \in Nat
    <3>1. made \in Nat /\ Told \subseteq 1..made
      BY <1>1, MadeChanges DEF ChangesOK, Told
    <3>2. MaxChanges \in Nat /\ made' \in 0..MaxChanges
      BY <1>1, SessionAssumption DEF ChangesOK
    <3> QED
      BY <3>1, <3>2
  <2>3. made' \notin 1..made /\ made' \in 1..made' /\ 1..made' = (1..made) \cup {made'}
    BY <2>1, <2>2
  <2>4. Told' = Told
    BY <2>1 DEF Told
  <2>5. Open' = Open \cup {made'} /\ made' \notin committed \cup Open
    BY <2>2, <2>3, <2>4 DEF Open, Told
  <2> QED
    BY <2>1, <2>2, <2>3, <2>5
<1>4. CASE Committing
  <2>1. /\ stack # <<>> /\ Len(stack) = 1 /\ Top.pc = "end" /\ ~rollbackOnly
        /\ committed' = committed \cup InLayers /\ Unsaved = {}
        /\ UNCHANGED <<made, refused, dropped>>
    BY <1>4 DEF Committing
  <2>2. Lost = {} /\ Pend = InLayers
    BY <2>1 DEF Lost, Doomed, Top, Pend
  <2>3. 1..made \subseteq Told \cup InLayers /\ Told \cap InLayers = {} /\ InLayers \subseteq 1..made
    <3>1. 1..made \subseteq Told \cup InLayers /\ dropped \cap InLayers = {}
      BY <2>2 DEF SettledOK, Known
    <3>2. refused \cap InLayers = {} /\ InLayers \cap committed = {}
      BY <2>2 DEF UndoneOK, ApartOK
    <3>3. InLayers \subseteq 1..made
      BY DEF Structure, Base, LayersOK, InLayers
    <3> QED
      BY <3>1, <3>2, <3>3 DEF Told
  <2>4. Open = InLayers
    BY <2>3 DEF Open
  <2>5. Told' = Told \cup InLayers
    BY <2>1 DEF Told
  <2>6. Open' = {}
    BY <2>1, <2>3, <2>5 DEF Open
  <2> QED
    BY <2>1, <2>4, <2>6
<1>5. CASE Writing
  <2>1. stack # <<>> /\ UNCHANGED <<made, refused, dropped>>
    BY <1>5 DEF Writing
  <2>2. stack[1].kind # "flush"
    BY <2>1 DEF FlushOK
  <2>3. committed' = committed
    BY <1>5, <2>2 DEF Writing
  <2> QED
    BY <1>2, <2>1, <2>3
<1>6. CASE Breaking
  BY <1>1, <1>6 DEF Breaking
<1>7. CASE Calling \/ Going \/ Returning
  BY <1>2, <1>7 DEF Calling, Going, Returning, Steady
<1>8. CASE Forgetting \/ Failing \/ Unnesting
  BY <1>2, <1>8 DEF Forgetting, Failing, Unnesting
<1>9. CASE Yielding
  <2>1. /\ UNCHANGED <<committed, made, refused>> /\ Top.kind \in {"bare", "flush"}
        /\ Top.kind = "bare" => dropped' = dropped \cup (Top.made \ (Unsaved' \cup committed))
        /\ Top.kind = "flush" => dropped' = dropped
    BY <1>9 DEF Yielding
  <2> QED
    BY <1>2, <2>1
<1>10. CASE Unwinding
  <2>1. UNCHANGED <<committed, made>> /\ refused \subseteq refused' /\ dropped \subseteq dropped'
    BY <1>10 DEF Unwinding
  <2> QED
    BY <1>2, <2>1
<1>11. CASE UNCHANGED vars
  BY <1>2, <1>11 DEF vars, promiseVars
<1> QED
  BY <1>3, <1>4, <1>5, <1>6, <1>7, <1>8, <1>9, <1>10, <1>11, StepKinds, Zenon

\* A step of the session is a step of AtomicWork.tla, or leaves what it sees alone.
LEMMA WorkStep ==
    ASSUME Disciplined, AbandonsSafely, Structure, AnswersOK, UndoneOK, SettledOK, FlushOK, [Next]_vars
    PROVE  [Work!Next]_(Work!vars)
<1>1. setup' = setup /\ setup \in Setups
  BY StepKinds DEF Structure, Base, FieldsOK
<1>2. Atomic' = Atomic
  BY <1>1 DEF Atomic, Transactions, Undoable, Tidy, Pooled, Faults, UserCalls
<1>3. CASE ~Atomic
  BY <1>2, <1>3 DEF Work!vars
<1>4. CASE Atomic
  <2>1. Transactions /\ Sure /\ "flush" \notin UserCalls
    BY <1>1, <1>4 DEF Atomic, Sure, AbandonsSafely, UserCalls
  <2>2. \/ /\ committed' = committed /\ Open' = Open \cup {made'}
           /\ made' \in 1..MaxChanges /\ made' \notin committed \cup Open
        \/ committed' = committed \cup Open /\ Open' = {}
        \/ committed' = committed /\ Open' \subseteq Open
    BY <2>1, OpenStep
  <2>3. Open = (1..made) \ (committed \cup refused \cup dropped)
    BY DEF Open, Told
  <2>4. Open' = ((1..made) \ (committed \cup refused \cup dropped))'
    BY DEF Open, Told
  <2>5. CASE /\ committed' = committed /\ Open' = Open \cup {made'}
             /\ made' \in 1..MaxChanges /\ made' \notin committed \cup Open
    <3>1. Work!Make(made')
      BY <1>2, <1>4, <2>3, <2>4, <2>5 DEF Work!Make
    <3> QED
      BY <2>5, <3>1 DEF Work!Next
  <2>6. CASE committed' = committed \cup Open /\ Open' = {}
    <3>1. Work!Save
      BY <1>2, <1>4, <2>3, <2>4, <2>6 DEF Work!Save
    <3> QED
      BY <3>1 DEF Work!Next
  <2>7. CASE committed' = committed /\ Open' \subseteq Open
    <3>1. Work!GiveUp(Open \ Open')
      BY <1>2, <1>4, <2>3, <2>4, <2>7 DEF Work!GiveUp
    <3> QED
      BY <1>4, <2>3, <3>1 DEF Work!Next
  <2> QED
    BY <2>2, <2>5, <2>6, <2>7
<1> QED
  BY <1>3, <1>4

\* A session with transactions saves what AtomicWork.tla says: all of the changes
\* made since the last save, in one step, or none of them (OrmSession.commit,
\* transaction; runInTransaction), if BEGIN and ROLLBACK work, a COMMIT that fails
\* on a pool has ended its transaction, no handler throws and user code does not
\* flush outside of a transaction.
THEOREM SessionIsAtomic ==
    ASSUME Disciplined, CommitsEnd, AbandonsSafely
    PROVE  Spec => SavesAtomically
<1>1. Init => Structure /\ AnswersOK /\ UndoneOK /\ SettledOK /\ FlushOK /\ Work!Init
  <2> SUFFICES ASSUME Init PROVE Structure /\ AnswersOK /\ UndoneOK /\ SettledOK /\ FlushOK /\ Work!Init
    OBVIOUS
  <2>1. stack = <<>> /\ refused = {} /\ committed = {} /\ made = 0 /\ dropped = {}
    BY DEF Init
  <2>2. UndoneOK
    BY <2>1 DEF UndoneOK, ApartOK, FirstOK, Deep
  <2>3. 1..made = {}
    BY <2>1
  <2>4. SettledOK /\ FlushOK
    BY <2>1, <2>3 DEF SettledOK, FlushOK
  <2>5. Work!Init
    BY <2>1, <2>3 DEF Work!Init
  <2> QED
    BY <2>2, <2>4, <2>5, InitAnswers
<1>2. Structure /\ AnswersOK /\ UndoneOK /\ SettledOK /\ FlushOK /\ [Next]_vars
        => (Structure /\ AnswersOK /\ UndoneOK /\ SettledOK /\ FlushOK)'
  BY StructureStep, AnswersStep, RefusedStaysApart, SettledStep, FlushStaysOutside
<1>3. Structure /\ AnswersOK /\ UndoneOK /\ SettledOK /\ FlushOK /\ [Next]_vars => [Work!Next]_(Work!vars)
  BY WorkStep
<1> QED
  BY <1>1, <1>2, <1>3, PTL DEF Spec, SavesAtomically, Work!Spec
=============================================================================
