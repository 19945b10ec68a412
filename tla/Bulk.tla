------------------------------- MODULE Bulk -------------------------------
(***************************************************************************)
(* Bulk operations of metal-orm (bulk/): the rows are cut into chunks,     *)
(* workers that share a counter take chunk after chunk and send the        *)
(* statements of each, in a transaction of the session or without one.     *)
(* The table remembers for each key which row was written last.            *)
(***************************************************************************)
EXTENDS Naturals, Sequences, FiniteSets, SequencesExt

CONSTANTS Keys,   \* of the table
          Setups  \* the calls: the operation, the keys of its rows, chunkSize, concurrency,
                  \* transactional, and as a bound how many statements and callbacks may fail

ASSUME BulkAssumption ==
  \A s \in Setups :
    /\ s.op \in {"insert", "upsert", "update", "updateWhere", "delete"}
    /\ s.rows \in Seq(Keys) /\ Len(s.rows) > 0
    /\ s.chunkSize \in Nat \ {0}  \* splitIntoChunks() refuses others
    /\ s.concurrency \in Nat /\ s.transactional \in BOOLEAN /\ s.failures \in Nat

VARIABLES setup,
          phase,      \* "new", "running", "resolved" or "rejected": what the caller sees
          nextIndex,  \* the counter of the workers
          workers,    \* what each worker is at: a chunk, how many statements of it are sent
          outcomes,   \* results: the chunk whose outcome is at an index, 0 if none
          open,       \* the session has a transaction
          table,      \* key -> the row written last, 0 if none
          tentative,  \* the table as the open transaction sees it
          failures

vars == <<setup, phase, nextIndex, workers, outcomes, open, table, tentative, failures>>

(***************************************************************************)
(* Chunks.                                                                 *)
(***************************************************************************)

Least(a, b) == IF a < b THEN a ELSE b

\* The chunks of n rows: first and last row.
SplitIntoChunks(n, size) ==
  [i \in 1..((n + size - 1) \div size) |-> [from |-> (i - 1) * size + 1, to |-> Least(i * size, n)]]

Chunks == SplitIntoChunks(Len(setup.rows), setup.chunkSize)

\* concurrency 1 and "sequential" (0 here) are one worker.
Limit == IF setup.concurrency > 1 THEN setup.concurrency ELSE 1
Workers == 1..Least(Limit, Len(Chunks))

\* bulkUpdate() sends a statement for each row, the others one for the chunk.
Statements(i) == IF setup.op = "update" THEN Chunks[i].to - Chunks[i].from + 1 ELSE 1
RowsOf(i, n)  == IF setup.op = "update" THEN {Chunks[i].from + n} ELSE Chunks[i].from..Chunks[i].to

Latest(S) == CHOOSE r \in S : \A q \in S : q <= r
Write(t, rows) ==
  [k \in Keys |-> LET mine == {r \in rows : setup.rows[r] = k} IN IF mine = {} THEN t[k] ELSE Latest(mine)]

Untouched == [k \in Keys |-> 0]
Free == [stage |-> "free", chunk |-> 0, sent |-> 0]

Init ==
  /\ setup \in Setups
  /\ phase = "new" /\ nextIndex = 1
  /\ workers = [w \in Workers |-> Free]
  /\ outcomes = [i \in 1..Len(Chunks) |-> 0]
  /\ open = FALSE /\ table = Untouched /\ tentative = Untouched
  /\ failures = 0

(***************************************************************************)
(* The transaction around it.                                              *)
(***************************************************************************)

CanFail == failures < setup.failures
Fails   == failures' = failures + 1

Begin ==
  /\ phase = "new"
  /\ phase' = "running" /\ open' = setup.transactional /\ tentative' = table
  /\ UNCHANGED <<setup, nextIndex, workers, outcomes, table, failures>>

\* All workers have returned; the session flushes what else it has.
Returned(w) == workers[w].stage = "free" /\ nextIndex > Len(Chunks)

Resolve ==
  /\ phase = "running" /\ \A w \in Workers : Returned(w)
  /\ phase' = "resolved" /\ open' = FALSE
  /\ table' = IF open THEN tentative ELSE table
  /\ UNCHANGED <<setup, nextIndex, workers, outcomes, tentative, failures>>

CommitFails ==
  /\ phase = "running" /\ open /\ CanFail /\ \A w \in Workers : Returned(w)
  /\ phase' = "rejected" /\ open' = FALSE /\ Fails
  /\ UNCHANGED <<setup, nextIndex, workers, outcomes, table, tentative>>

\* A bug: the transaction is committed all the same.
RejectCommitted ==
  /\ phase = "running" /\ \E w \in Workers : workers[w].stage = "dead"
  /\ phase' = "rejected" /\ open' = FALSE
  /\ table' = IF open THEN tentative ELSE table
  /\ UNCHANGED <<setup, nextIndex, workers, outcomes, tentative, failures>>

\* Promise.all() rejects with the first worker that does, and the transaction is rolled back.
Reject ==
  /\ phase = "running" /\ \E w \in Workers : workers[w].stage = "dead"
  /\ phase' = "rejected" /\ open' = FALSE
  /\ UNCHANGED <<setup, nextIndex, workers, outcomes, table, tentative, failures>>

(***************************************************************************)
(* A worker.  Nobody stops those that are left when one has rejected.      *)
(***************************************************************************)

\* A bug: the counter is advanced after the task.
TakeUncounted(w) ==
  /\ phase \in {"running", "rejected"} /\ workers[w].stage = "free" /\ nextIndex <= Len(Chunks)
  /\ workers' = [workers EXCEPT ![w] = [stage |-> "run", chunk |-> nextIndex, sent |-> 0]]
  /\ UNCHANGED <<setup, phase, nextIndex, outcomes, open, table, tentative, failures>>

Take(w) ==
  /\ phase \in {"running", "rejected"} /\ workers[w].stage = "free" /\ nextIndex <= Len(Chunks)
  /\ nextIndex' = nextIndex + 1
  /\ workers' = [workers EXCEPT ![w] = [stage |-> "run", chunk |-> nextIndex, sent |-> 0]]
  /\ UNCHANGED <<setup, phase, outcomes, open, table, tentative, failures>>

\* In a transaction all statements share its connection; else each has one of its own.
Send(w) ==
  /\ workers[w].stage = "run"
  /\ LET i == workers[w].chunk
         n == workers[w].sent
         rows == RowsOf(i, n)
     IN  /\ table' = IF open THEN table ELSE Write(table, rows)
         /\ tentative' = IF open THEN Write(tentative, rows) ELSE tentative
         /\ workers' = [workers EXCEPT ![w].sent = n + 1, ![w].stage = IF n + 1 = Statements(i) THEN "notify" ELSE "run"]
  /\ UNCHANGED <<setup, phase, nextIndex, outcomes, open, failures>>

SendFails(w) ==
  /\ workers[w].stage = "run" /\ CanFail /\ Fails
  /\ workers' = [workers EXCEPT ![w].stage = "dead"]
  /\ UNCHANGED <<setup, phase, nextIndex, outcomes, open, table, tentative>>

\* onChunkComplete() is awaited before the outcome counts.
Notify(w) ==
  /\ workers[w].stage = "notify"
  /\ outcomes' = [outcomes EXCEPT ![workers[w].chunk] = workers[w].chunk]
  /\ workers' = [workers EXCEPT ![w] = Free]
  /\ UNCHANGED <<setup, phase, nextIndex, open, table, tentative, failures>>

NotifyFails(w) ==
  /\ workers[w].stage = "notify" /\ CanFail /\ Fails
  /\ workers' = [workers EXCEPT ![w].stage = "dead"]
  /\ UNCHANGED <<setup, phase, nextIndex, outcomes, open, table, tentative>>

Work(w) == Take(w) \/ Send(w) \/ SendFails(w) \/ Notify(w) \/ NotifyFails(w)

Next == Begin \/ Resolve \/ CommitFails \/ Reject \/ \E w \in Workers : Work(w)

\* The statements of a worker, and what awaits them, come to an end.
Spec == Init /\ [][Next]_vars
        /\ WF_vars(Begin) /\ WF_vars(Resolve) /\ WF_vars(Reject)
        /\ \A w \in 1..3 : WF_vars(w \in Workers /\ Work(w))

(***************************************************************************)
(* Properties.                                                             *)
(***************************************************************************)

Indices == 1..Len(Chunks)
Tables == [Keys -> 0..Len(setup.rows)]

TypeOK ==
  /\ setup \in Setups /\ phase \in {"new", "running", "resolved", "rejected"}
  /\ nextIndex \in 1..Len(Chunks) + 1
  /\ workers \in [Workers -> [stage : {"free", "run", "notify", "dead"}, chunk : {0} \cup Indices, sent : Nat]]
  /\ outcomes \in [Indices -> {0} \cup Indices]
  /\ open \in BOOLEAN /\ table \in Tables /\ tentative \in Tables /\ failures \in Nat

After(n) == Write(Untouched, 1..n)

ProcessedRows ==
  FoldLeft(LAMBDA sum, i : sum + (IF i = 0 THEN 0 ELSE Chunks[i].to - Chunks[i].from + 1), 0, outcomes)

\* A call that resolves has written every row, and its counts are those of the rows, whoever has
\* taken which chunk; of rows with one key the last one counts, if the chunks went one by one.
ResolvedIsWhole ==
  phase = "resolved" =>
    /\ ProcessedRows = Len(setup.rows)
    /\ \A k \in Keys : (table[k] = 0) = (k \notin Range(setup.rows))
    /\ Limit = 1 => table = After(Len(setup.rows))

\* What a call that was rejected leaves behind: nothing, if it was in a transaction; else the
\* rows before the one that failed, if the chunks went one by one.
RejectedIsPrefix ==
  phase = "rejected" =>
    /\ setup.transactional => table = Untouched
    /\ Limit = 1 => \E n \in 0..Len(setup.rows) : table = After(n)

\* The answer is true: what was written, counted and reported is what the call says.
AnswersTruly == TypeOK /\ ResolvedIsWhole /\ RejectedIsPrefix

\* Every call is answered.
Answered == <>(phase \in {"resolved", "rejected"})

=============================================================================
