------------------------------ MODULE MCSession ------------------------------
(***************************************************************************)
(* Instances of Session for TLC.                                           *)
(***************************************************************************)
EXTENDS Session

\* A pooled executor whose BEGIN, SAVEPOINT and ROLLBACK work; a COMMIT that fails
\* ends its transaction.
OnPool == [executor : {"pool", "strict pool"},
           faults : {{"sql", "hook", "commit", "release", "rollbackTo"}},
           calls : {{"abandon"}}]

\* A pooled executor whose COMMIT may fail and leave its transaction open.
OnBusyPool == [executor : {"pool", "strict pool"},
               faults : {{"sql", "busy"}},
               calls : {{"flush"}}]

\* A connection of its own whose BEGIN, SAVEPOINT and ROLLBACK work.
OnConnection == [executor : {"connection", "strict connection"},
                 faults : {{"sql", "hook", "commit", "busy", "release", "rollbackTo"}},
                 calls : {{}}]

\* A connection with or without transactions, where everything may throw.
OnWeakConnection == [executor : {"connection", "strict connection", "plain"},
                     faults : {{"begin", "sql", "hook", "commit", "busy", "rollback", "savepoint",
                                "release", "rollbackTo", "handler"}},
                     calls : {{"flush"}}]

MCSetups == OnPool \cup OnBusyPool \cup OnConnection \cup OnWeakConnection
=============================================================================
