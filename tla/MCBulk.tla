------------------------------- MODULE MCBulk -------------------------------
EXTENDS Bulk

Rows == {<<"a", "b", "a", "c", "b">>, <<"a", "b", "c", "d">>}

Call(ops, sizes, limits, transactional, most) ==
  [op : ops, rows : Rows, chunkSize : sizes, concurrency : limits, transactional : transactional, failures : {most}]

AllOps == {"insert", "upsert", "update", "updateWhere", "delete"}

\* Several workers and failures within a transaction are left out.
MCSetups ==
  Call(AllOps, {1, 2, 3}, {0, 1}, BOOLEAN, 2) \cup Call(AllOps, {1, 2, 3}, {2, 3}, {FALSE}, 2)
    \cup Call(AllOps, {1, 2}, {2, 3}, {TRUE}, 0)
=============================================================================
