---------------------------- MODULE MCRelations ----------------------------
EXTENDS Relations

Setup(kinds, cascades, fresh, max) ==
  [kind : kinds, cascade : cascades, fresh : {fresh}, homes : {{"p1"}}, samePk : {FALSE}, max : {max}]

\* p2 is the like of p1, so only p1 has children at first.  Two changes
\* follow each other where the owners are in the database; one, where an owner is yet to be inserted.
MCSetups ==
  Setup({"hasMany"}, {"none"}, {"c2"}, 2)
    \cup Setup({"hasOne"}, {"remove"}, {"c2"}, 2)
    \cup Setup({"belongsTo"}, {"none"}, {"p2"}, 2)
    \cup Setup({"morphTo"}, {"none"}, {"p2", "c2"}, 2)
    \cup Setup({"hasMany", "belongsToMany"}, {"remove"}, {"p2", "c2"}, 1)
    \cup Setup({"morphMany", "morphOne"}, {"none"}, {"p2", "c2"}, 1)
=============================================================================
