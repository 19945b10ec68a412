------------------------------- MODULE MCTree -------------------------------
EXTENDS TreeManager
=============================================================================
