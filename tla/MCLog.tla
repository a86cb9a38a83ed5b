------------------------------- MODULE MCLog --------------------------------
EXTENDS Log, TLC

\* Init picks a default block content, so only processes are interchangeable.
Symm == Permutations(Process)
=============================================================================
