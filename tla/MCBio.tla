------------------------------- MODULE MCBio --------------------------------
EXTENDS Bio, TLC
\* Init orders the buffers and picks a content, so neither is interchangeable.
Symm == Permutations(Process)
=============================================================================
