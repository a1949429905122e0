--------------------------- MODULE MCBamPackWork ---------------------------
EXTENDS BamPackWork, TLC

CONSTANTS b1, b2, b3, t1, t2

\* b2 is led by b1's leading transaction, b3 by its other one.
MCMembers == (b1 :> <<t1, t2>>) @@ (b2 :> <<t1>>) @@ (b3 :> <<t2>>)
MCTarget  == (b1 :> 2) @@ (b2 :> 3) @@ (b3 :> 3)
MCHash    == (b1 :> 1) @@ (b2 :> 2) @@ (b3 :> 1)

NameSymmetry == Permutations(Names)
=============================================================================
