---------------------------- MODULE MCAofRewrite ----------------------------
\* Constants for model checking AofRewrite.
EXTENDS AofRewrite, TLC

CONSTANTS k1, k2, kid1, kid2

TwoKeys   == {k1, k2}
TwoKids   == {kid1, kid2}
ShortList == {<<>>, <<"x">>}

\* Neither keys nor children are told apart by anything but their names.
Symmetry == Permutations(TwoKeys) \cup Permutations(TwoKids)
=============================================================================
