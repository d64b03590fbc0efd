--------------------------- MODULE MCTextSession ---------------------------
(* Model-checking instance of TextSession.                                 *)
EXTENDS TextSession, TLC

CONSTANTS a, b, x, y

OneWord    == {<<>>, <<a>>}
TwoTexts   == {<<>>, <<a>>, <<b>>, <<a, b>>}
NoUnitDef  == -1
UnreadDef  == -2
ShortTexts == {<<x>>}
NoSeed     == {<<>>}
SomeSeeds  == {<<>>, <<x>>}
Symmetry   == Permutations({a, b}) \cup Permutations({x, y})
=============================================================================
