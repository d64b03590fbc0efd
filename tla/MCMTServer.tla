----------------------------- MODULE MCMTServer -----------------------------
(* Model-checking instance of MTServer.                                    *)
EXTENDS MTServerStream, TLC

CONSTANTS c1, c2, c3

OneConn    == {c1}
ThreeConns == {c1, c2, c3}
Symmetry   == Permutations(ThreeConns)
=============================================================================
