--------------------------- MODULE MCModelBundle ---------------------------
(* Model-checking instance of ModelBundle.                                 *)
EXTENDS ModelBundle
CONSTANTS s1, s2, s3, p1, p2, en_de, en_zh, k1, k2
=============================================================================
