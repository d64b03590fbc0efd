-------------------------- MODULE MCAlignAttStream --------------------------
(* Model-checking instance of AlignAttStream.                              *)
EXTENDS AlignAttStream
=============================================================================
