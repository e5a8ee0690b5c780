---------------------------- MODULE MCStreamLru ----------------------------
(* Model-checking instances of StreamLru.                                  *)
EXTENDS StreamLru

Interchangeable == Permutations(Slice \ Oversized)
=============================================================================
