----------------------------- MODULE MCArcCache -----------------------------
(* Model-checking instances of ArcCache.                                   *)
EXTENDS ArcCache, TLC

Interchangeable == Permutations(Key)
=============================================================================
