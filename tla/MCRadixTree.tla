---------------------------- MODULE MCRadixTree ----------------------------
(* Model-checking instances of RadixTree: prompts that branch inside an    *)
(* edge, that are prefixes of one another, and one that shares nothing.    *)
EXTENDS RadixTree

MCPrompt == {<<1>>, <<1, 2>>, <<1, 2, 1>>, <<1, 2, 2, 1>>, <<2, 2>>}

Interchangeable == Permutations(Handle)
=============================================================================
