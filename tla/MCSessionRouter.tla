-------------------------- MODULE MCSessionRouter --------------------------
(* Model-checking instances of SessionRouter.                              *)
EXTENDS SessionRouter

CONSTANTS a1, a2, b1, c1, a, b, c
\* Three sessions for two slots, one of them with two requests.
MCKeyOf == [r \in Req |-> IF r = b1 THEN b ELSE IF r = c1 THEN c ELSE a]
=============================================================================
