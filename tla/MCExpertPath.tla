---------------------------- MODULE MCExpertPath ----------------------------
(* Model-checking instances of ExpertPath.                                 *)
EXTENDS ExpertPath
=============================================================================
