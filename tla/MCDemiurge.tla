----------------------------- MODULE MCDemiurge -----------------------------
(* Model-checking instances of Demiurge; the .cfg files give the sets.     *)
EXTENDS Demiurge
=============================================================================
