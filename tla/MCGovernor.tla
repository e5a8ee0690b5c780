----------------------------- MODULE MCGovernor -----------------------------
(* Model-checking instances of Governor; the .cfg files give the holds.    *)
EXTENDS Governor
=============================================================================
