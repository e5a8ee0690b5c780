-------------------------- MODULE MCSlotPersist --------------------------
(* Model-checking instances of SlotPersist.                              *)
EXTENDS SlotPersist
=============================================================================
