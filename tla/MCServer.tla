------------------------------ MODULE MCServer ------------------------------
(* Model-checking instances of Server.                                     *)
EXTENDS Server

CONSTANTS c1, c2, x
\* Two completions, the second on slot 0 as the session router asks for it, and
\* a request that may be a completion on slot 1, a slot restore, a resize or a read.
MCKinds == [r \in Req |-> IF r = x THEN {"COMPLETION", "SLOT_RESTORE", "CTX_RESIZE", "METRICS"}
                          ELSE {"COMPLETION"}]
MCWants == [r \in Req |-> CASE r = c1 -> NoSlot [] r = c2 -> 0 [] r = x -> 1]
MCActs == [r \in Req |-> IF r = x THEN 0 ELSE NoSlot]
=============================================================================
