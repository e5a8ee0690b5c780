--------------------------- MODULE MCPromptCache ---------------------------
(* Model-checking instances of PromptCache.                                *)
EXTENDS PromptCache

CONSTANTS m1, m2
\* A prompt, and two that extend it and whose names collide: same count, same
\* ends.
MCPrompts == {<<1>>, <<1, 1, 1>>, <<1, 2, 1>>}
\* The process may come back with another model, a smaller window and no draft.
MCConfigs == {[model |-> m1, window |-> 3, draft |-> TRUE, keep |-> FALSE],
              [model |-> m2, window |-> 1, draft |-> FALSE, keep |-> TRUE]}
=============================================================================
