---------------------------- MODULE PrefixIndex ----------------------------
(***************************************************************************)
(* What the prompt-cache index of vitriol-cache promises (the contract in  *)
(* the header of radix.rs), without a tree: a partial map from token       *)
(* sequences to handles, pins on handles, and for every question the       *)
(* deepest registered ancestor.                                            *)
(***************************************************************************)
EXTENDS Naturals, FiniteSets, SequencesExt

CONSTANTS Prompt, Handle, NoValue

VARIABLES reg,     \* registered sequences, each with its handle
          pins,    \* handles the caller has pinned
          answer   \* what the last insert, match or eviction returned

\* The registered ancestor of q with the most tokens.
Deepest(q) ==
    LET ancestors == {s \in DOMAIN reg : IsPrefix(s, q)}
    IN IF ancestors = {} THEN [op |-> "match", value |-> NoValue, depth |-> 0]
       ELSE LET best == CHOOSE s \in ancestors : \A t \in ancestors : Len(t) <= Len(s)
            IN [op |-> "match", value |-> reg[best], depth |-> Len(best)]

Handles == {reg[s] : s \in DOMAIN reg}

\* A new handle for a sequence; the replaced one is returned and no longer
\* the caller's to pin.  A sequence that only prolongs into registered ones
\* may stay unregistered.
AInsert ==
    \E s \in Prompt, v \in Handle \ Handles :
      LET old == IF s \in DOMAIN reg THEN reg[s] ELSE NoValue
      IN /\ answer' = [op |-> "insert", seq |-> s, value |-> v, old |-> old]
         /\ \/ /\ reg' = [t \in DOMAIN reg \cup {s} |-> IF t = s THEN v ELSE reg[t]]
               /\ pins' = pins \ {old}
            \/ /\ old = NoValue
               /\ \E t \in DOMAIN reg : IsStrictPrefix(s, t)
               /\ UNCHANGED <<reg, pins>>

AMatch == \E q \in Prompt : answer' = Deepest(q) /\ UNCHANGED <<reg, pins>>

APin == \E P \in SUBSET Handles : pins' = P /\ UNCHANGED <<reg, answer>>

ARemove ==
    \E v \in Handles :
      /\ reg' = [s \in {t \in DOMAIN reg : reg[t] # v} |-> reg[s]]
      /\ pins' = pins \ {v}
      /\ UNCHANGED answer

\* Only unpinned handles go, no more than needed, and all that were needed
\* unless only pinned ones are left.
AEvict ==
    \E max \in 0 .. Cardinality(Handle), gone \in SUBSET Handles :
      /\ gone \cap pins = {}
      /\ reg' = [s \in {t \in DOMAIN reg : reg[t] \notin gone} |-> reg[s]]
      /\ gone # {} => Cardinality(DOMAIN reg') >= max
      /\ Cardinality(DOMAIN reg') <= max \/ Handles \ gone \subseteq pins
      /\ answer'.op = "evict" /\ answer'.gone = gone
      /\ UNCHANGED pins

Init == reg = <<>> /\ pins = {} /\ answer = [op |-> "none"]

Next == AInsert \/ AMatch \/ APin \/ ARemove \/ AEvict

Spec == Init /\ [][Next]_<<reg, pins, answer>>
=============================================================================
