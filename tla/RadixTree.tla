----------------------------- MODULE RadixTree -----------------------------
(***************************************************************************)
(* The radix trie of vitriol-cache (radix.rs) behind its C ABI (ffi.rs).   *)
(* A node is named by the tokens on its way from the root, so its parent   *)
(* is the longest other node above it and its edge label is the rest; node *)
(* indices and the free list are not visible to callers and are left out.  *)
(* The logical clock is kept as the order it induces: hits ranks the       *)
(* registered nodes by last_hit, 0 for the oldest; one match stamps all    *)
(* nodes on its way with the same clock.                                   *)
(***************************************************************************)
EXTENDS Naturals, FiniteSets, SequencesExt

CONSTANTS
    Prompt,       \* the token sequences callers insert and ask for
    Handle,       \* value handles; each names one state of the caller
    NoValue,      \* NO_VALUE
    UnpinsFirst,  \* the caller unpins a handle before it removes or replaces it
    OutCap        \* room for evicted handles in the caller's buffer (out_cap)

Token == UNION {ToSet(q) : q \in Prompt}

ASSUME RadixAssumption ==
    /\ Prompt \subseteq Seq(Token) /\ <<>> \notin Prompt
    /\ NoValue \notin Handle /\ OutCap \in Nat
    /\ UnpinsFirst \in BOOLEAN

VARIABLES
    node,     \* node path -> [value, pinned]; the root is <<>>
    hits,     \* registered node -> its rank by last_hit
    len,      \* RadixTree.len
    answer,   \* what the last insert, match or eviction returned
    owned,    \* history: handles pinned by the caller and not unpinned
    held      \* history: handles whose state the caller still keeps

vars == <<node, hits, len, answer, owned, held>>

Registered == {s \in DOMAIN node : node[s].value # NoValue}
Handles == {node[s].value : s \in Registered}
NodeOf(v) == CHOOSE s \in Registered : node[s].value = v

\* The node the walk of insert and match_prefix ends in: it follows whole
\* edges only.
Walk(seq) ==
    CHOOSE s \in DOMAIN node :
      /\ IsPrefix(s, seq)
      /\ \A t \in DOMAIN node : IsPrefix(t, seq) => Len(t) <= Len(s)

Below(s) == {t \in DOMAIN node : IsStrictPrefix(s, t)}

\* The child the walk finds under s for the next token of seq, if any.
NextChild(s, seq) ==
    {c \in Below(s) : /\ c[Len(s) + 1] = seq[Len(s) + 1]
                      /\ \A t \in Below(s) : IsPrefix(t, c) => t = c}

\* The ranks of clock readings: only their order is kept.
Ranked(clock) ==
    [s \in DOMAIN clock |->
       Cardinality({clock[t] : t \in {u \in DOMAIN clock : clock[u] < clock[s]}})]

\* last_hit of the nodes in S becomes the current clock, later than all others.
Stamp(order, S) ==
    Ranked([s \in DOMAIN order \cup S |->
              IF s \in S THEN Cardinality(DOMAIN order) ELSE order[s]])

Forget(order, S) == Ranked([s \in DOMAIN order \ S |-> order[s]])

Put(s, v) ==
    [t \in DOMAIN node \cup {s} |->
       IF t # s THEN node[t]
       ELSE IF s \in DOMAIN node THEN [node[s] EXCEPT !.value = v]
       ELSE [value |-> v, pinned |-> FALSE]]

\* Where insert splits the edge that seq leaves under s.
\* Mutant: the new branch is hung beside the old one.
SplitPoint_Never(s, seq) == {}

SplitPoint(s, seq) ==
    {LongestCommonPrefix({seq, c}) : c \in NextChild(s, seq)} \ DOMAIN node

Counted(old) == IF old = NoValue THEN len + 1 ELSE len

-----------------------------------------------------------------------------
\* insert: the sequence ends at a node, in a new leaf, or inside an edge.  An
\* edge is split where the sequence leaves it; a sequence that ends at the
\* split point leaves the loop there, without a registration.
Insert(seq, v) ==
    LET s == Walk(seq)
        old == IF s = seq THEN node[s].value ELSE NoValue
        split == IF s = seq THEN {} ELSE SplitPoint(s, seq)
    IN /\ v \notin Handles /\ v \notin held
       /\ UnpinsFirst => old \notin owned
       /\ answer' = [op |-> "insert", seq |-> seq, value |-> v, old |-> old]
       /\ held' = (held \ {old}) \cup {v}
       /\ owned' = owned \ {old}
       /\ IF seq \in split
            THEN /\ node' = Put(seq, NoValue)
                 /\ UNCHANGED <<hits, len>>
            ELSE /\ node' = [t \in DOMAIN Put(seq, v) \cup split |->
                               IF t \in split THEN [value |-> NoValue, pinned |-> FALSE]
                                              ELSE Put(seq, v)[t]]
                 /\ hits' = Stamp(hits, {seq})
                 /\ len' = Counted(old)

\* match_prefix: the deepest value on the way, every value on it refreshed.
Match(q) ==
    LET way == {s \in Registered : IsPrefix(s, q)}
        best == CHOOSE s \in way : \A t \in way : Len(t) <= Len(s)
    IN /\ hits' = Stamp(hits, way)
       /\ answer' = IF way = {} THEN [op |-> "match", value |-> NoValue, depth |-> 0]
                    ELSE [op |-> "match", value |-> node[best].value, depth |-> Len(best)]
       /\ UNCHANGED <<node, len, owned, held>>

TouchValue(v) ==
    /\ hits' = Stamp(hits, {NodeOf(v)})
    /\ UNCHANGED <<node, len, answer, owned, held>>

Pin(v) ==
    /\ node' = [node EXCEPT ![NodeOf(v)].pinned = TRUE]
    /\ owned' = owned \cup {v}
    /\ UNCHANGED <<hits, len, answer, held>>

Unpin(v) ==
    /\ node' = [node EXCEPT ![NodeOf(v)].pinned = FALSE]
    /\ owned' = owned \ {v}
    /\ UNCHANGED <<hits, len, answer, held>>

\* Mutant: the value of the removed node is not cleared.
Unlink_KeepsValue(gone) == node

\* unlink: drop the nodes in gone with their valueless, childless, unpinned
\* ancestors (the values of gone are already cleared).
Unlink(gone) ==
    LET bare(t) == /\ t \in gone \/ node[t].value = NoValue
                   /\ ~node[t].pinned
                   /\ \E g \in gone : IsPrefix(t, g)
        dead == {t \in DOMAIN node \ {<<>>} : \A u \in Below(t) \cup {t} : bare(u)}
    IN [t \in DOMAIN node \ dead |->
          IF t \in gone THEN [node[t] EXCEPT !.value = NoValue] ELSE node[t]]

RemoveValue(v) ==
    /\ UnpinsFirst => v \notin owned
    /\ node' = Unlink({NodeOf(v)})
    /\ hits' = Forget(hits, {NodeOf(v)})
    /\ len' = len - 1
    /\ owned' = owned \ {v}
    /\ held' = held \ {v}
    /\ UNCHANGED answer

\* remove of a handle the trie does not know: the caller drops a state whose
\* insert was not registered, or that was evicted without a report.
RemoveUnknown(v) ==
    /\ held' = held \ {v}
    /\ UNCHANGED <<node, hits, len, answer, owned>>

\* Mutant: pinned values are candidates too.
Loose_All == Registered

\* The candidates of evict_lru.
Loose == {s \in Registered : ~node[s].pinned}

\* vc_evict: at most OutCap of the evicted handles reach the caller, who drops
\* their states.
Report(max, gone) ==
    \E reported \in SUBSET gone :
      /\ Cardinality(reported) = Min({Cardinality(gone), OutCap})
      /\ held' = held \ reported
      /\ answer' = [op |-> "evict", max |-> max, gone |-> gone, reported |-> reported]

\* evict_lru: the least recently hit unpinned values go (ties by node index,
\* which is not modelled).
Evict(max) ==
    \E gone \in SUBSET Loose :
      /\ len - Cardinality(gone) <= max \/ gone = Loose
      /\ gone # {} => len - Cardinality(gone) >= max
      /\ \A s \in gone, t \in Loose \ gone : hits[s] <= hits[t]
      /\ Report(max, {node[s].value : s \in gone})
      /\ node' = Unlink(gone)
      /\ hits' = Forget(hits, gone)
      /\ len' = len - Cardinality(gone)
      /\ owned' = owned \ {node[s].value : s \in gone}

Init ==
    /\ node = [s \in {<<>>} |-> [value |-> NoValue, pinned |-> FALSE]]
    /\ hits = <<>> /\ len = 0
    /\ answer = [op |-> "none"]
    /\ owned = {} /\ held = {}

Next ==
    \/ \E s \in Prompt, v \in Handle : Insert(s, v)
    \/ \E s \in Prompt : Match(s)
    \/ \E v \in Handles : TouchValue(v) \/ Pin(v) \/ Unpin(v) \/ RemoveValue(v)
    \/ \E v \in held \ Handles : RemoveUnknown(v)
    \/ \E max \in 0 .. Cardinality(Handle) : Evict(max)

Spec == Init /\ [][Next]_vars

-----------------------------------------------------------------------------
(* Properties                                                              *)

\* Every node but the root lies on a prompt and carries one value and one pin flag, and len
\* never drops below zero, whatever insert, remove and evict_lru do to it.
TypeOK ==
    /\ \A s \in DOMAIN node \ {<<>>} : \E q \in Prompt : IsPrefix(s, q)
    /\ \A s \in DOMAIN node : node[s] \in [value : Handle \cup {NoValue}, pinned : BOOLEAN]
    /\ len \in Nat
    /\ owned \subseteq Handle /\ held \subseteq Handle

\* The trie is a radix trie: two children of a node never share their first
\* token (the per-node child maps would lose one of them), no dead branch is
\* left behind, and every handle names one node.
RadixShape ==
    /\ \A s, t \in DOMAIN node : LongestCommonPrefix({s, t}) \in DOMAIN node
    /\ \A s \in DOMAIN node \ {<<>>} :
         Below(s) # {} \/ node[s].value # NoValue \/ node[s].pinned
    /\ \A s, t \in Registered : node[s].value = node[t].value => s = t

\* len, and the order evict_lru chooses by, know exactly the registrations.
CountsAgree ==
    /\ len = Cardinality(Registered)
    /\ DOMAIN hits = Registered

\* However inserts, splits, removals, prunings and evictions follow each other,
\* the trie keeps its shape and its counts.
WellFormed == TypeOK /\ RadixShape /\ CountsAgree

\* A handle that match_prefix can return names a state the caller still keeps.
NoDanglingHandle == Handles \subseteq held

\* The map that the registered nodes stand for, and the index it is checked against.
Reg == [s \in Registered |-> node[s].value]
Index == INSTANCE PrefixIndex WITH reg <- Reg, pins <- owned

\* The trie implements the index: matches are deepest ancestors of what is
\* registered, evictions spare pinned handles and reach their goal.
ImplementsIndex == Index!Spec

\* radix.rs: "insert(&[t0..tN], v)   registers v as the state for that exact
\* sequence".
InsertRegisters ==
    [][answer' # answer /\ answer'.op = "insert"
         => answer'.seq \in DOMAIN node' /\ node'[answer'.seq].value = answer'.value]_vars

\* radix.rs, evict_lru: "Evict least-recently-hit unpinned registrations until
\* at most `max_entries` remain."
EvictReachesGoal ==
    [][answer' # answer /\ answer'.op = "evict"
         => len' <= answer'.max \/ Handles' \subseteq owned']_vars
=============================================================================
