------------------------------ MODULE ArcCache ------------------------------
(***************************************************************************)
(* The ARC policy of vitriol-cache (arc.rs, vc_arc_* in ffi.rs): resident  *)
(* lists t1 and t2, ghost lists b1 and b2, the split point p, and keys     *)
(* pinned out of the policy's sight.  Lists have their front at index 1.   *)
(***************************************************************************)
EXTENDS Naturals, Sequences

CONSTANTS
    Key,          \* keys of the caller
    Capacity,     \* capacity.max(1)
    NoKey,        \* no victim
    PairedUnpins, \* the caller unpins only keys it has pinned
    ListBound     \* bound: unpins are not repeated past this length of t1

ASSUME ArcAssumption ==
    /\ Capacity \in Nat \ {0}
    /\ NoKey \notin Key
    /\ PairedUnpins \in BOOLEAN
    /\ ListBound \in Nat

VARIABLES t1, t2, b1, b2, p, pinned,
          victim   \* what the last call returned; NoKey for all but touch

arc == <<t1, t2, b1, b2, p, pinned, victim>>

Elems(list) == {list[i] : i \in DOMAIN list}
PushFront(key, list) == <<key>> \o list
PopBack(list) == SubSeq(list, 1, Len(list) - 1)
Back(list) == list[Len(list)]
MinOf(a, b) == IF a <= b THEN a ELSE b

\* list_remove: the first occurrence goes.
ListRemove(list, key) ==
    IF key \notin Elems(list) THEN list
    ELSE LET pos == CHOOSE i \in DOMAIN list :
                      list[i] = key /\ \A j \in 1 .. i - 1 : list[j] # key
         IN [i \in 1 .. Len(list) - 1 |-> IF i < pos THEN list[i] ELSE list[i + 1]]

\* A ghost list after one more eviction, cut at the capacity.
Ghost(list, key) ==
    IF Len(list) < Capacity THEN PushFront(key, list)
                            ELSE PopBack(PushFront(key, list))

-----------------------------------------------------------------------------
\* replace: the new lists and the victim; g1 and g2 are the ghost lists left
\* by the ghost hit, q the adapted split point.
Replace(x_in_b2, g1, g2, q) ==
    LET fromT1 == Len(t1) >= 1 /\ (Len(t1) > q \/ (x_in_b2 /\ Len(t1) = q))
    IN IF Len(t1) + Len(t2) < Capacity
         THEN [t1 |-> t1, t2 |-> t2, b1 |-> g1, b2 |-> g2, victim |-> NoKey]
       ELSE IF fromT1
         THEN [t1 |-> PopBack(t1), t2 |-> t2, b1 |-> Ghost(g1, Back(t1)), b2 |-> g2,
               victim |-> Back(t1)]
       ELSE IF Len(t2) >= 1
         THEN [t1 |-> t1, t2 |-> PopBack(t2), b1 |-> g1, b2 |-> Ghost(g2, Back(t2)),
               victim |-> Back(t2)]
       ELSE [t1 |-> PopBack(t1), t2 |-> t2, b1 |-> g1, b2 |-> g2, victim |-> Back(t1)]

\* ghost_trim, on a miss while the cache is not full.
GhostTrim ==
    LET full == Len(t1) + Len(t2) + Len(b1) + Len(b2) >= Capacity
    IN [t1 |-> t1, t2 |-> t2, victim |-> NoKey,
        b1 |-> IF full /\ b2 = <<>> /\ b1 # <<>> THEN PopBack(b1) ELSE b1,
        b2 |-> IF full /\ b2 # <<>> THEN PopBack(b2) ELSE b2]

\* The step of p: the ratio of the ghost lists, at least 1.
Delta(a, b) == IF b = 0 THEN 1 ELSE IF a \div b = 0 THEN 1 ELSE a \div b

\* Mutant: p is not capped at the capacity.
GrowP_Uncapped == p + Delta(Len(b2), Len(b1))

GrowP == MinOf(p + Delta(Len(b2), Len(b1)), Capacity)
ShrinkP == LET d == Delta(Len(b1), Len(b2)) IN IF p <= d THEN 0 ELSE p - d

\* The end of a miss: the key enters t1 and the victim is returned.
Enter(key, r, q) ==
    /\ t1' = PushFront(key, r.t1)
    /\ t2' = r.t2 /\ b1' = r.b1 /\ b2' = r.b2
    /\ p' = q
    /\ victim' = r.victim
    /\ UNCHANGED pinned

TouchPinned(key) ==
    /\ key \in pinned
    /\ victim' = NoKey
    /\ UNCHANGED <<t1, t2, b1, b2, p, pinned>>

\* Mutant: the promoted copy is not taken out of t1.
Promote_KeepsCopy(key) ==
    /\ t2' = PushFront(key, ListRemove(t2, key))
    /\ UNCHANGED t1

\* A resident key moves to the front of t2.
Promote(key) ==
    IF key \in Elems(t1)
      THEN t1' = ListRemove(t1, key) /\ t2' = PushFront(key, t2)
      ELSE t2' = PushFront(key, ListRemove(t2, key)) /\ UNCHANGED t1

TouchResident(key) ==
    /\ key \notin pinned
    /\ key \in Elems(t1) \cup Elems(t2)
    /\ Promote(key)
    /\ victim' = NoKey
    /\ UNCHANGED <<b1, b2, p, pinned>>

Absent(key) == key \notin pinned \cup Elems(t1) \cup Elems(t2)

TouchGhost1(key) ==
    /\ Absent(key) /\ key \in Elems(b1)
    /\ Enter(key, Replace(FALSE, ListRemove(b1, key), b2, GrowP), GrowP)

TouchGhost2(key) ==
    /\ Absent(key) /\ key \notin Elems(b1) /\ key \in Elems(b2)
    /\ Enter(key, Replace(TRUE, b1, ListRemove(b2, key), ShrinkP), ShrinkP)

\* Mutant: an eviction only once the cache is over its capacity.
MustReplace_Late == Len(t1) + Len(t2) > Capacity

MustReplace == Len(t1) + Len(t2) >= Capacity

TouchMiss(key) ==
    /\ Absent(key) /\ key \notin Elems(b1) \cup Elems(b2)
    /\ Enter(key, IF MustReplace THEN Replace(FALSE, b1, b2, p) ELSE GhostTrim, p)

ForgetKey(key) ==
    /\ t1' = ListRemove(t1, key) /\ t2' = ListRemove(t2, key)
    /\ b1' = ListRemove(b1, key) /\ b2' = ListRemove(b2, key)
    /\ pinned' = pinned \ {key}
    /\ victim' = NoKey
    /\ UNCHANGED p

\* Mutant: a pinned key stays in the lists.
PinKey_StaysListed(key) ==
    /\ pinned' = pinned \cup {key}
    /\ victim' = NoKey
    /\ UNCHANGED <<t1, t2, b1, b2, p>>

\* pin: the key leaves the resident lists; its ghosts stay.
PinKey(key) ==
    /\ pinned' = pinned \cup {key}
    /\ t1' = IF key \in pinned THEN t1 ELSE ListRemove(t1, key)
    /\ t2' = IF key \in pinned THEN t2 ELSE ListRemove(t2, key)
    /\ victim' = NoKey
    /\ UNCHANGED <<b1, b2, p>>

\* unpin: the key enters t1, whether it was pinned or not and however full the
\* cache is.
UnpinKey(key) ==
    /\ PairedUnpins => key \in pinned
    /\ Len(t1) < ListBound
    /\ pinned' = pinned \ {key}
    /\ t1' = PushFront(key, t1)
    /\ victim' = NoKey
    /\ UNCHANGED <<t2, b1, b2, p>>

ArcInit ==
    /\ t1 = <<>> /\ t2 = <<>> /\ b1 = <<>> /\ b2 = <<>>
    /\ p = 0 /\ pinned = {} /\ victim = NoKey

ArcNext ==
    \E key \in Key :
      \/ TouchPinned(key) \/ TouchResident(key)
      \/ TouchGhost1(key) \/ TouchGhost2(key) \/ TouchMiss(key)
      \/ ForgetKey(key) \/ PinKey(key) \/ UnpinKey(key)

ArcSpec == ArcInit /\ [][ArcNext]_arc

-----------------------------------------------------------------------------
(* Properties                                                              *)

NoRepeats(list) == \A i, j \in DOMAIN list : list[i] = list[j] => i = j

\* The lists hold keys and p, which grow_p and shrink_p move by a ratio, stays
\* between 0 and the capacity.
ArcTypeOK ==
    /\ t1 \in Seq(Key) /\ t2 \in Seq(Key) /\ b1 \in Seq(Key) /\ b2 \in Seq(Key)
    /\ p \in 0 .. Capacity
    /\ pinned \subseteq Key
    /\ victim \in Key \cup {NoKey}

\* A key is resident at most once, and never while it is pinned: otherwise a
\* copy left behind could be chosen as a victim.
ResidentOnce ==
    /\ NoRepeats(t1) /\ NoRepeats(t2)
    /\ Elems(t1) \cap Elems(t2) = {}
    /\ pinned \cap (Elems(t1) \cup Elems(t2)) = {}

\* arc.rs, touch: "Pinned keys are never returned as victims".
PinnedNeverVictim ==
    [][victim' # NoKey => victim' \notin pinned]_arc

\* The memory of evicted keys stays bounded by the capacity on each side.
GhostsBounded == Len(b1) <= Capacity /\ Len(b2) <= Capacity

\* The target p, which moves by ratios of ghost list lengths, stays between 0
\* and the capacity, and the ghost lists stay bounded, through every pin.
WithinCapacity == ArcTypeOK /\ GhostsBounded

\* Only a returning pin makes the cache larger than its capacity; an access
\* evicts whenever it would.
OnlyUnpinOverfills ==
    [][\/ Len(t1') + Len(t2') <= Capacity
       \/ Len(t1') + Len(t2') <= Len(t1) + Len(t2)
       \/ pinned' # pinned]_arc
=============================================================================
