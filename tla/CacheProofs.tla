----------------------------- MODULE CacheProofs -----------------------------
(***************************************************************************)
(* Theorems about the two indices of vitriol-cache, for every key set,     *)
(* capacity, set of prompts and set of handles.  The ARC policy: its ghost *)
(* lists and target stay within their bounds, and a caller that unpins     *)
(* only what it pinned never sees a pinned key as a victim and overfills   *)
(* only by an unpin.  The radix trie: it stays a radix trie with the right *)
(* counts, returns no handle whose state is gone, and implements the index *)
(* its header promises.                                                    *)
(***************************************************************************)
EXTENDS ArcCache, RadixTree, FiniteSetTheorems, SequenceTheorems, WellFoundedInduction, TLAPS

-----------------------------------------------------------------------------
(* The ARC policy (ArcCache)                                               *)

\* push_front: the list gains the key and stays free of repeats when the key is
\* new.
LEMMA PushFrontFacts ==
    ASSUME NEW key \in Key, NEW list \in Seq(Key)
    PROVE  /\ PushFront(key, list) \in Seq(Key)
           /\ Elems(PushFront(key, list)) = Elems(list) \cup {key}
           /\ NoRepeats(list) /\ key \notin Elems(list)
                => NoRepeats(PushFront(key, list))
  <1>. DEFINE new == PushFront(key, list)
  <1>1. new \in Seq(Key) /\ Len(new) = Len(list) + 1
    BY DEF PushFront
  <1>2. new[1] = key /\ \A i \in 2 .. Len(new) : new[i] = list[i - 1]
    BY DEF PushFront
  <1>3. DOMAIN new = 1 .. Len(new) /\ DOMAIN list = 1 .. Len(list) /\ Len(list) \in Nat
    BY <1>1
  <1>. HIDE DEF new
  <1>4. Elems(new) = Elems(list) \cup {key}
    <2>1. Elems(new) \subseteq Elems(list) \cup {key}
      BY <1>1, <1>2, <1>3 DEF Elems
    <2>2. key \in Elems(new)
      BY <1>1, <1>2, <1>3 DEF Elems
    <2>3. \A i \in DOMAIN list : list[i] = new[i + 1] /\ i + 1 \in DOMAIN new
      BY <1>1, <1>2, <1>3
    <2>4. Elems(list) \subseteq Elems(new)
      BY <2>3 DEF Elems
    <2>. QED  BY <2>1, <2>2, <2>4
  <1>5. ASSUME NoRepeats(list), key \notin Elems(list)
        PROVE  NoRepeats(new)
    <2>. SUFFICES ASSUME NEW i \in DOMAIN new, NEW j \in DOMAIN new, new[i] = new[j]
                  PROVE  i = j
      BY DEF NoRepeats
    <2>1. \A m \in 2 .. Len(new) : m - 1 \in DOMAIN list /\ new[m] = list[m - 1]
                                     /\ new[m] # key
      BY <1>1, <1>2, <1>3, <1>5 DEF Elems
    <2>2. CASE i = 1 \/ j = 1
      BY <1>1, <1>2, <1>3, <2>1, <2>2
    <2>3. CASE i # 1 /\ j # 1
      <3>1. i \in 2 .. Len(new) /\ j \in 2 .. Len(new)
        BY <1>1, <1>3, <2>3
      <3>2. list[i - 1] = list[j - 1] /\ i - 1 \in DOMAIN list /\ j - 1 \in DOMAIN list
        BY <2>1, <3>1
      <3>3. i - 1 = j - 1
        BY <1>5, <3>2 DEF NoRepeats
      <3>. QED  BY <3>1, <3>3
    <2>. QED  BY <2>2, <2>3
  <1>. QED  BY <1>1, <1>4, <1>5 DEF new

\* pop_back of a list that is not empty: no element is gained and no repeat is
\* introduced.
LEMMA PopBackFacts ==
    ASSUME NEW list \in Seq(Key), list # <<>>
    PROVE  /\ PopBack(list) \in Seq(Key)
           /\ Back(list) \in Elems(list)
           /\ Elems(PopBack(list)) \subseteq Elems(list)
           /\ NoRepeats(list) => NoRepeats(PopBack(list))
           /\ Len(PopBack(list)) = Len(list) - 1
  <1>. DEFINE new == PopBack(list)
  <1>1. /\ new \in Seq(Key) /\ Len(new) = Len(list) - 1
        /\ Len(list) \in Nat /\ Len(list) >= 1
        /\ \A i \in 1 .. Len(new) : new[i] = list[i]
    <2>1. Len(list) \in Nat \ {0} /\ \A i \in 1 .. Len(list) - 1 : list[i] \in Key
      BY EmptySeq
    <2>2. Len(list) \in Nat /\ Len(list) >= 1 /\ 1 \in Int /\ Len(list) - 1 \in Int
      BY <2>1
    <2>3. /\ SubSeq(list, 1, Len(list) - 1) \in Seq(Key)
          /\ Len(SubSeq(list, 1, Len(list) - 1))
               = IF 1 <= Len(list) - 1 THEN Len(list) - 1 - 1 + 1 ELSE 0
          /\ \A i \in 1 .. Len(list) - 1 - 1 + 1 :
               SubSeq(list, 1, Len(list) - 1)[i] = list[1 + i - 1]
      BY <2>1, <2>2, SubSeqProperties
    <2>4. new = SubSeq(list, 1, Len(list) - 1)
      BY DEF PopBack
    <2>. HIDE DEF new
    <2>5. Len(new) = Len(list) - 1
      <3>1. Len(new) = IF 1 <= Len(list) - 1 THEN Len(list) - 1 - 1 + 1 ELSE 0
        BY <2>3, <2>4, Zenon
      <3>. DEFINE n == Len(list)
                  m == Len(new)
      <3>2. n \in Nat /\ n >= 1 /\ m = IF 1 <= n - 1 THEN n - 1 - 1 + 1 ELSE 0
        BY <2>2, <3>1
      <3>. HIDE DEF n, m
      <3>3. m = n - 1
        BY <3>2
      <3>. QED  BY <3>3 DEF n, m
    <2>6. \A i \in 1 .. Len(new) : new[i] = list[i]
      <3>. TAKE i \in 1 .. Len(new)
      <3>1. i \in 1 .. Len(list) - 1 - 1 + 1 /\ 1 + i - 1 = i
        BY <2>1, <2>5
      <3>. QED  BY <2>3, <2>4, <3>1
    <2>. QED  BY <2>1, <2>3, <2>4, <2>5, <2>6
  <1>2. DOMAIN new = 1 .. Len(new) /\ DOMAIN list = 1 .. Len(list)
    BY <1>1
  <1>. HIDE DEF new
  <1>3. Back(list) \in Elems(list)
    BY <1>1, <1>2 DEF Back, Elems
  <1>4. Elems(new) \subseteq Elems(list)
    BY <1>1, <1>2 DEF Elems
  <1>5. NoRepeats(list) => NoRepeats(new)
    BY <1>1, <1>2 DEF NoRepeats
  <1>. QED  BY <1>1, <1>3, <1>4, <1>5 DEF new

\* list_remove: no element is gained, and in a list without repeats the key is
\* gone.
LEMMA ListRemoveFacts ==
    ASSUME NEW list \in Seq(Key), NEW key \in Key
    PROVE  /\ ListRemove(list, key) \in Seq(Key)
           /\ Elems(ListRemove(list, key)) \subseteq Elems(list)
           /\ NoRepeats(list) => /\ NoRepeats(ListRemove(list, key))
                                 /\ key \notin Elems(ListRemove(list, key))
  <1>1. CASE key \notin Elems(list)
    BY <1>1 DEF ListRemove
  <1>2. CASE key \in Elems(list)
    <2>. DEFINE First(i) == list[i] = key /\ \A j \in 1 .. i - 1 : list[j] # key
                pos == CHOOSE i \in DOMAIN list : First(i)
                new == [i \in 1 .. Len(list) - 1 |->
                          IF i < pos THEN list[i] ELSE list[i + 1]]
    <2>1. DOMAIN list = 1 .. Len(list) /\ Len(list) \in Nat
      OBVIOUS
    <2>5. ListRemove(list, key) = new
      BY <1>2 DEF ListRemove
    <2>. HIDE DEF pos
    <2>2. PICK k \in DOMAIN list : list[k] = key
      BY <1>2 DEF Elems
    <2>6. /\ Len(list) >= 1 /\ Len(list) - 1 \in Nat
          /\ DOMAIN new = 1 .. Len(list) - 1
          /\ \A i \in 1 .. Len(list) - 1 : list[i] \in Key /\ list[i + 1] \in Key
      BY <2>1, <2>2
    <2>7. new \in Seq(Key)
      BY <2>6
    <2>8. \A i \in DOMAIN new : \E j \in DOMAIN list : new[i] = list[j]
      BY <2>1, <2>6
    <2>9. Elems(new) \subseteq Elems(list)
      BY <2>8 DEF Elems
    <2>10. ASSUME NoRepeats(list)
           PROVE  NoRepeats(new) /\ key \notin Elems(new)
      <3>1. First(k)
        BY <2>1, <2>2, <2>10 DEF NoRepeats
      <3>2. pos \in DOMAIN list /\ list[pos] = key
        BY <2>2, <3>1 DEF pos
      <3>3. pos \in Int /\ \A i \in DOMAIN new : new[i] = list[IF i < pos THEN i ELSE i + 1]
        BY <2>1, <2>6, <3>2
      <3>4. \A i \in DOMAIN new : (IF i < pos THEN i ELSE i + 1) \in DOMAIN list \ {pos}
        BY <2>1, <2>6, <3>3
      <3>5. NoRepeats(new)
        BY <2>6, <2>10, <3>3, <3>4 DEF NoRepeats
      <3>6. key \notin Elems(new)
        BY <2>10, <3>2, <3>3, <3>4 DEF NoRepeats, Elems
      <3>. QED  BY <3>5, <3>6
    <2>. QED  BY <2>5, <2>7, <2>9, <2>10
  <1>. QED  BY <1>1, <1>2

-----------------------------------------------------------------------------
\* The resident lists are lists of keys; the ghosts and p do not matter here.
Lists == /\ t1 \in Seq(Key) /\ t2 \in Seq(Key)
         /\ b1 \in Seq(Key) /\ b2 \in Seq(Key)
         /\ pinned \subseteq Key

\* An eviction remembered in a ghost list leaves a list of keys.
LEMMA GhostType ==
    ASSUME NEW list \in Seq(Key), NEW key \in Key
    PROVE  Ghost(list, key) \in Seq(Key)
  <1>1. PushFront(key, list) \in Seq(Key) /\ PushFront(key, list) # <<>>
    BY PushFrontFacts DEF PushFront
  <1>. QED  BY <1>1, PopBackFacts DEF Ghost

\* What replace does to the resident lists: nothing, or the back of one of
\* them goes and is the victim.
LEMMA ReplaceFacts ==
    ASSUME Lists,
           NEW f \in BOOLEAN, NEW g1 \in Seq(Key), NEW g2 \in Seq(Key), NEW q \in Nat
    PROVE  LET r == Replace(f, g1, g2, q)
           IN /\ r.b1 \in Seq(Key) /\ r.b2 \in Seq(Key)
              /\ \/ r.t1 = t1 /\ r.t2 = t2 /\ r.victim = NoKey
                 \/ t1 # <<>> /\ r.t1 = PopBack(t1) /\ r.t2 = t2 /\ r.victim = Back(t1)
                 \/ t2 # <<>> /\ r.t1 = t1 /\ r.t2 = PopBack(t2) /\ r.victim = Back(t2)
  <1>1. /\ Len(t1) \in Nat /\ Len(t2) \in Nat
        /\ (Len(t1) >= 1 <=> t1 # <<>>) /\ (Len(t2) >= 1 <=> t2 # <<>>)
    BY EmptySeq DEF Lists
  <1>2. /\ t1 # <<>> => Back(t1) \in Key
        /\ t2 # <<>> => Back(t2) \in Key
    BY <1>1 DEF Back, Lists
  <1>3. /\ t1 # <<>> => Ghost(g1, Back(t1)) \in Seq(Key)
        /\ t2 # <<>> => Ghost(g2, Back(t2)) \in Seq(Key)
    BY <1>2, GhostType
  <1>. QED  BY ArcAssumption, <1>1, <1>3 DEF Replace

\* p is a natural number; its bound by the capacity is not needed here.
ArcInv == Lists /\ p \in Nat /\ ResidentOnce

\* The adapted split points of a ghost hit are natural numbers.
LEMMA SplitPointType ==
    ASSUME Lists, p \in Nat
    PROVE  GrowP \in Nat /\ ShrinkP \in Nat
  <1>1. Len(b1) \in Nat /\ Len(b2) \in Nat
    BY DEF Lists
  <1>2. \A a, b \in Nat : Delta(a, b) \in Nat
    BY DEF Delta
  <1>3. Delta(Len(b2), Len(b1)) \in Nat /\ Delta(Len(b1), Len(b2)) \in Nat
    BY <1>1, <1>2
  <1>4. Capacity \in Nat
    BY ArcAssumption
  <1>5. GrowP \in Nat
    BY <1>3, <1>4 DEF GrowP, MinOf
  <1>6. ShrinkP \in Nat
    BY <1>3 DEF ShrinkP
  <1>. QED  BY <1>5, <1>6

\* A key that enters t1 after a replacement of t1 or t2.
LEMMA EnterResident ==
    ASSUME ArcInv, NEW key \in Key, Absent(key), NEW r, NEW q \in Nat, Enter(key, r, q),
           r.b1 \in Seq(Key), r.b2 \in Seq(Key),
           \/ r.t1 = t1 /\ r.t2 = t2
           \/ t1 # <<>> /\ r.t1 = PopBack(t1) /\ r.t2 = t2
           \/ t2 # <<>> /\ r.t1 = t1 /\ r.t2 = PopBack(t2)
    PROVE  ArcInv'
  <1>1. /\ r.t1 \in Seq(Key) /\ r.t2 \in Seq(Key)
        /\ Elems(r.t1) \subseteq Elems(t1) /\ Elems(r.t2) \subseteq Elems(t2)
        /\ NoRepeats(r.t1) /\ NoRepeats(r.t2)
    BY PopBackFacts DEF ArcInv, Lists, ResidentOnce
  <1>2. /\ t1' \in Seq(Key) /\ Elems(t1') = Elems(r.t1) \cup {key}
        /\ NoRepeats(t1')
    BY <1>1, PushFrontFacts DEF Enter, Absent
  <1>3. t2' = r.t2 /\ b1' = r.b1 /\ b2' = r.b2 /\ p' = q /\ pinned' = pinned
    BY DEF Enter
  <1>4. Elems(t2') \subseteq Elems(t2) /\ NoRepeats(t2') /\ t2' \in Seq(Key)
    BY <1>1, <1>3
  <1>5. ResidentOnce'
    BY <1>1, <1>2, <1>3, <1>4 DEF ArcInv, ResidentOnce, Absent
  <1>. QED  BY <1>2, <1>3, <1>4, <1>5 DEF ArcInv, Lists

\* touch of a key no list knows.
LEMMA TouchMissStep ==
    ASSUME ArcInv, NEW key \in Key, TouchMiss(key)
    PROVE  ArcInv'
  <1>. DEFINE r == IF MustReplace THEN Replace(FALSE, b1, b2, p) ELSE GhostTrim
  <1>1. Absent(key) /\ Enter(key, r, p)
    BY DEF TouchMiss
  <1>2. b1 \in Seq(Key) /\ b2 \in Seq(Key) /\ Lists /\ p \in Nat
    BY DEF ArcInv, Lists
  <1>3. CASE MustReplace
    <2>1. r = Replace(FALSE, b1, b2, p)
      BY <1>3
    <2>2. FALSE \in BOOLEAN
      OBVIOUS
    <2>. HIDE DEF r
    <2>3. /\ r.b1 \in Seq(Key) /\ r.b2 \in Seq(Key)
          /\ \/ r.t1 = t1 /\ r.t2 = t2
             \/ t1 # <<>> /\ r.t1 = PopBack(t1) /\ r.t2 = t2
             \/ t2 # <<>> /\ r.t1 = t1 /\ r.t2 = PopBack(t2)
      BY <1>2, <2>1, <2>2, ReplaceFacts
    <2>. QED  BY <1>1, <1>2, <2>3, EnterResident
  <1>4. CASE ~MustReplace
    <2>1. /\ b1 # <<>> => PopBack(b1) \in Seq(Key)
          /\ b2 # <<>> => PopBack(b2) \in Seq(Key)
      BY <1>2, PopBackFacts
    <2>2. /\ r.b1 \in Seq(Key) /\ r.b2 \in Seq(Key)
          /\ r.t1 = t1 /\ r.t2 = t2
      BY <1>2, <1>4, <2>1 DEF GhostTrim
    <2>. HIDE DEF r
    <2>. QED  BY <1>1, <1>2, <2>2, EnterResident
  <1>. QED  BY <1>3, <1>4

\* touch of a key one of the ghost lists remembers.
LEMMA TouchGhostStep ==
    ASSUME ArcInv, NEW key \in Key, TouchGhost1(key) \/ TouchGhost2(key)
    PROVE  ArcInv'
  <1>1. Lists /\ b1 \in Seq(Key) /\ b2 \in Seq(Key) /\ GrowP \in Nat /\ ShrinkP \in Nat
    BY SplitPointType DEF ArcInv, Lists
  <1>2. ListRemove(b1, key) \in Seq(Key) /\ ListRemove(b2, key) \in Seq(Key)
    BY <1>1, ListRemoveFacts
  <1>3. PICK f \in BOOLEAN, g1 \in Seq(Key), g2 \in Seq(Key), q \in Nat :
          Absent(key) /\ Enter(key, Replace(f, g1, g2, q), q)
    BY <1>1, <1>2 DEF TouchGhost1, TouchGhost2
  <1>. DEFINE r == Replace(f, g1, g2, q)
  <1>4. /\ r.b1 \in Seq(Key) /\ r.b2 \in Seq(Key)
        /\ \/ r.t1 = t1 /\ r.t2 = t2
           \/ t1 # <<>> /\ r.t1 = PopBack(t1) /\ r.t2 = t2
           \/ t2 # <<>> /\ r.t1 = t1 /\ r.t2 = PopBack(t2)
    BY <1>1, <1>3, ReplaceFacts
  <1>5. Enter(key, r, q)
    BY <1>3
  <1>. HIDE DEF r
  <1>. QED  BY <1>3, <1>4, <1>5, EnterResident

\* touch of a resident key: it moves to the front of t2.
LEMMA TouchResidentStep ==
    ASSUME ArcInv, NEW key \in Key, TouchResident(key)
    PROVE  ArcInv'
  <1>1. /\ t1 \in Seq(Key) /\ t2 \in Seq(Key)
        /\ NoRepeats(t1) /\ NoRepeats(t2) /\ Elems(t1) \cap Elems(t2) = {}
        /\ key \notin pinned /\ UNCHANGED <<b1, b2, p, pinned>>
    BY DEF ArcInv, Lists, ResidentOnce, TouchResident
  <1>2. CASE key \in Elems(t1)
    <2>1. t1' = ListRemove(t1, key) /\ t2' = PushFront(key, t2) /\ key \notin Elems(t2)
      BY <1>1, <1>2 DEF TouchResident, Promote
    <2>2. /\ t1' \in Seq(Key) /\ Elems(t1') \subseteq Elems(t1)
          /\ NoRepeats(t1') /\ key \notin Elems(t1')
      BY <1>1, <2>1, ListRemoveFacts
    <2>3. t2' \in Seq(Key) /\ Elems(t2') = Elems(t2) \cup {key} /\ NoRepeats(t2')
      BY <1>1, <2>1, PushFrontFacts
    <2>4. ResidentOnce'
      BY <1>1, <2>2, <2>3 DEF ArcInv, ResidentOnce
    <2>. QED  BY <1>1, <2>2, <2>3, <2>4 DEF ArcInv, Lists
  <1>3. CASE key \notin Elems(t1)
    <2>1. t1' = t1 /\ t2' = PushFront(key, ListRemove(t2, key))
      BY <1>3 DEF TouchResident, Promote
    <2>2. /\ ListRemove(t2, key) \in Seq(Key)
          /\ Elems(ListRemove(t2, key)) \subseteq Elems(t2)
          /\ NoRepeats(ListRemove(t2, key)) /\ key \notin Elems(ListRemove(t2, key))
      BY <1>1, ListRemoveFacts
    <2>3. /\ t2' \in Seq(Key) /\ NoRepeats(t2')
          /\ Elems(t2') = Elems(ListRemove(t2, key)) \cup {key}
      BY <2>1, <2>2, PushFrontFacts
    <2>4. ResidentOnce'
      BY <1>1, <1>3, <2>1, <2>2, <2>3 DEF ArcInv, ResidentOnce
    <2>. QED  BY <1>1, <2>1, <2>3, <2>4 DEF ArcInv, Lists
  <1>. QED  BY <1>2, <1>3

\* forget takes the key out of every list.
LEMMA ForgetStep ==
    ASSUME ArcInv, NEW key \in Key, ForgetKey(key)
    PROVE  ArcInv'
  <1>1. /\ t1' \in Seq(Key) /\ t2' \in Seq(Key) /\ b1' \in Seq(Key) /\ b2' \in Seq(Key)
        /\ Elems(t1') \subseteq Elems(t1) /\ Elems(t2') \subseteq Elems(t2)
        /\ NoRepeats(t1') /\ NoRepeats(t2')
    BY ListRemoveFacts DEF ArcInv, Lists, ResidentOnce, ForgetKey
  <1>2. pinned' \subseteq pinned /\ p' = p
    BY DEF ForgetKey
  <1>3. ResidentOnce'
    BY <1>1, <1>2 DEF ArcInv, ResidentOnce
  <1>. QED  BY <1>1, <1>2, <1>3 DEF ArcInv, Lists

\* pin takes the key out of the resident lists.
LEMMA PinStep ==
    ASSUME ArcInv, NEW key \in Key, PinKey(key)
    PROVE  ArcInv'
  <1>1. /\ t1' \in Seq(Key) /\ t2' \in Seq(Key)
        /\ Elems(t1') \subseteq Elems(t1) /\ Elems(t2') \subseteq Elems(t2)
        /\ NoRepeats(t1') /\ NoRepeats(t2')
        /\ key \notin Elems(t1') /\ key \notin Elems(t2')
    BY ListRemoveFacts DEF ArcInv, Lists, ResidentOnce, PinKey
  <1>2. pinned' = pinned \cup {key} /\ UNCHANGED <<b1, b2, p>>
    BY DEF PinKey
  <1>3. ResidentOnce'
    BY <1>1, <1>2 DEF ArcInv, ResidentOnce
  <1>. QED  BY <1>1, <1>2, <1>3 DEF ArcInv, Lists

\* unpin of a pinned key: it was in no resident list, so its copy is the only
\* one.
LEMMA UnpinStep ==
    ASSUME PairedUnpins, ArcInv, NEW key \in Key, UnpinKey(key)
    PROVE  ArcInv'
  <1>1. key \in pinned /\ pinned' = pinned \ {key} /\ UNCHANGED <<t2, b1, b2, p>>
    BY DEF UnpinKey
  <1>2. key \notin Elems(t1) /\ key \notin Elems(t2)
    BY <1>1 DEF ArcInv, ResidentOnce
  <1>3. t1' \in Seq(Key) /\ Elems(t1') = Elems(t1) \cup {key} /\ NoRepeats(t1')
    BY <1>2, PushFrontFacts DEF ArcInv, Lists, ResidentOnce, UnpinKey
  <1>4. ResidentOnce'
    BY <1>1, <1>2, <1>3 DEF ArcInv, ResidentOnce
  <1>. QED  BY <1>1, <1>3, <1>4 DEF ArcInv, Lists

\* The empty cache satisfies the invariant.
LEMMA ArcInvInit == ArcInit => ArcInv
  <1>. SUFFICES ASSUME ArcInit PROVE ArcInv
    OBVIOUS
  <1>1. DOMAIN t1 = {} /\ DOMAIN t2 = {} /\ <<>> \in Seq(Key)
    BY DEF ArcInit
  <1>2. Elems(t1) = {} /\ Elems(t2) = {}
    BY <1>1 DEF Elems
  <1>3. NoRepeats(t1) /\ NoRepeats(t2)
    BY <1>1 DEF NoRepeats
  <1>. QED  BY <1>1, <1>2, <1>3 DEF ArcInit, ArcInv, Lists, ResidentOnce

\* Every operation of a caller that pairs its unpins preserves the invariant.
LEMMA ArcInvNext ==
    ASSUME PairedUnpins, ArcInv, [ArcNext]_arc
    PROVE  ArcInv'
  <1>1. CASE UNCHANGED arc
    BY <1>1 DEF arc, ArcInv, Lists, ResidentOnce
  <1>2. CASE ArcNext
    <2>1. PICK key \in Key :
            \/ TouchPinned(key) \/ TouchResident(key)
            \/ TouchGhost1(key) \/ TouchGhost2(key) \/ TouchMiss(key)
            \/ ForgetKey(key) \/ PinKey(key) \/ UnpinKey(key)
      BY <1>2 DEF ArcNext
    <2>2. CASE TouchPinned(key)
      BY <2>2 DEF TouchPinned, ArcInv, Lists, ResidentOnce
    <2>. QED
      BY <2>1, <2>2, TouchResidentStep, TouchGhostStep, TouchMissStep, ForgetStep, PinStep,
         UnpinStep
  <1>. QED  BY <1>1, <1>2

\* For a caller that unpins only what it pinned: no key is resident twice, and
\* none while it is pinned (pin, unpin, touch and forget together).
THEOREM ArcResidentOnce ==
    ASSUME PairedUnpins
    PROVE  ArcSpec => []ResidentOnce
  <1>1. ArcInv => ResidentOnce
    BY DEF ArcInv
  <1>. QED  BY <1>1, ArcInvInit, ArcInvNext, PTL DEF ArcSpec

\* The victim of an access comes from the back of a resident list.
LEMMA VictimWasResident ==
    ASSUME ArcInv, NEW key \in Key,
           TouchMiss(key) \/ TouchGhost1(key) \/ TouchGhost2(key)
    PROVE  victim' = NoKey \/ victim' \in Elems(t1) \cup Elems(t2)
  <1>1. Lists /\ b1 \in Seq(Key) /\ b2 \in Seq(Key) /\ p \in Nat
    BY DEF ArcInv, Lists
  <1>2. GrowP \in Nat /\ ShrinkP \in Nat
    BY <1>1, SplitPointType
  <1>3. ListRemove(b1, key) \in Seq(Key) /\ ListRemove(b2, key) \in Seq(Key)
    BY <1>1, ListRemoveFacts
  <1>4. \/ victim' = GhostTrim.victim
        \/ \E f \in BOOLEAN, g1 \in Seq(Key), g2 \in Seq(Key), q \in Nat :
             victim' = Replace(f, g1, g2, q).victim
    BY <1>1, <1>2, <1>3 DEF TouchMiss, TouchGhost1, TouchGhost2, Enter
  <1>5. CASE victim' = GhostTrim.victim
    BY <1>5 DEF GhostTrim
  <1>6. ASSUME NEW f \in BOOLEAN, NEW g1 \in Seq(Key), NEW g2 \in Seq(Key), NEW q \in Nat,
               victim' = Replace(f, g1, g2, q).victim
        PROVE  victim' = NoKey \/ victim' \in Elems(t1) \cup Elems(t2)
    <2>1. \/ victim' = NoKey
          \/ t1 # <<>> /\ victim' = Back(t1)
          \/ t2 # <<>> /\ victim' = Back(t2)
      BY <1>1, <1>6, ReplaceFacts
    <2>2. t1 \in Seq(Key) /\ t2 \in Seq(Key)
      BY <1>1 DEF Lists
    <2>. QED  BY <2>1, <2>2, PopBackFacts
  <1>. QED  BY <1>4, <1>5, <1>6

\* One step: a key that is pinned when the step is taken is not its victim.
LEMMA VictimStep ==
    ASSUME ArcInv, ArcNext, victim' # NoKey
    PROVE  victim' \notin pinned
  <1>1. PICK key \in Key : TouchMiss(key) \/ TouchGhost1(key) \/ TouchGhost2(key)
    BY DEF ArcNext, TouchPinned, TouchResident, ForgetKey, PinKey, UnpinKey
  <1>2. victim' \in Elems(t1) \cup Elems(t2)
    BY <1>1, VictimWasResident
  <1>. QED  BY <1>2 DEF ArcInv, ResidentOnce

\* arc.rs, touch: "Pinned keys are never returned as victims", for a caller
\* that unpins only what it pinned.
THEOREM ArcPinnedNeverVictim ==
    ASSUME PairedUnpins
    PROVE  ArcSpec => PinnedNeverVictim
  <1>1. ArcInv /\ [ArcNext]_arc => [victim' # NoKey => victim' \notin pinned]_arc
    BY VictimStep
  <1>. QED  BY <1>1, ArcInvInit, ArcInvNext, PTL DEF ArcSpec, PinnedNeverVictim
-----------------------------------------------------------------------------
(* The capacity                                                            *)

\* How the operations on a list change its length.
LEMMA ListSizes ==
    ASSUME NEW key \in Key, NEW list \in Seq(Key)
    PROVE  /\ Len(list) \in Nat /\ (list = <<>> <=> Len(list) = 0)
           /\ Len(PushFront(key, list)) = Len(list) + 1
           /\ list # <<>> => Len(PopBack(list)) = Len(list) - 1
           /\ Len(ListRemove(list, key))
                = IF key \in Elems(list) THEN Len(list) - 1 ELSE Len(list)
  <1>1. Len(list) \in Nat /\ (list = <<>> <=> Len(list) = 0)
    BY EmptySeq
  <1>2. Len(PushFront(key, list)) = Len(list) + 1
    BY DEF PushFront
  <1>3. ASSUME key \in Elems(list)
        PROVE  Len(ListRemove(list, key)) = Len(list) - 1
    <2>1. Len(list) - 1 \in Nat
      BY <1>1, <1>3 DEF Elems
    <2>2. DOMAIN ListRemove(list, key) = 1 .. Len(list) - 1
      BY <1>3 DEF ListRemove
    <2>3. ListRemove(list, key) \in Seq(Key)
      BY ListRemoveFacts
    <2>. QED  BY <2>1, <2>2, <2>3
  <1>4. key \notin Elems(list) => ListRemove(list, key) = list
    BY DEF ListRemove
  <1>. QED  BY <1>1, <1>2, <1>3, <1>4, PopBackFacts

\* A ghost list at the capacity stays there: one key in, one out.
LEMMA GhostSize ==
    ASSUME NEW list \in Seq(Key), NEW key \in Key, Len(list) <= Capacity
    PROVE  Len(Ghost(list, key)) <= Capacity
  <1>1. PushFront(key, list) \in Seq(Key) /\ Len(PushFront(key, list)) = Len(list) + 1
    BY PushFrontFacts, ListSizes
  <1>2. Len(list) \in Nat /\ Capacity \in Nat
    BY ArcAssumption
  <1>3. PushFront(key, list) # <<>>
    BY <1>1, <1>2
  <1>4. Len(PopBack(PushFront(key, list))) = Len(list)
    BY <1>1, <1>2, <1>3, PopBackFacts
  <1>. QED  BY <1>1, <1>2, <1>4 DEF Ghost

\* The split point stays between 0 and the capacity.
LEMMA SplitPointRange ==
    ASSUME Lists, p \in 0 .. Capacity
    PROVE  GrowP \in 0 .. Capacity /\ ShrinkP \in 0 .. Capacity
  <1>1. GrowP \in Nat /\ ShrinkP \in Nat /\ Capacity \in Nat
    BY ArcAssumption, SplitPointType
  <1>2. \A a, b \in Nat : Delta(a, b) \in Nat
    BY DEF Delta
  <1>3. Delta(Len(b2), Len(b1)) \in Nat /\ Delta(Len(b1), Len(b2)) \in Nat
    BY <1>2 DEF Lists
  <1>4. GrowP <= Capacity
    BY <1>1, <1>3 DEF GrowP, MinOf
  <1>5. ShrinkP <= p
    BY <1>1, <1>3 DEF ShrinkP
  <1>. QED  BY <1>1, <1>4, <1>5

\* What replace returns: ghost lists within the capacity, and resident lists
\* that leave room for one key, or are one shorter than they were.
LEMMA ReplaceSizes ==
    ASSUME ArcTypeOK, NEW f \in BOOLEAN, NEW q \in Nat,
           NEW g1 \in Seq(Key), NEW g2 \in Seq(Key),
           Len(g1) <= Capacity, Len(g2) <= Capacity
    PROVE  LET r == Replace(f, g1, g2, q)
           IN /\ r.t1 \in Seq(Key) /\ r.t2 \in Seq(Key)
              /\ r.b1 \in Seq(Key) /\ r.b2 \in Seq(Key)
              /\ Len(r.b1) <= Capacity /\ Len(r.b2) <= Capacity
              /\ r.victim \in Key \cup {NoKey}
              /\ \/ Len(r.t1) + Len(r.t2) < Capacity
                 \/ Len(r.t1) + Len(r.t2) < Len(t1) + Len(t2)
  <1>. DEFINE r == Replace(f, g1, g2, q)
              room == Len(t1) + Len(t2) < Capacity
              fromT1 == Len(t1) >= 1 /\ (Len(t1) > q \/ (f /\ Len(t1) = q))
  <1>1. /\ t1 \in Seq(Key) /\ t2 \in Seq(Key) /\ Lists
        /\ Len(t1) \in Nat /\ Len(t2) \in Nat /\ Capacity \in Nat \ {0}
        /\ (Len(t1) >= 1 <=> t1 # <<>>) /\ (Len(t2) >= 1 <=> t2 # <<>>)
    BY ArcAssumption, EmptySeq DEF ArcTypeOK, Lists
  <1>2. ASSUME t1 # <<>>
        PROVE  /\ PopBack(t1) \in Seq(Key) /\ Len(PopBack(t1)) = Len(t1) - 1
               /\ Back(t1) \in Key
               /\ Ghost(g1, Back(t1)) \in Seq(Key)
               /\ Len(Ghost(g1, Back(t1))) <= Capacity
    <2>1. Back(t1) \in Key
      BY <1>1, <1>2 DEF Back
    <2>. QED  BY <1>1, <1>2, <2>1, PopBackFacts, GhostType, GhostSize
  <1>3. ASSUME t2 # <<>>
        PROVE  /\ PopBack(t2) \in Seq(Key) /\ Len(PopBack(t2)) = Len(t2) - 1
               /\ Back(t2) \in Key
               /\ Ghost(g2, Back(t2)) \in Seq(Key)
               /\ Len(Ghost(g2, Back(t2))) <= Capacity
    <2>1. Back(t2) \in Key
      BY <1>1, <1>3 DEF Back
    <2>. QED  BY <1>1, <1>3, <2>1, PopBackFacts, GhostType, GhostSize
  <1>4. CASE room
    <2>1. r = [t1 |-> t1, t2 |-> t2, b1 |-> g1, b2 |-> g2, victim |-> NoKey]
      BY <1>4 DEF Replace
    <2>. HIDE DEF r
    <2>. QED  BY <1>1, <1>4, <2>1 DEF r
  <1>5. CASE ~room /\ fromT1
    <2>1. r = [t1 |-> PopBack(t1), t2 |-> t2, b1 |-> Ghost(g1, Back(t1)), b2 |-> g2,
               victim |-> Back(t1)]
      BY <1>5 DEF Replace
    <2>2. t1 # <<>>
      BY <1>1, <1>5
    <2>. HIDE DEF r
    <2>. QED  BY <1>1, <1>2, <2>1, <2>2 DEF r
  <1>6. CASE ~room /\ ~fromT1 /\ Len(t2) >= 1
    <2>1. r = [t1 |-> t1, t2 |-> PopBack(t2), b1 |-> g1, b2 |-> Ghost(g2, Back(t2)),
               victim |-> Back(t2)]
      BY <1>6 DEF Replace
    <2>2. t2 # <<>>
      BY <1>1, <1>6
    <2>. HIDE DEF r
    <2>. QED  BY <1>1, <1>3, <2>1, <2>2 DEF r
  <1>7. CASE ~room /\ ~fromT1 /\ ~(Len(t2) >= 1)
    <2>1. r = [t1 |-> PopBack(t1), t2 |-> t2, b1 |-> g1, b2 |-> g2, victim |-> Back(t1)]
      BY <1>7 DEF Replace
    <2>2. t1 # <<>>
      BY <1>1, <1>7
    <2>. HIDE DEF r
    <2>. QED  BY <1>1, <1>2, <2>1, <2>2 DEF r
  <1>. QED  BY <1>4, <1>5, <1>6, <1>7

\* A key entering t1 after the room was made.
LEMMA EnterSizes ==
    ASSUME ArcTypeOK, NEW key \in Key, NEW r,
           NEW q \in 0 .. Capacity, Enter(key, r, q),
           r.t1 \in Seq(Key), r.t2 \in Seq(Key), r.b1 \in Seq(Key), r.b2 \in Seq(Key),
           Len(r.b1) <= Capacity, Len(r.b2) <= Capacity,
           r.victim \in Key \cup {NoKey},
           \/ Len(r.t1) + Len(r.t2) < Capacity
           \/ Len(r.t1) + Len(r.t2) < Len(t1) + Len(t2)
    PROVE  /\ WithinCapacity'
           /\ \/ Len(t1') + Len(t2') <= Capacity
              \/ Len(t1') + Len(t2') <= Len(t1) + Len(t2)
  <1>1. t1' \in Seq(Key) /\ Len(t1') = Len(r.t1) + 1
    BY PushFrontFacts, ListSizes DEF Enter
  <1>2. /\ t2' = r.t2 /\ b1' = r.b1 /\ b2' = r.b2 /\ p' = q /\ pinned' = pinned
        /\ victim' = r.victim
    BY DEF Enter
  <1>3. /\ Len(r.t1) \in Nat /\ Len(r.t2) \in Nat /\ Capacity \in Nat
        /\ Len(t1) \in Nat /\ Len(t2) \in Nat
    <2>1. \A list \in Seq(Key) : Len(list) \in Nat
      OBVIOUS
    <2>. QED  BY ArcAssumption, <2>1 DEF ArcTypeOK
  <1>4. WithinCapacity'
    BY <1>1, <1>2 DEF WithinCapacity, ArcTypeOK, GhostsBounded
  <1>5. Len(t1') + Len(t2') = Len(r.t1) + Len(r.t2) + 1
    <2>. DEFINE a == Len(r.t1)
                b == Len(r.t2)
    <2>1. a \in Nat /\ b \in Nat /\ Len(t1') = a + 1 /\ Len(t2') = b
      BY <1>1, <1>2, <1>3
    <2>. HIDE DEF a, b
    <2>2. Len(t1') + Len(t2') = a + b + 1
      BY <2>1
    <2>. QED  BY <2>2 DEF a, b
  <1>. DEFINE new == Len(r.t1) + Len(r.t2)
              old == Len(t1) + Len(t2)
  <1>6. new \in Nat /\ old \in Nat /\ (new < Capacity \/ new < old)
    <2>1. \A a, b \in Nat : a + b \in Nat
      OBVIOUS
    <2>2. new \in Nat /\ old \in Nat
      BY <1>3, <2>1, Zenon
    <2>3. new < Capacity \/ new < old
      BY Zenon
    <2>. QED  BY <2>2, <2>3
  <1>. HIDE DEF new, old
  <1>7. new + 1 <= Capacity \/ new + 1 <= old
    BY <1>3, <1>6
  <1>. QED  BY <1>4, <1>5, <1>7 DEF new, old

\* touch of a key that is not resident: bounded, and an eviction whenever the
\* cache would grow past its capacity.
LEMMA AbsentTouchSizes ==
    ASSUME WithinCapacity, NEW key \in Key,
           TouchMiss(key) \/ TouchGhost1(key) \/ TouchGhost2(key)
    PROVE  /\ WithinCapacity'
           /\ \/ Len(t1') + Len(t2') <= Capacity
              \/ Len(t1') + Len(t2') <= Len(t1) + Len(t2)
  <1>1. /\ ArcTypeOK /\ Lists /\ p \in 0 .. Capacity /\ p \in Nat /\ Capacity \in Nat
        /\ t1 \in Seq(Key) /\ t2 \in Seq(Key) /\ b1 \in Seq(Key) /\ b2 \in Seq(Key)
        /\ Len(b1) \in Nat /\ Len(b2) \in Nat /\ Len(b1) <= Capacity /\ Len(b2) <= Capacity
    BY ArcAssumption DEF WithinCapacity, GhostsBounded, ArcTypeOK, Lists
  <1>2. GrowP \in 0 .. Capacity /\ ShrinkP \in 0 .. Capacity
    BY <1>1, SplitPointRange
  <1>3. /\ ListRemove(b1, key) \in Seq(Key) /\ Len(ListRemove(b1, key)) <= Capacity
        /\ ListRemove(b2, key) \in Seq(Key) /\ Len(ListRemove(b2, key)) <= Capacity
    <2>1. /\ Len(ListRemove(b1, key)) <= Len(b1) /\ Len(ListRemove(b1, key)) \in Int
          /\ Len(ListRemove(b2, key)) <= Len(b2) /\ Len(ListRemove(b2, key)) \in Int
      BY <1>1, ListSizes
    <2>2. \A n, m \in Int : n <= m /\ m <= Capacity => n <= Capacity
      BY <1>1
    <2>3. Len(ListRemove(b1, key)) <= Capacity /\ Len(ListRemove(b2, key)) <= Capacity
      BY <1>1, <2>1, <2>2
    <2>. QED  BY <1>1, <2>3, ListRemoveFacts
  <1>4. ASSUME NEW f \in BOOLEAN, NEW g1 \in Seq(Key), NEW g2 \in Seq(Key),
               NEW q \in 0 .. Capacity, Len(g1) <= Capacity, Len(g2) <= Capacity,
               Enter(key, Replace(f, g1, g2, q), q)
        PROVE  /\ WithinCapacity'
               /\ \/ Len(t1') + Len(t2') <= Capacity
                  \/ Len(t1') + Len(t2') <= Len(t1) + Len(t2)
    <2>. DEFINE r == Replace(f, g1, g2, q)
    <2>1. /\ r.t1 \in Seq(Key) /\ r.t2 \in Seq(Key)
          /\ r.b1 \in Seq(Key) /\ r.b2 \in Seq(Key)
          /\ Len(r.b1) <= Capacity /\ Len(r.b2) <= Capacity
          /\ r.victim \in Key \cup {NoKey}
          /\ \/ Len(r.t1) + Len(r.t2) < Capacity
             \/ Len(r.t1) + Len(r.t2) < Len(t1) + Len(t2)
      <3>1. q \in Nat
        BY <1>1
      <3>. QED  BY <1>1, <1>4, <3>1, ReplaceSizes
    <2>2. Enter(key, r, q)
      BY <1>4
    <2>. HIDE DEF r
    <2>. QED  BY <1>1, <1>4, <2>1, <2>2, EnterSizes
  <1>5. CASE TouchGhost1(key)
    BY <1>1, <1>2, <1>3, <1>4, <1>5 DEF TouchGhost1
  <1>6. CASE TouchGhost2(key)
    BY <1>1, <1>2, <1>3, <1>4, <1>6 DEF TouchGhost2
  <1>7. CASE TouchMiss(key) /\ MustReplace
    BY <1>1, <1>4, <1>7 DEF TouchMiss
  <1>8. CASE TouchMiss(key) /\ ~MustReplace
    <2>. DEFINE r == GhostTrim
    <2>1. Enter(key, r, p)
      BY <1>8 DEF TouchMiss
    <2>2. /\ b1 # <<>> => PopBack(b1) \in Seq(Key) /\ Len(PopBack(b1)) = Len(b1) - 1
          /\ b2 # <<>> => PopBack(b2) \in Seq(Key) /\ Len(PopBack(b2)) = Len(b2) - 1
      BY <1>1, PopBackFacts
    <2>3. /\ r.t1 = t1 /\ r.t2 = t2 /\ r.victim = NoKey
          /\ r.b1 = b1 \/ (b1 # <<>> /\ r.b1 = PopBack(b1))
          /\ r.b2 = b2 \/ (b2 # <<>> /\ r.b2 = PopBack(b2))
      BY DEF GhostTrim
    <2>. HIDE DEF r
    <2>4. /\ r.b1 \in Seq(Key) /\ r.b2 \in Seq(Key)
          /\ Len(r.b1) <= Capacity /\ Len(r.b2) <= Capacity
      BY <1>1, <2>2, <2>3
    <2>5. Len(r.t1) + Len(r.t2) < Capacity
      BY <1>1, <1>8, <2>3 DEF MustReplace
    <2>. QED  BY <1>1, <2>1, <2>3, <2>4, <2>5, EnterSizes
  <1>. QED  BY <1>5, <1>6, <1>7, <1>8

\* touch of a resident key: it changes place.
LEMMA ResidentTouchSizes ==
    ASSUME WithinCapacity, NEW key \in Key, TouchResident(key)
    PROVE  WithinCapacity' /\ Len(t1') + Len(t2') = Len(t1) + Len(t2)
  <1>1. /\ t1 \in Seq(Key) /\ t2 \in Seq(Key) /\ Len(t1) \in Nat /\ Len(t2) \in Nat
        /\ UNCHANGED <<b1, b2, p, pinned>> /\ victim' = NoKey
    BY DEF WithinCapacity, ArcTypeOK, TouchResident
  <1>2. CASE key \in Elems(t1)
    <2>1. t1' = ListRemove(t1, key) /\ t2' = PushFront(key, t2)
      BY <1>2 DEF TouchResident, Promote
    <2>2. /\ t1' \in Seq(Key) /\ Len(t1') = Len(t1) - 1
          /\ t2' \in Seq(Key) /\ Len(t2') = Len(t2) + 1
      BY <1>1, <1>2, <2>1, ListRemoveFacts, PushFrontFacts, ListSizes
    <2>. QED  BY <1>1, <2>2 DEF WithinCapacity, ArcTypeOK, GhostsBounded
  <1>3. CASE key \notin Elems(t1)
    <2>1. t1' = t1 /\ t2' = PushFront(key, ListRemove(t2, key)) /\ key \in Elems(t2)
      BY <1>3 DEF TouchResident, Promote
    <2>2. ListRemove(t2, key) \in Seq(Key) /\ Len(ListRemove(t2, key)) = Len(t2) - 1
      BY <1>1, <2>1, ListRemoveFacts, ListSizes
    <2>3. t2' \in Seq(Key) /\ Len(t2') = Len(t2)
      BY <1>1, <2>1, <2>2, PushFrontFacts, ListSizes
    <2>. QED  BY <1>1, <2>1, <2>3 DEF WithinCapacity, ArcTypeOK, GhostsBounded
  <1>. QED  BY <1>2, <1>3

\* forget and pin only shorten lists.
LEMMA RemovalSizes ==
    ASSUME WithinCapacity, NEW key \in Key, ForgetKey(key) \/ PinKey(key)
    PROVE  WithinCapacity' /\ Len(t1') + Len(t2') <= Len(t1) + Len(t2)
  <1>1. /\ t1 \in Seq(Key) /\ t2 \in Seq(Key) /\ b1 \in Seq(Key) /\ b2 \in Seq(Key)
        /\ p' = p /\ pinned' \subseteq Key /\ victim' = NoKey
        /\ Capacity \in Nat /\ p \in 0 .. Capacity
        /\ Len(b1) <= Capacity /\ Len(b2) <= Capacity
    BY ArcAssumption DEF WithinCapacity, GhostsBounded, ArcTypeOK, ForgetKey, PinKey
  <1>2. \A list \in Seq(Key) :
          /\ ListRemove(list, key) \in Seq(Key)
          /\ Len(list) \in Nat /\ Len(ListRemove(list, key)) \in Nat
          /\ Len(ListRemove(list, key)) <= Len(list)
    <2>. TAKE list \in Seq(Key)
    <2>1. ListRemove(list, key) \in Seq(Key)
      BY ListRemoveFacts
    <2>. QED  BY <2>1, ListSizes
  <1>3. /\ t1' \in Seq(Key) /\ t2' \in Seq(Key) /\ b1' \in Seq(Key) /\ b2' \in Seq(Key)
        /\ Len(t1') <= Len(t1) /\ Len(t2') <= Len(t2)
        /\ Len(b1') <= Len(b1) /\ Len(b2') <= Len(b2)
    BY <1>1, <1>2 DEF ForgetKey, PinKey
  <1>4. /\ Len(t1) \in Nat /\ Len(t2) \in Nat /\ Len(b1) \in Nat /\ Len(b2) \in Nat
        /\ Len(t1') \in Nat /\ Len(t2') \in Nat /\ Len(b1') \in Nat /\ Len(b2') \in Nat
    BY <1>1, <1>3
  <1>5. ArcTypeOK'
    BY <1>1, <1>3 DEF ArcTypeOK
  <1>6. GhostsBounded'
    BY <1>1, <1>3, <1>4 DEF GhostsBounded
  <1>. QED  BY <1>3, <1>4, <1>5, <1>6 DEF WithinCapacity

\* Every operation keeps p and the ghost lists within the capacity.
LEMMA WithinCapacityNext ==
    ASSUME WithinCapacity, [ArcNext]_arc
    PROVE  WithinCapacity'
  <1>1. CASE UNCHANGED arc
    BY <1>1 DEF arc, WithinCapacity, ArcTypeOK, GhostsBounded
  <1>2. ASSUME NEW key \in Key, TouchPinned(key)
        PROVE  WithinCapacity'
    BY <1>2 DEF TouchPinned, WithinCapacity, ArcTypeOK, GhostsBounded
  <1>3. ASSUME NEW key \in Key, UnpinKey(key)
        PROVE  WithinCapacity'
    <2>1. t1' \in Seq(Key)
      BY <1>3, PushFrontFacts DEF UnpinKey, WithinCapacity, ArcTypeOK
    <2>. QED  BY <1>3, <2>1 DEF UnpinKey, WithinCapacity, ArcTypeOK, GhostsBounded
  <1>. QED
    BY <1>1, <1>2, <1>3, AbsentTouchSizes, ResidentTouchSizes, RemovalSizes DEF ArcNext

\* The target p, moved by ratios of ghost list lengths, stays between 0 and the
\* capacity, and the ghost lists never outgrow it, for every caller, whether it
\* pairs its unpins or not.
THEOREM ArcWithinCapacity == ArcSpec => []WithinCapacity
  <1>1. ArcInit => WithinCapacity
    BY ArcAssumption DEF ArcInit, WithinCapacity, ArcTypeOK, GhostsBounded
  <1>. QED  BY <1>1, WithinCapacityNext, PTL DEF ArcSpec

\* touch never lets the resident lists outgrow the capacity: for a caller that
\* unpins only what it pinned, the cache grows past it only when a pin returns.
THEOREM ArcOnlyUnpinOverfills ==
    ASSUME PairedUnpins
    PROVE  ArcSpec => OnlyUnpinOverfills
  <1>. DEFINE Kept == \/ Len(t1') + Len(t2') <= Capacity
                      \/ Len(t1') + Len(t2') <= Len(t1) + Len(t2)
                      \/ pinned' # pinned
  <1>1. ASSUME WithinCapacity, ArcNext
        PROVE  Kept
    <2>1. Len(t1) \in Nat /\ Len(t2) \in Nat
      BY <1>1 DEF WithinCapacity, ArcTypeOK
    <2>2. ASSUME NEW key \in Key, TouchPinned(key)
          PROVE  Kept
      BY <2>1, <2>2 DEF TouchPinned
    <2>3. ASSUME NEW key \in Key, UnpinKey(key)
          PROVE  Kept
      BY <2>3 DEF UnpinKey
    <2>4. ASSUME NEW key \in Key, TouchResident(key)
          PROVE  Kept
      BY <1>1, <2>1, <2>4, ResidentTouchSizes
    <2>. QED
      BY <1>1, <2>2, <2>3, <2>4, AbsentTouchSizes, RemovalSizes DEF ArcNext
  <1>2. ArcInit => WithinCapacity
    BY ArcAssumption DEF ArcInit, WithinCapacity, ArcTypeOK, GhostsBounded
  <1>3. WithinCapacity /\ [ArcNext]_arc => [Kept]_arc
    BY <1>1
  <1>. QED  BY <1>2, <1>3, WithinCapacityNext, PTL DEF ArcSpec, OnlyUnpinOverfills

-----------------------------------------------------------------------------
(* The radix trie (RadixTree)                                              *)

\* The sequences of tokens a node can be named by.
Path == Seq(Token)

\* Every set of natural numbers that is not empty has a least member.
LEMMA LeastNatural ==
    ASSUME NEW T \in SUBSET Nat, T # {}
    PROVE  \E x \in T : \A y \in T : x <= y
  <1>. DEFINE R == StrictSubsetOrdering(Nat)
              S == FiniteSubsetsOf(Nat)
              U == {0 .. x : x \in T}
  <1>1. IsWellFoundedOn(R, S)
    BY FS_StrictSubsetOrderingWellFounded
  <1>2. U \subseteq S
    <2>1. \A x \in T : IsFiniteSet(0 .. x)
      BY FS_Interval
    <2>. QED  BY <2>1 DEF FiniteSubsetsOf
  <1>3. U # {}
    OBVIOUS
  <1>4. PICK u \in U : \A v \in U : ~ (<<v, u>> \in R)
    <2>. HIDE DEF R, S, U
    <2>. QED  BY <1>1, <1>2, <1>3, WFMin
  <1>5. PICK x \in T : u = 0 .. x
    OBVIOUS
  <1>6. ASSUME NEW y \in T, y < x  PROVE FALSE
    <2>1. 0 .. y \in U
      OBVIOUS
    <2>2. 0 .. y \subseteq 0 .. x /\ 0 .. y # 0 .. x /\ 0 .. x \subseteq Nat
      <3>1. x \in 0 .. x /\ ~ x \in 0 .. y
        BY <1>6
      <3>. QED  BY <1>6, <3>1
    <2>3. <<0 .. y, u>> \in R
      BY <2>2, <1>5 DEF StrictSubsetOrdering
    <2>. QED  BY <2>1, <2>3, <1>4
  <1>. QED  BY <1>6

\* A set of lengths up to n that is not empty has a greatest member.
LEMMA GreatestUpTo ==
    ASSUME NEW n \in Nat, NEW S \in SUBSET (0 .. n), S # {}
    PROVE  \E x \in S : \A y \in S : y <= x
  <1>. DEFINE T == {n - x : x \in S}
  <1>1. T \in SUBSET Nat /\ T # {}
    <2>1. \A x \in S : n - x \in Nat
      OBVIOUS
    <2>2. PICK x \in S : TRUE
      OBVIOUS
    <2>. QED  BY <2>1, <2>2
  <1>2. PICK m \in T : \A y \in T : m <= y
    <2>. HIDE DEF T
    <2>. QED  BY <1>1, LeastNatural
  <1>3. PICK x \in S : m = n - x
    OBVIOUS
  <1>4. ASSUME NEW y \in S PROVE y <= x
    <2>1. n - y \in T
      OBVIOUS
    <2>2. n - x <= n - y /\ x \in Nat /\ y \in Nat
      <3>1. n - x <= n - y
        BY <1>2, <1>3, <2>1
      <3>. QED  BY <3>1
    <2>. QED  BY <2>2
  <1>. QED  BY <1>4
-----------------------------------------------------------------------------
(* Prefixes *)

\* A prefix, token by token.
LEMMA PrefixIs ==
    ASSUME NEW s \in Path, NEW t \in Path
    PROVE  IsPrefix(s, t) <=> Len(s) <= Len(t) /\ \A i \in 1 .. Len(s) : s[i] = t[i]
  <1>1. /\ Len(s) \in Nat /\ Len(t) \in Nat
        /\ SubSeq(s, 1, Len(s)) = s
    BY DEF Path
  <1>2. CASE Len(s) <= Len(t)
    <2>1. /\ SubSeq(t, 1, Len(s)) \in Path /\ Len(SubSeq(t, 1, Len(s))) = Len(s)
          /\ \A i \in 1 .. Len(s) : SubSeq(t, 1, Len(s))[i] = t[i]
      BY <1>1, <1>2 DEF Path
    <2>2. s = SubSeq(t, 1, Len(s)) <=> \A i \in 1 .. Len(s) : s[i] = t[i]
      BY <2>1, <1>1, SeqEqual DEF Path
    <2>. QED  BY <1>1, <1>2, <2>2 DEF IsPrefix
  <1>. QED  BY <1>2 DEF IsPrefix

\* The prefixes of a path are a chain, ordered by their lengths.
LEMMA PrefixOrder ==
    ASSUME NEW s \in Path, NEW t \in Path, NEW u \in Path
    PROVE  /\ IsPrefix(s, s) /\ IsPrefix(<<>>, s) /\ <<>> \in Path
           /\ IsPrefix(s, t) /\ IsPrefix(t, u) => IsPrefix(s, u)
           /\ IsPrefix(s, t) => Len(s) <= Len(t)
           /\ IsPrefix(s, t) /\ Len(t) <= Len(s) => s = t
           /\ IsPrefix(s, u) /\ IsPrefix(t, u) /\ Len(s) <= Len(t) => IsPrefix(s, t)
           /\ Len(s) \in Nat
  <1>1. <<>> \in Path /\ Len(<<>>) = 0 /\ Len(s) \in Nat /\ Len(t) \in Nat /\ Len(u) \in Nat
    BY DEF Path
  <1>2. IsPrefix(s, s) /\ IsPrefix(<<>>, s)
    BY <1>1, PrefixIs
  <1>3. IsPrefix(s, t) /\ IsPrefix(t, u) => IsPrefix(s, u)
    BY <1>1, PrefixIs
  <1>4. IsPrefix(s, t) => Len(s) <= Len(t)
    BY PrefixIs
  <1>5. ASSUME IsPrefix(s, t), Len(t) <= Len(s) PROVE s = t
    BY <1>1, <1>5, PrefixIs, SeqEqual DEF Path
  <1>6. IsPrefix(s, u) /\ IsPrefix(t, u) /\ Len(s) <= Len(t) => IsPrefix(s, t)
    BY <1>1, PrefixIs
  <1>. QED  BY <1>1, <1>2, <1>3, <1>4, <1>5, <1>6

\* The first n tokens of a path are the prefix of that length.
LEMMA Shortened ==
    ASSUME NEW s \in Path, NEW n \in 0 .. Len(s)
    PROVE  /\ SubSeq(s, 1, n) \in Path /\ Len(SubSeq(s, 1, n)) = n
           /\ IsPrefix(SubSeq(s, 1, n), s)
  <1>1. /\ SubSeq(s, 1, n) \in Path /\ Len(SubSeq(s, 1, n)) = n
        /\ \A i \in 1 .. n : SubSeq(s, 1, n)[i] = s[i]
    BY DEF Path
  <1>2. Len(s) \in Nat /\ n \in Nat /\ n <= Len(s)
    BY DEF Path
  <1>. DEFINE u == SubSeq(s, 1, n)
  <1>3. u \in Path /\ Len(u) <= Len(s) /\ \A i \in 1 .. Len(u) : u[i] = s[i]
    BY <1>1, <1>2
  <1>4. IsPrefix(u, s)
    <2>. HIDE DEF u
    <2>. QED  BY <1>3, PrefixIs
  <1>. QED  BY <1>1, <1>4

Meet(s, t) == LongestCommonPrefix({s, t})

\* The longest common prefix is the greatest lower bound.
LEMMA MeetIs ==
    ASSUME NEW s \in Path, NEW t \in Path
    PROVE  /\ Meet(s, t) \in Path /\ IsPrefix(Meet(s, t), s) /\ IsPrefix(Meet(s, t), t)
           /\ \A u \in Path : IsPrefix(u, s) /\ IsPrefix(u, t) => IsPrefix(u, Meet(s, t))
  <1>. DEFINE C == CommonPrefixes({s, t})
  <1>1. \A u : u \in C <=> u \in Path /\ IsPrefix(u, s) /\ IsPrefix(u, t)
    <2>1. ASSUME NEW u, u \in C PROVE u \in Path /\ IsPrefix(u, s) /\ IsPrefix(u, t)
      <3>1. /\ u \in UNION {Prefixes(q) : q \in {s, t}}
            /\ IsPrefix(u, s) /\ IsPrefix(u, t)
        BY <2>1 DEF CommonPrefixes
      <3>2. PICK q \in {s, t} : u \in Prefixes(q)
        BY <3>1
      <3>3. PICK l \in 0 .. Len(q) : u = SubSeq(q, 1, l)
        BY <3>2 DEF Prefixes
      <3>4. u \in Path
        BY <3>3, Shortened
      <3>. QED  BY <3>1, <3>4
    <2>2. ASSUME NEW u \in Path, IsPrefix(u, s), IsPrefix(u, t) PROVE u \in C
      <3>1. Len(u) \in 0 .. Len(s)
        BY <2>2, PrefixIs DEF Path
      <3>2. u = SubSeq(s, 1, Len(u))
        <4>. DEFINE w == SubSeq(s, 1, Len(u))
        <4>1. w \in Path /\ Len(w) = Len(u) /\ IsPrefix(w, s)
          BY <3>1, Shortened
        <4>2. IsPrefix(u, w)
          <5>. HIDE DEF w
          <5>. QED  BY <4>1, <2>2, PrefixOrder
        <4>3. u = w
          <5>. HIDE DEF w
          <5>. QED  BY <4>1, <4>2, <2>2, <3>1, PrefixOrder
        <4>. QED  BY <4>3
      <3>. QED  BY <2>2, <3>1, <3>2 DEF CommonPrefixes, Prefixes
    <2>. QED  BY <2>1, <2>2
  <1>2. \E m \in C : \A u \in C : Len(u) <= Len(m)
    <2>. DEFINE L == {Len(u) : u \in C}
    <2>1. L \in SUBSET (0 .. Len(s)) /\ L # {} /\ Len(s) \in Nat
      <3>1. <<>> \in C
        BY <1>1, PrefixOrder
      <3>. HIDE DEF C
      <3>2. \A u \in C : Len(u) \in 0 .. Len(s)
        BY <1>1, PrefixOrder
      <3>3. L \subseteq 0 .. Len(s) /\ L # {}
        BY <3>1, <3>2
      <3>4. Len(s) \in Nat
        BY PrefixOrder
      <3>. QED  BY <3>3, <3>4
    <2>2. PICK n \in L : \A l \in L : l <= n
      <3>. HIDE DEF L
      <3>. QED  BY <2>1, GreatestUpTo
    <2>. QED  BY <2>2
  <1>3. Meet(s, t) \in C /\ \A u \in C : Len(u) <= Len(Meet(s, t))
    <2>1. Meet(s, t) = CHOOSE m \in C : \A u \in C : Len(u) <= Len(m)
      BY DEF Meet, LongestCommonPrefix
    <2>. HIDE DEF C
    <2>. QED  BY <1>2, <2>1
  <1>. HIDE DEF C
  <1>. QED  BY <1>1, <1>3, PrefixOrder

\* Two paths that leave s by the same token have more than s in common.
LEMMA SameBranch ==
    ASSUME NEW s \in Path, NEW c \in Path, NEW q \in Path,
           IsPrefix(s, c), s # c, IsPrefix(s, q), s # q
    PROVE  c[Len(s) + 1] = q[Len(s) + 1] <=> Len(s) < Len(Meet(q, c))
  <1>. DEFINE n == Len(s) + 1
              m == Meet(q, c)
  <1>1. /\ m \in Path /\ IsPrefix(m, q) /\ IsPrefix(m, c)
        /\ \A u \in Path : IsPrefix(u, q) /\ IsPrefix(u, c) => IsPrefix(u, m)
    BY MeetIs
  <1>2. Len(s) \in Nat /\ Len(c) \in Nat /\ Len(q) \in Nat /\ Len(s) < Len(c) /\ Len(s) < Len(q)
    BY PrefixOrder
  <1>3. ASSUME c[n] = q[n] PROVE Len(s) < Len(m)
    <2>. DEFINE w == SubSeq(c, 1, n)
    <2>1. /\ w \in Path /\ Len(w) = n /\ IsPrefix(w, c)
      BY <1>2, Shortened
    <2>2. IsPrefix(w, q)
      <3>1. \A i \in 1 .. n : w[i] = c[i]
        <4>. HIDE DEF w
        <4>. QED  BY <2>1, PrefixIs
      <3>2. \A i \in 1 .. n : c[i] = q[i]
        BY <1>2, <1>3, PrefixIs
      <3>. HIDE DEF w
      <3>. QED  BY <1>2, <2>1, <3>1, <3>2, PrefixIs
    <2>3. n <= Len(m)
      <3>. HIDE DEF w, m
      <3>. QED  BY <1>1, <2>1, <2>2, PrefixOrder
    <2>. HIDE DEF m
    <2>. QED  BY <1>1, <1>2, <2>3, PrefixOrder
  <1>4. ASSUME Len(s) < Len(m) PROVE c[n] = q[n]
    <2>1. n \in 1 .. Len(m)
      <3>. HIDE DEF m
      <3>. QED  BY <1>1, <1>2, <1>4, PrefixOrder
    <2>. HIDE DEF m, n
    <2>. QED  BY <1>1, <2>1, PrefixIs
  <1>. QED  BY <1>3, <1>4

-----------------------------------------------------------------------------
(* The walk and the split *)

\* A finite set of paths with the root that is closed under common prefixes.
Tree(D) ==
    /\ D \subseteq Path /\ <<>> \in D /\ IsFiniteSet(D)
    /\ \A s, t \in D : Meet(s, t) \in D

\* The walk ends in the longest node on the way.
LEMMA WalkIs ==
    ASSUME Tree(DOMAIN node), NEW q \in Path
    PROVE  /\ Walk(q) \in DOMAIN node /\ Walk(q) \in Path /\ IsPrefix(Walk(q), q)
           /\ \A t \in DOMAIN node : IsPrefix(t, q) => Len(t) <= Len(Walk(q))
           /\ Walk(q) = q <=> q \in DOMAIN node
  <1>. DEFINE W == {t \in DOMAIN node : IsPrefix(t, q)}
              L == {Len(t) : t \in W}
  <1>1. L \in SUBSET (0 .. Len(q)) /\ L # {} /\ Len(q) \in Nat
    <2>1. <<>> \in W
      BY PrefixOrder DEF Tree
    <2>2. \A t \in W : Len(t) \in 0 .. Len(q)
      BY PrefixOrder DEF Tree
    <2>3. Len(q) \in Nat
      BY PrefixOrder
    <2>. HIDE DEF W
    <2>4. L \subseteq 0 .. Len(q) /\ L # {}
      BY <2>1, <2>2
    <2>. QED  BY <2>3, <2>4
  <1>2. PICK n \in L : \A l \in L : l <= n
    <2>. HIDE DEF L
    <2>. QED  BY <1>1, GreatestUpTo
  <1>3. \E s \in DOMAIN node : /\ IsPrefix(s, q)
                               /\ \A t \in DOMAIN node : IsPrefix(t, q) => Len(t) <= Len(s)
    BY <1>2
  <1>4. /\ Walk(q) \in DOMAIN node /\ IsPrefix(Walk(q), q)
        /\ \A t \in DOMAIN node : IsPrefix(t, q) => Len(t) <= Len(Walk(q))
    BY <1>3 DEF Walk
  <1>5. Walk(q) \in Path
    BY <1>4 DEF Tree
  <1>6. ASSUME q \in DOMAIN node PROVE Walk(q) = q
    BY <1>4, <1>5, <1>6, PrefixOrder
  <1>. QED  BY <1>4, <1>5, <1>6

\* A node that shares more with q than the walk is under a child of its end; the
\* path q leaves both at the same place.
LEMMA ChildAbove ==
    ASSUME Tree(DOMAIN node), NEW q \in Path, q \notin DOMAIN node,
           NEW t \in DOMAIN node, ~ IsPrefix(Meet(q, t), Walk(q))
    PROVE  \E c \in NextChild(Walk(q), q) : Meet(q, t) = Meet(q, c)
  <1>. DEFINE s == Walk(q)
              m == Meet(q, t)
  <1>1. /\ s \in DOMAIN node /\ s \in Path /\ t \in Path /\ IsPrefix(s, q) /\ s # q
        /\ \A u \in DOMAIN node : IsPrefix(u, q) => Len(u) <= Len(s)
    BY WalkIs DEF Tree
  <1>2. m \in Path /\ IsPrefix(m, q) /\ IsPrefix(m, t)
    BY <1>1, MeetIs
  <1>3. Len(s) < Len(m) /\ IsPrefix(s, m)
    <2>1. ~ IsPrefix(m, s)
      OBVIOUS
    <2>. HIDE DEF s, m
    <2>2. Len(s) < Len(m)
      BY <1>1, <1>2, <2>1, PrefixOrder
    <2>. QED  BY <1>1, <1>2, <2>2, PrefixOrder
  <1>4. IsPrefix(s, t) /\ s # t
    <2>. HIDE DEF s, m
    <2>. QED  BY <1>1, <1>2, <1>3, PrefixOrder
  <1>5. t[Len(s) + 1] = q[Len(s) + 1]
    <2>1. Len(s) < Len(Meet(q, t))
      BY <1>3
    <2>. HIDE DEF s, m
    <2>. QED  BY <1>1, <1>4, <2>1, SameBranch
  <1>. DEFINE U == {u \in Below(s) : IsPrefix(u, t)}
              L == {Len(u) : u \in U}
  <1>6. U \subseteq Path /\ t \in U
    <2>. HIDE DEF s, m
    <2>. QED  BY <1>1, <1>4, PrefixOrder DEF Below, Tree, IsStrictPrefix
  <1>7. PICK c \in U : \A u \in U : Len(c) <= Len(u)
    <2>1. L \in SUBSET Nat /\ L # {}
      <3>. HIDE DEF U
      <3>1. \A u \in U : Len(u) \in Nat
        BY <1>6, PrefixOrder
      <3>. QED  BY <1>6, <3>1
    <2>2. PICK n \in L : \A l \in L : n <= l
      <3>. HIDE DEF L
      <3>. QED  BY <2>1, LeastNatural
    <2>. HIDE DEF U
    <2>. QED  BY <2>2
  <1>8. /\ c \in Path /\ c \in DOMAIN node /\ IsPrefix(c, t) /\ IsPrefix(s, c) /\ s # c
        /\ c \in Below(s) /\ Len(s) < Len(c)
    <2>. HIDE DEF s, m
    <2>. QED  BY <1>1, <1>6, PrefixOrder DEF Below, IsStrictPrefix
  <1>9. c \in NextChild(s, q)
    <2>1. c[Len(s) + 1] = t[Len(s) + 1]
      <3>. HIDE DEF s, m
      <3>1. Len(s) + 1 \in 1 .. Len(c)
        BY <1>1, <1>8, PrefixOrder
      <3>. QED  BY <1>1, <1>8, <3>1, PrefixIs
    <2>2. ASSUME NEW u \in Below(s), IsPrefix(u, c) PROVE u = c
      <3>1. u \in Path
        BY <1>1 DEF Below, Tree
      <3>2. u \in U
        <4>. HIDE DEF s, m
        <4>. QED  BY <1>1, <1>8, <2>2, <3>1, PrefixOrder
      <3>. HIDE DEF s, m, U
      <3>. QED  BY <1>7, <1>8, <2>2, <3>1, <3>2, PrefixOrder
    <2>. HIDE DEF s, m, U
    <2>. QED  BY <1>5, <1>8, <2>1, <2>2 DEF NextChild
  <1>10. ~ IsPrefix(c, q)
    <2>. HIDE DEF s, m, U
    <2>. QED  BY <1>1, <1>8, PrefixOrder
  <1>11. m = Meet(q, c)
    <2>. DEFINE k == Meet(q, c)
    <2>1. /\ k \in Path /\ IsPrefix(k, q) /\ IsPrefix(k, c)
          /\ \A u \in Path : IsPrefix(u, q) /\ IsPrefix(u, c) => IsPrefix(u, k)
      BY <1>8, MeetIs
    <2>2. IsPrefix(k, m)
      <3>1. IsPrefix(k, t)
        <4>. HIDE DEF k, s, m, U
        <4>. QED  BY <1>1, <1>8, <2>1, PrefixOrder
      <3>. HIDE DEF k, s, U
      <3>. QED  BY <1>1, <2>1, <3>1, MeetIs
    <2>3. IsPrefix(m, c)
      <3>. HIDE DEF k, s, m, U
      <3>. QED  BY <1>1, <1>2, <1>8, <1>10, PrefixOrder
    <2>4. m = k
      <3>. HIDE DEF k, s, m, U
      <3>1. IsPrefix(m, k)
        BY <1>2, <2>1, <2>3
      <3>. QED  BY <1>2, <2>1, <2>2, <3>1, PrefixOrder
    <2>. QED  BY <2>4
  <1>. QED  BY <1>9, <1>11

\* The child for the next token is one at most, and q leaves its edge inside.
LEMMA ChildFacts ==
    ASSUME Tree(DOMAIN node), NEW q \in Path, q \notin DOMAIN node,
           NEW c \in NextChild(Walk(q), q)
    PROVE  /\ c \in DOMAIN node /\ c \in Path /\ IsStrictPrefix(Meet(q, c), c)
           /\ Meet(q, c) \in Path /\ IsPrefix(Meet(q, c), q) /\ Meet(q, c) \notin DOMAIN node
           /\ Len(Walk(q)) < Len(Meet(q, c))
           /\ \A e \in NextChild(Walk(q), q) : e = c
  <1>. DEFINE s == Walk(q)
              m == Meet(q, c)
  <1>1. /\ s \in DOMAIN node /\ s \in Path /\ IsPrefix(s, q) /\ s # q
        /\ \A u \in DOMAIN node : IsPrefix(u, q) => Len(u) <= Len(s)
    BY WalkIs
  <1>2. ASSUME NEW e \in NextChild(s, q)
        PROVE  /\ e \in DOMAIN node /\ e \in Path /\ IsPrefix(s, e) /\ s # e
               /\ e[Len(s) + 1] = q[Len(s) + 1] /\ Len(s) < Len(e)
               /\ \A t \in Below(s) : IsPrefix(t, e) => t = e
    <2>1. /\ e \in DOMAIN node /\ e \in Path /\ IsPrefix(s, e) /\ s # e
          /\ e[Len(s) + 1] = q[Len(s) + 1]
          /\ \A t \in Below(s) : IsPrefix(t, e) => t = e
      BY DEF NextChild, Below, IsStrictPrefix, Tree
    <2>. HIDE DEF s
    <2>. QED  BY <1>1, <2>1, PrefixOrder
  <1>3. m \in Path /\ IsPrefix(m, q) /\ IsPrefix(m, c)
    BY <1>2, MeetIs
  <1>4. Len(s) < Len(m)
    <2>1. Len(s) < Len(Meet(q, c))
      <3>1. /\ c \in Path /\ IsPrefix(s, c) /\ s # c /\ c[Len(s) + 1] = q[Len(s) + 1]
        BY <1>2
      <3>. HIDE DEF s
      <3>. QED  BY <1>1, <3>1, SameBranch
    <2>. QED  BY <2>1
  <1>5. m \notin DOMAIN node
    <2>. HIDE DEF s, m
    <2>. QED  BY <1>1, <1>3, <1>4, PrefixOrder
  <1>6. m # c
    BY <1>2, <1>5
  <1>7. ASSUME NEW e \in NextChild(s, q) PROVE e = c
    <2>. DEFINE k == Meet(e, c)
    <2>1. /\ c \in Path /\ c \in DOMAIN node /\ IsPrefix(s, c) /\ s # c
          /\ c[Len(s) + 1] = q[Len(s) + 1]
          /\ \A t \in Below(s) : IsPrefix(t, c) => t = c
      BY <1>2
    <2>2. /\ e \in Path /\ e \in DOMAIN node /\ IsPrefix(s, e) /\ s # e
          /\ e[Len(s) + 1] = q[Len(s) + 1]
          /\ \A t \in Below(s) : IsPrefix(t, e) => t = e
      BY <1>2
    <2>3. k \in DOMAIN node /\ k \in Path /\ IsPrefix(k, e) /\ IsPrefix(k, c)
      BY <2>1, <2>2, MeetIs DEF Tree
    <2>4. Len(s) < Len(k)
      <3>1. Len(s) < Len(Meet(e, c))
        <4>. HIDE DEF s, k, m
        <4>. QED  BY <1>1, <2>1, <2>2, SameBranch
      <3>. QED  BY <3>1
    <2>5. k \in Below(s)
      <3>. HIDE DEF s, k, m
      <3>1. IsPrefix(s, k)
        BY <1>1, <2>2, <2>3, <2>4, PrefixOrder
      <3>. QED  BY <1>1, <2>3, <2>4, <3>1, PrefixOrder DEF Below, IsStrictPrefix
    <2>6. k = e /\ k = c
      <3>. HIDE DEF s, k, m
      <3>. QED  BY <2>1, <2>2, <2>3, <2>5
    <2>. QED  BY <2>6
  <1>8. IsStrictPrefix(m, c)
    BY <1>3, <1>6 DEF IsStrictPrefix
  <1>. QED  BY <1>2, <1>3, <1>4, <1>5, <1>7, <1>8

\* Where insert splits an edge: at most one place, above a node.
LEMMA SplitIs ==
    ASSUME Tree(DOMAIN node), NEW q \in Path, q \notin DOMAIN node
    PROVE  LET P == SplitPoint(Walk(q), q)
           IN  /\ P = {Meet(q, c) : c \in NextChild(Walk(q), q)}
               /\ \A w, r \in P : w = r
               /\ \A w \in P : /\ w \in Path /\ IsPrefix(w, q) /\ w \notin DOMAIN node
                               /\ \E c \in DOMAIN node : IsStrictPrefix(w, c)
  <1>1. SplitPoint(Walk(q), q) = {Meet(q, c) : c \in NextChild(Walk(q), q)}
    BY ChildFacts DEF SplitPoint, Meet
  <1>. QED  BY <1>1, ChildFacts

\* The tree with q and the split point is a tree.
LEMMA SplitCloses ==
    ASSUME Tree(DOMAIN node), NEW q \in Path, q \notin DOMAIN node
    PROVE  Tree(DOMAIN node \cup {q} \cup SplitPoint(Walk(q), q))
  <1>. DEFINE s == Walk(q)
              P == SplitPoint(s, q)
              D == DOMAIN node
              E == D \cup {q} \cup P
  <1>1. /\ P = {Meet(q, c) : c \in NextChild(s, q)}
        /\ \A w, r \in P : w = r
        /\ \A w \in P : /\ w \in Path /\ IsPrefix(w, q) /\ w \notin D
                        /\ \E c \in D : IsStrictPrefix(w, c)
    BY SplitIs
  <1>2. s \in D /\ s \in Path /\ IsPrefix(s, q) /\ D \subseteq Path
    BY WalkIs DEF Tree
  <1>3. E \subseteq Path /\ <<>> \in E
    BY <1>1, <1>2 DEF Tree
  <1>4. IsFiniteSet(E)
    <2>1. IsFiniteSet(D \cup {q})
      BY FS_AddElement DEF Tree
    <2>2. CASE P = {}
      BY <2>1, <2>2
    <2>3. CASE P # {}
      <3>1. PICK w \in P : P = {w}
        <4>. HIDE DEF P
        <4>. QED  BY <1>1, <2>3
      <3>. QED  BY <2>1, <3>1, FS_AddElement
    <2>. QED  BY <2>2, <2>3
  <1>5. ASSUME NEW x \in Path, NEW y \in Path PROVE Meet(x, y) = Meet(y, x)
    <2>1. {x, y} = {y, x}
      OBVIOUS
    <2>. QED  BY <2>1 DEF Meet
  <1>6. ASSUME NEW x \in Path PROVE Meet(x, x) = x
    BY MeetIs, PrefixOrder
  <1>7. ASSUME NEW t \in D PROVE Meet(q, t) \in E
    <2>. DEFINE m == Meet(q, t)
    <2>1. /\ m \in Path /\ IsPrefix(m, q) /\ IsPrefix(m, t)
          /\ \A u \in Path : IsPrefix(u, q) /\ IsPrefix(u, t) => IsPrefix(u, m)
      BY <1>2, MeetIs
    <2>2. CASE IsPrefix(m, s)
      <3>. DEFINE k == Meet(s, t)
      <3>1. /\ k \in D /\ k \in Path /\ IsPrefix(k, s) /\ IsPrefix(k, t)
            /\ \A u \in Path : IsPrefix(u, s) /\ IsPrefix(u, t) => IsPrefix(u, k)
        BY <1>2, MeetIs DEF Tree
      <3>2. m = k
        <4>. HIDE DEF m, k, s, P
        <4>1. IsPrefix(k, q)
          BY <1>2, <3>1, PrefixOrder
        <4>2. IsPrefix(k, m) /\ IsPrefix(m, k)
          BY <2>1, <2>2, <3>1, <4>1
        <4>. QED  BY <2>1, <3>1, <4>2, PrefixOrder
      <3>. QED  BY <3>1, <3>2
    <2>3. CASE ~ IsPrefix(m, s)
      <3>1. \E c \in NextChild(s, q) : Meet(q, t) = Meet(q, c)
        BY <2>3, ChildAbove
      <3>. QED  BY <1>1, <3>1
    <2>. QED  BY <2>2, <2>3
  <1>8. ASSUME NEW w \in P, NEW t \in D PROVE Meet(w, t) \in E
    <2>1. PICK c \in D : IsStrictPrefix(w, c)
      BY <1>1
    <2>. DEFINE m == Meet(w, t)
                k == Meet(c, t)
    <2>2. /\ w \in Path /\ c \in Path /\ t \in Path /\ IsPrefix(w, c) /\ w # c
      BY <1>1, <1>2, <2>1 DEF IsStrictPrefix
    <2>3. /\ m \in Path /\ IsPrefix(m, w) /\ IsPrefix(m, t)
          /\ \A u \in Path : IsPrefix(u, w) /\ IsPrefix(u, t) => IsPrefix(u, m)
      BY <2>2, MeetIs
    <2>4. /\ k \in D /\ k \in Path /\ IsPrefix(k, c) /\ IsPrefix(k, t)
          /\ \A u \in Path : IsPrefix(u, c) /\ IsPrefix(u, t) => IsPrefix(u, k)
      BY <2>2, MeetIs DEF Tree
    <2>5. m = w \/ m = k
      <3>. HIDE DEF m, k, s, P
      <3>1. IsPrefix(m, k)
        BY <2>2, <2>3, <2>4, PrefixOrder
      <3>2. CASE Len(w) <= Len(k)
        <4>1. IsPrefix(w, k)
          BY <3>2, <2>2, <2>4, PrefixOrder
        <4>2. IsPrefix(w, t)
          BY <4>1, <2>2, <2>4, PrefixOrder
        <4>3. IsPrefix(w, m)
          BY <4>2, <2>2, <2>3, PrefixOrder
        <4>. QED  BY <4>3, <2>2, <2>3, PrefixOrder
      <3>3. CASE Len(k) <= Len(w)
        <4>1. IsPrefix(k, w)
          BY <3>3, <2>2, <2>4, PrefixOrder
        <4>2. IsPrefix(k, m)
          BY <4>1, <2>3, <2>4
        <4>. QED  BY <3>1, <4>2, <2>3, <2>4, PrefixOrder
      <3>4. Len(k) \in Nat /\ Len(w) \in Nat
        BY <2>2, <2>4, PrefixOrder
      <3>. QED  BY <3>2, <3>3, <3>4
    <2>. QED  BY <2>4, <2>5
  <1>9. ASSUME NEW w \in P PROVE Meet(w, q) \in E
    <2>. DEFINE m == Meet(w, q)
    <2>1. /\ w \in Path /\ IsPrefix(w, q) /\ m \in Path /\ IsPrefix(m, w)
          /\ \A u \in Path : IsPrefix(u, w) /\ IsPrefix(u, q) => IsPrefix(u, m)
      BY <1>1, MeetIs
    <2>2. m = w
      <3>. HIDE DEF m, s, P
      <3>. QED  BY <2>1, PrefixOrder
    <2>. QED  BY <2>2
  <1>10. ASSUME NEW x \in E, NEW y \in E PROVE Meet(x, y) \in E
    <2>1. CASE x \in D /\ y \in D
      BY <2>1 DEF Tree
    <2>2. CASE x = q /\ y \in D
      BY <2>2, <1>7
    <2>3. CASE x \in D /\ y = q
      BY <2>3, <1>2, <1>5, <1>7
    <2>4. CASE x = q /\ y = q
      BY <2>4, <1>6
    <2>5. CASE x \in P /\ y \in D
      BY <2>5, <1>8
    <2>6. CASE x \in D /\ y \in P
      BY <2>6, <1>3, <1>5, <1>8
    <2>7. CASE x \in P /\ y = q
      BY <2>7, <1>9
    <2>8. CASE x = q /\ y \in P
      BY <2>8, <1>3, <1>5, <1>9
    <2>9. CASE x \in P /\ y \in P
      BY <2>9, <1>1, <1>6
    <2>. QED  BY <2>1, <2>2, <2>3, <2>4, <2>5, <2>6, <2>7, <2>8, <2>9
  <1>. QED  BY <1>3, <1>4, <1>10 DEF Tree

-----------------------------------------------------------------------------
(* The trie *)

\* The inductive invariant: a well-formed trie over a tree of paths.
Entry == [value : Handle \cup {NoValue}, pinned : BOOLEAN]
TreeInv ==
    /\ Tree(DOMAIN node) /\ node \in [DOMAIN node -> Entry]
    /\ WellFormed /\ NoDanglingHandle

\* The nodes that unlink frees.
Bare(gone, t) ==
    /\ t \in gone \/ node[t].value = NoValue
    /\ ~ node[t].pinned
    /\ \E g \in gone : IsPrefix(t, g)
Dead(gone) == {t \in DOMAIN node \ {<<>>} : \A u \in Below(t) \cup {t} : Bare(gone, u)}

\* Unlink in terms of the nodes that die.
LEMMA UnlinkIs ==
    ASSUME NEW gone
    PROVE  Unlink(gone) = [t \in DOMAIN node \ Dead(gone) |->
                             IF t \in gone THEN [node[t] EXCEPT !.value = NoValue] ELSE node[t]]
  BY DEF Unlink, Dead, Bare

\* What is left when unlink has freed its nodes: a tree, without dead branches,
\* with all the other registrations.
LEMMA UnlinkKeeps ==
    ASSUME TreeInv, NEW gone \in SUBSET Registered
    PROVE  LET N == Unlink(gone)
           IN  /\ Tree(DOMAIN N) /\ DOMAIN N \subseteq DOMAIN node /\ N \in [DOMAIN N -> Entry]
               /\ {t \in DOMAIN N : N[t].value # NoValue} = Registered \ gone
               /\ \A t \in DOMAIN N : N[t].pinned = node[t].pinned
               /\ \A t \in DOMAIN N : t \notin gone => N[t] = node[t]
               /\ \A t \in DOMAIN N : t \in gone => N[t].value = NoValue
               /\ \A t \in DOMAIN N \ {<<>>} :
                    \/ \E u \in DOMAIN N : IsStrictPrefix(t, u)
                    \/ N[t].value # NoValue \/ N[t].pinned
  <1>. DEFINE N == Unlink(gone)
              D == DOMAIN node
              X == Dead(gone)
  <1>1. /\ DOMAIN N = D \ X
        /\ \A t \in D \ X : N[t] = IF t \in gone THEN [node[t] EXCEPT !.value = NoValue] ELSE node[t]
        /\ N \in [D \ X -> {N[t] : t \in D \ X}]
    BY UnlinkIs
  <1>2. /\ Tree(D) /\ D \subseteq Path /\ \A t \in D : node[t] \in Entry
    BY DEF TreeInv, Tree
  <1>3. \A t \in X : t \in D /\ t # <<>> /\ \A u \in Below(t) \cup {t} : Bare(gone, u)
    BY DEF Dead
  <1>4. \A t \in D : t \notin X /\ t # <<>> => \E u \in Below(t) \cup {t} : ~ Bare(gone, u)
    BY DEF Dead
  <1>. HIDE DEF N, X
  <1>5. \A t \in D \ X : /\ N[t] \in Entry /\ N[t].pinned = node[t].pinned
                         /\ t \notin gone => N[t] = node[t]
                         /\ t \in gone => N[t].value = NoValue
    BY <1>1, <1>2 DEF Entry
  <1>6. N \in [DOMAIN N -> Entry]
    BY <1>1, <1>5
  <1>7. \A t \in Registered \ gone : t \in D \ X
    BY <1>3 DEF Registered, Bare
  <1>8. {t \in DOMAIN N : N[t].value # NoValue} = Registered \ gone
    BY <1>1, <1>5, <1>7 DEF Registered
  <1>9. Tree(D \ X)
    <2>1. <<>> \in D \ X /\ D \ X \subseteq Path
      BY <1>2, <1>3 DEF Tree
    <2>2. IsFiniteSet(D \ X)
      BY <1>2, FS_Difference DEF Tree
    <2>3. ASSUME NEW s \in D \ X, NEW t \in D \ X PROVE Meet(s, t) \in D \ X
      <3>. DEFINE m == Meet(s, t)
      <3>1. m \in D /\ m \in Path /\ IsPrefix(m, s) /\ s \in Path
        BY <1>2, MeetIs DEF Tree
      <3>2. ASSUME m \in X PROVE FALSE
        <4>. HIDE DEF m
        <4>1. m # s /\ m # <<>> /\ \A u \in Below(m) \cup {m} : Bare(gone, u)
          BY <3>2, <1>3
        <4>2. s # <<>>
          BY <3>1, <4>1, PrefixOrder
        <4>3. PICK u \in Below(s) \cup {s} : ~ Bare(gone, u)
          BY <1>4, <4>2
        <4>4. u \in D /\ u \in Path /\ IsPrefix(s, u)
          BY <4>3, <1>2, <3>1, PrefixOrder DEF Below, IsStrictPrefix
        <4>5. IsPrefix(m, u) /\ m # u
          <5>1. IsPrefix(m, u)
            BY <3>1, <4>4, PrefixOrder
          <5>2. ASSUME m = u PROVE FALSE
            BY <5>2, <4>1, <4>4, <3>1, PrefixOrder
          <5>. QED  BY <5>1, <5>2
        <4>6. u \in Below(m)
          BY <4>4, <4>5 DEF Below, IsStrictPrefix
        <4>. QED  BY <4>1, <4>3, <4>6
      <3>. QED  BY <3>1, <3>2
    <2>. QED  BY <2>1, <2>2, <2>3 DEF Tree
  <1>10. ASSUME NEW t \in (D \ X) \ {<<>>}
         PROVE  \/ \E u \in D \ X : IsStrictPrefix(t, u)
                \/ N[t].value # NoValue \/ N[t].pinned
    <2>1. PICK u \in Below(t) \cup {t} : ~ Bare(gone, u)
      BY <1>4
    <2>2. u \in D /\ u \notin X
      BY <1>3, <2>1 DEF Below
    <2>3. CASE u # t
      BY <2>1, <2>2, <2>3 DEF Below
    <2>4. CASE u = t
      <3>1. CASE t \notin gone /\ node[t].value # NoValue
        BY <3>1, <1>5
      <3>2. CASE node[t].pinned
        BY <3>2, <1>5
      <3>3. CASE \A g \in gone : ~ IsPrefix(t, g)
        <4>1. t \notin gone
          BY <3>3, <1>2, PrefixOrder
        <4>2. CASE Below(t) = {}
          <5>1. node[t].value # NoValue \/ node[t].pinned
            BY <4>2 DEF TreeInv, WellFormed, RadixShape
          <5>. QED  BY <4>1, <5>1, <1>5
        <4>3. CASE Below(t) # {}
          <5>1. PICK w \in Below(t) : TRUE
            BY <4>3
          <5>2. w \in D /\ w \in Path /\ t \in Path /\ IsStrictPrefix(t, w) /\ IsPrefix(t, w)
            BY <5>1, <1>2 DEF Below, IsStrictPrefix
          <5>3. \A g \in gone : g \in Path
            BY <1>2 DEF Registered
          <5>4. ~ Bare(gone, w)
            BY <3>3, <5>2, <5>3, PrefixOrder DEF Bare
          <5>5. w \notin X
            BY <1>3, <5>4
          <5>. QED  BY <5>2, <5>5
        <4>. QED  BY <4>2, <4>3
      <3>. QED  BY <2>1, <2>4, <3>1, <3>2, <3>3 DEF Bare
    <2>. QED  BY <2>3, <2>4
  <1>11. /\ Tree(DOMAIN N) /\ DOMAIN N \subseteq DOMAIN node /\ N \in [DOMAIN N -> Entry]
         /\ {t \in DOMAIN N : N[t].value # NoValue} = Registered \ gone
         /\ \A t \in DOMAIN N : N[t].pinned = node[t].pinned
         /\ \A t \in DOMAIN N : t \notin gone => N[t] = node[t]
         /\ \A t \in DOMAIN N : t \in gone => N[t].value = NoValue
         /\ \A t \in DOMAIN N \ {<<>>} :
              \/ \E u \in DOMAIN N : IsStrictPrefix(t, u)
              \/ N[t].value # NoValue \/ N[t].pinned
    BY <1>1, <1>5, <1>6, <1>8, <1>9, <1>10
  <1>. QED  BY <1>11 DEF N

\* The domain of the ranks after a stamp and after a removal.
LEMMA StampDomain ==
    ASSUME NEW order, NEW S
    PROVE  DOMAIN Stamp(order, S) = DOMAIN order \cup S /\ DOMAIN Forget(order, S) = DOMAIN order \ S
  BY DEF Stamp, Forget, Ranked

\* The registrations are finitely many, as many as len says.
LEMMA Finite ==
    ASSUME TreeInv
    PROVE  IsFiniteSet(Registered) /\ len = Cardinality(Registered) /\ DOMAIN hits = Registered
  <1>1. IsFiniteSet(DOMAIN node)
    BY DEF TreeInv, Tree
  <1>2. IsFiniteSet(Registered)
    <2>1. Registered \in SUBSET DOMAIN node
      BY DEF Registered
    <2>. QED  BY <1>1, <2>1, FS_Subset
  <1>. QED  BY <1>2 DEF TreeInv, WellFormed, CountsAgree

\* What a removal does to the registrations.
LEMMA RemovalIs ==
    ASSUME TreeInv, NEW gone \in SUBSET Registered, node' = Unlink(gone)
    PROVE  /\ Registered' = Registered \ gone
           /\ \A t \in Registered' : node'[t] = node[t]
           /\ Handles' = Handles \ {node[t].value : t \in gone}
  <1>1. /\ Registered' = Registered \ gone
        /\ \A t \in DOMAIN node' : t \notin gone => node'[t] = node[t]
    BY UnlinkKeeps DEF Registered
  <1>2. \A t \in Registered' : node'[t] = node[t]
    BY <1>1 DEF Registered
  <1>3. \A s, t \in Registered : node[s].value = node[t].value => s = t
    BY DEF TreeInv, WellFormed, RadixShape
  <1>4. Handles' = {node[t].value : t \in Registered \ gone}
    BY <1>1, <1>2 DEF Handles
  <1>. QED  BY <1>1, <1>2, <1>3, <1>4 DEF Handles

\* Counting what is left of a finite set without a part of it.
LEMMA PartCount ==
    ASSUME NEW S, NEW T, T \subseteq S, IsFiniteSet(S)
    PROVE  /\ IsFiniteSet(T) /\ IsFiniteSet(S \ T)
           /\ Cardinality(S \ T) = Cardinality(S) - Cardinality(T)
  <1>1. S \cap T = T
    OBVIOUS
  <1>2. /\ IsFiniteSet(S \ T)
        /\ Cardinality(S \ T) = Cardinality(S) - Cardinality(S \cap T)
    BY FS_Difference
  <1>3. IsFiniteSet(T)
    BY FS_Subset
  <1>. QED  BY <1>1, <1>2, <1>3

\* A removal keeps the trie well-formed.
LEMMA RemovalKeeps ==
    ASSUME TreeInv, NEW gone \in SUBSET Registered, node' = Unlink(gone),
           hits' = Forget(hits, gone), len' = len - Cardinality(gone),
           owned' \subseteq owned, held' \subseteq held,
           Handles \ {node[t].value : t \in gone} \subseteq held'
    PROVE  TreeInv'
  <1>1. /\ Registered' = Registered \ gone
        /\ \A t \in Registered' : node'[t] = node[t]
        /\ Handles' \subseteq held'
    BY RemovalIs
  <1>2. /\ Tree(DOMAIN node') /\ DOMAIN node' \subseteq DOMAIN node
        /\ node' \in [DOMAIN node' -> Entry]
        /\ \A t \in DOMAIN node' \ {<<>>} :
             \/ \E u \in DOMAIN node' : IsStrictPrefix(t, u)
             \/ node'[t].value # NoValue \/ node'[t].pinned
    BY UnlinkKeeps
  <1>3. len' = Cardinality(Registered') /\ len' \in Nat /\ DOMAIN hits' = Registered'
    <2>1. IsFiniteSet(Registered) /\ len = Cardinality(Registered) /\ DOMAIN hits = Registered
      BY Finite
    <2>2. /\ IsFiniteSet(Registered \ gone)
          /\ Cardinality(Registered \ gone) = Cardinality(Registered) - Cardinality(gone)
      BY <2>1, PartCount
    <2>. QED  BY <1>1, <2>1, <2>2, FS_CardinalityType, StampDomain
  <1>4. TypeOK'
    <2>1. /\ \A t \in DOMAIN node \ {<<>>} : \E q \in Prompt : IsPrefix(t, q)
          /\ owned \subseteq Handle /\ held \subseteq Handle
      BY DEF TreeInv, WellFormed, TypeOK
    <2>. QED  BY <1>2, <1>3, <2>1 DEF TypeOK, Entry
  <1>5. RadixShape'
    <2>1. \A s, t \in Registered : node[s].value = node[t].value => s = t
      BY DEF TreeInv, WellFormed, RadixShape
    <2>. QED  BY <1>1, <1>2, <2>1 DEF RadixShape, Tree, Meet, Below
  <1>6. CountsAgree'
    BY <1>3 DEF CountsAgree
  <1>. QED  BY <1>1, <1>2, <1>4, <1>5, <1>6 DEF TreeInv, WellFormed, NoDanglingHandle

\* The node of a handle.
LEMMA NodeOfIs ==
    ASSUME TreeInv, NEW v \in Handles
    PROVE  NodeOf(v) \in Registered /\ node[NodeOf(v)].value = v
  <1>1. \E s \in Registered : node[s].value = v
    BY DEF Handles
  <1>. QED  BY <1>1 DEF NodeOf

\* vc_remove and its variants.
LEMMA RemoveKeeps ==
    ASSUME TreeInv, NEW v \in Handles, RemoveValue(v)
    PROVE  TreeInv'
  <1>. DEFINE g == {NodeOf(v)}
  <1>1. g \in SUBSET Registered /\ {node[t].value : t \in g} = {v} /\ Cardinality(g) = 1
    <2>1. NodeOf(v) \in Registered /\ node[NodeOf(v)].value = v
      BY NodeOfIs
    <2>2. Cardinality(g) = 1
      BY FS_Singleton
    <2>. QED  BY <2>1, <2>2
  <1>2. /\ node' = Unlink(g) /\ hits' = Forget(hits, g) /\ len' = len - Cardinality(g)
        /\ owned' \subseteq owned /\ held' \subseteq held
    BY <1>1 DEF RemoveValue
  <1>3. Handles \ {node[t].value : t \in g} \subseteq held'
    BY <1>1 DEF RemoveValue, TreeInv, NoDanglingHandle
  <1>. HIDE DEF g
  <1>. QED  BY <1>1, <1>2, <1>3, RemovalKeeps

\* vc_evict: what is reported is gone.
LEMMA EvictKeeps ==
    ASSUME TreeInv, NEW max, Evict(max)
    PROVE  TreeInv'
  <1>1. PICK gone \in SUBSET Loose :
          /\ Report(max, {node[s].value : s \in gone})
          /\ node' = Unlink(gone) /\ hits' = Forget(hits, gone)
          /\ len' = len - Cardinality(gone)
          /\ owned' = owned \ {node[s].value : s \in gone}
    BY DEF Evict
  <1>2. gone \in SUBSET Registered
    BY DEF Loose
  <1>3. PICK reported \in SUBSET {node[s].value : s \in gone} : held' = held \ reported
    BY <1>1 DEF Report
  <1>4. held' \subseteq held /\ Handles \ {node[t].value : t \in gone} \subseteq held'
    BY <1>3 DEF TreeInv, NoDanglingHandle
  <1>. QED  BY <1>1, <1>2, <1>4, RemovalKeeps

\* What insert does: it replaces a value, splits and registers, or ends at the split.
LEMMA InsertIs ==
    ASSUME TreeInv, NEW q \in Prompt, NEW v \in Handle, Insert(q, v)
    PROVE  LET P == SplitPoint(Walk(q), q)
           IN  /\ q \in Path /\ v \notin Handles /\ v # NoValue
               /\ \A t \in DOMAIN node \ {q} : t \in DOMAIN node' /\ node'[t] = node[t]
               /\ node' \in [DOMAIN node' -> Entry]
               /\ \/ /\ q \in DOMAIN node /\ DOMAIN node' = DOMAIN node
                     /\ node'[q] = [node[q] EXCEPT !.value = v]
                     /\ answer' = [op |-> "insert", seq |-> q, value |-> v, old |-> node[q].value]
                     /\ held' = (held \ {node[q].value}) \cup {v} /\ owned' = owned \ {node[q].value}
                     /\ UnpinsFirst => node[q].value \notin owned
                     /\ hits' = Stamp(hits, {q}) /\ len' = Counted(node[q].value)
                  \/ /\ q \notin DOMAIN node
                     /\ answer' = [op |-> "insert", seq |-> q, value |-> v, old |-> NoValue]
                     /\ held' = (held \ {NoValue}) \cup {v} /\ owned' = owned \ {NoValue}
                     /\ \A t \in P \ {q} : node'[t] = [value |-> NoValue, pinned |-> FALSE]
                     /\ DOMAIN node' = DOMAIN node \cup {q} \cup P
                     /\ \/ /\ q \notin P
                           /\ node'[q] = [value |-> v, pinned |-> FALSE]
                           /\ hits' = Stamp(hits, {q}) /\ len' = len + 1
                        \/ /\ q \in P
                           /\ node'[q] = [value |-> NoValue, pinned |-> FALSE]
                           /\ UNCHANGED <<hits, len>>
  <1>. DEFINE s == Walk(q)
              D == DOMAIN node
              P == SplitPoint(s, q)
              B == [value |-> NoValue, pinned |-> FALSE]
  <1>1. /\ q \in Path /\ v # NoValue /\ Tree(D) /\ node \in [D -> Entry]
        /\ v \notin Handles
    BY RadixAssumption DEF Path, TreeInv, Insert
  <1>2. s = q <=> q \in D
    BY <1>1, WalkIs
  <1>3. ASSUME NEW w \in {v, NoValue}
        PROVE  /\ DOMAIN Put(q, w) = D \cup {q}
               /\ \A t \in D \ {q} : Put(q, w)[t] = node[t]
               /\ q \in D => Put(q, w)[q] = [node[q] EXCEPT !.value = w]
               /\ q \notin D => Put(q, w)[q] = [value |-> w, pinned |-> FALSE]
    BY DEF Put
  <1>. HIDE DEF s
  <1>4. CASE q \in D
    <2>1. /\ node' = [t \in DOMAIN Put(q, v) \cup {} |-> IF t \in {} THEN B ELSE Put(q, v)[t]]
          /\ answer' = [op |-> "insert", seq |-> q, value |-> v, old |-> node[q].value]
          /\ held' = (held \ {node[q].value}) \cup {v} /\ owned' = owned \ {node[q].value}
          /\ UnpinsFirst => node[q].value \notin owned
          /\ hits' = Stamp(hits, {q}) /\ len' = Counted(node[q].value)
      BY <1>2, <1>4 DEF Insert, s
    <2>2. /\ DOMAIN node' = D /\ node'[q] = [node[q] EXCEPT !.value = v]
          /\ \A t \in D \ {q} : t \in DOMAIN node' /\ node'[t] = node[t]
          /\ node' = [t \in D |-> node'[t]]
      BY <2>1, <1>3, <1>4
    <2>3. \A t \in D : node'[t] \in Entry
      BY <1>1, <1>4, <2>2 DEF Entry
    <2>4. node' \in [D -> Entry]
      BY <2>2, <2>3
    <2>. QED  BY <1>1, <1>4, <2>1, <2>2, <2>4
  <1>5. CASE q \notin D
    <2>1. /\ answer' = [op |-> "insert", seq |-> q, value |-> v, old |-> NoValue]
          /\ held' = (held \ {NoValue}) \cup {v} /\ owned' = owned \ {NoValue}
          /\ IF q \in P
               THEN node' = Put(q, NoValue) /\ UNCHANGED <<hits, len>>
               ELSE /\ node' = [t \in DOMAIN Put(q, v) \cup P |-> IF t \in P THEN B ELSE Put(q, v)[t]]
                    /\ hits' = Stamp(hits, {q}) /\ len' = Counted(NoValue)
      BY <1>2, <1>5 DEF Insert, s
    <2>2. /\ \A w, r \in P : w = r
          /\ \A w \in P : w \notin D
      BY <1>1, <1>5, SplitIs DEF s
    <2>. HIDE DEF P
    <2>3. CASE q \in P
      <3>1. P = {q}
        BY <2>2, <2>3
      <3>2. node' = Put(q, NoValue)
        BY <2>1, <2>3
      <3>3. /\ DOMAIN node' = D \cup {q} \cup P /\ node'[q] = B
            /\ \A t \in D \ {q} : t \in DOMAIN node' /\ node'[t] = node[t]
        BY <3>1, <3>2, <1>3, <1>5
      <3>4. node' = [t \in DOMAIN node' |-> node'[t]]
        BY <3>2 DEF Put
      <3>5. \A t \in DOMAIN node' : node'[t] \in Entry
        <4>1. B \in Entry /\ \A t \in D : node[t] \in Entry
          BY <1>1 DEF Entry
        <4>. HIDE DEF B
        <4>. QED  BY <1>5, <3>1, <3>3, <4>1
      <3>. QED  BY <1>1, <1>5, <2>1, <2>3, <3>1, <3>3, <3>4, <3>5 DEF P, s
    <2>4. CASE q \notin P
      <3>2. node' = [t \in DOMAIN Put(q, v) \cup P |-> IF t \in P THEN B ELSE Put(q, v)[t]]
        BY <2>1, <2>4
      <3>3. /\ DOMAIN node' = D \cup {q} \cup P /\ node'[q] = [value |-> v, pinned |-> FALSE]
            /\ \A t \in D \ {q} : t \in DOMAIN node' /\ node'[t] = node[t]
            /\ \A t \in P : node'[t] = B
            /\ node' = [t \in DOMAIN node' |-> node'[t]]
        BY <3>2, <1>3, <1>5, <2>2, <2>4
      <3>5. \A t \in DOMAIN node' : node'[t] \in Entry
        <4>1. /\ B \in Entry /\ [value |-> v, pinned |-> FALSE] \in Entry
              /\ \A t \in D : node[t] \in Entry
          BY <1>1 DEF Entry
        <4>. HIDE DEF B
        <4>. QED  BY <1>5, <3>3, <4>1
      <3>6. node' \in [DOMAIN node' -> Entry]
        BY <3>3, <3>5
      <3>. QED  BY <1>1, <1>5, <2>1, <2>4, <3>3, <3>6 DEF P, s, Counted
    <2>. QED  BY <2>3, <2>4
  <1>. QED  BY <1>4, <1>5

\* What an insert does to the registrations.
LEMMA InsertRegistered ==
    ASSUME TreeInv, NEW q \in Prompt, NEW v \in Handle, Insert(q, v)
    PROVE  LET stays == q \notin DOMAIN node /\ q \in SplitPoint(Walk(q), q)
           IN  /\ Registered' = IF stays THEN Registered ELSE Registered \cup {q}
               /\ ~ stays => q \in DOMAIN node' /\ node'[q].value = v
               /\ \A t \in Registered \ {q} : node'[t] = node[t]
               /\ stays => q \notin Registered
  <1>. DEFINE P == SplitPoint(Walk(q), q)
              D == DOMAIN node
  <1>1. /\ v # NoValue
        /\ \A t \in D \ {q} : t \in DOMAIN node' /\ node'[t] = node[t]
        /\ \/ /\ q \in D /\ DOMAIN node' = D
              /\ node'[q] = [node[q] EXCEPT !.value = v]
           \/ /\ q \notin D
              /\ \A t \in P \ {q} : node'[t] = [value |-> NoValue, pinned |-> FALSE]
              /\ DOMAIN node' = D \cup {q} \cup P
              /\ \/ q \notin P /\ node'[q] = [value |-> v, pinned |-> FALSE]
                 \/ q \in P /\ node'[q] = [value |-> NoValue, pinned |-> FALSE]
    BY InsertIs
  <1>2. q \in D => node[q] \in Entry
    BY DEF TreeInv
  <1>. HIDE DEF P
  <1>3. CASE q \in D
    <2>1. node'[q].value = v /\ q \in DOMAIN node' /\ DOMAIN node' = D
      BY <1>1, <1>2, <1>3 DEF Entry
    <2>2. Registered' = Registered \cup {q}
      BY <1>1, <1>3, <2>1 DEF Registered
    <2>. QED  BY <1>1, <1>3, <2>1, <2>2 DEF Registered
  <1>4. CASE q \notin D
    <2>1. q \notin Registered
      BY <1>4 DEF Registered
    <2>2. CASE q \in P
      <3>1. Registered' = Registered
        BY <1>1, <1>4, <2>2 DEF Registered
      <3>. QED  BY <1>1, <1>4, <2>1, <2>2, <3>1 DEF Registered, P
    <2>3. CASE q \notin P
      <3>1. Registered' = Registered \cup {q} /\ q \in DOMAIN node' /\ node'[q].value = v
        BY <1>1, <1>4, <2>1, <2>3 DEF Registered
      <3>. QED  BY <1>1, <1>4, <2>1, <2>3, <3>1 DEF Registered, P
    <2>. QED  BY <2>2, <2>3
  <1>. QED  BY <1>3, <1>4

\* An insert keeps the trie well-formed.
LEMMA InsertKeeps ==
    ASSUME TreeInv, NEW q \in Prompt, NEW v \in Handle, Insert(q, v)
    PROVE  TreeInv'
  <1>. DEFINE P == SplitPoint(Walk(q), q)
              D == DOMAIN node
              stays == q \notin D /\ q \in P
  <1>1. /\ q \in Path /\ v \notin Handles /\ v # NoValue
        /\ \A t \in D \ {q} : t \in DOMAIN node' /\ node'[t] = node[t]
        /\ node' \in [DOMAIN node' -> Entry]
        /\ \/ /\ q \in D /\ DOMAIN node' = D
              /\ node'[q] = [node[q] EXCEPT !.value = v]
              /\ held' = (held \ {node[q].value}) \cup {v} /\ owned' = owned \ {node[q].value}
              /\ hits' = Stamp(hits, {q}) /\ len' = Counted(node[q].value)
           \/ /\ q \notin D
              /\ held' = (held \ {NoValue}) \cup {v} /\ owned' = owned \ {NoValue}
              /\ DOMAIN node' = D \cup {q} \cup P
              /\ \/ q \notin P /\ hits' = Stamp(hits, {q}) /\ len' = len + 1
                 \/ q \in P /\ UNCHANGED <<hits, len>>
    BY InsertIs
  <1>2. /\ Registered' = IF stays THEN Registered ELSE Registered \cup {q}
        /\ ~ stays => q \in DOMAIN node' /\ node'[q].value = v
        /\ \A t \in Registered \ {q} : node'[t] = node[t]
        /\ stays => q \notin Registered
    BY InsertRegistered
  <1>3. /\ Tree(D) /\ D \subseteq Path
        /\ \A s, t \in Registered : node[s].value = node[t].value => s = t
        /\ \A t \in D \ {<<>>} : \E w \in Prompt : IsPrefix(t, w)
        /\ \A t \in D \ {<<>>} : Below(t) # {} \/ node[t].value # NoValue \/ node[t].pinned
        /\ owned \subseteq Handle /\ held \subseteq Handle /\ Handles \subseteq held
    BY DEF TreeInv, Tree, WellFormed, TypeOK, RadixShape, NoDanglingHandle
  <1>4. q \notin D => \A w \in P : /\ w \in Path /\ IsPrefix(w, q)
                                   /\ \E c \in D : IsStrictPrefix(w, c)
    BY <1>1, <1>3, SplitIs
  <1>5. Tree(DOMAIN node')
    BY <1>1, <1>3, SplitCloses
  <1>6. DOMAIN hits' = Registered' /\ len' = Cardinality(Registered') /\ len' \in Nat
    <2>1. /\ IsFiniteSet(Registered) /\ len = Cardinality(Registered) /\ DOMAIN hits = Registered
          /\ len \in Nat
      BY Finite, FS_CardinalityType
    <2>2. CASE stays
      <3>1. hits' = hits /\ len' = len /\ Registered' = Registered
        BY <1>1, <1>2, <2>2
      <3>. QED  BY <2>1, <3>1
    <2>3. CASE ~ stays
      <3>1. /\ hits' = Stamp(hits, {q}) /\ Registered' = Registered \cup {q}
            /\ len' = IF q \in Registered THEN len ELSE len + 1
        BY <1>1, <1>2, <2>3 DEF Counted, Registered
      <3>2. DOMAIN hits' = Registered'
        BY <2>1, <3>1, StampDomain
      <3>3. len' = Cardinality(Registered')
        BY <2>1, <3>1, FS_AddElement
      <3>. QED  BY <2>1, <3>1, <3>2, <3>3
    <2>. QED  BY <2>2, <2>3
  <1>. HIDE DEF P
  <1>7. TypeOK'
    <2>1. ASSUME NEW t \in DOMAIN node' \ {<<>>} PROVE \E w \in Prompt : IsPrefix(t, w)
      <3>1. CASE t \in D
        BY <3>1, <1>3
      <3>2. CASE t = q
        BY <3>2, <1>1, PrefixOrder
      <3>3. CASE t \in P /\ q \notin D
        BY <3>3, <1>4
      <3>. QED  BY <1>1, <3>1, <3>2, <3>3
    <2>2. owned' \subseteq Handle /\ held' \subseteq Handle
      BY <1>1, <1>3
    <2>3. \A t \in DOMAIN node' : node'[t] \in Entry
      BY <1>1
    <2>. QED  BY <1>6, <2>1, <2>2, <2>3 DEF TypeOK, Entry
  <1>8. \A s, t \in Registered' : node'[s].value = node'[t].value => s = t
    <2>1. \A t \in Registered : node[t].value # v
      BY <1>1 DEF Handles
    <2>2. CASE stays
      BY <1>2, <1>3, <2>2
    <2>3. CASE ~ stays
      <3>. HIDE DEF stays
      <3>. QED  BY <1>2, <1>3, <2>1, <2>3
    <2>. QED  BY <2>2, <2>3
  <1>9. ASSUME NEW t \in DOMAIN node' \ {<<>>}
        PROVE  \/ \E u \in DOMAIN node' : IsStrictPrefix(t, u)
               \/ node'[t].value # NoValue \/ node'[t].pinned
    <2>1. D \subseteq DOMAIN node'
      BY <1>1
    <2>2. CASE t \in D \ {q}
      <3>1. node'[t] = node[t] /\ (Below(t) # {} \/ node[t].value # NoValue \/ node[t].pinned)
        BY <1>1, <1>3, <2>2
      <3>2. \A u \in Below(t) : u \in D /\ IsStrictPrefix(t, u)
        BY DEF Below
      <3>. QED  BY <2>1, <3>1, <3>2
    <2>3. CASE t = q /\ ~ stays
      BY <1>1, <1>2, <2>3
    <2>4. CASE t \in P /\ q \notin D
      BY <1>4, <2>1, <2>4
    <2>. QED  BY <1>1, <2>2, <2>3, <2>4
  <1>10. RadixShape'
    BY <1>5, <1>8, <1>9 DEF RadixShape, Tree, Meet, Below
  <1>11. Handles' \subseteq held'
    <2>1. ASSUME NEW t \in Registered' PROVE node'[t].value \in held'
      <3>1. CASE t = q /\ ~ stays
        BY <1>1, <1>2, <3>1
      <3>2. CASE t \in Registered \ {q}
        <4>1. node'[t] = node[t] /\ node[t].value \in held /\ node[t].value # NoValue
          BY <1>2, <1>3, <3>2 DEF Handles, Registered
        <4>2. q \in D => node[t].value # node[q].value
          <5>1. CASE q \in Registered
            BY <5>1, <1>3, <3>2
          <5>2. CASE q \in D /\ q \notin Registered
            BY <5>2, <4>1 DEF Registered
          <5>. QED  BY <5>1, <5>2
        <4>. QED  BY <1>1, <4>1, <4>2
      <3>. QED  BY <1>2, <3>1, <3>2
    <2>. QED  BY <2>1 DEF Handles
  <1>12. CountsAgree'
    BY <1>6 DEF CountsAgree
  <1>. QED  BY <1>1, <1>5, <1>7, <1>10, <1>11, <1>12 DEF TreeInv, WellFormed, NoDanglingHandle

\* A pin or an unpin changes a flag of a registered node.
LEMMA FlagIs ==
    ASSUME TreeInv, NEW v \in Handles, NEW b \in BOOLEAN,
           node' = [node EXCEPT ![NodeOf(v)].pinned = b]
    PROVE  /\ DOMAIN node' = DOMAIN node /\ node' \in [DOMAIN node' -> Entry]
           /\ \A t \in DOMAIN node : node'[t].value = node[t].value
           /\ \A t \in DOMAIN node \ {NodeOf(v)} : node'[t] = node[t]
           /\ node'[NodeOf(v)].pinned = b
           /\ Registered' = Registered /\ Handles' = Handles
  <1>. DEFINE s == NodeOf(v)
  <1>1. s \in Registered /\ s \in DOMAIN node /\ node \in [DOMAIN node -> Entry]
    BY NodeOfIs DEF TreeInv, Registered
  <1>. HIDE DEF s
  <1>2. node' = [node EXCEPT ![s] = [node[s] EXCEPT !.pinned = b]]
    BY DEF s
  <1>3. node[s] \in Entry /\ [node[s] EXCEPT !.pinned = b] \in Entry
    BY <1>1 DEF Entry
  <1>4. /\ DOMAIN node' = DOMAIN node /\ node' \in [DOMAIN node' -> Entry]
        /\ \A t \in DOMAIN node \ {s} : node'[t] = node[t]
        /\ node'[s].pinned = b /\ node'[s].value = node[s].value
    BY <1>1, <1>2, <1>3 DEF Entry
  <1>5. \A t \in DOMAIN node : node'[t].value = node[t].value
    BY <1>4
  <1>6. Registered' = Registered
    BY <1>4, <1>5 DEF Registered
  <1>7. Handles' = Handles
    <2>1. \A t \in Registered : node'[t].value = node[t].value
      BY <1>5 DEF Registered
    <2>. QED  BY <1>6, <2>1 DEF Handles
  <1>. QED  BY <1>4, <1>5, <1>6, <1>7 DEF s

\* A change of a pin flag keeps the trie well-formed.
LEMMA FlagKeeps ==
    ASSUME TreeInv, NEW v \in Handles, Pin(v) \/ Unpin(v)
    PROVE  TreeInv'
  <1>1. PICK b \in BOOLEAN : node' = [node EXCEPT ![NodeOf(v)].pinned = b]
    BY DEF Pin, Unpin
  <1>2. /\ DOMAIN node' = DOMAIN node /\ node' \in [DOMAIN node' -> Entry]
        /\ \A t \in DOMAIN node : node'[t].value = node[t].value
        /\ \A t \in DOMAIN node \ {NodeOf(v)} : node'[t] = node[t]
        /\ Registered' = Registered /\ Handles' = Handles
    BY <1>1, FlagIs
  <1>3. UNCHANGED <<hits, len, held>> /\ owned' \subseteq owned \cup {v}
    BY DEF Pin, Unpin
  <1>4. v \in Handle
    <2>1. NodeOf(v) \in Registered /\ node[NodeOf(v)].value = v
      BY NodeOfIs
    <2>. QED  BY <2>1 DEF Registered, TreeInv, Entry
  <1>5. TypeOK'
    BY <1>2, <1>3, <1>4 DEF TreeInv, WellFormed, TypeOK, Entry
  <1>6. RadixShape'
    <2>1. /\ \A s, t \in DOMAIN node' : LongestCommonPrefix({s, t}) \in DOMAIN node'
          /\ \A s, t \in Registered' : node'[s].value = node'[t].value => s = t
      BY <1>2 DEF TreeInv, WellFormed, RadixShape, Registered
    <2>2. ASSUME NEW t \in DOMAIN node \ {<<>>}
          PROVE  Below(t)' # {} \/ node'[t].value # NoValue \/ node'[t].pinned
      <3>1. Below(t) # {} \/ node[t].value # NoValue \/ node[t].pinned
        BY DEF TreeInv, WellFormed, RadixShape
      <3>2. Below(t)' = Below(t)
        BY <1>2 DEF Below
      <3>3. t = NodeOf(v) => node'[t].value # NoValue
        BY <1>2, NodeOfIs DEF Registered
      <3>. QED  BY <1>2, <3>1, <3>2, <3>3
    <2>. QED  BY <1>2, <2>1, <2>2 DEF RadixShape
  <1>7. CountsAgree' /\ NoDanglingHandle'
    BY <1>2, <1>3 DEF TreeInv, WellFormed, CountsAgree, NoDanglingHandle
  <1>8. Tree(DOMAIN node')
    BY <1>2 DEF TreeInv
  <1>. QED  BY <1>2, <1>5, <1>6, <1>7, <1>8 DEF TreeInv, WellFormed

\* Steps that leave the nodes alone.
LEMMA StampKeeps ==
    ASSUME TreeInv, UNCHANGED <<node, len, owned>>, DOMAIN hits' = DOMAIN hits,
           held' \subseteq held, Handles \subseteq held'
    PROVE  TreeInv'
  <1>1. Registered' = Registered /\ Handles' = Handles
    BY DEF Registered, Handles
  <1>2. TypeOK'
    BY DEF TreeInv, WellFormed, TypeOK
  <1>3. RadixShape'
    BY <1>1 DEF TreeInv, WellFormed, RadixShape, Below
  <1>4. CountsAgree' /\ NoDanglingHandle'
    BY <1>1 DEF TreeInv, WellFormed, CountsAgree, NoDanglingHandle
  <1>. QED  BY <1>2, <1>3, <1>4 DEF TreeInv, WellFormed

\* Every step keeps the invariant.
LEMMA TreeNext == TreeInv /\ [Next]_vars => TreeInv'
  <1>. SUFFICES ASSUME TreeInv, [Next]_vars PROVE TreeInv'
    OBVIOUS
  <1>1. Handles \subseteq held /\ DOMAIN hits = Registered
    BY Finite DEF TreeInv, NoDanglingHandle
  <1>2. ASSUME NEW q \in Prompt, NEW v \in Handle, Insert(q, v) PROVE TreeInv'
    BY <1>2, InsertKeeps
  <1>3. ASSUME NEW q \in Prompt, Match(q) PROVE TreeInv'
    <2>. DEFINE way == {s \in Registered : IsPrefix(s, q)}
    <2>1. hits' = Stamp(hits, way) /\ UNCHANGED <<node, len, owned, held>>
      BY <1>3 DEF Match
    <2>2. DOMAIN hits' = DOMAIN hits
      BY <1>1, <2>1, StampDomain
    <2>. QED  BY <1>1, <2>1, <2>2, StampKeeps
  <1>4. ASSUME NEW v \in Handles, TouchValue(v) PROVE TreeInv'
    <2>1. hits' = Stamp(hits, {NodeOf(v)}) /\ UNCHANGED <<node, len, owned, held>>
      BY <1>4 DEF TouchValue
    <2>2. DOMAIN hits' = DOMAIN hits
      <3>1. DOMAIN hits \cup {NodeOf(v)} = DOMAIN hits
        BY <1>1, NodeOfIs
      <3>2. DOMAIN Stamp(hits, {NodeOf(v)}) = DOMAIN hits \cup {NodeOf(v)}
        BY StampDomain
      <3>. QED  BY <2>1, <3>1, <3>2
    <2>. QED  BY <1>1, <2>1, <2>2, StampKeeps
  <1>5. ASSUME NEW v \in Handles, Pin(v) \/ Unpin(v) PROVE TreeInv'
    BY <1>5, FlagKeeps
  <1>6. ASSUME NEW v \in Handles, RemoveValue(v) PROVE TreeInv'
    BY <1>6, RemoveKeeps
  <1>7. ASSUME NEW v \in held \ Handles, RemoveUnknown(v) PROVE TreeInv'
    BY <1>1, <1>7, StampKeeps DEF RemoveUnknown
  <1>8. ASSUME NEW max, Evict(max) PROVE TreeInv'
    BY <1>8, EvictKeeps
  <1>9. CASE UNCHANGED vars
    BY <1>1, <1>9, StampKeeps DEF vars
  <1>. QED  BY <1>2, <1>3, <1>4, <1>5, <1>6, <1>7, <1>8, <1>9 DEF Next

\* The empty trie.
LEMMA TreeInit == Init => TreeInv
  <1>. SUFFICES ASSUME Init PROVE TreeInv
    OBVIOUS
  <1>1. /\ DOMAIN node = {<<>>} /\ node[<<>>] = [value |-> NoValue, pinned |-> FALSE]
        /\ node = [s \in {<<>>} |-> [value |-> NoValue, pinned |-> FALSE]]
    BY DEF Init
  <1>2. Registered = {} /\ Handles = {}
    BY <1>1 DEF Registered, Handles
  <1>3. <<>> \in Path /\ Meet(<<>>, <<>>) = <<>>
    <2>1. <<>> \in Path
      BY DEF Path
    <2>2. Meet(<<>>, <<>>) \in Path /\ IsPrefix(Meet(<<>>, <<>>), <<>>)
      BY <2>1, MeetIs
    <2>. QED  BY <2>1, <2>2, PrefixOrder
  <1>4. Tree(DOMAIN node)
    BY <1>1, <1>3, FS_Singleton DEF Tree
  <1>5. node \in [DOMAIN node -> Entry]
    BY <1>1 DEF Entry
  <1>6. TypeOK
    BY <1>1, <1>5 DEF TypeOK, Init, Entry
  <1>7. RadixShape
    BY <1>1, <1>2, <1>3 DEF RadixShape, Meet
  <1>8. CountsAgree /\ NoDanglingHandle
    BY <1>2, FS_EmptySet DEF CountsAgree, NoDanglingHandle, Init
  <1>. QED  BY <1>4, <1>5, <1>6, <1>7, <1>8 DEF TreeInv, WellFormed

\* However inserts, splits, removals, prunings and evictions follow each other, the
\* trie keeps its shape and its counts (insert, unlink, evict_lru), for every set of
\* prompts and handles and for callers that unpin first or not.
THEOREM RadixWellFormed == Spec => []WellFormed
  <1>1. TreeInv => WellFormed
    BY DEF TreeInv
  <1>. QED  BY <1>1, TreeInit, TreeNext, PTL DEF Spec

\* A handle that match_prefix can return names a state the caller still keeps,
\* however small the buffer in which evictions are reported (vc_evict).
THEOREM RadixNoDanglingHandle == Spec => []NoDanglingHandle
  <1>1. TreeInv => NoDanglingHandle
    BY DEF TreeInv
  <1>. QED  BY <1>1, TreeInit, TreeNext, PTL DEF Spec

-----------------------------------------------------------------------------
(* The index that the trie implements *)

\* With a caller that unpins first, the pinned nodes are those of the pinned
\* handles.
PinInv ==
    /\ owned \subseteq Handles
    /\ \A s \in DOMAIN node : node[s].pinned <=> node[s].value \in owned

\* The absence of a handle is never pinned.
LEMMA NoValueUnowned ==
    ASSUME TreeInv
    PROVE  NoValue \notin owned /\ NoValue \notin Handles
  BY RadixAssumption DEF TreeInv, WellFormed, TypeOK, Handles, Registered

\* A removal of handles that are not pinned.
LEMMA RemovalPins ==
    ASSUME TreeInv, PinInv, NEW gone \in SUBSET Registered, node' = Unlink(gone),
           \A g \in gone : node[g].value \notin owned, owned' = owned
    PROVE  PinInv'
  <1>1. Handles' = Handles \ {node[t].value : t \in gone}
    BY RemovalIs
  <1>2. /\ DOMAIN node' \subseteq DOMAIN node
        /\ \A t \in DOMAIN node' : node'[t].pinned = node[t].pinned
        /\ \A t \in DOMAIN node' : t \notin gone => node'[t] = node[t]
        /\ \A t \in DOMAIN node' : t \in gone => node'[t].value = NoValue
    BY UnlinkKeeps
  <1>3. owned' \subseteq Handles'
    BY <1>1 DEF PinInv
  <1>4. ASSUME NEW t \in DOMAIN node' PROVE node'[t].pinned <=> node'[t].value \in owned'
    BY <1>2, NoValueUnowned DEF PinInv
  <1>. QED  BY <1>3, <1>4 DEF PinInv

\* An insert leaves the pins alone.
LEMMA InsertPins ==
    ASSUME UnpinsFirst, TreeInv, PinInv, NEW q \in Prompt, NEW v \in Handle, Insert(q, v)
    PROVE  PinInv' /\ owned' = owned
  <1>. DEFINE P == SplitPoint(Walk(q), q)
              D == DOMAIN node
              stays == q \notin D /\ q \in P
  <1>1. /\ v \notin Handles /\ v # NoValue
        /\ \A t \in D \ {q} : t \in DOMAIN node' /\ node'[t] = node[t]
        /\ \/ /\ q \in D /\ DOMAIN node' = D
              /\ node'[q] = [node[q] EXCEPT !.value = v]
              /\ owned' = owned \ {node[q].value} /\ node[q].value \notin owned
           \/ /\ q \notin D /\ owned' = owned \ {NoValue}
              /\ \A t \in P \ {q} : node'[t] = [value |-> NoValue, pinned |-> FALSE]
              /\ DOMAIN node' = D \cup {q} \cup P
              /\ \/ node'[q] = [value |-> v, pinned |-> FALSE]
                 \/ node'[q] = [value |-> NoValue, pinned |-> FALSE]
    BY InsertIs
  <1>2. /\ Registered' = IF stays THEN Registered ELSE Registered \cup {q}
        /\ \A t \in Registered \ {q} : node'[t] = node[t]
    BY InsertRegistered
  <1>3. NoValue \notin owned /\ v \notin owned /\ owned \subseteq Handles
    BY <1>1, NoValueUnowned DEF PinInv
  <1>. HIDE DEF P
  <1>4. owned' = owned
    BY <1>1, <1>3
  <1>5. ASSUME NEW o \in owned PROVE o \in Handles'
    <2>1. PICK t \in Registered : node[t].value = o
      BY <1>3 DEF Handles
    <2>2. t # q
      BY <1>1, <2>1 DEF Registered
    <2>3. t \in Registered' /\ node'[t].value = o
      BY <1>2, <2>1, <2>2
    <2>. QED  BY <2>3 DEF Handles
  <1>6. ASSUME NEW t \in DOMAIN node' PROVE node'[t].pinned <=> node'[t].value \in owned
    <2>1. CASE t \in D \ {q}
      BY <1>1, <2>1 DEF PinInv
    <2>2. CASE t = q /\ q \in D
      <3>1. node[q] \in Entry
        BY <2>2 DEF TreeInv
      <3>2. ~ node[q].pinned /\ node'[q].pinned = node[q].pinned /\ node'[q].value = v
        BY <1>1, <2>2, <3>1 DEF PinInv, Entry
      <3>. QED  BY <1>3, <2>2, <3>2
    <2>3. CASE t = q /\ q \notin D
      BY <1>1, <1>3, <2>3
    <2>4. CASE t \in P \ {q} /\ q \notin D
      BY <1>1, <1>3, <2>4
    <2>. QED  BY <1>1, <2>1, <2>2, <2>3, <2>4
  <1>. QED  BY <1>4, <1>5, <1>6 DEF PinInv

\* Every step keeps the pins together.
LEMMA PinNext ==
    ASSUME UnpinsFirst
    PROVE  TreeInv /\ PinInv /\ [Next]_vars => PinInv'
  <1>. SUFFICES ASSUME TreeInv, PinInv, [Next]_vars PROVE PinInv'
    OBVIOUS
  <1>1. ASSUME NEW q \in Prompt, NEW v \in Handle, Insert(q, v) PROVE PinInv'
    BY <1>1, InsertPins
  <1>2. ASSUME UNCHANGED <<node, owned>> PROVE PinInv'
    BY <1>2 DEF PinInv, Handles, Registered
  <1>3. ASSUME NEW v \in Handles, NEW b \in BOOLEAN,
               node' = [node EXCEPT ![NodeOf(v)].pinned = b],
               owned' = IF b THEN owned \cup {v} ELSE owned \ {v}
        PROVE  PinInv'
    <2>. DEFINE s == NodeOf(v)
    <2>1. /\ DOMAIN node' = DOMAIN node
          /\ \A t \in DOMAIN node : node'[t].value = node[t].value
          /\ \A t \in DOMAIN node \ {s} : node'[t] = node[t]
          /\ node'[s].pinned = b /\ Handles' = Handles
      BY <1>3, FlagIs
    <2>2. s \in Registered /\ node[s].value = v /\ s \in DOMAIN node
      BY NodeOfIs DEF Registered
    <2>. HIDE DEF s
    <2>3. \A t \in DOMAIN node \ {s} : node[t].value # v
      <3>1. \A t \in Registered : node[t].value = v => t = s
        BY <2>2 DEF TreeInv, WellFormed, RadixShape
      <3>2. v # NoValue
        BY <2>2 DEF Registered
      <3>. QED  BY <3>1, <3>2 DEF Registered
    <2>4. ASSUME NEW t \in DOMAIN node' PROVE node'[t].pinned <=> node'[t].value \in owned'
      <3>1. CASE t = s
        <4>1. v \in owned' <=> b
          BY <1>3
        <4>. QED  BY <2>1, <2>2, <3>1, <4>1
      <3>2. CASE t # s
        <4>1. node[t].value \in owned' <=> node[t].value \in owned
          BY <1>3, <2>1, <2>3, <3>2
        <4>2. node[t].pinned <=> node[t].value \in owned
          BY <2>1 DEF PinInv
        <4>. QED  BY <2>1, <3>2, <4>1, <4>2
      <3>. QED  BY <3>1, <3>2
    <2>5. owned' \subseteq Handles'
      BY <1>3, <2>1 DEF PinInv
    <2>. QED  BY <2>4, <2>5 DEF PinInv
  <1>4. ASSUME NEW v \in Handles, Pin(v) PROVE PinInv'
    BY <1>3, <1>4 DEF Pin
  <1>5. ASSUME NEW v \in Handles, Unpin(v) PROVE PinInv'
    BY <1>3, <1>5 DEF Unpin
  <1>6. ASSUME NEW v \in Handles, RemoveValue(v) PROVE PinInv'
    <2>. DEFINE g == {NodeOf(v)}
    <2>1. g \in SUBSET Registered /\ \A t \in g : node[t].value = v
      BY NodeOfIs
    <2>2. node' = Unlink(g) /\ owned' = owned /\ v \notin owned
      BY <1>6 DEF RemoveValue
    <2>. HIDE DEF g
    <2>. QED  BY <2>1, <2>2, RemovalPins
  <1>7. ASSUME NEW max, Evict(max) PROVE PinInv'
    <2>1. PICK gone \in SUBSET Loose :
            node' = Unlink(gone) /\ owned' = owned \ {node[s].value : s \in gone}
      BY <1>7 DEF Evict
    <2>2. gone \in SUBSET Registered /\ \A g \in gone : node[g].value \notin owned
      BY DEF Loose, Registered, PinInv
    <2>3. owned' = owned
      BY <2>1, <2>2
    <2>. QED  BY <2>1, <2>2, <2>3, RemovalPins
  <1>. QED
    BY <1>1, <1>2, <1>4, <1>5, <1>6, <1>7
    DEF Next, Match, TouchValue, RemoveUnknown, vars

\* Below every node but the root there is a registration, or in it.
LEMMA RegisteredBelow ==
    ASSUME TreeInv, PinInv, NEW c \in DOMAIN node, c # <<>>
    PROVE  \E t \in Registered : IsPrefix(c, t)
  <1>. DEFINE D == DOMAIN node
              U == {t \in D : IsPrefix(c, t)}
              V == {Below(t) : t \in U}
  <1>1. D \subseteq Path /\ IsFiniteSet(D) /\ c \in U
    BY PrefixOrder DEF TreeInv, Tree
  <1>2. \A t \in U : Below(t) \in FiniteSubsetsOf(D)
    <2>1. \A t \in U : Below(t) \in SUBSET D
      BY DEF Below
    <2>. QED  BY <1>1, <2>1, FS_Subset DEF FiniteSubsetsOf
  <1>3. V \subseteq FiniteSubsetsOf(D) /\ V # {}
    <2>. HIDE DEF U
    <2>. QED  BY <1>1, <1>2
  <1>4. PICK x \in V : \A y \in V : ~ (<<y, x>> \in StrictSubsetOrdering(D))
    <2>1. IsWellFoundedOn(StrictSubsetOrdering(D), FiniteSubsetsOf(D))
      BY FS_StrictSubsetOrderingWellFounded
    <2>. HIDE DEF V, D
    <2>. QED  BY <1>3, <2>1, WFMin
  <1>5. PICK t \in U : x = Below(t)
    BY <1>4
  <1>6. Below(t) = {}
    <2>1. ASSUME NEW u \in Below(t) PROVE FALSE
      <3>1. u \in D /\ u \in Path /\ t \in D /\ t \in Path /\ c \in Path /\ IsPrefix(t, u) /\ t # u
        BY <1>1, <2>1 DEF Below, IsStrictPrefix
      <3>2. u \in U
        BY <1>1, <1>5, <3>1, PrefixOrder
      <3>3. Below(u) \subseteq Below(t)
        <4>1. ASSUME NEW w \in Below(u) PROVE w \in Below(t)
          <5>1. w \in D /\ w \in Path /\ IsPrefix(u, w) /\ u # w
            BY <1>1 DEF Below, IsStrictPrefix
          <5>2. IsPrefix(t, w)
            BY <3>1, <5>1, PrefixOrder
          <5>3. t # w
            BY <3>1, <5>1, PrefixOrder
          <5>. QED  BY <5>1, <5>2, <5>3 DEF Below, IsStrictPrefix
        <4>. QED  BY <4>1
      <3>4. u \notin Below(u)
        BY DEF Below, IsStrictPrefix
      <3>5. <<Below(u), Below(t)>> \in StrictSubsetOrdering(D)
        <4>1. Below(u) \subseteq D /\ Below(t) \subseteq D
          BY DEF Below
        <4>. QED  BY <2>1, <3>3, <3>4, <4>1 DEF StrictSubsetOrdering
      <3>. QED  BY <1>4, <1>5, <3>2, <3>5
    <2>. QED  BY <2>1
  <1>7. t \in D /\ IsPrefix(c, t) /\ t # <<>>
    BY <1>1, <1>5, PrefixOrder
  <1>8. node[t].value # NoValue \/ node[t].pinned
    BY <1>6, <1>7 DEF TreeInv, WellFormed, RadixShape
  <1>9. t \in Registered
    BY <1>7, <1>8, NoValueUnowned DEF PinInv, Registered
  <1>. QED  BY <1>7, <1>9

\* The index compares sequences and counts as the trie does.
LEMMA IndexOps ==
    /\ \A s, t : Index!IsPrefix(s, t) = IsPrefix(s, t)
    /\ \A s, t : Index!IsStrictPrefix(s, t) = IsStrictPrefix(s, t)
    /\ \A S : Index!Cardinality(S) = Cardinality(S)
  BY DEF Index!IsPrefix, IsPrefix, Index!IsStrictPrefix, IsStrictPrefix,
         Index!Cardinality, Cardinality

\* An insert is one of the index: it registers, or it stays unregistered above a
\* registration.
LEMMA InsertRefines ==
    ASSUME UnpinsFirst, TreeInv, PinInv, NEW q \in Prompt, NEW v \in Handle, Insert(q, v)
    PROVE  Index!AInsert
  <1>. DEFINE P == SplitPoint(Walk(q), q)
              D == DOMAIN node
              stays == q \notin D /\ q \in P
              old == IF q \in DOMAIN Reg THEN Reg[q] ELSE NoValue
  <1>1. /\ q \in Path /\ v \notin Handles
        /\ answer' = [op |-> "insert", seq |-> q, value |-> v,
                      old |-> IF q \in D THEN node[q].value ELSE NoValue]
    BY InsertIs
  <1>2. /\ Registered' = IF stays THEN Registered ELSE Registered \cup {q}
        /\ ~ stays => q \in DOMAIN node' /\ node'[q].value = v
        /\ \A t \in Registered \ {q} : node'[t] = node[t]
        /\ stays => q \notin Registered
    BY InsertRegistered
  <1>3. owned' = owned
    BY InsertPins
  <1>4. old = IF q \in D THEN node[q].value ELSE NoValue
    BY DEF Reg, Registered
  <1>5. Handles = {Reg[s] : s \in DOMAIN Reg}
    BY DEF Reg, Handles
  <1>6. \/ /\ Reg' = [t \in DOMAIN Reg \cup {q} |-> IF t = q THEN v ELSE Reg[t]]
           /\ owned' = owned \ {old}
        \/ /\ old = NoValue
           /\ \E t \in DOMAIN Reg : IsStrictPrefix(q, t)
           /\ UNCHANGED <<Reg, owned>>
    <2>1. CASE stays
      <3>1. Registered' = Registered /\ q \notin Registered /\ old = NoValue
        BY <1>2, <1>4, <2>1
      <3>2. Reg' = Reg
        BY <1>2, <3>1 DEF Reg
      <3>3. PICK c \in D : IsStrictPrefix(q, c)
        BY <1>1, <2>1, SplitIs DEF TreeInv
      <3>4. c \in Path /\ IsPrefix(q, c) /\ q # c /\ c # <<>>
        <4>1. c \in Path /\ IsPrefix(q, c) /\ q # c
          BY <3>3 DEF IsStrictPrefix, TreeInv, Tree
        <4>. QED  BY <1>1, <4>1, PrefixOrder
      <3>5. PICK t \in Registered : IsPrefix(c, t)
        BY <3>3, <3>4, RegisteredBelow
      <3>6. t \in Path
        BY <3>5 DEF Registered, TreeInv, Tree
      <3>7. IsPrefix(q, t)
        BY <1>1, <3>4, <3>5, <3>6, PrefixOrder
      <3>8. q # t
        BY <3>1, <3>5
      <3>9. t \in DOMAIN Reg /\ IsStrictPrefix(q, t)
        BY <3>5, <3>7, <3>8 DEF Reg, IsStrictPrefix
      <3>. QED  BY <1>3, <3>1, <3>2, <3>9
    <2>2. CASE ~ stays
      <3>. HIDE DEF stays
      <3>1. Registered' = Registered \cup {q} /\ node'[q].value = v
        BY <1>2, <2>2
      <3>2. Reg' = [t \in DOMAIN Reg \cup {q} |-> IF t = q THEN v ELSE Reg[t]]
        BY <1>2, <3>1 DEF Reg
      <3>3. old \notin owned
        <4>1. q \in D => node[q].value \notin owned
          BY InsertIs
        <4>. QED  BY <1>4, <4>1, NoValueUnowned
      <3>. QED  BY <1>3, <3>2, <3>3
    <2>. QED  BY <2>1, <2>2
  <1>7. v \in Handle \ {Reg[s] : s \in DOMAIN Reg}
    BY <1>1, <1>5
  <1>8. answer' = [op |-> "insert", seq |-> q, value |-> v, old |-> old]
    BY <1>1, <1>4
  <1>. QED  BY <1>6, <1>7, <1>8, IndexOps DEF Index!AInsert, Index!Handles

\* A match is one of the index.
LEMMA MatchRefines ==
    ASSUME TreeInv, NEW q \in Prompt, Match(q)
    PROVE  Index!AMatch
  <1>. DEFINE way == {s \in Registered : IsPrefix(s, q)}
              best == CHOOSE s \in way : \A t \in way : Len(t) <= Len(s)
  <1>1. /\ answer' = IF way = {} THEN [op |-> "match", value |-> NoValue, depth |-> 0]
                     ELSE [op |-> "match", value |-> node[best].value, depth |-> Len(best)]
        /\ UNCHANGED <<node, owned>>
    BY DEF Match
  <1>2. UNCHANGED <<Reg, owned>>
    BY <1>1 DEF Reg, Registered
  <1>3. way = {s \in DOMAIN Reg : IsPrefix(s, q)}
    BY DEF Reg
  <1>4. way # {} => best \in way
    <2>. DEFINE L == {Len(s) : s \in way}
    <2>. SUFFICES ASSUME way # {} PROVE best \in way
      OBVIOUS
    <2>1. q \in Path /\ Len(q) \in Nat
      BY RadixAssumption, PrefixOrder DEF Path
    <2>2. \A s \in way : Len(s) \in 0 .. Len(q)
      <3>1. way \subseteq Path
        BY DEF Registered, TreeInv, Tree
      <3>. QED  BY <2>1, <3>1, PrefixOrder
    <2>. HIDE DEF way
    <2>3. L \in SUBSET (0 .. Len(q)) /\ L # {}
      BY <2>2
    <2>4. PICK n \in L : \A l \in L : l <= n
      <3>. HIDE DEF L
      <3>. QED  BY <2>1, <2>3, GreatestUpTo
    <2>5. \E s \in way : \A t \in way : Len(t) <= Len(s)
      BY <2>4
    <2>. QED  BY <2>5
  <1>5. way # {} => node[best].value = Reg[best]
    <2>. HIDE DEF best
    <2>. QED  BY <1>4 DEF Reg
  <1>6. answer' = Index!Deepest(q)
    BY <1>1, <1>3, <1>5, IndexOps DEF Index!Deepest
  <1>. QED  BY <1>2, <1>6 DEF Index!AMatch

\* A removal takes its handles out of the map.
LEMMA RemovalReg ==
    ASSUME TreeInv, NEW gone \in SUBSET Registered, node' = Unlink(gone)
    PROVE  Reg' = [s \in {t \in DOMAIN Reg : Reg[t] \notin {node[u].value : u \in gone}} |-> Reg[s]]
  <1>1. /\ Registered' = Registered \ gone
        /\ \A t \in Registered' : node'[t] = node[t]
    BY RemovalIs
  <1>2. \A s, t \in Registered : node[s].value = node[t].value => s = t
    BY DEF TreeInv, WellFormed, RadixShape
  <1>3. {t \in DOMAIN Reg : Reg[t] \notin {node[u].value : u \in gone}} = Registered \ gone
    BY <1>2 DEF Reg
  <1>4. Reg' = [s \in Registered \ gone |-> Reg[s]]
    BY <1>1 DEF Reg
  <1>. QED  BY <1>3, <1>4

\* A removal is one of the index.
LEMMA RemoveRefines ==
    ASSUME UnpinsFirst, TreeInv, PinInv, NEW v \in Handles, RemoveValue(v)
    PROVE  Index!ARemove
  <1>. DEFINE g == {NodeOf(v)}
  <1>1. g \in SUBSET Registered /\ {node[u].value : u \in g} = {v}
    <2>1. NodeOf(v) \in Registered /\ node[NodeOf(v)].value = v
      BY NodeOfIs
    <2>. QED  BY <2>1
  <1>2. node' = Unlink(g) /\ owned' = owned \ {v} /\ UNCHANGED answer
    BY DEF RemoveValue
  <1>3. Reg' = [s \in {t \in DOMAIN Reg : Reg[t] \notin {v}} |-> Reg[s]]
    <2>. HIDE DEF g
    <2>. QED  BY <1>1, <1>2, RemovalReg
  <1>4. {t \in DOMAIN Reg : Reg[t] \notin {v}} = {t \in DOMAIN Reg : Reg[t] # v}
    OBVIOUS
  <1>5. v \in {Reg[s] : s \in DOMAIN Reg}
    BY DEF Handles, Reg
  <1>. QED  BY <1>2, <1>3, <1>4, <1>5 DEF Index!ARemove, Index!Handles

\* An eviction spares the pinned handles, takes no more than needed, and all that
\* were needed unless only pinned ones are left.
LEMMA EvictRefines ==
    ASSUME UnpinsFirst, TreeInv, PinInv, NEW max \in 0 .. Cardinality(Handle), Evict(max)
    PROVE  Index!AEvict
  <1>1. PICK gone \in SUBSET Loose :
          /\ len - Cardinality(gone) <= max \/ gone = Loose
          /\ gone # {} => len - Cardinality(gone) >= max
          /\ Report(max, {node[s].value : s \in gone})
          /\ node' = Unlink(gone) /\ owned' = owned \ {node[s].value : s \in gone}
    BY DEF Evict
  <1>. DEFINE G == {node[s].value : s \in gone}
  <1>2. gone \in SUBSET Registered /\ G \cap owned = {} /\ owned' = owned
    <2>1. gone \in SUBSET Registered /\ \A g \in gone : node[g].value \notin owned
      BY DEF Loose, Registered, PinInv
    <2>. QED  BY <1>1, <2>1
  <1>3. Reg' = [s \in {t \in DOMAIN Reg : Reg[t] \notin G} |-> Reg[s]]
    BY <1>1, <1>2, RemovalReg
  <1>4. DOMAIN Reg' = Registered \ gone
    BY <1>1, <1>2, RemovalIs DEF Reg
  <1>5. Cardinality(DOMAIN Reg') = len - Cardinality(gone)
    <2>1. IsFiniteSet(Registered) /\ len = Cardinality(Registered)
      BY Finite
    <2>2. Cardinality(Registered \ gone) = Cardinality(Registered) - Cardinality(gone)
      BY <1>2, <2>1, PartCount
    <2>. QED  BY <1>4, <2>1, <2>2
  <1>6. G \in SUBSET {Reg[s] : s \in DOMAIN Reg} /\ (G # {} => gone # {})
    BY <1>2 DEF Reg
  <1>7. gone = Loose => {Reg[s] : s \in DOMAIN Reg} \ G \subseteq owned
    <2>1. ASSUME gone = Loose, NEW s \in Registered, node[s].value \notin G
          PROVE  node[s].value \in owned
      BY <2>1 DEF Loose, PinInv, Registered
    <2>. QED  BY <2>1 DEF Reg
  <1>8. answer'.op = "evict" /\ answer'.gone = G
    BY <1>1 DEF Report
  <1>. HIDE DEF G
  <1>9. /\ G \cap owned = {}
        /\ Reg' = [s \in {t \in DOMAIN Reg : Reg[t] \notin G} |-> Reg[s]]
        /\ G # {} => Cardinality(DOMAIN Reg') >= max
        /\ Cardinality(DOMAIN Reg') <= max \/ {Reg[s] : s \in DOMAIN Reg} \ G \subseteq owned
        /\ answer'.op = "evict" /\ answer'.gone = G
        /\ UNCHANGED owned
    BY <1>1, <1>2, <1>3, <1>5, <1>6, <1>7, <1>8
  <1>. QED  BY <1>6, <1>9, IndexOps DEF Index!AEvict, Index!Handles

\* Every step of the trie is a step of the index or changes nothing of it.
LEMMA IndexStep ==
    ASSUME UnpinsFirst
    PROVE  TreeInv /\ PinInv /\ [Next]_vars => [Index!Next]_<<Reg, owned, answer>>
  <1>. SUFFICES ASSUME TreeInv, PinInv, [Next]_vars
                PROVE  Index!Next \/ UNCHANGED <<Reg, owned, answer>>
    OBVIOUS
  <1>1. ASSUME NEW q \in Prompt, NEW v \in Handle, Insert(q, v) PROVE Index!Next
    BY <1>1, InsertRefines DEF Index!Next
  <1>2. ASSUME NEW q \in Prompt, Match(q) PROVE Index!Next
    BY <1>2, MatchRefines DEF Index!Next
  <1>3. ASSUME UNCHANGED <<node, owned, answer>> PROVE UNCHANGED <<Reg, owned, answer>>
    BY <1>3 DEF Reg, Registered
  <1>4. ASSUME NEW v \in Handles, Pin(v) \/ Unpin(v) PROVE Index!Next
    <2>1. PICK b \in BOOLEAN : node' = [node EXCEPT ![NodeOf(v)].pinned = b]
      BY <1>4 DEF Pin, Unpin
    <2>2. /\ \A t \in DOMAIN node : node'[t].value = node[t].value
          /\ Registered' = Registered /\ Handles' = Handles
      BY <2>1, FlagIs
    <2>3. Reg' = Reg
      <3>1. \A t \in Registered : node'[t].value = node[t].value
        BY <2>2 DEF Registered
      <3>. QED  BY <2>2, <3>1 DEF Reg
    <2>4. owned' \in SUBSET {Reg[s] : s \in DOMAIN Reg} /\ UNCHANGED answer
      BY <1>4 DEF Pin, Unpin, PinInv, Handles, Reg
    <2>. QED  BY <2>3, <2>4 DEF Index!Next, Index!APin, Index!Handles
  <1>5. ASSUME NEW v \in Handles, RemoveValue(v) PROVE Index!Next
    BY <1>5, RemoveRefines DEF Index!Next
  <1>6. ASSUME NEW max \in 0 .. Cardinality(Handle), Evict(max) PROVE Index!Next
    BY <1>6, EvictRefines DEF Index!Next
  <1>. QED
    BY <1>1, <1>2, <1>3, <1>4, <1>5, <1>6 DEF Next, TouchValue, RemoveUnknown, vars

\* The trie implements the index (the contract in the header of radix.rs), for every
\* set of prompts and handles, when the caller unpins a handle before it removes or
\* replaces it.
THEOREM RadixImplementsIndex ==
    ASSUME UnpinsFirst
    PROVE  Spec => ImplementsIndex
  <1>1. Init => PinInv /\ Index!Init
    <2>. SUFFICES ASSUME Init PROVE PinInv /\ Index!Init
      OBVIOUS
    <2>1. /\ DOMAIN node = {<<>>} /\ node[<<>>] = [value |-> NoValue, pinned |-> FALSE]
          /\ owned = {} /\ answer = [op |-> "none"]
      BY DEF Init
    <2>2. Registered = {}
      BY <2>1 DEF Registered
    <2>3. Reg = <<>>
      BY <2>2 DEF Reg
    <2>. QED  BY <2>1, <2>3 DEF PinInv, Index!Init
  <1>2. TreeInv /\ PinInv /\ [Next]_vars
          => [Index!Next]_<<Reg, owned, answer>>
    BY IndexStep
  <1>. QED
    BY <1>1, <1>2, TreeInit, TreeNext, PinNext, PTL DEF Spec, ImplementsIndex, Index!Spec
=============================================================================
