-------------------------- MODULE ExpertStreamProofs --------------------------
(***************************************************************************)
(* The two implementations of the expert cache in VRAM.  The expert path   *)
(* of the engine (ExpertPath), for any number of layers, experts, slots    *)
(* and tokens: what the predictor prefetches, that a kernel finds its      *)
(* expert in the slot it was given whatever the two streams of the device  *)
(* do, that a copy's source stays registered, and that the tables of the   *)
(* LRU agree.  The LRU of vitriol-stream (StreamLru), for any number of    *)
(* experts, slots and staging buffers: the same of its matmuls and tables, *)
(* and that no staging buffer is refilled under a copy.                    *)
(***************************************************************************)
EXTENDS ExpertPath, StreamLru, FiniteSetTheorems, SequenceTheorems, WellFoundedInduction, TLAPS

\* What can be cached in a slot of either.
Item == Key \cup Slice

\* The index of the next layer is the successor or 0.
LEMMA NextLayerStep ==
    ASSUME layer \in Layer
    PROVE  /\ NextLayer \in Layer
           /\ NextLayer # 0 => NextLayer = layer + 1
  <1>1. /\ layer \in Nat /\ NLayers \in Nat /\ NLayers > 0 /\ layer + 1 <= NLayers
    BY ExpertPathAssumption DEF Layer
  <1>2. CASE layer + 1 = NLayers
    <2>1. NLayers % NLayers = 0
      BY <1>1, SMT
    <2>. QED  BY <1>1, <1>2, <2>1 DEF NextLayer, Layer
  <1>3. CASE layer + 1 < NLayers
    <2>1. (layer + 1) % NLayers = layer + 1
      BY <1>1, <1>3, SMT
    <2>. QED  BY <1>1, <1>3, <2>1 DEF NextLayer, Layer
  <1>. QED  BY <1>1, <1>2, <1>3

\* What the predictor knows when an op begins: the last index it saw is that of
\* the layer before, whose experts are stored under it.
Chained ==
    /\ layer \in Layer
    /\ cur = [l \in Layer |-> cur[l]] /\ used = [l \in Layer |-> used[l]]
    /\ at = "begin" /\ layer > 0 => last = layer - 1 /\ cur[layer - 1] = used[layer - 1]

\* Every step keeps it.
LEMMA ChainedStep == Chained /\ [Next]_vars => Chained'
  <1>. SUFFICES ASSUME Chained, [Next]_vars PROVE Chained'
    OBVIOUS
  <1>0. \A l \in Layer : l \in Int
    BY DEF Layer
  <1>1. CASE BeginOp
    BY <1>1 DEF Chained, BeginOp, Cur
  <1>2. CASE EndOp
    <2>1. /\ layer' = NextLayer /\ at' = "begin" /\ used' = used /\ last' = layer
          /\ cur' = [Cur(layer) EXCEPT ![layer] = used[layer]]
      BY <1>2 DEF EndOp, predictor_update
    <2>2. Cur(layer) = [l \in Layer |-> Cur(layer)[l]]
      BY DEF Cur, Chained
    <2>3. cur' = [l \in Layer |-> cur'[l]] /\ cur'[layer] = used[layer]
      BY <2>1, <2>2 DEF Chained
    <2>4. layer' > 0 => layer' - 1 = layer
      BY <2>1, NextLayerStep, <1>0 DEF Chained
    <2>5. layer' \in Layer
      BY <2>1, NextLayerStep DEF Chained
    <2>. QED  BY <2>1, <2>3, <2>4, <2>5 DEF Chained
  <1>3. CASE \E e \in Expert : PrefetchOne(e) \/ RunExpert(e)
    BY <1>3 DEF Chained, PrefetchOne, RunExpert, predictor
  <1>4. CASE \E ids \in SUBSET Expert : ids # {} /\ ReadIds(ids)
    BY <1>4 DEF Chained, ReadIds, predictor
  <1>5. CASE \E X \in Stream : Execute(X)
    BY <1>5 DEF Chained, Execute, Advance, host, predictor
  <1>6. CASE UNCHANGED vars
    BY <1>6 DEF Chained, vars, host, predictor
  <1>. QED  BY <1>1, <1>2, <1>3, <1>4, <1>5, <1>6 DEF Next, HostStep

\* Every layer after the first is prefetched with what the layer before it used
\* for this token (vitriol_predictor_prefetch and vitriol_predictor_update).
THEOREM ExpertCrossLayerPredicted == Spec => CrossLayerPredicted
  <1>1. Init => Chained
    BY ExpertPathAssumption DEF Init, Chained, Layer
  <1>2. Chained /\ [Next]_vars
            => [at = "begin" /\ at' = "prefetch" /\ layer > 0
                    => used[layer - 1] \subseteq todo']_vars
    <2>. SUFFICES ASSUME Chained, Next, at = "begin", at' = "prefetch", layer > 0
                  PROVE  used[layer - 1] \subseteq todo'
      OBVIOUS
    <2>1. BeginOp
      BY DEF Next, HostStep, EndOp, PrefetchOne, RunExpert, ReadIds, Execute, Advance, host
    <2>2. layer \in Int /\ last = layer - 1 /\ cur[layer - 1] = used[layer - 1]
      BY DEF Chained, Layer
    <2>3. ~ Boundary(layer)
      BY <2>2 DEF Boundary
    <2>4. used[layer - 1] \subseteq Predicted(layer)
      BY <2>2, <2>3 DEF Predicted, Cur
    <2>. QED  BY <2>1, <2>4 DEF BeginOp
  <1>. QED  BY <1>1, <1>2, ChainedStep, PTL DEF Spec, CrossLayerPredicted

-----------------------------------------------------------------------------
(* Lists *)

\* Every set of natural numbers that is not empty has a least member.
LEMMA LeastNatural ==
    ASSUME NEW T \in SUBSET Nat, T # {}
    PROVE  \E x \in T : \A y \in T : x <= y
  <1>. DEFINE R == StrictSubsetOrdering(Nat)
              S == FiniteSubsetsOf(Nat)
              U == {0 .. x : x \in T}
  <1>1. IsWellFoundedOn(R, S)
    BY FS_StrictSubsetOrderingWellFounded
  <1>2. U \subseteq S
    <2>1. \A x \in T : IsFiniteSet(0 .. x)
      BY FS_Interval
    <2>. QED  BY <2>1 DEF FiniteSubsetsOf
  <1>3. U # {}
    OBVIOUS
  <1>4. PICK u \in U : \A v \in U : ~ (<<v, u>> \in R)
    <2>. HIDE DEF R, S, U
    <2>. QED  BY <1>1, <1>2, <1>3, WFMin
  <1>5. PICK x \in T : u = 0 .. x
    OBVIOUS
  <1>6. ASSUME NEW y \in T, y < x  PROVE FALSE
    <2>1. 0 .. y \in U
      OBVIOUS
    <2>2. 0 .. y \subseteq 0 .. x /\ 0 .. y # 0 .. x /\ 0 .. x \subseteq Nat
      <3>1. x \in 0 .. x /\ ~ x \in 0 .. y
        BY <1>6
      <3>. QED  BY <1>6, <3>1
    <2>3. <<0 .. y, u>> \in R
      BY <2>2, <1>5 DEF StrictSubsetOrdering
    <2>. QED  BY <2>1, <2>3, <1>4
  <1>. QED  BY <1>6

\* A bounded set of natural numbers that is not empty has a greatest member.
LEMMA GreatestBelow ==
    ASSUME NEW n \in Nat, NEW S \in SUBSET (0 .. n), S # {}
    PROVE  Max(S) \in S
  <1>. DEFINE T == {n - i : i \in S}
  <1>1. T \in SUBSET Nat /\ T # {}
    <2>1. \A i \in S : n - i \in Nat
      OBVIOUS
    <2>2. PICK i \in S : TRUE
      OBVIOUS
    <2>3. n - i \in T
      OBVIOUS
    <2>. QED  BY <2>1, <2>3
  <1>2. PICK x \in T : \A y \in T : x <= y
    BY <1>1, LeastNatural
  <1>3. PICK i \in S : x = n - i
    OBVIOUS
  <1>4. \A j \in S : n - j \in T
    OBVIOUS
  <1>5. \A j \in S : i >= j
    <2>. SUFFICES ASSUME NEW j \in S PROVE i >= j
      OBVIOUS
    <2>1. n - i <= n - j
      BY <1>2, <1>3, <1>4
    <2>. QED  BY <2>1
  <1>. QED  BY <1>5 DEF Max

\* remove of an element of a list: the list closes over its first place.
LEMMA RemoveFirstIs ==
    ASSUME NEW T, NEW q \in Seq(T), NEW x, x \in ToSet(q)
    PROVE  \E p \in DOMAIN q :
              /\ q[p] = x
              /\ RemoveFirst(q, x) \in Seq(T)
              /\ Len(RemoveFirst(q, x)) = Len(q) - 1
              /\ \A i \in 1 .. Len(q) - 1 :
                    RemoveFirst(q, x)[i] = IF i < p THEN q[i] ELSE q[i + 1]
  <1>. DEFINE I == {i \in 1 .. Len(q) : q[i] = x}
              p == Min(I)
  <1>1. I \in SUBSET Nat /\ I # {} /\ DOMAIN q = 1 .. Len(q) /\ Len(q) \in Nat
    BY DEF ToSet
  <1>2. p \in I
    BY <1>1, LeastNatural DEF Min
  <1>3. RemoveFirst(q, x) = SubSeq(q, 1, p - 1) \o SubSeq(q, p + 1, Len(q))
    BY <1>1 DEF RemoveFirst, SelectInSeq, RemoveAt
  <1>. HIDE DEF p
  <1>4. p \in 1 .. Len(q) /\ q[p] = x
    BY <1>2
  <1>5. /\ SubSeq(q, 1, p - 1) \in Seq(T) /\ Len(SubSeq(q, 1, p - 1)) = p - 1
        /\ \A i \in 1 .. p - 1 : SubSeq(q, 1, p - 1)[i] = q[i]
    BY <1>1, <1>4
  <1>6. /\ SubSeq(q, p + 1, Len(q)) \in Seq(T) /\ Len(SubSeq(q, p + 1, Len(q))) = Len(q) - p
        /\ \A i \in 1 .. Len(q) - p : SubSeq(q, p + 1, Len(q))[i] = q[p + i]
    <2>. DEFINE t == SubSeq(q, p + 1, Len(q))
    <2>1. /\ t \in Seq(T)
          /\ Len(t) = IF p + 1 <= Len(q) THEN Len(q) - (p + 1) + 1 ELSE 0
          /\ \A i \in 1 .. Len(q) - (p + 1) + 1 : t[i] = q[(p + 1) + i - 1]
      <3>1. p + 1 \in 1 .. Len(q) + 1 /\ Len(q) \in p .. Len(q)
        BY <1>1, <1>4
      <3>. QED  BY <3>1, <1>1, <1>4, SubSeqProperties
    <2>. HIDE DEF t
    <2>2. Len(t) = Len(q) - p /\ Len(q) - (p + 1) + 1 = Len(q) - p
      <3>1. \A n \in Nat : \A m \in 1 .. n :
               /\ n - (m + 1) + 1 = n - m
               /\ ~ (m + 1 <= n) => n - m = 0
        OBVIOUS
      <3>2. Len(q) - (p + 1) + 1 = Len(q) - p /\ (~ (p + 1 <= Len(q)) => Len(q) - p = 0)
        BY <3>1, <1>1, <1>4
      <3>. QED  BY <2>1, <3>2
    <2>3. \A i \in 1 .. Len(q) - p : (p + 1) + i - 1 = p + i
      BY <1>1, <1>4
    <2>4. \A i \in 1 .. Len(q) - p : t[i] = q[p + i]
      BY <2>1, <2>2, <2>3
    <2>. QED  BY <2>1, <2>2, <2>4 DEF t
  <1>. DEFINE a == SubSeq(q, 1, p - 1)
              b == SubSeq(q, p + 1, Len(q))
              r == RemoveFirst(q, x)
  <1>. HIDE DEF a, b, r
  <1>7. /\ r \in Seq(T) /\ Len(r) = Len(a) + Len(b)
        /\ \A i \in 1 .. Len(a) + Len(b) : r[i] = IF i <= Len(a) THEN a[i] ELSE b[i - Len(a)]
    BY <1>3, <1>5, <1>6, ConcatProperties DEF a, b, r
  <1>8. Len(a) = p - 1 /\ Len(b) = Len(q) - p /\ p \in Nat /\ p >= 1 /\ p <= Len(q)
    <2>1. Len(a) = p - 1 /\ Len(b) = Len(q) - p
      BY <1>5, <1>6, Zenon DEF a, b
    <2>. QED  BY <2>1, <1>1, <1>4
  <1>9. ASSUME NEW i \in 1 .. Len(q) - 1
        PROVE  r[i] = IF i < p THEN q[i] ELSE q[i + 1]
    <2>1. i \in 1 .. Len(a) + Len(b)
      BY <1>1, <1>8
    <2>2. CASE i < p
      BY <2>1, <2>2, <1>5, <1>7, <1>8, <1>1 DEF a
    <2>3. CASE ~ (i < p)
      <3>1. /\ i - Len(a) \in 1 .. Len(q) - p /\ ~ (i <= Len(a)) /\ p + (i - Len(a)) = i + 1
        BY <1>1, <1>8, <2>3
      <3>2. b[i - Len(a)] = q[i + 1]
        BY <3>1, <1>6 DEF b
      <3>. QED  BY <2>1, <2>3, <3>1, <3>2, <1>7
    <2>. QED  BY <2>2, <2>3
  <1>10. Len(r) = Len(q) - 1
    BY <1>1, <1>7, <1>8
  <1>. QED  BY <1>1, <1>4, <1>7, <1>9, <1>10 DEF r

\* remove on a list without repeats takes x out and keeps the rest.
LEMMA RemoveFirstFacts ==
    ASSUME NEW T, NEW q \in Seq(T), NEW x, x \in ToSet(q), IsInjective(q)
    PROVE  /\ RemoveFirst(q, x) \in Seq(T)
           /\ Len(RemoveFirst(q, x)) = Len(q) - 1
           /\ ToSet(RemoveFirst(q, x)) = ToSet(q) \ {x}
           /\ IsInjective(RemoveFirst(q, x))
  <1>. DEFINE r == RemoveFirst(q, x)
  <1>1. PICK p \in DOMAIN q :
           /\ q[p] = x /\ r \in Seq(T) /\ Len(r) = Len(q) - 1
           /\ \A i \in 1 .. Len(q) - 1 : r[i] = IF i < p THEN q[i] ELSE q[i + 1]
    BY RemoveFirstIs
  <1>. HIDE DEF r
  <1>2. /\ DOMAIN q = 1 .. Len(q) /\ DOMAIN r = 1 .. Len(q) - 1 /\ Len(q) \in Nat
        /\ p \in 1 .. Len(q)
    BY <1>1
  <1>3. \A i \in DOMAIN q, j \in DOMAIN q : q[i] = q[j] => i = j
    BY DEF IsInjective
  <1>4. ToSet(r) \subseteq ToSet(q) \ {x}
    <2>. SUFFICES ASSUME NEW i \in DOMAIN r PROVE r[i] \in ToSet(q) \ {x}
      BY DEF ToSet
    <2>1. \E j \in DOMAIN q : j # p /\ r[i] = q[j]
      BY <1>1, <1>2
    <2>. QED  BY <1>1, <1>3, <2>1 DEF ToSet
  <1>5. ToSet(q) \ {x} \subseteq ToSet(r)
    <2>. SUFFICES ASSUME NEW j \in DOMAIN q, j # p PROVE q[j] \in ToSet(r)
      BY <1>1 DEF ToSet
    <2>1. \E i \in DOMAIN r : r[i] = q[j]
      <3>1. CASE j < p
        <4>1. j \in DOMAIN r /\ r[j] = q[j]
          BY <3>1, <1>1, <1>2
        <4>. QED  BY <4>1
      <3>2. CASE j > p
        <4>1. j - 1 \in DOMAIN r /\ ~ (j - 1 < p) /\ (j - 1) + 1 = j
          BY <3>2, <1>2
        <4>2. r[j - 1] = q[j]
          BY <4>1, <1>1, <1>2
        <4>. QED  BY <4>1, <4>2
      <3>. QED  BY <3>1, <3>2, <1>2
    <2>. QED  BY <2>1 DEF ToSet
  <1>6. IsInjective(r)
    <2>. SUFFICES ASSUME NEW i \in DOMAIN r, NEW j \in DOMAIN r, r[i] = r[j] PROVE i = j
      BY DEF IsInjective
    <2>. DEFINE At(n) == IF n < p THEN n ELSE n + 1
    <2>1. \A n \in DOMAIN r : At(n) \in DOMAIN q /\ r[n] = q[At(n)]
      BY <1>1, <1>2
    <2>2. At(i) = At(j)
      BY <2>1, <1>3
    <2>. QED  BY <2>2, <1>2
  <1>. QED  BY <1>1, <1>4, <1>5, <1>6 DEF r

\* push_front of an element that the list does not hold.
LEMMA PushFacts ==
    ASSUME NEW T, NEW q \in Seq(T), NEW x \in T
    PROVE  /\ <<x>> \o q \in Seq(T) /\ Len(<<x>> \o q) = Len(q) + 1
           /\ ToSet(<<x>> \o q) = ToSet(q) \cup {x}
           /\ x \notin ToSet(q) /\ IsInjective(q) => IsInjective(<<x>> \o q)
  <1>. DEFINE r == <<x>> \o q
  <1>1. /\ r \in Seq(T) /\ Len(r) = Len(q) + 1
        /\ r[1] = x /\ \A i \in 1 .. Len(q) : r[i + 1] = q[i]
    OBVIOUS
  <1>2. DOMAIN r = 1 .. Len(q) + 1 /\ DOMAIN q = 1 .. Len(q) /\ Len(q) \in Nat
    BY <1>1
  <1>. HIDE DEF r
  <1>3. \A n \in DOMAIN r : n # 1 => n - 1 \in DOMAIN q /\ r[n] = q[n - 1]
    <2>. SUFFICES ASSUME NEW n \in DOMAIN r, n # 1 PROVE n - 1 \in DOMAIN q /\ r[n] = q[n - 1]
      OBVIOUS
    <2>1. n - 1 \in 1 .. Len(q) /\ (n - 1) + 1 = n
      BY <1>2
    <2>. QED  BY <2>1, <1>1, <1>2
  <1>4. ToSet(r) = ToSet(q) \cup {x}
    <2>1. ToSet(r) \subseteq ToSet(q) \cup {x}
      BY <1>1, <1>3 DEF ToSet
    <2>2. \A i \in DOMAIN q : i + 1 \in DOMAIN r /\ r[i + 1] = q[i]
      BY <1>1, <1>2
    <2>3. 1 \in DOMAIN r
      BY <1>2
    <2>4. ToSet(q) \subseteq ToSet(r)
      BY <2>2 DEF ToSet
    <2>5. x \in ToSet(r)
      BY <1>1, <2>3 DEF ToSet
    <2>. QED  BY <2>1, <2>4, <2>5
  <1>5. ASSUME x \notin ToSet(q), IsInjective(q) PROVE IsInjective(r)
    <2>. SUFFICES ASSUME NEW i \in DOMAIN r, NEW j \in DOMAIN r, r[i] = r[j] PROVE i = j
      BY DEF IsInjective
    <2>1. \A n \in DOMAIN q : q[n] # x
      BY <1>5 DEF ToSet
    <2>2. \A m, n \in DOMAIN q : q[m] = q[n] => m = n
      BY <1>5 DEF IsInjective
    <2>3. CASE i = 1 \/ j = 1
      BY <2>1, <2>3, <1>1, <1>3
    <2>4. CASE i # 1 /\ j # 1
      <3>1. i - 1 = j - 1
        BY <2>2, <2>4, <1>3
      <3>. QED  BY <3>1, <1>2
    <2>. QED  BY <2>3, <2>4
  <1>. QED  BY <1>1, <1>4, <1>5 DEF r

-----------------------------------------------------------------------------
(* The order of the operations on a slot *)

\* The operations of the two streams, and a recorded event.
Memories == {"locked", "pageable"} \cup Nat
CopyOp == [op : {"copy"}, slot : Slot, key : Item, after : Nat, from : Memories]
ReadOp == [op : {"kernel", "cached", "wait"}, slot : Slot, key : Item, after : Nat]
Event == [by : Stream, ahead : Nat]

\* The first n operations of q are over only after operation m of the other stream.
Waits(q, n, m) == \E i \in DOMAIN q : i <= n /\ q[i].after >= m

\* Behind the first n operations of q no operation on s is left, in q or in p.
Settled(q, p, n, s) ==
    /\ \A i \in DOMAIN q : q[i].slot = s => i <= n
    /\ \A j \in DOMAIN p : p[j].slot = s => Waits(q, n, j)

\* The event of a slot is behind every operation on it.
Events(d, c, ev) ==
    \A s \in Slot : IF ev[s].by = "dma" THEN Settled(d, c, ev[s].ahead, s)
                    ELSE Settled(c, d, ev[s].ahead, s)

\* What operation j of c finds in slot s: the last copy it is behind, or the memory
\* of now, and every later copy is behind it.
Finds(d, c, v, j) ==
    LET s == c[j].slot
        Behind(h) == d[h].slot = s => Waits(d, h, j)
    IN  \/ /\ v[s] = c[j].key
           /\ \A h \in DOMAIN d : Behind(h)
        \/ \E i \in DOMAIN d : /\ d[i].slot = s /\ d[i].key = c[j].key /\ Waits(c, j, i)
                               /\ \A h \in DOMAIN d : h > i => Behind(h)
Ordered(d, c, v) == \A j \in DOMAIN c : Finds(d, c, v, j)

\* The key slot s holds when all the copies have run.
Ends(d, v, s, k) ==
    \/ v[s] = k /\ \A h \in DOMAIN d : d[h].slot # s
    \/ \E i \in DOMAIN d : /\ d[i].slot = s /\ d[i].key = k
                           /\ \A h \in DOMAIN d : h > i => d[h].slot # s

\* An operation of X has run: those of the other stream wait for one less.
Eased(q) == [i \in DOMAIN q |-> [q[i] EXCEPT !.after = Less(@)]]

\* What an append does to a list.
LEMMA AppendIs ==
    ASSUME NEW T, NEW q \in Seq(T), NEW o \in T
    PROVE  /\ Append(q, o) \in Seq(T) /\ Len(Append(q, o)) = Len(q) + 1 /\ Len(q) \in Nat
           /\ DOMAIN q = 1 .. Len(q) /\ DOMAIN Append(q, o) = 1 .. Len(q) + 1
           /\ \A i \in DOMAIN q : Append(q, o)[i] = q[i]
           /\ Append(q, o)[Len(q) + 1] = o
           /\ \A i \in DOMAIN Append(q, o) : i = Len(q) + 1 \/ i \in DOMAIN q
           /\ \A i \in DOMAIN q : i \in Nat /\ i >= 1 /\ i <= Len(q) /\ i \in DOMAIN Append(q, o)
  <1>1. /\ Append(q, o) \in Seq(T) /\ Len(Append(q, o)) = Len(q) + 1 /\ Len(q) \in Nat
        /\ \A i \in 1 .. Len(q) : Append(q, o)[i] = q[i]
        /\ Append(q, o)[Len(q) + 1] = o
    BY AppendProperties
  <1>2. DOMAIN q = 1 .. Len(q) /\ DOMAIN Append(q, o) = 1 .. Len(q) + 1
    BY <1>1
  <1>. QED  BY <1>1, <1>2

\* What waits in q still waits in a longer q.
LEMMA WaitsLonger ==
    ASSUME NEW T, NEW q \in Seq(T), NEW o \in T, NEW n \in Nat, NEW m, Waits(q, n, m),
           NEW l \in Nat, n <= l
    PROVE  Waits(Append(q, o), l, m)
  <1>1. PICK i \in DOMAIN q : i <= n /\ q[i].after >= m
    BY DEF Waits
  <1>2. i \in DOMAIN Append(q, o) /\ Append(q, o)[i] = q[i] /\ i \in Nat
    BY AppendIs
  <1>3. i <= l
    BY <1>1, <1>2
  <1>. QED  BY <1>1, <1>2, <1>3 DEF Waits

\* An operation o on slot s is enqueued in q behind a wait for the event of s,
\* and the event recorded behind it: the event of s is then of q, behind all.
LEMMA EnqueueSettles ==
    ASSUME NEW T, NEW q \in Seq(T), NEW U, NEW p \in Seq(U), NEW s, NEW n \in Nat,
           NEW o \in T, o.slot = s,
           \/ Settled(q, p, n, s) /\ n <= Len(q)
           \/ Settled(p, q, n, s) /\ o.after = n
    PROVE  Settled(Append(q, o), p, Len(q) + 1, s)
  <1>. DEFINE r == Append(q, o)
  <1>0. Len(q) \in Nat
    OBVIOUS
  <1>1. \A i \in DOMAIN r : i <= Len(q) + 1
    BY AppendIs
  <1>2. ASSUME NEW j \in DOMAIN p, p[j].slot = s
        PROVE  Waits(r, Len(q) + 1, j)
    <2>1. CASE Settled(q, p, n, s) /\ n <= Len(q)
      <3>1. Waits(q, n, j) /\ n <= Len(q) + 1 /\ Len(q) + 1 \in Nat
        BY <1>0, <1>2, <2>1 DEF Settled
      <3>. QED  BY <3>1, WaitsLonger
    <2>2. CASE Settled(p, q, n, s) /\ o.after = n
      <3>1. j <= n /\ j \in Nat
        BY <1>2, <2>2 DEF Settled
      <3>2. /\ Len(q) + 1 \in DOMAIN r /\ r[Len(q) + 1].after = n /\ Len(q) + 1 <= Len(q) + 1
        BY <1>0, <2>2, AppendIs
      <3>3. r[Len(q) + 1].after >= j
        BY <3>1, <3>2
      <3>. HIDE DEF r
      <3>. QED  BY <3>2, <3>3 DEF Waits
    <2>. QED  BY <2>1, <2>2
  <1>. QED  BY <1>1, <1>2 DEF Settled

\* An operation on another slot leaves an event as far behind as it was.
LEMMA EnqueueElsewhere ==
    ASSUME NEW T, NEW q \in Seq(T), NEW U, NEW p \in Seq(U), NEW s, NEW n \in Nat,
           NEW o \in T, o.slot # s
    PROVE  /\ Settled(q, p, n, s) => Settled(Append(q, o), p, n, s)
           /\ Settled(p, q, n, s) => Settled(p, Append(q, o), n, s)
  <1>. DEFINE r == Append(q, o)
  <1>1. \A i \in DOMAIN r : r[i].slot = s => i \in DOMAIN q /\ r[i] = q[i]
    BY AppendIs
  <1>2. ASSUME NEW j, Waits(q, n, j) PROVE Waits(r, n, j)
    BY <1>2, WaitsLonger
  <1>. HIDE DEF r
  <1>3. Settled(q, p, n, s) => Settled(r, p, n, s)
    BY <1>1, <1>2 DEF Settled
  <1>4. Settled(p, q, n, s) => Settled(p, r, n, s)
    BY <1>1 DEF Settled
  <1>. QED  BY <1>3, <1>4 DEF r

\* An operation of q has run.
LEMMA ExecuteSettles ==
    ASSUME NEW T, NEW q \in Seq(T), NEW U, NEW p \in Seq(U), NEW s, NEW n \in Nat,
           q # <<>>, q[1].after = 0, \A j \in DOMAIN p : p[j].after \in Nat,
           \A j \in DOMAIN p : Eased(p)[j].slot = p[j].slot /\ Eased(p)[j].after = Less(p[j].after)
    PROVE  /\ Settled(q, p, n, s) => Settled(Tail(q), Eased(p), Less(n), s)
           /\ Settled(p, q, n, s) => Settled(Eased(p), Tail(q), n, s)
  <1>. DEFINE t == Tail(q)
              e == Eased(p)
  <1>1. /\ Len(q) \in Nat /\ Len(q) >= 1 /\ DOMAIN q = 1 .. Len(q)
        /\ DOMAIN t = 1 .. Len(q) - 1
        /\ \A i \in DOMAIN t : t[i] = q[i + 1]
    <2>1. /\ t \in Seq(T) /\ Len(t) = Len(q) - 1
          /\ \A i \in 1 .. Len(t) : t[i] = q[i + 1]
      BY HeadTailProperties
    <2>2. Len(q) \in Nat /\ Len(q) # 0
      BY EmptySeq
    <2>. QED  BY <2>1, <2>2
  <1>2. DOMAIN e = DOMAIN p /\ \A j \in DOMAIN p : j \in Nat /\ j >= 1
    BY DEF Eased
  <1>. HIDE DEF t, e
  <1>3. ASSUME Settled(q, p, n, s) PROVE Settled(t, e, Less(n), s)
    <2>1. ASSUME NEW i \in DOMAIN t, t[i].slot = s PROVE i <= Less(n)
      <3>1. i \in Nat /\ i >= 1 /\ i + 1 \in DOMAIN q /\ q[i + 1].slot = s
        BY <1>1, <2>1
      <3>2. i + 1 <= n
        BY <1>3, <3>1 DEF Settled
      <3>. QED  BY <3>1, <3>2 DEF Less
    <2>2. ASSUME NEW j \in DOMAIN e, e[j].slot = s PROVE Waits(t, Less(n), j)
      <3>1. j \in DOMAIN p /\ p[j].slot = s /\ j \in Nat /\ j >= 1
        BY <1>2, <2>2 DEF e
      <3>2. PICK i \in DOMAIN q : i <= n /\ q[i].after >= j
        BY <1>3, <3>1 DEF Settled, Waits
      <3>3. i # 1
        BY <3>1, <3>2
      <3>4. i - 1 \in DOMAIN t /\ (i - 1) + 1 = i /\ i - 1 <= Less(n)
        BY <1>1, <3>2, <3>3 DEF Less
      <3>5. t[i - 1].after >= j
        BY <1>1, <3>2, <3>4
      <3>. QED  BY <3>4, <3>5 DEF Waits
    <2>. QED  BY <2>1, <2>2 DEF Settled
  <1>4. ASSUME Settled(p, q, n, s) PROVE Settled(e, t, n, s)
    <2>1. ASSUME NEW j \in DOMAIN e, e[j].slot = s PROVE j <= n
      BY <1>2, <1>4, <2>1 DEF Settled, e
    <2>2. ASSUME NEW i \in DOMAIN t, t[i].slot = s PROVE Waits(e, n, i)
      <3>1. i \in Nat /\ i >= 1 /\ i + 1 \in DOMAIN q /\ q[i + 1].slot = s
        BY <1>1, <2>2
      <3>2. PICK j \in DOMAIN p : j <= n /\ p[j].after >= i + 1
        BY <1>4, <3>1 DEF Settled, Waits
      <3>3. j \in DOMAIN e /\ e[j].after = Less(p[j].after)
        BY <1>2 DEF e
      <3>4. Less(p[j].after) >= i
        BY <3>1, <3>2 DEF Less
      <3>. QED  BY <3>2, <3>3, <3>4 DEF Waits
    <2>. QED  BY <2>1, <2>2 DEF Settled
  <1>. QED  BY <1>3, <1>4 DEF t, e

\* The operations of a list after its head has run.
LEMMA TailIs ==
    ASSUME NEW T, NEW q \in Seq(T), q # <<>>
    PROVE  /\ Len(q) \in Nat /\ Len(q) >= 1 /\ DOMAIN q = 1 .. Len(q) /\ 1 \in DOMAIN q
           /\ Tail(q) \in Seq(T) /\ Len(Tail(q)) = Len(q) - 1
           /\ DOMAIN Tail(q) = 1 .. Len(q) - 1 /\ Head(q) = q[1] /\ q[1] \in T
           /\ \A i \in DOMAIN Tail(q) :
                 i \in Nat /\ i >= 1 /\ i + 1 \in DOMAIN q /\ Tail(q)[i] = q[i + 1]
           /\ \A i \in DOMAIN q : i # 1 => /\ i - 1 \in DOMAIN Tail(q) /\ (i - 1) + 1 = i
                                           /\ Tail(q)[i - 1] = q[i]
  <1>1. /\ Tail(q) \in Seq(T) /\ Len(Tail(q)) = Len(q) - 1
        /\ \A i \in 1 .. Len(Tail(q)) : Tail(q)[i] = q[i + 1]
    BY HeadTailProperties
  <1>2. Len(q) \in Nat /\ Len(q) # 0
    BY EmptySeq
  <1>3. Head(q) = q[1]
    OBVIOUS
  <1>4. DOMAIN q = 1 .. Len(q) /\ DOMAIN Tail(q) = 1 .. Len(q) - 1 /\ 1 \in DOMAIN q
    BY <1>1, <1>2
  <1>5. q[1] \in T
    BY <1>4
  <1>6. \A i \in DOMAIN q : i # 1 => i - 1 \in DOMAIN Tail(q) /\ (i - 1) + 1 = i
    BY <1>2, <1>4
  <1>. QED  BY <1>1, <1>2, <1>3, <1>4, <1>5, <1>6

\* Who waits, once the head of q has run, and once what it waited for came closer.
LEMMA WaitsTail ==
    ASSUME NEW T, NEW q \in Seq(T), q # <<>>, q[1].after = 0,
           NEW n \in Nat, NEW m \in Nat, m >= 1, Waits(q, n, m)
    PROVE  n >= 2 /\ Waits(Tail(q), n - 1, m)
  <1>1. PICK i \in DOMAIN q : i <= n /\ q[i].after >= m
    BY DEF Waits
  <1>2. i # 1 /\ i \in Nat /\ i >= 1
    BY <1>1, TailIs
  <1>3. i - 1 \in DOMAIN Tail(q) /\ Tail(q)[i - 1].after >= m /\ i - 1 <= n - 1
    BY <1>1, <1>2, TailIs
  <1>. QED  BY <1>1, <1>2, <1>3 DEF Waits

\* Who waited for one more operation still waits when the first of them has run.
LEMMA WaitsEased ==
    ASSUME NEW p, NEW n, NEW m \in Nat, Waits(p, n, m + 1),
           \A j \in DOMAIN p : p[j].after \in Nat /\ Eased(p)[j].after = Less(p[j].after)
    PROVE  Waits(Eased(p), n, m)
  <1>1. PICK j \in DOMAIN p : j <= n /\ p[j].after >= m + 1
    BY DEF Waits
  <1>2. j \in DOMAIN Eased(p) /\ Eased(p)[j].after >= m
    <2>1. Less(p[j].after) >= m
      BY <1>1 DEF Less
    <2>. QED  BY <2>1 DEF Eased
  <1>. QED  BY <1>1, <1>2 DEF Waits

\* One operation, with what it waits for one closer.
LEMMA OpEased ==
    ASSUME NEW o
    PROVE  LET e == [o EXCEPT !.after = Less(@)]
           IN  /\ o \in CopyOp => /\ o.after \in Nat /\ e \in CopyOp /\ e.after = Less(o.after)
                                  /\ e.slot = o.slot /\ e.key = o.key
               /\ o \in ReadOp => /\ o.after \in Nat /\ e \in ReadOp /\ e.after = Less(o.after)
                                  /\ e.slot = o.slot /\ e.key = o.key
  <1>1. \A n \in Nat : Less(n) \in Nat
    BY DEF Less
  <1>2. CASE o \in CopyOp /\ o \notin ReadOp
    BY <1>1, <1>2 DEF CopyOp
  <1>3. CASE o \in ReadOp /\ o \notin CopyOp
    BY <1>1, <1>3 DEF ReadOp
  <1>4. ~ (o \in CopyOp /\ o \in ReadOp)
    BY DEF CopyOp, ReadOp
  <1>. QED  BY <1>2, <1>3, <1>4

\* The fields of the eased operations.
LEMMA EasedIs ==
    ASSUME NEW q, q \in Seq(CopyOp) \/ q \in Seq(ReadOp)
    PROVE  /\ q \in Seq(CopyOp) => Eased(q) \in Seq(CopyOp)
           /\ q \in Seq(ReadOp) => Eased(q) \in Seq(ReadOp)
           /\ DOMAIN Eased(q) = DOMAIN q /\ Len(Eased(q)) = Len(q)
           /\ \A i \in DOMAIN q : /\ i \in Nat /\ i >= 1 /\ q[i].after \in Nat
                                  /\ Eased(q)[i].after = Less(q[i].after)
                                  /\ Eased(q)[i].slot = q[i].slot /\ Eased(q)[i].key = q[i].key
  <1>1. DOMAIN q = 1 .. Len(q) /\ Len(q) \in Nat
    OBVIOUS
  <1>2. /\ DOMAIN Eased(q) = DOMAIN q
        /\ \A i \in DOMAIN q : Eased(q)[i] = [q[i] EXCEPT !.after = Less(@)]
    BY DEF Eased
  <1>3. CASE q \in Seq(CopyOp)
    <2>1. \A i \in DOMAIN q : q[i] \in CopyOp
      BY <1>3
    <2>2. \A i \in DOMAIN q : /\ q[i].after \in Nat /\ Eased(q)[i] \in CopyOp
                              /\ Eased(q)[i].after = Less(q[i].after)
                              /\ Eased(q)[i].slot = q[i].slot /\ Eased(q)[i].key = q[i].key
      <3>. SUFFICES ASSUME NEW i \in DOMAIN q
                    PROVE  /\ q[i].after \in Nat /\ Eased(q)[i] \in CopyOp
                           /\ Eased(q)[i].after = Less(q[i].after)
                           /\ Eased(q)[i].slot = q[i].slot /\ Eased(q)[i].key = q[i].key
        OBVIOUS
      <3>1. q[i] \in CopyOp /\ Eased(q)[i] = [q[i] EXCEPT !.after = Less(@)]
        BY <1>2, <2>1
      <3>. QED  BY <3>1, OpEased
    <2>3. Eased(q) \in Seq(CopyOp) /\ Len(Eased(q)) = Len(q)
      <3>1. Eased(q) \in [1 .. Len(q) -> CopyOp]
        BY <1>1, <2>2 DEF Eased
      <3>. HIDE DEF Eased
      <3>. QED  BY <1>1, <3>1
    <2>4. q \in Seq(ReadOp) => Eased(q) \in Seq(ReadOp)
      <3>. SUFFICES ASSUME q \in Seq(ReadOp) PROVE Eased(q) \in Seq(ReadOp)
        OBVIOUS
      <3>1. \A i \in DOMAIN q : q[i] \in ReadOp /\ q[i] \in CopyOp
        BY <2>1
      <3>2. DOMAIN q = {}
        BY <3>1 DEF ReadOp, CopyOp
      <3>. QED  BY <1>1, <1>2, <2>3, <3>2
    <2>. QED  BY <1>1, <1>2, <2>2, <2>3, <2>4
  <1>4. CASE q \in Seq(ReadOp) /\ q \notin Seq(CopyOp)
    <2>1. \A i \in DOMAIN q : q[i] \in ReadOp
      BY <1>4
    <2>2. \A i \in DOMAIN q : /\ q[i].after \in Nat /\ Eased(q)[i] \in ReadOp
                              /\ Eased(q)[i].after = Less(q[i].after)
                              /\ Eased(q)[i].slot = q[i].slot /\ Eased(q)[i].key = q[i].key
      <3>. SUFFICES ASSUME NEW i \in DOMAIN q
                    PROVE  /\ q[i].after \in Nat /\ Eased(q)[i] \in ReadOp
                           /\ Eased(q)[i].after = Less(q[i].after)
                           /\ Eased(q)[i].slot = q[i].slot /\ Eased(q)[i].key = q[i].key
        OBVIOUS
      <3>1. q[i] \in ReadOp /\ Eased(q)[i] = [q[i] EXCEPT !.after = Less(@)]
        BY <1>2, <2>1
      <3>. QED  BY <3>1, OpEased
    <2>3. Eased(q) \in Seq(ReadOp) /\ Len(Eased(q)) = Len(q)
      <3>1. Eased(q) \in [1 .. Len(q) -> ReadOp]
        BY <1>1, <2>2 DEF Eased
      <3>. HIDE DEF Eased
      <3>. QED  BY <1>1, <3>1
    <2>. QED  BY <1>1, <1>2, <1>4, <2>2, <2>3
  <1>. QED  BY <1>3, <1>4

\* A copy is enqueued behind every operation on its slot.
LEMMA CopyOrdered ==
    ASSUME NEW d \in Seq(CopyOp), NEW c \in Seq(ReadOp), NEW v, NEW o \in CopyOp,
           Settled(Append(d, o), c, Len(d) + 1, o.slot), Ordered(d, c, v)
    PROVE  Ordered(Append(d, o), c, v)
  <1>. DEFINE r == Append(d, o)
  <1>0. /\ Len(d) \in Nat /\ Len(d) + 1 \in DOMAIN r /\ r[Len(d) + 1] = o
        /\ \A h \in DOMAIN r : h = Len(d) + 1 \/ h \in DOMAIN d
        /\ \A h \in DOMAIN d : h \in Nat /\ h <= Len(d) /\ h \in DOMAIN r /\ r[h] = d[h]
    BY AppendIs
  <1>1. ASSUME NEW h \in DOMAIN d, NEW j, Waits(d, h, j) PROVE Waits(r, h, j)
    <2>1. h \in Nat /\ h <= h
      BY <1>0
    <2>. QED  BY <2>1, <1>1, WaitsLonger
  <1>. HIDE DEF r
  <1>2. ASSUME NEW j \in DOMAIN c PROVE Finds(r, c, v, j)
    <2>. DEFINE s == c[j].slot
    <2>1. r[Len(d) + 1].slot = s => Waits(r, Len(d) + 1, j)
      BY <1>0, <1>2 DEF Settled, r
    <2>2. ASSUME NEW h \in DOMAIN r, h \in DOMAIN d => (d[h].slot = s => Waits(d, h, j))
          PROVE  r[h].slot = s => Waits(r, h, j)
      BY <1>0, <1>1, <2>1, <2>2
    <2>3. CASE v[s] = c[j].key /\ \A h \in DOMAIN d : d[h].slot = s => Waits(d, h, j)
      BY <2>2, <2>3 DEF Finds
    <2>4. CASE \E i \in DOMAIN d : /\ d[i].slot = s /\ d[i].key = c[j].key /\ Waits(c, j, i)
                                   /\ \A h \in DOMAIN d : h > i => (d[h].slot = s => Waits(d, h, j))
      <3>1. PICK i \in DOMAIN d : /\ d[i].slot = s /\ d[i].key = c[j].key /\ Waits(c, j, i)
                                  /\ \A h \in DOMAIN d : h > i => (d[h].slot = s => Waits(d, h, j))
        BY <2>4
      <3>2. i \in DOMAIN r /\ r[i] = d[i]
        BY <1>0
      <3>3. \A h \in DOMAIN r : h > i => (r[h].slot = s => Waits(r, h, j))
        BY <2>2, <3>1
      <3>. QED  BY <3>1, <3>2, <3>3 DEF Finds
    <2>. QED  BY <2>3, <2>4 DEF Ordered, Finds
  <1>. QED  BY <1>2 DEF Ordered, r

\* A reader is enqueued behind the copies on its slot.
LEMMA ReadOrdered ==
    ASSUME NEW d \in Seq(CopyOp), NEW c \in Seq(ReadOp), NEW v, NEW o \in ReadOp,
           Settled(Append(c, o), d, Len(c) + 1, o.slot), Ordered(d, c, v),
           Ends(d, v, o.slot, o.key)
    PROVE  Ordered(d, Append(c, o), v)
  <1>. DEFINE r == Append(c, o)
  <1>0. /\ Len(c) \in Nat /\ r[Len(c) + 1] = o
        /\ \A h \in DOMAIN r : h = Len(c) + 1 \/ h \in DOMAIN c
        /\ \A h \in DOMAIN c : h \in Nat /\ r[h] = c[h]
    BY AppendIs
  <1>1. ASSUME NEW j \in DOMAIN c, NEW i, Waits(c, j, i) PROVE Waits(r, j, i)
    <2>1. j \in Nat /\ j <= j
      BY <1>0
    <2>. QED  BY <2>1, <1>1, WaitsLonger
  <1>. HIDE DEF r
  <1>2. ASSUME NEW j \in DOMAIN c PROVE Finds(d, r, v, j)
    <2>1. r[j] = c[j] /\ Finds(d, c, v, j)
      BY <1>0 DEF Ordered
    <2>. QED  BY <1>1, <2>1 DEF Finds
  <1>3. Finds(d, r, v, Len(c) + 1)
    <2>1. CASE v[o.slot] = o.key /\ \A h \in DOMAIN d : d[h].slot # o.slot
      BY <1>0, <2>1 DEF Finds
    <2>2. CASE \E i \in DOMAIN d : /\ d[i].slot = o.slot /\ d[i].key = o.key
                                   /\ \A h \in DOMAIN d : h > i => d[h].slot # o.slot
      <3>1. PICK i \in DOMAIN d : /\ d[i].slot = o.slot /\ d[i].key = o.key
                                  /\ \A h \in DOMAIN d : h > i => d[h].slot # o.slot
        BY <2>2
      <3>2. Waits(r, Len(c) + 1, i)
        BY <3>1 DEF Settled, r
      <3>. QED  BY <1>0, <3>1, <3>2 DEF Finds
    <2>. QED  BY <2>1, <2>2 DEF Ends
  <1>. QED  BY <1>0, <1>2, <1>3 DEF Ordered, r

\* The oldest copy has run.
LEMMA DmaOrdered ==
    ASSUME NEW d \in Seq(CopyOp), NEW c \in Seq(ReadOp), NEW v \in [Slot -> Item \cup {Empty}],
           d # <<>>, d[1].after = 0, Ordered(d, c, v)
    PROVE  Ordered(Tail(d), Eased(c), [v EXCEPT ![d[1].slot] = d[1].key])
  <1>. DEFINE t == Tail(d)
              e == Eased(c)
              u == [v EXCEPT ![d[1].slot] = d[1].key]
  <1>1. /\ 1 \in DOMAIN d /\ d[1] \in CopyOp
        /\ \A i \in DOMAIN t : i \in Nat /\ i >= 1 /\ i + 1 \in DOMAIN d /\ t[i] = d[i + 1]
        /\ \A i \in DOMAIN d : i # 1 => i - 1 \in DOMAIN t /\ (i - 1) + 1 = i /\ t[i - 1] = d[i]
    BY TailIs
  <1>2. /\ DOMAIN e = DOMAIN c
        /\ \A j \in DOMAIN c : /\ j \in Nat /\ j >= 1 /\ c[j].after \in Nat
                               /\ e[j].after = Less(c[j].after)
                               /\ e[j].slot = c[j].slot /\ e[j].key = c[j].key
    BY EasedIs
  <1>3. /\ d[1].slot \in Slot /\ u[d[1].slot] = d[1].key
        /\ \A s \in Slot : s # d[1].slot => u[s] = v[s]
    BY <1>1 DEF CopyOp
  <1>4. \A h \in DOMAIN t, j \in DOMAIN c : Waits(d, h + 1, j) => Waits(t, h, j)
    <2>. SUFFICES ASSUME NEW h \in DOMAIN t, NEW j \in DOMAIN c, Waits(d, h + 1, j)
                  PROVE  Waits(t, h, j)
      OBVIOUS
    <2>0. h \in Nat /\ j \in Nat /\ j >= 1
      BY <1>1, <1>2, Zenon
    <2>1. h + 1 \in Nat /\ (h + 1) - 1 = h /\ j \in Nat /\ j >= 1
      BY <2>0
    <2>2. Waits(t, (h + 1) - 1, j)
      BY <2>1, WaitsTail
    <2>. QED  BY <2>1, <2>2
  <1>5. \A j \in DOMAIN c, i \in Nat : Waits(c, j, i + 1) => Waits(e, j, i)
    BY <1>2, WaitsEased
  <1>6. \A j \in DOMAIN c : ~ Waits(d, 1, j)
    <2>. SUFFICES ASSUME NEW j \in DOMAIN c, NEW i \in DOMAIN d, i <= 1, d[i].after >= j PROVE FALSE
      BY DEF Waits
    <2>1. i = 1
      OBVIOUS
    <2>. QED  BY <2>1, <1>2
  <1>. HIDE DEF t, e, u
  <1>7. ASSUME NEW j \in DOMAIN c PROVE Finds(t, e, u, j)
    <2>. DEFINE s == c[j].slot
                k == c[j].key
    <2>0. s \in Slot /\ e[j].slot = s /\ e[j].key = k
      <3>1. c[j] \in ReadOp
        OBVIOUS
      <3>. QED  BY <3>1, <1>2 DEF ReadOp
    <2>1. ASSUME NEW h \in DOMAIN t, d[h + 1].slot = s => Waits(d, h + 1, j)
          PROVE  t[h].slot = s => Waits(t, h, j)
      BY <1>1, <1>4, <2>1
    <2>. HIDE DEF s, k
    <2>2. CASE v[s] = k /\ \A h \in DOMAIN d : d[h].slot = s => Waits(d, h, j)
      <3>1. d[1].slot # s
        BY <1>1, <1>6, <2>2
      <3>2. u[s] = k
        BY <1>3, <2>0, <2>2, <3>1
      <3>3. \A h \in DOMAIN t : t[h].slot = s => Waits(t, h, j)
        BY <1>1, <2>1, <2>2
      <3>. QED  BY <2>0, <3>2, <3>3 DEF Finds
    <2>3. ASSUME NEW i \in DOMAIN d, d[i].slot = s, d[i].key = k, Waits(c, j, i),
                 \A h \in DOMAIN d : h > i => (d[h].slot = s => Waits(d, h, j))
          PROVE  Finds(t, e, u, j)
      <3>1. \A h \in DOMAIN t : h + 1 > i => (t[h].slot = s => Waits(t, h, j))
        BY <1>1, <2>1, <2>3
      <3>2. CASE i = 1
        <4>1. u[s] = k
          BY <1>3, <2>3, <3>2
        <4>2. \A h \in DOMAIN t : h + 1 > i
          BY <1>1, <3>2
        <4>. QED  BY <2>0, <3>1, <4>1, <4>2 DEF Finds
      <3>3. CASE i # 1
        <4>1. i - 1 \in DOMAIN t /\ (i - 1) + 1 = i /\ t[i - 1] = d[i] /\ i - 1 \in Nat
          BY <1>1, <3>3
        <4>2. Waits(e, j, i - 1)
          <5>1. Waits(c, j, (i - 1) + 1)
            BY <2>3, <4>1
          <5>. QED  BY <1>5, <4>1, <5>1
        <4>3. \A h \in DOMAIN t : h > i - 1 => h + 1 > i
          BY <1>1, <4>1
        <4>. QED  BY <2>0, <2>3, <3>1, <4>1, <4>2, <4>3 DEF Finds
      <3>. QED  BY <3>2, <3>3
    <2>. QED  BY <2>2, <2>3 DEF Ordered, Finds, s, k
  <1>. QED  BY <1>2, <1>7 DEF Ordered, t, e, u

\* The oldest reader has run.
LEMMA ComputeOrdered ==
    ASSUME NEW d \in Seq(CopyOp), NEW c \in Seq(ReadOp), NEW v,
           c # <<>>, c[1].after = 0, Ordered(d, c, v)
    PROVE  Ordered(Eased(d), Tail(c), v)
  <1>. DEFINE t == Tail(c)
              e == Eased(d)
  <1>1. \A j \in DOMAIN t : j \in Nat /\ j >= 1 /\ j + 1 \in DOMAIN c /\ t[j] = c[j + 1]
    BY TailIs
  <1>2. /\ DOMAIN e = DOMAIN d
        /\ \A h \in DOMAIN d : /\ h \in Nat /\ h >= 1 /\ d[h].after \in Nat
                               /\ e[h].after = Less(d[h].after)
                               /\ e[h].slot = d[h].slot /\ e[h].key = d[h].key
    BY EasedIs
  <1>3. \A j \in DOMAIN t, i \in DOMAIN d : Waits(c, j + 1, i) => Waits(t, j, i)
    <2>. SUFFICES ASSUME NEW j \in DOMAIN t, NEW i \in DOMAIN d, Waits(c, j + 1, i)
                  PROVE  Waits(t, j, i)
      OBVIOUS
    <2>1. j + 1 \in Nat /\ (j + 1) - 1 = j /\ i \in Nat /\ i >= 1
      BY <1>1, <1>2
    <2>2. Waits(t, (j + 1) - 1, i)
      BY <2>1, WaitsTail
    <2>. QED  BY <2>1, <2>2
  <1>4. \A h \in DOMAIN d, j \in DOMAIN t : Waits(d, h, j + 1) => Waits(e, h, j)
    BY <1>1, <1>2, WaitsEased
  <1>. HIDE DEF t, e
  <1>5. ASSUME NEW j \in DOMAIN t PROVE Finds(e, t, v, j)
    <2>1. t[j] = c[j + 1] /\ Finds(d, c, v, j + 1)
      BY <1>1 DEF Ordered
    <2>. DEFINE s == t[j].slot
                k == t[j].key
    <2>. HIDE DEF s, k
    <2>2. CASE v[s] = k /\ \A h \in DOMAIN d : d[h].slot = s => Waits(d, h, j + 1)
      <3>1. \A h \in DOMAIN e : e[h].slot = s => Waits(e, h, j)
        BY <1>2, <1>4, <2>2
      <3>. QED  BY <2>2, <3>1 DEF Finds, s, k
    <2>3. ASSUME NEW i \in DOMAIN d, d[i].slot = s, d[i].key = k, Waits(c, j + 1, i),
                 \A h \in DOMAIN d : h > i => (d[h].slot = s => Waits(d, h, j + 1))
          PROVE  Finds(e, t, v, j)
      <3>1. \A h \in DOMAIN e : h > i => (e[h].slot = s => Waits(e, h, j))
        BY <1>2, <1>4, <2>3
      <3>2. i \in DOMAIN e /\ e[i].slot = s /\ e[i].key = k /\ Waits(t, j, i)
        BY <1>2, <1>3, <2>3
      <3>. QED  BY <3>1, <3>2 DEF Finds, s, k
    <2>. QED  BY <2>1, <2>2, <2>3 DEF Finds, s, k
  <1>. QED  BY <1>5 DEF Ordered, t, e

\* What a slot holds in the end: after a copy into it or into another slot, after
\* a copy has run, and after a reader has run.
LEMMA EndsNext ==
    ASSUME NEW d \in Seq(CopyOp), NEW v \in [Slot -> Item \cup {Empty}], NEW s \in Slot, NEW k
    PROVE  /\ \A o \in CopyOp : /\ Ends(Append(d, o), v, o.slot, o.key)
                                /\ o.slot # s /\ Ends(d, v, s, k) => Ends(Append(d, o), v, s, k)
           /\ d # <<>> /\ Ends(d, v, s, k)
                => Ends(Tail(d), [v EXCEPT ![d[1].slot] = d[1].key], s, k)
           /\ Ends(d, v, s, k) => Ends(Eased(d), v, s, k)
  <1>1. ASSUME NEW o \in CopyOp
        PROVE  /\ Ends(Append(d, o), v, o.slot, o.key)
               /\ o.slot # s /\ Ends(d, v, s, k) => Ends(Append(d, o), v, s, k)
    <2>. DEFINE r == Append(d, o)
    <2>1. /\ Len(d) \in Nat /\ Len(d) + 1 \in DOMAIN r /\ r[Len(d) + 1] = o
          /\ \A h \in DOMAIN r : h = Len(d) + 1 \/ h \in DOMAIN d
          /\ \A h \in DOMAIN d : h \in Nat /\ h <= Len(d) /\ h \in DOMAIN r /\ r[h] = d[h]
      BY AppendIs
    <2>. HIDE DEF r
    <2>2. \A h \in DOMAIN r : ~ (h > Len(d) + 1)
      BY <2>1
    <2>3. Ends(r, v, o.slot, o.key)
      BY <2>1, <2>2 DEF Ends
    <2>4. ASSUME o.slot # s, Ends(d, v, s, k) PROVE Ends(r, v, s, k)
      BY <2>1, <2>4 DEF Ends
    <2>. QED  BY <2>3, <2>4 DEF r
  <1>2. ASSUME d # <<>>, Ends(d, v, s, k)
        PROVE  Ends(Tail(d), [v EXCEPT ![d[1].slot] = d[1].key], s, k)
    <2>. DEFINE t == Tail(d)
                u == [v EXCEPT ![d[1].slot] = d[1].key]
    <2>1. /\ 1 \in DOMAIN d /\ d[1] \in CopyOp
          /\ \A i \in DOMAIN t : i \in Nat /\ i >= 1 /\ i + 1 \in DOMAIN d /\ t[i] = d[i + 1]
          /\ \A i \in DOMAIN d : i # 1 => i - 1 \in DOMAIN t /\ (i - 1) + 1 = i /\ t[i - 1] = d[i]
          /\ \A i \in DOMAIN d : i \in Nat /\ i >= 1
      BY <1>2, TailIs
    <2>2. d[1].slot \in Slot /\ u[d[1].slot] = d[1].key /\ (s # d[1].slot => u[s] = v[s])
      BY <2>1 DEF CopyOp
    <2>. HIDE DEF t, u
    <2>3. CASE v[s] = k /\ \A h \in DOMAIN d : d[h].slot # s
      BY <2>1, <2>2, <2>3 DEF Ends
    <2>4. ASSUME NEW i \in DOMAIN d, d[i].slot = s, d[i].key = k,
                 \A h \in DOMAIN d : h > i => d[h].slot # s
          PROVE  Ends(t, u, s, k)
      <3>1. \A h \in DOMAIN t : h + 1 > i => t[h].slot # s
        BY <2>1, <2>4
      <3>2. CASE i = 1
        <4>1. \A h \in DOMAIN t : h + 1 > i
          BY <2>1, <3>2
        <4>. QED  BY <2>2, <2>4, <3>1, <3>2, <4>1 DEF Ends
      <3>3. CASE i # 1
        <4>1. i - 1 \in DOMAIN t /\ t[i - 1] = d[i]
          BY <2>1, <3>3
        <4>2. \A h \in DOMAIN t : h > i - 1 => h + 1 > i
          BY <2>1
        <4>. QED  BY <2>4, <3>1, <4>1, <4>2 DEF Ends
      <3>. QED  BY <3>2, <3>3
    <2>. QED  BY <1>2, <2>3, <2>4 DEF Ends, t, u
  <1>3. ASSUME Ends(d, v, s, k) PROVE Ends(Eased(d), v, s, k)
    <2>. DEFINE e == Eased(d)
    <2>1. DOMAIN e = DOMAIN d /\ \A h \in DOMAIN d : e[h].slot = d[h].slot /\ e[h].key = d[h].key
      BY EasedIs
    <2>. HIDE DEF e
    <2>2. Ends(e, v, s, k)
      BY <1>3, <2>1 DEF Ends
    <2>. QED  BY <2>2 DEF e
  <1>. QED  BY <1>1, <1>2, <1>3

\* The device: an event is not behind more than its stream holds, it is behind all
\* operations on its slot, and every reader is placed right among the copies.
Device(d, c, v, ev) ==
    /\ d \in Seq(CopyOp) /\ c \in Seq(ReadOp)
    /\ v \in [Slot -> Item \cup {Empty}] /\ ev \in [Slot -> Event]
    /\ \A s \in Slot : /\ ev[s].by = "dma" => ev[s].ahead <= Len(d)
                       /\ ev[s].by = "compute" => ev[s].ahead <= Len(c)
    /\ Events(d, c, ev) /\ Ordered(d, c, v)

\* A copy behind the event of its slot.
LEMMA CopyAdded ==
    ASSUME NEW d, NEW c, NEW v, NEW ev, Device(d, c, v, ev), NEW o \in CopyOp,
           o.after = IF ev[o.slot].by = "dma" THEN 0 ELSE ev[o.slot].ahead
    PROVE  Device(Append(d, o), c, v,
                  [ev EXCEPT ![o.slot] = [by |-> "dma", ahead |-> Len(d) + 1]])
  <1>. DEFINE r == Append(d, o)
              ev2 == [ev EXCEPT ![o.slot] = [by |-> "dma", ahead |-> Len(d) + 1]]
  <1>1. /\ d \in Seq(CopyOp) /\ c \in Seq(ReadOp) /\ ev \in [Slot -> Event] /\ o.slot \in Slot
        /\ Events(d, c, ev) /\ Ordered(d, c, v)
    BY DEF Device, CopyOp
  <1>2. r \in Seq(CopyOp) /\ Len(r) = Len(d) + 1 /\ Len(d) \in Nat
    BY <1>1, AppendIs
  <1>3. /\ ev2 \in [Slot -> Event]
        /\ ev2[o.slot].by = "dma" /\ ev2[o.slot].ahead = Len(d) + 1
        /\ \A s \in Slot : s # o.slot => ev2[s] = ev[s]
    BY <1>1, <1>2 DEF Event, Stream
  <1>4. \A s \in Slot : ev[s].by \in {"dma", "compute"} /\ ev[s].ahead \in Nat
    BY <1>1 DEF Event, Stream
  <1>5. Settled(r, c, Len(d) + 1, o.slot)
    <2>. DEFINE n == ev[o.slot].ahead
    <2>1. CASE ev[o.slot].by = "dma"
      <3>1. Settled(d, c, n, o.slot) /\ n <= Len(d) /\ n \in Nat
        BY <1>1, <1>4, <2>1 DEF Events, Device
      <3>. HIDE DEF n
      <3>. QED  BY <1>1, <3>1, EnqueueSettles
    <2>2. CASE ev[o.slot].by = "compute"
      <3>1. Settled(c, d, n, o.slot) /\ o.after = n /\ n \in Nat
        BY <1>1, <1>4, <2>2 DEF Events, Device
      <3>. HIDE DEF n
      <3>. QED  BY <1>1, <3>1, EnqueueSettles
    <2>. QED  BY <1>1, <1>4, <2>1, <2>2
  <1>6. ASSUME NEW s \in Slot, s # o.slot
        PROVE  IF ev[s].by = "dma" THEN Settled(r, c, ev[s].ahead, s)
               ELSE Settled(c, r, ev[s].ahead, s)
    <2>. DEFINE n == ev[s].ahead
    <2>1. n \in Nat /\ (IF ev[s].by = "dma" THEN Settled(d, c, n, s) ELSE Settled(c, d, n, s))
      BY <1>1, <1>4 DEF Events
    <2>. HIDE DEF n
    <2>2. /\ Settled(d, c, n, s) => Settled(r, c, n, s)
          /\ Settled(c, d, n, s) => Settled(c, r, n, s)
      BY <1>1, <1>6, <2>1, EnqueueElsewhere
    <2>. QED  BY <2>1, <2>2 DEF n
  <1>7. Ordered(r, c, v)
    BY <1>1, <1>5, CopyOrdered
  <1>. HIDE DEF r, ev2
  <1>8. Events(r, c, ev2)
    BY <1>3, <1>5, <1>6 DEF Events
  <1>9. \A s \in Slot : /\ ev2[s].by = "dma" => ev2[s].ahead <= Len(r)
                        /\ ev2[s].by = "compute" => ev2[s].ahead <= Len(c)
    <2>. SUFFICES ASSUME NEW s \in Slot
                  PROVE  /\ ev2[s].by = "dma" => ev2[s].ahead <= Len(r)
                         /\ ev2[s].by = "compute" => ev2[s].ahead <= Len(c)
      OBVIOUS
    <2>1. CASE s = o.slot
      BY <2>1, <1>2, <1>3
    <2>2. CASE s # o.slot
      <3>1. /\ ev2[s] = ev[s] /\ ev[s].ahead \in Nat /\ ev[s].by = "dma" => ev[s].ahead <= Len(d)
            /\ ev[s].by = "compute" => ev[s].ahead <= Len(c)
        BY <2>2, <1>3, <1>4 DEF Device
      <3>2. \A m \in Nat : m <= Len(d) => m <= Len(r)
        BY <1>2
      <3>. QED  BY <3>1, <3>2, <1>3, <1>4, <2>2 DEF Device
    <2>. QED  BY <2>1, <2>2
  <1>10. Device(r, c, v, ev2)
    BY <1>1, <1>2, <1>3, <1>7, <1>8, <1>9 DEF Device
  <1>. QED  BY <1>10 DEF r, ev2

\* A reader behind the event of a slot that ends with its key.
LEMMA ReadAdded ==
    ASSUME NEW d, NEW c, NEW v, NEW ev, Device(d, c, v, ev), NEW o \in ReadOp,
           o.after = IF ev[o.slot].by = "compute" THEN 0 ELSE ev[o.slot].ahead,
           Ends(d, v, o.slot, o.key)
    PROVE  Device(d, Append(c, o), v,
                  [ev EXCEPT ![o.slot] = [by |-> "compute", ahead |-> Len(c) + 1]])
  <1>. DEFINE r == Append(c, o)
              ev2 == [ev EXCEPT ![o.slot] = [by |-> "compute", ahead |-> Len(c) + 1]]
  <1>1. /\ d \in Seq(CopyOp) /\ c \in Seq(ReadOp) /\ ev \in [Slot -> Event] /\ o.slot \in Slot
        /\ Events(d, c, ev) /\ Ordered(d, c, v)
    BY DEF Device, ReadOp
  <1>2. r \in Seq(ReadOp) /\ Len(r) = Len(c) + 1 /\ Len(c) \in Nat
    BY <1>1, AppendIs
  <1>3. /\ ev2 \in [Slot -> Event]
        /\ ev2[o.slot].by = "compute" /\ ev2[o.slot].ahead = Len(c) + 1
        /\ \A s \in Slot : s # o.slot => ev2[s] = ev[s]
    BY <1>1, <1>2 DEF Event, Stream
  <1>4. \A s \in Slot : ev[s].by \in {"dma", "compute"} /\ ev[s].ahead \in Nat
    BY <1>1 DEF Event, Stream
  <1>5. Settled(r, d, Len(c) + 1, o.slot)
    <2>. DEFINE n == ev[o.slot].ahead
    <2>1. CASE ev[o.slot].by = "compute"
      <3>1. Settled(c, d, n, o.slot) /\ n <= Len(c) /\ n \in Nat
        BY <1>1, <1>4, <2>1 DEF Events, Device
      <3>. HIDE DEF n
      <3>. QED  BY <1>1, <3>1, EnqueueSettles
    <2>2. CASE ev[o.slot].by = "dma"
      <3>1. Settled(d, c, n, o.slot) /\ o.after = n /\ n \in Nat
        BY <1>1, <1>4, <2>2 DEF Events, Device
      <3>. HIDE DEF n
      <3>. QED  BY <1>1, <3>1, EnqueueSettles
    <2>. QED  BY <1>1, <1>4, <2>1, <2>2
  <1>6. ASSUME NEW s \in Slot, s # o.slot
        PROVE  IF ev[s].by = "dma" THEN Settled(d, r, ev[s].ahead, s)
               ELSE Settled(r, d, ev[s].ahead, s)
    <2>. DEFINE n == ev[s].ahead
    <2>1. n \in Nat /\ (IF ev[s].by = "dma" THEN Settled(d, c, n, s) ELSE Settled(c, d, n, s))
      BY <1>1, <1>4 DEF Events
    <2>. HIDE DEF n
    <2>2. /\ Settled(c, d, n, s) => Settled(r, d, n, s)
          /\ Settled(d, c, n, s) => Settled(d, r, n, s)
      BY <1>1, <1>6, <2>1, EnqueueElsewhere
    <2>. QED  BY <2>1, <2>2 DEF n
  <1>7. Ordered(d, r, v)
    BY <1>1, <1>5, ReadOrdered
  <1>. HIDE DEF r, ev2
  <1>8. Events(d, r, ev2)
    BY <1>3, <1>5, <1>6 DEF Events
  <1>9. \A s \in Slot : /\ ev2[s].by = "dma" => ev2[s].ahead <= Len(d)
                        /\ ev2[s].by = "compute" => ev2[s].ahead <= Len(r)
    <2>. SUFFICES ASSUME NEW s \in Slot
                  PROVE  /\ ev2[s].by = "dma" => ev2[s].ahead <= Len(d)
                         /\ ev2[s].by = "compute" => ev2[s].ahead <= Len(r)
      OBVIOUS
    <2>1. CASE s = o.slot
      BY <2>1, <1>2, <1>3
    <2>2. CASE s # o.slot
      <3>1. /\ ev2[s] = ev[s] /\ ev[s].ahead \in Nat /\ ev[s].by = "dma" => ev[s].ahead <= Len(d)
            /\ ev[s].by = "compute" => ev[s].ahead <= Len(c)
        BY <2>2, <1>3, <1>4 DEF Device
      <3>2. \A m \in Nat : m <= Len(c) => m <= Len(r)
        BY <1>2
      <3>. QED  BY <3>1, <3>2, <1>3, <1>4, <2>2 DEF Device
    <2>. QED  BY <2>1, <2>2
  <1>10. Device(d, r, v, ev2)
    BY <1>1, <1>2, <1>3, <1>7, <1>8, <1>9 DEF Device
  <1>. QED  BY <1>10 DEF r, ev2

\* The events after an operation of X has run.
Passed(ev, X) ==
    [s \in Slot |-> IF ev[s].by = X THEN [ev[s] EXCEPT !.ahead = Less(@)] ELSE ev[s]]

\* Their fields.
LEMMA PassedIs ==
    ASSUME NEW ev \in [Slot -> Event], NEW X \in Stream
    PROVE  /\ Passed(ev, X) \in [Slot -> Event]
           /\ \A s \in Slot :
                 /\ Passed(ev, X)[s].by = ev[s].by /\ ev[s].by \in {"dma", "compute"}
                 /\ ev[s].ahead \in Nat
                 /\ Passed(ev, X)[s].ahead = IF ev[s].by = X THEN Less(ev[s].ahead) ELSE ev[s].ahead
  <1>1. \A n \in Nat : Less(n) \in Nat
    BY DEF Less
  <1>. QED  BY <1>1 DEF Passed, Event, Stream

\* The oldest copy runs.
LEMMA DmaRuns ==
    ASSUME NEW d, NEW c, NEW v, NEW ev, Device(d, c, v, ev), d # <<>>, d[1].after = 0
    PROVE  Device(Tail(d), Eased(c), [v EXCEPT ![d[1].slot] = d[1].key], Passed(ev, "dma"))
  <1>. DEFINE t == Tail(d)
              e == Eased(c)
              u == [v EXCEPT ![d[1].slot] = d[1].key]
              ev2 == Passed(ev, "dma")
  <1>1. /\ d \in Seq(CopyOp) /\ c \in Seq(ReadOp) /\ ev \in [Slot -> Event]
        /\ v \in [Slot -> Item \cup {Empty}] /\ Events(d, c, ev) /\ Ordered(d, c, v)
    BY DEF Device
  <1>2. /\ t \in Seq(CopyOp) /\ Len(t) = Len(d) - 1 /\ Len(d) \in Nat /\ Len(d) >= 1
        /\ d[1] \in CopyOp
    BY <1>1, TailIs
  <1>3. /\ e \in Seq(ReadOp) /\ Len(e) = Len(c) /\ \A j \in DOMAIN c : c[j].after \in Nat
        /\ \A j \in DOMAIN c : e[j].slot = c[j].slot /\ e[j].after = Less(c[j].after)
    BY <1>1, EasedIs
  <1>4. u \in [Slot -> Item \cup {Empty}]
    BY <1>1, <1>2 DEF CopyOp
  <1>5. /\ ev2 \in [Slot -> Event]
        /\ \A s \in Slot :
              /\ ev2[s].by = ev[s].by /\ ev[s].by \in {"dma", "compute"} /\ ev[s].ahead \in Nat
              /\ ev2[s].ahead = IF ev[s].by = "dma" THEN Less(ev[s].ahead) ELSE ev[s].ahead
    BY <1>1, PassedIs DEF Stream
  <1>6. Ordered(t, e, u)
    BY <1>1, DmaOrdered
  <1>7. \A s \in Slot, n \in Nat : /\ Settled(d, c, n, s) => Settled(t, e, Less(n), s)
                                   /\ Settled(c, d, n, s) => Settled(e, t, n, s)
    BY <1>1, <1>3, ExecuteSettles
  <1>. HIDE DEF t, e, u, ev2
  <1>8. Events(t, e, ev2)
    BY <1>1, <1>5, <1>7 DEF Events
  <1>9. \A s \in Slot : /\ ev2[s].by = "dma" => ev2[s].ahead <= Len(t)
                        /\ ev2[s].by = "compute" => ev2[s].ahead <= Len(e)
    <2>1. \A n \in Nat : n <= Len(d) => Less(n) <= Len(t)
      BY <1>2 DEF Less
    <2>. QED  BY <1>3, <1>5, <2>1 DEF Device
  <1>10. Device(t, e, u, ev2)
    BY <1>2, <1>3, <1>4, <1>5, <1>6, <1>8, <1>9 DEF Device
  <1>. QED  BY <1>10 DEF t, e, u, ev2

\* The oldest reader runs.
LEMMA ComputeRuns ==
    ASSUME NEW d, NEW c, NEW v, NEW ev, Device(d, c, v, ev), c # <<>>, c[1].after = 0
    PROVE  Device(Eased(d), Tail(c), v, Passed(ev, "compute"))
  <1>. DEFINE t == Tail(c)
              e == Eased(d)
              ev2 == Passed(ev, "compute")
  <1>1. /\ d \in Seq(CopyOp) /\ c \in Seq(ReadOp) /\ ev \in [Slot -> Event]
        /\ v \in [Slot -> Item \cup {Empty}] /\ Events(d, c, ev) /\ Ordered(d, c, v)
    BY DEF Device
  <1>2. t \in Seq(ReadOp) /\ Len(t) = Len(c) - 1 /\ Len(c) \in Nat /\ Len(c) >= 1
    BY <1>1, TailIs
  <1>3. /\ e \in Seq(CopyOp) /\ Len(e) = Len(d) /\ \A j \in DOMAIN d : d[j].after \in Nat
        /\ \A j \in DOMAIN d : e[j].slot = d[j].slot /\ e[j].after = Less(d[j].after)
    BY <1>1, EasedIs
  <1>5. /\ ev2 \in [Slot -> Event]
        /\ \A s \in Slot :
              /\ ev2[s].by = ev[s].by /\ ev[s].by \in {"dma", "compute"} /\ ev[s].ahead \in Nat
              /\ ev2[s].ahead = IF ev[s].by = "compute" THEN Less(ev[s].ahead) ELSE ev[s].ahead
    BY <1>1, PassedIs DEF Stream
  <1>6. Ordered(e, t, v)
    BY <1>1, ComputeOrdered
  <1>7. \A s \in Slot, n \in Nat : /\ Settled(c, d, n, s) => Settled(t, e, Less(n), s)
                                   /\ Settled(d, c, n, s) => Settled(e, t, n, s)
    BY <1>1, <1>3, ExecuteSettles
  <1>. HIDE DEF t, e, ev2
  <1>8. Events(e, t, ev2)
    BY <1>1, <1>5, <1>7 DEF Events
  <1>9. \A s \in Slot : /\ ev2[s].by = "dma" => ev2[s].ahead <= Len(e)
                        /\ ev2[s].by = "compute" => ev2[s].ahead <= Len(t)
    <2>1. \A n \in Nat : n <= Len(c) => Less(n) <= Len(t)
      BY <1>2 DEF Less
    <2>. QED  BY <1>3, <1>5, <2>1 DEF Device
  <1>10. Device(e, t, v, ev2)
    BY <1>1, <1>2, <1>3, <1>5, <1>6, <1>8, <1>9 DEF Device
  <1>. QED  BY <1>10 DEF t, e, ev2

-----------------------------------------------------------------------------
(* The tables of the host *)

\* The map gives each key a slot of its own among the first ones, and the order
\* holds just these keys, once each.
Tables(m, ord) ==
    /\ m \in [DOMAIN m -> Slot] /\ DOMAIN m \subseteq Item /\ IsFiniteSet(DOMAIN m)
    /\ Cardinality(DOMAIN m) <= NSlots
    /\ \A k \in DOMAIN m : m[k] < Cardinality(DOMAIN m)
    /\ IsInjective(m)
    /\ ord \in Seq(Item) /\ IsInjective(ord) /\ ToSet(ord) = DOMAIN m
    /\ Len(ord) = Cardinality(DOMAIN m)

\* The slot a key gets: a fresh one, or that of a key that leaves.
Chosen(k, v, s) ==
    /\ k \in Item \ DOMAIN map
    /\ \/ Fresh /\ v = k /\ s = Cardinality(DOMAIN map)
       \/ ~ Fresh /\ v \in DOMAIN map /\ s = map[v]

\* The key that gets a slot has it for itself; the other keys keep theirs.
LEMMA RebindTables ==
    ASSUME Tables(map, order), NEW k, NEW v, NEW s, Chosen(k, v, s), Rebind(k, v, s)
    PROVE  /\ Tables(map', order') /\ s \in Slot /\ k \in DOMAIN map' /\ map'[k] = s
           /\ \A j \in DOMAIN map' : j # k => j \in DOMAIN map /\ map'[j] = map[j] /\ map[j] # s
  <1>. DEFINE M == DOMAIN map
              n == Cardinality(M)
  <1>1. /\ map \in [M -> Slot] /\ M \subseteq Item /\ IsFiniteSet(M) /\ n <= NSlots /\ n \in Nat
        /\ \A j \in M : map[j] < n
        /\ \A i \in M, j \in M : map[i] = map[j] => i = j
        /\ order \in Seq(Item) /\ IsInjective(order) /\ ToSet(order) = M /\ Len(order) = n
        /\ NSlots \in Nat /\ NSlots >= 1
    BY SlotsAssumption, FS_CardinalityType DEF Tables, IsInjective
  <1>2. /\ k \in Item /\ k \notin M
        /\ map' = [j \in (M \ {v}) \cup {k} |-> IF j = k THEN s ELSE map[j]]
        /\ order' = <<k>> \o RemoveFirst(order, v)
    BY DEF Chosen, Rebind
  <1>. HIDE DEF M, n
  <1>3. CASE n < NSlots /\ v = k /\ s = n
    <2>1. RemoveFirst(order, v) = order
      <3>1. ~ \E i \in 1 .. Len(order) : order[i] = k
        <4>1. DOMAIN order = 1 .. Len(order)
          BY <1>1
        <4>2. \A i \in DOMAIN order : order[i] \in M
          BY <1>1 DEF ToSet
        <4>. QED  BY <1>2, <4>1, <4>2
      <3>. QED  BY <1>3, <3>1 DEF RemoveFirst
    <2>2. DOMAIN map' = M \cup {k} /\ map'[k] = s /\ \A j \in M : map'[j] = map[j]
      BY <1>2, <1>3
    <2>3. IsFiniteSet(M \cup {k}) /\ Cardinality(M \cup {k}) = n + 1
      BY <1>1, <1>2, FS_AddElement DEF n
    <2>4. s \in Slot
      BY <1>1, <1>3 DEF Slot
    <2>5. \A j \in M : map[j] # s /\ map[j] < n + 1 /\ map[j] \in Slot
      <3>1. \A x \in Slot : x < n => x # n /\ x < n + 1
        BY <1>1 DEF Slot
      <3>. QED  BY <1>1, <1>3, <3>1
    <2>6. map' \in [DOMAIN map' -> Slot]
      BY <1>2, <1>3, <2>4, <2>5
    <2>7. IsInjective(map')
      BY <1>1, <1>2, <2>2, <2>5 DEF IsInjective
    <2>8. /\ order' \in Seq(Item) /\ Len(order') = n + 1 /\ ToSet(order') = M \cup {k}
          /\ IsInjective(order')
      BY <1>1, <1>2, <2>1, PushFacts
    <2>9. \A j \in DOMAIN map' : map'[j] < n + 1
      BY <1>1, <1>3, <2>2, <2>5
    <2>10. n + 1 <= NSlots
      BY <1>1, <1>3
    <2>11. Tables(map', order')
      <3>1. Cardinality(DOMAIN map') = n + 1
        BY <2>2, <2>3
      <3>2. DOMAIN map' \subseteq Item /\ IsFiniteSet(DOMAIN map')
        BY <1>1, <1>2, <2>2, <2>3
      <3>3. ToSet(order') = DOMAIN map'
        BY <2>2, <2>8
      <3>. QED  BY <2>6, <2>7, <2>8, <2>9, <2>10, <3>1, <3>2, <3>3 DEF Tables
    <2>. QED  BY <2>2, <2>4, <2>5, <2>11 DEF M
  <1>4. CASE v \in M /\ s = map[v]
    <2>. DEFINE r == RemoveFirst(order, v)
    <2>1. /\ r \in Seq(Item) /\ Len(r) = n - 1 /\ ToSet(r) = M \ {v} /\ IsInjective(r)
      BY <1>1, <1>4, RemoveFirstFacts
    <2>. HIDE DEF r
    <2>2. /\ DOMAIN map' = (M \ {v}) \cup {k} /\ map'[k] = s
          /\ \A j \in M \ {v} : map'[j] = map[j]
      BY <1>2
    <2>3. IsFiniteSet((M \ {v}) \cup {k}) /\ Cardinality((M \ {v}) \cup {k}) = n
      <3>1. IsFiniteSet(M \ {v}) /\ Cardinality(M \ {v}) = n - 1
        BY <1>1, <1>4, FS_RemoveElement DEF n
      <3>2. /\ IsFiniteSet((M \ {v}) \cup {k})
            /\ Cardinality((M \ {v}) \cup {k}) = Cardinality(M \ {v}) + 1
        BY <3>1, <1>2, FS_AddElement
      <3>. QED  BY <1>1, <3>1, <3>2
    <2>4. s \in Slot /\ s < n
      BY <1>1, <1>4
    <2>5. \A j \in M \ {v} : map[j] # s /\ map[j] < n /\ map[j] \in Slot
      BY <1>1, <1>4
    <2>6. map' \in [DOMAIN map' -> Slot]
      BY <1>2, <2>4, <2>5
    <2>7. IsInjective(map')
      <3>. SUFFICES ASSUME NEW i \in DOMAIN map', NEW j \in DOMAIN map', map'[i] = map'[j]
                    PROVE  i = j
        BY DEF IsInjective
      <3>. QED  BY <1>1, <1>2, <2>2, <2>5
    <2>8. /\ order' \in Seq(Item) /\ Len(order') = n /\ ToSet(order') = (M \ {v}) \cup {k}
          /\ IsInjective(order')
      <3>1. /\ order' \in Seq(Item) /\ Len(order') = Len(r) + 1 /\ ToSet(order') = ToSet(r) \cup {k}
            /\ k \notin ToSet(r) /\ IsInjective(r) => IsInjective(order')
        BY <1>2, <2>1, PushFacts DEF r
      <3>2. Len(order') = n
        BY <1>1, <2>1, <3>1
      <3>3. k \notin ToSet(r) /\ ToSet(order') = (M \ {v}) \cup {k}
        BY <1>2, <2>1, <3>1
      <3>. QED  BY <2>1, <3>1, <3>2, <3>3
    <2>9. \A j \in DOMAIN map' : map'[j] < n
      BY <2>2, <2>4, <2>5
    <2>10. Tables(map', order')
      BY <1>1, <1>2, <2>2, <2>3, <2>6, <2>7, <2>8, <2>9 DEF Tables
    <2>. QED  BY <2>2, <2>4, <2>5, <2>10 DEF M
  <1>. QED  BY <1>1, <1>3, <1>4 DEF Chosen, Fresh, M, n

\* A full pool has a last key, and the victim scan finds a key of the map.
LEMMA VictimCached ==
    ASSUME Tables(map, order), ~ Fresh
    PROVE  Last(order) \in DOMAIN map /\ \A n \in Nat : Victim(n) \in DOMAIN map
  <1>1. /\ order \in Seq(Item) /\ ToSet(order) = DOMAIN map /\ Len(order) \in Nat /\ Len(order) >= 1
        /\ DOMAIN order = 1 .. Len(order)
    <2>1. /\ order \in Seq(Item) /\ ToSet(order) = DOMAIN map /\ Len(order) = Cardinality(DOMAIN map)
          /\ Len(order) \in Nat /\ NSlots \in Nat \ {0}
      BY SlotsAssumption DEF Tables
    <2>2. Len(order) >= NSlots
      BY <2>1 DEF Fresh
    <2>. QED  BY <2>1, <2>2
  <1>2. \A i \in 1 .. Len(order) : order[i] \in DOMAIN map
    BY <1>1 DEF ToSet
  <1>3. Last(order) \in DOMAIN map
    BY <1>1, <1>2 DEF Last
  <1>4. ASSUME NEW n \in Nat PROVE Victim(n) \in DOMAIN map
    <2>. DEFINE cold == {i \in Ready : \A j \in 1 .. n : stamped[j] # map[order[i]]}
                from == IF cold = {} THEN Ready ELSE cold
    <2>1. Victim(n) = IF Ready = {} THEN Last(order) ELSE order[Max(from)]
      BY DEF Victim
    <2>2. Ready \in SUBSET (1 .. Len(order)) /\ from \in SUBSET Ready
      BY <1>1 DEF Ready
    <2>3. Ready # {} => from # {}
      OBVIOUS
    <2>. HIDE DEF cold, from
    <2>4. ASSUME Ready # {} PROVE Max(from) \in 1 .. Len(order)
      <3>1. from \in SUBSET (0 .. Len(order))
        BY <1>1, <2>2
      <3>2. Max(from) \in from
        BY <1>1, <2>3, <2>4, <3>1, GreatestBelow
      <3>. QED  BY <2>2, <3>2
    <2>. QED  BY <1>2, <1>3, <2>1, <2>4
  <1>. QED  BY <1>3, <1>4

\* The inductive invariant: the tables, the device under them, each cached key in
\* its slot when the copies have run, and the locked slices.
Cached(m, d, v) == \A k \in DOMAIN m : Ends(d, v, m[k], k)
Slices == locked \in Seq(Item) /\ IsInjective(locked) /\ Len(locked) <= LockMax
PathInv ==
    /\ layer \in Layer /\ stream = [X \in Stream |-> stream[X]]
    /\ Tables(map, order) /\ Device(stream["dma"], stream["compute"], vram, event)
    /\ Cached(map, stream["dma"], vram)
    /\ Slices /\ CopySourceLocked

\* A slice is locked: those whose copies are queued stay registered.
LEMMA LockedNext ==
    ASSUME Slices, CopySourceLocked, NEW k \in Item, ensure_expert_locked(k)
    PROVE  /\ Slices'
           /\ \A i \in DOMAIN stream["dma"] :
                 stream["dma"][i].from = "locked" => stream["dma"][i].key \in Registered'
  <1>1. /\ locked \in Seq(Item) /\ IsInjective(locked) /\ Len(locked) <= LockMax
        /\ Len(locked) \in Nat /\ LockMax \in Nat /\ DOMAIN locked = 1 .. Len(locked)
    BY ExpertPathAssumption DEF Slices
  <1>2. CASE k \in ToSet(locked)
    <2>1. locked' = <<k>> \o RemoveFirst(locked, k) /\ orphans' = orphans
      BY <1>2 DEF ensure_expert_locked, ToFront
    <2>. DEFINE r == RemoveFirst(locked, k)
    <2>2. /\ r \in Seq(Item) /\ Len(r) = Len(locked) - 1
          /\ ToSet(r) = ToSet(locked) \ {k} /\ IsInjective(r)
      BY <1>1, <1>2, RemoveFirstFacts
    <2>. HIDE DEF r
    <2>3. /\ locked' \in Seq(Item) /\ Len(locked') = Len(r) + 1 /\ ToSet(locked') = ToSet(r) \cup {k}
          /\ k \notin ToSet(r) /\ IsInjective(r) => IsInjective(locked')
      BY <2>1, <2>2, PushFacts DEF r
    <2>4. Len(locked') = Len(locked)
      BY <1>1, <2>2, <2>3
    <2>5. Registered' = Registered
      BY <1>2, <2>1, <2>2, <2>3 DEF Registered
    <2>6. Slices'
      BY <1>1, <2>2, <2>3, <2>4 DEF Slices
    <2>. QED  BY <2>5, <2>6 DEF CopySourceLocked
  <1>3. CASE k \notin ToSet(locked) /\ LockMax = 0
    <2>1. locked' = locked /\ orphans' = orphans
      BY <1>3 DEF ensure_expert_locked, locks
    <2>. QED  BY <2>1 DEF Slices, CopySourceLocked, Registered
  <1>4. CASE k \notin ToSet(locked) /\ LockMax # 0
    <2>. DEFINE kept == IF Len(locked) < LockMax THEN locked ELSE SubSeq(locked, 1, LockMax - 1)
                gone == ToSet(locked) \ ToSet(kept)
    <2>1. /\ Retire(gone)
          /\ locked' = <<k>> \o kept \/ locked' = kept
      BY <1>4 DEF ensure_expert_locked
    <2>2. /\ kept \in Seq(Item) /\ Len(kept) <= LockMax - 1 /\ Len(kept) \in Nat
          /\ ToSet(kept) \subseteq ToSet(locked) /\ IsInjective(kept)
      <3>1. CASE Len(locked) < LockMax
        BY <1>1, <3>1
      <3>2. CASE ~ (Len(locked) < LockMax)
        <4>1. Len(locked) = LockMax /\ LockMax >= 1 /\ LockMax - 1 \in Nat
          <5>1. \A a, b \in Nat : a <= b /\ ~ (a < b) /\ b # 0 => a = b /\ b >= 1 /\ b - 1 \in Nat
            OBVIOUS
          <5>. QED  BY <1>1, <1>4, <3>2, <5>1, Zenon
        <4>. DEFINE h == SubSeq(locked, 1, LockMax - 1)
        <4>2. /\ h \in Seq(Item) /\ Len(h) = LockMax - 1
              /\ \A i \in 1 .. LockMax - 1 : h[i] = locked[i] /\ i \in DOMAIN locked
          BY <1>1, <4>1
        <4>. HIDE DEF h
        <4>3. DOMAIN h = 1 .. LockMax - 1
          BY <4>2
        <4>4. ToSet(h) \subseteq ToSet(locked)
          BY <4>2, <4>3 DEF ToSet
        <4>5. IsInjective(h)
          BY <1>1, <4>2, <4>3 DEF IsInjective
        <4>. QED  BY <3>2, <4>1, <4>2, <4>4, <4>5 DEF h
      <3>. QED  BY <3>1, <3>2
    <2>. HIDE DEF kept
    <2>3. /\ gone # {} => stream["dma"] = <<>>
          /\ orphans \subseteq orphans'
      BY <2>1 DEF Retire, Idle
    <2>4. /\ <<k>> \o kept \in Seq(Item) /\ Len(<<k>> \o kept) = Len(kept) + 1
          /\ ToSet(<<k>> \o kept) = ToSet(kept) \cup {k}
          /\ k \notin ToSet(kept) /\ IsInjective(kept) => IsInjective(<<k>> \o kept)
      BY <2>2, PushFacts
    <2>5. Slices'
      <3>1. k \notin ToSet(kept)
        BY <1>4, <2>2
      <3>2. Len(<<k>> \o kept) <= LockMax /\ Len(kept) <= LockMax
        BY <1>1, <2>2, <2>4
      <3>. QED  BY <2>1, <2>2, <2>4, <3>1, <3>2 DEF Slices
    <2>6. ToSet(kept) \subseteq ToSet(locked')
      BY <2>1, <2>4
    <2>7. ASSUME NEW i \in DOMAIN stream["dma"], stream["dma"][i].from = "locked"
          PROVE  stream["dma"][i].key \in Registered'
      <3>1. stream["dma"] # <<>>
        BY <2>7
      <3>2. ToSet(locked) \subseteq ToSet(kept)
        BY <2>3, <3>1
      <3>3. Registered \subseteq Registered'
        BY <2>3, <2>6, <3>2 DEF Registered
      <3>. QED  BY <2>7, <3>3 DEF CopySourceLocked
    <2>. QED  BY <2>5, <2>7
  <1>. QED  BY <1>2, <1>3, <1>4

\* The copy that a step enqueues for key k in slot s.
LEMMA CopyToIs ==
    ASSUME PathInv, NEW k \in Item, NEW s \in Slot
    PROVE  /\ CopyTo(k, s) \in CopyOp /\ CopyTo(k, s).slot = s /\ CopyTo(k, s).key = k
           /\ CopyTo(k, s).after = IF event[s].by = "dma" THEN 0 ELSE event[s].ahead
           /\ CopyTo(k, s).from = "locked" => k \in Registered'
  <1>1. event[s].by \in Stream /\ event[s].ahead \in Nat
    BY DEF PathInv, Device, Event
  <1>2. /\ After("dma", s) = (IF event[s].by = "dma" THEN 0 ELSE event[s].ahead)
        /\ After("dma", s) \in Nat
    BY <1>1 DEF After
  <1>. QED  BY <1>2 DEF CopyTo, CopyOp, Memory, Memories

\* A copy for key k in the slot chosen for it: the tables and the memory agree.
LEMMA Fills ==
    ASSUME PathInv, NEW k, NEW v, NEW s, Chosen(k, v, s), Rebind(k, v, s)
    PROVE  LET d == Append(stream["dma"], CopyTo(k, s))
               ev == [event EXCEPT ![s] = [by |-> "dma", ahead |-> Len(d)]]
           IN  /\ Tables(map', order') /\ k \in DOMAIN map' /\ map'[k] = s /\ s \in Slot
               /\ Device(d, stream["compute"], vram, ev)
               /\ Cached(map', d, vram) /\ Len(d) \in Nat
  <1>. DEFINE d0 == stream["dma"]
              o == CopyTo(k, s)
              d == Append(d0, o)
              ev == [event EXCEPT ![s] = [by |-> "dma", ahead |-> Len(d)]]
  <1>1. /\ Tables(map, order) /\ Device(d0, stream["compute"], vram, event) /\ Cached(map, d0, vram)
        /\ d0 \in Seq(CopyOp) /\ vram \in [Slot -> Item \cup {Empty}] /\ k \in Item
    BY DEF PathInv, Device, Chosen
  <1>2. /\ Tables(map', order') /\ s \in Slot /\ k \in DOMAIN map' /\ map'[k] = s
        /\ \A j \in DOMAIN map' : j # k => j \in DOMAIN map /\ map'[j] = map[j] /\ map[j] # s
    BY <1>1, RebindTables
  <1>3. /\ o \in CopyOp /\ o.slot = s /\ o.key = k
        /\ o.after = IF event[s].by = "dma" THEN 0 ELSE event[s].ahead
    BY <1>1, <1>2, CopyToIs
  <1>. HIDE DEF o
  <1>4. Len(d) = Len(d0) + 1 /\ Len(d) \in Nat
    BY <1>1, <1>3, AppendIs
  <1>. HIDE DEF d0
  <1>5. Device(d, stream["compute"], vram, ev)
    <2>1. Device(d, stream["compute"], vram,
                 [event EXCEPT ![o.slot] = [by |-> "dma", ahead |-> Len(d0) + 1]])
      BY <1>1, <1>3, CopyAdded
    <2>. QED  BY <2>1, <1>3, <1>4
  <1>6. ASSUME NEW j \in DOMAIN map' PROVE Ends(d, vram, map'[j], j)
    <2>1. CASE j = k
      <3>1. Ends(d, vram, o.slot, o.key)
        BY <1>1, <1>2, <1>3, EndsNext
      <3>. QED  BY <1>2, <1>3, <2>1, <3>1
    <2>2. CASE j # k
      <3>1. j \in DOMAIN map /\ map'[j] = map[j] /\ map[j] # s /\ map[j] \in Slot
        BY <1>1, <1>2, <2>2 DEF Tables
      <3>2. Ends(d0, vram, map[j], j)
        BY <1>1, <3>1 DEF Cached
      <3>3. Ends(d, vram, map[j], j)
        BY <1>1, <1>3, <3>1, <3>2, EndsNext
      <3>. QED  BY <3>1, <3>3
    <2>. QED  BY <2>1, <2>2
  <1>7. Cached(map', d, vram)
    BY <1>6 DEF Cached
  <1>. QED  BY <1>2, <1>4, <1>5, <1>7 DEF o, d0

\* The copies in the queue, with one more, have registered sources.
LEMMA SourcesNext ==
    ASSUME PathInv, NEW k \in Item, NEW s \in Slot,
           \A i \in DOMAIN stream["dma"] :
              stream["dma"][i].from = "locked" => stream["dma"][i].key \in Registered',
           stream'["dma"] = stream["dma"] \/ stream'["dma"] = Append(stream["dma"], CopyTo(k, s))
    PROVE  CopySourceLocked'
  <1>. DEFINE d0 == stream["dma"]
              o == CopyTo(k, s)
              d == Append(d0, o)
  <1>1. d0 \in Seq(CopyOp) /\ o \in CopyOp /\ (o.from = "locked" => k \in Registered') /\ o.key = k
    BY CopyToIs DEF PathInv, Device
  <1>2. /\ d[Len(d0) + 1] = o
        /\ \A i \in DOMAIN d : i = Len(d0) + 1 \/ i \in DOMAIN d0
        /\ \A i \in DOMAIN d0 : d[i] = d0[i]
    BY <1>1, AppendIs
  <1>. HIDE DEF d0, o, d
  <1>3. CASE stream'["dma"] = d0
    BY <1>3 DEF CopySourceLocked, d0
  <1>4. CASE stream'["dma"] = d
    <2>1. \A i \in DOMAIN d : d[i].from = "locked" => d[i].key \in Registered'
      BY <1>1, <1>2 DEF d0
    <2>. QED  BY <1>4, <2>1 DEF CopySourceLocked
  <1>. QED  BY <1>3, <1>4 DEF d, d0, o

\* One prefetch.
LEMMA PrefetchKeeps ==
    ASSUME PathInv, NEW e \in Expert, PrefetchOne(e)
    PROVE  PathInv'
  <1>. DEFINE k == <<layer, e>>
              d0 == stream["dma"]
  <1>1. k \in Item /\ Slices /\ CopySourceLocked
    BY DEF PathInv, Key, Item
  <1>2. /\ ensure_expert_locked(k) /\ lru_prefetch(k) /\ layer' = layer /\ vram' = vram
    BY DEF PrefetchOne
  <1>. HIDE DEF k
  <1>3. /\ Slices'
        /\ \A i \in DOMAIN d0 : d0[i].from = "locked" => d0[i].key \in Registered'
    BY <1>1, <1>2, LockedNext
  <1>4. CASE k \in DOMAIN map
    <2>1. UNCHANGED <<map, order, event, stream>>
      BY <1>2, <1>4 DEF lru_prefetch, lru
    <2>2. CopySourceLocked'
      BY <1>3, <2>1 DEF CopySourceLocked
    <2>. QED  BY <1>2, <1>3, <2>1, <2>2 DEF PathInv
  <1>5. CASE k \notin DOMAIN map
    <2>. DEFINE v == IF Fresh THEN k ELSE Last(order)
                s == IF Fresh THEN Cardinality(DOMAIN map) ELSE map[v]
                d == Append(d0, CopyTo(k, s))
                ev == [event EXCEPT ![s] = [by |-> "dma", ahead |-> Len(d)]]
    <2>1. /\ Rebind(k, v, s)
          /\ stream' = [stream EXCEPT !["dma"] = d]
          /\ event' = Record(s, "dma", Len(stream'["dma"]))
      BY <1>2, <1>5 DEF lru_prefetch
    <2>2. /\ stream'["dma"] = d /\ stream'["compute"] = stream["compute"]
          /\ stream' = [X \in Stream |-> stream'[X]]
      BY <2>1 DEF PathInv, Stream
    <2>3. event' = ev
      BY <2>1, <2>2 DEF Record
    <2>4. Chosen(k, v, s)
      BY <1>1, <1>5, VictimCached DEF Chosen, PathInv
    <2>. HIDE DEF v, s
    <2>5. /\ Tables(map', order') /\ s \in Slot
          /\ Device(d, stream["compute"], vram, ev) /\ Cached(map', d, vram)
      BY <2>1, <2>4, Fills
    <2>6. CopySourceLocked'
      BY <1>1, <1>3, <2>2, <2>5, SourcesNext
    <2>. HIDE DEF d, ev
    <2>7. layer' \in Layer
      BY <1>2 DEF PathInv
    <2>. QED  BY <1>2, <1>3, <2>2, <2>3, <2>5, <2>6, <2>7 DEF PathInv
  <1>. QED  BY <1>4, <1>5

\* A reader of key k is enqueued on its slot.
LEMMA Launches ==
    ASSUME NEW k \in Item, NEW s \in Slot, NEW d, NEW after, NEW ev,
           Launch(k, s, d, after), Device(d, stream["compute"], vram, ev),
           \A t \in Slot : t # s => ev[t] = event[t], DOMAIN event = Slot,
           after = (IF ev[s].by = "compute" THEN 0 ELSE ev[s].ahead), Ends(d, vram, s, k)
    PROVE  /\ stream' = [X \in Stream |-> stream'[X]] /\ stream'["dma"] = d
           /\ Device(d, stream'["compute"], vram, event')
  <1>. DEFINE c == stream["compute"]
              o == Compute(k, s, after)
              r == Append(c, o)
  <1>1. /\ stream' = [dma |-> d, compute |-> r]
        /\ event' = Record(s, "compute", Len(stream'["compute"]))
    BY DEF Launch
  <1>2. /\ stream' = [X \in Stream |-> stream'[X]] /\ stream'["dma"] = d /\ stream'["compute"] = r
    BY <1>1 DEF Stream
  <1>3. /\ c \in Seq(ReadOp) /\ ev \in [Slot -> Event] /\ after \in Nat
    BY DEF Device, Event
  <1>4. o \in ReadOp /\ o.slot = s /\ o.key = k /\ o.after = after
    BY <1>3 DEF Compute, ReadOp
  <1>. HIDE DEF o
  <1>5. Len(r) = Len(c) + 1
    BY <1>3, <1>4, AppendIs
  <1>. HIDE DEF c
  <1>6. event' = [ev EXCEPT ![o.slot] = [by |-> "compute", ahead |-> Len(c) + 1]]
    <2>1. event' = [event EXCEPT ![s] = [by |-> "compute", ahead |-> Len(c) + 1]]
      BY <1>1, <1>2, <1>5 DEF Record
    <2>. QED  BY <1>3, <1>4, <2>1
  <1>7. Device(d, r, vram, [ev EXCEPT ![o.slot] = [by |-> "compute", ahead |-> Len(c) + 1]])
    <2>1. Device(d, c, vram, ev) /\ Ends(d, vram, o.slot, o.key)
      BY <1>4 DEF c
    <2>2. o.after = IF ev[o.slot].by = "compute" THEN 0 ELSE ev[o.slot].ahead
      BY <1>4
    <2>. QED  BY <1>4, <2>1, <2>2, ReadAdded
  <1>. QED  BY <1>2, <1>6, <1>7

\* A hit moves its key to the front and leaves the map.
LEMMA FrontTables ==
    ASSUME Tables(map, order), NEW k \in DOMAIN map
    PROVE  Tables(map, ToFront(k, order))
  <1>. DEFINE r == RemoveFirst(order, k)
              f == <<k>> \o r
  <1>1. /\ order \in Seq(Item) /\ IsInjective(order) /\ ToSet(order) = DOMAIN map /\ k \in Item
        /\ Len(order) = Cardinality(DOMAIN map) /\ Len(order) \in Nat
    BY DEF Tables
  <1>2. r \in Seq(Item) /\ Len(r) = Len(order) - 1 /\ ToSet(r) = ToSet(order) \ {k} /\ IsInjective(r)
    BY <1>1, RemoveFirstFacts
  <1>. HIDE DEF r
  <1>3. /\ f \in Seq(Item) /\ Len(f) = Len(r) + 1 /\ ToSet(f) = ToSet(r) \cup {k}
        /\ k \notin ToSet(r) /\ IsInjective(r) => IsInjective(f)
    BY <1>1, <1>2, PushFacts
  <1>. HIDE DEF f
  <1>4. Len(f) = Len(order)
    BY <1>1, <1>2, <1>3
  <1>5. ToSet(f) = DOMAIN map /\ IsInjective(f)
    BY <1>1, <1>2, <1>3
  <1>6. Tables(map, f)
    BY <1>1, <1>3, <1>4, <1>5 DEF Tables
  <1>. QED  BY <1>6 DEF f, r, ToFront

\* One expert of an operation.
LEMMA RunKeeps ==
    ASSUME PathInv, NEW e \in Expert, RunExpert(e)
    PROVE  PathInv'
  <1>. DEFINE k == <<layer, e>>
              d0 == stream["dma"]
  <1>1. /\ k \in Item /\ Slices /\ CopySourceLocked /\ Tables(map, order)
        /\ Device(d0, stream["compute"], vram, event) /\ Cached(map, d0, vram) /\ layer \in Layer
        /\ event \in [Slot -> Event] /\ d0 \in Seq(CopyOp)
    BY DEF PathInv, Key, Item, Device
  <1>2. ensure_expert_locked(k) /\ (RunHit(k) \/ RunMiss(k)) /\ layer' = layer /\ vram' = vram
    BY DEF RunExpert
  <1>. HIDE DEF k
  <1>3. /\ Slices'
        /\ \A i \in DOMAIN d0 : d0[i].from = "locked" => d0[i].key \in Registered'
    BY <1>1, <1>2, LockedNext
  <1>4. CASE RunHit(k)
    <2>. DEFINE s == map[k]
    <2>1. /\ k \in DOMAIN map /\ order' = ToFront(k, order) /\ map' = map
          /\ Launch(k, s, d0, After("compute", s))
      BY <1>4 DEF RunHit
    <2>2. s \in Slot /\ Ends(d0, vram, s, k)
      BY <1>1, <2>1 DEF Tables, Cached
    <2>3. After("compute", s) = IF event[s].by = "compute" THEN 0 ELSE event[s].ahead
      BY DEF After
    <2>. HIDE DEF s, d0
    <2>4. /\ stream' = [X \in Stream |-> stream'[X]] /\ stream'["dma"] = d0
          /\ Device(d0, stream'["compute"], vram, event')
      BY <1>1, <2>1, <2>2, <2>3, Launches
    <2>5. Tables(map', order')
      BY <1>1, <2>1, FrontTables
    <2>6. CopySourceLocked'
      BY <1>1, <1>3, <2>2, <2>4, SourcesNext DEF d0
    <2>. QED  BY <1>1, <1>2, <1>3, <2>1, <2>4, <2>5, <2>6 DEF PathInv
  <1>5. CASE RunMiss(k)
    <2>1. PICK n \in (IF Fresh THEN {0} ELSE 0 .. Len(stamped)) :
            LET v == IF Fresh THEN k ELSE Victim(n)
                s == IF Fresh THEN Cardinality(DOMAIN map) ELSE map[v]
                d == Append(d0, CopyTo(k, s))
            IN  Rebind(k, v, s) /\ Launch(k, s, d, Len(d))
      BY <1>5 DEF RunMiss
    <2>. DEFINE v == IF Fresh THEN k ELSE Victim(n)
                s == IF Fresh THEN Cardinality(DOMAIN map) ELSE map[v]
                d == Append(d0, CopyTo(k, s))
                ev == [event EXCEPT ![s] = [by |-> "dma", ahead |-> Len(d)]]
    <2>2. Rebind(k, v, s) /\ Launch(k, s, d, Len(d))
      BY <2>1
    <2>3. n \in Nat
      BY <2>1
    <2>4. Chosen(k, v, s)
      BY <1>1, <1>5, <2>3, VictimCached DEF Chosen, RunMiss
    <2>. HIDE DEF v, s
    <2>5. /\ Tables(map', order') /\ k \in DOMAIN map' /\ map'[k] = s /\ s \in Slot
          /\ Device(d, stream["compute"], vram, ev) /\ Cached(map', d, vram) /\ Len(d) \in Nat
      BY <2>2, <2>4, Fills
    <2>6. CopySourceLocked'
      <3>1. stream'["dma"] = d
        BY <2>2 DEF Launch
      <3>. QED  BY <1>1, <1>3, <2>5, <3>1, SourcesNext
    <2>7. Ends(d, vram, s, k)
      BY <2>5 DEF Cached
    <2>8. /\ \A t \in Slot : t # s => ev[t] = event[t]
          /\ ev[s].by = "dma" /\ ev[s].ahead = Len(d) /\ DOMAIN event = Slot
      BY <1>1, <2>5
    <2>. HIDE DEF d, ev
    <2>9. Len(d) = IF ev[s].by = "compute" THEN 0 ELSE ev[s].ahead
      BY <2>8
    <2>10. /\ stream' = [X \in Stream |-> stream'[X]] /\ stream'["dma"] = d
           /\ Device(d, stream'["compute"], vram, event')
      BY <1>1, <2>2, <2>5, <2>7, <2>8, <2>9, Launches
    <2>. QED  BY <1>1, <1>2, <1>3, <2>5, <2>6, <2>10 DEF PathInv
  <1>. QED  BY <1>2, <1>4, <1>5

\* The device executes the head of a stream.
LEMMA ExecuteKeeps ==
    ASSUME PathInv, NEW X \in Stream, Execute(X)
    PROVE  PathInv'
  <1>. DEFINE d == stream["dma"]
              c == stream["compute"]
  <1>1. /\ Device(d, c, vram, event) /\ Tables(map, order) /\ Cached(map, d, vram)
        /\ d \in Seq(CopyOp) /\ c \in Seq(ReadOp) /\ vram \in [Slot -> Item \cup {Empty}]
    BY DEF PathInv, Device
  <1>2. /\ stream[X] # <<>> /\ Head(stream[X]).after = 0
        /\ vram' = IF Head(stream[X]).op = "copy"
                   THEN [vram EXCEPT ![Head(stream[X]).slot] = Head(stream[X]).key] ELSE vram
        /\ stream' = [Y \in Stream |-> IF Y = X THEN Tail(stream[X]) ELSE Eased(stream[Y])]
        /\ event' = Passed(event, X)
        /\ UNCHANGED <<layer, map, order, locked, orphans>>
    BY DEF Execute, Advance, Idle, Eased, Passed, host, locks
  <1>3. /\ stream' = [Y \in Stream |-> stream'[Y]] /\ layer' \in Layer
        /\ Tables(map', order') /\ Slices'
    BY <1>1, <1>2 DEF PathInv, Slices
  <1>4. \A k \in DOMAIN map : map[k] \in Slot
    BY <1>1 DEF Tables
  <1>5. CASE X = "dma"
    <2>1. d # <<>> /\ d[1].after = 0 /\ d[1] \in CopyOp /\ Head(d) = d[1]
      BY <1>1, <1>2, <1>5, TailIs
    <2>2. /\ stream'["dma"] = Tail(d) /\ stream'["compute"] = Eased(c)
          /\ vram' = [vram EXCEPT ![d[1].slot] = d[1].key]
      BY <1>2, <1>5, <2>1 DEF Stream, CopyOp
    <2>. HIDE DEF d, c
    <2>3. Device(stream'["dma"], stream'["compute"], vram', event')
      <3>1. event' = Passed(event, "dma")
        BY <1>2, <1>5
      <3>2. Device(Tail(d), Eased(c), [vram EXCEPT ![d[1].slot] = d[1].key],
                   Passed(event, "dma"))
        BY <1>1, <2>1, DmaRuns
      <3>. QED  BY <2>2, <3>1, <3>2
    <2>4. Cached(map', stream'["dma"], vram')
      <3>1. \A k \in DOMAIN map : Ends(Tail(d), [vram EXCEPT ![d[1].slot] = d[1].key], map[k], k)
        BY <1>1, <1>4, <2>1, EndsNext DEF Cached
      <3>. QED  BY <1>2, <2>2, <3>1 DEF Cached
    <2>5. CopySourceLocked'
      <3>1. \A i \in DOMAIN Tail(d) : i + 1 \in DOMAIN d /\ Tail(d)[i] = d[i + 1]
        BY <1>1, <2>1, TailIs
      <3>2. \A i \in DOMAIN d : d[i].from = "locked" => d[i].key \in Registered
        BY DEF PathInv, CopySourceLocked, d
      <3>3. Registered' = Registered
        BY <1>2 DEF Registered
      <3>. QED  BY <2>2, <3>1, <3>2, <3>3 DEF CopySourceLocked
    <2>. QED  BY <1>3, <2>3, <2>4, <2>5 DEF PathInv
  <1>6. CASE X = "compute"
    <2>1. c # <<>> /\ c[1].after = 0 /\ c[1] \in ReadOp /\ Head(c) = c[1]
      BY <1>1, <1>2, <1>6, TailIs
    <2>2. /\ stream'["dma"] = Eased(d) /\ stream'["compute"] = Tail(c) /\ vram' = vram
      BY <1>2, <1>6, <2>1 DEF Stream, ReadOp
    <2>. HIDE DEF d, c
    <2>3. Device(stream'["dma"], stream'["compute"], vram', event')
      <3>1. event' = Passed(event, "compute")
        BY <1>2, <1>6
      <3>2. Device(Eased(d), Tail(c), vram, Passed(event, "compute"))
        BY <1>1, <2>1, ComputeRuns
      <3>. QED  BY <2>2, <3>1, <3>2
    <2>4. Cached(map', stream'["dma"], vram')
      <3>1. \A k \in DOMAIN map : Ends(Eased(d), vram, map[k], k)
        BY <1>1, <1>4, EndsNext DEF Cached
      <3>. QED  BY <1>2, <2>2, <3>1 DEF Cached
    <2>5. CopySourceLocked'
      <3>1. /\ DOMAIN Eased(d) = DOMAIN d
            /\ \A i \in DOMAIN d : Eased(d)[i].from = d[i].from /\ Eased(d)[i].key = d[i].key
        <4>1. \A i \in DOMAIN d : d[i] \in CopyOp
          BY <1>1
        <4>. QED  BY <4>1 DEF Eased, CopyOp
      <3>2. \A i \in DOMAIN d : d[i].from = "locked" => d[i].key \in Registered
        BY DEF PathInv, CopySourceLocked, d
      <3>3. Registered' = Registered
        BY <1>2 DEF Registered
      <3>. QED  BY <2>2, <3>1, <3>2, <3>3 DEF CopySourceLocked
    <2>. QED  BY <1>3, <2>3, <2>4, <2>5 DEF PathInv
  <1>. QED  BY <1>5, <1>6 DEF Stream

\* The other steps of the host touch neither the tables nor the device.
LEMMA PathNext ==
    ASSUME PathInv, [Next]_vars
    PROVE  PathInv'
  <1>1. ASSUME NEW e \in Expert, PrefetchOne(e) \/ RunExpert(e) PROVE PathInv'
    BY <1>1, PrefetchKeeps, RunKeeps
  <1>2. ASSUME NEW X \in Stream, Execute(X) PROVE PathInv'
    BY <1>2, ExecuteKeeps
  <1>3. CASE \/ BeginOp \/ EndOp \/ UNCHANGED vars
             \/ \E ids \in SUBSET Expert : ids # {} /\ ReadIds(ids)
    <2>1. UNCHANGED <<map, order, event, locked, orphans, vram, stream>>
      BY <1>3 DEF BeginOp, EndOp, ReadIds, vars, lru, locks
    <2>2. layer' \in Layer
      BY <1>3, NextLayerStep DEF PathInv, BeginOp, EndOp, ReadIds, vars, host
    <2>3. Slices' /\ CopySourceLocked'
      BY <2>1 DEF PathInv, Slices, CopySourceLocked, Registered
    <2>. QED  BY <2>1, <2>2, <2>3 DEF PathInv
  <1>. QED  BY <1>1, <1>2, <1>3 DEF Next, HostStep

\* Nothing is cached, locked or enqueued at first.
LEMMA PathInit == Init => PathInv
  <1>. SUFFICES ASSUME Init PROVE PathInv
    OBVIOUS
  <1>1. /\ stream["dma"] = <<>> /\ stream["compute"] = <<>> /\ stream = [X \in Stream |-> stream[X]]
        /\ layer \in Layer /\ NSlots \in Nat /\ LockMax \in Nat
        /\ event = [s \in Slot |-> [by |-> "dma", ahead |-> 0]]
        /\ vram = [s \in Slot |-> Empty]
        /\ map = <<>> /\ order = <<>> /\ locked = <<>>
    BY SlotsAssumption, ExpertPathAssumption DEF Init, Stream, Layer
  <1>2. \A T : <<>> \in Seq(T) /\ DOMAIN <<>> = {} /\ Len(<<>>) = 0
    OBVIOUS
  <1>3. Cardinality({}) = 0 /\ IsFiniteSet({})
    BY FS_EmptySet
  <1>4. ToSet(<<>>) = {} /\ IsInjective(<<>>)
    BY <1>2 DEF ToSet, IsInjective
  <1>5. Tables(map, order)
    <2>1. <<>> \in [{} -> Slot]
      OBVIOUS
    <2>. QED  BY <1>1, <1>2, <1>3, <1>4, <2>1 DEF Tables
  <1>6. Device(stream["dma"], stream["compute"], vram, event)
    <2>1. Events(<<>>, <<>>, event) /\ Ordered(<<>>, <<>>, vram)
      BY <1>1, <1>2 DEF Events, Settled, Ordered
    <2>2. event \in [Slot -> Event] /\ vram \in [Slot -> Item \cup {Empty}]
      BY <1>1 DEF Event, Stream
    <2>3. \A s \in Slot : event[s].ahead = 0
      BY <1>1
    <2>. QED  BY <1>1, <1>2, <2>1, <2>2, <2>3 DEF Device
  <1>7. Cached(map, stream["dma"], vram)
    BY <1>1, <1>2 DEF Cached
  <1>8. Slices /\ CopySourceLocked
    BY <1>1, <1>2, <1>4 DEF Slices, CopySourceLocked
  <1>. QED  BY <1>1, <1>5, <1>6, <1>7, <1>8 DEF PathInv

\* What the head of the compute stream finds when it may run.
LEMMA HeadReads ==
    ASSUME NEW d, NEW c, NEW v, NEW ev, Device(d, c, v, ev), c # <<>>, c[1].after = 0
    PROVE  /\ v[c[1].slot] = c[1].key
           /\ d # <<>> /\ d[1].after = 0 => d[1].slot # c[1].slot
  <1>1. d \in Seq(CopyOp) /\ c \in Seq(ReadOp) /\ Ordered(d, c, v)
    BY DEF Device
  <1>2. 1 \in DOMAIN c /\ \A j \in DOMAIN c : j \in Nat /\ j >= 1
    BY <1>1, TailIs
  <1>3. \A n \in DOMAIN d : n \in Nat /\ n >= 1
    BY <1>1
  <1>4. \A i \in DOMAIN d : ~ Waits(c, 1, i)
    <2>. SUFFICES ASSUME NEW i \in DOMAIN d, NEW j \in DOMAIN c, j <= 1, c[j].after >= i
                  PROVE  FALSE
      BY DEF Waits
    <2>1. j = 1
      BY <1>2
    <2>. QED  BY <1>3, <2>1
  <1>5. v[c[1].slot] = c[1].key /\ \A h \in DOMAIN d : d[h].slot = c[1].slot => Waits(d, h, 1)
    BY <1>1, <1>2, <1>4 DEF Ordered, Finds
  <1>6. ASSUME d # <<>>, d[1].after = 0, d[1].slot = c[1].slot PROVE FALSE
    <2>1. 1 \in DOMAIN d
      BY <1>1, <1>6, TailIs
    <2>2. PICK i \in DOMAIN d : i <= 1 /\ d[i].after >= 1
      BY <1>5, <1>6, <2>1 DEF Waits
    <2>3. i = 1
      BY <1>3, <2>2
    <2>. QED  BY <1>6, <2>2, <2>3
  <1>. QED  BY <1>5, <1>6

\* What the event protocol gives: a matmul that runs finds its expert undisturbed.
LEMMA DeviceReads ==
    ASSUME NEW ev, Device(stream["dma"], stream["compute"], vram, ev)
    PROVE  KernelReadsItsExpert
  <1>. SUFFICES ASSUME NEW k \in Running("compute")
                PROVE  vram[k.slot] = k.key /\ \A o \in Running("dma") : o.slot # k.slot
    BY DEF KernelReadsItsExpert
  <1>. DEFINE d == stream["dma"]
              c == stream["compute"]
  <1>1. d \in Seq(CopyOp) /\ c \in Seq(ReadOp) /\ Device(d, c, vram, ev)
    BY DEF Device
  <1>2. c # <<>> /\ k = c[1] /\ c[1].after = 0
    BY <1>1, TailIs DEF Running, Idle
  <1>3. ASSUME NEW o \in Running("dma") PROVE d # <<>> /\ o = d[1] /\ d[1].after = 0
    BY <1>1, <1>3, TailIs DEF Running, Idle
  <1>. HIDE DEF d, c
  <1>. QED  BY <1>1, <1>2, <1>3, HeadReads

\* A matmul that runs finds its own expert in its slot and no copy running into it,
\* for any number of layers, experts, slots and tokens and however far the two
\* streams lag (vitriol_lru_ensure, vitriol_lru_prefetch_async).
THEOREM ExpertKernelReads == Spec => []KernelReadsItsExpert
  <1>1. PathInv => KernelReadsItsExpert
    BY DeviceReads DEF PathInv
  <1>. QED  BY <1>1, PathInit, PathNext, PTL DEF Spec

\* A host slice stays registered until the copies that were enqueued from it have
\* run, for every size of the lock table (vitriol_ensure_expert_locked).
THEOREM ExpertCopySourceLocked == Spec => []CopySourceLocked
  <1>1. PathInv => CopySourceLocked
    BY DEF PathInv
  <1>. QED  BY <1>1, PathInit, PathNext, PTL DEF Spec

\* The map, the order and the lock table never disagree: the aborts of the code on
\* a desync are unreachable.
THEOREM ExpertTablesAgree == Spec => []TablesAgree
  <1>1. PathInv => TablesAgree
    BY DEF PathInv, Tables, Slices, TablesAgree, MapOrderAgree
  <1>. QED  BY <1>1, PathInit, PathNext, PTL DEF Spec

-----------------------------------------------------------------------------
(* The LRU of vitriol-stream *)

\* The events with that of the slot in work where MarkComputeDone will record it:
\* until then the event may be behind the operations the call enqueued.
Ahead ==
    IF call.at \in {"launch", "mark"}
    THEN [event EXCEPT ![call.slot] = [by |-> "compute", ahead |-> Len(stream["compute"])]]
    ELSE event

\* The cached keys whose copy has been enqueued, while the process runs.
Filled ==
    IF call.at = "aborted" THEN {}
    ELSE IF call.at \in {"stage", "fill"} THEN DOMAIN map \ {call.key} ELSE DOMAIN map

\* The call the compute thread is in: its key is bound to its slot.
InCall ==
    /\ call \in [at : {"idle", "stage", "fill", "launch", "mark", "aborted"},
                 key : Item \cup {Empty}, slot : Slot, bounce : Bounce]
    /\ call.at \in {"stage", "fill", "launch", "mark"}
          => call.key \in DOMAIN map /\ map[call.key] = call.slot
    /\ call.at = "stage" => store

\* In sync mode no copy is ever queued, and a slot is filled after the matmuls.
Drained ==
    sync => /\ stream["dma"] = <<>>
            /\ call.at \in {"stage", "fill"} => stream["compute"] = <<>>

\* A queued copy is not behind the event of its bounce slot, which holds its slice.
InRing(o, i, n, b) == o.from \in Bounce /\ i <= n[o.from] /\ b[o.from] = o.key
Staged ==
    /\ next \in Bounce /\ busy \in [Bounce -> Nat]
    /\ buf \in [Bounce -> Item \cup {Empty}]
    /\ store => /\ \A i \in DOMAIN stream["dma"] : InRing(stream["dma"][i], i, busy, buf)
                /\ call.at = "fill" => buf[call.bounce] = call.key

\* The inductive invariant.
LruInv ==
    /\ store \in BOOLEAN /\ sync \in BOOLEAN /\ event \in [Slot -> Event]
    /\ stream = [X \in Stream |-> stream[X]]
    /\ Tables(map, order) /\ InCall /\ Drained /\ Staged
    /\ Device(stream["dma"], stream["compute"], vram, Ahead)
    /\ \A k \in Filled : Ends(stream["dma"], vram, map[k], k)

\* With no copy queued, the event of a slot may be recorded behind its readers.
LEMMA QuietMark ==
    ASSUME NEW c, NEW v, NEW ev, Device(<<>>, c, v, ev), NEW s \in Slot
    PROVE  Device(<<>>, c, v, [ev EXCEPT ![s] = [by |-> "compute", ahead |-> Len(c)]])
  <1>. DEFINE ev2 == [ev EXCEPT ![s] = [by |-> "compute", ahead |-> Len(c)]]
  <1>1. c \in Seq(ReadOp) /\ ev \in [Slot -> Event] /\ Len(c) \in Nat /\ Events(<<>>, c, ev)
    BY DEF Device
  <1>2. /\ ev2 \in [Slot -> Event] /\ ev2[s].by = "compute" /\ ev2[s].ahead = Len(c)
        /\ \A t \in Slot : t # s => ev2[t] = ev[t]
    BY <1>1 DEF Event, Stream
  <1>3. Settled(c, <<>>, Len(c), s)
    <2>1. \A i \in DOMAIN c : i <= Len(c)
      BY <1>1
    <2>. QED  BY <2>1 DEF Settled
  <1>. HIDE DEF ev2
  <1>4. Events(<<>>, c, ev2)
    BY <1>1, <1>2, <1>3 DEF Events
  <1>5. \A t \in Slot : /\ ev2[t].by = "dma" => ev2[t].ahead <= Len(<<>>)
                        /\ ev2[t].by = "compute" => ev2[t].ahead <= Len(c)
    BY <1>1, <1>2 DEF Device
  <1>6. Device(<<>>, c, v, ev2)
    BY <1>2, <1>4, <1>5 DEF Device
  <1>. QED  BY <1>6 DEF ev2

\* With nothing queued, the memory may change.
LEMMA QuietFill ==
    ASSUME NEW v, NEW ev, Device(<<>>, <<>>, v, ev), NEW u \in [Slot -> Item \cup {Empty}]
    PROVE  Device(<<>>, <<>>, u, ev)
  <1>1. Ordered(<<>>, <<>>, u)
    BY DEF Ordered
  <1>. QED  BY <1>1 DEF Device

\* A full pool has a victim, and its key is cached.
LEMMA LruVictimCached ==
    ASSUME Tables(map, order), ~ Fresh
    PROVE  LruVictim \in DOMAIN map
  <1>1. /\ order \in Seq(Item) /\ ToSet(order) = DOMAIN map /\ Len(order) \in Nat
        /\ DOMAIN order = 1 .. Len(order)
    BY DEF Tables
  <1>2. \A i \in 1 .. Len(order) : order[i] \in DOMAIN map
    BY <1>1 DEF ToSet
  <1>. DEFINE ready == {i \in 1 .. Len(order) - 1 : Reusable(order[i])}
  <1>3. LruVictim = IF sync \/ ready = {} THEN Last(order) ELSE order[Max(ready)]
    BY DEF LruVictim
  <1>4. ready \in SUBSET (0 .. Len(order)) /\ ready \subseteq 1 .. Len(order)
    BY <1>1
  <1>. HIDE DEF ready
  <1>5. ready # {} => Max(ready) \in 1 .. Len(order)
    BY <1>1, <1>4, GreatestBelow
  <1>. QED  BY <1>2, <1>3, <1>5, VictimCached

\* A step that touches neither the tables nor the device.
LEMMA LruIdle ==
    ASSUME LruInv, InCall', Staged', Filled' \subseteq Filled, Ahead' = Ahead,
           call'.at \in {"stage", "fill"} => call.at \in {"stage", "fill"},
           UNCHANGED <<store, sync, map, order, vram, stream>>, event' \in [Slot -> Event]
    PROVE  LruInv'
  <1>1. Drained'
    BY DEF LruInv, Drained
  <1>. QED  BY <1>1 DEF LruInv

\* The first slot, the bounce ring, and the record outside of a call.
LEMMA RingIs ==
    /\ 0 \in Slot /\ 0 \in Bounce /\ Bounce \subseteq Nat
    /\ next \in Bounce => NextBounce \in Bounce
  <1>1. NSlots \in Nat \ {0} /\ NBounce \in Nat \ {0}
    BY SlotsAssumption, StreamAssumption
  <1>2. 0 \in Slot /\ 0 \in Bounce /\ Bounce \subseteq Nat
    BY <1>1 DEF Slot, Bounce
  <1>3. next \in Bounce => NextBounce \in Bounce
    <2>1. \A n \in Nat, m \in Nat \ {0} : n % m \in 0 .. m - 1
      OBVIOUS
    <2>. QED  BY <1>1, <2>1 DEF NextBounce, Bounce
  <1>. QED  BY <1>2, <1>3

\* A reader of slot s behind its event, seen from the event that will be recorded.
LEMMA ReaderOf ==
    ASSUME NEW d, NEW c, NEW v, NEW ev, Device(d, c, v, ev), NEW s \in Slot, NEW o \in ReadOp,
           o.slot = s, o.after = (IF ev[s].by = "compute" THEN 0 ELSE ev[s].ahead),
           Ends(d, v, s, o.key)
    PROVE  /\ Device(d, Append(c, o), v,
                     [ev EXCEPT ![s] = [by |-> "compute", ahead |-> Len(Append(c, o))]])
           /\ Len(Append(c, o)) \in Nat
  <1>1. c \in Seq(ReadOp)
    BY DEF Device
  <1>2. Len(Append(c, o)) = Len(c) + 1 /\ Len(c) \in Nat
    BY <1>1, AppendIs
  <1>3. Device(d, Append(c, o), v,
               [ev EXCEPT ![o.slot] = [by |-> "compute", ahead |-> Len(c) + 1]])
    BY ReadAdded
  <1>. QED  BY <1>2, <1>3

\* A hit.
LEMMA LruHit ==
    ASSUME LruInv, NEW k \in Slice, Hit(k)
    PROVE  LruInv'
  <1>. DEFINE s == map[k]
              d == stream["dma"]
              c == stream["compute"]
  <1>1. /\ call.at = "idle" /\ k \in DOMAIN map /\ Ahead = event /\ Filled = DOMAIN map
        /\ call' = [at |-> "launch", key |-> k, slot |-> s, bounce |-> 0]
        /\ UNCHANGED <<store, sync, map, event, next, buf, busy, vram>>
    BY DEF Hit, Call, config, Ahead, Filled
  <1>2. /\ Tables(map, order) /\ Device(d, c, vram, event) /\ Ends(d, vram, s, k)
        /\ s \in Slot /\ k \in Item /\ event \in [Slot -> Event]
        /\ stream = [X \in Stream |-> stream[X]] /\ sync \in BOOLEAN
    BY <1>1 DEF LruInv, Tables
  <1>3. Filled' = DOMAIN map
    BY <1>1 DEF Filled
  <1>4. Ahead' = [event EXCEPT ![s] = [by |-> "compute", ahead |-> Len(stream'["compute"])]]
    BY <1>1 DEF Ahead
  <1>5. InCall'
    BY <1>1, <1>2, RingIs DEF InCall
  <1>6. /\ Tables(map, order') /\ stream'["dma"] = d
        /\ stream' = [X \in Stream |-> stream'[X]]
        /\ Device(d, stream'["compute"], vram, Ahead')
    <2>1. CASE sync
      <3>1. order' = order /\ stream' = stream
        BY <2>1 DEF Hit
      <3>2. d = <<>>
        BY <2>1 DEF LruInv, Drained
      <3>3. Device(<<>>, c, vram, [event EXCEPT ![s] = [by |-> "compute", ahead |-> Len(c)]])
        BY <1>2, <3>2, QuietMark
      <3>. QED  BY <1>2, <1>4, <3>1, <3>2, <3>3
    <2>2. CASE ~ sync
      <3>. DEFINE o == WaitFor(k, s, After("compute", s))
      <3>1. order' = ToFront(k, order) /\ stream' = [stream EXCEPT !["compute"] = Append(@, o)]
        BY <2>2 DEF Hit, ToFront
      <3>2. Tables(map, order')
        BY <1>1, <1>2, <3>1, FrontTables
      <3>3. /\ o \in ReadOp /\ o.slot = s /\ o.key = k
            /\ o.after = IF event[s].by = "compute" THEN 0 ELSE event[s].ahead
        BY <1>2 DEF WaitFor, After, ReadOp, Event
      <3>. HIDE DEF o
      <3>4. /\ stream'["dma"] = d /\ stream'["compute"] = Append(c, o)
            /\ stream' = [X \in Stream |-> stream'[X]]
        BY <1>2, <3>1 DEF Stream
      <3>. HIDE DEF s, d, c
      <3>5. Device(d, Append(c, o), vram,
                   [event EXCEPT ![s] = [by |-> "compute", ahead |-> Len(Append(c, o))]])
        BY <1>2, <3>3, ReaderOf
      <3>. QED  BY <1>4, <3>2, <3>4, <3>5
    <2>. QED  BY <1>2, <2>1, <2>2
  <1>7. Drained' /\ Staged'
    BY <1>1, <1>6 DEF LruInv, Drained, Staged, InRing
  <1>. QED  BY <1>1, <1>2, <1>3, <1>5, <1>6, <1>7 DEF LruInv

\* A miss: the tables change hands, and nothing is enqueued yet.
LEMMA LruMiss ==
    ASSUME LruInv, NEW k \in Slice, Miss(k)
    PROVE  LruInv'
  <1>. DEFINE v == IF Fresh THEN k ELSE LruVictim
              s == IF Fresh THEN Cardinality(DOMAIN map) ELSE map[v]
  <1>1. /\ call.at = "idle" /\ k \notin DOMAIN map /\ (sync => stream["compute"] = <<>>)
        /\ Rebind(k, v, s)
        /\ call' = [at |-> IF store THEN "stage" ELSE "fill", key |-> k, slot |-> s, bounce |-> 0]
        /\ UNCHANGED <<store, sync, event, next, buf, busy, vram, stream>>
    BY DEF Miss, Call, config, Idle
  <1>2. Tables(map, order) /\ Ahead = event /\ Filled = DOMAIN map /\ store \in BOOLEAN
    BY <1>1 DEF LruInv, Ahead, Filled
  <1>3. k \in Item
    BY DEF Item
  <1>4. Chosen(k, v, s) /\ Rebind(k, v, s)
    BY <1>1, <1>2, <1>3, LruVictimCached DEF Chosen
  <1>. HIDE DEF v, s
  <1>5. /\ Tables(map', order') /\ s \in Slot /\ k \in DOMAIN map' /\ map'[k] = s
        /\ \A j \in DOMAIN map' : j # k => j \in DOMAIN map /\ map'[j] = map[j]
    BY <1>2, <1>4, RebindTables
  <1>6. InCall'
    BY <1>1, <1>2, <1>3, <1>5, RingIs DEF InCall
  <1>7. Ahead' = Ahead /\ Filled' = DOMAIN map' \ {k}
    BY <1>1, <1>2 DEF Ahead, Filled
  <1>8. Drained' /\ Staged'
    BY <1>1 DEF LruInv, Drained, Staged, InRing
  <1>. QED  BY <1>1, <1>2, <1>5, <1>6, <1>7, <1>8 DEF LruInv

\* A slice is read into a bounce slot that no queued copy reads from.
LEMMA LruStage ==
    ASSUME LruInv, Stage
    PROVE  LruInv'
  <1>1. /\ call.at = "stage" /\ busy[next] = 0 /\ next' = NextBounce
        /\ buf' = [buf EXCEPT ![next] = call.key]
        /\ call' = [at |-> "fill", key |-> call.key, slot |-> call.slot, bounce |-> next]
        /\ UNCHANGED <<store, sync, map, order, event, busy, vram, stream>>
    BY DEF Stage, Acquirable, Call, config, policy
  <1>2. /\ InCall /\ Staged /\ store /\ call.key \in Item /\ next \in Bounce
        /\ Tables(map, order)
    BY <1>1 DEF LruInv, InCall, Staged, Tables
  <1>3. InCall'
    BY <1>1, <1>2 DEF InCall
  <1>4. Staged'
    <2>1. \A i \in DOMAIN stream["dma"] : i \in Nat /\ i >= 1
      BY DEF LruInv, Device
    <2>2. ASSUME NEW i \in DOMAIN stream["dma"], NEW o, o = stream["dma"][i]
          PROVE  InRing(o, i, busy, buf')
      <3>1. InRing(o, i, busy, buf)
        BY <1>2, <2>2 DEF Staged
      <3>2. o.from # next
        BY <1>1, <2>1, <3>1 DEF InRing
      <3>. QED  BY <1>1, <1>2, <3>1, <3>2 DEF Staged, InRing
    <2>3. \A i \in DOMAIN stream["dma"] : InRing(stream["dma"][i], i, busy, buf')
      BY <2>2
    <2>. QED  BY <1>1, <1>2, <2>3, RingIs DEF Staged
  <1>5. Filled' \subseteq Filled /\ Ahead' = Ahead
    BY <1>1 DEF Filled, Ahead
  <1>. QED  BY <1>1, <1>3, <1>4, <1>5, LruIdle DEF LruInv

\* The caller gives up: the read failed, or the expert does not fit.
LEMMA LruAborts ==
    ASSUME LruInv, ReadFails \/ \E k \in Slice : TooLarge(k)
    PROVE  LruInv'
  <1>1. /\ call.at \in {"stage", "idle"} /\ next' \in {next, NextBounce}
        /\ call' = [at |-> "aborted", key |-> Empty, slot |-> 0, bounce |-> 0]
        /\ UNCHANGED <<store, sync, map, order, event, buf, busy, vram, stream>>
    BY DEF ReadFails, TooLarge, NoCall, config, policy
  <1>2. InCall'
    BY <1>1, RingIs DEF InCall
  <1>3. Staged'
    BY <1>1, RingIs DEF LruInv, Staged, InRing
  <1>4. Filled' \subseteq Filled /\ Ahead' = Ahead
    BY <1>1 DEF Filled, Ahead
  <1>. QED  BY <1>1, <1>2, <1>3, <1>4, LruIdle DEF LruInv

\* A fill in sync mode: both streams are empty.
LEMMA LruFillSync ==
    ASSUME LruInv, FillSync
    PROVE  LruInv'
  <1>. DEFINE s == call.slot
              k == call.key
  <1>1. /\ call.at = "fill" /\ sync
        /\ vram' = [vram EXCEPT ![s] = IF store THEN buf[call.bounce] ELSE k]
        /\ call' = [at |-> "launch", key |-> k, slot |-> s, bounce |-> 0]
        /\ UNCHANGED <<store, sync, map, order, event, next, buf, busy, stream>>
    BY DEF FillSync, Call, config, policy
  <1>2. /\ stream["dma"] = <<>> /\ stream["compute"] = <<>>
        /\ Tables(map, order) /\ k \in DOMAIN map /\ map[k] = s /\ s \in Slot /\ k \in Item
        /\ store => buf[call.bounce] = k
    BY <1>1 DEF LruInv, Drained, InCall, Staged, Tables
  <1>3. Device(<<>>, <<>>, vram, event)
    BY <1>1, <1>2 DEF LruInv, Ahead
  <1>4. /\ vram' \in [Slot -> Item \cup {Empty}] /\ vram'[s] = k
        /\ \A t \in Slot : t # s => vram'[t] = vram[t]
    BY <1>1, <1>2, <1>3 DEF Device
  <1>5. Device(<<>>, <<>>, vram', Ahead')
    <2>1. Ahead' = [event EXCEPT ![s] = [by |-> "compute", ahead |-> Len(<<>>)]]
      BY <1>1, <1>2 DEF Ahead
    <2>. HIDE DEF s
    <2>. QED  BY <1>2, <1>3, <1>4, <2>1, QuietFill, QuietMark
  <1>6. ASSUME NEW j \in Filled' PROVE Ends(<<>>, vram', map[j], j)
    <2>1. j \in DOMAIN map
      BY <1>1, <1>6 DEF Filled
    <2>2. CASE j = k
      BY <1>2, <1>4, <2>2 DEF Ends
    <2>3. CASE j # k
      <3>1. Ends(<<>>, vram, map[j], j)
        BY <1>1, <1>2, <2>1, <2>3 DEF LruInv, Filled
      <3>2. map[j] # s /\ map[j] \in Slot
        BY <1>2, <2>1, <2>3 DEF Tables, IsInjective
      <3>. QED  BY <1>4, <3>1, <3>2 DEF Ends
    <2>. QED  BY <2>2, <2>3
  <1>7. InCall'
    BY <1>1, <1>2, RingIs DEF InCall
  <1>8. Drained' /\ Staged'
    BY <1>1, <1>2 DEF LruInv, Drained, Staged, InRing
  <1>. QED  BY <1>1, <1>2, <1>5, <1>6, <1>7, <1>8 DEF LruInv

\* The matmul, unless its output was cached.
LEMMA LruLaunch ==
    ASSUME LruInv, Matmul
    PROVE  LruInv'
  <1>. DEFINE s == call.slot
              k == call.key
              d == stream["dma"]
              c == stream["compute"]
              o == [op |-> "kernel", slot |-> s, key |-> k, after |-> 0]
  <1>1. /\ call.at = "launch"
        /\ stream' = [stream EXCEPT !["compute"] = Append(@, o)] \/ stream' = stream
        /\ call' = [at |-> "mark", key |-> k, slot |-> s, bounce |-> 0]
        /\ UNCHANGED <<store, sync, map, order, event, next, buf, busy, vram>>
    BY DEF Matmul, Call, config, policy
  <1>2. /\ Tables(map, order) /\ k \in DOMAIN map /\ map[k] = s /\ s \in Slot /\ k \in Item
        /\ Filled = DOMAIN map /\ Ends(d, vram, s, k) /\ Device(d, c, vram, Ahead)
        /\ event \in [Slot -> Event] /\ stream = [X \in Stream |-> stream[X]]
    BY <1>1 DEF LruInv, InCall, Tables, Filled
  <1>3. /\ Ahead = [event EXCEPT ![s] = [by |-> "compute", ahead |-> Len(c)]]
        /\ Ahead' = [event EXCEPT ![s] = [by |-> "compute", ahead |-> Len(stream'["compute"])]]
        /\ Filled' = DOMAIN map
    BY <1>1 DEF Ahead, Filled
  <1>4. /\ stream'["dma"] = d /\ stream' = [X \in Stream |-> stream'[X]]
        /\ Device(d, stream'["compute"], vram, Ahead')
    <2>1. CASE stream' = stream
      BY <1>2, <1>3, <2>1
    <2>2. CASE stream' = [stream EXCEPT !["compute"] = Append(@, o)]
      <3>1. /\ stream'["dma"] = d /\ stream'["compute"] = Append(c, o)
            /\ stream' = [X \in Stream |-> stream'[X]]
        BY <1>2, <2>2 DEF Stream
      <3>2. o \in ReadOp /\ o.slot = s /\ o.key = k /\ o.after = 0
        BY <1>2 DEF ReadOp
      <3>. HIDE DEF o
      <3>3. Ahead[s].by = "compute"
        BY <1>2, <1>3
      <3>4. Ahead' = [Ahead EXCEPT ![s] = [by |-> "compute", ahead |-> Len(Append(c, o))]]
        BY <1>2, <1>3, <3>1
      <3>. HIDE DEF s, k, d, c
      <3>5. Device(d, Append(c, o), vram,
                   [Ahead EXCEPT ![s] = [by |-> "compute", ahead |-> Len(Append(c, o))]])
        BY <1>2, <3>2, <3>3, ReaderOf
      <3>. QED  BY <3>1, <3>4, <3>5
    <2>. QED  BY <1>1, <2>1, <2>2
  <1>5. InCall'
    BY <1>1, <1>2, RingIs DEF InCall
  <1>6. Drained' /\ Staged'
    BY <1>1, <1>4 DEF LruInv, Drained, Staged, InRing
  <1>. QED  BY <1>1, <1>2, <1>3, <1>4, <1>5, <1>6 DEF LruInv

\* The event of the slot is recorded where it was said to be.
LEMMA LruMark ==
    ASSUME LruInv, MarkComputeDone
    PROVE  LruInv'
  <1>1. /\ call.at = "mark"
        /\ event' = [event EXCEPT ![call.slot] =
                        [by |-> "compute", ahead |-> Len(stream["compute"])]]
        /\ call' = [at |-> "idle", key |-> Empty, slot |-> 0, bounce |-> 0]
        /\ UNCHANGED <<store, sync, map, order, next, buf, busy, vram, stream>>
    BY DEF MarkComputeDone, NoCall, Record, config
  <1>2. event' = Ahead /\ Ahead' = event' /\ Filled' = Filled
    BY <1>1 DEF Ahead, Filled
  <1>3. event' \in [Slot -> Event]
    BY <1>2 DEF LruInv, Device
  <1>4. InCall'
    BY <1>1, RingIs DEF InCall
  <1>5. Staged'
    BY <1>1 DEF LruInv, Staged, InRing
  <1>. QED  BY <1>1, <1>2, <1>3, <1>4, <1>5, LruIdle

\* A copy is enqueued in a slot: the other cached keys keep theirs, the bounce slot
\* is not reused before it has run, and the compute stream waits for it.
LEMMA LruFill ==
    ASSUME LruInv, Fill
    PROVE  LruInv'
  <1>. DEFINE s == call.slot
              k == call.key
              d == stream["dma"]
              c == stream["compute"]
              o == CopySlice(s)
              r == Append(d, o)
              w == WaitFor(k, s, Len(r))
              ev == [event EXCEPT ![s] = [by |-> "dma", ahead |-> Len(r)]]
  <1>1. /\ call.at = "fill" /\ ~ sync /\ stream' = [dma |-> r, compute |-> Append(c, w)]
        /\ event' = ev
        /\ busy' = IF store THEN [busy EXCEPT ![call.bounce] = Len(r)] ELSE busy
        /\ call' = [at |-> "launch", key |-> k, slot |-> s, bounce |-> 0]
        /\ UNCHANGED <<store, sync, map, order, next, buf, vram>>
    BY DEF Fill, Call, Record, config, policy
  <1>2. /\ Tables(map, order) /\ k \in DOMAIN map /\ map[k] = s /\ s \in Slot /\ k \in Item
        /\ call.bounce \in Bounce /\ Staged /\ event \in [Slot -> Event]
        /\ Device(d, c, vram, event) /\ d \in Seq(CopyOp) /\ vram \in [Slot -> Item \cup {Empty}]
    BY <1>1 DEF LruInv, InCall, Tables, Ahead, Device
  <1>3. /\ o \in CopyOp /\ o.slot = s /\ o.key = k /\ o.from = call.bounce
        /\ o.after = IF event[s].by = "dma" THEN 0 ELSE event[s].ahead
    <2>1. event[s].ahead \in Nat /\ call.bounce \in Memories
      BY <1>2, RingIs DEF Event, Memories
    <2>. QED  BY <1>2, <2>1 DEF CopySlice, After, CopyOp
  <1>. HIDE DEF o
  <1>4. /\ Len(d) \in Nat /\ Len(r) = Len(d) + 1 /\ r[Len(d) + 1] = o
        /\ \A i \in DOMAIN r : i = Len(d) + 1 \/ i \in DOMAIN d
        /\ \A i \in DOMAIN d : r[i] = d[i] /\ i \in Nat /\ i <= Len(d)
    BY <1>2, <1>3, AppendIs
  <1>5. Device(r, c, vram, ev)
    <2>. HIDE DEF d, c, s
    <2>1. Device(r, c, vram, [event EXCEPT ![o.slot] = [by |-> "dma", ahead |-> Len(d) + 1]])
      BY <1>2, <1>3, CopyAdded
    <2>. QED  BY <1>3, <1>4, <2>1
  <1>6. /\ stream'["dma"] = r /\ stream'["compute"] = Append(c, w)
        /\ stream' = [X \in Stream |-> stream'[X]]
    BY <1>1 DEF Stream
  <1>7. w \in ReadOp /\ w.slot = s /\ w.key = k /\ w.after = Len(r)
    <2>. HIDE DEF r, s, k, d
    <2>1. Len(r) \in Nat
      BY <1>4
    <2>. QED  BY <1>2, <2>1 DEF WaitFor, ReadOp
  <1>8. Ahead' = [ev EXCEPT ![s] = [by |-> "compute", ahead |-> Len(Append(c, w))]]
    BY <1>1, <1>2, <1>6 DEF Ahead
  <1>9. ev[s].by = "dma" /\ ev[s].ahead = Len(r)
    BY <1>2
  <1>. HIDE DEF w, r, ev
  <1>10. Ends(r, vram, s, k)
    <2>. HIDE DEF d, s, k
    <2>. QED  BY <1>2, <1>3, EndsNext DEF r
  <1>11. Device(r, Append(c, w), vram, Ahead')
    <2>1. w.after = IF ev[s].by = "compute" THEN 0 ELSE ev[s].ahead
      BY <1>7, <1>9
    <2>. HIDE DEF s, k, d, c
    <2>2. Device(r, Append(c, w), vram,
                 [ev EXCEPT ![s] = [by |-> "compute", ahead |-> Len(Append(c, w))]])
      BY <1>2, <1>5, <1>7, <1>10, <2>1, ReaderOf
    <2>. QED  BY <1>8, <2>2
  <1>12. ASSUME NEW j \in Filled' PROVE Ends(r, vram, map[j], j)
    <2>1. j \in DOMAIN map
      BY <1>1, <1>12 DEF Filled
    <2>2. CASE j = k
      BY <1>2, <1>10, <2>2
    <2>3. CASE j # k
      <3>1. Ends(d, vram, map[j], j)
        BY <1>1, <2>1, <2>3 DEF LruInv, Filled
      <3>2. map[j] # s /\ map[j] \in Slot
        BY <1>2, <2>1, <2>3 DEF Tables, IsInjective
      <3>. HIDE DEF d, s, k
      <3>3. Ends(r, vram, map[j], j)
        BY <1>2, <1>3, <3>1, <3>2, EndsNext DEF r
      <3>. QED  BY <3>3
    <2>. QED  BY <2>2, <2>3
  <1>13. InCall'
    BY <1>1, <1>2, RingIs DEF InCall
  <1>14. Staged'
    <2>1. busy' \in [Bounce -> Nat]
      BY <1>1, <1>2, <1>4 DEF Staged
    <2>2. ASSUME store, NEW i \in DOMAIN r PROVE InRing(r[i], i, busy', buf')
      <3>1. busy'[call.bounce] = Len(r)
        BY <1>1, <1>2, <2>2 DEF Staged
      <3>2. CASE i = Len(d) + 1
        <4>1. r[i] = o /\ i <= Len(r) /\ buf[call.bounce] = k
          BY <1>1, <1>2, <1>4, <2>2, <3>2 DEF Staged
        <4>. QED  BY <1>1, <1>2, <1>3, <3>1, <4>1 DEF InRing
      <3>3. CASE i \in DOMAIN d
        <4>1. r[i] = d[i] /\ InRing(d[i], i, busy, buf) /\ i <= Len(r)
          <5>1. r[i] = d[i] /\ InRing(d[i], i, busy, buf)
            BY <1>2, <1>4, <2>2, <3>3 DEF Staged
          <5>2. i \in Nat /\ i <= Len(d)
            BY <1>4, <3>3
          <5>. QED  BY <1>4, <5>1, <5>2
        <4>2. busy'[d[i].from] = IF d[i].from = call.bounce THEN Len(r) ELSE busy[d[i].from]
          BY <1>1, <1>2, <2>2, <4>1 DEF Staged, InRing
        <4>. QED  BY <1>1, <4>1, <4>2 DEF InRing
      <3>. QED  BY <1>4, <3>2, <3>3
    <2>. QED  BY <1>1, <1>2, <1>6, <2>1, <2>2 DEF Staged
  <1>15. Drained'
    BY <1>1 DEF Drained
  <1>16. store' = store /\ event' \in [Slot -> Event]
    BY <1>1, <1>5 DEF Device
  <1>. HIDE DEF s, k, d, c
  <1>. QED  BY <1>1, <1>2, <1>6, <1>11, <1>12, <1>13, <1>14, <1>15, <1>16 DEF LruInv

\* The events where they will be recorded, after the head of X has run.
LEMMA AheadRuns ==
    ASSUME LruInv, NEW X \in Stream, Run(X)
    PROVE  Ahead' = Passed(Ahead, X) /\ event' \in [Slot -> Event]
  <1>. DEFINE c == stream["compute"]
  <1>1. /\ event' = Passed(event, X) /\ call' = call /\ stream[X] # <<>>
        /\ stream' = [Y \in Stream |-> IF Y = X THEN Tail(stream[X]) ELSE Eased(stream[Y])]
    BY DEF Run, Advance, Passed, Eased, Less, Idle
  <1>2. event \in [Slot -> Event] /\ c \in Seq(ReadOp)
    BY DEF LruInv, Device
  <1>3. event' \in [Slot -> Event]
    BY <1>1, <1>2, PassedIs
  <1>4. CASE call.at \in {"launch", "mark"}
    <2>1. call.slot \in Slot
      BY DEF LruInv, InCall
    <2>2. Len(stream'["compute"]) = IF X = "compute" THEN Less(Len(c)) ELSE Len(c)
      <3>1. CASE X = "compute"
        <4>1. stream'["compute"] = Tail(c) /\ c # <<>>
          BY <1>1, <3>1 DEF Stream
        <4>2. Len(Tail(c)) = Len(c) - 1 /\ Len(c) >= 1
          BY <1>2, <4>1, TailIs
        <4>. QED  BY <3>1, <4>1, <4>2 DEF Less
      <3>2. CASE X = "dma"
        <4>1. stream'["compute"] = Eased(c)
          BY <1>1, <3>2 DEF Stream
        <4>. QED  BY <1>2, <3>2, <4>1, EasedIs
      <3>. QED  BY <3>1, <3>2 DEF Stream
    <2>3. /\ Ahead = [event EXCEPT ![call.slot] = [by |-> "compute", ahead |-> Len(c)]]
          /\ Ahead' = [event' EXCEPT ![call.slot] =
                          [by |-> "compute", ahead |-> Len(stream'["compute"])]]
      BY <1>1, <1>4 DEF Ahead
    <2>4. Len(c) \in Nat
      BY <1>2
    <2>. HIDE DEF c
    <2>5. /\ Ahead \in [Slot -> Event] /\ Ahead' = [s \in Slot |-> Ahead'[s]]
          /\ Passed(Ahead, X) = [s \in Slot |-> Passed(Ahead, X)[s]]
      BY <1>2, <1>3, <2>1, <2>3, <2>4 DEF Passed, Stream, Event
    <2>6. ASSUME NEW s \in Slot PROVE Ahead'[s] = Passed(Ahead, X)[s]
      <3>1. CASE s = call.slot
        <4>1. Ahead[s] = [by |-> "compute", ahead |-> Len(c)]
          BY <1>2, <2>3, <3>1
        <4>2. Ahead'[s] = [by |-> "compute", ahead |-> Len(stream'["compute"])]
          BY <1>3, <2>3, <3>1
        <4>. QED  BY <2>2, <4>1, <4>2 DEF Passed
      <3>2. CASE s # call.slot
        <4>1. Ahead[s] = event[s] /\ Ahead'[s] = event'[s]
          BY <1>2, <1>3, <2>3, <3>2
        <4>. QED  BY <1>1, <4>1 DEF Passed
      <3>. QED  BY <3>1, <3>2
    <2>. QED  BY <1>3, <2>5, <2>6
  <1>5. CASE call.at \notin {"launch", "mark"}
    BY <1>1, <1>3, <1>5 DEF Ahead
  <1>. QED  BY <1>3, <1>4, <1>5

\* A copy runs.
LEMMA LruDma ==
    ASSUME LruInv, Run("dma")
    PROVE  LruInv'
  <1>. DEFINE d == stream["dma"]
              c == stream["compute"]
              o == d[1]
  <1>1. /\ Device(d, c, vram, Ahead) /\ d \in Seq(CopyOp) /\ c \in Seq(ReadOp)
        /\ vram \in [Slot -> Item \cup {Empty}] /\ Tables(map, order) /\ Staged
        /\ sync \in BOOLEAN
    BY DEF LruInv, Device
  <1>2. d # <<>> /\ Head(d).after = 0
    BY DEF Run, Advance, Idle
  <1>3. /\ Head(d) = o /\ o \in CopyOp /\ 1 \in DOMAIN d /\ Tail(d) \in Seq(CopyOp)
        /\ \A i \in DOMAIN Tail(d) :
              i \in Nat /\ i >= 1 /\ i + 1 \in DOMAIN d /\ Tail(d)[i] = d[i + 1]
    BY <1>1, <1>2, TailIs
  <1>4. store => buf[o.from] = o.key
    BY <1>1, <1>3 DEF Staged, InRing
  <1>5. /\ vram' = [vram EXCEPT ![o.slot] = o.key]
        /\ stream'["dma"] = Tail(d) /\ stream'["compute"] = Eased(c)
        /\ stream' = [X \in Stream |-> stream'[X]]
        /\ busy' = [b \in Bounce |-> Less(busy[b])]
        /\ UNCHANGED <<store, sync, map, order, next, buf, call>>
    <2>1. o.op = "copy"
      BY <1>3 DEF CopyOp
    <2>2. vram' = [vram EXCEPT ![o.slot] = IF store THEN buf[o.from] ELSE o.key]
      BY <1>3, <2>1 DEF Run, Advance
    <2>3. stream' = [Y \in Stream |-> IF Y = "dma" THEN Tail(d) ELSE Eased(stream[Y])]
      BY DEF Run, Advance, Eased
    <2>4. busy' = [b \in Bounce |-> Less(busy[b])]
      BY DEF Run, Advance
    <2>. QED  BY <1>4, <2>2, <2>3, <2>4 DEF Stream, Run, Advance, config, policy
  <1>6. Ahead' = Passed(Ahead, "dma") /\ event' \in [Slot -> Event]
    BY AheadRuns DEF Stream
  <1>. HIDE DEF d, c
  <1>7. Device(Tail(d), Eased(c), vram', Ahead')
    BY <1>1, <1>2, <1>3, <1>5, <1>6, DmaRuns
  <1>8. \A k \in Filled : Ends(Tail(d), vram', map[k], k)
    <2>1. \A k \in Filled : k \in DOMAIN map /\ Ends(d, vram, map[k], k)
      BY DEF LruInv, Filled, d
    <2>2. \A k \in Filled : map[k] \in Slot
      BY <1>1, <2>1 DEF Tables
    <2>. QED  BY <1>1, <1>2, <1>5, <2>1, <2>2, EndsNext
  <1>9. Filled' = Filled /\ InCall'
    BY <1>5 DEF LruInv, Filled, InCall
  <1>10. ~ sync
    BY <1>2 DEF LruInv, Drained, d
  <1>11. Staged'
    <2>1. busy' \in [Bounce -> Nat]
      BY <1>1, <1>5 DEF Staged, Less
    <2>2. ASSUME store, NEW i \in DOMAIN Tail(d) PROVE InRing(Tail(d)[i], i, busy', buf')
      <3>. DEFINE q == d[i + 1]
      <3>1. i \in Nat /\ Tail(d)[i] = q /\ InRing(q, i + 1, busy, buf)
        BY <1>1, <1>3, <2>2 DEF Staged, d
      <3>. HIDE DEF q
      <3>2. busy'[q.from] = Less(busy[q.from]) /\ busy[q.from] \in Nat
        BY <1>1, <1>5, <3>1 DEF Staged, InRing
      <3>3. i <= busy'[q.from]
        BY <3>1, <3>2 DEF InRing, Less
      <3>. QED  BY <1>5, <3>1, <3>3 DEF InRing
    <2>. QED  BY <1>1, <1>5, <2>1, <2>2 DEF Staged
  <1>12. Drained'
    BY <1>5, <1>10 DEF Drained
  <1>. QED  BY <1>1, <1>5, <1>6, <1>7, <1>8, <1>9, <1>11, <1>12 DEF LruInv

\* An operation of the compute stream runs.
LEMMA LruCompute ==
    ASSUME LruInv, Run("compute")
    PROVE  LruInv'
  <1>. DEFINE d == stream["dma"]
              c == stream["compute"]
  <1>1. /\ Device(d, c, vram, Ahead) /\ d \in Seq(CopyOp) /\ c \in Seq(ReadOp)
        /\ vram \in [Slot -> Item \cup {Empty}] /\ Tables(map, order) /\ Staged
    BY DEF LruInv, Device
  <1>2. c # <<>> /\ Head(c).after = 0
    BY DEF Run, Advance, Idle
  <1>3. Head(c) = c[1] /\ c[1] \in ReadOp
    BY <1>1, <1>2, TailIs
  <1>4. /\ stream'["dma"] = Eased(d) /\ stream'["compute"] = Tail(c)
        /\ stream' = [X \in Stream |-> stream'[X]]
        /\ busy' = busy
        /\ UNCHANGED <<store, sync, map, order, next, buf, call, vram>>
    <2>1. vram' = vram
      BY <1>3 DEF Run, Advance, ReadOp
    <2>2. stream' = [Y \in Stream |-> IF Y = "compute" THEN Tail(c) ELSE Eased(stream[Y])]
      BY DEF Run, Advance, Eased
    <2>3. busy' = busy
      BY <1>1 DEF Run, Advance, Staged
    <2>. QED  BY <2>1, <2>2, <2>3 DEF Stream, Run, Advance, config, policy
  <1>5. Ahead' = Passed(Ahead, "compute") /\ event' \in [Slot -> Event]
    BY AheadRuns DEF Stream
  <1>. HIDE DEF d, c
  <1>6. Device(Eased(d), Tail(c), vram, Ahead')
    BY <1>1, <1>2, <1>3, <1>5, ComputeRuns
  <1>7. \A k \in Filled : Ends(Eased(d), vram, map[k], k)
    <2>1. \A k \in Filled : k \in DOMAIN map /\ Ends(d, vram, map[k], k)
      BY DEF LruInv, Filled, d
    <2>2. \A k \in Filled : map[k] \in Slot
      BY <1>1, <2>1 DEF Tables
    <2>. QED  BY <1>1, <2>1, <2>2, EndsNext
  <1>8. Filled' = Filled /\ InCall'
    BY <1>4 DEF LruInv, Filled, InCall
  <1>9. Staged'
    <2>1. DOMAIN Eased(d) = DOMAIN d
      BY DEF Eased
    <2>2. ASSUME NEW i \in DOMAIN d
          PROVE  Eased(d)[i].from = d[i].from /\ Eased(d)[i].key = d[i].key
      <3>1. d[i] \in CopyOp
        BY <1>1
      <3>. QED  BY <3>1 DEF Eased, CopyOp
    <2>3. store => \A i \in DOMAIN d : InRing(d[i], i, busy, buf)
      BY <1>1 DEF Staged, d
    <2>4. store => \A i \in DOMAIN Eased(d) : InRing(Eased(d)[i], i, busy', buf')
      BY <1>4, <2>1, <2>2, <2>3 DEF InRing
    <2>. QED  BY <1>1, <1>4, <2>4 DEF Staged
  <1>10. Drained'
    <2>1. d = <<>> => Eased(d) = <<>>
      BY DEF Eased
    <2>. QED  BY <1>2, <1>4, <2>1 DEF LruInv, Drained, d, c
  <1>. QED  BY <1>1, <1>4, <1>5, <1>6, <1>7, <1>8, <1>9, <1>10 DEF LruInv

\* Every step keeps the invariant.
LEMMA LruNext ==
    ASSUME LruInv, [StreamNext]_streaming
    PROVE  LruInv'
  <1>1. ASSUME NEW k \in Slice, Hit(k) \/ Miss(k) \/ TooLarge(k) PROVE LruInv'
    BY <1>1, LruHit, LruMiss, LruAborts
  <1>2. CASE \/ Stage \/ ReadFails \/ Fill \/ FillSync \/ Matmul
             \/ MarkComputeDone
    BY <1>2, LruStage, LruAborts, LruFill, LruFillSync, LruLaunch, LruMark
  <1>3. CASE Run("dma") \/ Run("compute")
    BY <1>3, LruDma, LruCompute
  <1>4. CASE UNCHANGED streaming
    <2>1. UNCHANGED <<store, sync, map, order, event, next, buf, busy, vram, stream, call>>
      BY <1>4 DEF streaming
    <2>2. InCall' /\ Staged' /\ Filled' = Filled /\ Ahead' = Ahead
      BY <2>1 DEF LruInv, InCall, Staged, Filled, Ahead
    <2>. QED  BY <2>1, <2>2, LruIdle DEF LruInv
  <1>. QED  BY <1>1, <1>2, <1>3, <1>4 DEF StreamNext, ThreadStep

\* Nothing is cached or enqueued at first.
LEMMA LruInit ==
    ASSUME StreamInit
    PROVE  LruInv
  <1>1. /\ store \in BOOLEAN /\ sync \in BOOLEAN /\ map = <<>> /\ order = <<>> /\ next = 0
        /\ event = [s \in Slot |-> [by |-> "dma", ahead |-> 0]]
        /\ buf = [b \in Bounce |-> Empty] /\ busy = [b \in Bounce |-> 0]
        /\ vram = [s \in Slot |-> Empty]
        /\ stream["dma"] = <<>> /\ stream["compute"] = <<>> /\ stream = [X \in Stream |-> stream[X]]
        /\ call = [at |-> "idle", key |-> Empty, slot |-> 0, bounce |-> 0]
        /\ NSlots \in Nat
    BY SlotsAssumption, StreamAssumption DEF StreamInit, NoCall, Stream
  <1>2. \A T : <<>> \in Seq(T) /\ DOMAIN <<>> = {} /\ Len(<<>>) = 0
    OBVIOUS
  <1>3. Cardinality({}) = 0 /\ IsFiniteSet({})
    BY FS_EmptySet
  <1>4. Tables(map, order)
    <2>1. ToSet(<<>>) = {} /\ IsInjective(<<>>) /\ <<>> \in [{} -> Slot]
      BY <1>2 DEF ToSet, IsInjective
    <2>. QED  BY <1>1, <1>2, <1>3, <2>1 DEF Tables
  <1>5. event \in [Slot -> Event] /\ vram \in [Slot -> Item \cup {Empty}]
    BY <1>1 DEF Event, Stream
  <1>6. Ahead = event /\ Filled = {}
    BY <1>1 DEF Ahead, Filled
  <1>7. Device(stream["dma"], stream["compute"], vram, Ahead)
    <2>1. Events(<<>>, <<>>, event) /\ Ordered(<<>>, <<>>, vram)
      BY <1>1, <1>2 DEF Events, Settled, Ordered
    <2>2. \A s \in Slot : event[s].ahead = 0
      BY <1>1
    <2>. QED  BY <1>1, <1>2, <1>5, <1>6, <2>1, <2>2 DEF Device
  <1>8. InCall /\ Drained /\ Staged
    BY <1>1, RingIs DEF InCall, Drained, Staged
  <1>. QED  BY <1>1, <1>4, <1>5, <1>6, <1>7, <1>8 DEF LruInv

\* A matmul that runs finds its own slice in its slot and no copy running into it,
\* for any number of experts and slots, with or without the store, the bounce ring
\* and the sync mode (ensure, mark_compute_done).
THEOREM StreamMatmulReads == StreamSpec => []KernelReadsItsExpert
  <1>1. LruInv => KernelReadsItsExpert
    BY DeviceReads DEF LruInv
  <1>. QED  BY <1>1, LruInit, LruNext, PTL DEF StreamSpec

\* A staging buffer keeps the slice of every copy that is still to read it, for any
\* number of them: acquire waits for the last one (BounceRing).
THEOREM StreamStagedSliceStable == StreamSpec => []StagedSliceStable
  <1>1. LruInv => StagedSliceStable
    BY DEF LruInv, Staged, InRing, StagedSliceStable
  <1>. QED  BY <1>1, LruInit, LruNext, PTL DEF StreamSpec

\* The map and the order never disagree, and no two experts share a slot.
THEOREM StreamMapOrderAgree == StreamSpec => []MapOrderAgree
  <1>1. LruInv => MapOrderAgree
    BY DEF LruInv, Tables, MapOrderAgree
  <1>. QED  BY <1>1, LruInit, LruNext, PTL DEF StreamSpec

=============================================================================
