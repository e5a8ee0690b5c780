-------------------------- MODULE PromptCacheProofs --------------------------
(***************************************************************************)
(* The prompt cache and its disk mirror, for any prompts, models, windows, *)
(* limits and numbers of writers and starts: the RAM list stays within its *)
(* limit and free of duplicates, and, while no two spills of one name are  *)
(* in flight together, every slot, entry and published file holds the KV   *)
(* bytes of its own tokens and model.                                      *)
(***************************************************************************)
EXTENDS PromptCache, FiniteSetTheorems, SequenceTheorems, WellFoundedInduction, TLAPS

-----------------------------------------------------------------------------
(* Lists *)

\* Every set of natural numbers that is not empty has a least member.
LEMMA LeastNatural ==
    ASSUME NEW T \in SUBSET Nat, T # {}
    PROVE  \E x \in T : \A y \in T : x <= y
  <1>. DEFINE R == StrictSubsetOrdering(Nat)
              S == FiniteSubsetsOf(Nat)
              U == {0 .. x : x \in T}
  <1>1. IsWellFoundedOn(R, S)
    BY FS_StrictSubsetOrderingWellFounded
  <1>2. U \subseteq S
    <2>1. \A x \in T : IsFiniteSet(0 .. x)
      BY FS_Interval
    <2>. QED  BY <2>1 DEF FiniteSubsetsOf
  <1>3. U # {}
    OBVIOUS
  <1>4. PICK u \in U : \A v \in U : ~ (<<v, u>> \in R)
    <2>. HIDE DEF R, S, U
    <2>. QED  BY <1>1, <1>2, <1>3, WFMin
  <1>5. PICK x \in T : u = 0 .. x
    OBVIOUS
  <1>6. ASSUME NEW y \in T, y < x  PROVE FALSE
    <2>1. 0 .. y \in U
      OBVIOUS
    <2>2. 0 .. y \subseteq 0 .. x /\ 0 .. y # 0 .. x /\ 0 .. x \subseteq Nat
      <3>1. x \in 0 .. x /\ ~ x \in 0 .. y
        BY <1>6
      <3>. QED  BY <1>6, <3>1
    <2>3. <<0 .. y, u>> \in R
      BY <2>2, <1>5 DEF StrictSubsetOrdering
    <2>. QED  BY <2>1, <2>3, <1>4
  <1>. QED  BY <1>6

\* The least number at which a loop stops.
LEMMA MinIs ==
    ASSUME NEW S \in SUBSET Nat, S # {}
    PROVE  Min(S) \in S
  <1>1. \E x \in S : \A y \in S : x <= y
    BY LeastNatural
  <1>. QED  BY <1>1 DEF Min

\* A bounded set of natural numbers that is not empty has a greatest member.
LEMMA GreatestBelow ==
    ASSUME NEW n \in Nat, NEW S \in SUBSET (0 .. n), S # {}
    PROVE  \E i \in S : \A j \in S : j <= i
  <1>. DEFINE T == {n - i : i \in S}
  <1>1. T \in SUBSET Nat /\ T # {}
    <2>1. \A i \in S : n - i \in Nat
      OBVIOUS
    <2>2. PICK i \in S : TRUE
      OBVIOUS
    <2>3. n - i \in T
      OBVIOUS
    <2>. QED  BY <2>1, <2>3
  <1>2. PICK x \in T : \A y \in T : x <= y
    BY <1>1, LeastNatural
  <1>3. PICK i \in S : x = n - i
    OBVIOUS
  <1>4. \A j \in S : n - j \in T
    OBVIOUS
  <1>5. \A j \in S : j <= i
    <2>. SUFFICES ASSUME NEW j \in S PROVE j <= i
      OBVIOUS
    <2>1. n - i <= n - j
      BY <1>2, <1>3, <1>4
    <2>. QED  BY <2>1
  <1>. QED  BY <1>5

\* f tells where the members of s were in q: each position of D once, in order.
Picks(q, D, s, f) ==
    /\ \A n \in DOMAIN s : s[n] = q[f[n]]
    /\ \A n \in DOMAIN s : \A m \in DOMAIN s : f[n] = f[m] => n = m
    /\ \A i \in D : \E n \in DOMAIN s : f[n] = i
    /\ \A n \in DOMAIN s : Cardinality({j \in D : j <= f[n]}) = n

\* What stays of a list: its members at D, each once and in their order.
LEMMA SublistIs ==
    ASSUME NEW T, NEW q \in Seq(T), NEW D \in SUBSET DOMAIN q
    PROVE  /\ IsFiniteSet(D) /\ Cardinality(D) \in Nat
           /\ Sublist(q, D) \in Seq(T) /\ Len(Sublist(q, D)) = Cardinality(D)
           /\ \E f \in [DOMAIN Sublist(q, D) -> D] : Picks(q, D, Sublist(q, D), f)
  <1>. DEFINE n == Cardinality(D)
              Below(i) == {j \in D : j <= i}
              rank == [i \in D |-> Cardinality(Below(i))]
              pos == [m \in 1 .. n |-> CHOOSE i \in D : Cardinality(Below(i)) = m]
              e == [m \in 1 .. n |-> q[pos[m]]]
  <1>1. DOMAIN q = 1 .. Len(q) /\ Len(q) \in Nat /\ IsFiniteSet(DOMAIN q)
    <2>1. DOMAIN q = 1 .. Len(q) /\ Len(q) \in Nat
      OBVIOUS
    <2>. QED  BY <2>1, FS_Interval
  <1>2. IsFiniteSet(D) /\ n \in Nat
    <2>1. IsFiniteSet(D)
      BY <1>1, FS_Subset
    <2>. QED  BY <2>1, FS_CardinalityType
  <1>3. \A i \in D : i \in Nat /\ q[i] \in T
    BY <1>1
  <1>4. Sublist(q, D) = e
    BY DEF Sublist
  <1>. HIDE DEF n
  <1>5. \A i \in D : /\ IsFiniteSet(Below(i))
                     /\ rank[i] = Cardinality(Below(i)) /\ rank[i] \in 1 .. n
    <2>. TAKE i \in D
    <2>1. IsFiniteSet(Below(i)) /\ Cardinality(Below(i)) <= n
      <3>1. Below(i) \in SUBSET D
        OBVIOUS
      <3>. QED  BY <1>2, <3>1, FS_Subset DEF n
    <2>2. Cardinality(Below(i)) \in Nat
      BY <2>1, FS_CardinalityType
    <2>3. i \in Below(i)
      BY <1>3
    <2>4. Cardinality(Below(i)) # 0
      BY <2>1, <2>3, FS_EmptySet
    <2>. QED  BY <1>2, <2>1, <2>2, <2>4
  <1>. HIDE DEF rank
  <1>6. \A i, j \in D : i < j => rank[i] < rank[j]
    <2>. SUFFICES ASSUME NEW i \in D, NEW j \in D, i < j
                  PROVE  rank[i] < rank[j]
      OBVIOUS
    <2>1. Below(i) \in SUBSET Below(j) /\ Below(i) # Below(j)
      BY <1>3
    <2>2. /\ Cardinality(Below(i)) <= Cardinality(Below(j))
          /\ Cardinality(Below(j)) # Cardinality(Below(i))
      BY <1>5, <2>1, FS_Subset
    <2>3. \A m, k \in 1 .. n : m <= k /\ k # m => m < k
      BY <1>2
    <2>. QED  BY <1>5, <2>2, <2>3
  <1>7. rank \in Bijection(D, 1 .. n)
    <2>1. rank \in [D -> 1 .. n]
      BY <1>5 DEF rank
    <2>2. \A i, j \in D : rank[i] = rank[j] => i = j
      <3>. SUFFICES ASSUME NEW i \in D, NEW j \in D, rank[i] = rank[j], i # j
                    PROVE  FALSE
        OBVIOUS
      <3>1. i < j \/ j < i
        BY <1>3
      <3>2. \A m, k \in 1 .. n : m < k => m # k
        BY <1>2
      <3>. QED  BY <1>5, <1>6, <3>1, <3>2
    <2>3. rank \in Injection(D, 1 .. n)
      BY <2>1, <2>2 DEF Injection, IsInjective
    <2>4. IsFiniteSet(1 .. n) /\ Cardinality(1 .. n) = n
      BY <1>2, FS_Interval
    <2>5. rank \in Surjection(D, 1 .. n)
      BY <2>3, <2>4, FS_Injection DEF n
    <2>. QED  BY <2>3, <2>5 DEF Bijection
  <1>8. \A m \in 1 .. n : pos[m] \in D /\ rank[pos[m]] = m
    <2>. TAKE m \in 1 .. n
    <2>1. \E i \in D : rank[i] = m
      BY <1>7, Zenon DEF Bijection, Surjection
    <2>2. \E i \in D : Cardinality(Below(i)) = m
      BY <1>5, <2>1
    <2>3. pos[m] \in D /\ Cardinality(Below(pos[m])) = m
      BY <2>2
    <2>. QED  BY <1>5, <2>3
  <1>9. \A i \in D : rank[i] \in 1 .. n /\ pos[rank[i]] = i
    <2>1. \A i, j \in D : rank[i] = rank[j] => i = j
      BY <1>7, Zenon DEF Bijection, Injection, IsInjective
    <2>. QED  BY <1>5, <1>8, <2>1
  <1>10. pos \in [1 .. n -> D]
    BY <1>8
  <1>. HIDE DEF pos
  <1>11. e \in Seq(T) /\ Len(e) = n /\ \A m \in 1 .. n : e[m] = q[pos[m]]
    BY <1>2, <1>3, <1>8
  <1>12. \A m \in 1 .. n : Cardinality(Below(pos[m])) = m
    BY <1>5, <1>8
  <1>. HIDE DEF e
  <1>13. \E f \in [DOMAIN e -> D] : Picks(q, D, e, f)
    <2>1. DOMAIN e = 1 .. n /\ pos \in [DOMAIN e -> D]
      BY <1>10, <1>11
    <2>2. Picks(q, D, e, pos)
      BY <1>8, <1>9, <1>11, <1>12, <2>1 DEF Picks
    <2>. QED  BY <2>1, <2>2
  <1>. QED  BY <1>2, <1>4, <1>11, <1>13 DEF n

\* Every member of what stays is one of the list.
LEMMA SublistFrom ==
    ASSUME NEW T, NEW q \in Seq(T), NEW D \in SUBSET DOMAIN q
    PROVE  \A n \in DOMAIN Sublist(q, D) : \E i \in D : Sublist(q, D)[n] = q[i]
  <1>. DEFINE s == Sublist(q, D)
  <1>1. \E f \in [DOMAIN s -> D] : Picks(q, D, s, f)
    BY SublistIs
  <1>. HIDE DEF s
  <1>. QED  BY <1>1 DEF s, Picks

\* Nothing stays at no position.
LEMMA SublistEmpty ==
    ASSUME NEW T, NEW q \in Seq(T)
    PROVE  Sublist(q, {}) = <<>>
  <1>1. Sublist(q, {}) \in Seq(T) /\ Len(Sublist(q, {})) = Cardinality({})
    BY SublistIs
  <1>2. Cardinality({}) = 0
    BY FS_EmptySet
  <1>. QED  BY <1>1, <1>2, EmptySeq

\* The member at the last position of D is the last of what stays.
LEMMA SublistLast ==
    ASSUME NEW T, NEW q \in Seq(T), NEW D \in SUBSET DOMAIN q, NEW m \in D,
           \A j \in D : j <= m
    PROVE  Sublist(q, D) = Append(Sublist(q, D \ {m}), q[m])
  <1>. DEFINE E == D \ {m}
              s == Sublist(q, D)
              r == Sublist(q, E)
              c == Cardinality(D)
              b == Cardinality(E)
  <1>1. /\ s \in Seq(T) /\ Len(s) = c /\ c \in Nat /\ IsFiniteSet(D)
        /\ \E f \in [DOMAIN s -> D] : Picks(q, D, s, f)
    BY SublistIs
  <1>2. /\ r \in Seq(T) /\ Len(r) = b /\ b \in Nat
        /\ \E f \in [DOMAIN r -> E] : Picks(q, E, r, f)
    <2>1. E \in SUBSET DOMAIN q
      OBVIOUS
    <2>. HIDE DEF E
    <2>. QED  BY <2>1, SublistIs
  <1>3. b = c - 1
    BY <1>1, FS_RemoveElement
  <1>4. q[m] \in T /\ \A i \in D : i \in Nat
    OBVIOUS
  <1>. HIDE DEF s, r, c, b
  <1>0. DOMAIN s = 1 .. c /\ DOMAIN r = 1 .. b
    BY <1>1, <1>2
  <1>3f. PICK f \in [DOMAIN s -> D] : Picks(q, D, s, f)
    BY <1>1
  <1>3g. PICK g \in [DOMAIN r -> E] : Picks(q, E, r, g)
    BY <1>2
  <1>5. /\ \A n \in 1 .. c : s[n] = q[f[n]] /\ f[n] \in D
        /\ \A i \in D : \E n \in 1 .. c : f[n] = i
        /\ \A n \in 1 .. c : Cardinality({j \in D : j <= f[n]}) = n
    BY <1>0, <1>3f DEF Picks
  <1>6. /\ \A n \in 1 .. b : r[n] = q[g[n]]
        /\ \A i \in E : \E n \in 1 .. b : g[n] = i
        /\ \A n \in 1 .. b : Cardinality({j \in E : j <= g[n]}) = n
    BY <1>0, <1>3g DEF Picks
  <1>7. f[c] = m /\ c \in 1 .. c
    <2>1. PICK n \in 1 .. c : f[n] = m
      BY <1>5
    <2>2. {j \in D : j <= m} = D
      OBVIOUS
    <2>3. n = c
      <3>1. Cardinality({j \in D : j <= m}) = n
        BY <1>5, <2>1
      <3>. QED  BY <2>2, <3>1 DEF c
    <2>. QED  BY <2>1, <2>3
  <1>8. ASSUME NEW n \in 1 .. b
        PROVE  s[n] = r[n]
    <2>1. n \in 1 .. c /\ n # c
      BY <1>1, <1>2, <1>3
    <2>2. f[n] \in E
      <3>1. f[n] \in D
        BY <1>5, <2>1
      <3>2. f[n] # m
        <4>1. Cardinality({j \in D : j <= f[n]}) = n /\ Cardinality({j \in D : j <= f[c]}) = c
          BY <1>5, <1>7, <2>1
        <4>. QED  BY <1>7, <2>1, <4>1
      <3>. QED  BY <3>1, <3>2
    <2>3. {j \in D : j <= f[n]} = {j \in E : j <= f[n]}
      <3>1. ~ (m <= f[n])
        BY <1>4, <2>2
      <3>. QED  BY <3>1
    <2>4. PICK k \in 1 .. b : g[k] = f[n]
      BY <1>6, <2>2
    <2>5. k = n
      <3>1. Cardinality({j \in E : j <= g[k]}) = k
        BY <1>6
      <3>2. Cardinality({j \in D : j <= f[n]}) = n
        BY <1>5, <2>1
      <3>. QED  BY <2>3, <2>4, <3>1, <3>2
    <2>. QED  BY <1>5, <1>6, <2>1, <2>4, <2>5
  <1>. DEFINE a == Append(r, q[m])
  <1>9. /\ a \in Seq(T) /\ Len(a) = b + 1 /\ a[b + 1] = q[m]
        /\ \A n \in 1 .. b : a[n] = r[n]
    BY <1>2, <1>4, AppendProperties
  <1>. HIDE DEF a
  <1>10. \A n \in 1 .. Len(s) : s[n] = a[n]
    <2>. TAKE n \in 1 .. Len(s)
    <2>1. n = c \/ n \in 1 .. b
      BY <1>1, <1>2, <1>3
    <2>2. s[c] = q[m] /\ b + 1 = c
      BY <1>1, <1>3, <1>5, <1>7
    <2>. QED  BY <1>8, <1>9, <2>1, <2>2
  <1>11. Len(s) = Len(a)
    BY <1>1, <1>3, <1>9
  <1>12. s = a
    BY <1>1, <1>9, <1>10, <1>11, SeqEqual
  <1>. QED  BY <1>12 DEF s, a, r

-----------------------------------------------------------------------------
(* The size of a list *)

Sized(l) == \A i \in DOMAIN l : StateSize(l[i]) \in Nat
Cells(i, n) == {i} \X (1 .. n)

\* The cells of one entry.
LEMMA CellsCount ==
    ASSUME NEW i, NEW n \in Nat
    PROVE  IsFiniteSet(Cells(i, n)) /\ Cardinality(Cells(i, n)) = n
  <1>1. IsFiniteSet({i}) /\ Cardinality({i}) = 1
    BY FS_Singleton
  <1>2. IsFiniteSet(1 .. n) /\ Cardinality(1 .. n) = n
    BY FS_Interval
  <1>3. /\ IsFiniteSet({i} \X (1 .. n))
        /\ Cardinality({i} \X (1 .. n)) = Cardinality({i}) * Cardinality(1 .. n)
    BY <1>1, <1>2, FS_Product
  <1>. QED  BY <1>1, <1>2, <1>3 DEF Cells

\* The size of a list is a number.
LEMMA TotalType ==
    ASSUME NEW T, NEW l \in Seq(T), Sized(l)
    PROVE  /\ Total(l) \in Nat
           /\ IsFiniteSet(UNION {Cells(i, StateSize(l[i])) : i \in DOMAIN l})
  <1>. DEFINE C(i) == Cells(i, StateSize(l[i]))
              A == {C(i) : i \in DOMAIN l}
  <1>1. IsFiniteSet(DOMAIN l)
    <2>1. DOMAIN l = 1 .. Len(l) /\ Len(l) \in Nat
      OBVIOUS
    <2>. QED  BY <2>1, FS_Interval
  <1>2. \A i \in DOMAIN l : IsFiniteSet(C(i))
    BY CellsCount DEF Sized
  <1>3. IsFiniteSet(A)
    <2>. DEFINE f == [i \in DOMAIN l |-> C(i)]
    <2>1. f \in Surjection(DOMAIN l, A)
      BY DEF Surjection
    <2>. QED  BY <1>1, <2>1, FS_Surjection
  <1>4. IsFiniteSet(UNION A)
    <2>1. \A B \in A : IsFiniteSet(B)
      BY <1>2
    <2>. HIDE DEF A
    <2>. QED  BY <1>3, <2>1, FS_UNION
  <1>5. Total(l) = Cardinality(UNION A)
    BY DEF Total, Cells
  <1>. HIDE DEF A
  <1>6. Total(l) \in Nat
    BY <1>4, <1>5, FS_CardinalityType
  <1>. QED  BY <1>4, <1>6 DEF A

\* An empty list has no cells.
LEMMA TotalEmpty == Total(<<>>) = 0
  <1>1. UNION {{i} \X (1 .. StateSize(<<>>[i])) : i \in DOMAIN <<>>} = {}
    OBVIOUS
  <1>. QED  BY <1>1, FS_EmptySet DEF Total

\* push_back adds the size of the entry.
LEMMA TotalAppend ==
    ASSUME NEW T, NEW l \in Seq(T), Sized(l), NEW e \in T, StateSize(e) \in Nat
    PROVE  Sized(Append(l, e)) /\ Total(Append(l, e)) = Total(l) + StateSize(e)
  <1>. DEFINE a == Append(l, e)
              n == Len(l) + 1
              U == UNION {Cells(i, StateSize(l[i])) : i \in DOMAIN l}
              V == Cells(n, StateSize(e))
              W == UNION {Cells(i, StateSize(a[i])) : i \in DOMAIN a}
  <1>1. /\ a \in Seq(T) /\ DOMAIN a = DOMAIN l \cup {n} /\ n \notin DOMAIN l /\ a[n] = e
        /\ \A i \in DOMAIN l : a[i] = l[i]
    <2>1. DOMAIN l = 1 .. Len(l) /\ Len(l) \in Nat
      OBVIOUS
    <2>2. a \in Seq(T) /\ Len(a) = n /\ a[n] = e /\ \A i \in 1 .. Len(l) : a[i] = l[i]
      BY AppendProperties
    <2>3. DOMAIN a = 1 .. n
      BY <2>2
    <2>. QED  BY <2>1, <2>2, <2>3
  <1>2. Total(l) = Cardinality(U) /\ Total(a) = Cardinality(W)
    BY DEF Total, Cells
  <1>3. IsFiniteSet(U) /\ IsFiniteSet(V) /\ Cardinality(V) = StateSize(e)
    BY TotalType, CellsCount
  <1>. HIDE DEF a, n
  <1>4. W = U \cup V
    BY <1>1
  <1>5. U \cap V = {}
    BY <1>1 DEF Cells
  <1>. HIDE DEF U, V, W
  <1>6. Cardinality(U \cup V) = Cardinality(U) + Cardinality(V) - Cardinality(U \cap V)
    BY <1>3, FS_Union
  <1>7. Cardinality(U \cup V) = Cardinality(U) + Cardinality(V)
    <2>1. Cardinality(U) \in Nat /\ Cardinality(V) \in Nat /\ Cardinality(U \cap V) = 0
      BY <1>3, <1>5, FS_EmptySet, FS_CardinalityType
    <2>2. \A x, y \in Nat : x + y - 0 = x + y
      OBVIOUS
    <2>. QED  BY <1>6, <2>1, <2>2
  <1>8. Sized(a)
    BY <1>1 DEF Sized
  <1>. QED  BY <1>2, <1>3, <1>4, <1>7, <1>8 DEF a

-----------------------------------------------------------------------------
(* Eviction *)

Distinct(l) == \A i \in DOMAIN l : \A j \in DOMAIN l : l[i].toks = l[j].toks => i = j

\* What stays of a list holds no other members, and none twice.
LEMMA SublistKeeps ==
    ASSUME NEW T, NEW q \in Seq(T), NEW D \in SUBSET DOMAIN q
    PROVE  /\ Sublist(q, D) \in Seq(T)
           /\ \A n \in DOMAIN Sublist(q, D) : \E i \in DOMAIN q : Sublist(q, D)[n] = q[i]
           /\ Distinct(q) => Distinct(Sublist(q, D))
  <1>. DEFINE s == Sublist(q, D)
  <1>1. s \in Seq(T) /\ \E f \in [DOMAIN s -> D] : Picks(q, D, s, f)
    BY SublistIs
  <1>2. \A n \in DOMAIN s : \E i \in D : s[n] = q[i]
    BY SublistFrom
  <1>. HIDE DEF s
  <1>3. PICK f \in [DOMAIN s -> D] : Picks(q, D, s, f)
    BY <1>1
  <1>4. Distinct(q) => Distinct(s)
    BY <1>3 DEF Distinct, Picks
  <1>. QED  BY <1>1, <1>2, <1>4 DEF s

\* The entries of a list have a size.
LEMMA EntrySized ==
    ASSUME NEW l \in Seq(Entry)
    PROVE  Sized(l) /\ Total(l) \in Nat
  <1>1. \A e \in Entry : StateSize(e) \in Nat
    <2>. SUFFICES ASSUME NEW e \in Entry PROVE StateSize(e) \in Nat
      OBVIOUS
    <2>1. e.toks \in Seq(Nat)
      BY PromptAssumption DEF Entry
    <2>2. Len(e.toks) \in Nat
      BY <2>1
    <2>. QED  BY <2>2 DEF StateSize
  <1>2. Sized(l)
    BY <1>1 DEF Sized
  <1>. QED  BY <1>2, TotalType

\* After as many evictions as the list has entries none is left.
LEMMA EvictedAll ==
    ASSUME NEW l \in Seq(Entry)
    PROVE  Evicted(l, Len(l)) = <<>>
  <1>. DEFINE Before(i) == {j \in DOMAIN l : \/ l[j].hit < l[i].hit
                                             \/ l[j].hit = l[i].hit /\ j < i}
              D == {i \in DOMAIN l : Cardinality(Before(i)) >= Len(l)}
  <1>1. /\ DOMAIN l = 1 .. Len(l) /\ Len(l) \in Nat /\ IsFiniteSet(DOMAIN l)
        /\ Cardinality(DOMAIN l) = Len(l)
    <2>1. DOMAIN l = 1 .. Len(l) /\ Len(l) \in Nat
      OBVIOUS
    <2>. QED  BY <2>1, FS_Interval
  <1>2. \A i \in DOMAIN l : ~ (Cardinality(Before(i)) >= Len(l))
    <2>. TAKE i \in DOMAIN l
    <2>1. l[i] \in Entry
      OBVIOUS
    <2>2. l[i].hit \in Nat /\ i \in Nat
      BY <1>1, <2>1 DEF Entry
    <2>3. i \notin Before(i)
      BY <2>2
    <2>4. Before(i) \in SUBSET DOMAIN l /\ Before(i) # DOMAIN l
      BY <2>3
    <2>. HIDE DEF Before
    <2>5. /\ IsFiniteSet(Before(i)) /\ Cardinality(Before(i)) <= Cardinality(DOMAIN l)
          /\ Cardinality(Before(i)) # Cardinality(DOMAIN l)
      BY <1>1, <2>4, FS_Subset
    <2>6. Cardinality(Before(i)) \in Nat
      BY <2>5, FS_CardinalityType
    <2>. QED  BY <1>1, <2>5, <2>6
  <1>3. D = {}
    BY <1>2
  <1>4. Evicted(l, Len(l)) = Sublist(l, D)
    BY DEF Evicted
  <1>. QED  BY <1>3, <1>4, SublistEmpty

\* The loop of alloc and of update: what stays is part of the list and leaves the
\* room asked for, or nothing stays.
LEMMA MakeRoomIs ==
    ASSUME NEW T \in SUBSET Entry, NEW l \in Seq(T), NEW need \in Nat, NEW lim \in Nat
    PROVE  /\ MakeRoom(l, need, lim) \in Seq(T)
           /\ \A n \in DOMAIN MakeRoom(l, need, lim) :
                 \E i \in DOMAIN l : MakeRoom(l, need, lim)[n] = l[i]
           /\ Distinct(l) => Distinct(MakeRoom(l, need, lim))
           /\ \/ Total(MakeRoom(l, need, lim)) + need <= lim
              \/ MakeRoom(l, need, lim) = <<>>
  <1>. DEFINE N == {n \in 0 .. Len(l) : n = Len(l) \/ Total(Evicted(l, n)) + need <= lim}
              r == MakeRoom(l, need, lim)
  <1>1. l \in Seq(Entry) /\ Len(l) \in Nat
    OBVIOUS
  <1>2. N \in SUBSET Nat /\ Len(l) \in N
    BY <1>1
  <1>3. PICK n \in N : r = Evicted(l, n)
    <2>1. Min(N) \in N
      BY <1>2, MinIs
    <2>. QED  BY <2>1 DEF MakeRoom
  <1>. HIDE DEF r
  <1>4. \/ Total(r) + need <= lim
        \/ r = <<>>
    BY <1>1, <1>3, EvictedAll
  <1>5. \E D \in SUBSET DOMAIN l : r = Sublist(l, D)
    BY <1>3 DEF Evicted
  <1>. QED  BY <1>4, <1>5, SublistKeeps DEF r

\* update leaves the list within its limit.
LEMMA UpdateIs ==
    ASSUME NEW T \in SUBSET Entry, NEW l \in Seq(T), NEW lim \in Nat
    PROVE  /\ update(l, lim) \in Seq(T)
           /\ Distinct(l) => Distinct(update(l, lim))
           /\ Total(update(l, lim)) <= lim
  <1>1. /\ update(l, lim) \in Seq(T)
        /\ Distinct(l) => Distinct(update(l, lim))
        /\ Total(update(l, lim)) + 0 <= lim \/ update(l, lim) = <<>>
    BY MakeRoomIs DEF update
  <1>2. Total(update(l, lim)) \in Nat
    BY <1>1, EntrySized
  <1>. QED  BY <1>1, <1>2, TotalEmpty

\* Popping from the front.
LEMMA BehindIs ==
    ASSUME NEW T, NEW l \in Seq(T), NEW n
    PROVE  /\ Behind(l, n) \in Seq(T)
           /\ \A m \in DOMAIN Behind(l, n) : \E i \in DOMAIN l : Behind(l, n)[m] = l[i]
           /\ Distinct(l) => Distinct(Behind(l, n))
  BY SublistKeeps DEF Behind

-----------------------------------------------------------------------------
(* Entries and files *)

\* KV bytes k are those of prompt p under model m, while writers of one name do not
\* overlap.
Sound(k, p, m) == Overlap \/ k = [of |-> p, model |-> m]
EntryOk(m) == {e \in Entry : e.kv = None \/ Sound(e.kv, e.toks, m)}
ContentOk == {c \in Content : Sound(c.kv, c.toks, c.model)}
Bytes == [Part -> Content \cup {None}]
FileOk == {f \in [name : Names, c : Bytes] :
              Overlap \/ \E c \in ContentOk : f.c = [i \in Part |-> c]}

\* A prompt has itself as common prefix.
LEMMA LcpSelf ==
    ASSUME NEW p \in Prompts
    PROVE  lcp(p, p) = Len(p)
  <1>1. p \in Seq(Nat)
    BY PromptAssumption
  <1>2. DOMAIN p = 1 .. Len(p) /\ Len(p) \in Nat
    BY <1>1
  <1>3. {n \in DOMAIN p : n \in DOMAIN p /\ SubSeq(p, 1, n) = SubSeq(p, 1, n)} = 1 .. Len(p)
    BY <1>2
  <1>4. Cardinality(1 .. Len(p)) = Len(p)
    <2>1. \A n \in Nat : Cardinality(1 .. n) = n
      BY FS_Interval
    <2>. QED  BY <1>2, <2>1
  <1>. QED  BY <1>3, <1>4 DEF lcp

\* A prompt that a list does not contain is not in it.
LEMMA NotContained ==
    ASSUME NEW l, NEW p \in Prompts, ~ Contained(p, l)
    PROVE  \A i \in DOMAIN l : l[i].toks # p
  BY LcpSelf DEF Contained

\* push_back of a prompt that the list does not hold.
LEMMA AppendDistinct ==
    ASSUME NEW T, NEW l \in Seq(T), NEW e \in T, Distinct(l),
           \A i \in DOMAIN l : l[i].toks # e.toks
    PROVE  Append(l, e) \in Seq(T) /\ Distinct(Append(l, e))
  <1>. DEFINE a == Append(l, e)
              n == Len(l) + 1
  <1>1. DOMAIN l = 1 .. Len(l) /\ Len(l) \in Nat
    OBVIOUS
  <1>2. a \in Seq(T) /\ Len(a) = n /\ a[n] = e /\ \A i \in 1 .. Len(l) : a[i] = l[i]
    BY AppendProperties
  <1>3. DOMAIN a = DOMAIN l \cup {n} /\ \A i \in DOMAIN l : a[i] = l[i]
    BY <1>1, <1>2
  <1>. HIDE DEF a, n
  <1>. QED  BY <1>2, <1>3 DEF Distinct, a

\* disk_read gives a sound entry of the model in the header.
LEMMA ReadOk ==
    ASSUME NEW f \in FileOk, Readable(f)
    PROVE  /\ disk_read(f) \in EntryOk(f.c[1].model)
           /\ disk_read(f).toks = f.c[3].toks /\ f.c[3].toks \in Prompts
  <1>1. {1, 2, 3} \subseteq Part
    BY DEF Part
  <1>2. f.c \in Bytes
    BY DEF FileOk
  <1>3. f.c[1] \in Content /\ f.c[3] \in Content /\ f.c[2] \in Content \cup {None}
    BY <1>1, <1>2 DEF Bytes, Readable
  <1>4. disk_read(f) \in Entry
    <2>1. f.c[2] # None => f.c[2].kv \in Kv
      BY <1>3 DEF Content
    <2>2. f.c[3].toks \in Prompts /\ f.c[1].drft \in BOOLEAN
      BY <1>3 DEF Content
    <2>3. Bad \in Kv
      BY DEF Kv
    <2>. QED  BY <2>1, <2>2, <2>3 DEF disk_read, Entry
  <1>5. Sound(disk_read(f).kv, f.c[3].toks, f.c[1].model)
    <2>1. CASE ~ Overlap
      <3>1. PICK c \in ContentOk : f.c = [i \in Part |-> c]
        BY <2>1 DEF FileOk
      <3>2. f.c[1] = c /\ f.c[2] = c /\ f.c[3] = c
        BY <1>1, <3>1
      <3>3. disk_read(f).kv = c.kv
        BY <3>2 DEF disk_read, Readable
      <3>. QED  BY <3>2, <3>3 DEF ContentOk
    <2>. QED  BY <2>1 DEF Sound
  <1>. QED  BY <1>3, <1>4, <1>5 DEF EntryOk, Content, disk_read

\* A hit changes stamps only.
LEMMA HitKeeps ==
    ASSUME NEW m, NEW l \in Seq(EntryOk(m)), NEW i \in DOMAIN l
    PROVE  /\ Hit(l, i) \in Seq(EntryOk(m)) /\ DOMAIN Hit(l, i) = DOMAIN l
           /\ \A j \in DOMAIN l : Hit(l, i)[j].toks = l[j].toks
           /\ Distinct(l) => Distinct(Hit(l, i))
  <1>1. IsFiniteSet(DOMAIN l) /\ DOMAIN l = 1 .. Len(l) /\ Len(l) \in Nat
    <2>1. DOMAIN l = 1 .. Len(l) /\ Len(l) \in Nat
      OBVIOUS
    <2>. QED  BY <2>1, FS_Interval
  <1>2. \A S \in SUBSET DOMAIN l : Cardinality(S) \in Nat
    BY <1>1, FS_Subset, FS_CardinalityType
  <1>3. DOMAIN Hit(l, i) = DOMAIN l
    BY DEF Hit
  <1>4. ASSUME NEW j \in DOMAIN l
        PROVE  \E h \in Nat : Hit(l, i)[j] = [l[j] EXCEPT !.hit = h]
    <2>. DEFINE older == {k \in DOMAIN l \ {i} : l[k].hit > 0 /\ (j = i \/ l[k].hit <= l[j].hit)}
                h == IF j = i THEN Cardinality(older) + 1
                     ELSE IF l[j].hit = 0 THEN 0 ELSE Cardinality(older)
    <2>1. Cardinality(older) \in Nat
      BY <1>2
    <2>2. h \in Nat
      BY <2>1
    <2>3. Hit(l, i)[j] = [l[j] EXCEPT !.hit = h]
      BY DEF Hit
    <2>. QED  BY <2>2, <2>3
  <1>5. \A j \in DOMAIN l : /\ Hit(l, i)[j] \in EntryOk(m)
                            /\ Hit(l, i)[j].toks = l[j].toks
    <2>. TAKE j \in DOMAIN l
    <2>1. l[j] \in EntryOk(m)
      OBVIOUS
    <2>2. PICK h \in Nat : Hit(l, i)[j] = [l[j] EXCEPT !.hit = h]
      BY <1>4
    <2>3. [l[j] EXCEPT !.hit = h] \in Entry
      BY <2>1 DEF EntryOk, Entry
    <2>4. [l[j] EXCEPT !.hit = h].toks = l[j].toks /\ [l[j] EXCEPT !.hit = h].kv = l[j].kv
      BY <2>1 DEF EntryOk, Entry
    <2>. QED  BY <2>1, <2>2, <2>3, <2>4 DEF EntryOk
  <1>6. Hit(l, i) \in Seq(EntryOk(m))
    <2>1. Hit(l, i) = [j \in 1 .. Len(l) |-> Hit(l, i)[j]]
      BY <1>1 DEF Hit
    <2>. QED  BY <1>1, <1>5, <2>1
  <1>. QED  BY <1>3, <1>5, <1>6 DEF Distinct

\* A blob that is moved out leaves its entry.
LEMMA ConsumedKeeps ==
    ASSUME NEW m, NEW l \in Seq(EntryOk(m)), NEW i \in DOMAIN l
    PROVE  /\ Consumed(l, i) \in Seq(EntryOk(m))
           /\ Distinct(l) => Distinct(Consumed(l, i))
  <1>. DEFINE r == [l EXCEPT ![i].kv = None]
  <1>0. DOMAIN l = 1 .. Len(l) /\ Len(l) \in Nat
    OBVIOUS
  <1>1. /\ DOMAIN r = DOMAIN l
        /\ \A j \in DOMAIN l : r[j] = IF j = i THEN [l[i] EXCEPT !.kv = None] ELSE l[j]
    OBVIOUS
  <1>2. \A j \in DOMAIN l : l[j] \in EntryOk(m)
    OBVIOUS
  <1>3. [l[i] EXCEPT !.kv = None] \in EntryOk(m) /\ [l[i] EXCEPT !.kv = None].toks = l[i].toks
    <2>1. l[i] \in Entry
      BY <1>2 DEF EntryOk
    <2>. QED  BY <2>1 DEF EntryOk, Entry
  <1>4. r = [j \in 1 .. Len(l) |-> r[j]]
    BY <1>0
  <1>. HIDE DEF r
  <1>5. r \in Seq(EntryOk(m))
    <2>1. \A j \in 1 .. Len(l) : r[j] \in EntryOk(m)
      BY <1>0, <1>1, <1>2, <1>3
    <2>. QED  BY <1>0, <1>4, <2>1
  <1>6. Distinct(l) => Distinct(r)
    BY <1>1, <1>3 DEF Distinct
  <1>. QED  BY <1>5, <1>6 DEF Consumed, r

-----------------------------------------------------------------------------
(* The inductive invariant *)

Writer == [name : Names, to : {"tmp", "path", "nowhere"}, pos : 0 .. 4, c : ContentOk]

\* The files and who writes them: the path.tmp a writer has opened is there.
\* Unless writers of one name overlap, it is the writer's own, with the parts it
\* has written and nothing else.
Mirror(d, t, w) ==
    /\ d \in Seq(FileOk)
    /\ t \in [Names -> Bytes \cup {None}]
    /\ w \in [1 .. MaxWriters -> Writer \cup {None}]
    /\ \A i \in 1 .. MaxWriters :
          w[i] # None /\ w[i].to = "tmp" /\ w[i].pos >= 1 => t[w[i].name] \in Bytes
    /\ \A i \in 1 .. MaxWriters : w[i] # None /\ ~ Overlap =>
          /\ w[i].to = "tmp"
          /\ w[i].pos >= 1 =>
                t[w[i].name] = [p \in Part |-> IF p < w[i].pos THEN w[i].c ELSE None]
          /\ \A j \in 1 .. MaxWriters : w[j] # None /\ w[j].name = w[i].name => j = i

\* A list of sound entries of model m, no prompt twice.
List(l, m) == l \in Seq(EntryOk(m)) /\ Distinct(l)
SlotOk(s, m) ==
    /\ s.toks \in Prompts \cup {<<>>}
    /\ s.toks # <<>> => s.kv \in Kv /\ Sound(s.kv, s.toks, m)

CacheInv ==
    /\ model \in Models /\ draft \in BOOLEAN /\ limit \in Nat
    /\ mpc \in {"idle", "load", "run"} /\ (mpc # "idle" => want \in Prompts)
    /\ List(states, model) /\ SlotOk(slot, model)
    /\ mpc # "load" => Total(states) <= limit
    /\ Mirror(disk, tmp, writers)

\* Removed files: the writers go on as they were, or to no name at all.
LEMMA UnlinkKeeps ==
    ASSUME NEW d, NEW t, NEW w, Mirror(d, t, w), NEW e \in Seq(FileOk), NEW N
    PROVE  /\ Mirror(e, t, Unlink(w, N))
           /\ \A i \in 1 .. MaxWriters : /\ w[i] = None => Unlink(w, N)[i] = None
                                         /\ w[i] # None => Unlink(w, N)[i].name = w[i].name
  <1>. DEFINE u == Unlink(w, N)
  <1>1. DOMAIN w = 1 .. MaxWriters
    BY DEF Mirror
  <1>2. \A i \in 1 .. MaxWriters :
            u[i] = IF w[i] # None /\ w[i].name \in N /\ w[i].to = "path"
                   THEN [w[i] EXCEPT !.to = "nowhere"] ELSE w[i]
    BY <1>1 DEF Unlink
  <1>3. u = [i \in 1 .. MaxWriters |-> u[i]]
    BY <1>1 DEF Unlink
  <1>. HIDE DEF u
  <1>4. \A i \in 1 .. MaxWriters : /\ u[i] \in Writer \cup {None}
                                   /\ w[i] # None => u[i].name = w[i].name
                                   /\ w[i] = None => u[i] = None
                                   /\ w[i] # None /\ u[i].to = "tmp" => u[i] = w[i]
    <2>. TAKE i \in 1 .. MaxWriters
    <2>1. w[i] \in Writer \cup {None}
      BY DEF Mirror
    <2>. QED  BY <1>2, <2>1 DEF Writer
  <1>5. ~ Overlap => \A i \in 1 .. MaxWriters : u[i] = w[i]
    BY <1>2 DEF Mirror
  <1>6. \A i \in 1 .. MaxWriters :
            u[i] # None /\ u[i].to = "tmp" /\ u[i].pos >= 1 => t[u[i].name] \in Bytes
    BY <1>4 DEF Mirror
  <1>. QED  BY <1>3, <1>4, <1>5, <1>6 DEF Mirror, u

\* disk_spill: the trim, and a writer that nobody shares a name with.
LEMMA SpillKeeps ==
    ASSUME NEW p \in Prompts, NEW k \in Kv, NEW dr \in BOOLEAN, model \in Models,
           Sound(k, p, model), Mirror(disk, tmp, writers), disk_spill(p, k, dr)
    PROVE  Mirror(disk', tmp', writers')
  <1>. DEFINE n == disk_name(p, model)
              id == CHOOSE i \in DOMAIN writers : writers[i] = None
              N == NamesOf(disk) \ NamesOf(disk')
              u == Unlink(writers, N)
              new == [name |-> n, to |-> "tmp", pos |-> 0,
                      c |-> [toks |-> p, kv |-> k, model |-> model, drft |-> dr]]
  <1>1. /\ \E i \in DOMAIN writers : writers[i] = None
        /\ Overlap \/ \A i \in DOMAIN writers : writers[i] # None => writers[i].name # n
        /\ disk' = disk_trim(disk, Len(p)) /\ tmp' = tmp
        /\ writers' = [u EXCEPT ![id] = new]
    BY DEF disk_spill
  <1>2. DOMAIN writers = 1 .. MaxWriters /\ disk \in Seq(FileOk)
    BY DEF Mirror
  <1>3. id \in 1 .. MaxWriters /\ writers[id] = None
    BY <1>1, <1>2
  <1>4. disk' \in Seq(FileOk)
    <2>1. \A m : Behind(disk, m) \in Seq(FileOk)
      BY <1>2, BehindIs
    <2>. QED  BY <1>1, <1>2, <2>1 DEF disk_trim
  <1>. HIDE DEF id, N
  <1>5. /\ Mirror(disk', tmp, u)
        /\ \A i \in 1 .. MaxWriters : writers[i] = None => u[i] = None
        /\ \A i \in 1 .. MaxWriters : writers[i] # None => u[i].name = writers[i].name
    BY <1>4, UnlinkKeeps
  <1>6. new \in Writer
    <2>1. n \in Names
      BY DEF Names
    <2>2. new.c \in ContentOk
      BY DEF ContentOk, Content
    <2>3. 0 \in 0 .. 4
      OBVIOUS
    <2>. QED  BY <2>1, <2>2, <2>3 DEF Writer
  <1>7. new.name = n /\ new.to = "tmp" /\ new.pos = 0
    OBVIOUS
  <1>. HIDE DEF n, u, new
  <1>8. \A i \in 1 .. MaxWriters : writers'[i] = IF i = id THEN new ELSE u[i]
    BY <1>1, <1>5 DEF Mirror
  <1>9. writers' \in [1 .. MaxWriters -> Writer \cup {None}]
    BY <1>1, <1>5, <1>6 DEF Mirror
  <1>10. \A i \in 1 .. MaxWriters : i # id /\ u[i] # None /\ ~ Overlap => u[i].name # n
    BY <1>1, <1>2, <1>5
  <1>11. ASSUME NEW i \in 1 .. MaxWriters, writers'[i] # None, ~ Overlap
         PROVE  /\ writers'[i].to = "tmp"
                /\ writers'[i].pos >= 1 => tmp[writers'[i].name]
                      = [q \in Part |-> IF q < writers'[i].pos THEN writers'[i].c ELSE None]
                /\ \A j \in 1 .. MaxWriters :
                      writers'[j] # None /\ writers'[j].name = writers'[i].name => j = i
    <2>1. CASE i = id
      BY <1>7, <1>8, <1>10, <1>11, <2>1
    <2>2. CASE i # id
      BY <1>5, <1>7, <1>8, <1>10, <1>11, <2>2 DEF Mirror
    <2>. QED  BY <2>1, <2>2
  <1>12. \A i \in 1 .. MaxWriters :
             writers'[i] # None /\ writers'[i].to = "tmp" /\ writers'[i].pos >= 1
                 => tmp[writers'[i].name] \in Bytes
    BY <1>5, <1>7, <1>8 DEF Mirror
  <1>. QED  BY <1>1, <1>5, <1>9, <1>11, <1>12 DEF Mirror

\* A step of writer w that makes its record r and leaves path.tmp of its name as b.
LEMMA WriterMoves ==
    ASSUME NEW d, NEW t, NEW v, Mirror(d, t, v), NEW w \in 1 .. MaxWriters, v[w] # None,
           NEW r \in Writer, r.name = v[w].name, NEW b \in Bytes,
           ~ Overlap => r.to = "tmp"
                        /\ b = [p \in Part |-> IF p < r.pos THEN r.c ELSE None]
    PROVE  Mirror(d, [t EXCEPT ![r.name] = b], [v EXCEPT ![w] = r])
  <1>. DEFINE t2 == [t EXCEPT ![r.name] = b]
              v2 == [v EXCEPT ![w] = r]
  <1>1. /\ t2 \in [Names -> Bytes \cup {None}] /\ t2[r.name] = b
        /\ \A n \in Names : n # r.name => t2[n] = t[n]
    BY DEF Mirror, Writer
  <1>2. /\ v2 \in [1 .. MaxWriters -> Writer \cup {None}] /\ v2[w] = r
        /\ \A i \in 1 .. MaxWriters : i # w => v2[i] = v[i]
    BY DEF Mirror
  <1>3. \A i \in 1 .. MaxWriters : v[i] # None => v[i].name \in Names
    BY DEF Mirror, Writer
  <1>. HIDE DEF t2, v2
  <1>4. \A i \in 1 .. MaxWriters :
            v2[i] # None /\ v2[i].to = "tmp" /\ v2[i].pos >= 1 => t2[v2[i].name] \in Bytes
    <2>. TAKE i \in 1 .. MaxWriters
    <2>1. CASE i = w
      BY <1>1, <1>2, <2>1
    <2>2. CASE i # w
      BY <1>1, <1>2, <1>3, <2>2 DEF Mirror
    <2>. QED  BY <2>1, <2>2
  <1>5. ASSUME NEW i \in 1 .. MaxWriters, v2[i] # None, ~ Overlap
        PROVE  /\ v2[i].to = "tmp"
               /\ v2[i].pos >= 1 =>
                    t2[v2[i].name] = [p \in Part |-> IF p < v2[i].pos THEN v2[i].c ELSE None]
               /\ \A j \in 1 .. MaxWriters : v2[j] # None /\ v2[j].name = v2[i].name => j = i
    <2>1. \A j \in 1 .. MaxWriters : v2[j] # None => v[j] # None /\ v2[j].name = v[j].name
      BY <1>2
    <2>2. \A j \in 1 .. MaxWriters : v2[j] # None /\ v2[j].name = v2[i].name => j = i
      <3>1. v[i] # None /\ v2[i].name = v[i].name
        BY <1>5, <2>1
      <3>2. \A j \in 1 .. MaxWriters : v[j] # None /\ v[j].name = v[i].name => j = i
        BY <1>5, <3>1 DEF Mirror
      <3>. QED  BY <2>1, <3>1, <3>2
    <2>3. CASE i = w
      BY <1>1, <1>2, <1>5, <2>2, <2>3
    <2>4. CASE i # w
      <3>1. v2[i] = v[i] /\ v[i].name \in Names
        BY <1>2, <1>3, <1>5, <2>4
      <3>2. v[i].name # r.name
        BY <1>2, <1>5, <2>4, <3>1 DEF Mirror
      <3>3. t2[v[i].name] = t[v[i].name]
        BY <1>1, <3>1, <3>2
      <3>. QED  BY <1>5, <2>2, <3>1, <3>3 DEF Mirror
    <2>. QED  BY <2>3, <2>4
  <1>. QED  BY <1>1, <1>2, <1>4, <1>5 DEF Mirror, t2, v2

\* Other files under the same writers.
LEMMA OtherFiles ==
    ASSUME NEW d, NEW t, NEW v, Mirror(d, t, v), NEW e \in Seq(FileOk)
    PROVE  Mirror(e, t, v)
  BY DEF Mirror

\* The process is gone, and the writers with it.
LEMMA LostKeeps ==
    ASSUME Mirror(disk, tmp, writers), WritersLost, disk' = disk
    PROVE  Mirror(disk', tmp', writers')
  <1>1. writers' = [i \in 1 .. MaxWriters |-> None] /\ tmp' = [n \in Names |-> None]
    BY DEF WritersLost, Mirror
  <1>. QED  BY <1>1 DEF Mirror

\* fopen.
LEMMA OpenKeeps ==
    ASSUME Mirror(disk, tmp, writers), NEW w \in 1 .. MaxWriters, OpenTmp(w)
    PROVE  Mirror(disk', tmp', writers')
  <1>. DEFINE r == [writers[w] EXCEPT !.pos = @ + 1]
  <1>1. /\ writers[w] # None /\ writers[w].pos = 0 /\ disk' = disk
        /\ tmp' = [tmp EXCEPT ![writers[w].name] = Blank]
        /\ writers' = [writers EXCEPT ![w].pos = @ + 1]
    BY DEF OpenTmp, Writing, Advance
  <1>2. writers[w] \in Writer
    BY <1>1 DEF Mirror
  <1>3. r \in Writer /\ r.name = writers[w].name /\ r.pos = 1 /\ r.to = writers[w].to
    BY <1>1, <1>2 DEF Writer
  <1>4. writers' = [writers EXCEPT ![w] = r]
    BY <1>1
  <1>. HIDE DEF r
  <1>5. Blank \in Bytes /\ Blank = [p \in Part |-> IF p < r.pos THEN r.c ELSE None]
    BY <1>3 DEF Blank, Bytes, Part
  <1>6. ~ Overlap => r.to = "tmp"
    BY <1>1, <1>3 DEF Mirror
  <1>7. Mirror(disk, [tmp EXCEPT ![r.name] = Blank], [writers EXCEPT ![w] = r])
    BY <1>1, <1>3, <1>5, <1>6, WriterMoves
  <1>. QED  BY <1>1, <1>3, <1>4, <1>7

\* fwrite of one part.
LEMMA WriteKeeps ==
    ASSUME Mirror(disk, tmp, writers), NEW w \in 1 .. MaxWriters, WritePart(w)
    PROVE  Mirror(disk', tmp', writers')
  <1>. DEFINE n == writers[w].name
              c == writers[w].c
              r == [writers[w] EXCEPT !.pos = @ + 1]
  <1>1. PICK i \in Part :
            /\ writers[w] # None /\ writers[w].pos = i
            /\ tmp' = IF writers[w].to = "tmp" THEN [tmp EXCEPT ![n][i] = c] ELSE tmp
            /\ disk' = [k \in DOMAIN disk |->
                          IF disk[k].name = n /\ writers[w].to = "path"
                          THEN [disk[k] EXCEPT !.c[i] = c] ELSE disk[k]]
            /\ writers' = [writers EXCEPT ![w].pos = @ + 1]
    BY DEF WritePart, Writing, Advance
  <1>2. writers[w] \in Writer
    BY <1>1 DEF Mirror
  <1>3. /\ n \in Names /\ c \in Content
        /\ r \in Writer /\ r.name = n /\ r.pos = i + 1 /\ r.to = writers[w].to /\ r.c = c
    BY <1>1, <1>2 DEF Writer, Part, ContentOk
  <1>4. writers' = [writers EXCEPT ![w] = r]
    BY <1>1
  <1>. HIDE DEF r
  <1>5. disk' \in Seq(FileOk)
    <2>1. /\ disk \in Seq(FileOk) /\ DOMAIN disk = 1 .. Len(disk) /\ Len(disk) \in Nat
          /\ \A k \in DOMAIN disk : disk[k] \in FileOk
      BY DEF Mirror
    <2>2. ASSUME NEW k \in DOMAIN disk, writers[w].to = "path"
          PROVE  [disk[k] EXCEPT !.c[i] = c] \in FileOk
      <3>1. Overlap
        BY <1>1, <2>2 DEF Mirror
      <3>2. disk[k] \in [name : Names, c : Bytes]
        BY <2>1 DEF FileOk
      <3>3. [disk[k] EXCEPT !.c[i] = c] \in [name : Names, c : Bytes]
        BY <1>1, <1>3, <3>2 DEF Bytes
      <3>. QED  BY <3>1, <3>3 DEF FileOk
    <2>3. \A k \in DOMAIN disk : disk'[k] \in FileOk
      BY <1>1, <2>1, <2>2
    <2>4. disk' = [k \in 1 .. Len(disk) |-> disk'[k]]
      BY <1>1, <2>1
    <2>. QED  BY <2>1, <2>3, <2>4
  <1>6. CASE writers[w].to = "tmp"
    <2>. DEFINE b == [tmp[n] EXCEPT ![i] = c]
    <2>1. tmp[n] \in Bytes
      BY <1>1, <1>6 DEF Mirror, Part
    <2>2. b \in Bytes
      BY <1>3, <2>1 DEF Bytes
    <2>3. ~ Overlap => b = [p \in Part |-> IF p < r.pos THEN r.c ELSE None]
      <3>. SUFFICES ASSUME ~ Overlap PROVE b = [p \in Part |-> IF p < r.pos THEN r.c ELSE None]
        OBVIOUS
      <3>1. tmp[n] = [p \in Part |-> IF p < i THEN c ELSE None]
        BY <1>1 DEF Mirror, Part
      <3>2. \A p \in Part : b[p] = IF p < i + 1 THEN c ELSE None
        BY <3>1 DEF Part
      <3>3. b = [p \in Part |-> b[p]]
        BY <2>2 DEF Bytes
      <3>. HIDE DEF b
      <3>. QED  BY <1>3, <3>2, <3>3
    <2>4. tmp' = [tmp EXCEPT ![n] = b]
      BY <1>1, <1>6
    <2>. HIDE DEF b
    <2>5. Mirror(disk, [tmp EXCEPT ![r.name] = b], [writers EXCEPT ![w] = r])
      BY <1>1, <1>3, <1>6, <2>2, <2>3, WriterMoves
    <2>6. Mirror(disk, tmp', writers')
      BY <1>3, <1>4, <2>4, <2>5
    <2>. QED  BY <1>5, <2>6, OtherFiles
  <1>7. CASE writers[w].to # "tmp"
    <2>1. Overlap /\ tmp' = tmp
      BY <1>1, <1>7 DEF Mirror
    <2>2. Mirror(disk, tmp, [writers EXCEPT ![w] = r])
      BY <1>3, <1>7, <2>1 DEF Mirror
    <2>. QED  BY <1>4, <1>5, <2>1, <2>2, OtherFiles
  <1>. QED  BY <1>6, <1>7

\* path.tmp of name n is gone and writer w is through; the other writers of the
\* name, if there are any, go on elsewhere.
LEMMA GoneKeeps ==
    ASSUME NEW d, NEW t, NEW v, Mirror(d, t, v), NEW w \in 1 .. MaxWriters, v[w] # None,
           NEW u \in [1 .. MaxWriters -> Writer \cup {None}],
           \A i \in 1 .. MaxWriters :
              \/ u[i] = v[i] /\ (v[i] = None \/ v[i].name # v[w].name \/ v[i].pos = 0)
              \/ /\ v[i] # None /\ v[i].name = v[w].name
                 /\ u[i].to # "tmp" \/ (u[i] = v[i] /\ t[v[w].name] = None)
    PROVE  Mirror(d, [t EXCEPT ![v[w].name] = None], [u EXCEPT ![w] = None])
  <1>. DEFINE n == v[w].name
              t2 == [t EXCEPT ![n] = None]
              u2 == [u EXCEPT ![w] = None]
  <1>0. n \in Names
    BY DEF Mirror, Writer
  <1>1. /\ t2 \in [Names -> Bytes \cup {None}]
        /\ \A m \in Names : m # n => t2[m] = t[m]
        /\ t2[n] = None
    BY <1>0 DEF Mirror
  <1>2. /\ u2 \in [1 .. MaxWriters -> Writer \cup {None}] /\ u2[w] = None
        /\ \A i \in 1 .. MaxWriters : i # w => u2[i] = u[i]
    OBVIOUS
  <1>3. \A i \in 1 .. MaxWriters : v[i] # None => v[i] \in Writer /\ v[i].name \in Names
    BY DEF Mirror, Writer
  <1>. HIDE DEF t2, u2
  <1>4. ASSUME NEW i \in 1 .. MaxWriters, u2[i] # None, u2[i].to = "tmp", u2[i].pos >= 1
        PROVE  t2[u2[i].name] \in Bytes
    <2>1. i # w /\ u2[i] = u[i]
      BY <1>2, <1>4
    <2>2. u[i] = v[i]
      BY <1>4, <2>1
    <2>3. t[v[i].name] \in Bytes
      BY <1>4, <2>1, <2>2 DEF Mirror
    <2>4. v[i].pos # 0
      BY <1>4, <2>1, <2>2
    <2>5. v[i].name # n \/ t[n] = None
      BY <1>4, <2>1, <2>2, <2>4
    <2>. QED  BY <1>1, <1>3, <1>4, <2>1, <2>2, <2>3, <2>5
  <1>5. ASSUME NEW i \in 1 .. MaxWriters, u2[i] # None, ~ Overlap
        PROVE  /\ u2[i].to = "tmp"
               /\ u2[i].pos >= 1 =>
                    t2[u2[i].name] = [p \in Part |-> IF p < u2[i].pos THEN u2[i].c ELSE None]
               /\ \A j \in 1 .. MaxWriters : u2[j] # None /\ u2[j].name = u2[i].name => j = i
    <2>1. \A j \in 1 .. MaxWriters : v[j] # None /\ v[j].name = n => j = w
      BY <1>5 DEF Mirror
    <2>2. \A j \in 1 .. MaxWriters : j # w => u2[j] = v[j]
      BY <1>2, <2>1
    <2>3. i # w /\ u2[i] = v[i] /\ v[i] # None /\ v[i].name \in Names /\ v[i].name # n
      BY <1>2, <1>3, <1>5, <2>1, <2>2
    <2>4. /\ v[i].to = "tmp"
          /\ v[i].pos >= 1 => t[v[i].name] = [p \in Part |-> IF p < v[i].pos THEN v[i].c ELSE None]
          /\ \A j \in 1 .. MaxWriters : v[j] # None /\ v[j].name = v[i].name => j = i
      BY <1>5, <2>3 DEF Mirror
    <2>5. t2[v[i].name] = t[v[i].name]
      BY <1>1, <2>3
    <2>6. \A j \in 1 .. MaxWriters : u2[j] # None /\ u2[j].name = v[i].name => j = i
      BY <1>2, <2>2, <2>4
    <2>. QED  BY <2>3, <2>4, <2>5, <2>6
  <1>. QED  BY <1>1, <1>2, <1>4, <1>5 DEF Mirror, t2, u2

\* Where the other writers of a name go.
LEMMA MovedIs ==
    ASSUME Mirror(disk, tmp, writers), NEW n, NEW to \in {"path", "nowhere"}
    PROVE  /\ Moved(n, to) \in [1 .. MaxWriters -> Writer \cup {None}]
           /\ \A i \in 1 .. MaxWriters :
                 \/ /\ Moved(n, to)[i] = writers[i]
                    /\ writers[i] = None \/ writers[i].name # n \/ writers[i].pos = 0
                 \/ /\ writers[i] # None /\ writers[i].name = n
                    /\ Moved(n, to)[i].to # "tmp"
  <1>. DEFINE u == Moved(n, to)
  <1>1. /\ DOMAIN writers = 1 .. MaxWriters
        /\ \A i \in 1 .. MaxWriters : writers[i] \in Writer \cup {None}
    BY DEF Mirror
  <1>2. u = [i \in 1 .. MaxWriters |-> u[i]]
    BY <1>1 DEF Moved
  <1>3. \A i \in 1 .. MaxWriters :
            IF writers[i] = None \/ writers[i].name # n \/ writers[i].pos = 0 THEN u[i] = writers[i]
            ELSE u[i] = [writers[i] EXCEPT !.to = IF @ = "tmp" THEN to
                                                  ELSE IF to = "path" THEN "nowhere" ELSE @]
    BY <1>1 DEF Moved
  <1>. HIDE DEF u
  <1>4. \A i \in 1 .. MaxWriters :
            /\ u[i] \in Writer \cup {None}
            /\ ~ (writers[i] = None \/ writers[i].name # n \/ writers[i].pos = 0) => u[i].to # "tmp"
    <2>. TAKE i \in 1 .. MaxWriters
    <2>1. CASE writers[i] = None \/ writers[i].name # n \/ writers[i].pos = 0
      BY <1>1, <1>3, <2>1
    <2>2. CASE ~ (writers[i] = None \/ writers[i].name # n \/ writers[i].pos = 0)
      <3>1. writers[i] \in Writer
        BY <1>1, <2>2
      <3>2. \E x \in {"path", "nowhere"} : u[i] = [writers[i] EXCEPT !.to = x]
        <4>1. writers[i].to \in {"tmp", "path", "nowhere"}
          BY <3>1 DEF Writer
        <4>. QED  BY <1>3, <2>2, <4>1
      <3>. QED  BY <3>1, <3>2 DEF Writer
    <2>. QED  BY <2>1, <2>2
  <1>. QED  BY <1>2, <1>3, <1>4 DEF u

\* A short write.
LEMMA FailKeeps ==
    ASSUME Mirror(disk, tmp, writers), NEW w \in 1 .. MaxWriters, WriteFails(w)
    PROVE  Mirror(disk', tmp', writers')
  <1>. DEFINE n == writers[w].name
              u == Moved(n, "nowhere")
  <1>1. /\ writers[w] # None /\ disk' = disk /\ tmp' = [tmp EXCEPT ![n] = None]
        /\ writers' = [u EXCEPT ![w] = None]
    BY DEF WriteFails, Writing
  <1>2. /\ u \in [1 .. MaxWriters -> Writer \cup {None}]
        /\ \A i \in 1 .. MaxWriters :
              \/ /\ u[i] = writers[i]
                 /\ (writers[i] = None \/ writers[i].name # n \/ writers[i].pos = 0)
              \/ writers[i] # None /\ writers[i].name = n /\ u[i].to # "tmp"
    BY MovedIs
  <1>. HIDE DEF u
  <1>3. Mirror(disk, [tmp EXCEPT ![n] = None], [u EXCEPT ![w] = None])
    BY <1>1, <1>2, GoneKeeps
  <1>. QED  BY <1>1, <1>3

\* rename.
LEMMA PublishKeeps ==
    ASSUME Mirror(disk, tmp, writers), NEW w \in 1 .. MaxWriters, Publish(w)
    PROVE  Mirror(disk', tmp', writers')
  <1>. DEFINE n == writers[w].name
              D == {k \in DOMAIN disk : disk[k].name # n}
              f == [name |-> n, c |-> tmp[n]]
              u == IF tmp[n] = None THEN writers ELSE Moved(n, "path")
  <1>1. /\ writers[w] # None /\ writers[w].pos = 4
        /\ disk' = IF tmp[n] = None THEN disk ELSE Append(Sublist(disk, D), f)
        /\ tmp' = [tmp EXCEPT ![n] = None]
        /\ writers' = [u EXCEPT ![w] = None]
    BY DEF Publish, Rename, Writing
  <1>2. disk \in Seq(FileOk) /\ writers[w] \in Writer /\ n \in Names
    BY <1>1 DEF Mirror, Writer
  <1>3. disk' \in Seq(FileOk)
    <2>1. CASE tmp[n] # None
      <3>1. f \in FileOk
        <4>1. tmp[n] \in Bytes
          BY <1>2, <2>1 DEF Mirror
        <4>2. f \in [name : Names, c : Bytes] /\ f.c = tmp[n]
          BY <1>2, <4>1
        <4>3. ASSUME ~ Overlap
              PROVE  tmp[n] = [p \in Part |-> writers[w].c] /\ writers[w].c \in ContentOk
          <5>1. tmp[n] = [p \in Part |-> IF p < 4 THEN writers[w].c ELSE None]
            BY <1>1, <4>3 DEF Mirror
          <5>. QED  BY <1>2, <5>1 DEF Part, Writer
        <4>. QED  BY <4>2, <4>3 DEF FileOk
      <3>2. Sublist(disk, D) \in Seq(FileOk)
        BY <1>2, SublistKeeps
      <3>. QED  BY <1>1, <2>1, <3>1, <3>2
    <2>. QED  BY <1>1, <1>2, <2>1
  <1>4. /\ u \in [1 .. MaxWriters -> Writer \cup {None}]
        /\ \A i \in 1 .. MaxWriters :
              \/ /\ u[i] = writers[i]
                 /\ (writers[i] = None \/ writers[i].name # n \/ writers[i].pos = 0)
              \/ /\ writers[i] # None /\ writers[i].name = n
                 /\ u[i].to # "tmp" \/ (u[i] = writers[i] /\ tmp[n] = None)
    <2>1. CASE tmp[n] = None
      BY <2>1 DEF Mirror
    <2>2. CASE tmp[n] # None
      BY <2>2, MovedIs
    <2>. QED  BY <2>1, <2>2
  <1>. HIDE DEF u
  <1>5. Mirror(disk, [tmp EXCEPT ![n] = None], [u EXCEPT ![w] = None])
    BY <1>1, <1>4, GoneKeeps
  <1>. QED  BY <1>1, <1>3, <1>5, OtherFiles

-----------------------------------------------------------------------------
(* The main thread *)

\* What alloc makes room in: part of the list, without the prompt, and with room
\* for it.
LEMMA ClearedIs ==
    ASSUME CacheInv, NEW p \in Prompts, ~ Contained(p, states), Len(p) <= limit
    PROVE  /\ List(Cleared(p), model)
           /\ \A i \in DOMAIN Cleared(p) : Cleared(p)[i].toks # p
           /\ Total(Cleared(p)) \in Nat /\ Total(Cleared(p)) + Len(p) <= limit
           /\ Len(p) \in Nat
  <1>. DEFINE T == EntryOk(model)
              D == {i \in DOMAIN states : lcp(states[i].toks, p) # Len(states[i].toks)}
              s == Sublist(states, D)
              r == Cleared(p)
  <1>1. states \in Seq(T) /\ Distinct(states) /\ limit \in Nat
    BY DEF CacheInv, List
  <1>2. T \in SUBSET Entry
    BY DEF EntryOk
  <1>3. Len(p) \in Nat
    <2>1. p \in Seq(Nat)
      BY PromptAssumption
    <2>. QED  BY <2>1
  <1>4. /\ s \in Seq(T) /\ Distinct(s)
        /\ \A n \in DOMAIN s : \E i \in DOMAIN states : s[n] = states[i]
    <2>1. D \in SUBSET DOMAIN states
      OBVIOUS
    <2>. HIDE DEF D, T
    <2>. QED  BY <1>1, <2>1, SublistKeeps
  <1>5. r = MakeRoom(s, Len(p), limit)
    BY DEF Cleared
  <1>. HIDE DEF T, s, r
  <1>6. /\ r \in Seq(T) /\ Distinct(r)
        /\ \A n \in DOMAIN r : \E i \in DOMAIN s : r[n] = s[i]
        /\ Total(r) + Len(p) <= limit \/ r = <<>>
    BY <1>1, <1>2, <1>3, <1>4, <1>5, MakeRoomIs
  <1>7. Total(r) \in Nat /\ Total(<<>>) = 0
    BY <1>2, <1>6, EntrySized, TotalEmpty
  <1>8. Total(r) + Len(p) <= limit
    BY <1>1, <1>3, <1>6, <1>7
  <1>9. \A i \in DOMAIN states : states[i].toks # p
    BY NotContained
  <1>. QED  BY <1>3, <1>4, <1>6, <1>7, <1>8, <1>9 DEF r, List, T

\* prompt_save: the list stays sound, within the limit and without duplicates,
\* whether the allocation succeeds or not.
LEMMA SaveKeeps ==
    ASSUME CacheInv, mpc = "idle", prompt_save
    PROVE  /\ List(states', model) /\ limit' \in Nat /\ Total(states') <= limit'
           /\ Mirror(disk', tmp', writers')
  <1>. DEFINE p == slot.toks
              new == [toks |-> p, kv |-> slot.kv, drft |-> draft, hit |-> 0]
              r == Cleared(p)
  <1>1. CASE UNCHANGED <<states, limit, files>>
    BY <1>1 DEF CacheInv, files
  <1>2. CASE ~ (p = <<>> \/ Contained(p, states) \/ Len(p) > limit)
    <2>1. p \in Prompts /\ slot.kv \in Kv /\ Sound(slot.kv, p, model)
      BY <1>2 DEF CacheInv, SlotOk
    <2>2. limit \in Nat /\ model \in Models /\ draft \in BOOLEAN /\ Mirror(disk, tmp, writers)
      BY DEF CacheInv
    <2>3. Len(p) <= limit
      <3>1. p \in Seq(Nat)
        BY <2>1, PromptAssumption
      <3>2. Len(p) \in Nat
        BY <3>1
      <3>. QED  BY <1>2, <2>2, <3>2
    <2>4. /\ List(r, model) /\ \A i \in DOMAIN r : r[i].toks # p
          /\ Total(r) \in Nat /\ Total(r) + Len(p) <= limit /\ Len(p) \in Nat
      BY <1>2, <2>1, <2>3, ClearedIs
    <2>5. CASE /\ states' = alloc(p, slot.kv, draft)
               /\ disk_spill(p, slot.kv, draft) /\ limit' = limit
      <3>1. states' = Append(r, new)
        BY <2>5 DEF alloc
      <3>2. new \in EntryOk(model) /\ new.toks = p
        BY <2>1, <2>2 DEF EntryOk, Entry
      <3>3. StateSize(new) \in Nat /\ StateSize(new) <= Len(p)
        BY <2>4 DEF StateSize
      <3>4. r \in Seq(EntryOk(model)) /\ Distinct(r)
        BY <2>4 DEF List
      <3>. HIDE DEF r, new
      <3>5. List(Append(r, new), model)
        BY <2>4, <3>2, <3>4, AppendDistinct DEF List
      <3>6. Sized(r)
        <4>1. r \in Seq(Entry)
          <5>1. EntryOk(model) \subseteq Entry
            BY DEF EntryOk
          <5>. QED  BY <3>4, <5>1
        <4>. QED  BY <4>1, EntrySized
      <3>7. Total(Append(r, new)) = Total(r) + StateSize(new)
        BY <3>2, <3>3, <3>4, <3>6, TotalAppend
      <3>8. Total(states') <= limit'
        BY <2>2, <2>4, <2>5, <3>1, <3>3, <3>7
      <3>9. Mirror(disk', tmp', writers')
        BY <2>1, <2>2, <2>5, SpillKeeps
      <3>. QED  BY <2>2, <2>5, <3>1, <3>5, <3>8, <3>9
    <2>6. CASE limit' = LoweredLimit(r) /\ states' = update(r, limit') /\ UNCHANGED files
      <3>1. limit' \in Nat
        <4>1. \A x \in Nat : (2 * x) \div 5 \in Nat
          OBVIOUS
        <4>2. LoweredLimit(r) \in Nat
          BY <2>4, <4>1 DEF LoweredLimit
        <4>. QED  BY <2>6, <4>2
      <3>2. EntryOk(model) \in SUBSET Entry /\ r \in Seq(EntryOk(model)) /\ Distinct(r)
        BY <2>4 DEF List, EntryOk
      <3>. HIDE DEF r
      <3>3. /\ update(r, limit') \in Seq(EntryOk(model)) /\ Distinct(update(r, limit'))
            /\ Total(update(r, limit')) <= limit'
        BY <3>1, <3>2, UpdateIs
      <3>. QED  BY <2>2, <2>6, <3>1, <3>3 DEF List, files
    <2>. QED  BY <1>2, <2>5, <2>6 DEF prompt_save
  <1>. QED  BY <1>1, <1>2 DEF prompt_save

\* The file that disk_find_best names passes the gate.
LEMMA BestEligible ==
    ASSUME NEW new, disk_find_best(new).k # 0
    PROVE  /\ disk_find_best(new).k \in DOMAIN disk
           /\ Eligible(disk[disk_find_best(new).k], new)
  <1>. DEFINE n(k) == Len(disk[k].c[3].toks)
              l(k) == lcp(disk[k].c[3].toks, new)
              open == {k \in DOMAIN disk : Eligible(disk[k], new)}
              best == {k \in open : \A j \in open :
                 \/ l(k) * n(j) > l(j) * n(k)
                 \/ l(k) * n(j) = l(j) * n(k) /\ (l(k) > l(j) \/ (l(k) = l(j) /\ k >= j))}
              b == CHOOSE k \in best : TRUE
  <1>1. disk_find_best(new) = IF best = {} THEN [k |-> 0, l |-> 0, n |-> 1]
                              ELSE [k |-> b, l |-> l(b), n |-> n(b)]
    BY DEF disk_find_best
  <1>. HIDE DEF best
  <1>2. best # {} /\ disk_find_best(new).k = b
    BY <1>1
  <1>3. b \in best
    BY <1>2
  <1>4. b \in open
    BY <1>3 DEF best
  <1>. QED  BY <1>2, <1>4

\* The list that load works on.
LEMMA CandidatesOk ==
    ASSUME CacheInv
    PROVE  /\ List(Candidates, model)
           /\ DiskWins => disk_find_best(want).k \in DOMAIN disk
  <1>1. CASE ~ DiskWins
    BY <1>1 DEF Candidates, CacheInv
  <1>2. CASE DiskWins
    <2>. DEFINE k == disk_find_best(want).k
                e == disk_read(disk[k])
                n == StateSize(e)
                r == PopFront(states, n)
    <2>1. k \in DOMAIN disk /\ Eligible(disk[k], want)
      BY <1>2, BestEligible DEF DiskWins
    <2>2. Candidates = Append(r, e)
      BY <1>2 DEF Candidates
    <2>. HIDE DEF k, n
    <2>3. disk[k] \in FileOk
      BY <2>1 DEF CacheInv, Mirror
    <2>4. /\ Readable(disk[k]) /\ disk[k].c[1].model = model
          /\ ~ Contained(disk[k].c[3].toks, states)
      BY <2>1 DEF Eligible, Accepted
    <2>5. e \in EntryOk(model) /\ e.toks = disk[k].c[3].toks /\ e.toks \in Prompts
      BY <2>3, <2>4, ReadOk
    <2>6. \A i \in DOMAIN states : states[i].toks # e.toks
      BY <2>4, <2>5, NotContained
    <2>. HIDE DEF e
    <2>7. /\ r \in Seq(EntryOk(model)) /\ Distinct(r)
          /\ \A m \in DOMAIN r : \E i \in DOMAIN states : r[m] = states[i]
      <3>1. states \in Seq(EntryOk(model)) /\ Distinct(states)
        BY DEF CacheInv, List
      <3>2. \E m : r = Behind(states, m)
        BY DEF PopFront
      <3>. HIDE DEF r
      <3>. QED  BY <3>1, <3>2, BehindIs
    <2>. HIDE DEF r
    <2>8. List(Append(r, e), model)
      BY <2>5, <2>6, <2>7, AppendDistinct DEF List
    <2>. QED  BY <2>1, <2>2, <2>8 DEF k
  <1>. QED  BY <1>1, <1>2

\* What disk_load takes from a list has no prompt twice and is within the limit.
LEMMA LoadIs ==
    ASSUME NEW m, NEW l \in Seq(EntryOk(m)), NEW D \in SUBSET DOMAIN l, disk_load(l, D)
    PROVE  List(Sublist(l, D), m) /\ Total(Sublist(l, D)) <= RamLimit
  <1>. DEFINE T == EntryOk(m)
              s == Sublist(l, D)
              Older(k) == {j \in D : j < k}
  <1>1. /\ s \in Seq(T) /\ \E f \in [DOMAIN s -> D] : Picks(l, D, s, f)
    BY SublistIs
  <1>2. \A k \in D : /\ ~ Contained(l[k].toks, Sublist(l, Older(k)))
                     /\ Total(Sublist(l, Older(k))) + StateSize(l[k]) <= RamLimit
    BY DEF disk_load
  <1>3. DOMAIN l = 1 .. Len(l) /\ Len(l) \in Nat /\ \A k \in D : k \in Nat /\ l[k] \in T
    OBVIOUS
  <1>4. T \subseteq Entry /\ \A e \in T : e.toks \in Prompts
    BY DEF EntryOk, Entry
  <1>. HIDE DEF T, s
  <1>5. ASSUME NEW i \in D, NEW k \in D, i < k
        PROVE  l[i].toks # l[k].toks
    <2>. DEFINE o == Sublist(l, Older(k))
    <2>1. Older(k) \in SUBSET DOMAIN l /\ i \in Older(k)
      BY <1>5
    <2>2. \E g \in [DOMAIN o -> Older(k)] : Picks(l, Older(k), o, g)
      <3>. HIDE DEF Older
      <3>. QED  BY <2>1, SublistIs
    <2>3. ~ Contained(l[k].toks, o) /\ l[k].toks \in Prompts
      BY <1>2, <1>3, <1>4
    <2>. HIDE DEF o
    <2>4. \E n \in DOMAIN o : o[n] = l[i]
      BY <2>1, <2>2 DEF Picks
    <2>. QED  BY <2>3, <2>4, NotContained
  <1>6. Distinct(s)
    <2>1. PICK f \in [DOMAIN s -> D] : Picks(l, D, s, f)
      BY <1>1
    <2>. SUFFICES ASSUME NEW n \in DOMAIN s, NEW k \in DOMAIN s, s[n].toks = s[k].toks
                  PROVE  n = k
      BY DEF Distinct
    <2>2. s[n] = l[f[n]] /\ s[k] = l[f[k]] /\ f[n] \in D /\ f[k] \in D /\ (f[n] = f[k] => n = k)
      BY <2>1 DEF Picks
    <2>3. ~ (f[n] < f[k]) /\ ~ (f[k] < f[n])
      BY <1>5, <2>2
    <2>4. f[n] \in Nat /\ f[k] \in Nat
      BY <1>3, <2>2
    <2>5. f[n] = f[k]
      BY <2>3, <2>4
    <2>. QED  BY <2>2, <2>5
  <1>7. Total(s) <= RamLimit
    <2>1. CASE D = {}
      <3>1. s = <<>>
        BY <2>1, SublistEmpty DEF s
      <3>. QED  BY <3>1, TotalEmpty, PromptAssumption
    <2>2. CASE D # {}
      <3>1. D \in SUBSET (0 .. Len(l))
        BY <1>3
      <3>2. PICK k \in D : \A j \in D : j <= k
        BY <1>3, <2>2, <3>1, GreatestBelow
      <3>3. D \ {k} = Older(k)
        BY <1>3, <3>2
      <3>4. s = Append(Sublist(l, D \ {k}), l[k])
        BY <3>2, SublistLast DEF s
      <3>. DEFINE o == Sublist(l, Older(k))
      <3>5. s = Append(o, l[k]) /\ Total(o) + StateSize(l[k]) <= RamLimit
        BY <1>2, <3>3, <3>4
      <3>6. o \in Seq(Entry) /\ l[k] \in Entry /\ <<l[k]>> \in Seq(Entry)
        <4>1. Older(k) \in SUBSET DOMAIN l /\ l \in Seq(Entry)
          <5>1. EntryOk(m) \subseteq Entry
            BY DEF EntryOk
          <5>. QED  BY <5>1
        <4>2. o \in Seq(Entry)
          <5>. HIDE DEF Older
          <5>. QED  BY <4>1, SublistIs
        <4>. QED  BY <1>3, <1>4, <4>2
      <3>. HIDE DEF o
      <3>7. Sized(o) /\ StateSize(l[k]) \in Nat
        <4>1. Sized(<<l[k]>>)
          BY <3>6, EntrySized
        <4>2. 1 \in DOMAIN <<l[k]>> /\ <<l[k]>>[1] = l[k]
          OBVIOUS
        <4>. QED  BY <3>6, <4>1, <4>2, EntrySized DEF Sized
      <3>8. Total(Append(o, l[k])) = Total(o) + StateSize(l[k])
        BY <3>6, <3>7, TotalAppend
      <3>. QED  BY <3>5, <3>8
    <2>. QED  BY <2>1, <2>2
  <1>. QED  BY <1>1, <1>6, <1>7 DEF List, T, s

\* The files of model m give sound entries of model m.
LEMMA MirroredIs ==
    ASSUME NEW m, disk \in Seq(FileOk)
    PROVE  Mirrored(m) \in Seq(EntryOk(m))
  <1>. DEFINE b == Reverse(disk)
              D == {k \in DOMAIN disk : Readable(b[k]) /\ b[k].c[1].model = m}
              f == Sublist(b, D)
  <1>1. DOMAIN disk = 1 .. Len(disk) /\ Len(disk) \in Nat
    OBVIOUS
  <1>2. b \in Seq(FileOk) /\ DOMAIN b = DOMAIN disk
    <2>1. b = [i \in 1 .. Len(disk) |-> disk[(Len(disk) - i) + 1]]
      BY DEF Reverse
    <2>2. \A i \in 1 .. Len(disk) : (Len(disk) - i) + 1 \in 1 .. Len(disk)
      BY <1>1
    <2>3. \A i \in 1 .. Len(disk) : disk[(Len(disk) - i) + 1] \in FileOk
      BY <1>1, <2>2
    <2>. QED  BY <1>1, <2>1, <2>3
  <1>3. Mirrored(m) = [k \in DOMAIN f |-> disk_read(f[k])]
    BY DEF Mirrored
  <1>4. /\ D \in SUBSET DOMAIN b
        /\ \A k \in D : Readable(b[k]) /\ b[k].c[1].model = m /\ b[k] \in FileOk
    BY <1>2
  <1>. HIDE DEF b, D
  <1>5. f \in Seq(FileOk) /\ \A n \in DOMAIN f : \E k \in D : f[n] = b[k]
    BY <1>2, <1>4, SublistIs, SublistFrom
  <1>. HIDE DEF f
  <1>6. \A n \in DOMAIN f : disk_read(f[n]) \in EntryOk(m)
    BY <1>4, <1>5, ReadOk
  <1>7. DOMAIN f = 1 .. Len(f) /\ Len(f) \in Nat
    BY <1>5
  <1>. QED  BY <1>3, <1>6, <1>7

\* A new cache, at a start or after a sleep.
LEMMA NewCacheIs ==
    ASSUME NEW m, Mirror(disk, tmp, writers), NewCache(m)
    PROVE  /\ List(states', m) /\ SlotOk(slot', m) /\ limit' \in Nat
           /\ Total(states') <= limit' /\ mpc' = "idle" /\ disk' \in Seq(FileOk)
  <1>1. disk \in Seq(FileOk)
    BY DEF Mirror
  <1>2. PICK D \in SUBSET DOMAIN Mirrored(m) :
            disk_load(Mirrored(m), D) /\ states' = Sublist(Mirrored(m), D)
    BY DEF NewCache
  <1>3. List(states', m) /\ Total(states') <= RamLimit
    BY <1>1, <1>2, MirroredIs, LoadIs
  <1>4. limit' = RamLimit /\ RamLimit \in Nat /\ mpc' = "idle" /\ slot' = Empty
    BY PromptAssumption DEF NewCache
  <1>5. SlotOk(slot', m)
    BY <1>4 DEF SlotOk, Empty
  <1>6. disk' \in Seq(FileOk)
    <2>1. disk' = Sublist(disk, {k \in DOMAIN disk : Readable(disk[k])})
      BY DEF NewCache
    <2>. QED  BY <1>1, <2>1, SublistIs
  <1>. QED  BY <1>3, <1>4, <1>5, <1>6

\* The end of a load: the list is brought within its limit, the request runs.
LEMMA LoadedKeeps ==
    ASSUME CacheInv, mpc = "load", NEW l, List(l, model), NEW s, SlotOk(s, model),
           Loaded(l, s), Mirror(disk', tmp', writers')
    PROVE  CacheInv'
  <1>1. /\ states' = update(l, limit) /\ slot' = s /\ mpc' = "run"
        /\ model' = model /\ draft' = draft /\ want' = want /\ limit' = limit
    BY DEF Loaded, run
  <1>2. EntryOk(model) \in SUBSET Entry /\ l \in Seq(EntryOk(model)) /\ Distinct(l) /\ limit \in Nat
    BY DEF List, EntryOk, CacheInv
  <1>3. List(states', model) /\ Total(states') <= limit
    BY <1>1, <1>2, UpdateIs DEF List
  <1>. QED  BY <1>1, <1>3 DEF CacheInv

\* The file that was fetched becomes the newest.
LEMMA TouchKeeps ==
    ASSUME CacheInv, TouchDisk
    PROVE  Mirror(disk', tmp', writers')
  <1>. DEFINE k == disk_find_best(want).k
  <1>1. Mirror(disk, tmp, writers) /\ disk \in Seq(FileOk)
    BY DEF CacheInv, Mirror
  <1>2. DiskWins => k \in DOMAIN disk
    BY CandidatesOk
  <1>3. /\ disk' = IF DiskWins THEN Append(Without(disk, k), disk[k]) ELSE disk
        /\ tmp' = tmp /\ writers' = writers
    BY DEF TouchDisk
  <1>. HIDE DEF k
  <1>4. Without(disk, k) \in Seq(FileOk)
    BY <1>1, SublistIs DEF Without
  <1>5. disk' \in Seq(FileOk)
    BY <1>1, <1>2, <1>3, <1>4
  <1>. QED  BY <1>1, <1>3, <1>5, OtherFiles

\* The outcomes of a load.
LEMMA LoadKeeps ==
    ASSUME CacheInv, LoadNothing \/ LoadTooLarge \/ LoadDraftFails \/ LoadAborts \/ LoadOk
    PROVE  CacheInv'
  <1>. DEFINE l == Candidates
              i == Taken
              h == Hit(l, i)
  <1>1. /\ List(states, model) /\ SlotOk(slot, model) /\ Mirror(disk, tmp, writers)
        /\ List(l, model) /\ SlotOk(Empty, model)
    BY CandidatesOk DEF CacheInv, SlotOk, Empty
  <1>2. CASE LoadNothing
    <2>1. mpc = "load" /\ Loaded(states, slot) /\ UNCHANGED files
      BY <1>2 DEF LoadNothing, Loading
    <2>2. Mirror(disk', tmp', writers')
      BY <1>1, <2>1 DEF files
    <2>. QED  BY <1>1, <2>1, <2>2, LoadedKeeps
  <1>3. i \in DOMAIN l => /\ List(h, model) /\ DOMAIN h = DOMAIN l
                          /\ List(Consumed(h, i), model) /\ List(Without(h, i), model)
    <2>. SUFFICES ASSUME i \in DOMAIN l
                  PROVE  /\ List(h, model) /\ DOMAIN h = DOMAIN l
                         /\ List(Consumed(h, i), model) /\ List(Without(h, i), model)
      OBVIOUS
    <2>. HIDE DEF l, i
    <2>1. List(h, model) /\ DOMAIN h = DOMAIN l
      BY <1>1, HitKeeps DEF List
    <2>. HIDE DEF h
    <2>2. h \in Seq(EntryOk(model)) /\ Distinct(h) /\ i \in DOMAIN h
      BY <2>1 DEF List
    <2>3. List(Consumed(h, i), model)
      BY <2>2, ConsumedKeeps DEF List
    <2>4. List(Without(h, i), model)
      BY <2>2, SublistKeeps DEF List, Without
    <2>. QED  BY <2>1, <2>3, <2>4
  <1>4. CASE LoadTooLarge
    <2>1. mpc = "load" /\ i \in DOMAIN l /\ Loaded(h, Empty) /\ TouchDisk
      BY <1>4 DEF LoadTooLarge, Loading
    <2>2. List(h, model)
      BY <1>3, <2>1
    <2>. HIDE DEF h, i, l
    <2>. QED  BY <1>1, <2>1, <2>2, TouchKeeps, LoadedKeeps
  <1>5. CASE LoadDraftFails
    <2>1. mpc = "load" /\ i \in DOMAIN l /\ Loaded(Consumed(h, i), Empty) /\ TouchDisk
      BY <1>5 DEF LoadDraftFails, Loading
    <2>2. List(Consumed(h, i), model)
      BY <1>3, <2>1
    <2>. HIDE DEF h, i, l
    <2>. QED  BY <1>1, <2>1, <2>2, TouchKeeps, LoadedKeeps
  <1>6. CASE LoadAborts
    <2>1. WritersLost /\ UNCHANGED <<model, draft, mpc, want, limit, states, slot, disk>>
      BY <1>6 DEF LoadAborts
    <2>2. Mirror(disk', tmp', writers')
      BY <1>1, <2>1, LostKeeps
    <2>. QED  BY <2>1, <2>2 DEF CacheInv
  <1>7. CASE LoadOk
    <2>. DEFINE e == l[i]
                s == [toks |-> e.toks, kv |-> e.kv]
                r == IF keep THEN h ELSE Without(h, i)
    <2>1. mpc = "load" /\ i \in DOMAIN l /\ e.kv # None /\ Loaded(r, s) /\ TouchDisk
      BY <1>7 DEF LoadOk, Loading
    <2>2. List(r, model)
      BY <1>3, <2>1
    <2>3. SlotOk(s, model)
      <3>1. e \in EntryOk(model)
        BY <1>1, <2>1 DEF List
      <3>2. e.toks \in Prompts /\ e.kv \in Kv /\ Sound(e.kv, e.toks, model)
        BY <2>1, <3>1 DEF EntryOk, Entry
      <3>. HIDE DEF e
      <3>. QED  BY <3>2 DEF SlotOk
    <2>. HIDE DEF r, s, h, i, l
    <2>. QED  BY <2>1, <2>2, <2>3, TouchKeeps, LoadedKeeps
  <1>. QED  BY <1>2, <1>4, <1>5, <1>6, <1>7

\* The task runs on the slot's own context or on none.
LEMMA GenerateKeeps ==
    ASSUME CacheInv, Generate
    PROVE  CacheInv'
  <1>1. /\ mpc = "run" /\ mpc' = "idle"
        /\ model' = model /\ draft' = draft /\ limit' = limit /\ states' = states
        /\ disk' = disk /\ tmp' = tmp /\ writers' = writers
        /\ \/ slot' = slot
           \/ slot' = [toks |-> want,
                       kv |-> IF /\ lcp(slot.toks, want) > 0
                                 /\ slot.kv # [of |-> slot.toks, model |-> model]
                              THEN Bad ELSE [of |-> want, model |-> model]]
    BY DEF Generate, run, files
  <1>2. want \in Prompts /\ model \in Models /\ SlotOk(slot, model) /\ Total(states) <= limit
    BY <1>1 DEF CacheInv
  <1>3. ASSUME lcp(slot.toks, want) > 0, slot.kv # [of |-> slot.toks, model |-> model]
        PROVE  Overlap
    <2>1. slot.toks # <<>>
      <3>. SUFFICES ASSUME slot.toks = <<>> PROVE FALSE
        OBVIOUS
      <3>1. {n \in DOMAIN slot.toks : n \in DOMAIN want
                 /\ SubSeq(slot.toks, 1, n) = SubSeq(want, 1, n)} = {}
        OBVIOUS
      <3>2. lcp(slot.toks, want) = 0
        BY <3>1, FS_EmptySet DEF lcp
      <3>. QED  BY <1>3, <3>2
    <2>. QED  BY <1>2, <1>3, <2>1 DEF SlotOk, Sound
  <1>4. SlotOk(slot', model)
    <2>1. Bad \in Kv /\ [of |-> want, model |-> model] \in Kv
      BY <1>2 DEF Kv
    <2>. QED  BY <1>1, <1>2, <1>3, <2>1 DEF SlotOk, Sound
  <1>. QED  BY <1>1, <1>2, <1>4 DEF CacheInv

\* The invariant holds at first.
LEMMA CacheInit == Init => CacheInv
  <1>. SUFFICES ASSUME Init PROVE CacheInv
    OBVIOUS
  <1>1. PICK c \in Configs : model = c.model /\ draft = c.draft
    BY DEF Init
  <1>2. model \in Models /\ draft \in BOOLEAN /\ limit \in Nat /\ limit >= 0
    BY <1>1, PromptAssumption DEF Init
  <1>3. List(states, model) /\ SlotOk(slot, model) /\ Total(states) <= limit
    BY <1>2, TotalEmpty DEF Init, List, Distinct, SlotOk, Empty
  <1>4. Mirror(disk, tmp, writers)
    BY DEF Init, Mirror
  <1>. QED  BY <1>2, <1>3, <1>4 DEF Init, CacheInv

\* Every step keeps it.
LEMMA CacheNext == CacheInv /\ [Next]_vars => CacheInv'
  <1>. SUFFICES ASSUME CacheInv, [Next]_vars PROVE CacheInv'
    OBVIOUS
  <1>0. Mirror(disk, tmp, writers) /\ DOMAIN writers = 1 .. MaxWriters
    BY DEF CacheInv, Mirror
  <1>1. ASSUME NEW p \in Prompts, TakeSlot(p) PROVE CacheInv'
    <2>1. /\ mpc = "idle" /\ prompt_save /\ mpc' = "load" /\ want' = p
          /\ model' = model /\ draft' = draft /\ slot' = slot
      BY <1>1 DEF TakeSlot, run
    <2>2. /\ List(states', model) /\ limit' \in Nat /\ Mirror(disk', tmp', writers')
      BY <2>1, SaveKeeps
    <2>. QED  BY <1>1, <2>1, <2>2 DEF CacheInv
  <1>2. ASSUME NEW p \in Prompts, ReuseSlot(p) PROVE CacheInv'
    <2>1. /\ mpc = "idle" /\ mpc' = "run" /\ want' = p
          /\ UNCHANGED <<model, draft, limit, states, slot, disk, tmp, writers>>
      BY <1>2 DEF ReuseSlot, run, files
    <2>. QED  BY <1>2, <2>1 DEF CacheInv
  <1>3. CASE LoadNothing \/ LoadTooLarge \/ LoadDraftFails \/ LoadAborts \/ LoadOk
    BY <1>3, LoadKeeps
  <1>4. CASE Generate
    BY <1>4, GenerateKeeps
  <1>5. ASSUME NEW n \in Windows, Resize(n) PROVE CacheInv'
    <2>1. /\ mpc = "idle" /\ prompt_save /\ mpc' = mpc /\ want' = want
          /\ model' = model /\ draft' \in {draft, draft /\ ~ MayFail} /\ slot' = Empty
      BY <1>5 DEF Resize
    <2>2. /\ List(states', model) /\ limit' \in Nat /\ Total(states') <= limit'
          /\ Mirror(disk', tmp', writers')
      BY <2>1, SaveKeeps
    <2>3. SlotOk(slot', model)
      BY <2>1 DEF SlotOk, Empty
    <2>4. draft' \in BOOLEAN
      BY <2>1 DEF CacheInv
    <2>. QED  BY <2>1, <2>2, <2>3, <2>4 DEF CacheInv
  <1>6. CASE Wake
    <2>1. /\ NewCache(model) /\ writers' = Unlink(writers, NamesOf(disk) \ NamesOf(disk'))
          /\ model' = model /\ draft' = draft /\ tmp' = tmp
      BY <1>6 DEF Wake
    <2>2. /\ List(states', model) /\ SlotOk(slot', model) /\ limit' \in Nat
          /\ Total(states') <= limit' /\ mpc' = "idle" /\ disk' \in Seq(FileOk)
      BY <1>0, <2>1, NewCacheIs
    <2>. DEFINE N == NamesOf(disk) \ NamesOf(disk')
    <2>. HIDE DEF N
    <2>3. Mirror(disk', tmp, Unlink(writers, N))
      BY <1>0, <2>2, UnlinkKeeps
    <2>4. Mirror(disk', tmp', writers')
      BY <2>1, <2>3 DEF N
    <2>. QED  BY <2>1, <2>2, <2>4 DEF CacheInv
  <1>7. CASE Crash
    <2>1. WritersLost /\ UNCHANGED <<model, draft, mpc, want, limit, states, slot, disk>>
      BY <1>7 DEF Crash
    <2>2. Mirror(disk', tmp', writers')
      BY <1>0, <2>1, LostKeeps
    <2>. QED  BY <2>1, <2>2 DEF CacheInv
  <1>8. ASSUME NEW c \in Configs, Start(c) PROVE CacheInv'
    <2>1. /\ NewCache(c.model) /\ tmp' = tmp /\ writers' = writers
          /\ model' = c.model /\ draft' = c.draft
      BY <1>8 DEF Start
    <2>2. c.model \in Models /\ c.draft \in BOOLEAN
      BY PromptAssumption
    <2>3. /\ List(states', c.model) /\ SlotOk(slot', c.model) /\ limit' \in Nat
          /\ Total(states') <= limit' /\ mpc' = "idle" /\ disk' \in Seq(FileOk)
      BY <1>0, <2>1, NewCacheIs
    <2>4. Mirror(disk', tmp', writers')
      BY <1>0, <2>1, <2>3, OtherFiles
    <2>. QED  BY <2>1, <2>2, <2>3, <2>4 DEF CacheInv
  <1>9. ASSUME NEW w \in 1 .. MaxWriters,
               OpenTmp(w) \/ WritePart(w) \/ WriteFails(w) \/ Publish(w)
        PROVE  CacheInv'
    <2>1. UNCHANGED <<model, draft, mpc, want, limit, states, slot>>
      BY <1>9 DEF OpenTmp, WritePart, WriteFails, Publish, Rename, run
    <2>2. Mirror(disk', tmp', writers')
      BY <1>0, <1>9, OpenKeeps, WriteKeeps, FailKeeps, PublishKeeps
    <2>. QED  BY <2>1, <2>2 DEF CacheInv
  <1>10. CASE UNCHANGED vars
    BY <1>10 DEF CacheInv, vars, run, files
  <1>. QED  BY <1>0, <1>1, <1>2, <1>3, <1>4, <1>5, <1>6, <1>7, <1>8, <1>9, <1>10 DEF Next, Main

-----------------------------------------------------------------------------
(* Theorems *)

\* The KV memory behind a slot's tokens is that of these tokens under the running
\* model, over every mix of saves, spills, crashes, reloads and restores, provided
\* that no two spills of one name are in flight together.
THEOREM PromptSlotKvSound ==
    ASSUME ~ Overlap
    PROVE  Spec => []SlotKvSound
  <1>1. CacheInv => SlotKvSound
    BY DEF CacheInv, SlotOk, Sound, SlotKvSound
  <1>. QED  BY <1>1, CacheInit, CacheNext, PTL DEF Spec

\* The same for every entry of the RAM list.
THEOREM PromptEntriesSound ==
    ASSUME ~ Overlap
    PROVE  Spec => []EntriesSound
  <1>1. CacheInv => EntriesSound
    <2>. SUFFICES ASSUME CacheInv PROVE EntriesSound
      OBVIOUS
    <2>1. \A i \in DOMAIN states : states[i] \in EntryOk(model)
      BY DEF CacheInv, List
    <2>. QED  BY <2>1 DEF EntryOk, Sound, EntriesSound
  <1>. QED  BY <1>1, CacheInit, CacheNext, PTL DEF Spec

\* A file under its published name holds the three parts of one state (disk_write
\* fills path.tmp before it renames it), under the same proviso.
THEOREM PromptPublishedWhole ==
    ASSUME ~ Overlap
    PROVE  Spec => []PublishedWhole
  <1>1. CacheInv => PublishedWhole
    <2>. SUFFICES ASSUME CacheInv PROVE PublishedWhole
      OBVIOUS
    <2>1. \A k \in DOMAIN disk : disk[k] \in FileOk
      BY DEF CacheInv, Mirror
    <2>. QED  BY <2>1 DEF FileOk, ContentOk, PublishedWhole
  <1>. QED  BY <1>1, CacheInit, CacheNext, PTL DEF Spec

\* No prompt is in the RAM list twice, with overlapping writers too (the checks of
\* alloc, disk_find_best and disk_load).
THEOREM PromptNoDuplicates == Spec => []NoDuplicateEntries
  <1>1. CacheInv => NoDuplicateEntries
    BY DEF CacheInv, List, Distinct, NoDuplicateEntries
  <1>. QED  BY <1>1, CacheInit, CacheNext, PTL DEF Spec

\* Between requests the RAM list is within its limit, with overlapping writers too
\* (the loops of alloc and update, and the bound of disk_load).
THEOREM PromptRamBounded == Spec => []RamBounded
  <1>1. CacheInv => RamBounded
    BY DEF CacheInv, RamBounded
  <1>. QED  BY <1>1, CacheInit, CacheNext, PTL DEF Spec
=============================================================================
