------------------------------ MODULE KitProofs ------------------------------
(* What the kit promises of a book, proved for every ledger and book: the  *)
(* working tree a reader loads (Authoring: scenarios, overlays, the writes *)
(* of the kit and its frames), and the arithmetic that turns its lines     *)
(* into cash, VAT and tax (Settlement).                                    *)
EXTENDS Authoring, Settlement, Sums, SequenceTheorems, TLAPS

(* A map is a function and nothing else.                                   *)
IsMap(f) == f = [k \in DOMAIN f |-> f[k]]

LEMMA NothingIsEmpty ==
    /\ DOMAIN Nothing = {}
    /\ IsMap(Nothing)
    /\ \A f : IsMap(f) /\ DOMAIN f = {} => f = Nothing
<1>1. DOMAIN Nothing = {}
  BY Z3 DEF Nothing
<1>2. Nothing = [k \in {} |-> k]
  BY Z3 DEF Nothing
<1>3. ASSUME NEW f, IsMap(f), DOMAIN f = {} PROVE f = Nothing
  BY <1>2, <1>3 DEF IsMap
<1> QED
  BY <1>1, <1>2, <1>3 DEF IsMap

LEMMA OverWorks ==
  \A above, map :
     /\ DOMAIN Over(above, map) = DOMAIN above \cup DOMAIN map
     /\ IsMap(Over(above, map))
     /\ \A k \in DOMAIN above : Over(above, map)[k] = above[k]
     /\ \A k \in DOMAIN map \ DOMAIN above : Over(above, map)[k] = map[k]
BY DEF Over, IsMap

LEMMA OverNothing ==
  \A map : IsMap(map) => Over(Nothing, map) = map /\ Over(map, Nothing) = map
BY NothingIsEmpty DEF Over, IsMap

LEMMA WithWorks ==
  \A map, key, value :
     /\ DOMAIN With(map, key, value) = DOMAIN map \cup {key}
     /\ IsMap(With(map, key, value))
     /\ With(map, key, value)[key] = value
     /\ \A k \in DOMAIN map \ {key} : With(map, key, value)[k] = map[k]
<1> TAKE map, key, value
<1> DEFINE one == [k \in {key} |-> value]
<1>1. DOMAIN one = {key} /\ one[key] = value
  OBVIOUS
<1>2. With(map, key, value) = Over(one, map)
  BY DEF With
<1> HIDE DEF one
<1>3. /\ DOMAIN Over(one, map) = DOMAIN one \cup DOMAIN map
      /\ IsMap(Over(one, map))
      /\ \A k \in DOMAIN one : Over(one, map)[k] = one[k]
      /\ \A k \in DOMAIN map \ DOMAIN one : Over(one, map)[k] = map[k]
  BY OverWorks
<1> QED
  BY <1>1, <1>2, <1>3

LEMMA WithoutWorks ==
  \A map, key :
     /\ DOMAIN Without(map, key) = DOMAIN map \ {key}
     /\ IsMap(Without(map, key))
     /\ \A k \in DOMAIN map \ {key} : Without(map, key)[k] = map[k]
     /\ key \notin DOMAIN map /\ IsMap(map) => Without(map, key) = map
BY DEF Without, Restrict, IsMap

LEMMA PutWorks ==
  \A map, key, record :
     /\ DOMAIN Put(map, key, record) \subseteq DOMAIN map \cup {key}
     /\ DOMAIN map \ {key} \subseteq DOMAIN Put(map, key, record)
     /\ \A k \in DOMAIN Put(map, key, record) :
          \/ k = key /\ record # Nothing /\ Put(map, key, record)[k] = record
          \/ k # key /\ k \in DOMAIN map /\ Put(map, key, record)[k] = map[k]
     /\ Get(Put(map, key, record), key, Nothing) = record
     /\ IsMap(Put(map, key, record))
<1> TAKE map, key, record
<1>1. CASE record = Nothing
  <2>1. Put(map, key, record) = Without(map, key)
    BY <1>1 DEF Put
  <2>2. /\ DOMAIN Without(map, key) = DOMAIN map \ {key}
        /\ IsMap(Without(map, key))
        /\ \A k \in DOMAIN map \ {key} : Without(map, key)[k] = map[k]
    BY WithoutWorks
  <2> QED
    BY <1>1, <2>1, <2>2 DEF Get
<1>2. CASE record # Nothing
  <2>1. Put(map, key, record) = With(map, key, record)
    BY <1>2 DEF Put
  <2>2. DOMAIN With(map, key, record) = DOMAIN map \cup {key}
    BY WithWorks
  <2>3. IsMap(With(map, key, record))
    BY WithWorks
  <2>5. With(map, key, record)[key] = record
    BY WithWorks
  <2>4. \A k \in DOMAIN map \ {key} : With(map, key, record)[k] = map[k]
    BY WithWorks
  <2> QED
    BY <1>2, <2>1, <2>2, <2>3, <2>4, <2>5 DEF Get
<1> QED
  BY <1>1, <1>2

LEMMA MaxIsLargest ==
  ASSUME NEW L \in Nat, NEW s \in SUBSET (1 .. L), s # {}
  PROVE  Max(s) \in s /\ \A n \in s : n <= Max(s)
<1> DEFINE T == {L - n : n \in s}
<1>1. T \subseteq Nat /\ T # {}
  <2>1. \A n \in s : L - n \in Nat
    OBVIOUS
  <2>2. PICK n \in s : TRUE
    OBVIOUS
  <2>3. L - n \in T
    BY <2>2
  <2> QED
    BY <2>1, <2>3
<1>2. PICK k \in T : \A j \in T : k <= j
  <2> HIDE DEF T
  <2> QED
    BY <1>1, LeastNatural
<1>3. PICK m \in s : k = L - m
  BY <1>2
<1>4. \A n \in s : n <= m
  BY <1>2, <1>3
<1> QED
  BY <1>4 DEF Max

OverlaidRun(R, set, chain, L) ==
    /\ R[0] = Authored(set.book)
    /\ \A n \in 1 .. L : R[n] = Overlay(set, R[n - 1], chain[n])
    /\ Overlaid(set, chain) = R[L]

LEMMA OverlaidRuns ==
  ASSUME NEW set, NEW chain, NEW L \in Nat, DOMAIN chain = 1 .. L
  PROVE  \E R : OverlaidRun(R, set, chain, L)
<1> DEFINE Op(v, n) == Overlay(set, v, chain[n])
           base == Authored(set.book)
           Fold(G, s) == IF s = {} THEN base ELSE Op(G[s \ {Max(s)}], Max(s))
           Upto(G, n) == G = [s \in SUBSET (1 .. n) |-> Fold(G, s)]
           Stuck == {n \in 0 .. L : ~ \E G : Upto(G, n)}
           Whole(G) == G = [s \in SUBSET (DOMAIN chain) |-> Fold(G, s)]
<1>1. Overlaid(set, chain) = (CHOOSE G : Whole(G))[DOMAIN chain]
  BY DEF Overlaid, FoldLeft, MapThenFoldSet
<1> HIDE DEF Op, base
<1>2. 0 \notin Stuck
  <2> DEFINE G == [s \in SUBSET (1 .. 0) |-> base]
  <2>1. \A s \in SUBSET (1 .. 0) : s = {}
    OBVIOUS
  <2>2. Upto(G, 0)
    BY <2>1
  <2> QED
    BY <2>2
<1>3. ASSUME NEW n \in 1 .. L, n - 1 \notin Stuck PROVE n \notin Stuck
  <2>1. PICK G : Upto(G, n - 1)
    <3> HIDE DEF Upto
    <3>1. n - 1 \in 0 .. L
      OBVIOUS
    <3> QED
      BY <1>3, <3>1
  <2> DEFINE H == [s \in SUBSET (1 .. n) |-> IF n \in s THEN Op(G[s \ {n}], n) ELSE G[s]]
  <2>2. \A s \in SUBSET (1 .. n - 1) : G[s] = Fold(G, s)
    BY <2>1
  <2>3. ASSUME NEW s \in SUBSET (1 .. n) PROVE H[s] = Fold(H, s)
    <3>1. s # {} => Max(s) \in s /\ \A k \in s : k <= Max(s)
      <4>1. n \in Nat
        OBVIOUS
      <4> QED
        BY <4>1, MaxIsLargest
    <3>2. CASE n \in s
      <4>1. Max(s) = n
        <5> HIDE DEF H, Fold, Stuck
        <5>1. Max(s) \in s /\ n <= Max(s)
          BY <3>1, <3>2
        <5>2. Max(s) \in 1 .. n
          BY <5>1
        <5> HIDE DEF Max
        <5> QED
          BY <5>1, <5>2
      <4>2. s \ {n} \in SUBSET (1 .. n) /\ n \notin s \ {n}
        OBVIOUS
      <4>3. H[s] = Op(G[s \ {n}], n) /\ H[s \ {n}] = G[s \ {n}]
        BY <3>2, <4>2
      <4> HIDE DEF H
      <4> QED
        BY <3>2, <4>1, <4>3
    <3>3. CASE n \notin s
      <4>1. s \in SUBSET (1 .. n - 1) /\ H[s] = G[s]
        BY <3>3
      <4>2. s # {} => s \ {Max(s)} \in SUBSET (1 .. n) /\ n \notin s \ {Max(s)}
        BY <3>3
      <4>3. s # {} => H[s \ {Max(s)}] = G[s \ {Max(s)}]
        BY <4>2
      <4>4. G[s] = Fold(G, s)
        BY <2>2, <4>1
      <4> HIDE DEF H
      <4> QED
        BY <4>1, <4>3, <4>4
    <3> QED
      BY <3>2, <3>3
  <2>4. H = [s \in SUBSET (1 .. n) |-> Fold(H, s)]
    <3>1. H = [s \in SUBSET (1 .. n) |-> H[s]]
      OBVIOUS
    <3> HIDE DEF H, Fold
    <3> QED
      BY <2>3, <3>1
  <2>5. Upto(H, n)
    BY <2>4
  <2> HIDE DEF Upto, H
  <2> QED
    BY <2>5
<1>4. L \notin Stuck
  <2> HIDE DEF Upto
  <2>1. SUFFICES ASSUME Stuck # {} PROVE FALSE
    OBVIOUS
  <2>2. Stuck \subseteq Nat
    OBVIOUS
  <2>3. PICK m \in Stuck : \A n \in Stuck : m <= n
    <3> HIDE DEF Stuck
    <3> QED
      BY <2>1, <2>2, LeastNatural
  <2>4. m \in 1 .. L /\ m - 1 \notin Stuck
    BY <1>2, <2>3
  <2> QED
    BY <1>3, <2>3, <2>4
<1>5. PICK G : Upto(G, L)
  <2> HIDE DEF Upto
  <2> QED
    BY <1>4
<1>6. Whole(G)
  BY <1>5
<1> DEFINE K == CHOOSE H : Whole(H)
<1>7. Whole(K)
  <2> HIDE DEF Whole
  <2> QED
    BY <1>6
<1>8. \A s \in SUBSET (1 .. L) : K[s] = Fold(K, s)
  <2> HIDE DEF K, Fold
  <2> QED
    BY <1>7
<1> HIDE DEF K
<1> DEFINE R == [n \in 0 .. L |-> K[1 .. n]]
<1>9. R[0] = base
  <2>1. R[0] = K[1 .. 0] /\ (1 .. 0) = {}
    OBVIOUS
  <2> QED
    BY <1>8, <2>1
<1>10. ASSUME NEW n \in 1 .. L PROVE R[n] = Op(R[n - 1], n)
  <2> DEFINE s == 1 .. n
  <2>1. s \in SUBSET (1 .. L) /\ n \in s /\ s # {} /\ s \ {n} = 1 .. (n - 1)
    OBVIOUS
  <2>2. \A k \in s : k <= n
    OBVIOUS
  <2>3. s \subseteq Int
    OBVIOUS
  <2> HIDE DEF s
  <2>4. Max(s) = n
    <3>1. Max(s) \in s /\ \A k \in s : k <= Max(s)
      BY <2>1, MaxIsLargest
    <3> HIDE DEF Max
    <3>2. n <= Max(s) /\ Max(s) <= n /\ Max(s) \in Int
      BY <2>1, <2>2, <2>3, <3>1
    <3> QED
      BY <3>2
  <2>5. K[s] = Op(K[s \ {n}], n)
    BY <1>8, <2>1, <2>4
  <2>6. R[n] = K[s] /\ R[n - 1] = K[s \ {n}]
    <3>1. n \in 0 .. L /\ n - 1 \in 0 .. L
      OBVIOUS
    <3>2. R[n] = K[1 .. n] /\ R[n - 1] = K[1 .. (n - 1)]
      BY <3>1
    <3> QED
      BY <2>1, <3>2 DEF s
  <2> QED
    BY <2>5, <2>6
<1>11. Overlaid(set, chain) = R[L]
  <2>1. R[L] = K[1 .. L]
    OBVIOUS
  <2> QED
    BY <1>1, <2>1 DEF K
<1> HIDE DEF R
<1> QED
  BY <1>9, <1>10, <1>11 DEF Op, base, OverlaidRun

LEMMA SetsListed ==
  ASSUME NEW S, IsFiniteSet(S)
  PROVE  /\ Cardinality(S) \in Nat
         /\ DOMAIN SetToSeq(S) = 1 .. Cardinality(S)
         /\ \A n \in 1 .. Cardinality(S) : SetToSeq(S)[n] \in S
<1>1. Cardinality(S) \in Nat /\ ExistsBijection(1 .. Cardinality(S), S)
  BY FS_CardinalityType
<1>2. \E f \in [1 .. Cardinality(S) -> S] : IsInjective(f)
  BY <1>1 DEF ExistsBijection, Bijection, Injection, Surjection, IsInjective
<1>3. SetToSeq(S) \in [1 .. Cardinality(S) -> S]
  BY <1>2 DEF SetToSeq
<1> QED
  BY <1>1, <1>3

ChainRun(R, set, id, L) ==
    /\ R[0] = (IF id \in DOMAIN set.scenarios THEN <<id>> ELSE <<>>)
    /\ \A n \in 1 .. L : R[n] = Climb(set, R[n - 1])
    /\ Chain(set, id) = R[L]

LEMMA ChainRuns ==
  ASSUME NEW set, NEW id, NEW L \in Nat, DOMAIN SetToSeq(DOMAIN set.scenarios) = 1 .. L
  PROVE  \E R : ChainRun(R, set, id, L)
<1> DEFINE Op(v, n) == Climb(set, v)
           base == (IF id \in DOMAIN set.scenarios THEN <<id>> ELSE <<>>)
           Fold(G, s) == IF s = {} THEN base ELSE Op(G[s \ {Max(s)}], Max(s))
           Upto(G, n) == G = [s \in SUBSET (1 .. n) |-> Fold(G, s)]
           Stuck == {n \in 0 .. L : ~ \E G : Upto(G, n)}
           Whole(G) == G = [s \in SUBSET (DOMAIN SetToSeq(DOMAIN set.scenarios)) |-> Fold(G, s)]
<1>1. Chain(set, id) = (CHOOSE G : Whole(G))[DOMAIN SetToSeq(DOMAIN set.scenarios)]
  BY DEF Chain, FoldLeft, MapThenFoldSet
<1> HIDE DEF Op, base
<1>2. 0 \notin Stuck
  <2> DEFINE G == [s \in SUBSET (1 .. 0) |-> base]
  <2>1. \A s \in SUBSET (1 .. 0) : s = {}
    OBVIOUS
  <2>2. Upto(G, 0)
    BY <2>1
  <2> QED
    BY <2>2
<1>3. ASSUME NEW n \in 1 .. L, n - 1 \notin Stuck PROVE n \notin Stuck
  <2>1. PICK G : Upto(G, n - 1)
    <3> HIDE DEF Upto
    <3>1. n - 1 \in 0 .. L
      OBVIOUS
    <3> QED
      BY <1>3, <3>1
  <2> DEFINE H == [s \in SUBSET (1 .. n) |-> IF n \in s THEN Op(G[s \ {n}], n) ELSE G[s]]
  <2>2. \A s \in SUBSET (1 .. n - 1) : G[s] = Fold(G, s)
    BY <2>1
  <2>3. ASSUME NEW s \in SUBSET (1 .. n) PROVE H[s] = Fold(H, s)
    <3>1. s # {} => Max(s) \in s /\ \A k \in s : k <= Max(s)
      <4>1. n \in Nat
        OBVIOUS
      <4> QED
        BY <4>1, MaxIsLargest
    <3>2. CASE n \in s
      <4>1. Max(s) = n
        <5> HIDE DEF H, Fold, Stuck
        <5>1. Max(s) \in s /\ n <= Max(s)
          BY <3>1, <3>2
        <5>2. Max(s) \in 1 .. n
          BY <5>1
        <5> HIDE DEF Max
        <5> QED
          BY <5>1, <5>2
      <4>2. s \ {n} \in SUBSET (1 .. n) /\ n \notin s \ {n}
        OBVIOUS
      <4>3. H[s] = Op(G[s \ {n}], n) /\ H[s \ {n}] = G[s \ {n}]
        BY <3>2, <4>2
      <4> HIDE DEF H
      <4> QED
        BY <3>2, <4>1, <4>3
    <3>3. CASE n \notin s
      <4>1. s \in SUBSET (1 .. n - 1) /\ H[s] = G[s]
        BY <3>3
      <4>2. s # {} => s \ {Max(s)} \in SUBSET (1 .. n) /\ n \notin s \ {Max(s)}
        BY <3>3
      <4>3. s # {} => H[s \ {Max(s)}] = G[s \ {Max(s)}]
        BY <4>2
      <4>4. G[s] = Fold(G, s)
        BY <2>2, <4>1
      <4> HIDE DEF H
      <4> QED
        BY <4>1, <4>3, <4>4
    <3> QED
      BY <3>2, <3>3
  <2>4. H = [s \in SUBSET (1 .. n) |-> Fold(H, s)]
    <3>1. H = [s \in SUBSET (1 .. n) |-> H[s]]
      OBVIOUS
    <3> HIDE DEF H, Fold
    <3> QED
      BY <2>3, <3>1
  <2>5. Upto(H, n)
    BY <2>4
  <2> HIDE DEF Upto, H
  <2> QED
    BY <2>5
<1>4. L \notin Stuck
  <2> HIDE DEF Upto
  <2>1. SUFFICES ASSUME Stuck # {} PROVE FALSE
    OBVIOUS
  <2>2. Stuck \subseteq Nat
    OBVIOUS
  <2>3. PICK m \in Stuck : \A n \in Stuck : m <= n
    <3> HIDE DEF Stuck
    <3> QED
      BY <2>1, <2>2, LeastNatural
  <2>4. m \in 1 .. L /\ m - 1 \notin Stuck
    BY <1>2, <2>3
  <2> QED
    BY <1>3, <2>3, <2>4
<1>5. PICK G : Upto(G, L)
  <2> HIDE DEF Upto
  <2> QED
    BY <1>4
<1>6. Whole(G)
  BY <1>5
<1> DEFINE K == CHOOSE H : Whole(H)
<1>7. Whole(K)
  <2> HIDE DEF Whole
  <2> QED
    BY <1>6
<1>8. \A s \in SUBSET (1 .. L) : K[s] = Fold(K, s)
  <2> HIDE DEF K, Fold
  <2> QED
    BY <1>7
<1> HIDE DEF K
<1> DEFINE R == [n \in 0 .. L |-> K[1 .. n]]
<1>9. R[0] = base
  <2>1. R[0] = K[1 .. 0] /\ (1 .. 0) = {}
    OBVIOUS
  <2> QED
    BY <1>8, <2>1
<1>10. ASSUME NEW n \in 1 .. L PROVE R[n] = Op(R[n - 1], n)
  <2> DEFINE s == 1 .. n
  <2>1. s \in SUBSET (1 .. L) /\ n \in s /\ s # {} /\ s \ {n} = 1 .. (n - 1)
    OBVIOUS
  <2>2. \A k \in s : k <= n
    OBVIOUS
  <2>3. s \subseteq Int
    OBVIOUS
  <2> HIDE DEF s
  <2>4. Max(s) = n
    <3>1. Max(s) \in s /\ \A k \in s : k <= Max(s)
      BY <2>1, MaxIsLargest
    <3> HIDE DEF Max
    <3>2. n <= Max(s) /\ Max(s) <= n /\ Max(s) \in Int
      BY <2>1, <2>2, <2>3, <3>1
    <3> QED
      BY <3>2
  <2>5. K[s] = Op(K[s \ {n}], n)
    BY <1>8, <2>1, <2>4
  <2>6. R[n] = K[s] /\ R[n - 1] = K[s \ {n}]
    <3>1. n \in 0 .. L /\ n - 1 \in 0 .. L
      OBVIOUS
    <3>2. R[n] = K[1 .. n] /\ R[n - 1] = K[1 .. (n - 1)]
      BY <3>1
    <3> QED
      BY <2>1, <3>2 DEF s
  <2> QED
    BY <2>5, <2>6
<1>11. Chain(set, id) = R[L]
  <2>1. R[L] = K[1 .. L]
    OBVIOUS
  <2> QED
    BY <1>1, <2>1 DEF K
<1> HIDE DEF R
<1> QED
  BY <1>9, <1>10, <1>11 DEF Op, base, ChainRun

(* A way to a scenario from above, and one that comes from a root.         *)
IsWay(set, id, c) ==
    /\ c \in Seq(DOMAIN set.scenarios) /\ c # <<>>
    /\ c[Len(c)] = id
    /\ \A k \in 1 .. Len(c) - 1 : set.scenarios[c[k + 1]].parent = c[k]
FromRoot(set, c) == set.scenarios[c[1]].parent = NoParent

LEMMA WayEnds ==
  ASSUME NEW set, NEW id, NEW c, IsWay(set, id, c)
  PROVE  /\ Len(c) \in Nat \ {0} /\ DOMAIN c = 1 .. Len(c)
         /\ \A k \in 1 .. Len(c) : c[k] \in DOMAIN set.scenarios
         /\ id \in DOMAIN set.scenarios
         /\ NextAncestor(set, c) = set.scenarios[c[1]].parent
<1>1. Len(c) \in Nat /\ Len(c) # 0 /\ DOMAIN c = 1 .. Len(c)
  BY LenProperties, EmptySeq DEF IsWay
<1>2. \A k \in 1 .. Len(c) : c[k] \in DOMAIN set.scenarios
  BY <1>1, ElementOfSeq DEF IsWay
<1>3. Len(c) \in 1 .. Len(c)
  BY <1>1
<1>4. NextAncestor(set, c) = set.scenarios[c[1]].parent
  BY DEF NextAncestor, IsWay
<1> QED
  BY <1>1, <1>2, <1>3, <1>4 DEF IsWay

(* The way from a root is the only one.                                    *)
LEMMA WaysMeet ==
  ASSUME NEW set, NEW id, NEW c, NEW d, NoParent \notin DOMAIN set.scenarios,
         IsWay(set, id, c), IsWay(set, id, d), FromRoot(set, c), Len(c) <= Len(d)
  PROVE  FromRoot(set, d) => c = d
<1> DEFINE m == Len(c)
           n == Len(d)
           Bad == {k \in 0 .. m - 1 : c[m - k] # d[n - k]}
<1>1. /\ m \in Nat \ {0} /\ n \in Nat \ {0} /\ m <= n
      /\ c[m] = id /\ d[n] = id
      /\ \A k \in 1 .. m : c[k] \in DOMAIN set.scenarios
      /\ \A k \in 1 .. n : d[k] \in DOMAIN set.scenarios
  BY WayEnds DEF IsWay
<1>2. \A k \in 1 .. m - 1 : set.scenarios[c[k + 1]].parent = c[k]
  BY DEF IsWay
<1>3. \A k \in 1 .. n - 1 : set.scenarios[d[k + 1]].parent = d[k]
  BY DEF IsWay
<1>4. c \in Seq(DOMAIN set.scenarios) /\ d \in Seq(DOMAIN set.scenarios)
  BY DEF IsWay
<1> HIDE DEF m, n
<1>5. Bad = {}
  <2>1. SUFFICES ASSUME Bad # {} PROVE FALSE
    OBVIOUS
  <2>2. Bad \subseteq Nat
    BY <1>1
  <2>3. PICK k \in Bad : \A j \in Bad : k <= j
    <3> HIDE DEF Bad
    <3> QED
      BY <2>1, <2>2, LeastNatural
  <2>4. k # 0 /\ k \in 1 .. m - 1
    BY <1>1, <2>3
  <2>5. c[m - (k - 1)] = d[n - (k - 1)]
    <3>1. k - 1 \in 0 .. m - 1 /\ ~(k <= k - 1)
      BY <1>1, <2>4
    <3> QED
      BY <2>3, <3>1
  <2>6. m - (k - 1) = (m - k) + 1 /\ n - (k - 1) = (n - k) + 1 /\ m - k \in 1 .. m - 1 /\ n - k \in 1 .. n - 1
    BY <1>1, <2>4
  <2>7. set.scenarios[c[(m - k) + 1]].parent = c[m - k] /\ set.scenarios[d[(n - k) + 1]].parent = d[n - k]
    BY <1>2, <1>3, <2>6
  <2> QED
    BY <2>3, <2>5, <2>6, <2>7
<1>6. \A k \in 0 .. m - 1 : c[m - k] = d[n - k]
  BY <1>5
<1>7. ASSUME FromRoot(set, d) PROVE m = n
  <2>1. SUFFICES ASSUME m < n PROVE FALSE
    BY <1>1
  <2>2. c[1] = d[n - (m - 1)] /\ n - (m - 1) = (n - m) + 1 /\ n - m \in 1 .. n - 1
    <3>0. m \in Int /\ 1 <= m
      BY <1>1
    <3>1. m - (m - 1) = 1 /\ m - 1 \in 0 .. m - 1
      BY <3>0
    <3>2. c[m - (m - 1)] = d[n - (m - 1)]
      BY <1>6, <3>1
    <3>3. n - (m - 1) = (n - m) + 1 /\ n - m \in 1 .. n - 1
      BY <1>1, <2>1
    <3> QED
      BY <3>1, <3>2, <3>3
  <2>3. set.scenarios[c[1]].parent = d[n - m]
    BY <1>3, <2>2
  <2>4. d[n - m] \in DOMAIN set.scenarios
    BY <1>1, <2>2
  <2> QED
    BY <2>3, <2>4 DEF FromRoot
<1>8. ASSUME FromRoot(set, d) PROVE c = d
  <2>1. m = n
    BY <1>7, <1>8
  <2>2. \A k \in 1 .. m : c[k] = d[k]
    <3> TAKE k \in 1 .. m
    <3>1. m - k \in 0 .. m - 1 /\ m - (m - k) = k
      BY <1>1
    <3> QED
      BY <1>6, <2>1, <3>1
  <2> QED
    BY <1>4, <2>1, <2>2, SeqEqual DEF m, n
<1> QED
  BY <1>8

LEMMA OneLong ==
  ASSUME NEW S, NEW x \in S
  PROVE  <<x>> \in Seq(S) /\ Len(<<x>>) = 1 /\ <<x>>[1] = x /\ <<x>> # <<>>
<1>1. <<x>> \in Seq(S)
  OBVIOUS
<1>2. Len(<<x>>) = 1 /\ <<x>>[1] = x
  OBVIOUS
<1>3. <<x>> # <<>>
  BY <1>2, EmptySeq
<1> QED
  BY <1>1, <1>2, <1>3

(* Every scenario is below its parent: the chains end at a root.           *)
Depths(set, rank) ==
    Ranks(set, rank) /\ \A s \in DOMAIN set.scenarios : rank[s] \in Nat
IsForest(set) ==
    /\ IsFiniteSet(DOMAIN set.scenarios)
    /\ NoParent \notin DOMAIN set.scenarios
    /\ \E rank : Depths(set, rank)

LEMMA RanksRise ==
  ASSUME NEW set, NEW rank, Depths(set, rank), NEW id, NEW c, IsWay(set, id, c),
         NoParent \notin DOMAIN set.scenarios
  PROVE  \A j, k \in 1 .. Len(c) : j < k => rank[c[j]] < rank[c[k]]
<1> DEFINE m == Len(c)
           Bad(j) == {k \in 1 .. m : j < k /\ ~(rank[c[j]] < rank[c[k]])}
<1>1. m \in Nat \ {0} /\ \A k \in 1 .. m : c[k] \in DOMAIN set.scenarios
  BY WayEnds
<1>2. \A k \in 1 .. m - 1 : set.scenarios[c[k + 1]].parent = c[k]
  BY DEF IsWay
<1>3. \A k \in 1 .. m : rank[c[k]] \in Nat
  BY <1>1 DEF Depths, Depths, Ranks
<1> HIDE DEF m
<1>4. ASSUME NEW k \in 1 .. m - 1 PROVE rank[c[k]] < rank[c[k + 1]]
  <2>1. k \in 1 .. m /\ k + 1 \in 1 .. m
    BY <1>1
  <2>2. set.scenarios[c[k + 1]].parent = c[k] /\ c[k] # NoParent
    BY <1>1, <1>2, <2>1
  <2> QED
    BY <1>1, <2>1, <2>2 DEF Depths, Depths, Ranks
<1>5. ASSUME NEW j \in 1 .. m PROVE Bad(j) = {}
  <2>1. SUFFICES ASSUME Bad(j) # {} PROVE FALSE
    OBVIOUS
  <2>2. Bad(j) \subseteq Nat
    BY <1>1
  <2>3. PICK k \in Bad(j) : \A i \in Bad(j) : k <= i
    <3> HIDE DEF Bad
    <3> QED
      BY <2>1, <2>2, LeastNatural
  <2>4. k - 1 \in 1 .. m - 1 /\ (k - 1) + 1 = k /\ k \in 1 .. m /\ j < k
    BY <1>1, <2>3
  <2>5. rank[c[k - 1]] < rank[c[(k - 1) + 1]]
    BY <1>4, <2>4
  <2>6. j = k - 1 \/ (j < k - 1 /\ k - 1 \in 1 .. m /\ ~(k <= k - 1))
    BY <1>1, <2>4
  <2>7. j < k - 1 => rank[c[j]] < rank[c[k - 1]]
    BY <2>3, <2>6
  <2>8. rank[c[j]] \in Nat /\ rank[c[k - 1]] \in Nat /\ rank[c[k]] \in Nat
    BY <1>1, <1>3, <2>4
  <2>9. rank[c[j]] < rank[c[k]]
    BY <2>4, <2>5, <2>6, <2>7, <2>8
  <2> QED
    BY <2>3, <2>9
<1> QED
  BY <1>5 DEF m

(* One step up the chain keeps it a way, and longer unless it is whole.    *)
LEMMA ClimbKeeps ==
  ASSUME NEW set, NEW rank, Depths(set, rank), NoParent \notin DOMAIN set.scenarios,
         NEW id, NEW c, IsWay(set, id, c)
  PROVE  /\ IsWay(set, id, Climb(set, c))
         /\ FromRoot(set, c) => Climb(set, c) = c
         /\ ~FromRoot(set, c) => Len(Climb(set, c)) = Len(c) + 1
<1> DEFINE m == Len(c)
           up == NextAncestor(set, c)
           D == DOMAIN set.scenarios
<1>1. /\ m \in Nat \ {0} /\ DOMAIN c = 1 .. m
      /\ \A k \in 1 .. m : c[k] \in D
      /\ up = set.scenarios[c[1]].parent
  BY WayEnds
<1>2. c \in Seq(D) /\ c[m] = id /\ \A k \in 1 .. m - 1 : set.scenarios[c[k + 1]].parent = c[k]
  BY DEF IsWay
<1>3. 1 \in 1 .. m
  BY <1>1
<1>4. CASE FromRoot(set, c)
  <2>1. up = NoParent
    BY <1>1, <1>4 DEF FromRoot
  <2>2. Climb(set, c) = c
    BY <2>1 DEF Climb
  <2> QED
    BY <1>4, <2>2
<1>5. CASE ~FromRoot(set, c)
  <2>1. up # NoParent /\ up \in D /\ rank[up] < rank[c[1]]
    BY <1>1, <1>3, <1>5 DEF FromRoot, Depths, Ranks
  <2>2. \A k \in 1 .. m : ~(rank[c[k]] < rank[c[1]])
    <3> TAKE k \in 1 .. m
    <3>1. k = 1 \/ 1 < k
      BY <1>1
    <3>2. 1 < k => rank[c[1]] < rank[c[k]]
      BY <1>3, RanksRise
    <3>3. rank[c[k]] \in Nat /\ rank[c[1]] \in Nat
      BY <1>1, <1>3 DEF Depths, Depths, Ranks
    <3> QED
      BY <3>1, <3>2, <3>3
  <2>3. up \notin ToSet(c)
    BY <1>1, <2>1, <2>2 DEF ToSet
  <2>4. Climb(set, c) = <<up>> \o c
    BY <2>1, <2>3 DEF Climb
  <2> DEFINE d == <<up>> \o c
  <2>5. <<up>> \in Seq(D) /\ Len(<<up>>) = 1 /\ <<up>>[1] = up
    <3> HIDE DEF up, D
    <3> QED
      BY <2>1, OneLong
  <2>6. /\ d \in Seq(D) /\ Len(d) = 1 + m
        /\ \A k \in 1 .. 1 + m : d[k] = IF k <= 1 THEN <<up>>[k] ELSE c[k - 1]
    BY <1>2, <2>5, ConcatProperties
  <2>7. d[1] = up /\ \A k \in 1 .. m : d[k + 1] = c[k]
    <3>1. d[1] = up
      <4>1. 1 \in 1 .. 1 + m
        BY <1>1
      <4> QED
        BY <2>5, <2>6, <4>1
    <3>2. ASSUME NEW k \in 1 .. m PROVE d[k + 1] = c[k]
      <4>1. k + 1 \in 1 .. 1 + m /\ ~(k + 1 <= 1) /\ (k + 1) - 1 = k
        BY <1>1
      <4> QED
        BY <2>6, <4>1
    <3> QED
      BY <3>1, <3>2
  <2> HIDE DEF d
  <2>8. d # <<>>
    <3>1. Len(d) # 0
      BY <1>1, <2>6
    <3> QED
      BY <3>1, EmptySeq
  <2>9. d[Len(d)] = id
    <3>1. Len(d) = m + 1 /\ m \in 1 .. m
      BY <1>1, <2>6
    <3> QED
      BY <1>2, <2>7, <3>1
  <2>10. \A k \in 1 .. Len(d) - 1 : set.scenarios[d[k + 1]].parent = d[k]
    <3> TAKE k \in 1 .. Len(d) - 1
    <3>1. k \in 1 .. m
      BY <1>1, <2>6
    <3>2. CASE k = 1
      BY <1>1, <1>3, <2>7, <3>2
    <3>3. CASE k # 1
      <4>1. k - 1 \in 1 .. m - 1 /\ k - 1 \in 1 .. m /\ (k - 1) + 1 = k
        BY <1>1, <3>1, <3>3
      <4>2. d[k] = c[k - 1] /\ d[k + 1] = c[k]
        BY <2>7, <3>1, <4>1
      <4>3. set.scenarios[c[(k - 1) + 1]].parent = c[k - 1]
        BY <1>2, <4>1
      <4> QED
        BY <4>1, <4>2, <4>3
    <3> QED
      BY <3>2, <3>3
  <2>11. IsWay(set, id, d)
    BY <2>6, <2>8, <2>9, <2>10 DEF IsWay
  <2>12. Len(d) = m + 1
    BY <1>1, <2>6
  <2> QED
    BY <1>5, <2>4, <2>11, <2>12 DEF d
<1> QED
  BY <1>4, <1>5

(* So the chain of a scenario is the way to it from its root.              *)
LEMMA ChainIsTheWay ==
  ASSUME NEW set, IsForest(set), NEW id \in DOMAIN set.scenarios
  PROVE  IsWay(set, id, Chain(set, id)) /\ FromRoot(set, Chain(set, id))
<1> DEFINE D == DOMAIN set.scenarios
           N == Cardinality(D)
<1>1. IsFiniteSet(D) /\ NoParent \notin D
  BY DEF IsForest
<1>2. PICK rank : Depths(set, rank)
  BY DEF IsForest
<1>3. N \in Nat /\ DOMAIN SetToSeq(D) = 1 .. N
  BY <1>1, SetsListed
<1>4. PICK R : ChainRun(R, set, id, N)
  <2> HIDE DEF N
  <2> QED
    BY <1>3, ChainRuns
<1> HIDE DEF N
<1> DEFINE Good(n) == /\ IsWay(set, id, R[n])
                      /\ FromRoot(set, R[n]) \/ Len(R[n]) = n + 1
           Bad == {n \in 0 .. N : ~Good(n)}
<1>5. Good(0)
  <2>1. R[0] = <<id>>
    BY <1>4 DEF ChainRun
  <2>2. <<id>> \in Seq(D) /\ Len(<<id>>) = 1 /\ <<id>>[1] = id /\ <<id>> # <<>>
    BY OneLong
  <2>3. \A k \in 1 .. Len(<<id>>) - 1 : FALSE
    BY <2>2
  <2> QED
    BY <2>1, <2>2, <2>3 DEF IsWay
<1>6. ASSUME NEW n \in 1 .. N, Good(n - 1) PROVE Good(n)
  <2> DEFINE c == R[n - 1]
  <2>1. R[n] = Climb(set, c)
    BY <1>4 DEF ChainRun
  <2>2. IsWay(set, id, c) /\ (FromRoot(set, c) \/ Len(c) = (n - 1) + 1)
    BY <1>6
  <2> HIDE DEF c
  <2>3. /\ IsWay(set, id, Climb(set, c))
        /\ FromRoot(set, c) => Climb(set, c) = c
        /\ ~FromRoot(set, c) => Len(Climb(set, c)) = Len(c) + 1
    BY <1>1, <1>2, <2>2, ClimbKeeps
  <2>4. (n - 1) + 1 = n
    BY <1>3
  <2> QED
    BY <2>1, <2>2, <2>3, <2>4
<1>7. Good(N)
  <2> HIDE DEF Good
  <2>1. SUFFICES ASSUME Bad # {} PROVE FALSE
    BY <1>3
  <2>2. Bad \subseteq Nat
    BY <1>3
  <2>3. PICK m \in Bad : \A n \in Bad : m <= n
    <3> HIDE DEF Bad
    <3> QED
      BY <2>1, <2>2, LeastNatural
  <2>4. m # 0
    BY <1>5, <2>3
  <2>5. m \in 1 .. N /\ m - 1 \in 0 .. N /\ ~(m <= m - 1)
    BY <1>3, <2>3, <2>4
  <2>6. Good(m - 1)
    BY <2>3, <2>5
  <2> QED
    BY <1>6, <2>3, <2>5, <2>6
<1> DEFINE c == Chain(set, id)
<1>8. IsWay(set, id, c) /\ (FromRoot(set, c) \/ Len(c) = N + 1)
  BY <1>4, <1>7 DEF ChainRun
<1> HIDE DEF c, Good
<1>9. Len(c) # N + 1
  <2>1. SUFFICES ASSUME Len(c) = N + 1 PROVE FALSE
    OBVIOUS
  <2>2. DOMAIN c = 1 .. Len(c) /\ \A k \in 1 .. Len(c) : c[k] \in D
    BY <1>8, WayEnds
  <2>3. c = [k \in 1 .. Len(c) |-> c[k]]
    <3>1. c \in Seq(D)
      BY <1>8 DEF IsWay
    <3>2. c \in [1 .. Len(c) -> D]
      BY <3>1, LenProperties
    <3> QED
      BY <3>2
  <2>4. \A j, k \in 1 .. Len(c) : c[j] = c[k] => j = k
    <3> SUFFICES ASSUME NEW j \in 1 .. Len(c), NEW k \in 1 .. Len(c), c[j] = c[k] PROVE j = k
      OBVIOUS
    <3>1. j < k => rank[c[j]] < rank[c[k]]
      BY <1>1, <1>2, <1>8, RanksRise
    <3>2. k < j => rank[c[k]] < rank[c[j]]
      BY <1>1, <1>2, <1>8, RanksRise
    <3>3. rank[c[j]] \in Nat
      BY <1>2, <2>2 DEF Depths, Depths, Ranks
    <3>4. Len(c) \in Nat
      BY <1>3, <2>1
    <3> QED
      BY <3>1, <3>2, <3>3, <3>4
  <2>5. c \in Injection(1 .. Len(c), D)
    BY <2>2, <2>3, <2>4 DEF Injection, IsInjective
  <2>6. Cardinality(1 .. Len(c)) <= N
    BY <1>1, <2>5, FS_Injection DEF N
  <2>7. Cardinality(1 .. Len(c)) = N + 1
    BY <1>3, <2>1, FS_Interval
  <2> QED
    BY <1>3, <2>6, <2>7
<1> QED
  BY <1>8, <1>9 DEF c

LEMMA OneWay ==
  ASSUME NEW set, NEW id, NEW c, NEW d, NoParent \notin DOMAIN set.scenarios,
         IsWay(set, id, c), IsWay(set, id, d), FromRoot(set, c), FromRoot(set, d)
  PROVE  c = d
<1>1. Len(c) \in Nat /\ Len(d) \in Nat
  BY WayEnds
<1>2. CASE Len(c) <= Len(d)
  BY <1>2, WaysMeet
<1>3. CASE Len(d) <= Len(c)
  BY <1>3, WaysMeet
<1> QED
  BY <1>1, <1>2, <1>3

(* What a scenario says of itself and of its parent.                       *)
ParentOf(set, id) == set.scenarios[id].parent

LEMMA WayDown ==
  ASSUME NEW set, NEW up, NEW c, IsWay(set, up, c),
         NEW id \in DOMAIN set.scenarios, ParentOf(set, id) = up
  PROVE  IsWay(set, id, Append(c, id)) /\ (FromRoot(set, c) => FromRoot(set, Append(c, id)))
<1> DEFINE m == Len(c)
           D == DOMAIN set.scenarios
           d == Append(c, id)
<1>1. m \in Nat \ {0} /\ c \in Seq(D) /\ c[m] = up /\ \A k \in 1 .. m - 1 : ParentOf(set, c[k + 1]) = c[k]
  BY WayEnds DEF IsWay, ParentOf
<1>2. /\ d \in Seq(D) /\ Len(d) = m + 1 /\ d[m + 1] = id
      /\ \A k \in 1 .. m : d[k] = c[k]
  BY <1>1, AppendProperties
<1> HIDE DEF d, m
<1>3. d # <<>>
  <2>1. Len(d) # 0
    BY <1>1, <1>2
  <2> QED
    BY <2>1, EmptySeq
<1>4. \A k \in 1 .. Len(d) - 1 : ParentOf(set, d[k + 1]) = d[k]
  <2> TAKE k \in 1 .. Len(d) - 1
  <2>1. k \in 1 .. m
    BY <1>1, <1>2
  <2>2. CASE k = m
    BY <1>1, <1>2, <2>2
  <2>3. CASE k # m
    <3>1. k \in 1 .. m - 1 /\ k + 1 \in 1 .. m
      BY <1>1, <2>1, <2>3
    <3> QED
      BY <1>1, <1>2, <2>1, <3>1
  <2> QED
    BY <2>2, <2>3
<1>5. IsWay(set, id, d)
  BY <1>2, <1>3, <1>4 DEF IsWay, ParentOf
<1>6. 1 \in 1 .. m
  BY <1>1
<1> QED
  BY <1>2, <1>5, <1>6 DEF FromRoot, d

(* The chain of a scenario is that of its parent, and the scenario.        *)
LEMMA ChainSteps ==
  ASSUME NEW set, IsForest(set), NEW id \in DOMAIN set.scenarios
  PROVE  IF ParentOf(set, id) = NoParent THEN Chain(set, id) = <<id>>
         ELSE /\ ParentOf(set, id) \in DOMAIN set.scenarios
              /\ Chain(set, id) = Append(Chain(set, ParentOf(set, id)), id)
<1> DEFINE up == ParentOf(set, id)
           D == DOMAIN set.scenarios
<1>1. NoParent \notin D
  BY DEF IsForest
<1>2. IsWay(set, id, Chain(set, id)) /\ FromRoot(set, Chain(set, id))
  BY ChainIsTheWay
<1>3. CASE up = NoParent
  <2>1. <<id>> \in Seq(D) /\ Len(<<id>>) = 1 /\ <<id>>[1] = id /\ <<id>> # <<>>
    BY OneLong
  <2>2. \A k \in 1 .. Len(<<id>>) - 1 : FALSE
    BY <2>1
  <2>3. IsWay(set, id, <<id>>) /\ FromRoot(set, <<id>>)
    BY <1>3, <2>1, <2>2 DEF IsWay, FromRoot, ParentOf
  <2>4. Chain(set, id) = <<id>>
    BY <1>1, <1>2, <2>3, OneWay
  <2> QED
    BY <1>3, <2>4
<1>4. CASE up # NoParent
  <2>1. up \in D
    BY <1>4 DEF IsForest, Depths, Ranks, ParentOf
  <2>2. IsWay(set, up, Chain(set, up)) /\ FromRoot(set, Chain(set, up))
    BY <2>1, ChainIsTheWay
  <2> DEFINE c == Chain(set, up)
  <2> HIDE DEF c, up, D
  <2>3. IsWay(set, id, Append(c, id)) /\ FromRoot(set, Append(c, id))
    BY <2>2, WayDown DEF c, up, D
  <2>4. Chain(set, id) = Append(c, id)
    BY <1>1, <1>2, <2>3, OneWay DEF D
  <2> QED
    BY <1>4, <2>1, <2>4 DEF c, up, D
<1> QED
  BY <1>3, <1>4

(* Scenarios that have the same ancestors have the same chain.             *)
LEMMA SameWay ==
  ASSUME NEW old, NEW new, IsForest(old), IsForest(new), NEW id \in DOMAIN old.scenarios,
         \A u \in Ancestry(old, id) :
            u \in DOMAIN new.scenarios /\ ParentOf(new, u) = ParentOf(old, u)
  PROVE  Chain(new, id) = Chain(old, id)
<1> DEFINE c == Chain(old, id)
           m == Len(c)
<1>1. IsWay(old, id, c) /\ FromRoot(old, c)
  BY ChainIsTheWay
<1>2. /\ m \in Nat \ {0} /\ DOMAIN c = 1 .. m
      /\ c[m] = id /\ c # <<>> /\ c \in Seq(DOMAIN old.scenarios)
      /\ \A k \in 1 .. m - 1 : ParentOf(old, c[k + 1]) = c[k]
      /\ ParentOf(old, c[1]) = NoParent
  BY <1>1, WayEnds DEF IsWay, FromRoot, ParentOf
<1>3. \A k \in 1 .. m : c[k] \in DOMAIN new.scenarios /\ ParentOf(new, c[k]) = ParentOf(old, c[k])
  BY <1>2 DEF Ancestry, ToSet
<1>4. c \in [1 .. m -> DOMAIN old.scenarios]
  BY <1>2, LenProperties
<1> HIDE DEF c, m
<1>5. c \in Seq(DOMAIN new.scenarios)
  <2>1. c \in [1 .. m -> DOMAIN new.scenarios]
    BY <1>3, <1>4
  <2> QED
    BY <1>2, <2>1, SeqDef
<1>6. \A k \in 1 .. m - 1 : ParentOf(new, c[k + 1]) = c[k]
  <2> TAKE k \in 1 .. m - 1
  <2>1. k + 1 \in 1 .. m
    BY <1>2
  <2> QED
    BY <1>2, <1>3, <2>1
<1>7. 1 \in 1 .. m
  BY <1>2
<1>8. IsWay(new, id, c) /\ FromRoot(new, c)
  BY <1>2, <1>3, <1>5, <1>6, <1>7 DEF IsWay, FromRoot, ParentOf, m
<1>9. id \in DOMAIN new.scenarios
  BY <1>8, WayEnds
<1>10. IsWay(new, id, Chain(new, id)) /\ FromRoot(new, Chain(new, id))
  BY <1>9, ChainIsTheWay
<1>11. NoParent \notin DOMAIN new.scenarios
  BY DEF IsForest
<1>12. c = Chain(new, id)
  BY <1>8, <1>10, <1>11, OneWay
<1> QED
  BY <1>12 DEF c

LEMMA AncestrySteps ==
  ASSUME NEW set, IsForest(set), NEW id \in DOMAIN set.scenarios
  PROVE  Ancestry(set, id) = {id} \cup (IF ParentOf(set, id) = NoParent THEN {}
                                        ELSE Ancestry(set, ParentOf(set, id)))
<1> DEFINE up == ParentOf(set, id)
           D == DOMAIN set.scenarios
<1>1. CASE up = NoParent
  <2>1. Chain(set, id) = <<id>>
    BY <1>1, ChainSteps
  <2>2. DOMAIN <<id>> = {1} /\ <<id>>[1] = id
    <3>1. <<id>> \in Seq({id}) /\ Len(<<id>>) = 1 /\ <<id>>[1] = id
      BY OneLong
    <3> QED
      BY <3>1, LenProperties
  <2> QED
    BY <1>1, <2>1, <2>2 DEF Ancestry, ToSet
<1>2. CASE up # NoParent
  <2>1. up \in D /\ Chain(set, id) = Append(Chain(set, up), id)
    BY <1>2, ChainSteps
  <2> DEFINE c == Chain(set, up)
  <2>2. IsWay(set, up, c)
    BY <2>1, ChainIsTheWay
  <2>3. c \in Seq(D) /\ Len(c) \in Nat /\ DOMAIN c = 1 .. Len(c)
    BY <2>2, WayEnds DEF IsWay
  <2> HIDE DEF c
  <2>4. /\ Append(c, id) \in Seq(D) /\ Len(Append(c, id)) = Len(c) + 1
        /\ Append(c, id)[Len(c) + 1] = id
        /\ \A k \in 1 .. Len(c) : Append(c, id)[k] = c[k]
    BY <2>3, AppendProperties
  <2>5. DOMAIN Append(c, id) = 1 .. Len(c) + 1
    BY <2>4, LenProperties
  <2>6. ToSet(Append(c, id)) = ToSet(c) \cup {id}
    <3> DEFINE d == Append(c, id)
               m == Len(c)
    <3>1. m \in Nat /\ DOMAIN c = 1 .. m /\ DOMAIN d = 1 .. m + 1
      BY <2>3, <2>5
    <3>2. d[m + 1] = id /\ \A k \in 1 .. m : d[k] = c[k]
      BY <2>4
    <3>3. \A k \in 1 .. m + 1 : k = m + 1 \/ k \in 1 .. m
      BY <3>1
    <3>4. m + 1 \in 1 .. m + 1 /\ \A k \in 1 .. m : k \in 1 .. m + 1
      BY <3>1
    <3> HIDE DEF d, m
    <3> QED
      BY <3>1, <3>2, <3>3, <3>4 DEF ToSet, d
  <2> QED
    BY <1>2, <2>1, <2>6 DEF Ancestry, c
<1> QED
  BY <1>1, <1>2

-----------------------------------------------------------------------------
(* Overlays, one after the other.                                          *)
LEMMA NoneOverlaid ==
  ASSUME NEW set
  PROVE  Overlaid(set, <<>>) = Authored(set.book)
<1>1. DOMAIN <<>> = 1 .. 0 /\ 0 \in Nat
  OBVIOUS
<1>2. PICK R : OverlaidRun(R, set, <<>>, 0)
  BY <1>1, OverlaidRuns
<1> QED
  BY <1>2 DEF OverlaidRun

LEMMA OneMoreOverlaid ==
  ASSUME NEW set, NEW S, NEW c \in Seq(S), NEW x \in S
  PROVE  Overlaid(set, Append(c, x)) = Overlay(set, Overlaid(set, c), x)
<1> DEFINE m == Len(c)
           d == Append(c, x)
<1>1. m \in Nat /\ DOMAIN c = 1 .. m
  BY LenProperties
<1>2. /\ d \in Seq(S) /\ Len(d) = m + 1 /\ d[m + 1] = x
      /\ \A k \in 1 .. m : d[k] = c[k]
  BY AppendProperties
<1>3. DOMAIN d = 1 .. m + 1 /\ m + 1 \in Nat
  BY <1>1, <1>2, LenProperties
<1> HIDE DEF m, d
<1>4. PICK R : OverlaidRun(R, set, c, m)
  BY <1>1, OverlaidRuns
<1>5. PICK Q : OverlaidRun(Q, set, d, m + 1)
  BY <1>3, OverlaidRuns
<1> DEFINE Bad == {n \in 0 .. m : Q[n] # R[n]}
<1>6. Bad = {}
  <2>1. SUFFICES ASSUME Bad # {} PROVE FALSE
    OBVIOUS
  <2>2. Bad \subseteq Nat
    BY <1>1
  <2>3. PICK n \in Bad : \A k \in Bad : n <= k
    <3> HIDE DEF Bad
    <3> QED
      BY <2>1, <2>2, LeastNatural
  <2>4. n # 0
    BY <1>4, <1>5, <2>3 DEF OverlaidRun
  <2>5. n \in 1 .. m /\ n \in 1 .. m + 1 /\ n - 1 \in 0 .. m /\ ~(n <= n - 1)
    BY <1>1, <2>3, <2>4
  <2>6. Q[n - 1] = R[n - 1]
    BY <2>3, <2>5
  <2>7. R[n] = Overlay(set, R[n - 1], c[n]) /\ Q[n] = Overlay(set, Q[n - 1], d[n])
    BY <1>4, <1>5, <2>5 DEF OverlaidRun
  <2> QED
    BY <1>2, <2>3, <2>5, <2>6, <2>7
<1>7. m \in 0 .. m /\ m + 1 \in 1 .. m + 1 /\ (m + 1) - 1 = m
  BY <1>1
<1>8. Q[m] = R[m]
  BY <1>6, <1>7
<1>9. Q[m + 1] = Overlay(set, Q[(m + 1) - 1], d[m + 1])
  BY <1>5, <1>7 DEF OverlaidRun
<1> QED
  BY <1>2, <1>4, <1>5, <1>7, <1>8, <1>9 DEF OverlaidRun, d

(* What a scenario resolves to, and what is above it.                      *)
Raw(set, id) == Overlaid(set, Chain(set, id))
Above(set, id) ==
    IF ParentOf(set, id) = NoParent THEN Authored(set.book) ELSE Raw(set, ParentOf(set, id))

LEMMA RawSteps ==
  ASSUME NEW set, IsForest(set), NEW id \in DOMAIN set.scenarios
  PROVE  Raw(set, id) = Overlay(set, Above(set, id), id)
<1> DEFINE up == ParentOf(set, id)
           D == DOMAIN set.scenarios
<1>1. CASE up = NoParent
  <2>1. Chain(set, id) = <<id>>
    BY <1>1, ChainSteps
  <2>2. <<id>> = Append(<<>>, id) /\ <<>> \in Seq(D)
    BY EmptySeq
  <2>3. Overlaid(set, Append(<<>>, id)) = Overlay(set, Overlaid(set, <<>>), id)
    BY <2>2, OneMoreOverlaid
  <2> QED
    BY <1>1, <2>1, <2>2, <2>3, NoneOverlaid DEF Raw, Above
<1>2. CASE up # NoParent
  <2>1. up \in D /\ Chain(set, id) = Append(Chain(set, up), id)
    BY <1>2, ChainSteps
  <2> DEFINE c == Chain(set, up)
  <2>2. c \in Seq(D)
    BY <2>1, ChainIsTheWay DEF IsWay
  <2> HIDE DEF c, D
  <2>3. Overlaid(set, Append(c, id)) = Overlay(set, Overlaid(set, c), id)
    BY <2>2, OneMoreOverlaid DEF D
  <2> QED
    BY <1>2, <2>1, <2>3 DEF Raw, Above, c
<1> QED
  BY <1>1, <1>2

LEMMA Resolved ==
  ASSUME NEW set, NEW id
  PROVE  /\ Resolve(set, id) = Opened(set, Raw(set, id))
         /\ ParentView(set, id) = Opened(set, Above(set, id))
<1>1. Resolve(set, id) = Opened(set, Raw(set, id))
  BY DEF Resolve, ResolveChain, Raw
<1>2. ParentView(set, id) = Opened(set, Above(set, id))
  BY NoneOverlaid DEF ParentView, Resolve, ResolveChain, Raw, Above, ParentOf
<1> QED
  BY <1>1, <1>2

LEMMA OpenedShows ==
  \A set, view :
     /\ Opened(set, view).items = view.items
     /\ Opened(set, view).origins = view.origins
     /\ Opened(set, view).removedBy = view.removedBy
     /\ Opened(set, view).params = view.params
     /\ Opened(set, view).events = view.events
     /\ Opened(set, view).opening = Get(view.params, OpeningBalance, set.book.opening)
BY DEF Opened

(* What holds of a scenario whenever it holds of its parent holds of all.  *)
LEMMA Downwards ==
  ASSUME NEW set, IsForest(set), NEW P,
         \A id \in DOMAIN set.scenarios :
            ParentOf(set, id) = NoParent \/ ParentOf(set, id) \in P => id \in P
  PROVE  \A id \in DOMAIN set.scenarios : id \in P
<1> DEFINE D == DOMAIN set.scenarios
<1>1. PICK rank : Depths(set, rank)
  BY DEF IsForest
<1> DEFINE Bad == {rank[id] : id \in D \ P}
<1>2. \A id \in D : rank[id] \in Nat
  BY <1>1 DEF Depths
<1>3. SUFFICES ASSUME Bad # {} PROVE FALSE
  OBVIOUS
<1>4. Bad \subseteq Nat
  BY <1>2
<1>5. PICK r \in Bad : \A q \in Bad : r <= q
  <2> HIDE DEF Bad
  <2> QED
    BY <1>3, <1>4, LeastNatural
<1>6. PICK id \in D \ P : r = rank[id]
  BY <1>5
<1>7. ParentOf(set, id) # NoParent /\ ParentOf(set, id) \notin P
  BY <1>6
<1>8. ParentOf(set, id) \in D /\ rank[ParentOf(set, id)] < rank[id]
  BY <1>1, <1>6, <1>7 DEF Depths, Ranks, ParentOf
<1>9. rank[ParentOf(set, id)] \in Bad
  BY <1>7, <1>8
<1>10. rank[id] <= rank[ParentOf(set, id)]
  BY <1>5, <1>6, <1>9
<1> QED
  BY <1>2, <1>6, <1>8, <1>10

(* One scenario over a view, field by field of the view.                   *)
Shows(s, view, v) ==
    /\ DOMAIN v.items = DOMAIN s.added \cup (DOMAIN view.items \ s.removed)
    /\ IsMap(v.items)
    /\ \A i \in DOMAIN s.added :
          v.items[i] = ApplyOverlay(s.added[i], Get(s.items, i, Nothing))
    /\ \A i \in (DOMAIN view.items \ s.removed) \ DOMAIN s.added :
          v.items[i] = ApplyOverlay(view.items[i], Get(s.items, i, Nothing))
    /\ v.params = Over(s.params, view.params)
    /\ v.events = [e \in DOMAIN s.events \cup DOMAIN view.events |->
                      Over(Get(s.events, e, Nothing), Get(view.events, e, Nothing))]

LEMMA OverlayShows ==
  \A set, view, id : Shows(set.scenarios[id], view, Overlay(set, view, id))
<1> TAKE set, view, id
<1> DEFINE s == set.scenarios[id]
           v == Overlay(set, view, id)
           kept == Restrict(view.items, DOMAIN view.items \ s.removed)
           present == Over(s.added, kept)
<1>1. v.items = [i \in DOMAIN present |-> ApplyOverlay(present[i], Get(s.items, i, Nothing))]
  BY DEF Overlay
<1>2. /\ v.params = Over(s.params, view.params)
      /\ v.events = [e \in DOMAIN s.events \cup DOMAIN view.events |->
                          Over(Get(s.events, e, Nothing), Get(view.events, e, Nothing))]
  BY DEF Overlay
<1>3. /\ DOMAIN kept = DOMAIN view.items \ s.removed
      /\ \A i \in DOMAIN kept : kept[i] = view.items[i]
  BY DEF Restrict
<1> HIDE DEF kept
<1>4. /\ DOMAIN present = DOMAIN s.added \cup DOMAIN kept
      /\ \A i \in DOMAIN s.added : present[i] = s.added[i]
      /\ \A i \in DOMAIN kept \ DOMAIN s.added : present[i] = kept[i]
  <2> DEFINE a == s.added
  <2> HIDE DEF a
  <2>1. DOMAIN Over(a, kept) = DOMAIN a \cup DOMAIN kept
    BY OverWorks
  <2>2. \A i \in DOMAIN a : Over(a, kept)[i] = a[i]
    BY OverWorks
  <2>3. \A i \in DOMAIN kept \ DOMAIN a : Over(a, kept)[i] = kept[i]
    BY OverWorks
  <2> QED
    BY <2>1, <2>2, <2>3 DEF a
<1> HIDE DEF present, v, s
<1>5. DOMAIN v.items = DOMAIN present
  BY <1>1
<1>6. \A i \in DOMAIN present : v.items[i] = ApplyOverlay(present[i], Get(s.items, i, Nothing))
  BY <1>1
<1>7. IsMap(v.items)
  BY <1>1 DEF IsMap
<1>8. DOMAIN v.items = DOMAIN s.added \cup (DOMAIN view.items \ s.removed)
  BY <1>3, <1>4, <1>5
<1>9. \A i \in DOMAIN s.added : v.items[i] = ApplyOverlay(s.added[i], Get(s.items, i, Nothing))
  BY <1>4, <1>6
<1>10. \A i \in (DOMAIN view.items \ s.removed) \ DOMAIN s.added :
              v.items[i] = ApplyOverlay(view.items[i], Get(s.items, i, Nothing))
  BY <1>3, <1>4, <1>6
<1> QED
  BY <1>2, <1>7, <1>8, <1>9, <1>10 DEF Shows, s, v


LEMMA AppliedOverlay ==
  \A item, overlay : EveryField(item) /\ DOMAIN overlay \subseteq OverlayFields =>
     /\ EveryField(ApplyOverlay(item, overlay))
     /\ \A f \in DOMAIN overlay : ApplyOverlay(item, overlay)[f] = overlay[f]
     /\ \A f \in OverlayFields \ DOMAIN overlay : ApplyOverlay(item, overlay)[f] = item[f]
BY DEF EveryField, ApplyOverlay, Over

LEMMA OverlayOfNothing ==
  \A item : EveryField(item) => ApplyOverlay(item, Nothing) = item
<1> TAKE item
<1>1. SUFFICES ASSUME EveryField(item) PROVE ApplyOverlay(item, Nothing) = item
  OBVIOUS
<1>2. IsMap(item)
  BY <1>1 DEF EveryField, IsMap
<1> QED
  BY <1>2, OverNothing DEF ApplyOverlay

(* What a scenario resolves to is a book.                                  *)
IsView(set, view) ==
    /\ IsFiniteSet(DOMAIN view.items) /\ IsMap(view.items)
    /\ \A i \in DOMAIN view.items : EveryField(view.items[i])
    /\ IsMap(view.params)
    /\ \A k \in DOMAIN view.params : view.params[k] # NoParent
    /\ DOMAIN set.book.params \subseteq DOMAIN view.params
    /\ IsMap(view.events)
    /\ \A e \in DOMAIN view.events : IsMap(view.events[e])

LEMMA AuthoredIsView ==
  ASSUME NEW set, SoundBook(set.book)
  PROVE  IsView(set, Authored(set.book))
<1> DEFINE v == Authored(set.book)
<1>1. v.items = set.book.items /\ v.params = set.book.params /\ v.events = Nothing
  BY DEF Authored
<1> HIDE DEF v
<1>2. IsMap(v.events) /\ DOMAIN v.events = {}
  BY <1>1, NothingIsEmpty
<1> QED
  BY <1>1, <1>2 DEF IsView, SoundBook, IsMap, v

LEMMA OverlayIsView ==
  ASSUME NEW set, NEW view, IsView(set, view), NEW id, SoundScenario(id, set.scenarios[id])
  PROVE  IsView(set, Overlay(set, view, id))
<1> DEFINE s == set.scenarios[id]
           v == Overlay(set, view, id)
<1>0. Shows(s, view, v)
  BY OverlayShows
<1> HIDE DEF v, s
<1>1. /\ DOMAIN v.items = DOMAIN s.added \cup (DOMAIN view.items \ s.removed)
      /\ IsMap(v.items)
      /\ \A i \in DOMAIN s.added :
            v.items[i] = ApplyOverlay(s.added[i], Get(s.items, i, Nothing))
      /\ \A i \in (DOMAIN view.items \ s.removed) \ DOMAIN s.added :
            v.items[i] = ApplyOverlay(view.items[i], Get(s.items, i, Nothing))
      /\ v.params = Over(s.params, view.params)
      /\ v.events = [e \in DOMAIN s.events \cup DOMAIN view.events |->
                        Over(Get(s.events, e, Nothing), Get(view.events, e, Nothing))]
  BY <1>0 DEF Shows
<1>2. \A i : DOMAIN Get(s.items, i, Nothing) \subseteq OverlayFields
  BY NothingIsEmpty DEF Get, SoundScenario, s
<1>3. \A i \in DOMAIN v.items : EveryField(v.items[i])
  <2> TAKE i \in DOMAIN v.items
  <2>1. DOMAIN Get(s.items, i, Nothing) \subseteq OverlayFields
    BY <1>2
  <2>2. CASE i \in DOMAIN s.added
    <3>1. EveryField(s.added[i])
      BY <2>2 DEF SoundScenario, s
    <3> QED
      BY <1>1, <2>1, <2>2, <3>1, AppliedOverlay
  <2>3. CASE i \notin DOMAIN s.added
    <3>1. i \in (DOMAIN view.items \ s.removed) \ DOMAIN s.added
      BY <1>1, <2>3
    <3>2. EveryField(view.items[i])
      BY <3>1 DEF IsView
    <3> QED
      BY <1>1, <2>1, <3>1, <3>2, AppliedOverlay
  <2> QED
    BY <2>2, <2>3
<1> DEFINE sp == s.params
           vp == view.params
<1> HIDE DEF sp, vp
<1>11. DOMAIN Over(sp, vp) = DOMAIN sp \cup DOMAIN vp
  BY OverWorks
<1>12. IsMap(Over(sp, vp))
  BY OverWorks
<1>4. IsMap(v.params) /\ DOMAIN v.params = DOMAIN s.params \cup DOMAIN view.params
  BY <1>1, <1>11, <1>12 DEF sp, vp
<1>5. \A k \in DOMAIN v.params : v.params[k] # NoParent
  <2> TAKE k \in DOMAIN v.params
  <2>1. CASE k \in DOMAIN s.params
    <3>1. v.params[k] = s.params[k]
      BY <1>1, <2>1, OverWorks
    <3> QED
      BY <2>1, <3>1 DEF SoundScenario, s
  <2>2. CASE k \notin DOMAIN s.params
    <3>1. k \in DOMAIN view.params \ DOMAIN s.params
      BY <1>4, <2>2
    <3>2. v.params[k] = view.params[k]
      BY <1>1, <3>1, OverWorks
    <3> QED
      BY <3>1, <3>2 DEF IsView
  <2> QED
    BY <2>1, <2>2
<1>6. DOMAIN set.book.params \subseteq DOMAIN v.params
  BY <1>4 DEF IsView
<1>7. IsMap(v.events) /\ \A e \in DOMAIN v.events : IsMap(v.events[e])
  <2>1. IsMap(v.events)
    BY <1>1 DEF IsMap
  <2>2. \A e \in DOMAIN v.events :
           v.events[e] = Over(Get(s.events, e, Nothing), Get(view.events, e, Nothing))
    BY <1>1
  <2> QED
    BY <2>1, <2>2, OverWorks
<1>9. IsFiniteSet(DOMAIN v.items)
  <2> DEFINE U == DOMAIN s.added \cup DOMAIN view.items
  <2>1. IsFiniteSet(DOMAIN s.added) /\ IsFiniteSet(DOMAIN view.items)
    BY DEF IsView, SoundScenario, s
  <2>2. IsFiniteSet(U)
    BY <2>1, FS_Union
  <2>3. DOMAIN v.items \subseteq U
    BY <1>1
  <2> HIDE DEF U
  <2> QED
    BY <2>2, <2>3, FS_Subset
<1>8. IsView(set, v)
  BY <1>1, <1>3, <1>4, <1>5, <1>6, <1>7, <1>9 DEF IsView
<1> QED
  BY <1>8 DEF v

LEMMA ViewsAreBooks ==
  ASSUME NEW set, SoundSet(set), IsForest(set), NEW id \in DOMAIN set.scenarios
  PROVE  IsView(set, Raw(set, id)) /\ IsView(set, Above(set, id))
<1> DEFINE D == DOMAIN set.scenarios
           P == {u \in D : IsView(set, Raw(set, u))}
<1>1. IsView(set, Authored(set.book))
  BY AuthoredIsView DEF SoundSet
<1>2. ASSUME NEW u \in D, ParentOf(set, u) = NoParent \/ ParentOf(set, u) \in P
      PROVE  IsView(set, Above(set, u))
  BY <1>1, <1>2 DEF Above
<1>3. ASSUME NEW u \in D, ParentOf(set, u) = NoParent \/ ParentOf(set, u) \in P
      PROVE  u \in P
  <2>1. IsView(set, Above(set, u))
    BY <1>2, <1>3
  <2>2. SoundScenario(u, set.scenarios[u])
    BY DEF SoundSet
  <2>3. IsView(set, Overlay(set, Above(set, u), u))
    BY <2>1, <2>2, OverlayIsView
  <2> QED
    BY <2>3, RawSteps
<1>4. \A u \in D : u \in P
  <2> HIDE DEF P
  <2> QED
    BY <1>3, Downwards
<1>5. ParentOf(set, id) # NoParent => ParentOf(set, id) \in D
  BY ChainSteps
<1>6. IsView(set, Above(set, id))
  BY <1>2, <1>4, <1>5
<1> QED
  BY <1>4, <1>6

(* Where the ancestors record the same, the same is read.                  *)
SameRecords(old, new, id) ==
    \A u \in Ancestry(old, id) :
        u \in DOMAIN new.scenarios /\ new.scenarios[u] = old.scenarios[u]

LEMMA SameRecordsAbove ==
  ASSUME NEW old, NEW new, IsForest(old), NEW id \in DOMAIN old.scenarios,
         SameRecords(old, new, id), ParentOf(old, id) # NoParent
  PROVE  ParentOf(old, id) \in DOMAIN old.scenarios /\ SameRecords(old, new, ParentOf(old, id))
BY ChainSteps, AncestrySteps DEF SameRecords

LEMMA SameChain ==
  ASSUME NEW old, NEW new, IsForest(old), IsForest(new), NEW id \in DOMAIN old.scenarios,
         SameRecords(old, new, id)
  PROVE  /\ id \in DOMAIN new.scenarios /\ new.scenarios[id] = old.scenarios[id]
         /\ Chain(new, id) = Chain(old, id)
<1>1. id \in Ancestry(old, id)
  BY AncestrySteps
<1>2. \A u \in Ancestry(old, id) :
            u \in DOMAIN new.scenarios /\ ParentOf(new, u) = ParentOf(old, u)
  BY DEF SameRecords, ParentOf
<1>3. Chain(new, id) = Chain(old, id)
  BY <1>2, SameWay
<1> QED
  BY <1>1, <1>3 DEF SameRecords

LEMMA SameViews ==
  ASSUME NEW old, NEW new, IsForest(old), IsForest(new), new.book = old.book,
         NEW id \in DOMAIN old.scenarios, SameRecords(old, new, id)
  PROVE  Resolve(new, id) = Resolve(old, id)
<1> DEFINE P == {u \in DOMAIN old.scenarios :
                    SameRecords(old, new, u) => Raw(new, u) = Raw(old, u)}
<1>1. ASSUME NEW u \in DOMAIN old.scenarios,
             ParentOf(old, u) = NoParent \/ ParentOf(old, u) \in P
      PROVE  u \in P
  <2>1. SUFFICES ASSUME SameRecords(old, new, u) PROVE Raw(new, u) = Raw(old, u)
    OBVIOUS
  <2>2. u \in DOMAIN new.scenarios /\ new.scenarios[u] = old.scenarios[u]
    BY <2>1, SameChain
  <2>3. ParentOf(new, u) = ParentOf(old, u)
    BY <2>2 DEF ParentOf
  <2>4. Above(new, u) = Above(old, u)
    <3>1. CASE ParentOf(old, u) = NoParent
      BY <2>3, <3>1 DEF Above
    <3>2. CASE ParentOf(old, u) # NoParent
      <4>1. SameRecords(old, new, ParentOf(old, u)) /\ ParentOf(old, u) \in P
        BY <1>1, <2>1, <3>2, SameRecordsAbove
      <4>2. Raw(new, ParentOf(old, u)) = Raw(old, ParentOf(old, u))
        BY <4>1
      <4> QED
        BY <2>3, <3>2, <4>2 DEF Above
    <3> QED
      BY <3>1, <3>2
  <2>5. Overlay(new, Above(new, u), u) = Overlay(old, Above(old, u), u)
    BY <2>2, <2>4 DEF Overlay
  <2> QED
    BY <2>2, <2>5, RawSteps
<1>2. \A u \in DOMAIN old.scenarios : u \in P
  <2> HIDE DEF P
  <2> QED
    BY <1>1, Downwards
<1>3. Raw(new, id) = Raw(old, id)
  BY <1>2
<1> QED
  BY <1>3, Resolved DEF Opened

-----------------------------------------------------------------------------
(* What a write may change: the records of the scenarios of T, and the     *)
(* items of the book when the base scenario is one of them.                *)
Sound(set) == SoundSet(set) /\ IsForest(set)

Touches(old, new, T) ==
    /\ DOMAIN old.scenarios \subseteq DOMAIN new.scenarios
    /\ \A s \in DOMAIN old.scenarios :
          /\ ParentOf(new, s) = ParentOf(old, s)
          /\ s \notin T => new.scenarios[s] = old.scenarios[s]
    /\ Base \notin T => new.book.items = old.book.items

Reaches(old, new, T) == Sound(new) /\ Touches(old, new, T)

LEMMA TouchesAdds ==
  \A a, b, c, T : Touches(a, b, T) /\ Touches(b, c, T) => Touches(a, c, T)
BY DEF Touches

LEMMA TouchesMore ==
  \A a, b, T, U : Touches(a, b, T) /\ T \subseteq U => Touches(a, b, U)
BY DEF Touches

LEMMA UntouchedReaches ==
  \A set, T : Sound(set) => Reaches(set, set, T)
BY DEF Reaches, Touches

LEMMA ReplaceReaches ==
  ASSUME NEW set, Sound(set), NEW id \in DOMAIN set.scenarios, NEW s,
         SoundScenario(id, s), s.parent = ParentOf(set, id),
         id = Base => s = EmptyScenario(NoParent)
  PROVE  Reaches(set, Replace(set, id, s), {id})
<1> DEFINE new == Replace(set, id, s)
           D == DOMAIN set.scenarios
<1>1. /\ DOMAIN new = DOMAIN set /\ new.book = set.book
      /\ DOMAIN new.scenarios = D
      /\ new.scenarios[id] = s
      /\ \A u \in D \ {id} : new.scenarios[u] = set.scenarios[u]
  BY DEF Replace, Sound, SoundSet
<1> HIDE DEF new
<1>2. \A u \in D : ParentOf(new, u) = ParentOf(set, u)
  BY <1>1 DEF ParentOf
<1>3. SoundSet(new)
  <2>1. \A u \in D : SoundScenario(u, new.scenarios[u])
    BY <1>1 DEF Sound, SoundSet
  <2>2. new.scenarios[Base] = EmptyScenario(NoParent)
    BY <1>1 DEF Sound, SoundSet
  <2> QED
    BY <1>1, <2>1, <2>2 DEF Sound, SoundSet
<1>4. IsForest(new)
  <2>1. PICK rank : Depths(set, rank)
    BY DEF Sound, IsForest
  <2>2. Depths(new, rank)
    BY <1>1, <1>2, <2>1 DEF Depths, Ranks, ParentOf
  <2> QED
    BY <1>1, <2>2 DEF Sound, IsForest
<1>5. Touches(set, new, {id})
  BY <1>1, <1>2 DEF Touches
<1> QED
  BY <1>3, <1>4, <1>5 DEF Reaches, Sound, new

LEMMA NewReaches ==
  ASSUME NEW set, Sound(set), NEW id \in ScenarioIds \ DOMAIN set.scenarios, NEW s,
         SoundScenario(id, s), s.parent \in DOMAIN set.scenarios \cup {NoParent}
  PROVE  Reaches(set, [set EXCEPT !.scenarios = With(@, id, s)], {})
<1> DEFINE new == [set EXCEPT !.scenarios = With(@, id, s)]
           D == DOMAIN set.scenarios
           W == With(set.scenarios, id, s)
<1>1. /\ DOMAIN W = D \cup {id}
      /\ W[id] = s
      /\ \A u \in D \ {id} : W[u] = set.scenarios[u]
  <2> DEFINE m == set.scenarios
  <2> HIDE DEF m
  <2>1. DOMAIN With(m, id, s) = DOMAIN m \cup {id}
    BY WithWorks
  <2>2. With(m, id, s)[id] = s
    BY WithWorks
  <2>3. \A u \in DOMAIN m \ {id} : With(m, id, s)[u] = m[u]
    BY WithWorks
  <2> QED
    BY <2>1, <2>2, <2>3 DEF m
<1> HIDE DEF W
<1>2. DOMAIN new = DOMAIN set /\ new.book = set.book /\ new.scenarios = W
  BY DEF Sound, SoundSet, W
<1> HIDE DEF new
<1>3. \A u \in D : new.scenarios[u] = set.scenarios[u]
  BY <1>1, <1>2
<1>4. SoundSet(new)
  <2>1. \A u \in D \cup {id} : SoundScenario(u, new.scenarios[u])
    BY <1>1, <1>2, <1>3 DEF Sound, SoundSet
  <2>2. IsFiniteSet(D \cup {id})
    BY FS_AddElement DEF Sound, SoundSet
  <2> QED
    BY <1>1, <1>2, <1>3, <2>1, <2>2 DEF Sound, SoundSet
<1>5. IsForest(new)
  <2>1. PICK rank : Depths(set, rank)
    BY DEF Sound, IsForest
  <2> DEFINE top == IF s.parent = NoParent THEN 0 ELSE rank[s.parent] + 1
             R == [u \in D \cup {id} |-> IF u = id THEN top ELSE rank[u]]
  <2>2. \A u \in D : rank[u] \in Nat
    BY <2>1 DEF Depths
  <2>3. top \in Nat /\ (s.parent # NoParent => s.parent \in D /\ rank[s.parent] < top)
    BY <2>2
  <2>4. R[id] = top /\ \A u \in D : R[u] = rank[u]
    OBVIOUS
  <2>5. \A u \in D : ParentOf(set, u) # NoParent
                        => ParentOf(set, u) \in D /\ rank[ParentOf(set, u)] < rank[u]
    BY <2>1 DEF Depths, Ranks, ParentOf
  <2> HIDE DEF top, R
  <2>6. \A u \in D \cup {id} : ParentOf(new, u) # NoParent
                        => ParentOf(new, u) \in D \cup {id} /\ R[ParentOf(new, u)] < R[u]
    <3> TAKE u \in D \cup {id}
    <3>1. CASE u = id
      <4>1. ParentOf(new, u) = s.parent
        BY <1>1, <1>2, <3>1 DEF ParentOf
      <4> QED
        BY <2>3, <2>4, <3>1, <4>1
    <3>2. CASE u # id
      <4>1. u \in D /\ ParentOf(new, u) = ParentOf(set, u)
        BY <1>3, <3>2 DEF ParentOf
      <4> QED
        BY <2>4, <2>5, <4>1
    <3> QED
      BY <3>1, <3>2
  <2>7. Depths(new, R)
    BY <1>1, <1>2, <2>2, <2>3, <2>4, <2>6 DEF Depths, Ranks, ParentOf
  <2>8. NoParent \notin D \cup {id}
    BY BaseIsAScenario DEF Sound, IsForest
  <2>9. IsFiniteSet(D \cup {id})
    BY FS_AddElement DEF Sound, SoundSet
  <2> QED
    BY <1>1, <1>2, <2>7, <2>8, <2>9 DEF IsForest
<1>6. Touches(set, new, {})
  BY <1>1, <1>2, <1>3 DEF Touches, ParentOf
<1> QED
  BY <1>4, <1>5, <1>6 DEF Reaches, Sound, new

LEMMA BookReaches ==
  ASSUME NEW set, Sound(set), NEW book, SoundBook(book), NEW T,
         Base \notin T => book.items = set.book.items
  PROVE  Reaches(set, [set EXCEPT !.book = book], T)
<1> DEFINE new == [set EXCEPT !.book = book]
<1>1. DOMAIN new = DOMAIN set /\ new.book = book /\ new.scenarios = set.scenarios
  BY DEF Sound, SoundSet
<1> HIDE DEF new
<1>2. SoundSet(new) /\ IsForest(new)
  BY <1>1 DEF Sound, SoundSet, IsForest, Depths, Ranks
<1>3. Touches(set, new, T)
  BY <1>1 DEF Touches, ParentOf
<1> QED
  BY <1>2, <1>3 DEF Reaches, Sound, new

(* The writes to one scenario.                                             *)
LEMMA ItemsOfBookReach ==
  ASSUME NEW set, Sound(set), NEW items, IsMap(items),
         IsFiniteSet(DOMAIN items),
         \A i \in DOMAIN items : EveryField(items[i])
  PROVE  Reaches(set, [set EXCEPT !.book.items = items], {Base})
<1> DEFINE book == [set.book EXCEPT !.items = items]
<1>1. SoundBook(set.book) /\ "items" \in DOMAIN set.book
  BY DEF Sound, SoundSet, SoundBook
<1>2. /\ DOMAIN book = DOMAIN set.book /\ book.items = items
      /\ book.params = set.book.params
  BY <1>1
<1>3. [set EXCEPT !.book.items = items] = [set EXCEPT !.book = book]
  BY DEF Sound, SoundSet
<1> HIDE DEF book
<1>4. SoundBook(book)
  BY <1>1, <1>2 DEF SoundBook, IsMap
<1> QED
  BY <1>3, <1>4, BookReaches

LEMMA AuthoredItemReaches ==
  ASSUME NEW set, Sound(set), NEW i, NEW item, EveryField(item)
  PROVE  /\ Reaches(set, SetAuthoredItem(set, i, item), {Base})
         /\ Reaches(set, [set EXCEPT !.book.items = Without(@, i)], {Base})
<1> DEFINE m == set.book.items
<1>1. IsFiniteSet(DOMAIN m) /\ \A j \in DOMAIN m : EveryField(m[j])
  BY DEF Sound, SoundSet, SoundBook
<1> HIDE DEF m
<1>2. /\ DOMAIN With(m, i, item) = DOMAIN m \cup {i}
      /\ IsMap(With(m, i, item))
      /\ With(m, i, item)[i] = item
      /\ \A j \in DOMAIN m \ {i} : With(m, i, item)[j] = m[j]
  <2>1. DOMAIN With(m, i, item) = DOMAIN m \cup {i}
    BY WithWorks
  <2>2. IsMap(With(m, i, item))
    BY WithWorks
  <2>3. With(m, i, item)[i] = item
    BY WithWorks
  <2>4. \A j \in DOMAIN m \ {i} : With(m, i, item)[j] = m[j]
    BY WithWorks
  <2> QED
    BY <2>1, <2>2, <2>3, <2>4
<1>3. /\ IsFiniteSet(DOMAIN With(m, i, item))
      /\ \A j \in DOMAIN With(m, i, item) : EveryField(With(m, i, item)[j])
  BY <1>1, <1>2, FS_AddElement
<1>4. /\ DOMAIN Without(m, i) = DOMAIN m \ {i}
      /\ IsMap(Without(m, i))
      /\ \A j \in DOMAIN m \ {i} : Without(m, i)[j] = m[j]
  BY WithoutWorks
<1>5. /\ IsFiniteSet(DOMAIN Without(m, i))
      /\ \A j \in DOMAIN Without(m, i) : EveryField(Without(m, i)[j])
  BY <1>1, <1>4, FS_RemoveElement
<1> DEFINE a == With(m, i, item)
           b == Without(m, i)
<1> HIDE DEF a, b
<1>6. Reaches(set, [set EXCEPT !.book.items = a], {Base})
  BY <1>2, <1>3, ItemsOfBookReach DEF a
<1>7. Reaches(set, [set EXCEPT !.book.items = b], {Base})
  BY <1>4, <1>5, ItemsOfBookReach DEF b
<1>8. "items" \in DOMAIN set.book /\ "book" \in DOMAIN set
  BY DEF Sound, SoundSet, SoundBook
<1>9. SetAuthoredItem(set, i, item) = [set EXCEPT !.book.items = a]
  BY <1>8 DEF SetAuthoredItem, a, m
<1>10. [set EXCEPT !.book.items = Without(@, i)] = [set EXCEPT !.book.items = b]
  BY <1>8 DEF b, m
<1> QED
  BY <1>6, <1>7, <1>9, <1>10

(* The record a scenario is left with by an addition, an overlay, a        *)
(* removal, an unset.                                                      *)
LEMMA SoundRecords ==
  ASSUME NEW id, NEW s, SoundScenario(id, s), NEW new,
         {"parent", "params", "items", "added", "removed", "events"} \subseteq DOMAIN new,
         new.parent = s.parent, new.params = s.params,
         DOMAIN new.items \cap DOMAIN new.added = {}, IsFiniteSet(DOMAIN new.added),
         NEW i,
         \A j \in DOMAIN new.items :
            \/ DOMAIN new.items[j] \in (SUBSET OverlayFields) \ {{}}
            \/ j # i /\ j \in DOMAIN s.items /\ new.items[j] = s.items[j],
         \A j \in DOMAIN new.added :
            \/ EveryField(new.added[j])
            \/ j # i /\ j \in DOMAIN s.added /\ new.added[j] = s.added[j]
  PROVE  SoundScenario(id, new)
<1>1. StructurallyConsistent(id, new)
  BY DEF SoundScenario, StructurallyConsistent
<1>2. \A j \in DOMAIN new.items : DOMAIN new.items[j] \in (SUBSET OverlayFields) \ {{}}
  BY DEF SoundScenario
<1>3. \A j \in DOMAIN new.added : EveryField(new.added[j])
  BY DEF SoundScenario
<1> QED
  BY <1>1, <1>2, <1>3 DEF SoundScenario

LEMMA AddReaches ==
  ASSUME NEW set, Sound(set), NEW id \in DOMAIN set.scenarios \ {Base}, NEW i, NEW item,
         EveryField(item)
  PROVE  Reaches(set, AddToScenario(set, id, i, item), {id})
<1> DEFINE s == set.scenarios[id]
           a == s.added
           o == s.items
           A == With(a, i, item)
           B == Without(o, i)
           new == [s EXCEPT !.added = A, !.items = B, !.removed = @ \ {i}]
<1>1. SoundScenario(id, s)
  BY DEF Sound, SoundSet
<1>0. DOMAIN o \cap DOMAIN a = {}
  BY <1>1 DEF SoundScenario, StructurallyConsistent
<1> HIDE DEF s, a, o
<1>2. /\ DOMAIN A = DOMAIN a \cup {i} /\ A[i] = item
      /\ \A j \in DOMAIN a \ {i} : A[j] = a[j]
  <2>1. DOMAIN A = DOMAIN a \cup {i}
    BY WithWorks
  <2>2. A[i] = item
    BY WithWorks
  <2>3. \A j \in DOMAIN a \ {i} : A[j] = a[j]
    BY WithWorks
  <2> QED
    BY <2>1, <2>2, <2>3
<1>3. DOMAIN B = DOMAIN o \ {i} /\ \A j \in DOMAIN o \ {i} : B[j] = o[j]
  BY WithoutWorks
<1> HIDE DEF A, B
<1>4. /\ DOMAIN new = DOMAIN s /\ new.parent = s.parent /\ new.params = s.params
      /\ new.items = B /\ new.added = A
  BY <1>1 DEF SoundScenario
<1>5. AddToScenario(set, id, i, item) = Replace(set, id, new)
  BY DEF AddToScenario, s, a, o, A, B
<1> HIDE DEF new
<1>6. {"parent", "params", "items", "added", "removed", "events"} \subseteq DOMAIN new
  BY <1>1, <1>4 DEF SoundScenario
<1>7. DOMAIN new.items \cap DOMAIN new.added = {} /\ IsFiniteSet(DOMAIN new.added)
  BY <1>0, <1>1, <1>2, <1>3, <1>4, FS_AddElement DEF SoundScenario, a
<1>8. \A j \in DOMAIN new.items :
         \/ DOMAIN new.items[j] \in (SUBSET OverlayFields) \ {{}}
         \/ j # i /\ j \in DOMAIN s.items /\ new.items[j] = s.items[j]
  BY <1>3, <1>4 DEF o
<1>9. \A j \in DOMAIN new.added :
         \/ EveryField(new.added[j])
         \/ j # i /\ j \in DOMAIN s.added /\ new.added[j] = s.added[j]
  BY <1>2, <1>4 DEF a
<1>10. SoundScenario(id, new)
  BY <1>1, <1>4, <1>6, <1>7, <1>8, <1>9, SoundRecords
<1> QED
  BY <1>4, <1>5, <1>10, ReplaceReaches DEF ParentOf, s

LEMMA DiffShows ==
  \A item, parent : EveryField(item) =>
     /\ DOMAIN DiffOverlay(item, parent) = DiffFields(item, parent)
     /\ DOMAIN DiffOverlay(item, parent) \subseteq OverlayFields
     /\ IsMap(DiffOverlay(item, parent))
     /\ DiffOverlay(item, parent) # Nothing => DOMAIN DiffOverlay(item, parent) # {}
     /\ \A f \in DiffFields(item, parent) : DiffOverlay(item, parent)[f] = item[f]
<1> TAKE item, parent
<1>1. SUFFICES ASSUME EveryField(item)
      PROVE  /\ DOMAIN DiffOverlay(item, parent) = DiffFields(item, parent)
             /\ DOMAIN DiffOverlay(item, parent) \subseteq OverlayFields
             /\ IsMap(DiffOverlay(item, parent))
             /\ DiffOverlay(item, parent) # Nothing => DOMAIN DiffOverlay(item, parent) # {}
             /\ \A f \in DiffFields(item, parent) : DiffOverlay(item, parent)[f] = item[f]
  OBVIOUS
<1>2. DiffFields(item, parent) \subseteq OverlayFields
  BY DEF DiffFields
<1>3. DiffOverlay(item, parent) = [f \in DiffFields(item, parent) |-> item[f]]
  BY DEF DiffOverlay, Restrict
<1>4. IsMap(DiffOverlay(item, parent))
  BY <1>3 DEF IsMap
<1> QED
  BY <1>2, <1>3, <1>4, NothingIsEmpty

LEMMA OverlayReaches ==
  ASSUME NEW set, Sound(set), NEW id \in DOMAIN set.scenarios \ {Base}, NEW i, NEW item,
         EveryField(item), NEW parent
  PROVE  Reaches(set, OverlayInScenario(set, id, i, item, parent), {id})
<1> DEFINE s == set.scenarios[id]
           a == s.added
           o == s.items
           record == DiffOverlay(item, parent)
           A == Without(a, i)
           B == Put(o, i, record)
           new == [s EXCEPT !.items = B, !.added = A, !.removed = @ \ {i}]
<1>1. SoundScenario(id, s)
  BY DEF Sound, SoundSet
<1>0. DOMAIN o \cap DOMAIN a = {}
  BY <1>1 DEF SoundScenario, StructurallyConsistent
<1>r. DOMAIN record \subseteq OverlayFields /\ (record # Nothing => DOMAIN record # {})
  BY DiffShows
<1> HIDE DEF s, a, o, record
<1>2. DOMAIN A = DOMAIN a \ {i} /\ \A j \in DOMAIN a \ {i} : A[j] = a[j]
  BY WithoutWorks
<1>3. /\ DOMAIN B \subseteq DOMAIN o \cup {i}
      /\ \A j \in DOMAIN B : \/ j = i /\ record # Nothing /\ B[j] = record
                             \/ j # i /\ j \in DOMAIN o /\ B[j] = o[j]
  BY PutWorks
<1> HIDE DEF A, B
<1>4. /\ DOMAIN new = DOMAIN s /\ new.parent = s.parent /\ new.params = s.params
      /\ new.items = B /\ new.added = A
  BY <1>1 DEF SoundScenario
<1>5. OverlayInScenario(set, id, i, item, parent) \in {set, Replace(set, id, new)}
  BY DEF OverlayInScenario, s, a, o, A, B, record
<1> HIDE DEF new
<1>6. {"parent", "params", "items", "added", "removed", "events"} \subseteq DOMAIN new
  BY <1>1, <1>4 DEF SoundScenario
<1>7. DOMAIN new.items \cap DOMAIN new.added = {} /\ IsFiniteSet(DOMAIN new.added)
  BY <1>0, <1>1, <1>2, <1>3, <1>4, FS_RemoveElement DEF SoundScenario, a
<1>8. \A j \in DOMAIN new.items :
         \/ DOMAIN new.items[j] \in (SUBSET OverlayFields) \ {{}}
         \/ j # i /\ j \in DOMAIN s.items /\ new.items[j] = s.items[j]
  <2> TAKE j \in DOMAIN new.items
  <2>1. j \in DOMAIN B /\ new.items[j] = B[j]
    BY <1>4
  <2>2. CASE j = i /\ record # Nothing /\ B[j] = record
    <3>1. DOMAIN new.items[j] = DOMAIN record
      BY <2>1, <2>2
    <3>2. DOMAIN record # {} /\ DOMAIN record \subseteq OverlayFields
      BY <1>r, <2>2
    <3> QED
      BY <3>1, <3>2
  <2>3. CASE j # i /\ j \in DOMAIN o /\ B[j] = o[j]
    BY <2>1, <2>3 DEF o
  <2> QED
    BY <1>3, <2>1, <2>2, <2>3
<1>9. \A j \in DOMAIN new.added :
         \/ EveryField(new.added[j])
         \/ j # i /\ j \in DOMAIN s.added /\ new.added[j] = s.added[j]
  BY <1>2, <1>4 DEF a
<1>10. SoundScenario(id, new)
  BY <1>1, <1>4, <1>6, <1>7, <1>8, <1>9, SoundRecords
<1>11. Reaches(set, Replace(set, id, new), {id})
  BY <1>4, <1>10, ReplaceReaches DEF ParentOf, s
<1> QED
  BY <1>5, <1>11, UntouchedReaches

LEMMA SetItemReaches ==
  ASSUME NEW set, Sound(set), NEW id, NEW i, NEW item, EveryField(item)
  PROVE  Reaches(set, SetItem(set, id, i, item), {id})
<1> DEFINE parent == ParentView(set, id).items
<1> HIDE DEF parent
<1>1. CASE ~Exists(set, id)
  <2>1. SetItem(set, id, i, item) = set
    BY <1>1 DEF SetItem
  <2> QED
    BY <2>1, UntouchedReaches
<1>2. CASE Exists(set, id) /\ id = Base
  <2>1. SetItem(set, id, i, item) = SetAuthoredItem(set, i, item)
    BY <1>2 DEF SetItem
  <2> QED
    <3>1. Reaches(set, SetAuthoredItem(set, i, item), {Base})
      BY AuthoredItemReaches
    <3> QED
      BY <1>2, <2>1, <3>1
<1>3. CASE Exists(set, id) /\ id # Base /\ i \in DOMAIN parent
  <2>1. SetItem(set, id, i, item) = OverlayInScenario(set, id, i, item, parent[i])
    BY <1>3 DEF SetItem, parent
  <2> QED
    BY <1>3, <2>1, OverlayReaches DEF Exists
<1>4. CASE Exists(set, id) /\ id # Base /\ i \notin DOMAIN parent
  <2>1. SetItem(set, id, i, item) = AddToScenario(set, id, i, item)
    BY <1>4 DEF SetItem, parent
  <2> QED
    BY <1>4, <2>1, AddReaches DEF Exists
<1> QED
  BY <1>1, <1>2, <1>3, <1>4

LEMMA SetParamReaches ==
  ASSUME NEW set, Sound(set), NEW id, NEW key, NEW value, value # NoParent
  PROVE  Reaches(set, SetParam(set, id, key, value), {id})
<1>1. CASE ~Exists(set, id)
  <2>1. SetParam(set, id, key, value) = set
    BY <1>1 DEF SetParam
  <2> QED
    BY <2>1, UntouchedReaches
<1>2. CASE Exists(set, id) /\ id = Base
  <2> DEFINE m == set.book.params
             p == With(m, key, value)
             book == [set.book EXCEPT !.params = p]
  <2>1. SoundBook(set.book) /\ "params" \in DOMAIN set.book /\ "book" \in DOMAIN set
    BY DEF Sound, SoundSet, SoundBook
  <2>2. SetParam(set, id, key, value) = [set EXCEPT !.book = book]
    BY <1>2, <2>1 DEF SetParam
  <2>3. /\ DOMAIN book = DOMAIN set.book /\ book.items = set.book.items /\ book.params = p
    BY <2>1 DEF SoundBook
  <2>4. \A k \in DOMAIN m : m[k] # NoParent
    BY <2>1 DEF SoundBook
  <2> HIDE DEF m, book
  <2>5. DOMAIN p = DOMAIN m \cup {key}
    BY WithWorks
  <2>6. IsMap(p)
    BY WithWorks
  <2>7. p[key] = value
    BY WithWorks
  <2>8. \A k \in DOMAIN m \ {key} : p[k] = m[k]
    BY WithWorks
  <2> HIDE DEF p
  <2>9. SoundBook(book)
    BY <2>1, <2>3, <2>4, <2>5, <2>6, <2>7, <2>8 DEF SoundBook, IsMap
  <2>10. Reaches(set, [set EXCEPT !.book = book], {id})
    BY <2>3, <2>9, BookReaches
  <2> QED
    BY <2>2, <2>10
<1>3. CASE Exists(set, id) /\ id # Base
  <2> DEFINE s == set.scenarios[id]
             inherited == ParentView(set, id).params
             record == IF Get(inherited, key, NoParent) = value THEN Nothing
                       ELSE [k \in {key} |-> value]
             left == Without(s.params, key)
             p == Over(record, left)
             new == [s EXCEPT !.params = p]
  <2>1. SoundScenario(id, s) /\ id \in DOMAIN set.scenarios /\ "scenarios" \in DOMAIN set
    BY <1>3 DEF Sound, SoundSet, Exists
  <2>2. SetParam(set, id, key, value) = Replace(set, id, new)
    BY <1>3, <2>1 DEF SetParam, Replace, SoundScenario
  <2>3. \A k \in DOMAIN record : record[k] # NoParent
    BY NothingIsEmpty
  <2>4. \A k \in DOMAIN left : left[k] # NoParent
    <3> DEFINE q == s.params
    <3>1. \A k \in DOMAIN q : q[k] # NoParent
      BY <2>1 DEF SoundScenario
    <3> HIDE DEF q
    <3>2. DOMAIN Without(q, key) = DOMAIN q \ {key}
      BY WithoutWorks
    <3>3. \A k \in DOMAIN q \ {key} : Without(q, key)[k] = q[k]
      BY WithoutWorks
    <3> QED
      BY <3>1, <3>2, <3>3 DEF q
  <2>5. \A k \in DOMAIN p : p[k] # NoParent
    <3> HIDE DEF record, left
    <3>1. DOMAIN p = DOMAIN record \cup DOMAIN left
      BY OverWorks
    <3>2. \A k \in DOMAIN record : p[k] = record[k]
      BY OverWorks
    <3>3. \A k \in DOMAIN left \ DOMAIN record : p[k] = left[k]
      BY OverWorks
    <3> HIDE DEF p
    <3> QED
      BY <2>3, <2>4, <3>1, <3>2, <3>3
  <2> HIDE DEF p
  <2>6. /\ DOMAIN new = DOMAIN s /\ new.parent = s.parent /\ new.params = p
        /\ new.items = s.items /\ new.added = s.added
    BY <2>1 DEF SoundScenario
  <2> HIDE DEF new, s
  <2>7. SoundScenario(id, new)
    BY <2>1, <2>5, <2>6 DEF SoundScenario, StructurallyConsistent
  <2>8. Reaches(set, Replace(set, id, new), {id})
    BY <1>3, <2>1, <2>6, <2>7, ReplaceReaches DEF ParentOf, s
  <2> QED
    BY <2>2, <2>8
<1> QED
  BY <1>1, <1>2, <1>3

LEMMA UnsetReaches ==
  ASSUME NEW set, Sound(set), NEW id, NEW i
  PROVE  Reaches(set, Unset(set, id, i), {id})
<1>1. CASE ~Exists(set, id)
  <2>1. Unset(set, id, i) = set
    BY <1>1 DEF Unset
  <2> QED
    BY <2>1, UntouchedReaches
<1>2. CASE Exists(set, id)
  <2> DEFINE s == set.scenarios[id]
             a == s.added
             o == s.items
             A == Without(a, i)
             B == Without(o, i)
             new == [s EXCEPT !.items = B, !.added = A, !.removed = @ \ {i}]
  <2>1. SoundScenario(id, s) /\ id \in DOMAIN set.scenarios
    BY <1>2 DEF Sound, SoundSet, Exists
  <2>2. DOMAIN o \cap DOMAIN a = {}
    BY <2>1 DEF SoundScenario, StructurallyConsistent
  <2>3. id = Base => s = EmptyScenario(NoParent)
    BY DEF Sound, SoundSet
  <2> HIDE DEF s, a, o
  <2>4. DOMAIN A = DOMAIN a \ {i} /\ \A j \in DOMAIN a \ {i} : A[j] = a[j]
    BY WithoutWorks
  <2>5. DOMAIN B = DOMAIN o \ {i} /\ \A j \in DOMAIN o \ {i} : B[j] = o[j]
    BY WithoutWorks
  <2>6. id = Base => new = EmptyScenario(NoParent)
    <3>1. Without(Nothing, i) = Nothing
      BY NothingIsEmpty, WithoutWorks
    <3>2. SUFFICES ASSUME id = Base PROVE new = EmptyScenario(NoParent)
      OBVIOUS
    <3>3. s = EmptyScenario(NoParent)
      BY <2>3, <3>2
    <3>4. a = Nothing /\ o = Nothing /\ s.removed = {}
      BY <3>3 DEF EmptyScenario, a, o
    <3>5. A = Nothing /\ B = Nothing
      BY <3>1, <3>4
    <3> HIDE DEF A, B
    <3>6. new = [EmptyScenario(NoParent) EXCEPT !.items = Nothing, !.added = Nothing, !.removed = {}]
      BY <3>3, <3>4, <3>5
    <3>7. [EmptyScenario(NoParent) EXCEPT !.items = Nothing, !.added = Nothing, !.removed = {}]
              = EmptyScenario(NoParent)
      <4> DEFINE e == EmptyScenario(NoParent)
                 n == [e EXCEPT !.items = Nothing, !.added = Nothing, !.removed = {}]
      <4>1. e.items = Nothing /\ e.added = Nothing /\ e.removed = {}
        BY DEF EmptyScenario
      <4>2. e = [f \in DOMAIN e |-> e[f]]
        BY DEF EmptyScenario
      <4> HIDE DEF e
      <4>3. DOMAIN n = DOMAIN e /\ n = [f \in DOMAIN e |-> n[f]]
        OBVIOUS
      <4>4. \A f \in DOMAIN e : n[f] = e[f]
        BY <4>1
      <4> HIDE DEF n
      <4>5. n = e
        BY <4>2, <4>3, <4>4
      <4> QED
        BY <4>5 DEF n, e
    <3> HIDE DEF new
    <3> QED
      BY <3>6, <3>7
  <2> HIDE DEF A, B
  <2>7. /\ DOMAIN new = DOMAIN s /\ new.parent = s.parent /\ new.params = s.params
        /\ new.items = B /\ new.added = A
    BY <2>1 DEF SoundScenario
  <2>8. Unset(set, id, i) = Replace(set, id, new)
    BY <1>2 DEF Unset, s, a, o, A, B
  <2> HIDE DEF new
  <2>9. {"parent", "params", "items", "added", "removed", "events"} \subseteq DOMAIN new
    BY <2>1, <2>7 DEF SoundScenario
  <2>10. DOMAIN new.items \cap DOMAIN new.added = {} /\ IsFiniteSet(DOMAIN new.added)
    BY <2>1, <2>2, <2>4, <2>5, <2>7, FS_RemoveElement DEF SoundScenario, a
  <2>11. \A j \in DOMAIN new.items :
            \/ DOMAIN new.items[j] \in (SUBSET OverlayFields) \ {{}}
            \/ j # i /\ j \in DOMAIN s.items /\ new.items[j] = s.items[j]
    BY <2>5, <2>7 DEF o
  <2>12. \A j \in DOMAIN new.added :
            \/ EveryField(new.added[j])
            \/ j # i /\ j \in DOMAIN s.added /\ new.added[j] = s.added[j]
    BY <2>4, <2>7 DEF a
  <2>13. SoundScenario(id, new)
    BY <2>1, <2>7, <2>9, <2>10, <2>11, <2>12, SoundRecords
  <2> QED
    BY <2>1, <2>6, <2>7, <2>8, <2>13, ReplaceReaches DEF ParentOf, s
<1> QED
  BY <1>1, <1>2

LEMMA RemoveReaches ==
  ASSUME NEW set, Sound(set), NEW id, NEW i
  PROVE  Reaches(set, RemoveItem(set, id, i), {id})
<1> DEFINE s == set.scenarios[id]
           a == s.added
           o == s.items
           A == Without(a, i)
           B == Without(o, i)
           dropped == [s EXCEPT !.added = A]
           marked == [s EXCEPT !.items = B, !.removed = @ \cup {i}]
<1>1. CASE ~Exists(set, id)
  <2>1. RemoveItem(set, id, i) = set
    BY <1>1 DEF RemoveItem
  <2> QED
    BY <2>1, UntouchedReaches
<1>2. CASE Exists(set, id) /\ id = Base
  <2>1. RemoveItem(set, id, i) = [set EXCEPT !.book.items = Without(@, i)]
    BY <1>2 DEF RemoveItem
  <2>2. EveryField([f \in OverlayFields |-> i])
    BY DEF EveryField
  <2>3. Reaches(set, [set EXCEPT !.book.items = Without(@, i)], {Base})
    BY <2>2, AuthoredItemReaches
  <2> QED
    BY <1>2, <2>1, <2>3
<1>3. CASE Exists(set, id) /\ id # Base
  <2>1. SoundScenario(id, s) /\ id \in DOMAIN set.scenarios
    BY <1>3 DEF Sound, SoundSet, Exists
  <2>2. DOMAIN o \cap DOMAIN a = {}
    BY <2>1 DEF SoundScenario, StructurallyConsistent
  <2>3. /\ RemoveItem(set, id, i) \in {set, Replace(set, id, dropped), Replace(set, id, marked)}
    BY <1>3 DEF RemoveItem, Replace
  <2> HIDE DEF s, a, o
  <2>4. DOMAIN A = DOMAIN a \ {i} /\ \A j \in DOMAIN a \ {i} : A[j] = a[j]
    BY WithoutWorks
  <2>5. DOMAIN B = DOMAIN o \ {i} /\ \A j \in DOMAIN o \ {i} : B[j] = o[j]
    BY WithoutWorks
  <2> HIDE DEF A, B
  <2>6. /\ DOMAIN dropped = DOMAIN s /\ dropped.parent = s.parent
        /\ dropped.params = s.params /\ dropped.items = o /\ dropped.added = A
    BY <2>1 DEF SoundScenario, o
  <2>7. /\ DOMAIN marked = DOMAIN s /\ marked.parent = s.parent
        /\ marked.params = s.params /\ marked.items = B /\ marked.added = a
    BY <2>1 DEF SoundScenario, a
  <2> HIDE DEF dropped, marked
  <2>8. SoundScenario(id, dropped)
    <3>1. DOMAIN dropped.items \cap DOMAIN dropped.added = {} /\ IsFiniteSet(DOMAIN dropped.added)
      BY <2>1, <2>2, <2>4, <2>6, FS_RemoveElement DEF SoundScenario, a
    <3>2. \A j \in DOMAIN dropped.added : EveryField(dropped.added[j])
      BY <2>1, <2>4, <2>6 DEF SoundScenario, a
    <3>3. \A j \in DOMAIN dropped.items : DOMAIN dropped.items[j] \in (SUBSET OverlayFields) \ {{}}
      BY <2>1, <2>6 DEF SoundScenario, o
    <3> QED
      BY <2>1, <2>6, <3>1, <3>2, <3>3 DEF SoundScenario, StructurallyConsistent
  <2>9. SoundScenario(id, marked)
    <3>1. DOMAIN marked.items \cap DOMAIN marked.added = {} /\ IsFiniteSet(DOMAIN marked.added)
      BY <2>1, <2>2, <2>5, <2>7 DEF SoundScenario, a
    <3>2. \A j \in DOMAIN marked.added : EveryField(marked.added[j])
      BY <2>1, <2>7 DEF SoundScenario, a
    <3>3. \A j \in DOMAIN marked.items : DOMAIN marked.items[j] \in (SUBSET OverlayFields) \ {{}}
      BY <2>1, <2>5, <2>7 DEF SoundScenario, o
    <3> QED
      BY <2>1, <2>7, <3>1, <3>2, <3>3 DEF SoundScenario, StructurallyConsistent
  <2>10. Reaches(set, Replace(set, id, dropped), {id})
    BY <1>3, <2>1, <2>6, <2>8, ReplaceReaches DEF ParentOf, s
  <2>11. Reaches(set, Replace(set, id, marked), {id})
    BY <1>3, <2>1, <2>7, <2>9, ReplaceReaches DEF ParentOf, s
  <2>12. Reaches(set, set, {id})
    BY UntouchedReaches
  <2> QED
    BY <2>3, <2>10, <2>11, <2>12
<1> QED
  BY <1>1, <1>2, <1>3

LEMMA ForkReaches ==
  ASSUME NEW set, Sound(set), NEW parent, NEW new \in ScenarioIds
  PROVE  Reaches(set, Fork(set, parent, new), {})
<1> DEFINE s == EmptyScenario(parent)
<1>1. CASE ~Exists(set, parent) \/ Exists(set, new)
  <2>1. Fork(set, parent, new) = set
    BY <1>1 DEF Fork
  <2> QED
    BY <2>1, UntouchedReaches
<1>2. CASE ~(~Exists(set, parent) \/ Exists(set, new))
  <2>1. parent \in DOMAIN set.scenarios /\ new \in ScenarioIds \ DOMAIN set.scenarios
    BY <1>2 DEF Exists
  <2>2. /\ s.parent = parent /\ s.params = Nothing /\ s.items = Nothing /\ s.added = Nothing
        /\ DOMAIN s = {"parent", "params", "items", "added", "removed", "events"}
    BY DEF EmptyScenario
  <2> HIDE DEF s
  <2>3. SoundScenario(new, s)
    BY <2>1, <2>2, NothingIsEmpty, FS_EmptySet DEF SoundScenario, StructurallyConsistent
  <2>4. Reaches(set, [set EXCEPT !.scenarios = With(@, new, s)], {})
    BY <2>1, <2>2, <2>3, NewReaches
  <2>5. Fork(set, parent, new) = [set EXCEPT !.scenarios = With(@, new, s)]
    BY <1>2 DEF Fork, s
  <2> QED
    BY <2>4, <2>5
<1> QED
  BY <1>1, <1>2

(* The record flatten() leaves, field by field.                            *)
FlatRecord(set, view) ==
    LET book == set.book
        shared == DOMAIN view.items \cap DOMAIN book.items
    IN [EmptyScenario(NoParent) EXCEPT
            !.added = Restrict(view.items, DOMAIN view.items \ DOMAIN book.items),
            !.items = [i \in {j \in shared : DiffFields(view.items[j], book.items[j]) # {}} |->
                          DiffOverlay(view.items[i], book.items[i])],
            !.removed = DOMAIN book.items \ DOMAIN view.items,
            !.params = Restrict(view.params, {k \in DOMAIN view.params :
                            Get(book.params, k, NoParent) # view.params[k]}),
            !.events = view.events]

Collapses(set, view, s) ==
    /\ DOMAIN s = {"parent", "params", "items", "added", "removed", "events"}
    /\ s.parent = NoParent /\ s.events = view.events
    /\ s.removed = DOMAIN set.book.items \ DOMAIN view.items
    /\ DOMAIN s.added = DOMAIN view.items \ DOMAIN set.book.items
    /\ \A i \in DOMAIN s.added : s.added[i] = view.items[i]
    /\ DOMAIN s.items = {i \in DOMAIN view.items \cap DOMAIN set.book.items :
                            DiffFields(view.items[i], set.book.items[i]) # {}}
    /\ \A i \in DOMAIN s.items : s.items[i] = DiffOverlay(view.items[i], set.book.items[i])
    /\ DOMAIN s.params = {k \in DOMAIN view.params :
                            Get(set.book.params, k, NoParent) # view.params[k]}
    /\ \A k \in DOMAIN s.params : s.params[k] = view.params[k]

LEMMA FlatRecordCollapses ==
  ASSUME NEW set, NEW view
  PROVE  Collapses(set, view, FlatRecord(set, view))
<1> DEFINE s == FlatRecord(set, view)
           b == set.book.items
           A == Restrict(view.items, DOMAIN view.items \ DOMAIN b)
           D == {j \in DOMAIN view.items \cap DOMAIN b : DiffFields(view.items[j], b[j]) # {}}
           I == [i \in D |-> DiffOverlay(view.items[i], b[i])]
           K == {k \in DOMAIN view.params : Get(set.book.params, k, NoParent) # view.params[k]}
           P == Restrict(view.params, K)
<1>1. DOMAIN A = DOMAIN view.items \ DOMAIN b /\ \A i \in DOMAIN A : A[i] = view.items[i]
  BY DEF Restrict
<1>2. DOMAIN I = D /\ \A i \in D : I[i] = DiffOverlay(view.items[i], b[i])
  OBVIOUS
<1>3. DOMAIN P = K /\ \A k \in K : P[k] = view.params[k]
  BY DEF Restrict
<1>4. s = [EmptyScenario(NoParent) EXCEPT !.added = A, !.items = I,
              !.removed = DOMAIN b \ DOMAIN view.items, !.params = P, !.events = view.events]
  BY DEF FlatRecord
<1> HIDE DEF s, A, I, P
<1>5. /\ DOMAIN s = {"parent", "params", "items", "added", "removed", "events"}
      /\ s.parent = NoParent /\ s.events = view.events /\ s.added = A /\ s.items = I
      /\ s.params = P /\ s.removed = DOMAIN b \ DOMAIN view.items
  BY <1>4 DEF EmptyScenario
<1>6. Collapses(set, view, s)
  BY <1>1, <1>2, <1>3, <1>5 DEF Collapses
<1> QED
  BY <1>6 DEF s

LEMMA FlattenStores ==
  ASSUME NEW set, NEW id, NEW new, Exists(set, id), ~Exists(set, new)
  PROVE  Flatten(set, id, new) =
            [set EXCEPT !.scenarios = With(@, new, FlatRecord(set, Resolve(set, id)))]
BY DEF Flatten, FlatRecord

LEMMA CollapsedIsSound ==
  ASSUME NEW set, NEW view, IsView(set, view), NEW s, Collapses(set, view, s),
         NEW id \in ScenarioIds
  PROVE  SoundScenario(id, s)
<1>1. id # NoParent
  BY BaseIsAScenario
<1>2. StructurallyConsistent(id, s)
  BY <1>1 DEF StructurallyConsistent, Collapses
<1>3. \A i \in DOMAIN s.items : DOMAIN s.items[i] \in (SUBSET OverlayFields) \ {{}}
  <2> TAKE i \in DOMAIN s.items
  <2> DEFINE b == set.book.items[i]
  <2> HIDE DEF b
  <2>1. i \in DOMAIN view.items /\ DiffFields(view.items[i], b) # {}
    BY DEF Collapses, b
  <2>2. s.items[i] = DiffOverlay(view.items[i], b)
    BY DEF Collapses, b
  <2>3. DOMAIN DiffOverlay(view.items[i], b) = DiffFields(view.items[i], b)
    BY <2>1, DiffShows DEF IsView
  <2>4. DiffFields(view.items[i], b) \subseteq OverlayFields
    BY DEF DiffFields
  <2> QED
    BY <2>1, <2>2, <2>3, <2>4
<1>4. IsFiniteSet(DOMAIN s.added) /\ \A i \in DOMAIN s.added : EveryField(s.added[i])
  BY FS_Subset DEF Collapses, IsView
<1>5. \A k \in DOMAIN s.params : s.params[k] # NoParent
  BY DEF Collapses, IsView
<1> QED
  BY <1>2, <1>3, <1>4, <1>5 DEF SoundScenario, Collapses

LEMMA ResolvedIsView ==
  ASSUME NEW set, Sound(set), NEW id \in DOMAIN set.scenarios
  PROVE  IsView(set, Resolve(set, id)) /\ IsView(set, ParentView(set, id))
BY ViewsAreBooks, Resolved, OpenedShows DEF IsView, Sound

LEMMA FlattenReaches ==
  ASSUME NEW set, Sound(set), NEW id, NEW new \in ScenarioIds
  PROVE  Reaches(set, Flatten(set, id, new), {})
<1>1. CASE ~Exists(set, id) \/ Exists(set, new)
  <2>1. Flatten(set, id, new) = set
    BY <1>1 DEF Flatten
  <2> QED
    BY <2>1, UntouchedReaches
<1>2. CASE ~(~Exists(set, id) \/ Exists(set, new))
  <2> DEFINE view == Resolve(set, id)
             s == FlatRecord(set, view)
  <2>1. id \in DOMAIN set.scenarios /\ new \in ScenarioIds \ DOMAIN set.scenarios
    BY <1>2 DEF Exists
  <2>2. Collapses(set, view, s)
    BY FlatRecordCollapses
  <2>3. IsView(set, view)
    BY <2>1, ResolvedIsView
  <2>4. Flatten(set, id, new) = [set EXCEPT !.scenarios = With(@, new, s)]
    BY <1>2, FlattenStores
  <2> HIDE DEF view, s
  <2>5. SoundScenario(new, s) /\ s.parent = NoParent
    BY <2>2, <2>3, CollapsedIsSound DEF Collapses
  <2>6. Reaches(set, [set EXCEPT !.scenarios = With(@, new, s)], {})
    BY <2>1, <2>5, NewReaches
  <2> QED
    BY <2>4, <2>6
<1> QED
  BY <1>1, <1>2

LEMMA SetBookReaches ==
  ASSUME NEW set, Sound(set), NEW field \in {"opening", "cutover", "horizon"}, NEW value
  PROVE  Reaches(set, SetBook(set, field, value), {})
<1> DEFINE book == [set.book EXCEPT ![field] = value]
<1>1. SoundBook(set.book) /\ "book" \in DOMAIN set
  BY DEF Sound, SoundSet
<1>2. DOMAIN book = DOMAIN set.book /\ book.items = set.book.items /\ book.params = set.book.params
  BY <1>1 DEF SoundBook
<1>3. SetBook(set, field, value) = [set EXCEPT !.book = book]
  BY <1>1 DEF SetBook
<1> HIDE DEF book
<1>4. SoundBook(book)
  BY <1>1, <1>2 DEF SoundBook
<1> QED
  BY <1>2, <1>3, <1>4, BookReaches

RewriteRun(R, set, id, macro, items, matched, L) ==
    /\ R[0] = set
    /\ \A n \in 1 .. L : R[n] = Rewrite(R[n - 1], id, matched[n], macro, items[matched[n]])
    /\ RewriteAll(set, id, macro, items, matched) = R[L]

LEMMA RewriteRuns ==
  ASSUME NEW set, NEW id, NEW macro, NEW items, NEW matched, NEW L \in Nat, DOMAIN matched = 1 .. L
  PROVE  \E R : RewriteRun(R, set, id, macro, items, matched, L)
<1> DEFINE Op(v, n) == Rewrite(v, id, matched[n], macro, items[matched[n]])
           base == set
           Fold(G, s) == IF s = {} THEN base ELSE Op(G[s \ {Max(s)}], Max(s))
           Upto(G, n) == G = [s \in SUBSET (1 .. n) |-> Fold(G, s)]
           Stuck == {n \in 0 .. L : ~ \E G : Upto(G, n)}
           Whole(G) == G = [s \in SUBSET (DOMAIN matched) |-> Fold(G, s)]
<1>1. RewriteAll(set, id, macro, items, matched) = (CHOOSE G : Whole(G))[DOMAIN matched]
  BY DEF RewriteAll, FoldLeft, MapThenFoldSet
<1> HIDE DEF Op, base
<1>2. 0 \notin Stuck
  <2> DEFINE G == [s \in SUBSET (1 .. 0) |-> base]
  <2>1. \A s \in SUBSET (1 .. 0) : s = {}
    OBVIOUS
  <2>2. Upto(G, 0)
    BY <2>1
  <2> QED
    BY <2>2
<1>3. ASSUME NEW n \in 1 .. L, n - 1 \notin Stuck PROVE n \notin Stuck
  <2>1. PICK G : Upto(G, n - 1)
    <3> HIDE DEF Upto
    <3>1. n - 1 \in 0 .. L
      OBVIOUS
    <3> QED
      BY <1>3, <3>1
  <2> DEFINE H == [s \in SUBSET (1 .. n) |-> IF n \in s THEN Op(G[s \ {n}], n) ELSE G[s]]
  <2>2. \A s \in SUBSET (1 .. n - 1) : G[s] = Fold(G, s)
    BY <2>1
  <2>3. ASSUME NEW s \in SUBSET (1 .. n) PROVE H[s] = Fold(H, s)
    <3>1. s # {} => Max(s) \in s /\ \A k \in s : k <= Max(s)
      <4>1. n \in Nat
        OBVIOUS
      <4> QED
        BY <4>1, MaxIsLargest
    <3>2. CASE n \in s
      <4>1. Max(s) = n
        <5> HIDE DEF H, Fold, Stuck
        <5>1. Max(s) \in s /\ n <= Max(s)
          BY <3>1, <3>2
        <5>2. Max(s) \in 1 .. n
          BY <5>1
        <5> HIDE DEF Max
        <5> QED
          BY <5>1, <5>2
      <4>2. s \ {n} \in SUBSET (1 .. n) /\ n \notin s \ {n}
        OBVIOUS
      <4>3. H[s] = Op(G[s \ {n}], n) /\ H[s \ {n}] = G[s \ {n}]
        BY <3>2, <4>2
      <4> HIDE DEF H
      <4> QED
        BY <3>2, <4>1, <4>3
    <3>3. CASE n \notin s
      <4>1. s \in SUBSET (1 .. n - 1) /\ H[s] = G[s]
        BY <3>3
      <4>2. s # {} => s \ {Max(s)} \in SUBSET (1 .. n) /\ n \notin s \ {Max(s)}
        BY <3>3
      <4>3. s # {} => H[s \ {Max(s)}] = G[s \ {Max(s)}]
        BY <4>2
      <4>4. G[s] = Fold(G, s)
        BY <2>2, <4>1
      <4> HIDE DEF H
      <4> QED
        BY <4>1, <4>3, <4>4
    <3> QED
      BY <3>2, <3>3
  <2>4. H = [s \in SUBSET (1 .. n) |-> Fold(H, s)]
    <3>1. H = [s \in SUBSET (1 .. n) |-> H[s]]
      OBVIOUS
    <3> HIDE DEF H, Fold
    <3> QED
      BY <2>3, <3>1
  <2>5. Upto(H, n)
    BY <2>4
  <2> HIDE DEF Upto, H
  <2> QED
    BY <2>5
<1>4. L \notin Stuck
  <2> HIDE DEF Upto
  <2>1. SUFFICES ASSUME Stuck # {} PROVE FALSE
    OBVIOUS
  <2>2. Stuck \subseteq Nat
    OBVIOUS
  <2>3. PICK m \in Stuck : \A n \in Stuck : m <= n
    <3> HIDE DEF Stuck
    <3> QED
      BY <2>1, <2>2, LeastNatural
  <2>4. m \in 1 .. L /\ m - 1 \notin Stuck
    BY <1>2, <2>3
  <2> QED
    BY <1>3, <2>3, <2>4
<1>5. PICK G : Upto(G, L)
  <2> HIDE DEF Upto
  <2> QED
    BY <1>4
<1>6. Whole(G)
  BY <1>5
<1> DEFINE K == CHOOSE H : Whole(H)
<1>7. Whole(K)
  <2> HIDE DEF Whole
  <2> QED
    BY <1>6
<1>8. \A s \in SUBSET (1 .. L) : K[s] = Fold(K, s)
  <2> HIDE DEF K, Fold
  <2> QED
    BY <1>7
<1> HIDE DEF K
<1> DEFINE R == [n \in 0 .. L |-> K[1 .. n]]
<1>9. R[0] = base
  <2>1. R[0] = K[1 .. 0] /\ (1 .. 0) = {}
    OBVIOUS
  <2> QED
    BY <1>8, <2>1
<1>10. ASSUME NEW n \in 1 .. L PROVE R[n] = Op(R[n - 1], n)
  <2> DEFINE s == 1 .. n
  <2>1. s \in SUBSET (1 .. L) /\ n \in s /\ s # {} /\ s \ {n} = 1 .. (n - 1)
    OBVIOUS
  <2>2. \A k \in s : k <= n
    OBVIOUS
  <2>3. s \subseteq Int
    OBVIOUS
  <2> HIDE DEF s
  <2>4. Max(s) = n
    <3>1. Max(s) \in s /\ \A k \in s : k <= Max(s)
      BY <2>1, MaxIsLargest
    <3> HIDE DEF Max
    <3>2. n <= Max(s) /\ Max(s) <= n /\ Max(s) \in Int
      BY <2>1, <2>2, <2>3, <3>1
    <3> QED
      BY <3>2
  <2>5. K[s] = Op(K[s \ {n}], n)
    BY <1>8, <2>1, <2>4
  <2>6. R[n] = K[s] /\ R[n - 1] = K[s \ {n}]
    <3>1. n \in 0 .. L /\ n - 1 \in 0 .. L
      OBVIOUS
    <3>2. R[n] = K[1 .. n] /\ R[n - 1] = K[1 .. (n - 1)]
      BY <3>1
    <3> QED
      BY <2>1, <3>2 DEF s
  <2> QED
    BY <2>5, <2>6
<1>11. RewriteAll(set, id, macro, items, matched) = R[L]
  <2>1. R[L] = K[1 .. L]
    OBVIOUS
  <2> QED
    BY <1>1, <2>1 DEF K
<1> HIDE DEF R
<1> QED
  BY <1>9, <1>10, <1>11 DEF Op, base, RewriteRun

Numbers(s) == [n \in DOMAIN s |-> n]
CardRun(R, done, ops, scenario, context, today, L) ==
    /\ R[0] = Done(done)
    /\ \A n \in 1 .. L : R[n] = ApplyNext(R[n - 1], ops, Numbers(ops)[n], scenario, context, today)
    /\ ApplyAll(done, ops, scenario, context, today) = R[L]

LEMMA CardRuns ==
  ASSUME NEW done, NEW ops, NEW scenario, NEW context, NEW today, NEW L \in Nat, DOMAIN Numbers(ops) = 1 .. L
  PROVE  \E R : CardRun(R, done, ops, scenario, context, today, L)
<1> DEFINE Op(v, n) == ApplyNext(v, ops, Numbers(ops)[n], scenario, context, today)
           base == Done(done)
           Fold(G, s) == IF s = {} THEN base ELSE Op(G[s \ {Max(s)}], Max(s))
           Upto(G, n) == G = [s \in SUBSET (1 .. n) |-> Fold(G, s)]
           Stuck == {n \in 0 .. L : ~ \E G : Upto(G, n)}
           Whole(G) == G = [s \in SUBSET (DOMAIN Numbers(ops)) |-> Fold(G, s)]
<1>1. ApplyAll(done, ops, scenario, context, today) = (CHOOSE G : Whole(G))[DOMAIN Numbers(ops)]
  BY DEF ApplyAll, Numbers, FoldLeft, MapThenFoldSet
<1> HIDE DEF Op, base
<1>2. 0 \notin Stuck
  <2> DEFINE G == [s \in SUBSET (1 .. 0) |-> base]
  <2>1. \A s \in SUBSET (1 .. 0) : s = {}
    OBVIOUS
  <2>2. Upto(G, 0)
    BY <2>1
  <2> QED
    BY <2>2
<1>3. ASSUME NEW n \in 1 .. L, n - 1 \notin Stuck PROVE n \notin Stuck
  <2>1. PICK G : Upto(G, n - 1)
    <3> HIDE DEF Upto
    <3>1. n - 1 \in 0 .. L
      OBVIOUS
    <3> QED
      BY <1>3, <3>1
  <2> DEFINE H == [s \in SUBSET (1 .. n) |-> IF n \in s THEN Op(G[s \ {n}], n) ELSE G[s]]
  <2>2. \A s \in SUBSET (1 .. n - 1) : G[s] = Fold(G, s)
    BY <2>1
  <2>3. ASSUME NEW s \in SUBSET (1 .. n) PROVE H[s] = Fold(H, s)
    <3>1. s # {} => Max(s) \in s /\ \A k \in s : k <= Max(s)
      <4>1. n \in Nat
        OBVIOUS
      <4> QED
        BY <4>1, MaxIsLargest
    <3>2. CASE n \in s
      <4>1. Max(s) = n
        <5> HIDE DEF H, Fold, Stuck
        <5>1. Max(s) \in s /\ n <= Max(s)
          BY <3>1, <3>2
        <5>2. Max(s) \in 1 .. n
          BY <5>1
        <5> HIDE DEF Max
        <5> QED
          BY <5>1, <5>2
      <4>2. s \ {n} \in SUBSET (1 .. n) /\ n \notin s \ {n}
        OBVIOUS
      <4>3. H[s] = Op(G[s \ {n}], n) /\ H[s \ {n}] = G[s \ {n}]
        BY <3>2, <4>2
      <4> HIDE DEF H
      <4> QED
        BY <3>2, <4>1, <4>3
    <3>3. CASE n \notin s
      <4>1. s \in SUBSET (1 .. n - 1) /\ H[s] = G[s]
        BY <3>3
      <4>2. s # {} => s \ {Max(s)} \in SUBSET (1 .. n) /\ n \notin s \ {Max(s)}
        BY <3>3
      <4>3. s # {} => H[s \ {Max(s)}] = G[s \ {Max(s)}]
        BY <4>2
      <4>4. G[s] = Fold(G, s)
        BY <2>2, <4>1
      <4> HIDE DEF H
      <4> QED
        BY <4>1, <4>3, <4>4
    <3> QED
      BY <3>2, <3>3
  <2>4. H = [s \in SUBSET (1 .. n) |-> Fold(H, s)]
    <3>1. H = [s \in SUBSET (1 .. n) |-> H[s]]
      OBVIOUS
    <3> HIDE DEF H, Fold
    <3> QED
      BY <2>3, <3>1
  <2>5. Upto(H, n)
    BY <2>4
  <2> HIDE DEF Upto, H
  <2> QED
    BY <2>5
<1>4. L \notin Stuck
  <2> HIDE DEF Upto
  <2>1. SUFFICES ASSUME Stuck # {} PROVE FALSE
    OBVIOUS
  <2>2. Stuck \subseteq Nat
    OBVIOUS
  <2>3. PICK m \in Stuck : \A n \in Stuck : m <= n
    <3> HIDE DEF Stuck
    <3> QED
      BY <2>1, <2>2, LeastNatural
  <2>4. m \in 1 .. L /\ m - 1 \notin Stuck
    BY <1>2, <2>3
  <2> QED
    BY <1>3, <2>3, <2>4
<1>5. PICK G : Upto(G, L)
  <2> HIDE DEF Upto
  <2> QED
    BY <1>4
<1>6. Whole(G)
  BY <1>5
<1> DEFINE K == CHOOSE H : Whole(H)
<1>7. Whole(K)
  <2> HIDE DEF Whole
  <2> QED
    BY <1>6
<1>8. \A s \in SUBSET (1 .. L) : K[s] = Fold(K, s)
  <2> HIDE DEF K, Fold
  <2> QED
    BY <1>7
<1> HIDE DEF K
<1> DEFINE R == [n \in 0 .. L |-> K[1 .. n]]
<1>9. R[0] = base
  <2>1. R[0] = K[1 .. 0] /\ (1 .. 0) = {}
    OBVIOUS
  <2> QED
    BY <1>8, <2>1
<1>10. ASSUME NEW n \in 1 .. L PROVE R[n] = Op(R[n - 1], n)
  <2> DEFINE s == 1 .. n
  <2>1. s \in SUBSET (1 .. L) /\ n \in s /\ s # {} /\ s \ {n} = 1 .. (n - 1)
    <3>1. n \in Nat /\ n >= 1 /\ n <= L
      OBVIOUS
    <3>2. s \ {n} = 1 .. (n - 1)
      BY ONLY <3>1
    <3>3. s \in SUBSET (1 .. L) /\ n \in s
      BY ONLY <3>1, L \in Nat
    <3> QED
      BY <3>2, <3>3
  <2>2. \A k \in s : k <= n
    OBVIOUS
  <2>3. s \subseteq Int
    OBVIOUS
  <2> HIDE DEF s
  <2>4. Max(s) = n
    <3>1. Max(s) \in s /\ \A k \in s : k <= Max(s)
      BY <2>1, MaxIsLargest
    <3> HIDE DEF Max
    <3>2. n <= Max(s) /\ Max(s) <= n /\ Max(s) \in Int
      BY <2>1, <2>2, <2>3, <3>1
    <3> QED
      BY <3>2
  <2>5. K[s] = Op(K[s \ {n}], n)
    BY <1>8, <2>1, <2>4
  <2>6. R[n] = K[s] /\ R[n - 1] = K[s \ {n}]
    <3>1. n \in 0 .. L /\ n - 1 \in 0 .. L
      OBVIOUS
    <3>2. R[n] = K[1 .. n] /\ R[n - 1] = K[1 .. (n - 1)]
      BY <3>1
    <3> QED
      BY <2>1, <3>2 DEF s
  <2> QED
    BY <2>5, <2>6
<1>11. ApplyAll(done, ops, scenario, context, today) = R[L]
  <2>1. R[L] = K[1 .. L]
    OBVIOUS
  <2> QED
    BY <1>1, <2>1 DEF K
<1> HIDE DEF R
<1> QED
  BY <1>9, <1>10, <1>11 DEF Op, base, CardRun

-----------------------------------------------------------------------------
(* Macros.                                                                 *)
LEMMA FieldWritten ==
  ASSUME NEW item, EveryField(item), NEW v
  PROVE  EveryField([item EXCEPT !.segments = v]) /\ EveryField([item EXCEPT !.tags = v])
<1>1. item = [f \in OverlayFields |-> item[f]]
  BY DEF EveryField
<1>2. DOMAIN item = OverlayFields
  BY <1>1
<1> QED
  BY <1>2 DEF EveryField

LEMMA RewrittenHasFields ==
  ASSUME NEW macro, NEW item, EveryField(item)
  PROVE  EveryField(Rewritten(macro, item))
<1>1. \A v : EveryField([item EXCEPT !.segments = v]) /\ EveryField([item EXCEPT !.tags = v])
  BY FieldWritten
<1>2. CASE macro.op = "retag_items"
  <2>1. Rewritten(macro, item) = [item EXCEPT !.tags = Over(macro.tags, item.tags)]
    BY <1>2 DEF Rewritten, Retag
  <2> QED
    BY <1>1, <2>1
<1>3. CASE macro.op # "retag_items"
  <2> DEFINE v == [k \in DOMAIN item.segments |->
                      IF macro.op = "shift_items" THEN ShiftSegment(item.segments[k], macro.by)
                      ELSE ScaleSegment(item.segments[k], macro.factor)]
  <2>1. Rewritten(macro, item) = [item EXCEPT !.segments = v]
    BY <1>3 DEF Rewritten
  <2> HIDE DEF v
  <2> QED
    BY <1>1, <2>1
<1> QED
  BY <1>2, <1>3

LEMMA RewriteReaches ==
  ASSUME NEW set, Sound(set), NEW id, NEW i, NEW macro, NEW item, EveryField(item)
  PROVE  Reaches(set, Rewrite(set, id, i, macro, item), {id})
<1>1. Reaches(set, SetItem(set, id, i, Rewritten(macro, item)), {id})
  BY RewrittenHasFields, SetItemReaches
<1>2. Reaches(set, set, {id})
  BY UntouchedReaches
<1> QED
  BY <1>1, <1>2 DEF Rewrite

LEMMA RewriteAllReaches ==
  ASSUME NEW set, Sound(set), NEW id, NEW macro, NEW items, NEW matched, NEW L \in Nat,
         DOMAIN matched = 1 .. L, \A n \in 1 .. L : EveryField(items[matched[n]])
  PROVE  Reaches(set, RewriteAll(set, id, macro, items, matched), {id})
<1>1. PICK R : RewriteRun(R, set, id, macro, items, matched, L)
  BY RewriteRuns
<1>2. /\ R[0] = set
      /\ \A n \in 1 .. L : R[n] = Rewrite(R[n - 1], id, matched[n], macro, items[matched[n]])
      /\ RewriteAll(set, id, macro, items, matched) = R[L]
  BY <1>1 DEF RewriteRun
<1> DEFINE Bad == {n \in 0 .. L : ~Reaches(set, R[n], {id})}
<1>3. Bad = {}
  <2>1. SUFFICES ASSUME Bad # {} PROVE FALSE
    OBVIOUS
  <2>2. Bad \subseteq Nat
    OBVIOUS
  <2>3. PICK n \in Bad : \A k \in Bad : n <= k
    <3> HIDE DEF Bad
    <3> QED
      BY <2>1, <2>2, LeastNatural
  <2>4. n # 0
    BY <1>2, <2>3, UntouchedReaches
  <2>5. n \in 1 .. L /\ n - 1 \in 0 .. L /\ ~(n <= n - 1)
    BY <2>3, <2>4
  <2>6. Reaches(set, R[n - 1], {id})
    BY <2>3, <2>5
  <2>7. Reaches(R[n - 1], Rewrite(R[n - 1], id, matched[n], macro, items[matched[n]]), {id})
    BY <2>5, <2>6, RewriteReaches DEF Reaches
  <2>8. Reaches(R[n - 1], R[n], {id})
    BY <1>2, <2>5, <2>7
  <2>9. Reaches(set, R[n], {id})
    BY <2>6, <2>8, TouchesAdds DEF Reaches
  <2> QED
    BY <2>3, <2>9
<1>4. L \in 0 .. L
  OBVIOUS
<1> QED
  BY <1>2, <1>3, <1>4

LEMMA MacroReaches ==
  ASSUME NEW set, Sound(set), NEW id \in DOMAIN set.scenarios, NEW macro
  PROVE  Reaches(set, ApplyMacro(set, id, macro), {id})
<1> DEFINE items == Resolve(set, id).items
           S == {i \in DOMAIN items : Matches(macro.selector, items[i])}
<1>1. IsFiniteSet(DOMAIN items) /\ \A i \in DOMAIN items : EveryField(items[i])
  BY ResolvedIsView DEF IsView
<1>2. ApplyMacro(set, id, macro) = RewriteAll(set, id, macro, items, SetToSeq(S))
  BY DEF ApplyMacro
<1>3. S \subseteq DOMAIN items
  OBVIOUS
<1> HIDE DEF items, S
<1>4. IsFiniteSet(S)
  BY <1>1, <1>3, FS_Subset
<1>5. /\ Cardinality(S) \in Nat
      /\ DOMAIN SetToSeq(S) = 1 .. Cardinality(S)
      /\ \A n \in 1 .. Cardinality(S) : SetToSeq(S)[n] \in S
  BY <1>4, SetsListed
<1> DEFINE m == SetToSeq(S)
           L == Cardinality(S)
<1> HIDE DEF m, L
<1>6. L \in Nat /\ DOMAIN m = 1 .. L /\ \A n \in 1 .. L : EveryField(items[m[n]])
  BY <1>1, <1>3, <1>5 DEF m, L
<1>7. Reaches(set, RewriteAll(set, id, macro, items, m), {id})
  BY <1>6, RewriteAllReaches
<1> QED
  BY <1>2, <1>7 DEF m

-----------------------------------------------------------------------------
(* The ledger of a kit.                                                    *)
SoundKit(k) == {"set", "rows", "voided"} \subseteq DOMAIN k /\ Sound(k.set) /\ SoundLedger(k)
Outcome(k, result, T) == SoundKit(result.kit) /\ Touches(k.set, result.kit.set, T)

LEMMA RowAppended ==
  ASSUME NEW rows, rows \in Seq(ToSet(rows)), NEW x
  PROVE  /\ Append(rows, x) \in Seq(ToSet(Append(rows, x)))
         /\ Len(rows) \in Nat /\ DOMAIN rows = 1 .. Len(rows)
         /\ Len(Append(rows, x)) = Len(rows) + 1
         /\ DOMAIN Append(rows, x) = 1 .. (Len(rows) + 1)
         /\ Append(rows, x)[Len(rows) + 1] = x
         /\ \A n \in 1 .. Len(rows) : Append(rows, x)[n] = rows[n]
<1> DEFINE S == ToSet(rows) \cup {x}
           d == Append(rows, x)
           m == Len(rows)
<1>1. m \in Nat /\ DOMAIN rows = 1 .. m /\ rows \in [1 .. m -> ToSet(rows)]
  BY LenProperties
<1>2. rows \in [1 .. m -> S]
  BY <1>1
<1> HIDE DEF m
<1>3. rows \in Seq(S)
  BY <1>1, <1>2, SeqDef
<1> HIDE DEF S
<1>4. x \in S
  BY DEF S
<1>5. /\ d \in Seq(S) /\ Len(d) = m + 1 /\ d[m + 1] = x
      /\ \A n \in 1 .. m : d[n] = rows[n]
  BY <1>3, <1>4, AppendProperties DEF m
<1> HIDE DEF d
<1>6. DOMAIN d = 1 .. (m + 1) /\ d \in [1 .. (m + 1) -> S]
  BY <1>5, LenProperties
<1>7. d \in [1 .. (m + 1) -> ToSet(d)]
  BY <1>6 DEF ToSet
<1>8. m + 1 \in Nat
  BY <1>1
<1>9. d \in Seq(ToSet(d))
  BY <1>7, <1>8, SeqDef
<1> QED
  BY <1>1, <1>5, <1>6, <1>9 DEF d, m

LEMMA LedgerGrows ==
  ASSUME NEW k, SoundLedger(k), {"set", "rows", "voided"} \subseteq DOMAIN k, NEW x, "id" \in DOMAIN x,
         \A n \in DOMAIN k.rows : k.rows[n].id # x.id,
         IsCorrection(x.id) => x.id.n = Len(k.rows),
         NEW voided, voided \subseteq {k.rows[n].id : n \in DOMAIN k.rows},
         NEW k2, "rows" \in DOMAIN k2, k2.rows = Append(k.rows, x), k2.voided = voided
  PROVE  SoundLedger(k2)
<1> DEFINE rows == k.rows
           d == Append(rows, x)
           m == Len(rows)
<1>1. rows \in Seq(ToSet(rows))
  BY DEF SoundLedger
<1> HIDE DEF rows
<1>2. /\ d \in Seq(ToSet(d)) /\ m \in Nat /\ DOMAIN rows = 1 .. m
      /\ Len(d) = m + 1 /\ DOMAIN d = 1 .. (m + 1) /\ d[m + 1] = x
      /\ \A n \in 1 .. m : d[n] = rows[n]
  BY <1>1, RowAppended
<1>3. k2.rows = d /\ k2.voided = voided
  BY DEF rows
<1>4. /\ \A n \in 1 .. m : "id" \in DOMAIN rows[n] /\ rows[n].id # x.id
      /\ \A n \in 1 .. m : IsCorrection(rows[n].id) => rows[n].id.n \in 0 .. (m - 1)
      /\ \A n, j \in 1 .. m : rows[j].id = rows[n].id => j = n
      /\ voided \subseteq {rows[n].id : n \in 1 .. m}
      /\ IsCorrection(x.id) => x.id.n = m
  BY <1>2 DEF SoundLedger, rows
<1> HIDE DEF d, m
<1>5. \A n \in 1 .. (m + 1) : n = m + 1 \/ n \in 1 .. m
  BY <1>2
<1>6. \A n \in DOMAIN d : "id" \in DOMAIN d[n]
  BY <1>2, <1>4, <1>5
<1>7. \A n \in DOMAIN d : IsCorrection(d[n].id) => d[n].id.n \in 0 .. (Len(d) - 1)
  <2> TAKE n \in DOMAIN d
  <2>1. CASE n = m + 1
    BY <1>2, <1>4, <2>1
  <2>2. CASE n \in 1 .. m
    <3>1. IsCorrection(rows[n].id) => rows[n].id.n \in 0 .. (m - 1)
      BY <1>4, <2>2
    <3> QED
      BY <1>2, <2>2, <3>1
  <2> QED
    BY <1>2, <1>5, <2>1, <2>2
<1>8. \A n \in DOMAIN d : \A j \in DOMAIN d : d[j].id = d[n].id => j = n
  BY <1>2, <1>4, <1>5
<1>9. voided \subseteq {d[n].id : n \in DOMAIN d}
  <2>1. \A n \in 1 .. m : n \in DOMAIN d /\ d[n].id = rows[n].id
    BY <1>2
  <2> QED
    BY <1>4, <2>1
<1> QED
  BY <1>2, <1>3, <1>6, <1>7, <1>8, <1>9 DEF SoundLedger

LEMMA RefusedKeeps ==
  ASSUME NEW k, SoundKit(k), NEW T
  PROVE  Outcome(k, Refused(k), T)
BY DEF Outcome, Refused, Touches

LEMMA WroteKeeps ==
  ASSUME NEW k, SoundKit(k), NEW set, NEW T, Reaches(k.set, set, T)
  PROVE  Outcome(k, Wrote(k, set), T)
<1> DEFINE k2 == [k EXCEPT !.set = set]
<1>1. DOMAIN k2 = DOMAIN k /\ k2.set = set /\ k2.rows = k.rows /\ k2.voided = k.voided
  BY DEF SoundKit
<1>2. Wrote(k, set).kit = k2
  BY DEF Wrote, Done
<1> HIDE DEF k2
<1>3. SoundKit(k2)
  BY <1>1 DEF SoundKit, SoundLedger, Reaches
<1> QED
  BY <1>1, <1>2, <1>3 DEF Outcome, Reaches

LEMMA KitSetItemKeeps ==
  ASSUME NEW k, SoundKit(k), NEW scenario, NEW i, NEW item, EveryField(item)
  PROVE  Outcome(k, KitSetItem(k, scenario, i, item), {scenario})
<1>1. Outcome(k, Refused(k), {scenario})
  BY RefusedKeeps
<1>2. Outcome(k, Wrote(k, SetItem(k.set, scenario, i, item)), {scenario})
  BY SetItemReaches, WroteKeeps DEF SoundKit
<1> QED
  BY <1>1, <1>2 DEF KitSetItem

LEMMA KitMacroKeeps ==
  ASSUME NEW k, SoundKit(k), NEW scenario, NEW macro
  PROVE  Outcome(k, KitMacro(k, scenario, macro), {scenario})
<1>1. Outcome(k, Refused(k), {scenario})
  BY RefusedKeeps
<1>2. CASE Exists(k.set, scenario)
  <2>1. Outcome(k, Wrote(k, ApplyMacro(k.set, scenario, macro)), {scenario})
    BY <1>2, MacroReaches, WroteKeeps DEF SoundKit, Exists
  <2> QED
    BY <1>1, <2>1 DEF KitMacro
<1> QED
  BY <1>1, <1>2 DEF KitMacro

LEMMA KitForkKeeps ==
  ASSUME NEW k, SoundKit(k), NEW parent, NEW new \in ScenarioIds, NEW T
  PROVE  Outcome(k, KitFork(k, parent, new), T)
<1>1. Outcome(k, Refused(k), T)
  BY RefusedKeeps
<1>2. Reaches(k.set, Fork(k.set, parent, new), {})
  BY ForkReaches DEF SoundKit
<1>3. Reaches(k.set, Fork(k.set, parent, new), T)
  BY <1>2, TouchesMore DEF Reaches
<1>4. Outcome(k, Wrote(k, Fork(k.set, parent, new)), T)
  BY <1>3, WroteKeeps
<1> QED
  BY <1>1, <1>4 DEF KitFork

LEMMA BookWriteKeeps ==
  ASSUME NEW k, SoundKit(k), NEW field \in {"opening", "cutover", "horizon"}, NEW value, NEW T
  PROVE  Outcome(k, Wrote(k, SetBook(k.set, field, value)), T)
<1>1. Reaches(k.set, SetBook(k.set, field, value), {})
  BY SetBookReaches DEF SoundKit
<1>2. Reaches(k.set, SetBook(k.set, field, value), T)
  BY <1>1, TouchesMore DEF Reaches
<1> QED
  BY <1>2, WroteKeeps

LEMMA KitAddEventKeeps ==
  ASSUME NEW k, SoundKit(k), NEW row, "id" \in DOMAIN row, ~IsCorrection(row.id), NEW T
  PROVE  Outcome(k, KitAddEvent(k, row), T)
<1>1. Outcome(k, Refused(k), T)
  BY RefusedKeeps
<1>2. CASE ~InLedger(k, row.id)
  <2> DEFINE k2 == [k EXCEPT !.rows = Append(@, row)]
  <2>1. /\ DOMAIN k2 = DOMAIN k /\ k2.set = k.set /\ k2.voided = k.voided
        /\ k2.rows = Append(k.rows, row)
    BY DEF SoundKit
  <2>2. KitAddEvent(k, row).kit = k2
    BY <1>2 DEF KitAddEvent, Done
  <2> HIDE DEF k2
  <2>3. \A n \in DOMAIN k.rows : k.rows[n].id # row.id
    BY <1>2 DEF InLedger
  <2>4. k.voided \subseteq {k.rows[n].id : n \in DOMAIN k.rows}
    BY DEF SoundKit, SoundLedger
  <2>5. SoundLedger(k2)
    BY <2>1, <2>3, <2>4, LedgerGrows DEF SoundKit
  <2> QED
    BY <2>1, <2>2, <2>5 DEF Outcome, SoundKit, Touches
<1> QED
  BY <1>1, <1>2 DEF KitAddEvent

LEMMA KitVoidKeeps ==
  ASSUME NEW k, SoundKit(k), NEW id, InLedger(k, id), NEW T
  PROVE  Outcome(k, KitVoid(k, id), T)
<1>1. Outcome(k, Refused(k), T)
  BY RefusedKeeps
<1>2. CASE id \notin k.voided
  <2> DEFINE k2 == [k EXCEPT !.voided = @ \cup {id}]
  <2>1. /\ DOMAIN k2 = DOMAIN k /\ k2.set = k.set /\ k2.rows = k.rows
        /\ k2.voided = k.voided \cup {id}
    BY DEF SoundKit
  <2>2. KitVoid(k, id).kit = k2
    BY <1>2 DEF KitVoid, Done
  <2> HIDE DEF k2
  <2>3. SoundLedger(k2)
    BY <2>1 DEF SoundKit, SoundLedger, InLedger
  <2> QED
    BY <2>1, <2>2, <2>3 DEF Outcome, SoundKit, Touches
<1> QED
  BY <1>1, <1>2 DEF KitVoid

LEMMA CorrectKeeps ==
  ASSUME NEW k, SoundKit(k), NEW op, NEW T
  PROVE  Outcome(k, CorrectActual(k, op), T)
<1> DEFINE id == op.event
           original == Row(k, id)
           new == [corrects |-> id, n |-> Len(k.rows)]
           row == [original EXCEPT !.id = new, !.amount = op.amount,
                             !.date = IF op.date = Absent THEN @ ELSE op.date]
<1>1. Outcome(k, Refused(k), T)
  BY RefusedKeeps
<1>2. CASE ~InLedger(k, id)
  BY <1>1, <1>2 DEF CorrectActual
<1>3. CASE InLedger(k, id)
  <2>1. CorrectActual(k, op) = KitCorrect(k, id, row)
    BY <1>3 DEF CorrectActual
  <2>2. "id" \in DOMAIN original
    BY <1>3 DEF InLedger, Row, SoundKit, SoundLedger
  <2>3. new.n = Len(k.rows) /\ IsCorrection(new)
    BY DEF IsCorrection
  <2> HIDE DEF original, new, id
  <2>4. "id" \in DOMAIN row /\ row.id = new
    BY <2>2
  <2> HIDE DEF row
  <2>5. Len(k.rows) \in Nat
    BY LenProperties DEF SoundKit, SoundLedger
  <2>6. \A n \in DOMAIN k.rows : k.rows[n].id # row.id
    <3> TAKE n \in DOMAIN k.rows
    <3>1. IsCorrection(k.rows[n].id) => k.rows[n].id.n \in 0 .. (Len(k.rows) - 1)
      BY DEF SoundKit, SoundLedger
    <3> QED
      BY <2>3, <2>4, <2>5, <3>1
  <2>7. CASE id \in k.voided
    BY <1>1, <2>1, <2>7 DEF KitCorrect
  <2>8. CASE id \notin k.voided
    <3> DEFINE k2 == [k EXCEPT !.voided = @ \cup {id}, !.rows = Append(@, row)]
               voided == k.voided \cup {id}
    <3>1. /\ DOMAIN k2 = DOMAIN k /\ k2.set = k.set /\ k2.rows = Append(k.rows, row)
          /\ k2.voided = voided
      BY DEF SoundKit
    <3>2. KitCorrect(k, id, row).kit = k2
      BY <2>8 DEF KitCorrect, Done
    <3> HIDE DEF k2
    <3>3. voided \subseteq {k.rows[n].id : n \in DOMAIN k.rows}
      BY <1>3 DEF SoundKit, SoundLedger, InLedger
    <3> HIDE DEF voided
    <3>4. SoundLedger(k2)
      BY <2>3, <2>4, <2>6, <3>1, <3>3, LedgerGrows DEF SoundKit
    <3> QED
      BY <2>1, <3>1, <3>2, <3>4 DEF Outcome, SoundKit, Touches
  <2> QED
    BY <2>7, <2>8
<1> QED
  BY <1>2, <1>3

LEMMA AddEventKeeps ==
  ASSUME NEW k, SoundKit(k), NEW op, NEW context, NEW today, NEW seq, NEW T
  PROVE  Outcome(k, AddEvent(k, op, context, today, seq), T)
<1> DEFINE row == [id |-> EventId(op, seq), date |-> op.date,
                   amount |-> Signed(op.amount, op.direction),
                   status |-> EventStatus(op, context, today)]
<1>1. Outcome(k, Refused(k), T)
  BY RefusedKeeps
<1>2. "id" \in DOMAIN row /\ row.id = EventId(op, seq)
  OBVIOUS
<1>3. ~IsCorrection(EventId(op, seq))
  BY DEF IsCorrection, EventId
<1>4. AddEvent(k, op, context, today, seq) \in {Refused(k), KitAddEvent(k, row)}
  BY DEF AddEvent
<1> HIDE DEF row
<1>5. Outcome(k, KitAddEvent(k, row), T)
  BY <1>2, <1>3, KitAddEventKeeps
<1> QED
  BY <1>1, <1>4, <1>5

LEMMA RemoveEventKeeps ==
  ASSUME NEW k, SoundKit(k), NEW op, NEW T
  PROVE  Outcome(k, RemoveEvent(k, op), T)
<1>1. Outcome(k, Refused(k), T)
  BY RefusedKeeps
<1>2. CASE InLedger(k, op.event)
  <2>1. Outcome(k, KitVoid(k, op.event), T)
    BY <1>2, KitVoidKeeps
  <2> QED
    BY <1>1, <2>1 DEF RemoveEvent
<1>3. CASE ~InLedger(k, op.event)
  BY <1>1, <1>3 DEF RemoveEvent
<1> QED
  BY <1>2, <1>3

LEMMA ReadItemHasFields ==
  ASSUME NEW k, SoundKit(k), NEW scenario, Exists(k.set, scenario)
  PROVE  \A i \in DOMAIN Resolve(k.set, scenario).items :
            EveryField(Resolve(k.set, scenario).items[i])
BY ResolvedIsView DEF IsView, Exists, SoundKit

LEMMA UnknownScenarioRefused ==
  ASSUME NEW k, SoundKit(k), NEW scenario, ~Exists(k.set, scenario), NEW i, NEW item, NEW T
  PROVE  Outcome(k, KitSetItem(k, scenario, i, item), T)
BY RefusedKeeps DEF KitSetItem

LEMMA SetAmountKeeps ==
  ASSUME NEW k, SoundKit(k), NEW op, NEW scenario
  PROVE  Outcome(k, SetAmount(k, op, scenario), {scenario})
<1> DEFINE items == Resolve(k.set, scenario).items
           item == items[op.item]
           amount == Signed(op.amount, item.direction)
           v == IF op.from = Absent THEN [n \in DOMAIN item.segments |-> Restate(item.segments[n], amount)]
                ELSE FlattenSeq([n \in DOMAIN item.segments |-> SplitAt(item.segments[n], op.from, amount)])
           new == Amended(item, op.from, amount)
<1>1. Outcome(k, Refused(k), {scenario})
  BY RefusedKeeps
<1>2. SetAmount(k, op, scenario) = IF op.item \notin DOMAIN items THEN Refused(k)
                                   ELSE KitSetItem(k, scenario, op.item, new)
  BY DEF SetAmount
<1>3. new = [item EXCEPT !.segments = v]
  BY DEF Amended
<1> HIDE DEF new, v
<1>4. CASE op.item \in DOMAIN items /\ Exists(k.set, scenario)
  <2>1. EveryField(item)
    BY <1>4, ReadItemHasFields
  <2> HIDE DEF item, items
  <2>2. EveryField(new)
    BY <1>3, <2>1, FieldWritten
  <2>3. Outcome(k, KitSetItem(k, scenario, op.item, new), {scenario})
    BY <2>2, KitSetItemKeeps
  <2> QED
    BY <1>1, <1>2, <2>3
<1>5. CASE ~Exists(k.set, scenario)
  <2>1. Outcome(k, KitSetItem(k, scenario, op.item, new), {scenario})
    BY <1>5, UnknownScenarioRefused
  <2> HIDE DEF items
  <2> QED
    BY <1>1, <1>2, <2>1
<1>6. CASE op.item \notin DOMAIN items
  <2> HIDE DEF items
  <2> QED
    BY <1>1, <1>2, <1>6
<1> QED
  BY <1>4, <1>5, <1>6

LEMMA EditScheduleKeeps ==
  ASSUME NEW k, SoundKit(k), NEW op, NEW scenario
  PROVE  Outcome(k, EditScheduleDate(k, op, scenario), {scenario})
<1> DEFINE items == Resolve(k.set, scenario).items
           item == items[op.item]
           dated == {n \in DOMAIN item.segments : item.segments[n].schedule # Absent}
           schedule == item.segments[Min(dated)].schedule
           edited == Edited(schedule, op, item.direction)
           v == [item.segments EXCEPT ![Min(dated)].schedule = edited]
           new == [item EXCEPT !.segments[Min(dated)].schedule = edited]
<1>1. Outcome(k, Refused(k), {scenario})
  BY RefusedKeeps
<1>2. EditScheduleDate(k, op, scenario) \in {Refused(k), KitSetItem(k, scenario, op.item, new)}
  BY DEF EditScheduleDate
<1>3. op.item \notin DOMAIN items => EditScheduleDate(k, op, scenario) = Refused(k)
  BY DEF EditScheduleDate
<1>4. CASE op.item \in DOMAIN items /\ Exists(k.set, scenario)
  <2>1. EveryField(item)
    BY <1>4, ReadItemHasFields
  <2>2. new = [item EXCEPT !.segments = v]
    <3> HIDE DEF item, edited, dated
    <3> QED
      OBVIOUS
  <2> HIDE DEF item, items, v, new
  <2>3. EveryField(new)
    BY <2>1, <2>2, FieldWritten
  <2>4. Outcome(k, KitSetItem(k, scenario, op.item, new), {scenario})
    BY <2>3, KitSetItemKeeps
  <2> QED
    BY <1>1, <1>2, <2>4
<1>5. CASE ~Exists(k.set, scenario)
  <2> HIDE DEF new
  <2>1. Outcome(k, KitSetItem(k, scenario, op.item, new), {scenario})
    BY <1>5, UnknownScenarioRefused
  <2> QED
    BY <1>1, <1>2, <2>1
<1>6. CASE op.item \notin DOMAIN items
  <2> HIDE DEF items
  <2> QED
    BY <1>1, <1>3, <1>6
<1> QED
  BY <1>4, <1>5, <1>6

-----------------------------------------------------------------------------
(* Cards.                                                                  *)
Applicable(op) ==
    op.op \in Operations /\ (op.op = "fork_scenario" => op.name \in ScenarioIds)

LEMMA OpKeeps ==
  ASSUME NEW k, SoundKit(k), NEW op, Applicable(op), NEW scenario, NEW context, NEW today, NEW seq
  PROVE  Outcome(k, ApplyOp(k, op, scenario, context, today, seq), {scenario})
<1> DEFINE new == ApplyOp(k, op, scenario, context, today, seq)
<1>1. CASE op.op = "add_item"
  <2>1. new = KitSetItem(k, scenario, op.item, BuildItem(op))
    BY <1>1 DEF ApplyOp
  <2>2. EveryField(BuildItem(op))
    BY FieldsAssumption DEF BuildItem, EveryField
  <2> QED
    BY <2>1, <2>2, KitSetItemKeeps
<1>2. CASE op.op = "set_amount"
  <2>1. new = SetAmount(k, op, scenario)
    BY <1>2 DEF ApplyOp
  <2> QED
    BY <2>1, SetAmountKeeps
<1>3. CASE op.op \in {"shift_items", "scale_items"}
  <2>1. new = KitMacro(k, scenario, op)
    BY <1>3 DEF ApplyOp
  <2> QED
    BY <2>1, KitMacroKeeps
<1>4. CASE op.op \in {"add_event", "record_actual"}
  <2>1. new = AddEvent(k, op, context, today, seq)
    BY <1>4 DEF ApplyOp
  <2> QED
    BY <2>1, AddEventKeeps
<1>5. CASE op.op = "correct_actual"
  <2>1. new = CorrectActual(k, op)
    BY <1>5 DEF ApplyOp
  <2> QED
    BY <2>1, CorrectKeeps
<1>6. CASE op.op = "fork_scenario"
  <2> DEFINE parent == IF op.parent = Absent THEN scenario ELSE op.parent
  <2>1. new = KitFork(k, parent, op.name)
    BY <1>6 DEF ApplyOp
  <2>2. op.name \in ScenarioIds
    BY <1>6 DEF Applicable
  <2> HIDE DEF parent
  <2> QED
    BY <2>1, <2>2, KitForkKeeps
<1>7. CASE op.op = "set_cutover"
  <2>1. new = Wrote(k, SetBook(k.set, "cutover", op.date))
    BY <1>7 DEF ApplyOp
  <2> QED
    BY <2>1, BookWriteKeeps
<1>8. CASE op.op = "set_horizon"
  <2> DEFINE horizon == [start |-> op.start, end |-> op.end]
  <2>1. new \in {Refused(k), Wrote(k, SetBook(k.set, "horizon", horizon))}
    BY <1>8 DEF ApplyOp, SetHorizon
  <2> HIDE DEF horizon
  <2>2. Outcome(k, Wrote(k, SetBook(k.set, "horizon", horizon)), {scenario})
    BY BookWriteKeeps
  <2>3. Outcome(k, Refused(k), {scenario})
    BY RefusedKeeps
  <2> QED
    BY <2>1, <2>2, <2>3
<1>9. CASE op.op = "set_opening_balance"
  <2>1. new = Wrote(k, SetBook(k.set, "opening", op.amount))
    BY <1>9 DEF ApplyOp
  <2> QED
    BY <2>1, BookWriteKeeps
<1>10. CASE op.op = "remove_event"
  <2>1. new = RemoveEvent(k, op)
    BY <1>10 DEF ApplyOp
  <2> QED
    BY <2>1, RemoveEventKeeps
<1>11. CASE op.op = "edit_schedule_date"
  <2>1. new = EditScheduleDate(k, op, scenario)
    BY <1>11 DEF ApplyOp
  <2> QED
    BY <2>1, EditScheduleKeeps
<1> QED
  BY <1>1, <1>2, <1>3, <1>4, <1>5, <1>6, <1>7, <1>8, <1>9, <1>10, <1>11 DEF Applicable, Operations

LEMMA NextOpKeeps ==
  ASSUME NEW k, NEW done, NEW T, Outcome(k, done, T), NEW ops, NEW n, Applicable(ops[n]),
         NEW scenario, TargetOf(ops[n], scenario) \in T, NEW context, NEW today
  PROVE  Outcome(k, ApplyNext(done, ops, n, scenario, context, today), T)
<1> DEFINE t == TargetOf(ops[n], scenario)
           new == ApplyOp(done.kit, ops[n], t, context, today, n)
<1>1. Outcome(done.kit, new, {t})
  BY OpKeeps DEF Outcome
<1>2. ApplyNext(done, ops, n, scenario, context, today) \in {done, new}
  BY DEF ApplyNext
<1> HIDE DEF t, new
<1>3. t \in T
  BY DEF t
<1>4. Outcome(k, new, T)
  BY <1>1, <1>3, TouchesAdds, TouchesMore DEF Outcome
<1> QED
  BY <1>2, <1>4

LEMMA ApplyAllKeeps ==
  ASSUME NEW k, SoundKit(k), NEW ops, NEW L \in Nat, DOMAIN ops = 1 .. L, NEW scenario, NEW T,
         \A n \in 1 .. L : Applicable(ops[n]) /\ TargetOf(ops[n], scenario) \in T,
         NEW context, NEW today
  PROVE  Outcome(k, ApplyAll(k, ops, scenario, context, today), T)
<1>1. DOMAIN Numbers(ops) = 1 .. L /\ \A n \in 1 .. L : Numbers(ops)[n] = n
  BY DEF Numbers
<1>2. PICK R : CardRun(R, k, ops, scenario, context, today, L)
  BY <1>1, CardRuns
<1>3. /\ R[0] = Done(k)
      /\ \A n \in 1 .. L : R[n] = ApplyNext(R[n - 1], ops, n, scenario, context, today)
      /\ ApplyAll(k, ops, scenario, context, today) = R[L]
  BY <1>1, <1>2 DEF CardRun
<1> DEFINE Bad == {n \in 0 .. L : ~Outcome(k, R[n], T)}
<1>4. Bad = {}
  <2>1. SUFFICES ASSUME Bad # {} PROVE FALSE
    OBVIOUS
  <2>2. Bad \subseteq Nat
    OBVIOUS
  <2>3. PICK n \in Bad : \A m \in Bad : n <= m
    <3> HIDE DEF Bad
    <3> QED
      BY <2>1, <2>2, LeastNatural
  <2>4. n # 0
    <3>1. Outcome(k, Done(k), T)
      BY DEF Outcome, Done, Touches
    <3> QED
      BY <1>3, <2>3, <3>1
  <2>5. n \in 1 .. L /\ n - 1 \in 0 .. L /\ ~(n <= n - 1)
    BY <2>3, <2>4
  <2>6. Outcome(k, R[n - 1], T)
    BY <2>3, <2>5
  <2>7. Outcome(k, ApplyNext(R[n - 1], ops, n, scenario, context, today), T)
    BY <2>5, <2>6, NextOpKeeps
  <2> QED
    BY <1>3, <2>3, <2>5, <2>7
<1>5. L \in 0 .. L
  OBVIOUS
<1> QED
  BY <1>3, <1>4, <1>5

LEMMA ExpandedOp ==
  ASSUME NEW op, "op" \in DOMAIN op, NEW stored
  PROVE  LET new == ExpandMonths(op, stored)
         IN /\ DOMAIN new = DOMAIN op /\ new.op = op.op
            /\ op.op = "fork_scenario" => new = op
            /\ "scenario" \in DOMAIN op => new.scenario = op.scenario
<1> DEFINE new == ExpandMonths(op, stored)
           day == ParseAccountingDay(stored)
<1>1. CASE op.op = "add_item"
  BY <1>1 DEF ExpandMonths
<1>2. CASE op.op = "set_amount"
  BY <1>2 DEF ExpandMonths
<1>3. CASE op.op = "set_cutover"
  BY <1>3 DEF ExpandMonths
<1>4. CASE op.op \notin {"add_item", "set_amount", "set_cutover"}
  <2>1. new = op
    BY <1>4 DEF ExpandMonths
  <2> QED
    BY <2>1
<1> QED
  BY <1>1, <1>2, <1>3, <1>4

TargetsOf(card) == {TargetOf(card.ops[n], card.scenario) : n \in DOMAIN card.ops}

LEMMA CardKeeps ==
  ASSUME SoundKit(kit), NEW card \in Cards
  PROVE  Outcome(kit, RunCard(card), TargetsOf(card))
<1> DEFINE ops == [n \in DOMAIN card.ops |-> ExpandMonths(card.ops[n], card.accounting)]
           L == Len(card.ops)
<1>1. /\ DOMAIN card.ops = 1 .. L /\ L \in Nat
      /\ \A n \in 1 .. L : /\ "op" \in DOMAIN card.ops[n] /\ card.ops[n].op \in Operations
                           /\ card.ops[n].op = "fork_scenario" => card.ops[n].name \in ScenarioIds
  BY InputsAssumption
<1>2. RunCard(card) = ApplyAll(kit, ops, card.scenario, card.context, card.today)
  BY DEF RunCard
<1>3. DOMAIN ops = 1 .. L /\ \A n \in 1 .. L : ops[n] = ExpandMonths(card.ops[n], card.accounting)
  BY <1>1
<1> HIDE DEF ops, L
<1>4. ASSUME NEW n \in 1 .. L
      PROVE  Applicable(ops[n]) /\ TargetOf(ops[n], card.scenario) \in TargetsOf(card)
  <2> DEFINE op == card.ops[n]
             new == ExpandMonths(op, card.accounting)
  <2>1. /\ DOMAIN new = DOMAIN op /\ new.op = op.op
        /\ op.op = "fork_scenario" => new = op
        /\ "scenario" \in DOMAIN op => new.scenario = op.scenario
    BY <1>1, ExpandedOp
  <2>2. ops[n] = new
    BY <1>3
  <2>3. TargetOf(op, card.scenario) \in TargetsOf(card)
    BY <1>1 DEF TargetsOf
  <2>4. op.op \in Operations /\ (op.op = "fork_scenario" => op.name \in ScenarioIds)
    BY <1>1
  <2> HIDE DEF op, new
  <2>5. TargetOf(new, card.scenario) = TargetOf(op, card.scenario)
    BY <2>1 DEF TargetOf, Get
  <2> QED
    BY <2>1, <2>2, <2>3, <2>4, <2>5 DEF Applicable
<1>5. Outcome(kit, ApplyAll(kit, ops, card.scenario, card.context, card.today), TargetsOf(card))
  BY <1>1, <1>3, <1>4, ApplyAllKeeps
<1> QED
  BY <1>2, <1>5

-----------------------------------------------------------------------------
(* The steps.                                                              *)
KitInv == SoundKit(kit)
StaysWithin == Touches(kit.set, kit'.set, TouchedBy(last'))

LEMMA PerformKeeps ==
  ASSUME KitInv, NEW step, NEW result, NEW T, Outcome(kit, result, T),
         result.ok \/ result.kit = kit, T \subseteq TouchedBy(step), Perform(step, result)
  PROVE  KitInv' /\ StaysWithin
<1>1. kit' = result.kit /\ last' = IF result.ok THEN step ELSE Refusal
  BY DEF Perform
<1>2. KitInv'
  BY <1>1 DEF Outcome, KitInv
<1>3. Touches(kit.set, kit.set, TouchedBy(last'))
  BY DEF Touches
<1>4. Touches(kit.set, result.kit.set, TouchedBy(step))
  BY TouchesMore DEF Outcome
<1> QED
  BY <1>1, <1>2, <1>3, <1>4 DEF StaysWithin

LEMMA RefusedOrWrote ==
  ASSUME NEW k
  PROVE  /\ Refused(k).kit = k /\ ~Refused(k).ok
         /\ \A set : Wrote(k, set).ok /\ Wrote(k, set).kit = [k EXCEPT !.set = set]
BY DEF Refused, Wrote, Done

LEMMA VerbKeeps ==
  ASSUME KitInv, NEW s, NEW set, Reaches(kit.set, set, {s})
  PROVE  Outcome(kit, Verb(s, set), {s}) /\ (Verb(s, set).ok \/ Verb(s, set).kit = kit)
<1>1. Verb(s, set) \in {Wrote(kit, set), Refused(kit)}
  BY DEF Verb
<1>2. Outcome(kit, Wrote(kit, set), {s}) /\ Outcome(kit, Refused(kit), {s})
  BY WroteKeeps, RefusedKeeps DEF KitInv
<1>3. Wrote(kit, set).ok /\ Refused(kit).kit = kit
  BY RefusedOrWrote
<1> QED
  BY <1>1, <1>2, <1>3

LEMMA WriteItemKeeps ==
  ASSUME KitInv, NEW s, NEW i, NEW item \in ItemValues, WriteItem(s, i, item)
  PROVE  KitInv' /\ StaysWithin
<1> DEFINE step == [verb |-> "set_item", scenario |-> s, item |-> i, value |-> item]
           result == KitSetItem(kit, s, i, item)
<1>1. Perform(step, result)
  BY DEF WriteItem
<1>2. {s} \subseteq TouchedBy(step)
  BY DEF TouchedBy
<1>3. Outcome(kit, result, {s})
  BY InputsAssumption, KitSetItemKeeps DEF KitInv
<1>4. result.ok \/ result.kit = kit
  BY RefusedOrWrote DEF KitSetItem
<1> HIDE DEF step, result
<1> QED
  BY <1>1, <1>2, <1>3, <1>4, PerformKeeps

LEMMA DropItemKeeps ==
  ASSUME KitInv, NEW s, NEW i, DropItem(s, i)
  PROVE  KitInv' /\ StaysWithin
<1> DEFINE step == OnItem("remove_item", s, i)
           result == Verb(s, RemoveItem(kit.set, s, i))
<1>1. Perform(step, result)
  BY DEF DropItem
<1>2. {s} \subseteq TouchedBy(step)
  BY DEF TouchedBy, OnItem
<1>3. Reaches(kit.set, RemoveItem(kit.set, s, i), {s})
  BY RemoveReaches DEF KitInv, SoundKit
<1>4. Outcome(kit, result, {s}) /\ (result.ok \/ result.kit = kit)
  BY <1>3, VerbKeeps
<1> HIDE DEF step, result
<1> QED
  BY <1>1, <1>2, <1>4, PerformKeeps

LEMMA UnsetItemKeeps ==
  ASSUME KitInv, NEW s, NEW i, UnsetItem(s, i)
  PROVE  KitInv' /\ StaysWithin
<1> DEFINE step == OnItem("unset", s, i)
           result == Verb(s, Unset(kit.set, s, i))
<1>1. Perform(step, result)
  BY DEF UnsetItem
<1>2. {s} \subseteq TouchedBy(step)
  BY DEF TouchedBy, OnItem
<1>3. Reaches(kit.set, Unset(kit.set, s, i), {s})
  BY UnsetReaches DEF KitInv, SoundKit
<1>4. Outcome(kit, result, {s}) /\ (result.ok \/ result.kit = kit)
  BY <1>3, VerbKeeps
<1> HIDE DEF step, result
<1> QED
  BY <1>1, <1>2, <1>4, PerformKeeps

LEMMA WriteParamKeeps ==
  ASSUME KitInv, NEW s, NEW key, NEW value \in ParamValues, WriteParam(s, key, value)
  PROVE  KitInv' /\ StaysWithin
<1> DEFINE step == [verb |-> "set_param", scenario |-> s, key |-> key, value |-> value]
           result == Verb(s, SetParam(kit.set, s, key, value))
<1>1. Perform(step, result)
  BY DEF WriteParam
<1>2. {s} \subseteq TouchedBy(step)
  BY DEF TouchedBy
<1>3. Reaches(kit.set, SetParam(kit.set, s, key, value), {s})
  BY InputsAssumption, SetParamReaches DEF KitInv, SoundKit
<1>4. Outcome(kit, result, {s}) /\ (result.ok \/ result.kit = kit)
  BY <1>3, VerbKeeps
<1> HIDE DEF step, result
<1> QED
  BY <1>1, <1>2, <1>4, PerformKeeps

LEMMA RetagItemsKeeps ==
  ASSUME KitInv, NEW s, NEW selector, NEW tags, RetagItems(s, selector, tags)
  PROVE  KitInv' /\ StaysWithin
<1> DEFINE step == Step("retag", s)
           macro == [op |-> "retag_items", selector |-> selector, tags |-> tags]
           result == KitMacro(kit, s, macro)
<1>1. Perform(step, result)
  BY DEF RetagItems
<1>2. {s} \subseteq TouchedBy(step)
  BY DEF TouchedBy, Step
<1> HIDE DEF macro
<1>3. Outcome(kit, result, {s})
  BY KitMacroKeeps DEF KitInv
<1>4. result.ok \/ result.kit = kit
  BY RefusedOrWrote DEF KitMacro
<1> HIDE DEF step, result
<1> QED
  BY <1>1, <1>2, <1>3, <1>4, PerformKeeps

LEMMA FlattenScenarioKeeps ==
  ASSUME KitInv, NEW s, NEW new \in ScenarioIds, FlattenScenario(s, new)
  PROVE  KitInv' /\ StaysWithin
<1> DEFINE step == [verb |-> "flatten", scenario |-> s, new |-> new]
           set == Flatten(kit.set, s, new)
           result == IF Exists(kit.set, s) /\ ~Exists(kit.set, new) THEN Wrote(kit, set)
                     ELSE Refused(kit)
<1>1. Perform(step, result)
  BY DEF FlattenScenario
<1>2. {} \subseteq TouchedBy(step)
  OBVIOUS
<1>3. Reaches(kit.set, set, {})
  BY FlattenReaches DEF KitInv, SoundKit
<1> HIDE DEF set
<1>4. Outcome(kit, Wrote(kit, set), {}) /\ Outcome(kit, Refused(kit), {})
  BY <1>3, WroteKeeps, RefusedKeeps DEF KitInv
<1>5. Wrote(kit, set).ok /\ Refused(kit).kit = kit
  BY RefusedOrWrote
<1>6. result \in {Wrote(kit, set), Refused(kit)}
  OBVIOUS
<1> HIDE DEF step, result
<1> QED
  BY <1>1, <1>2, <1>4, <1>5, <1>6, PerformKeeps

LEMMA AcceptCardKeeps ==
  ASSUME KitInv, NEW card \in Cards, AcceptCard(card)
  PROVE  KitInv' /\ StaysWithin
<1> DEFINE step == [verb |-> "card", scenario |-> card.scenario, card |-> card]
           result == IF RunCard(card).ok THEN RunCard(card) ELSE Refused(kit)
<1>1. Perform(step, result)
  BY DEF AcceptCard
<1>2. TargetsOf(card) \subseteq TouchedBy(step)
  BY DEF TouchedBy, TargetsOf
<1>3. Outcome(kit, RunCard(card), TargetsOf(card))
  BY CardKeeps DEF KitInv
<1>4. Outcome(kit, Refused(kit), TargetsOf(card))
  BY RefusedKeeps DEF KitInv
<1>5. Outcome(kit, result, TargetsOf(card)) /\ (result.ok \/ result.kit = kit)
  BY <1>3, <1>4, RefusedOrWrote
<1> HIDE DEF step, result
<1> QED
  BY <1>1, <1>2, <1>5, PerformKeeps

LEMMA KitUnchanged ==
  ASSUME KitInv, kit' = kit
  PROVE  KitInv' /\ StaysWithin
BY DEF KitInv, StaysWithin, Touches

LEMMA StepKeeps ==
  ASSUME KitInv, [Next]_vars
  PROVE  KitInv' /\ StaysWithin
<1>1. CASE UNCHANGED vars
  BY <1>1, KitUnchanged DEF vars
<1>2. CASE \E s \in Written, i \in ItemIds, item \in ItemValues : WriteItem(s, i, item)
  BY <1>2, WriteItemKeeps
<1>3. CASE \E s \in Written, i \in ItemIds : DropItem(s, i)
  BY <1>3, DropItemKeeps
<1>4. CASE \E s \in Written, i \in ItemIds : UnsetItem(s, i)
  BY <1>4, UnsetItemKeeps
<1>5. CASE \E s \in Written, key \in ParamKeys, value \in ParamValues : WriteParam(s, key, value)
  BY <1>5, WriteParamKeeps
<1>6. CASE \E s \in Written, selector \in Selectors, tags \in TagChanges :
              RetagItems(s, selector, tags)
  BY <1>6, RetagItemsKeeps
<1>7. CASE \E s \in Written, new \in ScenarioIds : FlattenScenario(s, new)
  BY <1>7, FlattenScenarioKeeps
<1>8. CASE \E card \in Cards : AcceptCard(card)
  BY <1>8, AcceptCardKeeps
<1>9. CASE \E s \in Read : Hold(s) \/ CompareWith(s)
  <2>1. kit' = kit
    BY <1>9 DEF Hold, CompareWith
  <2> QED
    BY <2>1, KitUnchanged
<1> QED
  BY <1>1, <1>2, <1>3, <1>4, <1>5, <1>6, <1>7, <1>8, <1>9 DEF Next

LEMMA KitStarts ==
  ASSUME Init
  PROVE  KitInv
<1>1. kit \in Kits
  BY DEF Init
<1> DEFINE D == DOMAIN kit.set.scenarios
<1>2. /\ {"set", "rows", "voided"} \subseteq DOMAIN kit
      /\ SoundSet(kit.set) /\ SoundLedger(kit)
      /\ \E rank \in [D -> 0 .. Cardinality(D)] : Ranks(kit.set, rank)
  BY <1>1, KitsAssumption
<1>3. PICK rank \in [D -> 0 .. Cardinality(D)] : Ranks(kit.set, rank)
  BY <1>2
<1>4. IsFiniteSet(D) /\ D \subseteq ScenarioIds
  BY <1>2 DEF SoundSet
<1>5. Cardinality(D) \in Nat
  BY <1>4, FS_CardinalityType
<1>6. \A s \in D : rank[s] \in Nat
  BY <1>3, <1>5
<1>7. IsForest(kit.set)
  BY <1>3, <1>4, <1>6, BaseIsAScenario DEF IsForest, Depths
<1> QED
  BY <1>2, <1>7 DEF KitInv, SoundKit, Sound

LEMMA KitStays == Spec => []KitInv
<1>1. KitInv /\ [Next]_vars => KitInv'
  BY StepKeeps
<1> QED
  BY KitStarts, <1>1, PTL DEF Spec

LEMMA RowsCounted ==
  ASSUME KitInv
  PROVE  Cardinality(RowIds) = Len(kit.rows) /\ kit.voided \subseteq RowIds
<1> DEFINE m == Len(kit.rows)
           f == [n \in 1 .. m |-> kit.rows[n].id]
<1>1. m \in Nat /\ DOMAIN kit.rows = 1 .. m
  BY LenProperties DEF KitInv, SoundKit, SoundLedger
<1>2. \A n, j \in 1 .. m : kit.rows[j].id = kit.rows[n].id => j = n
  BY <1>1 DEF KitInv, SoundKit, SoundLedger
<1>3. RowIds = {kit.rows[n].id : n \in 1 .. m}
  BY <1>1 DEF RowIds
<1> HIDE DEF m
<1>4. f \in Bijection(1 .. m, RowIds)
  <2>1. f \in [1 .. m -> RowIds]
    BY <1>3
  <2>2. \A n, j \in 1 .. m : f[n] = f[j] => n = j
    BY <1>2
  <2>3. \A id \in RowIds : \E n \in 1 .. m : f[n] = id
    BY <1>3
  <2> HIDE DEF f
  <2> QED
    BY <2>1, <2>2, <2>3 DEF Bijection, Injection, IsInjective, Surjection
<1>5. ExistsBijection(1 .. m, RowIds)
  BY <1>4 DEF ExistsBijection, Bijection
<1>6. IsFiniteSet(1 .. m) /\ Cardinality(1 .. m) = m
  <2>1. Cardinality(1 .. m) = IF 1 > m THEN 0 ELSE m - 1 + 1
    BY <1>1, FS_Interval
  <2> QED
    BY <1>1, <2>1, FS_Interval
<1>7. Cardinality(RowIds) = m
  BY <1>5, <1>6, FS_Bijection
<1> QED
  BY <1>7 DEF m, RowIds, KitInv, SoundKit, SoundLedger

(* A book that was loaded can be loaded again, whatever was written to it: *)
(* however many verbs and cards a history has, no scenario is left with a  *)
(* broken chain, an item that is both added and overlaid, or an overlay    *)
(* that records nothing, and the ledger keeps its ids apart.               *)
THEOREM TreeAlwaysLoads == Spec => []WorkingTreeLoads
<1>1. KitInv => WorkingTreeLoads
  <2>1. SUFFICES ASSUME KitInv PROVE WorkingTreeLoads
    OBVIOUS
  <2>2. ASSUME NEW s \in DOMAIN Stored
        PROVE  /\ StructurallyConsistent(s, Stored[s])
               /\ \A i \in DOMAIN Stored[s].items :
                     DOMAIN Stored[s].items[i] \in (SUBSET OverlayFields) \ {{}}
    BY <2>1 DEF KitInv, SoundKit, Sound, SoundSet, SoundScenario, Stored
  <2>3. ASSUME NEW s \in DOMAIN Stored
        PROVE  ~ChainIsBroken(kit.set, s)
    <3>1. IsWay(kit.set, s, Chain(kit.set, s)) /\ FromRoot(kit.set, Chain(kit.set, s))
      BY <2>1, ChainIsTheWay DEF KitInv, SoundKit, Sound, Stored
    <3>2. Chain(kit.set, s) # <<>>
      BY <3>1 DEF IsWay
    <3>3. NextAncestor(kit.set, Chain(kit.set, s)) = NoParent
      BY <3>1, WayEnds DEF FromRoot
    <3> QED
      BY <3>2, <3>3 DEF ChainIsBroken
  <2> QED
    BY <2>1, <2>2, <2>3, RowsCounted DEF WorkingTreeLoads
<1> QED
  BY <1>1, KitStays, PTL

-----------------------------------------------------------------------------
(* What a write leaves alone.                                              *)
LEMMA OverlayIsLocal ==
  ASSUME NEW old, NEW new, NEW v, NEW w, NEW id, new.scenarios[id] = old.scenarios[id],
         w.items = v.items, w.events = v.events
  PROVE  /\ Overlay(new, w, id).items = Overlay(old, v, id).items
         /\ Overlay(new, w, id).events = Overlay(old, v, id).events
BY DEF Overlay

LEMMA SelfNotAbove ==
  ASSUME NEW set, IsForest(set), NEW id \in DOMAIN set.scenarios, ParentOf(set, id) # NoParent
  PROVE  id \notin Ancestry(set, ParentOf(set, id))
<1> DEFINE c == Chain(set, ParentOf(set, id))
           d == Chain(set, id)
           m == Len(c)
<1>1. PICK rank : Depths(set, rank)
  BY DEF IsForest
<1>2. ParentOf(set, id) \in DOMAIN set.scenarios /\ d = Append(c, id)
  BY ChainSteps
<1>3. IsWay(set, id, d)
  BY ChainIsTheWay
<1>4. c \in Seq(DOMAIN set.scenarios)
  BY <1>2, ChainIsTheWay DEF IsWay
<1> HIDE DEF c
<1>5. /\ m \in Nat /\ DOMAIN c = 1 .. m /\ Len(d) = m + 1 /\ d[m + 1] = id
      /\ \A k \in 1 .. m : d[k] = c[k]
  BY <1>2, <1>4, LenProperties, AppendProperties
<1>6. \A j, k \in 1 .. Len(d) : j < k => rank[d[j]] < rank[d[k]]
  BY <1>1, <1>3, RanksRise DEF IsForest
<1>7. rank[id] \in Nat
  BY <1>1 DEF Depths
<1> HIDE DEF d, m
<1>8. \A k \in 1 .. m : c[k] # id
  <2> TAKE k \in 1 .. m
  <2>1. k \in 1 .. Len(d) /\ m + 1 \in 1 .. Len(d) /\ k < m + 1
    BY <1>5
  <2>2. rank[d[k]] < rank[d[m + 1]]
    BY <1>6, <2>1
  <2> QED
    BY <1>5, <1>7, <2>2
<1> QED
  BY <1>5, <1>8 DEF Ancestry, ToSet, c

(* A scenario whose ancestors a write does not touch is read as before.    *)
LEMMA UntouchedReadsSame ==
  ASSUME NEW old, NEW new, Sound(old), Sound(new), NEW T, Touches(old, new, T), Base \notin T,
         NEW id \in DOMAIN old.scenarios, Ancestry(old, id) \cap T = {}
  PROVE  /\ Resolve(new, id).items = Resolve(old, id).items
         /\ Resolve(new, id).events = Resolve(old, id).events
<1> DEFINE D == DOMAIN old.scenarios
           P == {u \in D : Ancestry(old, u) \cap T = {} =>
                    /\ Raw(new, u).items = Raw(old, u).items
                    /\ Raw(new, u).events = Raw(old, u).events}
<1>1. ASSUME NEW u \in D, ParentOf(old, u) = NoParent \/ ParentOf(old, u) \in P PROVE u \in P
  <2>1. SUFFICES ASSUME Ancestry(old, u) \cap T = {}
        PROVE  Raw(new, u).items = Raw(old, u).items /\ Raw(new, u).events = Raw(old, u).events
    OBVIOUS
  <2>2. u \notin T
    BY <2>1, AncestrySteps DEF Sound
  <2>3. /\ u \in DOMAIN new.scenarios /\ new.scenarios[u] = old.scenarios[u]
        /\ ParentOf(new, u) = ParentOf(old, u)
    BY <2>2 DEF Touches
  <2>4. Above(new, u).items = Above(old, u).items /\ Above(new, u).events = Above(old, u).events
    <3>1. CASE ParentOf(old, u) = NoParent
      <4>1. Above(old, u) = Authored(old.book) /\ Above(new, u) = Authored(new.book)
        BY <2>3, <3>1 DEF Above
      <4>2. new.book.items = old.book.items
        BY DEF Touches
      <4> QED
        BY <4>1, <4>2 DEF Authored
    <3>2. CASE ParentOf(old, u) # NoParent
      <4>1. Ancestry(old, ParentOf(old, u)) \cap T = {}
        BY <2>1, <3>2, AncestrySteps DEF Sound
      <4>2. ParentOf(old, u) \in P
        BY <1>1, <3>2
      <4>3. /\ Raw(new, ParentOf(old, u)).items = Raw(old, ParentOf(old, u)).items
            /\ Raw(new, ParentOf(old, u)).events = Raw(old, ParentOf(old, u)).events
        BY <4>1, <4>2
      <4> QED
        BY <2>3, <3>2, <4>3 DEF Above
    <3> QED
      BY <3>1, <3>2
  <2> DEFINE v == Above(old, u)
             w == Above(new, u)
  <2> HIDE DEF v, w
  <2>5. /\ Overlay(new, w, u).items = Overlay(old, v, u).items
        /\ Overlay(new, w, u).events = Overlay(old, v, u).events
    BY <2>3, <2>4, OverlayIsLocal DEF v, w
  <2>6. Raw(old, u) = Overlay(old, v, u) /\ Raw(new, u) = Overlay(new, w, u)
    BY <2>3, RawSteps DEF v, w, Sound
  <2> QED
    BY <2>5, <2>6
<1>2. \A u \in D : u \in P
  <2> HIDE DEF P
  <2> QED
    BY <1>1, Downwards DEF Sound
<1>3. Raw(new, id).items = Raw(old, id).items /\ Raw(new, id).events = Raw(old, id).events
  BY <1>2
<1> QED
  BY <1>3, Resolved, OpenedShows

LEMMA WritesStayBelow ==
  ASSUME KitInv, KitInv', StaysWithin
  PROVE  WriteStaysBelow
<1> DEFINE T == TouchedBy(last')
<1>1. SUFFICES ASSUME NEW t \in DOMAIN Stored, \A s \in T : ~IsAbove(kit.set, s, t)
      PROVE  View(t).items = After(t).items /\ View(t).events = After(t).events
  BY DEF WriteStaysBelow
<1>2. Base \notin T /\ Ancestry(kit.set, t) \cap T = {}
  BY <1>1 DEF IsAbove
<1>3. Sound(kit.set) /\ Sound(kit'.set) /\ Touches(kit.set, kit'.set, T)
  BY DEF KitInv, SoundKit, StaysWithin
<1> HIDE DEF T
<1>4. /\ Resolve(kit'.set, t).items = Resolve(kit.set, t).items
      /\ Resolve(kit'.set, t).events = Resolve(kit.set, t).events
  BY <1>2, <1>3, UntouchedReadsSame DEF Stored
<1> QED
  BY <1>4 DEF View, After

-----------------------------------------------------------------------------
(* What is above a scenario is not changed by what the scenario records.   *)
LEMMA AboveStays ==
  ASSUME NEW old, NEW new, Sound(old), Sound(new), NEW id \in DOMAIN old.scenarios,
         Touches(old, new, {id}), new.book = old.book
  PROVE  ParentView(new, id) = ParentView(old, id)
<1>1. ParentOf(new, id) = ParentOf(old, id)
  BY DEF Touches
<1>2. CASE ParentOf(old, id) = NoParent
  BY <1>1, <1>2, Resolved DEF Above, Opened
<1>3. CASE ParentOf(old, id) # NoParent
  <2>1. id \notin Ancestry(old, ParentOf(old, id))
    BY <1>3, SelfNotAbove DEF Sound
  <2>2. ParentOf(old, id) \in DOMAIN old.scenarios
    BY <1>3, ChainSteps DEF Sound
  <2>3. Ancestry(old, ParentOf(old, id)) \subseteq DOMAIN old.scenarios
    <3>1. IsWay(old, ParentOf(old, id), Chain(old, ParentOf(old, id)))
      BY <2>2, ChainIsTheWay DEF Sound
    <3> QED
      BY <3>1, WayEnds DEF Ancestry, ToSet
  <2>4. SameRecords(old, new, ParentOf(old, id))
    BY <2>1, <2>3 DEF SameRecords, Touches
  <2>5. Resolve(new, ParentOf(old, id)) = Resolve(old, ParentOf(old, id))
    BY <2>2, <2>4, SameViews DEF Sound
  <2> QED
    BY <1>1, <1>3, <2>5 DEF ParentView, ParentOf
<1> QED
  BY <1>2, <1>3

(* What a scenario reads, from what it records and what is above it.       *)
LEMMA ReadsItsRecord ==
  ASSUME NEW set, Sound(set), NEW id \in DOMAIN set.scenarios
  PROVE  Shows(set.scenarios[id], ParentView(set, id), Resolve(set, id))
<1> DEFINE a == Above(set, id)
           v == Overlay(set, a, id)
           s == set.scenarios[id]
<1>1. Raw(set, id) = v
  BY RawSteps DEF Sound
<1>2. Shows(s, a, v)
  BY OverlayShows
<1>3. Resolve(set, id) = Opened(set, v) /\ ParentView(set, id) = Opened(set, a)
  BY <1>1, Resolved
<1> HIDE DEF a, v, s
<1>4. Shows(s, Opened(set, a), Opened(set, v))
  BY <1>2, OpenedShows DEF Shows
<1> QED
  BY <1>3, <1>4 DEF s

LEMMA BaseReadsTheBook ==
  ASSUME NEW set, Sound(set)
  PROVE  /\ Resolve(set, Base).items = set.book.items
         /\ Resolve(set, Base).params = set.book.params
         /\ ParentView(set, Base).items = set.book.items
         /\ ParentView(set, Base).params = set.book.params
<1> DEFINE s == set.scenarios[Base]
           a == ParentView(set, Base)
           v == Resolve(set, Base)
<1>1. Base \in DOMAIN set.scenarios /\ s = EmptyScenario(NoParent)
  BY DEF Sound, SoundSet
<1>2. a.items = set.book.items /\ a.params = set.book.params
  <2>1. Above(set, Base) = Authored(set.book)
    BY <1>1 DEF Above, ParentOf, EmptyScenario
  <2> QED
    BY <2>1, Resolved, OpenedShows DEF Authored
<1>3. Shows(s, a, v)
  BY <1>1, ReadsItsRecord
<1>4. s.added = Nothing /\ s.items = Nothing /\ s.params = Nothing /\ s.removed = {}
  BY <1>1 DEF EmptyScenario
<1>5. IsMap(a.items) /\ IsMap(a.params) /\ \A i \in DOMAIN a.items : EveryField(a.items[i])
  BY <1>1, ResolvedIsView DEF IsView
<1> HIDE DEF s, a, v
<1>6. v.params = a.params
  BY <1>3, <1>4, <1>5, OverNothing DEF Shows
<1>7. IsMap(v.items) /\ DOMAIN v.items = DOMAIN a.items
  BY <1>3, <1>4, NothingIsEmpty DEF Shows
<1>8. \A i \in DOMAIN a.items : v.items[i] = ApplyOverlay(a.items[i], Nothing)
  BY <1>3, <1>4, NothingIsEmpty DEF Shows, Get
<1>9. \A i \in DOMAIN a.items : v.items[i] = a.items[i]
  BY <1>5, <1>8, OverlayOfNothing
<1>10. v.items = a.items
  BY <1>5, <1>7, <1>9 DEF IsMap
<1> QED
  BY <1>2, <1>6, <1>10 DEF a, v

-----------------------------------------------------------------------------
(* What was written is what is read.                                       *)
LEMMA DiffRestores ==
  ASSUME NEW item, NEW parent, EveryField(item), EveryField(parent)
  PROVE  ApplyOverlay(parent, DiffOverlay(item, parent)) = item
<1> DEFINE d == DiffOverlay(item, parent)
           w == ApplyOverlay(parent, d)
<1>1. /\ DOMAIN d = DiffFields(item, parent) /\ DOMAIN d \subseteq OverlayFields
      /\ \A f \in DiffFields(item, parent) : d[f] = item[f]
  BY DiffShows
<1> HIDE DEF d
<1>2. /\ EveryField(w)
      /\ \A f \in DOMAIN d : w[f] = d[f]
      /\ \A f \in OverlayFields \ DOMAIN d : w[f] = parent[f]
  BY <1>1, AppliedOverlay
<1>3. \A f \in OverlayFields \ DOMAIN d : parent[f] = item[f]
  BY <1>1 DEF DiffFields
<1>4. \A f \in OverlayFields : w[f] = item[f]
  BY <1>1, <1>2, <1>3
<1> HIDE DEF w
<1>5. w = item
  BY <1>2, <1>4 DEF EveryField
<1> QED
  BY <1>5 DEF w, d

LEMMA RecordIsRead ==
  ASSUME NEW set, Sound(set), NEW id \in DOMAIN set.scenarios, NEW s,
         Reaches(set, Replace(set, id, s), {id})
  PROVE  Shows(s, ParentView(set, id), Resolve(Replace(set, id, s), id))
<1> DEFINE new == Replace(set, id, s)
<1>1. new.book = set.book /\ new.scenarios[id] = s
  BY DEF Replace, Sound, SoundSet
<1> HIDE DEF new
<1>2. Sound(new) /\ Touches(set, new, {id}) /\ id \in DOMAIN new.scenarios
  BY DEF Reaches, Touches, new
<1>3. ParentView(new, id) = ParentView(set, id)
  BY <1>1, <1>2, AboveStays
<1>4. Shows(new.scenarios[id], ParentView(new, id), Resolve(new, id))
  BY <1>2, ReadsItsRecord
<1> QED
  BY <1>1, <1>3, <1>4 DEF new

(* Where a record keeps an item, it is read with the overlay over it.      *)
LEMMA KeptItemRead ==
  ASSUME NEW s, NEW a, NEW v, Shows(s, a, v), NEW i, i \notin DOMAIN s.added
  PROVE  /\ i \in DOMAIN v.items <=> (i \in DOMAIN a.items /\ i \notin s.removed)
         /\ i \in DOMAIN v.items => v.items[i] = ApplyOverlay(a.items[i], Get(s.items, i, Nothing))
BY DEF Shows

LEMMA AddedItemRead ==
  ASSUME NEW s, NEW a, NEW v, Shows(s, a, v), NEW i, i \in DOMAIN s.added
  PROVE  /\ i \in DOMAIN v.items
         /\ v.items[i] = ApplyOverlay(s.added[i], Get(s.items, i, Nothing))
BY DEF Shows

LEMMA OverlaidItemIsRead ==
  ASSUME NEW set, Sound(set), NEW id \in DOMAIN set.scenarios \ {Base}, NEW i, NEW item,
         EveryField(item), i \in DOMAIN ParentView(set, id).items,
         i \notin DOMAIN set.scenarios[id].added
  PROVE  Resolve(OverlayInScenario(set, id, i, item, ParentView(set, id).items[i]), id).items[i] = item
<1> DEFINE a == ParentView(set, id)
           p == a.items[i]
           s == set.scenarios[id]
           record == DiffOverlay(item, p)
           B == Put(s.items, i, record)
           A == Without(s.added, i)
           r == [s EXCEPT !.items = B, !.added = A, !.removed = @ \ {i}]
           new == OverlayInScenario(set, id, i, item, p)
<1>1. EveryField(p)
  BY ResolvedIsView DEF IsView
<1>2. ApplyOverlay(p, record) = item
  BY <1>1, DiffRestores
<1>3. Reaches(set, new, {id})
  BY OverlayReaches
<1>4. SoundScenario(id, s)
  BY DEF Sound, SoundSet
<1>5. CASE record = Get(s.items, i, Nothing) /\ i \notin s.removed
  <2>1. new = set
    BY <1>5 DEF OverlayInScenario
  <2>2. Shows(s, a, Resolve(set, id))
    BY ReadsItsRecord
  <2> HIDE DEF s, a, record, new
  <2>3. Resolve(set, id).items[i] = ApplyOverlay(p, Get(s.items, i, Nothing))
    BY <1>5, <2>2, KeptItemRead DEF s, a
  <2> QED
    BY <1>2, <1>5, <2>1, <2>3 DEF new, a, p
<1>6. CASE ~(record = Get(s.items, i, Nothing) /\ i \notin s.removed)
  <2>1. new = Replace(set, id, r)
    BY <1>6 DEF OverlayInScenario
  <2>2. Shows(r, a, Resolve(new, id))
    BY <1>3, <2>1, RecordIsRead
  <2> DEFINE si == s.items
             sa == s.added
  <2> HIDE DEF si, sa
  <2>3. Get(Put(si, i, record), i, Nothing) = record
    BY PutWorks
  <2>4. DOMAIN Without(sa, i) = DOMAIN sa \ {i}
    BY WithoutWorks
  <2>5. Get(B, i, Nothing) = record /\ i \notin DOMAIN A
    BY <2>3, <2>4 DEF si, sa
  <2> HIDE DEF A, B, record
  <2>6. r.items = B /\ r.added = A /\ i \notin r.removed
    BY <1>4 DEF SoundScenario
  <2> HIDE DEF r, s, a, new
  <2>7. Resolve(new, id).items[i] = ApplyOverlay(p, Get(r.items, i, Nothing))
    BY <2>2, <2>5, <2>6, KeptItemRead DEF a
  <2> QED
    BY <1>2, <2>5, <2>6, <2>7 DEF new, a, p
<1> QED
  BY <1>5, <1>6

LEMMA AddedIsRead ==
  ASSUME NEW set, Sound(set), NEW id \in DOMAIN set.scenarios \ {Base}, NEW i, NEW item,
         EveryField(item)
  PROVE  Resolve(AddToScenario(set, id, i, item), id).items[i] = item
<1> DEFINE s == set.scenarios[id]
           A == With(s.added, i, item)
           B == Without(s.items, i)
           r == [s EXCEPT !.added = A, !.items = B, !.removed = @ \ {i}]
           new == AddToScenario(set, id, i, item)
           a == ParentView(set, id)
<1>1. SoundScenario(id, s)
  BY DEF Sound, SoundSet
<1>2. Reaches(set, new, {id})
  BY AddReaches
<1>3. new = Replace(set, id, r)
  BY DEF AddToScenario
<1>4. Shows(r, a, Resolve(new, id))
  BY <1>2, <1>3, RecordIsRead
<1> DEFINE si == s.items
           sa == s.added
<1> HIDE DEF si, sa
<1>5. DOMAIN With(sa, i, item) = DOMAIN sa \cup {i}
  BY WithWorks
<1>6. With(sa, i, item)[i] = item
  BY WithWorks
<1>7. DOMAIN Without(si, i) = DOMAIN si \ {i}
  BY WithoutWorks
<1>8. i \in DOMAIN A /\ A[i] = item /\ i \notin DOMAIN B
  BY <1>5, <1>6, <1>7 DEF si, sa
<1> HIDE DEF A, B
<1>9. r.items = B /\ r.added = A
  BY <1>1 DEF SoundScenario
<1> HIDE DEF r, a, new
<1>10. Resolve(new, id).items[i] = ApplyOverlay(item, Get(r.items, i, Nothing))
  BY <1>4, <1>8, <1>9, AddedItemRead
<1>11. Get(r.items, i, Nothing) = Nothing
  BY <1>8, <1>9 DEF Get
<1> QED
  BY <1>10, <1>11, OverlayOfNothing DEF new

LEMMA SetItemIsRead ==
  ASSUME NEW set, Sound(set), NEW id \in DOMAIN set.scenarios, NEW i, NEW item, EveryField(item),
         ~(id # Base /\ i \in DOMAIN set.scenarios[id].added /\ i \in DOMAIN ParentView(set, id).items)
  PROVE  Resolve(SetItem(set, id, i, item), id).items[i] = item
<1> DEFINE a == ParentView(set, id).items
           new == SetItem(set, id, i, item)
<1>1. Exists(set, id)
  BY DEF Exists
<1>2. CASE id = Base
  <2>1. new = SetAuthoredItem(set, i, item)
    BY <1>1, <1>2 DEF SetItem
  <2>2. Sound(new)
    BY SetItemReaches DEF Reaches
  <2> DEFINE m == set.book.items
  <2>3. new.book.items = With(m, i, item)
    BY <2>1 DEF SetAuthoredItem, Sound, SoundSet, SoundBook
  <2>4. Resolve(new, Base).items = new.book.items
    BY <2>2, BaseReadsTheBook
  <2> HIDE DEF m
  <2>5. With(m, i, item)[i] = item
    BY WithWorks
  <2> QED
    BY <1>2, <2>3, <2>4, <2>5
<1>3. CASE id # Base /\ i \in DOMAIN a
  <2>1. new = OverlayInScenario(set, id, i, item, ParentView(set, id).items[i])
    BY <1>1, <1>3 DEF SetItem
  <2> QED
    BY <1>3, <2>1, OverlaidItemIsRead
<1>4. CASE id # Base /\ i \notin DOMAIN a
  <2>1. new = AddToScenario(set, id, i, item)
    BY <1>1, <1>4 DEF SetItem
  <2> QED
    BY <1>4, <2>1, AddedIsRead
<1> QED
  BY <1>2, <1>3, <1>4

LEMMA RemovedIsGone ==
  ASSUME NEW set, Sound(set), NEW id \in DOMAIN set.scenarios, NEW i,
         ~(id # Base /\ i \in DOMAIN set.scenarios[id].added /\ i \in DOMAIN ParentView(set, id).items)
  PROVE  i \notin DOMAIN Resolve(RemoveItem(set, id, i), id).items
<1> DEFINE s == set.scenarios[id]
           a == ParentView(set, id)
           sa == s.added
           si == s.items
           A == Without(sa, i)
           B == Without(si, i)
           dropped == [s EXCEPT !.added = A]
           marked == [s EXCEPT !.items = B, !.removed = @ \cup {i}]
           new == RemoveItem(set, id, i)
<1>0. Exists(set, id)
  BY DEF Exists
<1>1. SoundScenario(id, s)
  BY DEF Sound, SoundSet
<1>2. Reaches(set, new, {id})
  BY RemoveReaches
<1>3. CASE id = Base
  <2> DEFINE m == set.book.items
  <2>1. new = [set EXCEPT !.book.items = Without(@, i)]
    BY <1>0, <1>3 DEF RemoveItem
  <2>2. new.book.items = Without(m, i)
    BY <2>1 DEF Sound, SoundSet, SoundBook
  <2>3. Resolve(new, Base).items = new.book.items
    BY <1>2, BaseReadsTheBook DEF Reaches
  <2> HIDE DEF m
  <2>4. DOMAIN Without(m, i) = DOMAIN m \ {i}
    BY WithoutWorks
  <2> QED
    BY <1>3, <2>2, <2>3, <2>4
<1>4. CASE id # Base /\ i \in DOMAIN sa
  <2>1. new = [set EXCEPT !.scenarios[id].added = Without(@, i)]
    BY <1>0, <1>4 DEF RemoveItem
  <2>2. new = Replace(set, id, dropped)
    BY <2>1 DEF Replace
  <2>3. Shows(dropped, a, Resolve(new, id))
    BY <1>2, <2>2, RecordIsRead
  <2>4. i \notin DOMAIN a.items
    BY <1>4
  <2> HIDE DEF sa, si
  <2>5. DOMAIN A = DOMAIN sa \ {i}
    BY WithoutWorks
  <2> HIDE DEF A
  <2>6. dropped.added = A
    BY <1>1 DEF SoundScenario
  <2> HIDE DEF dropped, a, new
  <2>7. i \in DOMAIN Resolve(new, id).items <=> (i \in DOMAIN a.items /\ i \notin dropped.removed)
    BY <2>3, <2>5, <2>6, KeptItemRead
  <2> QED
    BY <2>4, <2>7 DEF new
<1>5. CASE id # Base /\ i \notin DOMAIN sa /\ i \in DOMAIN a.items
  <2>1. new = Replace(set, id, marked)
    BY <1>0, <1>5 DEF RemoveItem
  <2>2. Shows(marked, a, Resolve(new, id))
    BY <1>2, <2>1, RecordIsRead
  <2> HIDE DEF B
  <2>3. marked.added = sa /\ i \in marked.removed
    BY <1>1 DEF SoundScenario
  <2> HIDE DEF sa, marked, a, new
  <2>4. i \in DOMAIN Resolve(new, id).items <=> (i \in DOMAIN a.items /\ i \notin marked.removed)
    BY <1>5, <2>2, <2>3, KeptItemRead
  <2> QED
    BY <2>3, <2>4 DEF new
<1>6. CASE id # Base /\ i \notin DOMAIN sa /\ i \notin DOMAIN a.items
  <2>1. new = set
    BY <1>0, <1>6 DEF RemoveItem
  <2>2. Shows(s, a, Resolve(set, id))
    BY ReadsItsRecord
  <2> HIDE DEF s, a, new
  <2>3. i \in DOMAIN Resolve(set, id).items <=> (i \in DOMAIN a.items /\ i \notin s.removed)
    BY <1>6, <2>2, KeptItemRead
  <2> QED
    BY <1>6, <2>1, <2>3 DEF new
<1> QED
  BY <1>3, <1>4, <1>5, <1>6

LEMMA ParamIsRead ==
  ASSUME NEW set, Sound(set), NEW id \in DOMAIN set.scenarios, NEW key, NEW value, value # NoParent
  PROVE  Resolve(SetParam(set, id, key, value), id).params[key] = value
<1> DEFINE new == SetParam(set, id, key, value)
<1>0. Exists(set, id)
  BY DEF Exists
<1>1. Reaches(set, new, {id})
  BY SetParamReaches
<1>2. CASE id = Base
  <2> DEFINE m == set.book.params
  <2>1. new = [set EXCEPT !.book.params = With(@, key, value)]
    BY <1>0, <1>2 DEF SetParam
  <2>2. new.book.params = With(m, key, value)
    BY <2>1 DEF Sound, SoundSet, SoundBook
  <2>3. Resolve(new, Base).params = new.book.params
    BY <1>1, BaseReadsTheBook DEF Reaches
  <2> HIDE DEF m
  <2>4. With(m, key, value)[key] = value
    BY WithWorks
  <2> QED
    BY <1>2, <2>2, <2>3, <2>4
<1>3. CASE id # Base
  <2> DEFINE s == set.scenarios[id]
             a == ParentView(set, id)
             ap == a.params
             sp == s.params
             record == IF Get(ap, key, NoParent) = value THEN Nothing ELSE [k \in {key} |-> value]
             left == Without(sp, key)
             p == Over(record, left)
             r == [s EXCEPT !.params = p]
  <2>1. SoundScenario(id, s) /\ "scenarios" \in DOMAIN set
    BY DEF Sound, SoundSet
  <2>2. new = Replace(set, id, r)
    BY <1>0, <1>3, <2>1 DEF SetParam, Replace, SoundScenario
  <2>3. Shows(r, a, Resolve(new, id))
    BY <1>1, <2>2, RecordIsRead
  <2>4. r.params = p
    BY <2>1 DEF SoundScenario
  <2> HIDE DEF r, s, a, p, new
  <2>5. Resolve(new, id).params = Over(p, ap)
    BY <2>3, <2>4 DEF Shows
  <2> HIDE DEF ap, sp
  <2>6. DOMAIN left = DOMAIN sp \ {key}
    BY WithoutWorks
  <2> HIDE DEF left
  <2>7. CASE Get(ap, key, NoParent) = value
    <3>1. key \in DOMAIN ap /\ ap[key] = value
      BY <2>7 DEF Get
    <3>2. record = Nothing
      BY <2>7
    <3> HIDE DEF record
    <3>3. DOMAIN Over(record, left) = DOMAIN record \cup DOMAIN left
      BY OverWorks
    <3>4. key \notin DOMAIN p
      BY <2>6, <3>2, <3>3, NothingIsEmpty DEF p
    <3>5. \A k \in DOMAIN ap \ DOMAIN p : Over(p, ap)[k] = ap[k]
      BY OverWorks
    <3> QED
      BY <2>5, <3>1, <3>4, <3>5 DEF new
  <2>8. CASE Get(ap, key, NoParent) # value
    <3>1. record = [k \in {key} |-> value]
      BY <2>8
    <3>2. DOMAIN record = {key} /\ record[key] = value
      BY <3>1
    <3> HIDE DEF record
    <3>3. DOMAIN Over(record, left) = DOMAIN record \cup DOMAIN left
      BY OverWorks
    <3>4. \A k \in DOMAIN record : Over(record, left)[k] = record[k]
      BY OverWorks
    <3>5. key \in DOMAIN p /\ p[key] = value
      BY <3>2, <3>3, <3>4 DEF p
    <3>6. \A k \in DOMAIN p : Over(p, ap)[k] = p[k]
      BY OverWorks
    <3> QED
      BY <2>5, <3>5, <3>6 DEF new
  <2> QED
    BY <2>7, <2>8
<1> QED
  BY <1>2, <1>3

LEMMA UnsetIsInherited ==
  ASSUME NEW set, Sound(set), NEW id \in DOMAIN set.scenarios, NEW i
  PROVE  Get(Resolve(Unset(set, id, i), id).items, i, Absent)
            = Get(ParentView(set, id).items, i, Absent)
<1> DEFINE s == set.scenarios[id]
           a == ParentView(set, id)
           sa == s.added
           si == s.items
           A == Without(sa, i)
           B == Without(si, i)
           r == [s EXCEPT !.items = B, !.added = A, !.removed = @ \ {i}]
           new == Unset(set, id, i)
           v == Resolve(new, id)
<1>0. Exists(set, id)
  BY DEF Exists
<1>1. SoundScenario(id, s)
  BY DEF Sound, SoundSet
<1>2. Reaches(set, new, {id})
  BY UnsetReaches
<1>3. new = Replace(set, id, r)
  BY <1>0 DEF Unset
<1>4. Shows(r, a, v)
  BY <1>2, <1>3, RecordIsRead
<1>5. \A j \in DOMAIN a.items : EveryField(a.items[j])
  BY ResolvedIsView DEF IsView
<1> HIDE DEF sa, si
<1>6. DOMAIN A = DOMAIN sa \ {i} /\ DOMAIN B = DOMAIN si \ {i}
  BY WithoutWorks
<1> HIDE DEF A, B
<1>7. r.items = B /\ r.added = A /\ i \notin r.removed
  BY <1>1 DEF SoundScenario
<1> HIDE DEF r, a, v
<1>8. /\ i \in DOMAIN v.items <=> (i \in DOMAIN a.items /\ i \notin r.removed)
      /\ i \in DOMAIN v.items => v.items[i] = ApplyOverlay(a.items[i], Get(r.items, i, Nothing))
  BY <1>4, <1>6, <1>7, KeptItemRead
<1>9. Get(r.items, i, Nothing) = Nothing
  BY <1>6, <1>7 DEF Get
<1>10. i \in DOMAIN a.items => v.items[i] = a.items[i]
  BY <1>5, <1>7, <1>8, <1>9, OverlayOfNothing
<1>11. Get(v.items, i, Absent) = Get(a.items, i, Absent)
  BY <1>7, <1>8, <1>10 DEF Get
<1> QED
  BY <1>11 DEF v, a

-----------------------------------------------------------------------------
(* Where the fields of an item come from.                                  *)
HasOrigins(view, above) ==
    \A i \in DOMAIN view.items : \A f \in OverlayFields :
        /\ f \in DOMAIN view.origins[i]
        /\ view.origins[i][f].scenario \in above \cup {NoParent}

(* What one scenario over a view gives as the origin of a field.           *)
Originates(s, id, view, v) ==
    \A i \in DOMAIN v.items : \A f \in OverlayFields :
        /\ f \in DOMAIN v.origins[i]
        /\ (i \in DOMAIN s.added \/ f \in DOMAIN Get(s.items, i, Nothing))
               => v.origins[i][f].scenario = id
        /\ ~(i \in DOMAIN s.added \/ f \in DOMAIN Get(s.items, i, Nothing))
               => i \in DOMAIN view.items /\ v.origins[i][f] = view.origins[i][f]

LEMMA OverlayOriginates ==
  ASSUME NEW set, NEW view, NEW A, HasOrigins(view, A), NEW id
  PROVE  Originates(set.scenarios[id], id, view, Overlay(set, view, id))
<1> DEFINE s == set.scenarios[id]
           v == Overlay(set, view, id)
           Before(i) == IF i \in DOMAIN s.added
                        THEN [f \in OverlayFields |-> [scenario |-> id, kind |-> "added"]]
                        ELSE view.origins[i]
           Recorded(i) == IF i \in DOMAIN s.items THEN DOMAIN s.items[i] ELSE {}
           Own(i) == [f \in Recorded(i) |-> [scenario |-> id, kind |-> "overlay"]]
           present == Over(s.added, Restrict(view.items, DOMAIN view.items \ s.removed))
<1>1. v.origins = [i \in DOMAIN present |-> Over(Own(i), Before(i))]
  BY DEF Overlay
<1>2. DOMAIN v.items = DOMAIN present
  BY DEF Overlay
<1>3. Shows(s, view, v)
  BY OverlayShows
<1>4. DOMAIN v.items = DOMAIN s.added \cup (DOMAIN view.items \ s.removed)
  BY <1>3 DEF Shows
<1> HIDE DEF v, present
<1>5. \A i \in DOMAIN v.items : v.origins[i] = Over(Own(i), Before(i))
  BY <1>1, <1>2
<1>6. \A i : Recorded(i) = DOMAIN Get(s.items, i, Nothing)
  BY NothingIsEmpty DEF Get
<1>7. ASSUME NEW i \in DOMAIN v.items, NEW f \in OverlayFields
      PROVE  /\ f \in DOMAIN v.origins[i]
             /\ (i \in DOMAIN s.added \/ f \in Recorded(i))
                    => v.origins[i][f].scenario = id
             /\ ~(i \in DOMAIN s.added \/ f \in Recorded(i))
                    => i \in DOMAIN view.items /\ v.origins[i][f] = view.origins[i][f]
  <2> DEFINE o == Own(i)
             b == Before(i)
  <2>1. DOMAIN o = Recorded(i) /\ \A g \in Recorded(i) : o[g].scenario = id
    OBVIOUS
  <2>2. i \in DOMAIN s.added => f \in DOMAIN b /\ b[f].scenario = id
    OBVIOUS
  <2>3. i \notin DOMAIN s.added => /\ i \in DOMAIN view.items /\ b = view.origins[i]
                                   /\ f \in DOMAIN b
    BY <1>4 DEF HasOrigins
  <2>4. v.origins[i] = Over(o, b)
    BY <1>5
  <2> HIDE DEF o, b, Recorded, s
  <2>5. DOMAIN Over(o, b) = DOMAIN o \cup DOMAIN b
    BY OverWorks
  <2>6. \A g \in DOMAIN o : Over(o, b)[g] = o[g]
    BY OverWorks
  <2>7. \A g \in DOMAIN b \ DOMAIN o : Over(o, b)[g] = b[g]
    BY OverWorks
  <2> QED
    BY <2>1, <2>2, <2>3, <2>4, <2>5, <2>6, <2>7
<1> HIDE DEF Recorded, s
<1>8. Originates(s, id, view, v)
  BY <1>6, <1>7 DEF Originates
<1> QED
  BY <1>8 DEF s, v

LEMMA AuthoredOrigins ==
  ASSUME NEW set, NEW A
  PROVE  HasOrigins(Authored(set.book), A)
BY DEF HasOrigins, Authored, BookOrigin

LEMMA OriginsAreAbove ==
  ASSUME NEW set, Sound(set), NEW id \in DOMAIN set.scenarios
  PROVE  HasOrigins(Raw(set, id), Ancestry(set, id))
<1> DEFINE D == DOMAIN set.scenarios
           P == {u \in D : HasOrigins(Raw(set, u), Ancestry(set, u))}
<1>1. ASSUME NEW u \in D, ParentOf(set, u) = NoParent \/ ParentOf(set, u) \in P PROVE u \in P
  <2> DEFINE a == Above(set, u)
             A == Ancestry(set, u) \ {u}
             v == Overlay(set, a, u)
             s == set.scenarios[u]
  <2>1. HasOrigins(a, Ancestry(set, u))
    <3>1. CASE ParentOf(set, u) = NoParent
      BY <3>1, AuthoredOrigins DEF Above
    <3>2. CASE ParentOf(set, u) # NoParent
      <4>1. HasOrigins(Raw(set, ParentOf(set, u)), Ancestry(set, ParentOf(set, u)))
        BY <1>1, <3>2
      <4>2. Ancestry(set, ParentOf(set, u)) \subseteq Ancestry(set, u)
        BY <3>2, AncestrySteps DEF Sound
      <4>3. a = Raw(set, ParentOf(set, u))
        BY <3>2 DEF Above
      <4> HIDE DEF a
      <4> QED
        BY <4>1, <4>2, <4>3 DEF HasOrigins
    <3> QED
      BY <3>1, <3>2
  <2>2. Originates(s, u, a, v)
    BY <2>1, OverlayOriginates
  <2>3. u \in Ancestry(set, u)
    BY AncestrySteps DEF Sound
  <2>4. Raw(set, u) = v
    BY RawSteps DEF Sound
  <2> HIDE DEF a, v, s
  <2>5. HasOrigins(v, Ancestry(set, u))
    BY <2>1, <2>2, <2>3 DEF HasOrigins, Originates
  <2> QED
    BY <2>4, <2>5
<1>2. \A u \in D : u \in P
  <2> HIDE DEF P
  <2> QED
    BY <1>1, Downwards DEF Sound
<1> QED
  BY <1>2

(* The scenarios between, one step down the chain.                         *)
LEMMA NoneBetween ==
  ASSUME NEW set, IsForest(set), NEW id \in DOMAIN set.scenarios
  PROVE  Below(set, id, id) = {}
<1> DEFINE c == Chain(set, id)
<1>1. Len(c) \in Nat \ {0} /\ DOMAIN c = 1 .. Len(c) /\ c[Len(c)] = id
  BY ChainIsTheWay, WayEnds DEF IsWay
<1>2. Below(set, id, id) = {c[n] : n \in {k \in DOMAIN c : \A j \in k .. Len(c) : c[j] # id}}
  BY DEF Below
<1> HIDE DEF c
<1>3. \A k \in DOMAIN c : Len(c) \in k .. Len(c)
  BY <1>1
<1> QED
  BY <1>1, <1>2, <1>3

LEMMA BetweenSteps ==
  ASSUME NEW set, IsForest(set), NEW id \in DOMAIN set.scenarios, NEW s, s # id
  PROVE  Below(set, s, id) = {id} \cup (IF ParentOf(set, id) = NoParent THEN {}
                                        ELSE Below(set, s, ParentOf(set, id)))
<1> DEFINE up == ParentOf(set, id)
           d == Chain(set, id)
<1>1. Below(set, s, id) = {d[n] : n \in {k \in DOMAIN d : \A j \in k .. Len(d) : d[j] # s}}
  BY DEF Below
<1>2. CASE up = NoParent
  <2>1. d = <<id>>
    BY <1>2, ChainSteps
  <2>2. DOMAIN d = 1 .. 1 /\ d[1] = id /\ Len(d) = 1
    <3>1. <<id>> \in Seq({id}) /\ Len(<<id>>) = 1 /\ <<id>>[1] = id
      BY OneLong
    <3> QED
      BY <2>1, <3>1, LenProperties
  <2> HIDE DEF d
  <2>3. Below(set, s, id) = {id}
    BY <1>1, <2>2
  <2> QED
    BY <1>2, <2>3
<1>3. CASE up # NoParent
  <2> DEFINE c == Chain(set, up)
             m == Len(c)
             Bc == {k \in DOMAIN c : \A j \in k .. m : c[j] # s}
             Bd == {k \in DOMAIN d : \A j \in k .. Len(d) : d[j] # s}
  <2>1. up \in DOMAIN set.scenarios /\ d = Append(c, id)
    BY <1>3, ChainSteps
  <2>2. c \in Seq(DOMAIN set.scenarios)
    BY <2>1, ChainIsTheWay DEF IsWay
  <2>3. Below(set, s, up) = {c[n] : n \in Bc}
    BY DEF Below
  <2> HIDE DEF c
  <2>4. /\ m \in Nat /\ DOMAIN c = 1 .. m /\ Len(d) = m + 1 /\ d[m + 1] = id
        /\ \A k \in 1 .. m : d[k] = c[k]
        /\ DOMAIN d = 1 .. m + 1
    BY <2>1, <2>2, LenProperties, AppendProperties
  <2> HIDE DEF d, m
  <2>5. m + 1 \in Bd
    <3>1. m + 1 \in 1 .. m + 1 /\ \A j \in (m + 1) .. (m + 1) : j = m + 1
      BY <2>4
    <3> QED
      BY <2>4, <3>1
  <2>6. \A k \in 1 .. m : k \in Bd <=> k \in Bc
    <3> TAKE k \in 1 .. m
    <3>1. k \in DOMAIN c /\ k \in DOMAIN d
      BY <2>4
    <3>2. \A j : j \in k .. (m + 1) <=> (j \in k .. m \/ j = m + 1)
      BY <2>4
    <3>3. \A j \in k .. m : j \in 1 .. m
      BY <2>4
    <3>4. (\A j \in k .. Len(d) : d[j] # s) <=> (\A j \in k .. m : c[j] # s)
      BY <2>4, <3>2, <3>3
    <3> QED
      BY <3>1, <3>4
  <2>7. \A k \in Bd : k = m + 1 \/ k \in 1 .. m
    BY <2>4
  <2>8. \A k \in Bc : k \in 1 .. m
    BY <2>4
  <2>9. Below(set, s, id) = {d[n] : n \in Bd}
    BY <1>1
  <2> HIDE DEF Bc, Bd
  <2>10. {d[n] : n \in Bd} = {id} \cup {c[n] : n \in Bc}
    BY <2>4, <2>5, <2>6, <2>7, <2>8
  <2> QED
    BY <1>3, <2>3, <2>9, <2>10
<1> QED
  BY <1>2, <1>3

(* A field arrives from s, or is kept where a scenario of between gave it. *)
Arrives(v, w, given, i, between) ==
    \A f \in OverlayFields :
        w.items[i][f] = IF v.origins[i][f].scenario \in between THEN v.items[i][f] ELSE given[f]

LEMMA ArrivesThrough ==
  ASSUME NEW r, NEW id, SoundScenario(id, r), NEW v, NEW w, NEW x, NEW y,
         Shows(r, v, x), Shows(r, w, y), Originates(r, id, v, x), NEW i, NEW given, NEW between,
         i \in DOMAIN x.items \cap DOMAIN y.items,
         \A j \in DOMAIN v.items : EveryField(v.items[j]),
         \A j \in DOMAIN w.items : EveryField(w.items[j]),
         \A f \in OverlayFields : i \in DOMAIN v.items => v.origins[i][f].scenario # id,
         i \in DOMAIN v.items \cap DOMAIN w.items => Arrives(v, w, given, i, between)
  PROVE  Arrives(x, y, given, i, {id} \cup between)
<1> DEFINE o == Get(r.items, i, Nothing)
<1>1. SUFFICES ASSUME NEW f \in OverlayFields
      PROVE  y.items[i][f] = IF x.origins[i][f].scenario \in {id} \cup between
                             THEN x.items[i][f] ELSE given[f]
  BY DEF Arrives
<1>2. /\ (i \in DOMAIN r.added \/ f \in DOMAIN o) => x.origins[i][f].scenario = id
      /\ ~(i \in DOMAIN r.added \/ f \in DOMAIN o)
            => i \in DOMAIN v.items /\ x.origins[i][f] = v.origins[i][f]
  BY DEF Originates
<1>3. DOMAIN o \subseteq OverlayFields
  BY NothingIsEmpty DEF Get, SoundScenario
<1>4. CASE i \in DOMAIN r.added
  <2>1. x.items[i] = ApplyOverlay(r.added[i], o) /\ y.items[i] = ApplyOverlay(r.added[i], o)
    BY <1>4, AddedItemRead
  <2> QED
    BY <1>2, <1>4, <2>1
<1>5. CASE i \notin DOMAIN r.added
  <2>1. /\ i \in DOMAIN v.items /\ i \in DOMAIN w.items
        /\ x.items[i] = ApplyOverlay(v.items[i], o) /\ y.items[i] = ApplyOverlay(w.items[i], o)
    BY <1>5, KeptItemRead
  <2>2. EveryField(v.items[i]) /\ EveryField(w.items[i])
    BY <2>1
  <2> HIDE DEF o
  <2>3. CASE f \in DOMAIN o
    <3>1. x.items[i][f] = o[f] /\ y.items[i][f] = o[f]
      BY <1>3, <2>1, <2>2, <2>3, AppliedOverlay
    <3> QED
      BY <1>2, <2>3, <3>1
  <2>4. CASE f \notin DOMAIN o
    <3>1. x.items[i][f] = v.items[i][f] /\ y.items[i][f] = w.items[i][f]
      BY <1>3, <2>1, <2>2, <2>4, AppliedOverlay
    <3>2. x.origins[i][f] = v.origins[i][f] /\ v.origins[i][f].scenario # id
      BY <1>2, <1>5, <2>1, <2>4
    <3>3. w.items[i][f] = IF v.origins[i][f].scenario \in between THEN v.items[i][f] ELSE given[f]
      BY <2>1 DEF Arrives
    <3> QED
      BY <3>1, <3>2, <3>3
  <2> QED
    BY <2>3, <2>4
<1> QED
  BY <1>4, <1>5

LEMMA ArrivesEverywhere ==
  ASSUME NEW old, NEW new, Sound(old), Sound(new), NEW s \in DOMAIN old.scenarios,
         Touches(old, new, {s}), NEW i, NEW t \in DOMAIN old.scenarios, IsAbove(old, s, t),
         i \in DOMAIN Raw(old, t).items \cap DOMAIN Raw(new, t).items
  PROVE  Arrives(Raw(old, t), Raw(new, t), Raw(new, s).items[i], i, Below(old, s, t))
<1> DEFINE D == DOMAIN old.scenarios
           given == Raw(new, s).items[i]
           P == {u \in D :
                   /\ IsAbove(old, s, u)
                   /\ i \in DOMAIN Raw(old, u).items \cap DOMAIN Raw(new, u).items
                   => Arrives(Raw(old, u), Raw(new, u), given, i, Below(old, s, u))}
<1>1. ASSUME NEW u \in D, ParentOf(old, u) = NoParent \/ ParentOf(old, u) \in P PROVE u \in P
  <2>1. SUFFICES ASSUME IsAbove(old, s, u),
                        i \in DOMAIN Raw(old, u).items \cap DOMAIN Raw(new, u).items
        PROVE  Arrives(Raw(old, u), Raw(new, u), given, i, Below(old, s, u))
    OBVIOUS
  <2>2. CASE u = s
    <3>1. Below(old, s, u) = {}
      BY <2>2, NoneBetween DEF Sound
    <3> QED
      BY <2>2, <3>1 DEF Arrives
  <2>3. CASE u # s
    <3> DEFINE v == Above(old, u)
               w == Above(new, u)
               x == Raw(old, u)
               y == Raw(new, u)
               r == old.scenarios[u]
               up == ParentOf(old, u)
               between == IF up = NoParent THEN {} ELSE Below(old, s, up)
    <3>1. /\ u \in DOMAIN new.scenarios /\ new.scenarios[u] = r
          /\ ParentOf(new, u) = ParentOf(old, u)
      BY <2>3 DEF Touches
    <3>2. x = Overlay(old, v, u) /\ y = Overlay(new, w, u)
      BY <3>1, RawSteps DEF Sound
    <3>3. Shows(old.scenarios[u], v, Overlay(old, v, u)) /\ Shows(new.scenarios[u], w, Overlay(new, w, u))
      BY OverlayShows
    <3>4. IsView(old, v) /\ IsView(new, w)
      BY <3>1, ViewsAreBooks DEF Sound
    <3>5. SoundScenario(u, r)
      BY DEF Sound, SoundSet
    <3>6. /\ HasOrigins(v, IF up = NoParent THEN {} ELSE Ancestry(old, up))
          /\ up # NoParent => u \notin Ancestry(old, up)
          /\ u # NoParent
      <4>1. CASE up = NoParent
        BY <4>1, AuthoredOrigins DEF Above, Sound, IsForest
      <4>2. CASE up # NoParent
        <5>1. up \in D
          BY <4>2, ChainSteps DEF Sound
        <5>2. HasOrigins(Raw(old, up), Ancestry(old, up))
          BY <5>1, OriginsAreAbove
        <5>3. u \notin Ancestry(old, up)
          BY <4>2, SelfNotAbove DEF Sound
        <5>4. v = Raw(old, up)
          BY <4>2 DEF Above
        <5>5. u # NoParent
          BY DEF Sound, IsForest
        <5> HIDE DEF v, up
        <5> QED
          BY <4>2, <5>2, <5>3, <5>4, <5>5
      <4> QED
        BY <4>1, <4>2
    <3>7. i \in DOMAIN v.items \cap DOMAIN w.items => Arrives(v, w, given, i, between)
      <4>1. SUFFICES ASSUME i \in DOMAIN v.items \cap DOMAIN w.items
            PROVE  Arrives(v, w, given, i, between)
        OBVIOUS
      <4>2. CASE up = NoParent
        <5>1. Ancestry(old, u) = {u}
          BY <4>2, AncestrySteps DEF Sound
        <5>2. s = Base
          BY <2>1, <2>3, <5>1 DEF IsAbove
        <5>3. v = Authored(old.book) /\ w = Authored(new.book)
          BY <3>1, <4>2 DEF Above
        <5>4. Resolve(new, Base).items = new.book.items
          BY BaseReadsTheBook
        <5>5. given = new.book.items[i]
          BY <5>2, <5>4, Resolved, OpenedShows
        <5>6. w.items = new.book.items
          BY <5>3 DEF Authored
        <5> HIDE DEF given
        <5> QED
          BY <4>2, <5>5, <5>6 DEF Arrives
      <4>3. CASE up # NoParent
        <5>1. v = Raw(old, up) /\ w = Raw(new, up) /\ up \in P
          BY <1>1, <3>1, <4>3 DEF Above
        <5>2. IsAbove(old, s, up)
          BY <2>1, <2>3, <4>3, AncestrySteps DEF IsAbove, Sound
        <5>3. Arrives(Raw(old, up), Raw(new, up), given, i, Below(old, s, up))
          BY <4>1, <5>1, <5>2
        <5> QED
          BY <4>3, <5>1, <5>3
      <4> QED
        BY <4>2, <4>3
    <3>8. Below(old, s, u) = {u} \cup between
      BY <2>3, BetweenSteps DEF Sound
    <3>9. Originates(r, u, v, Overlay(old, v, u))
      BY <3>6, OverlayOriginates
    <3> HIDE DEF v, w, x, y, r, up, between, given
    <3>10. \A f \in OverlayFields : i \in DOMAIN v.items => v.origins[i][f].scenario # u
      BY <3>6 DEF HasOrigins
    <3>11. /\ \A j \in DOMAIN v.items : EveryField(v.items[j])
           /\ \A j \in DOMAIN w.items : EveryField(w.items[j])
      BY <3>4 DEF IsView
    <3>12. Shows(r, v, x) /\ Shows(r, w, y) /\ Originates(r, u, v, x)
      BY <3>1, <3>2, <3>3, <3>9 DEF r
    <3>13. i \in DOMAIN x.items \cap DOMAIN y.items
      BY <2>1 DEF x, y
    <3>14. Arrives(x, y, given, i, {u} \cup between)
      BY <3>5, <3>7, <3>10, <3>11, <3>12, <3>13, ArrivesThrough
    <3> QED
      BY <3>8, <3>14 DEF x, y
  <2> QED
    BY <2>2, <2>3
<1>2. \A u \in D : u \in P
  <2> HIDE DEF P
  <2> QED
    BY <1>1, Downwards DEF Sound
<1> QED
  BY <1>2

-----------------------------------------------------------------------------
(* A step remembers the verb it is of.                                     *)
LEMMA Remembers ==
  ASSUME NEW step, NEW result, Perform(step, result)
  PROVE  kit' = result.kit /\ last' \in {step, Refusal} /\ (result.ok => last' = step)
BY DEF Perform

LEMMA VerbsDiffer ==
  ASSUME [Next]_vars, vars' # vars
  PROVE  /\ last'.verb = "set_item" =>
               \E s \in Written, i \in ItemIds, item \in ItemValues :
                  WriteItem(s, i, item) /\ last' # Refusal
         /\ last'.verb = "remove_item" =>
               \E s \in Written, i \in ItemIds : DropItem(s, i) /\ last' # Refusal
         /\ last'.verb = "set_param" =>
               \E s \in Written, key \in ParamKeys, value \in ParamValues :
                  WriteParam(s, key, value) /\ last' # Refusal
         /\ last'.verb = "unset" =>
               \E s \in Written, i \in ItemIds : UnsetItem(s, i) /\ last' # Refusal
         /\ last'.verb = "flatten" =>
               \E s \in Written, new \in ScenarioIds : FlattenScenario(s, new) /\ last' # Refusal
<1>1. Next
  OBVIOUS
<1>2. last' = Refusal => last'.verb = "refused"
  BY DEF Refusal
<1>3. CASE \E s \in Written, i \in ItemIds, item \in ItemValues : WriteItem(s, i, item)
  <2>1. last' # Refusal => last'.verb = "set_item"
    BY <1>3 DEF WriteItem, Perform
  <2> QED
    BY <1>2, <1>3, <2>1
<1>4. CASE \E s \in Written, i \in ItemIds : DropItem(s, i)
  <2>1. last' # Refusal => last'.verb = "remove_item"
    BY <1>4 DEF DropItem, Perform, OnItem
  <2> QED
    BY <1>2, <1>4, <2>1
<1>5. CASE \E s \in Written, i \in ItemIds : UnsetItem(s, i)
  <2>1. last' # Refusal => last'.verb = "unset"
    BY <1>5 DEF UnsetItem, Perform, OnItem
  <2> QED
    BY <1>2, <1>5, <2>1
<1>6. CASE \E s \in Written, key \in ParamKeys, value \in ParamValues : WriteParam(s, key, value)
  <2>1. last' # Refusal => last'.verb = "set_param"
    BY <1>6 DEF WriteParam, Perform
  <2> QED
    BY <1>2, <1>6, <2>1
<1>7. CASE \E s \in Written, selector \in Selectors, tags \in TagChanges :
              RetagItems(s, selector, tags)
  <2>1. last' # Refusal => last'.verb = "retag"
    BY <1>7 DEF RetagItems, Perform, Step
  <2> QED
    BY <1>2, <2>1
<1>8. CASE \E s \in Written, new \in ScenarioIds : FlattenScenario(s, new)
  <2>1. last' # Refusal => last'.verb = "flatten"
    BY <1>8 DEF FlattenScenario, Perform
  <2> QED
    BY <1>2, <1>8, <2>1
<1>9. CASE \E card \in Cards : AcceptCard(card)
  <2>1. last' # Refusal => last'.verb = "card"
    BY <1>9 DEF AcceptCard, Perform
  <2> QED
    BY <1>2, <2>1
<1>10. CASE \E s \in Read : Hold(s) \/ CompareWith(s)
  <2>1. last'.verb \in {"run", "compare"}
    BY <1>10 DEF Hold, CompareWith, Step
  <2> QED
    BY <2>1
<1> QED
  BY <1>1, <1>3, <1>4, <1>5, <1>6, <1>7, <1>8, <1>9, <1>10 DEF Next

-----------------------------------------------------------------------------
(* What a verb that was not refused made of the scenarios.                 *)
LEMMA PerformedVerb ==
  ASSUME KitInv, NEW step, NEW s, NEW set, Perform(step, Verb(s, set)), last' # Refusal
  PROVE  last' = step /\ s \in DOMAIN Stored /\ kit'.set = set
<1>1. kit' = Verb(s, set).kit /\ last' = IF Verb(s, set).ok THEN step ELSE Refusal
  BY DEF Perform
<1>2. Exists(kit.set, s)
  BY <1>1, RefusedOrWrote DEF Verb
<1>3. Verb(s, set) = Wrote(kit, set)
  BY <1>2 DEF Verb
<1>4. kit' = [kit EXCEPT !.set = set] /\ last' = step
  BY <1>1, <1>3, RefusedOrWrote
<1>5. "set" \in DOMAIN kit
  BY DEF KitInv, SoundKit
<1> QED
  BY <1>2, <1>4, <1>5 DEF Exists, Stored

LEMMA PerformedItem ==
  ASSUME KitInv, NEW s, NEW i, NEW item, WriteItem(s, i, item), last' # Refusal
  PROVE  /\ last' = [verb |-> "set_item", scenario |-> s, item |-> i, value |-> item]
         /\ s \in DOMAIN Stored /\ kit'.set = SetItem(kit.set, s, i, item)
<1> DEFINE result == KitSetItem(kit, s, i, item)
           step == [verb |-> "set_item", scenario |-> s, item |-> i, value |-> item]
           set == SetItem(kit.set, s, i, item)
<1>1. kit' = result.kit /\ last' = IF result.ok THEN step ELSE Refusal
  BY DEF WriteItem, Perform
<1>2. Exists(kit.set, s) /\ ~SignConflict(item)
  BY <1>1, RefusedOrWrote DEF KitSetItem
<1>3. result = Wrote(kit, set)
  BY <1>2 DEF KitSetItem
<1> HIDE DEF result, step, set
<1>4. kit' = [kit EXCEPT !.set = set] /\ last' = step
  BY <1>1, <1>3, RefusedOrWrote
<1>5. "set" \in DOMAIN kit
  BY DEF KitInv, SoundKit
<1> QED
  BY <1>2, <1>4, <1>5 DEF Exists, Stored, step, set

LEMMA WritesAreRead ==
  ASSUME KitInv, [Next]_vars, vars' # vars
  PROVE  WriteIsRead
<1>0. Sound(kit.set)
  BY DEF KitInv, SoundKit
<1>1. last'.verb = "set_item" /\ ~CaughtUp(last'.scenario, last'.item)
        => After(last'.scenario).items[last'.item] = last'.value
  <2>1. SUFFICES ASSUME last'.verb = "set_item", ~CaughtUp(last'.scenario, last'.item)
        PROVE  After(last'.scenario).items[last'.item] = last'.value
    OBVIOUS
  <2>2. PICK s \in Written, i \in ItemIds, item \in ItemValues :
            WriteItem(s, i, item) /\ last' # Refusal
    BY <2>1, VerbsDiffer
  <2>3. /\ last' = [verb |-> "set_item", scenario |-> s, item |-> i, value |-> item]
        /\ s \in DOMAIN Stored /\ kit'.set = SetItem(kit.set, s, i, item)
    BY <2>2, PerformedItem
  <2>4. last'.scenario = s /\ last'.item = i /\ last'.value = item
    BY <2>3
  <2>5. EveryField(item)
    BY InputsAssumption
  <2>6. Resolve(SetItem(kit.set, s, i, item), s).items[i] = item
    BY <1>0, <2>1, <2>3, <2>4, <2>5, SetItemIsRead DEF CaughtUp, Stored
  <2> QED
    BY <2>3, <2>4, <2>6 DEF After
<1>2. last'.verb = "remove_item" /\ ~CaughtUp(last'.scenario, last'.item)
        => last'.item \notin DOMAIN After(last'.scenario).items
  <2>1. SUFFICES ASSUME last'.verb = "remove_item", ~CaughtUp(last'.scenario, last'.item)
        PROVE  last'.item \notin DOMAIN After(last'.scenario).items
    OBVIOUS
  <2>2. PICK s \in Written, i \in ItemIds : DropItem(s, i) /\ last' # Refusal
    BY <2>1, VerbsDiffer
  <2>3. /\ last' = OnItem("remove_item", s, i)
        /\ s \in DOMAIN Stored /\ kit'.set = RemoveItem(kit.set, s, i)
    BY <2>2, PerformedVerb DEF DropItem
  <2>4. last'.scenario = s /\ last'.item = i
    BY <2>3 DEF OnItem
  <2>5. i \notin DOMAIN Resolve(RemoveItem(kit.set, s, i), s).items
    BY <1>0, <2>1, <2>3, <2>4, RemovedIsGone DEF CaughtUp, Stored
  <2> QED
    BY <2>3, <2>4, <2>5 DEF After
<1>3. last'.verb = "set_param" => After(last'.scenario).params[last'.key] = last'.value
  <2>1. SUFFICES ASSUME last'.verb = "set_param"
        PROVE  After(last'.scenario).params[last'.key] = last'.value
    OBVIOUS
  <2>2. PICK s \in Written, key \in ParamKeys, value \in ParamValues :
            WriteParam(s, key, value) /\ last' # Refusal
    BY <2>1, VerbsDiffer
  <2>3. /\ last' = [verb |-> "set_param", scenario |-> s, key |-> key, value |-> value]
        /\ s \in DOMAIN Stored /\ kit'.set = SetParam(kit.set, s, key, value)
    BY <2>2, PerformedVerb DEF WriteParam
  <2>4. last'.scenario = s /\ last'.key = key /\ last'.value = value
    BY <2>3
  <2>5. value # NoParent
    BY InputsAssumption
  <2>6. Resolve(SetParam(kit.set, s, key, value), s).params[key] = value
    BY <1>0, <2>3, <2>5, ParamIsRead DEF Stored
  <2> QED
    BY <2>3, <2>4, <2>6 DEF After
<1>4. last'.verb = "unset" =>
        Get(After(last'.scenario).items, last'.item, Absent)
            = Get(ParentView(kit.set, last'.scenario).items, last'.item, Absent)
  <2>1. SUFFICES ASSUME last'.verb = "unset"
        PROVE  Get(After(last'.scenario).items, last'.item, Absent)
                  = Get(ParentView(kit.set, last'.scenario).items, last'.item, Absent)
    OBVIOUS
  <2>2. PICK s \in Written, i \in ItemIds : UnsetItem(s, i) /\ last' # Refusal
    BY <2>1, VerbsDiffer
  <2>3. /\ last' = OnItem("unset", s, i)
        /\ s \in DOMAIN Stored /\ kit'.set = Unset(kit.set, s, i)
    BY <2>2, PerformedVerb DEF UnsetItem
  <2>4. last'.scenario = s /\ last'.item = i
    BY <2>3 DEF OnItem
  <2>5. Get(Resolve(Unset(kit.set, s, i), s).items, i, Absent)
            = Get(ParentView(kit.set, s).items, i, Absent)
    BY <1>0, <2>3, UnsetIsInherited DEF Stored
  <2> QED
    BY <2>3, <2>4, <2>5 DEF After
<1> QED
  BY <1>1, <1>2, <1>3, <1>4 DEF WriteIsRead

LEMMA OriginsCover ==
  ASSUME NEW set, Sound(set), NEW id \in DOMAIN set.scenarios
  PROVE  DOMAIN Raw(set, id).origins = DOMAIN Raw(set, id).items
<1>1. \A view : DOMAIN Overlay(set, view, id).origins = DOMAIN Overlay(set, view, id).items
  BY DEF Overlay
<1>2. Raw(set, id) = Overlay(set, Above(set, id), id)
  BY RawSteps DEF Sound
<1> QED
  BY <1>1, <1>2

LEMMA CorrectionsPropagate ==
  ASSUME KitInv, [Next]_vars, vars' # vars
  PROVE  CorrectionPropagates
<1>0. Sound(kit.set) /\ Sound(kit'.set)
  BY StepKeeps DEF KitInv, SoundKit
<1>1. SUFFICES ASSUME last'.verb = "set_item"
      PROVE  \A t \in DOMAIN Stored :
                /\ IsAbove(kit.set, last'.scenario, t)
                /\ last'.item \in DOMAIN View(t).items \cap DOMAIN After(t).items
                => Follows(last'.scenario, t, last'.item)
  BY DEF CorrectionPropagates
<1>2. PICK s \in Written, i \in ItemIds, item \in ItemValues :
          WriteItem(s, i, item) /\ last' # Refusal
  BY <1>1, VerbsDiffer
<1>3. /\ last' = [verb |-> "set_item", scenario |-> s, item |-> i, value |-> item]
      /\ s \in DOMAIN Stored /\ kit'.set = SetItem(kit.set, s, i, item)
  BY <1>2, PerformedItem
<1>4. last'.scenario = s /\ last'.item = i
  BY <1>3
<1>5. EveryField(item)
  BY InputsAssumption
<1>6. Touches(kit.set, kit'.set, {s})
  BY <1>0, <1>3, <1>5, SetItemReaches DEF Reaches
<1>7. SUFFICES ASSUME NEW t \in DOMAIN kit.set.scenarios, IsAbove(kit.set, s, t),
                      i \in DOMAIN View(t).items \cap DOMAIN After(t).items
      PROVE  Follows(s, t, i)
  BY <1>4 DEF Stored
<1> DEFINE old == kit.set
           new == kit'.set
<1>8. /\ View(t).items = Raw(old, t).items
      /\ View(t).origins = Raw(old, t).origins
      /\ After(t).items = Raw(new, t).items
      /\ After(s).items = Raw(new, s).items
  BY Resolved, OpenedShows DEF View, After
<1>9. i \in DOMAIN Raw(old, t).items \cap DOMAIN Raw(new, t).items
  BY <1>7, <1>8
<1>10. Arrives(Raw(old, t), Raw(new, t), Raw(new, s).items[i], i, Below(old, s, t))
  BY <1>0, <1>3, <1>6, <1>7, <1>9, ArrivesEverywhere DEF Stored
<1>11. i \in DOMAIN View(t).origins
  BY <1>0, <1>7, <1>8, <1>9, OriginsCover
<1>12. Provenance(old, t, i).fields = View(t).origins[i]
  BY <1>11 DEF Provenance, Get, View
<1> HIDE DEF old, new
<1>13. \A f \in OverlayFields :
          After(t).items[i][f] =
             IF View(t).origins[i][f].scenario \in Below(old, s, t)
             THEN View(t).items[i][f] ELSE After(s).items[i][f]
  BY <1>8, <1>10 DEF Arrives
<1> QED
  BY <1>12, <1>13 DEF Follows, old

(* Every write of every history: it is read back where it was addressed    *)
(* to, reaches every field of every scenario that inherits it from there,  *)
(* and moves nothing else.                                                 *)
THEOREM WritesAlwaysReach == Spec => WritesReachTheirScenarios
<1>1. KitInv /\ [Next]_vars
        => [WriteIsRead /\ CorrectionPropagates /\ WriteStaysBelow]_vars
  <2> SUFFICES ASSUME KitInv, [Next]_vars, vars' # vars
               PROVE  WriteIsRead /\ CorrectionPropagates /\ WriteStaysBelow
    OBVIOUS
  <2>1. WriteStaysBelow
    BY StepKeeps, WritesStayBelow
  <2> QED
    BY <2>1, WritesAreRead, CorrectionsPropagate
<1> QED
  BY <1>1, KitStays, PTL DEF Spec, WritesReachTheirScenarios

-----------------------------------------------------------------------------
(* A collapsed record over the authored book reads as what it was made of. *)
LEMMA CollapsedItems ==
  ASSUME NEW set, SoundBook(set.book), NEW view, IsView(set, view), NEW s, Collapses(set, view, s),
         NEW a, a.items = set.book.items, NEW v, Shows(s, a, v)
  PROVE  v.items = view.items
<1> DEFINE b == set.book.items
<1>1. /\ s.removed = DOMAIN b \ DOMAIN view.items
      /\ DOMAIN s.added = DOMAIN view.items \ DOMAIN b
      /\ \A i \in DOMAIN s.added : s.added[i] = view.items[i]
      /\ DOMAIN s.items = {i \in DOMAIN view.items \cap DOMAIN b :
                              DiffFields(view.items[i], b[i]) # {}}
      /\ \A i \in DOMAIN s.items : s.items[i] = DiffOverlay(view.items[i], b[i])
  BY DEF Collapses
<1>2. /\ DOMAIN v.items = DOMAIN s.added \cup (DOMAIN b \ s.removed)
      /\ IsMap(v.items)
  BY DEF Shows
<1>3. DOMAIN v.items = DOMAIN view.items
  BY <1>1, <1>2
<1>4. /\ IsMap(view.items) /\ \A i \in DOMAIN view.items : EveryField(view.items[i])
      /\ \A i \in DOMAIN b : EveryField(b[i])
  BY DEF IsView, SoundBook
<1>5. ASSUME NEW i \in DOMAIN view.items PROVE v.items[i] = view.items[i]
  <2>1. CASE i \in DOMAIN s.added
    <3>1. Get(s.items, i, Nothing) = Nothing
      BY <1>1, <2>1 DEF Get
    <3>2. v.items[i] = ApplyOverlay(view.items[i], Nothing)
      BY <1>1, <2>1, <3>1, AddedItemRead
    <3> QED
      BY <1>4, <3>2, OverlayOfNothing
  <2>2. CASE i \notin DOMAIN s.added
    <3>1. v.items[i] = ApplyOverlay(b[i], Get(s.items, i, Nothing)) /\ i \in DOMAIN b
      BY <1>1, <1>3, <2>2, KeptItemRead
    <3>2. EveryField(b[i]) /\ EveryField(view.items[i])
      BY <1>4, <3>1
    <3>3. CASE i \in DOMAIN s.items
      <4>1. Get(s.items, i, Nothing) = DiffOverlay(view.items[i], b[i])
        BY <1>1, <3>3 DEF Get
      <4> QED
        BY <3>1, <3>2, <4>1, DiffRestores
    <3>4. CASE i \notin DOMAIN s.items
      <4>1. v.items[i] = b[i]
        BY <3>1, <3>2, <3>4, OverlayOfNothing DEF Get
      <4>2. DiffFields(view.items[i], b[i]) = {}
        BY <1>1, <3>1, <3>4
      <4>3. \A f \in OverlayFields : view.items[i][f] = b[i][f]
        BY <4>2 DEF DiffFields
      <4> HIDE DEF b
      <4>4. view.items[i] = b[i]
        BY <3>2, <4>3 DEF EveryField
      <4> QED
        BY <4>1, <4>4
    <3> QED
      BY <3>3, <3>4
  <2> QED
    BY <2>1, <2>2
<1> QED
  BY <1>2, <1>3, <1>4, <1>5 DEF IsMap

LEMMA CollapsedParams ==
  ASSUME NEW set, SoundBook(set.book), NEW view, IsView(set, view), NEW s, Collapses(set, view, s),
         NEW a, a.params = set.book.params, NEW v, Shows(s, a, v)
  PROVE  v.params = view.params
<1> DEFINE b == set.book.params
<1>1. /\ DOMAIN s.params = {k \in DOMAIN view.params : Get(b, k, NoParent) # view.params[k]}
      /\ \A k \in DOMAIN s.params : s.params[k] = view.params[k]
  BY DEF Collapses
<1>2. v.params = Over(s.params, b)
  BY DEF Shows
<1>3. /\ IsMap(view.params) /\ DOMAIN b \subseteq DOMAIN view.params
      /\ \A k \in DOMAIN view.params : view.params[k] # NoParent
  BY DEF IsView
<1>4. ASSUME NEW k \in DOMAIN view.params, k \notin DOMAIN s.params
      PROVE  k \in DOMAIN b /\ b[k] = view.params[k]
  <2>1. Get(b, k, NoParent) = view.params[k] /\ view.params[k] # NoParent
    BY <1>1, <1>3, <1>4
  <2> QED
    BY <2>1 DEF Get
<1> HIDE DEF b
<1>5. DOMAIN s.params \cup DOMAIN b = DOMAIN view.params
  BY <1>1, <1>3, <1>4
<1>6. v.params = [k \in DOMAIN view.params |->
                     IF k \in DOMAIN s.params THEN s.params[k] ELSE b[k]]
  BY <1>2, <1>5 DEF Over
<1>7. \A k \in DOMAIN view.params :
          (IF k \in DOMAIN s.params THEN s.params[k] ELSE b[k]) = view.params[k]
  BY <1>1, <1>4
<1> QED
  BY <1>3, <1>6, <1>7 DEF IsMap

LEMMA CollapsedEvents ==
  ASSUME NEW set, NEW view, IsView(set, view), NEW s, Collapses(set, view, s),
         NEW a, a.events = Nothing, NEW v, Shows(s, a, v)
  PROVE  v.events = view.events
<1>1. s.events = view.events
  BY DEF Collapses
<1>2. v.events = [e \in DOMAIN view.events \cup DOMAIN Nothing |->
                     Over(Get(view.events, e, Nothing), Get(Nothing, e, Nothing))]
  BY <1>1 DEF Shows
<1>3. DOMAIN Nothing = {}
  BY NothingIsEmpty
<1>4. DOMAIN view.events \cup DOMAIN Nothing = DOMAIN view.events
  BY <1>3
<1>5. \A e \in DOMAIN view.events :
          Over(Get(view.events, e, Nothing), Get(Nothing, e, Nothing)) = view.events[e]
  <2> TAKE e \in DOMAIN view.events
  <2>1. Get(view.events, e, Nothing) = view.events[e] /\ Get(Nothing, e, Nothing) = Nothing
    BY <1>3 DEF Get
  <2>2. IsMap(view.events[e])
    BY DEF IsView
  <2> QED
    BY <2>1, <2>2, OverNothing
<1>6. IsMap(view.events)
  BY DEF IsView
<1> QED
  BY <1>2, <1>4, <1>5, <1>6 DEF IsMap

(* The new scenario reads as the old one, and so does the old one still.   *)
SameReading(v, w) ==
    v.items = w.items /\ v.params = w.params /\ v.opening = w.opening /\ v.events = w.events

LEMMA FlattenReadsSame ==
  ASSUME NEW set, Sound(set), NEW id \in DOMAIN set.scenarios,
         NEW new \in ScenarioIds \ DOMAIN set.scenarios
  PROVE  /\ SameReading(Resolve(Flatten(set, id, new), new), Resolve(set, id))
         /\ Resolve(Flatten(set, id, new), id) = Resolve(set, id)
<1> DEFINE flat == Flatten(set, id, new)
           view == Resolve(set, id)
           s == FlatRecord(set, view)
           W == With(set.scenarios, new, s)
<1>1. flat = [set EXCEPT !.scenarios = With(@, new, s)]
  BY FlattenStores DEF Exists
<1>2. flat.book = set.book /\ flat.scenarios = W
  BY <1>1 DEF Sound, SoundSet
<1>3. /\ new \in DOMAIN W /\ W[new] = s
      /\ \A u \in DOMAIN set.scenarios : u \in DOMAIN W /\ W[u] = set.scenarios[u]
  <2> DEFINE m == set.scenarios
  <2> HIDE DEF m, s
  <2>1. DOMAIN With(m, new, s) = DOMAIN m \cup {new}
    BY WithWorks
  <2>2. With(m, new, s)[new] = s
    BY WithWorks
  <2>3. \A u \in DOMAIN m \ {new} : With(m, new, s)[u] = m[u]
    BY WithWorks
  <2> QED
    BY <2>1, <2>2, <2>3 DEF m
<1>4. Sound(flat)
  BY FlattenReaches DEF Reaches
<1>5. Collapses(set, view, s) /\ IsView(set, view) /\ SoundBook(set.book)
  BY FlatRecordCollapses, ResolvedIsView DEF Sound, SoundSet
<1> HIDE DEF flat, W, s
<1>6. /\ new \in DOMAIN flat.scenarios /\ flat.scenarios[new] = s
  BY <1>2, <1>3
<1> DEFINE a == ParentView(flat, new)
           v == Resolve(flat, new)
<1>7. Shows(s, a, v)
  BY <1>4, <1>6, ReadsItsRecord
<1>8. a.items = set.book.items /\ a.params = set.book.params /\ a.events = Nothing
  <2>1. ParentOf(flat, new) = NoParent
    BY <1>5, <1>6 DEF ParentOf, Collapses
  <2>2. a = Opened(flat, Authored(set.book))
    BY <1>2, <2>1, Resolved DEF Above
  <2> HIDE DEF a
  <2> QED
    BY <2>2, OpenedShows DEF Authored
<1>9. /\ v.opening = Get(v.params, OpeningBalance, set.book.opening)
      /\ view.opening = Get(view.params, OpeningBalance, set.book.opening)
  BY <1>2, Resolved, OpenedShows
<1> HIDE DEF a, v, view
<1>10. v.items = view.items
  BY <1>5, <1>7, <1>8, CollapsedItems
<1>11. v.params = view.params
  BY <1>5, <1>7, <1>8, CollapsedParams
<1>12. v.events = view.events
  BY <1>5, <1>7, <1>8, CollapsedEvents
<1>13. SameReading(v, view)
  BY <1>9, <1>10, <1>11, <1>12 DEF SameReading
<1>14. SameRecords(set, flat, id)
  <2>1. Ancestry(set, id) \subseteq DOMAIN set.scenarios
    BY ChainIsTheWay, WayEnds DEF Sound, Ancestry, ToSet
  <2> QED
    BY <1>2, <1>3, <2>1 DEF SameRecords
<1>15. Resolve(flat, id) = Resolve(set, id)
  BY <1>2, <1>4, <1>14, SameViews DEF Sound
<1> QED
  BY <1>13, <1>15 DEF flat, v, view

LEMMA SameReadingsDoNotDiffer ==
  ASSUME NEW set, NEW left, NEW right, SameReading(Resolve(set, right), Resolve(set, left))
  PROVE  ScenarioDiff(set, left, right) = NoDifference
<1> DEFINE a == Resolve(set, left)
           b == Resolve(set, right)
<1>1. b.items = a.items /\ b.params = a.params /\ b.opening = a.opening /\ b.events = a.events
  BY DEF SameReading
<1>2. ScenarioDiff(set, left, right) =
        [added |-> DOMAIN b.items \ DOMAIN a.items,
         removed |-> DOMAIN a.items \ DOMAIN b.items,
         changed |-> {i \in DOMAIN a.items \cap DOMAIN b.items :
                         DiffFields(a.items[i], b.items[i]) # {}},
         params |-> {k \in DOMAIN a.params \cup DOMAIN b.params :
                        Get(a.params, k, NoParent) # Get(b.params, k, NoParent)},
         opening |-> a.opening # b.opening,
         events |-> {e \in DOMAIN a.events \cup DOMAIN b.events :
                        Get(a.events, e, Nothing) # Get(b.events, e, Nothing)}]
  BY DEF ScenarioDiff
<1> HIDE DEF a, b
<1>3. \A item : DiffFields(item, item) = {}
  BY DEF DiffFields
<1>4. {i \in DOMAIN a.items \cap DOMAIN b.items : DiffFields(a.items[i], b.items[i]) # {}} = {}
  BY <1>1, <1>3
<1>5. {k \in DOMAIN a.params \cup DOMAIN b.params :
          Get(a.params, k, NoParent) # Get(b.params, k, NoParent)} = {}
  BY <1>1
<1>6. {e \in DOMAIN a.events \cup DOMAIN b.events :
          Get(a.events, e, Nothing) # Get(b.events, e, Nothing)} = {}
  BY <1>1
<1>7. /\ DOMAIN b.items \ DOMAIN a.items = {} /\ DOMAIN a.items \ DOMAIN b.items = {}
      /\ (a.opening # b.opening) = FALSE
  BY <1>1
<1> QED
  BY <1>2, <1>4, <1>5, <1>6, <1>7 DEF NoDifference

KeepsTheBook(s, new) ==
    /\ After(new).items = View(s).items /\ After(new).params = View(s).params
    /\ After(new).opening = View(s).opening
    /\ ResolveEvents(kit'.set, new, kit.rows) = ResolveEvents(kit.set, s, kit.rows)
    /\ ScenarioDiff(kit'.set, s, new) = NoDifference

LEMMA FlattenedKeeps ==
  ASSUME KitInv, NEW s, NEW new \in ScenarioIds, FlattenScenario(s, new), last' # Refusal
  PROVE  /\ last' = [verb |-> "flatten", scenario |-> s, new |-> new]
         /\ KeepsTheBook(s, new)
<1> DEFINE set == Flatten(kit.set, s, new)
           step == [verb |-> "flatten", scenario |-> s, new |-> new]
           result == IF Exists(kit.set, s) /\ ~Exists(kit.set, new) THEN Wrote(kit, set)
                     ELSE Refused(kit)
<1>1. kit' = result.kit /\ last' = IF result.ok THEN step ELSE Refusal
  BY DEF FlattenScenario, Perform
<1>2. Exists(kit.set, s) /\ ~Exists(kit.set, new)
  BY <1>1, RefusedOrWrote
<1>3. result = Wrote(kit, set)
  BY <1>2
<1> HIDE DEF result, step, set
<1>4. kit' = [kit EXCEPT !.set = set] /\ last' = step
  BY <1>1, <1>3, RefusedOrWrote
<1>5. "set" \in DOMAIN kit /\ Sound(kit.set)
  BY DEF KitInv, SoundKit
<1>6. kit'.set = set
  BY <1>4, <1>5
<1>7. /\ SameReading(Resolve(set, new), Resolve(kit.set, s))
      /\ Resolve(set, s) = Resolve(kit.set, s)
  BY <1>2, <1>5, FlattenReadsSame DEF Exists, set
<1>8. SameReading(Resolve(kit'.set, new), Resolve(kit'.set, s))
  BY <1>6, <1>7
<1>9. ScenarioDiff(kit'.set, s, new) = NoDifference
  BY <1>8, SameReadingsDoNotDiffer
<1>10. /\ After(new).items = View(s).items /\ After(new).params = View(s).params
       /\ After(new).opening = View(s).opening
  BY <1>6, <1>7 DEF SameReading, After, View
<1>11. ResolveEvents(kit'.set, new, kit.rows) = ResolveEvents(kit.set, s, kit.rows)
  <2>1. Resolve(kit'.set, new).events = Resolve(kit.set, s).events
    BY <1>6, <1>7 DEF SameReading
  <2> QED
    BY <2>1 DEF ResolveEvents
<1> QED
  BY <1>4, <1>9, <1>10, <1>11 DEF KeepsTheBook, step

(* A scenario collapsed over its chain resolves to the same book, shows    *)
(* the same ledger, and diff() finds nothing between the two.              *)
THEOREM FlattenAlwaysKeeps == Spec => FlattenKeepsTheBook
<1> DEFINE Kept ==
        last'.verb = "flatten" =>
          LET old == View(last'.scenario)
              new == After(last'.new)
          IN /\ new.items = old.items /\ new.params = old.params /\ new.opening = old.opening
             /\ ResolveEvents(kit'.set, last'.new, kit.rows)
                    = ResolveEvents(kit.set, last'.scenario, kit.rows)
             /\ ScenarioDiff(kit'.set, last'.scenario, last'.new) = NoDifference
<1>1. KitInv /\ [Next]_vars => [Kept]_vars
  <2> SUFFICES ASSUME KitInv, [Next]_vars, vars' # vars, last'.verb = "flatten"
               PROVE  Kept
    OBVIOUS
  <2>1. PICK s \in Written, new \in ScenarioIds : FlattenScenario(s, new) /\ last' # Refusal
    BY VerbsDiffer
  <2>2. last' = [verb |-> "flatten", scenario |-> s, new |-> new] /\ KeepsTheBook(s, new)
    BY <2>1, FlattenedKeeps
  <2>3. last'.scenario = s /\ last'.new = new
    BY <2>2
  <2> QED
    BY <2>2, <2>3 DEF KeepsTheBook
<1> QED
  BY <1>1, KitStays, PTL DEF Spec, FlattenKeepsTheBook

-----------------------------------------------------------------------------
(* Folds over sequences, as the runs they make.                            *)
SumRun(R, seq, L) ==
    /\ R[0] = 0
    /\ \A n \in 1 .. L : R[n] = R[n - 1] + seq[n]
    /\ Sum(seq) = R[L]

LEMMA SumRuns ==
  ASSUME NEW seq, NEW L \in Nat, DOMAIN seq = 1 .. L
  PROVE  \E R : SumRun(R, seq, L)
<1> DEFINE Op(v, n) == v + seq[n]
           base == 0
           Fold(G, s) == IF s = {} THEN base ELSE Op(G[s \ {Max(s)}], Max(s))
           Upto(G, n) == G = [s \in SUBSET (1 .. n) |-> Fold(G, s)]
           Stuck == {n \in 0 .. L : ~ \E G : Upto(G, n)}
           Whole(G) == G = [s \in SUBSET (DOMAIN seq) |-> Fold(G, s)]
<1>1. Sum(seq) = (CHOOSE G : Whole(G))[DOMAIN seq]
  BY DEF Sum, FoldLeft, MapThenFoldSet
<1> HIDE DEF Op, base
<1>2. 0 \notin Stuck
  <2> DEFINE G == [s \in SUBSET (1 .. 0) |-> base]
  <2>1. \A s \in SUBSET (1 .. 0) : s = {}
    OBVIOUS
  <2>2. Upto(G, 0)
    BY <2>1
  <2> QED
    BY <2>2
<1>3. ASSUME NEW n \in 1 .. L, n - 1 \notin Stuck PROVE n \notin Stuck
  <2>1. PICK G : Upto(G, n - 1)
    <3> HIDE DEF Upto
    <3>1. n - 1 \in 0 .. L
      OBVIOUS
    <3> QED
      BY <1>3, <3>1
  <2> DEFINE H == [s \in SUBSET (1 .. n) |-> IF n \in s THEN Op(G[s \ {n}], n) ELSE G[s]]
  <2>2. \A s \in SUBSET (1 .. n - 1) : G[s] = Fold(G, s)
    BY <2>1
  <2>3. ASSUME NEW s \in SUBSET (1 .. n) PROVE H[s] = Fold(H, s)
    <3>1. s # {} => Max(s) \in s /\ \A k \in s : k <= Max(s)
      <4>1. n \in Nat
        OBVIOUS
      <4> QED
        BY <4>1, MaxIsLargest
    <3>2. CASE n \in s
      <4>1. Max(s) = n
        <5> HIDE DEF H, Fold, Stuck
        <5>1. Max(s) \in s /\ n <= Max(s)
          BY <3>1, <3>2
        <5>2. Max(s) \in 1 .. n
          BY <5>1
        <5> HIDE DEF Max
        <5> QED
          BY <5>1, <5>2
      <4>2. s \ {n} \in SUBSET (1 .. n) /\ n \notin s \ {n}
        OBVIOUS
      <4>3. H[s] = Op(G[s \ {n}], n) /\ H[s \ {n}] = G[s \ {n}]
        BY <3>2, <4>2
      <4> HIDE DEF H
      <4> QED
        BY <3>2, <4>1, <4>3
    <3>3. CASE n \notin s
      <4>1. s \in SUBSET (1 .. n - 1) /\ H[s] = G[s]
        BY <3>3
      <4>2. s # {} => s \ {Max(s)} \in SUBSET (1 .. n) /\ n \notin s \ {Max(s)}
        BY <3>3
      <4>3. s # {} => H[s \ {Max(s)}] = G[s \ {Max(s)}]
        BY <4>2
      <4>4. G[s] = Fold(G, s)
        BY <2>2, <4>1
      <4> HIDE DEF H
      <4> QED
        BY <4>1, <4>3, <4>4
    <3> QED
      BY <3>2, <3>3
  <2>4. H = [s \in SUBSET (1 .. n) |-> Fold(H, s)]
    <3>1. H = [s \in SUBSET (1 .. n) |-> H[s]]
      OBVIOUS
    <3> HIDE DEF H, Fold
    <3> QED
      BY <2>3, <3>1
  <2>5. Upto(H, n)
    BY <2>4
  <2> HIDE DEF Upto, H
  <2> QED
    BY <2>5
<1>4. L \notin Stuck
  <2> HIDE DEF Upto
  <2>1. SUFFICES ASSUME Stuck # {} PROVE FALSE
    OBVIOUS
  <2>2. Stuck \subseteq Nat
    OBVIOUS
  <2>3. PICK m \in Stuck : \A n \in Stuck : m <= n
    <3> HIDE DEF Stuck
    <3> QED
      BY <2>1, <2>2, LeastNatural
  <2>4. m \in 1 .. L /\ m - 1 \notin Stuck
    BY <1>2, <2>3
  <2> QED
    BY <1>3, <2>3, <2>4
<1>5. PICK G : Upto(G, L)
  <2> HIDE DEF Upto
  <2> QED
    BY <1>4
<1>6. Whole(G)
  BY <1>5
<1> DEFINE K == CHOOSE H : Whole(H)
<1>7. Whole(K)
  <2> HIDE DEF Whole
  <2> QED
    BY <1>6
<1>8. \A s \in SUBSET (1 .. L) : K[s] = Fold(K, s)
  <2> HIDE DEF K, Fold
  <2> QED
    BY <1>7
<1> HIDE DEF K
<1> DEFINE R == [n \in 0 .. L |-> K[1 .. n]]
<1>9. R[0] = base
  <2>1. R[0] = K[1 .. 0] /\ (1 .. 0) = {}
    OBVIOUS
  <2> QED
    BY <1>8, <2>1
<1>10. ASSUME NEW n \in 1 .. L PROVE R[n] = Op(R[n - 1], n)
  <2> DEFINE s == 1 .. n
  <2>1. s \in SUBSET (1 .. L) /\ n \in s /\ s # {} /\ s \ {n} = 1 .. (n - 1)
    OBVIOUS
  <2>2. \A k \in s : k <= n
    OBVIOUS
  <2>3. s \subseteq Int
    OBVIOUS
  <2> HIDE DEF s
  <2>4. Max(s) = n
    <3>1. Max(s) \in s /\ \A k \in s : k <= Max(s)
      BY <2>1, MaxIsLargest
    <3> HIDE DEF Max
    <3>2. n <= Max(s) /\ Max(s) <= n /\ Max(s) \in Int
      BY <2>1, <2>2, <2>3, <3>1
    <3> QED
      BY <3>2
  <2>5. K[s] = Op(K[s \ {n}], n)
    BY <1>8, <2>1, <2>4
  <2>6. R[n] = K[s] /\ R[n - 1] = K[s \ {n}]
    <3>1. n \in 0 .. L /\ n - 1 \in 0 .. L
      OBVIOUS
    <3>2. R[n] = K[1 .. n] /\ R[n - 1] = K[1 .. (n - 1)]
      BY <3>1
    <3> QED
      BY <2>1, <3>2 DEF s
  <2> QED
    BY <2>5, <2>6
<1>11. Sum(seq) = R[L]
  <2>1. R[L] = K[1 .. L]
    OBVIOUS
  <2> QED
    BY <1>1, <2>1 DEF K
<1> HIDE DEF R
<1> QED
  BY <1>9, <1>10, <1>11 DEF Op, base, SumRun

PostedRun(R, columns, postings, L) ==
    /\ R[0] = columns
    /\ \A n \in 1 .. L : R[n] = Post(R[n - 1], postings[n])
    /\ Posted(columns, postings) = R[L]

LEMMA PostedRuns ==
  ASSUME NEW columns, NEW postings, NEW L \in Nat, DOMAIN postings = 1 .. L
  PROVE  \E R : PostedRun(R, columns, postings, L)
<1> DEFINE Op(v, n) == Post(v, postings[n])
           base == columns
           Fold(G, s) == IF s = {} THEN base ELSE Op(G[s \ {Max(s)}], Max(s))
           Upto(G, n) == G = [s \in SUBSET (1 .. n) |-> Fold(G, s)]
           Stuck == {n \in 0 .. L : ~ \E G : Upto(G, n)}
           Whole(G) == G = [s \in SUBSET (DOMAIN postings) |-> Fold(G, s)]
<1>1. Posted(columns, postings) = (CHOOSE G : Whole(G))[DOMAIN postings]
  BY DEF Posted, FoldLeft, MapThenFoldSet
<1> HIDE DEF Op, base
<1>2. 0 \notin Stuck
  <2> DEFINE G == [s \in SUBSET (1 .. 0) |-> base]
  <2>1. \A s \in SUBSET (1 .. 0) : s = {}
    OBVIOUS
  <2>2. Upto(G, 0)
    BY <2>1
  <2> QED
    BY <2>2
<1>3. ASSUME NEW n \in 1 .. L, n - 1 \notin Stuck PROVE n \notin Stuck
  <2>1. PICK G : Upto(G, n - 1)
    <3> HIDE DEF Upto
    <3>1. n - 1 \in 0 .. L
      OBVIOUS
    <3> QED
      BY <1>3, <3>1
  <2> DEFINE H == [s \in SUBSET (1 .. n) |-> IF n \in s THEN Op(G[s \ {n}], n) ELSE G[s]]
  <2>2. \A s \in SUBSET (1 .. n - 1) : G[s] = Fold(G, s)
    BY <2>1
  <2>3. ASSUME NEW s \in SUBSET (1 .. n) PROVE H[s] = Fold(H, s)
    <3>1. s # {} => Max(s) \in s /\ \A k \in s : k <= Max(s)
      <4>1. n \in Nat
        OBVIOUS
      <4> QED
        BY <4>1, MaxIsLargest
    <3>2. CASE n \in s
      <4>1. Max(s) = n
        <5> HIDE DEF H, Fold, Stuck
        <5>1. Max(s) \in s /\ n <= Max(s)
          BY <3>1, <3>2
        <5>2. Max(s) \in 1 .. n
          BY <5>1
        <5> HIDE DEF Max
        <5> QED
          BY <5>1, <5>2
      <4>2. s \ {n} \in SUBSET (1 .. n) /\ n \notin s \ {n}
        OBVIOUS
      <4>3. H[s] = Op(G[s \ {n}], n) /\ H[s \ {n}] = G[s \ {n}]
        BY <3>2, <4>2
      <4> HIDE DEF H
      <4> QED
        BY <3>2, <4>1, <4>3
    <3>3. CASE n \notin s
      <4>1. s \in SUBSET (1 .. n - 1) /\ H[s] = G[s]
        BY <3>3
      <4>2. s # {} => s \ {Max(s)} \in SUBSET (1 .. n) /\ n \notin s \ {Max(s)}
        BY <3>3
      <4>3. s # {} => H[s \ {Max(s)}] = G[s \ {Max(s)}]
        BY <4>2
      <4>4. G[s] = Fold(G, s)
        BY <2>2, <4>1
      <4> HIDE DEF H
      <4> QED
        BY <4>1, <4>3, <4>4
    <3> QED
      BY <3>2, <3>3
  <2>4. H = [s \in SUBSET (1 .. n) |-> Fold(H, s)]
    <3>1. H = [s \in SUBSET (1 .. n) |-> H[s]]
      OBVIOUS
    <3> HIDE DEF H, Fold
    <3> QED
      BY <2>3, <3>1
  <2>5. Upto(H, n)
    BY <2>4
  <2> HIDE DEF Upto, H
  <2> QED
    BY <2>5
<1>4. L \notin Stuck
  <2> HIDE DEF Upto
  <2>1. SUFFICES ASSUME Stuck # {} PROVE FALSE
    OBVIOUS
  <2>2. Stuck \subseteq Nat
    OBVIOUS
  <2>3. PICK m \in Stuck : \A n \in Stuck : m <= n
    <3> HIDE DEF Stuck
    <3> QED
      BY <2>1, <2>2, LeastNatural
  <2>4. m \in 1 .. L /\ m - 1 \notin Stuck
    BY <1>2, <2>3
  <2> QED
    BY <1>3, <2>3, <2>4
<1>5. PICK G : Upto(G, L)
  <2> HIDE DEF Upto
  <2> QED
    BY <1>4
<1>6. Whole(G)
  BY <1>5
<1> DEFINE K == CHOOSE H : Whole(H)
<1>7. Whole(K)
  <2> HIDE DEF Whole
  <2> QED
    BY <1>6
<1>8. \A s \in SUBSET (1 .. L) : K[s] = Fold(K, s)
  <2> HIDE DEF K, Fold
  <2> QED
    BY <1>7
<1> HIDE DEF K
<1> DEFINE R == [n \in 0 .. L |-> K[1 .. n]]
<1>9. R[0] = base
  <2>1. R[0] = K[1 .. 0] /\ (1 .. 0) = {}
    OBVIOUS
  <2> QED
    BY <1>8, <2>1
<1>10. ASSUME NEW n \in 1 .. L PROVE R[n] = Op(R[n - 1], n)
  <2> DEFINE s == 1 .. n
  <2>1. s \in SUBSET (1 .. L) /\ n \in s /\ s # {} /\ s \ {n} = 1 .. (n - 1)
    OBVIOUS
  <2>2. \A k \in s : k <= n
    OBVIOUS
  <2>3. s \subseteq Int
    OBVIOUS
  <2> HIDE DEF s
  <2>4. Max(s) = n
    <3>1. Max(s) \in s /\ \A k \in s : k <= Max(s)
      BY <2>1, MaxIsLargest
    <3> HIDE DEF Max
    <3>2. n <= Max(s) /\ Max(s) <= n /\ Max(s) \in Int
      BY <2>1, <2>2, <2>3, <3>1
    <3> QED
      BY <3>2
  <2>5. K[s] = Op(K[s \ {n}], n)
    BY <1>8, <2>1, <2>4
  <2>6. R[n] = K[s] /\ R[n - 1] = K[s \ {n}]
    <3>1. n \in 0 .. L /\ n - 1 \in 0 .. L
      OBVIOUS
    <3>2. R[n] = K[1 .. n] /\ R[n - 1] = K[1 .. (n - 1)]
      BY <3>1
    <3> QED
      BY <2>1, <3>2 DEF s
  <2> QED
    BY <2>5, <2>6
<1>11. Posted(columns, postings) = R[L]
  <2>1. R[L] = K[1 .. L]
    OBVIOUS
  <2> QED
    BY <1>1, <2>1 DEF K
<1> HIDE DEF R
<1> QED
  BY <1>9, <1>10, <1>11 DEF Op, base, PostedRun

(* The sum of a sequence is the total over its places.                     *)
LEMMA SumIsTotal ==
  ASSUME NEW s, NEW L \in Nat, DOMAIN s = 1 .. L, \A k \in 1 .. L : s[k] \in Int
  PROVE  Sum(s) = TotalOf(s, 1 .. L) /\ Sum(s) \in Int
<1>1. PICK R : SumRun(R, s, L)
  BY SumRuns
<1> DEFINE Bad == {n \in 0 .. L : R[n] # TotalOf(s, 1 .. n)}
<1>2. 0 \notin Bad
  <2>1. (1 .. 0) = {} /\ R[0] = 0
    BY <1>1 DEF SumRun
  <2> QED
    BY <2>1, TotalOfNothing
<1>3. ASSUME NEW n \in 1 .. L, n - 1 \notin Bad PROVE n \notin Bad
  <2>1. /\ IsFiniteSet(1 .. n) /\ n \in 1 .. n /\ (1 .. n) \ {n} = 1 .. (n - 1)
        /\ n - 1 \in 0 .. L
    <3>1. n \in Nat /\ n >= 1
      OBVIOUS
    <3>2. (1 .. n) \ {n} = 1 .. (n - 1)
      BY ONLY <3>1
    <3> QED
      BY <3>1, <3>2, FS_Interval
  <2>2. \A k \in 1 .. n : s[k] \in Int
    OBVIOUS
  <2>3. TotalOf(s, 1 .. n) = s[n] + TotalOf(s, 1 .. (n - 1))
    BY <2>1, <2>2, TotalTakes
  <2>4. TotalOf(s, 1 .. (n - 1)) \in Int
    <3>1. IsFiniteSet(1 .. (n - 1)) /\ \A k \in 1 .. (n - 1) : s[k] \in Int
      BY <2>2, FS_Interval
    <3> QED
      BY <3>1, TotalIsInt
  <2>5. R[n - 1] = TotalOf(s, 1 .. (n - 1))
    BY <1>3, <2>1
  <2>6. R[n] = R[n - 1] + s[n]
    BY <1>1 DEF SumRun
  <2> QED
    BY <2>2, <2>3, <2>4, <2>5, <2>6
<1>4. Bad = {}
  <2>1. SUFFICES ASSUME Bad # {} PROVE FALSE
    OBVIOUS
  <2>2. Bad \subseteq Nat
    OBVIOUS
  <2>3. PICK m \in Bad : \A n \in Bad : m <= n
    <3> HIDE DEF Bad
    <3> QED
      BY <2>1, <2>2, LeastNatural
  <2>4. m \in 0 .. L
    OBVIOUS
  <2> HIDE DEF Bad
  <2>5. m \in 1 .. L
    BY <1>2, <2>3, <2>4
  <2>6. m - 1 \notin Bad
    BY <2>3, <2>5
  <2> QED
    BY <1>3, <2>3, <2>5, <2>6
<1>5. R[L] = TotalOf(s, 1 .. L) /\ R[L] = Sum(s)
  BY <1>1, <1>4 DEF SumRun
<1>6. TotalOf(s, 1 .. L) \in Int
  BY FS_Interval, TotalIsInt
<1> QED
  BY <1>5, <1>6

(* A last place that takes what the others leave makes the sum whole.      *)
LEMMA LastTakesTheRest ==
  ASSUME NEW s, NEW L \in Nat \ {0}, DOMAIN s = 1 .. L,
         NEW others, DOMAIN others = 1 .. (L - 1),
         \A k \in 1 .. (L - 1) : others[k] \in Int /\ s[k] = others[k],
         NEW total \in Int, s[L] = total - Sum(others)
  PROVE  Sum(s) = total
<1>1. L - 1 \in Nat
  OBVIOUS
<1>2. Sum(others) = TotalOf(others, 1 .. (L - 1)) /\ Sum(others) \in Int
  BY <1>1, SumIsTotal
<1>3. \A k \in 1 .. L : s[k] \in Int
  <2> TAKE k \in 1 .. L
  <2>1. k \in 1 .. (L - 1) \/ k = L
    OBVIOUS
  <2> QED
    BY <1>2, <2>1
<1>4. Sum(s) = TotalOf(s, 1 .. L)
  BY <1>3, SumIsTotal
<1>5. IsFiniteSet(1 .. L) /\ IsFiniteSet(1 .. (L - 1)) /\ L \in 1 .. L
  BY <1>1, FS_Interval
<1>6. (1 .. L) \ {L} = 1 .. (L - 1)
  BY ONLY L \in Nat \ {0}
<1>7. TotalOf(s, 1 .. L) = s[L] + TotalOf(s, 1 .. (L - 1))
  BY <1>3, <1>5, <1>6, TotalTakes
<1>8. TotalOf(others, 1 .. (L - 1)) = TotalOf(s, 1 .. (L - 1))
  BY <1>5, TotalsAgreeing
<1> QED
  BY <1>2, <1>4, <1>7, <1>8

ValuesOf(settlement) == [k \in DOMAIN settlement |-> settlement[k].value]

LEMMA TermTotalIs ==
  ASSUME NEW settlement, IsFiniteSet(DOMAIN settlement), NEW kind
  PROVE  TermTotal(settlement, kind) = TotalOf(ValuesOf(settlement), TermsOf(settlement, kind))
<1> DEFINE S == TermsOf(settlement, kind)
           f == ValuesOf(settlement)
           Adding(F) == [s \in SUBSET S |->
                            IF s = {} THEN 0 ELSE settlement[Pick(s)].value + F[Rest(s)]]
           G == CHOOSE F : F = Adding(F)
<1>0. S \subseteq DOMAIN settlement /\ IsFiniteSet(S)
  BY FS_Subset DEF TermsOf
<1>1. \A s \in SUBSET S : s # {} => f[Pick(s)] = settlement[Pick(s)].value
  BY <1>0, PickIn DEF ValuesOf
<1>2. \A F : F = Adding(F) <=> AreTotals(F, f, S)
  BY <1>1 DEF AreTotals, Adds
<1>3. TermTotal(settlement, kind) = G[S]
  BY DEF TermTotal, MapThenSumSet, MapThenFoldSet, Pick, Rest
<1>4. AreTotals(G, f, S)
  <2> HIDE DEF Adding, f, S
  <2>1. \E F : F = Adding(F)
    BY <1>0, <1>2, TotalsExist
  <2>2. G = Adding(G)
    BY <2>1
  <2> QED
    BY <1>2, <2>2
<1> HIDE DEF G, f
<1> QED
  BY <1>0, <1>3, <1>4, SolvedTotal DEF f

(* A magnitude divided with rounding is a magnitude (numeric.py).          *)
LEMMA RoundMagnitudeIsNat ==
    ASSUME NEW n \in Nat, NEW d \in Nat \ {0}
    PROVE  RoundMagnitude(n, d) \in Nat
BY DEF RoundMagnitude

(* Rounding stays within half a unit of the exact quotient (numeric.py).   *)
THEOREM RoundMagnitudeIsNearest ==
    ASSUME NEW n \in Nat, NEW d \in Nat \ {0}
    PROVE  /\ 2 * (n - d * RoundMagnitude(n, d)) <= d
           /\ 2 * (d * RoundMagnitude(n, d) - n) <= d
<1> DEFINE q == n \div d
           r == n % d
           h == d \div 2
<1>1. q \in Nat /\ r \in 0 .. (d - 1) /\ n = d * q + r
  OBVIOUS
<1>2. h \in Nat /\ (d = 2 * h \/ d = 2 * h + 1) /\ (d % 2 = 0 => d = 2 * h)
  OBVIOUS
<1>3. d * (q + 1) = d * q + d
  BY <1>1
<1>4. CASE SplitRounding(r, d, q)
  <2>1. RoundMagnitude(n, d) = q + 1
    BY <1>4 DEF RoundMagnitude
  <2>2. 2 * r >= d
    BY <1>1, <1>2, <1>4 DEF SplitRounding
  <2> QED  BY <1>1, <1>3, <2>1, <2>2
<1>5. CASE ~SplitRounding(r, d, q)
  <2>1. RoundMagnitude(n, d) = q
    BY <1>5 DEF RoundMagnitude
  <2>2. 2 * r <= d
    BY <1>1, <1>2, <1>5 DEF SplitRounding
  <2> QED  BY <1>1, <2>1, <2>2
<1> QED  BY <1>4, <1>5

(* Rounding does not depend on the sign: money in and the same money out   *)
(* round to opposite amounts, so a reversal cancels what it reverses       *)
(* (numeric.py rounds the magnitude, whatever the policy).                 *)
THEOREM RoundDivIsOdd ==
    ASSUME NEW n \in Int, NEW d \in Int \ {0}
    PROVE  /\ RoundDiv(n, d) \in Int
           /\ RoundDiv(-n, d) = -RoundDiv(n, d)
<1>1. Magnitude(n) \in Nat /\ Magnitude(d) \in Nat \ {0} /\ Magnitude(-n) = Magnitude(n)
  BY DEF Magnitude
<1>2. RoundMagnitude(Magnitude(n), Magnitude(d)) \in Nat
  BY <1>1, RoundMagnitudeIsNat
<1>3. CASE n = 0
  <2>1. Magnitude(n) = 0
    BY <1>3 DEF Magnitude
  <2>2. /\ 2 * (0 - Magnitude(d) * RoundMagnitude(0, Magnitude(d))) <= Magnitude(d)
        /\ 2 * (Magnitude(d) * RoundMagnitude(0, Magnitude(d)) - 0) <= Magnitude(d)
    BY <1>1, RoundMagnitudeIsNearest
  <2>3. RoundMagnitude(0, Magnitude(d)) = 0
    <3> DEFINE m == Magnitude(d)
               x == RoundMagnitude(0, m)
    <3>1. m \in Nat \ {0} /\ x \in Nat
      BY <1>1, <1>2, <2>1
    <3>2. 2 * (m * x) <= m
      BY <2>2, <3>1
    <3> HIDE DEF m, x
    <3>3. x >= 1 => m * x >= m
      BY <3>1
    <3>4. x = 0
      BY <3>1, <3>2, <3>3
    <3> QED  BY <3>4 DEF m, x
  <2> QED  BY <1>3, <2>1, <2>3 DEF RoundDiv, Magnitude
<1>4. CASE n # 0
  <2>1. (-n < 0) # (n < 0)
    BY <1>4
  <2> QED  BY <1>1, <1>2, <2>1 DEF RoundDiv
<1> QED  BY <1>3, <1>4

(* A rate of an amount is at most half a minor unit from the exact product *)
(* (numeric.py, mul_ratio: one multiplication, one rounding).              *)
THEOREM MulRateIsNearest ==
    ASSUME NEW amount \in Nat, NEW rate \in Nat
    PROVE  /\ MulRate(amount, rate) \in Nat
           /\ 2 * (amount * rate - RateScale * MulRate(amount, rate)) <= RateScale
           /\ 2 * (RateScale * MulRate(amount, rate) - amount * rate) <= RateScale
<1> DEFINE product == amount * rate
<1>1. product \in Nat /\ RateScale \in Nat \ {0}
  BY RateScaleAssumption
<1>2. MulRate(amount, rate) = RoundMagnitude(product, RateScale)
  <2> HIDE DEF product
  <2>1. RoundDiv(product, RateScale) = RoundMagnitude(product, RateScale)
    BY <1>1 DEF RoundDiv, Magnitude
  <2> QED  BY <2>1 DEF MulRate, product
<1> HIDE DEF product
<1>3. /\ RoundMagnitude(product, RateScale) \in Nat
      /\ 2 * (product - RateScale * RoundMagnitude(product, RateScale)) <= RateScale
      /\ 2 * (RateScale * RoundMagnitude(product, RateScale) - product) <= RateScale
  BY <1>1, RoundMagnitudeIsNat, RoundMagnitudeIsNearest
<1> QED  BY <1>2, <1>3 DEF product

(* The smaller of two integers, as Min over their set finds it.            *)
LEMMA MinOfTwo ==
    ASSUME NEW a \in Int, NEW b \in Int
    PROVE  Min({a, b}) = IF a <= b THEN a ELSE b
BY DEF Min

(* One return balances (tax.py): what was due is what was moved and what   *)
(* the credit changed by, up to the surcharge on what is paid; the credit  *)
(* is never negative and comes in as money only where a refund is made.    *)
THEOREM ReturnBalances ==
    ASSUME NEW credit \in Nat, NEW due \in Int, NEW refunds \in BOOLEAN, NEW surcharge \in Nat
    PROVE  LET after == Assess(credit, due, refunds, surcharge) IN
           /\ after.credit \in Nat
           /\ after.movement \in Int
           /\ after.movement > 0 => refunds
           /\ due + after.movement + after.credit - credit <= 0
           /\ surcharge = 0 => due + after.movement + after.credit - credit = 0
<1> DEFINE applied == Min({credit, due})
           kept == IF due >= 0 THEN credit - applied ELSE credit - due
           payable == IF due >= 0 THEN due - applied ELSE 0
           extra == MulRate(payable, surcharge)
           refund == IF refunds THEN kept ELSE 0
<1>1. Assess(credit, due, refunds, surcharge) = [credit |-> kept - refund, movement |-> refund - (payable + extra)]
  BY DEF Assess
<1>2. applied = IF credit <= due THEN credit ELSE due
  BY MinOfTwo
<1>3. kept \in Nat /\ payable \in Nat /\ due = payable + credit - kept
  BY <1>2
<1> HIDE DEF applied, kept, payable
<1>4. extra \in Nat
  BY <1>3, MulRateIsNearest
<1>5. surcharge = 0 => extra = 0
  <2> SUFFICES ASSUME surcharge = 0 PROVE extra = 0
    OBVIOUS
  <2>1. surcharge = 0 /\ RateScale \in Nat \ {0} /\ payable * 0 = 0
    BY <1>3, RateScaleAssumption
  <2>2. 2 * (RateScale * extra) <= RateScale
    BY <1>3, <1>4, <2>1, MulRateIsNearest
  <2> HIDE DEF extra
  <2>3. extra >= 1 => RateScale * extra >= RateScale
    BY <1>4, <2>1
  <2> QED  BY <1>4, <2>1, <2>2, <2>3
<1> HIDE DEF extra
<1>6. refund \in Nat /\ refund <= kept /\ (refund > 0 => refunds)
  BY <1>3
<1> HIDE DEF refund
<1> QED  BY <1>1, <1>3, <1>4, <1>5, <1>6

LEMMA MulRateIsInt == \A amount, rate \in Int : MulRate(amount, rate) \in Int
<1> TAKE amount, rate \in Int
<1>1. RateScale \in Int \ {0} /\ amount * rate \in Int
  BY RateScaleAssumption
<1> QED
  BY <1>1, RoundDivIsOdd DEF MulRate

(* A rate of nothing is nothing.                                           *)
LEMMA MulRateOfNothing ==
    ASSUME NEW rate \in Int, NEW n \in Int, n = 0
    PROVE  MulRate(n, rate) = 0
<1>1. RateScale \in Int \ {0} /\ n * rate = 0 /\ -n = n
  <2>1. 0 * rate = 0
    OBVIOUS
  <2>2. n * rate = 0
    BY <2>1
  <2>3. \A x \in Int : -x = 0 - x
    OBVIOUS
  <2>4. -n = 0 - n
    BY ONLY <2>3, n \in Int
  <2>5. 0 - n = n
    OBVIOUS
  <2> QED
    BY <2>2, <2>4, <2>5, RateScaleAssumption
<1>2. RoundDiv(n, RateScale) \in Int /\ RoundDiv(-n, RateScale) = -RoundDiv(n, RateScale)
  BY <1>1, RoundDivIsOdd
<1>3. RoundDiv(n, RateScale) = -RoundDiv(n, RateScale)
  BY <1>1, <1>2
<1>4. RoundDiv(n, RateScale) = 0
  BY <1>2, <1>3
<1> QED
  BY <1>1, <1>4 DEF MulRate

-----------------------------------------------------------------------------
(* A settlement that splits: its terms are of one of the three kinds, the  *)
(* last of which has no value (settlement.py, DueTerm).                    *)
IsSplit(settlement) ==
    /\ settlement \in Seq(ToSet(settlement)) \ {<<>>, None}
    /\ \A k \in DOMAIN settlement :
          /\ settlement[k].kind \in {"share", "amount", "remainder"}
          /\ settlement[k].kind # "remainder" => settlement[k].value \in Int
    /\ Splits(Classify(settlement))

LEMMA SplitShape ==
  ASSUME NEW settlement, IsSplit(settlement)
  PROVE  /\ Len(settlement) \in Nat \ {0} /\ DOMAIN settlement = 1 .. Len(settlement)
         /\ IsFiniteSet(DOMAIN settlement)
         /\ Classify(settlement) = "shares" =>
               \A k \in DOMAIN settlement : settlement[k].kind = "share"
         /\ Classify(settlement) # "shares" =>
               \E r \in DOMAIN settlement :
                  /\ settlement[r].kind = "remainder"
                  /\ \A k \in DOMAIN settlement \ {r} : settlement[k].kind = "amount"
<1>1. Len(settlement) \in Nat \ {0} /\ DOMAIN settlement = 1 .. Len(settlement)
  <2>1. settlement \in Seq(ToSet(settlement)) /\ settlement # <<>>
    BY DEF IsSplit
  <2> QED
    BY <2>1, EmptySeq, LenProperties
<1>2. IsFiniteSet(DOMAIN settlement)
  BY <1>1, FS_Interval
<1> DEFINE D == DOMAIN settlement
           shares == TermsOf(settlement, "share")
           rest == TermsOf(settlement, "remainder")
<1>3. settlement # None /\ settlement # <<>> /\ Classify(settlement) \in {"shares", "fixed"}
  BY DEF IsSplit, Splits
<1>4. Classify(settlement) =
        CASE Mixed(settlement) -> "invalid"
          [] shares = D -> IF TermTotal(settlement, "share") = RateScale THEN "shares" ELSE "invalid"
          [] OTHER -> IF Cardinality(rest) = 1 THEN "fixed" ELSE "invalid"
  BY <1>3 DEF Classify
<1>5. ~Mixed(settlement)
  <2>1. Mixed(settlement) => shares # D
    BY DEF Mixed
  <2> QED
    BY <1>3, <1>4, <2>1
<1>6. shares = {} \/ shares = D
  BY <1>5 DEF Mixed
<1>7. CASE shares = D
  <2>1. Classify(settlement) = "shares"
    BY <1>3, <1>4, <1>5, <1>7
  <2> QED
    BY <1>1, <1>2, <1>7, <2>1 DEF TermsOf
<1>8. CASE shares = {} /\ shares # D
  <2>1. Classify(settlement) # "shares" /\ Cardinality(rest) = 1
    BY <1>3, <1>4, <1>5, <1>8
  <2>2. IsFiniteSet(rest)
    BY <1>2, FS_Subset DEF TermsOf
  <2>3. PICK r : rest = {r}
    BY <2>1, <2>2, FS_Singleton
  <2>4. r \in D /\ settlement[r].kind = "remainder"
    BY <2>3 DEF TermsOf
  <2>5. \A k \in D \ {r} : settlement[k].kind = "amount"
    BY <1>8, <2>3 DEF TermsOf, IsSplit
  <2> QED
    BY <1>1, <1>2, <2>1, <2>4, <2>5
<1> QED
  BY <1>6, <1>7, <1>8

LEMMA SharesAddUp ==
  ASSUME NEW settlement, IsSplit(settlement), Classify(settlement) = "shares", NEW amount \in Int
  PROVE  /\ DOMAIN ShareLegs(settlement, amount) = DOMAIN settlement
         /\ \A k \in DOMAIN settlement : ShareLegs(settlement, amount)[k] \in Int
         /\ Sum(ShareLegs(settlement, amount)) = amount
<1> DEFINE L == Len(settlement)
           share(k) == MulRate(amount, settlement[k].value)
           others == [k \in 1 .. (L - 1) |-> share(k)]
           legs == ShareLegs(settlement, amount)
<1>1. L \in Nat \ {0} /\ DOMAIN settlement = 1 .. L
  BY SplitShape
<1>2. legs = [k \in 1 .. L |-> IF k = L THEN amount - Sum(others) ELSE share(k)]
  BY <1>1 DEF ShareLegs
<1>3. \A k \in 1 .. L : share(k) \in Int
  <2> TAKE k \in 1 .. L
  <2>1. settlement[k].value \in Int
    BY <1>1, SplitShape DEF IsSplit
  <2> QED
    BY <2>1, MulRateIsInt
<1> HIDE DEF share, legs, L
<1>4. \A k \in 1 .. (L - 1) : k \in 1 .. L /\ k # L
  BY <1>1
<1>5. \A k \in 1 .. (L - 1) : others[k] \in Int /\ legs[k] = others[k]
  BY <1>2, <1>3, <1>4
<1>6. L \in 1 .. L /\ legs[L] = amount - Sum(others) /\ DOMAIN legs = 1 .. L
  BY <1>1, <1>2
<1>7. DOMAIN others = 1 .. (L - 1)
  OBVIOUS
<1> HIDE DEF others
<1>8. Sum(legs) = amount
  BY <1>1, <1>5, <1>6, <1>7, LastTakesTheRest
<1>9. Sum(others) \in Int
  <2>1. L - 1 \in Nat
    BY <1>1
  <2> QED
    BY <1>5, <1>7, <2>1, SumIsTotal
<1>10. \A k \in 1 .. L : legs[k] \in Int
  BY <1>2, <1>3, <1>9
<1> QED
  BY <1>1, <1>6, <1>8, <1>10 DEF legs

(* Fixed legs: when they are more than the amount they stay what they are. *)
LEMMA FixedAddUp ==
  ASSUME NEW settlement, IsSplit(settlement), Classify(settlement) # "shares", NEW amount \in Int
  PROVE  /\ DOMAIN FixedLegs(settlement, amount) = DOMAIN settlement
         /\ \A k \in DOMAIN settlement : FixedLegs(settlement, amount)[k] \in Int
         /\ TermTotal(settlement, "amount") \in Int
         /\ Sum(FixedLegs(settlement, amount)) =
               IF 0 <= amount /\ amount < TermTotal(settlement, "amount")
               THEN TermTotal(settlement, "amount") ELSE amount
<1> DEFINE D == DOMAIN settlement
           fixed == TermTotal(settlement, "amount")
           values == ValuesOf(settlement)
           legs == FixedLegs(settlement, amount)
           left == amount - fixed
<1>1. Len(settlement) \in Nat \ {0} /\ D = 1 .. Len(settlement) /\ IsFiniteSet(D)
  BY SplitShape
<1>2. PICK r \in D : /\ settlement[r].kind = "remainder"
                     /\ \A k \in D \ {r} : settlement[k].kind = "amount"
  BY SplitShape
<1>3. TermsOf(settlement, "amount") = D \ {r}
  BY <1>2 DEF TermsOf
<1>4. \A k \in D \ {r} : values[k] = settlement[k].value /\ values[k] \in Int
  BY <1>2 DEF ValuesOf, IsSplit
<1>5. IsFiniteSet(D \ {r})
  BY <1>1, FS_Subset
<1>6. fixed = TotalOf(values, D \ {r}) /\ fixed \in Int
  <2>1. fixed = TotalOf(values, D \ {r})
    BY <1>1, <1>3, TermTotalIs
  <2> QED
    BY <1>4, <1>5, <2>1, TotalIsInt
<1>7. legs = [k \in D |->
                 CASE amount < 0 -> IF settlement[k].kind = "remainder" THEN amount ELSE 0
                   [] amount >= 0 -> IF settlement[k].kind = "remainder" THEN Max({0, left})
                                     ELSE settlement[k].value]
  BY DEF FixedLegs
<1>8. left \in Int /\ Max({0, left}) = IF left <= 0 THEN 0 ELSE left
  <2>1. left \in Int
    BY <1>6
  <2> HIDE DEF left
  <2> QED
    BY <2>1 DEF Max
<1> HIDE DEF D, values, legs, fixed
<1>9. DOMAIN legs = D
  BY <1>7
<1>10. CASE amount < 0
  <2>1. legs[r] = amount /\ \A k \in D \ {r} : legs[k] = 0
    BY <1>2, <1>7, <1>10
  <2>2. \A k \in D : legs[k] \in Int
    BY <2>1
  <2>3. Sum(legs) = TotalOf(legs, D)
    BY <1>1, <1>9, <2>2, SumIsTotal DEF D
  <2>4. TotalOf(legs, D) = legs[r] + TotalOf(legs, D \ {r})
    BY <1>1, <2>2, TotalTakes
  <2>5. TotalOf(legs, D \ {r}) = 0
    <3>1. \A k \in D \ {r} : legs[k] \in Nat
      BY <2>1
    <3>2. {} \in SUBSET (D \ {r}) /\ \A k \in (D \ {r}) \ {} : legs[k] = 0
      BY <2>1
    <3>3. TotalOf(legs, {}) = TotalOf(legs, D \ {r})
      BY <1>5, <3>1, <3>2, TotalOfPart
    <3> QED
      BY <3>3, TotalOfNothing
  <2>6. Sum(legs) = amount
    BY <2>1, <2>3, <2>4, <2>5
  <2> QED
    BY <1>6, <1>9, <1>10, <2>2, <2>6 DEF D, legs, fixed
<1>11. CASE amount >= 0
  <2>1. legs[r] = Max({0, left}) /\ \A k \in D \ {r} : legs[k] = values[k]
    <3>1. ~(amount < 0)
      BY <1>11
    <3> QED
      BY <1>2, <1>4, <1>7, <1>11, <3>1
  <2>2. legs[r] = IF left <= 0 THEN 0 ELSE left
    BY <1>8, <2>1
  <2>3. \A k \in D : legs[k] \in Int
    BY <1>4, <1>8, <2>1, <2>2
  <2>4. Sum(legs) = TotalOf(legs, D)
    BY <1>1, <1>9, <2>3, SumIsTotal DEF D
  <2>5. TotalOf(legs, D) = legs[r] + TotalOf(legs, D \ {r})
    BY <1>1, <2>3, TotalTakes
  <2>6. TotalOf(legs, D \ {r}) = fixed
    BY <1>4, <1>5, <1>6, <2>1, TotalsAgreeing
  <2>7. Sum(legs) = (IF left <= 0 THEN 0 ELSE left) + fixed
    BY <2>2, <2>4, <2>5, <2>6
  <2>8. Sum(legs) = IF 0 <= amount /\ amount < fixed THEN fixed ELSE amount
    BY <1>6, <1>11, <2>7
  <2> QED
    BY <1>6, <1>9, <2>3, <2>8 DEF D, legs, fixed
<1> QED
  BY <1>10, <1>11

(* The legs of an amount add up to it, unless the fixed ones are more than *)
(* it, which is CK-W001 (expand.py, split_legs).                           *)
THEOREM LegsAddUp ==
  ASSUME NEW settlement, IsSplit(settlement), NEW amount \in Int
  PROVE  /\ "CK-W001" \notin SplitNotes(settlement, amount)
               => Sum(GrossLegs(settlement, amount)) = amount
         /\ Sum(GrossLegs(settlement, amount)) = 0 => amount = 0
<1>1. CASE Classify(settlement) = "shares"
  <2>1. GrossLegs(settlement, amount) = ShareLegs(settlement, amount)
    BY <1>1 DEF GrossLegs
  <2> QED
    BY <1>1, <2>1, SharesAddUp
<1>2. CASE Classify(settlement) # "shares"
  <2> DEFINE fixed == TermTotal(settlement, "amount")
             whole == Sum(GrossLegs(settlement, amount))
  <2>1. /\ fixed \in Int
        /\ whole = IF 0 <= amount /\ amount < fixed THEN fixed ELSE amount
    BY <1>2, FixedAddUp DEF GrossLegs
  <2>2. Classify(settlement) = "fixed"
    BY <1>2 DEF IsSplit, Splits
  <2>3. 0 <= amount /\ amount < fixed => "CK-W001" \in SplitNotes(settlement, amount)
    <3>1. SUFFICES ASSUME 0 <= amount, amount < fixed PROVE "CK-W001" \in SplitNotes(settlement, amount)
      OBVIOUS
    <3>2. TermsOf(settlement, "amount") # {}
      <4>1. SUFFICES ASSUME TermsOf(settlement, "amount") = {} PROVE FALSE
        OBVIOUS
      <4>2. fixed = TotalOf(ValuesOf(settlement), {})
        BY <4>1, SplitShape, TermTotalIs
      <4>3. fixed = 0
        BY <4>2, TotalOfNothing
      <4> QED
        BY <3>1, <4>3
    <3>3. ~(amount < 0) /\ amount >= 0
      BY <3>1
    <3>4. SplitNotes(settlement, amount) = {"CK-W001"}
      BY <2>2, <3>1, <3>2, <3>3 DEF SplitNotes
    <3> QED
      BY <3>4
  <2> HIDE DEF fixed, whole
  <2>4. "CK-W001" \notin SplitNotes(settlement, amount) => whole = amount
    BY <2>1, <2>3
  <2>5. whole = 0 => amount = 0
    BY <2>1
  <2> QED
    BY <2>4, <2>5 DEF whole
<1> QED
  BY <1>1, <1>2

(* What is allocated over legs adds up to it, when the legs come to        *)
(* something or there is nothing to allocate (vat.py).                     *)
LEMMA AllocationAddsUp ==
  ASSUME NEW L \in Nat \ {0}, NEW legs, DOMAIN legs = 1 .. L, Len(legs) = L,
         \A k \in 1 .. L : legs[k] \in Int,
         NEW total \in Int, Sum(legs) = 0 => total = 0
  PROVE  /\ DOMAIN Allocate(total, legs) = 1 .. L
         /\ \A k \in 1 .. L : Allocate(total, legs)[k] \in Int
         /\ Sum(Allocate(total, legs)) = total
<1> DEFINE whole == Sum(legs)
           part(k) == RoundDivElementwise(total * legs[k], whole)
           others == [j \in 1 .. (L - 1) |-> part(j)]
           parts == Allocate(total, legs)
<1>1. whole \in Int
  BY SumIsTotal
<1>2. \A k \in 1 .. L : part(k) \in Int /\ (whole = 0 => part(k) = 0)
  <2> TAKE k \in 1 .. L
  <2>1. total * legs[k] \in Int
    OBVIOUS
  <2> QED
    BY <1>1, <2>1, RoundDivIsOdd DEF RoundDivElementwise
<1>3. parts = [k \in 1 .. L |->
                  CASE L = 1 -> total
                    [] L > 1 /\ k < L -> part(k)
                    [] L > 1 /\ k = L -> IF whole = 0 THEN 0 ELSE total - Sum(others)]
  BY DEF Allocate
<1>4. L - 1 \in Nat /\ DOMAIN others = 1 .. (L - 1) /\ L \in 1 .. L
  OBVIOUS
<1>5. \A k \in 1 .. (L - 1) : k \in 1 .. L /\ k < L /\ L > 1 /\ k # L
  OBVIOUS
<1>6. \A k \in 1 .. (L - 1) : others[k] = part(k) /\ others[k] \in Int
  BY <1>2, <1>5
<1>7. DOMAIN parts = 1 .. L
  BY <1>3
<1> HIDE DEF parts, whole, part, others
<1>8. CASE L = 1
  <2>1. parts[1] = total
    BY <1>3, <1>4, <1>8
  <2>2. \A k \in 1 .. L : parts[k] \in Int
    BY <1>8, <2>1
  <2>3. Sum(parts) = TotalOf(parts, 1 .. L)
    BY <1>7, <2>2, SumIsTotal
  <2>4. IsFiniteSet(1 .. L) /\ (1 .. L) \ {1} = {}
    <3>1. (1 .. L) \ {1} = {}
      BY ONLY <1>8
    <3>2. IsFiniteSet(1 .. L)
      BY <1>1, FS_Interval
    <3> QED
      BY <3>1, <3>2
  <2>5. TotalOf(parts, 1 .. L) = parts[1] + TotalOf(parts, {})
    BY <1>4, <1>8, <2>2, <2>4, TotalTakes
  <2>6. Sum(parts) = total
    BY <2>1, <2>3, <2>5, TotalOfNothing
  <2> QED
    BY <1>7, <2>2, <2>6 DEF parts
<1>9. CASE L > 1
  <2>1. /\ \A k \in 1 .. (L - 1) : parts[k] = part(k)
        /\ parts[L] = IF whole = 0 THEN 0 ELSE total - Sum(others)
    BY <1>3, <1>4, <1>5, <1>9
  <2>2. Sum(others) = TotalOf(others, 1 .. (L - 1)) /\ Sum(others) \in Int
    BY <1>4, <1>6, SumIsTotal
  <2>3. whole = 0 => Sum(others) = 0 /\ total = 0
    <3>1. SUFFICES ASSUME whole = 0 PROVE Sum(others) = 0 /\ total = 0
      OBVIOUS
    <3>2. \A k \in 1 .. (L - 1) : others[k] = 0
      BY <1>2, <1>5, <1>6, <3>1
    <3>3. /\ IsFiniteSet(1 .. (L - 1)) /\ {} \in SUBSET (1 .. (L - 1))
          /\ \A k \in 1 .. (L - 1) : others[k] \in Nat
          /\ \A k \in (1 .. (L - 1)) \ {} : others[k] = 0
      <4>1. IsFiniteSet(1 .. (L - 1))
        BY <1>4, FS_Interval
      <4> QED
        BY <3>2, <4>1
    <3>4. TotalOf(others, {}) = TotalOf(others, 1 .. (L - 1))
      BY <3>3, TotalOfPart
    <3>5. total = 0
      BY <3>1 DEF whole
    <3> QED
      BY <2>2, <3>4, <3>5, TotalOfNothing
  <2>4. parts[L] = total - Sum(others)
    BY <2>1, <2>2, <2>3
  <2>5. \A k \in 1 .. (L - 1) : others[k] \in Int /\ parts[k] = others[k]
    BY <1>6, <2>1
  <2>6. Sum(parts) = total
    BY <1>4, <1>7, <2>4, <2>5, LastTakesTheRest
  <2>7. \A k \in 1 .. L : parts[k] \in Int
    <3> TAKE k \in 1 .. L
    <3>1. k \in 1 .. (L - 1) \/ k = L
      OBVIOUS
    <3> QED
      BY <2>2, <2>4, <2>5, <3>1
  <2> QED
    BY <1>7, <2>6, <2>7 DEF parts
<1> QED
  BY <1>8, <1>9

LEMMA LegsAreSequences ==
  ASSUME NEW settlement, IsSplit(settlement), NEW amount \in Int
  PROVE  LET legs == GrossLegs(settlement, amount) IN
         /\ DOMAIN legs = DOMAIN settlement /\ Len(legs) = Len(settlement)
         /\ \A k \in DOMAIN settlement : legs[k] \in Int
<1> DEFINE legs == GrossLegs(settlement, amount)
           L == Len(settlement)
<1>1. L \in Nat \ {0} /\ DOMAIN settlement = 1 .. L
  BY SplitShape
<1>2. /\ DOMAIN legs = DOMAIN settlement
      /\ \A k \in DOMAIN settlement : legs[k] \in Int
  <2>1. CASE Classify(settlement) = "shares"
    BY <2>1, SharesAddUp DEF GrossLegs
  <2>2. CASE Classify(settlement) # "shares"
    BY <2>2, FixedAddUp DEF GrossLegs
  <2> QED
    BY <2>1, <2>2
<1>3. legs = [k \in DOMAIN settlement |-> legs[k]]
  <2>1. ShareLegs(settlement, amount) =
           [k \in DOMAIN settlement |-> ShareLegs(settlement, amount)[k]]
    BY DEF ShareLegs
  <2>2. FixedLegs(settlement, amount) =
           [k \in DOMAIN settlement |-> FixedLegs(settlement, amount)[k]]
    BY DEF FixedLegs
  <2> QED
    BY <2>1, <2>2 DEF GrossLegs
<1> HIDE DEF legs, L
<1>4. legs \in [1 .. L -> Int]
  BY <1>1, <1>2, <1>3
<1>5. legs \in Seq(Int)
  BY <1>1, <1>4, SeqDef
<1>6. Len(legs) = L
  <2>1. Len(legs) \in Nat /\ DOMAIN legs = 1 .. Len(legs)
    BY <1>5, LenProperties
  <2>2. 1 .. Len(legs) = 1 .. L
    BY <1>1, <1>2, <2>1
  <2>3. L \in 1 .. Len(legs)
    BY <1>1, <2>2
  <2> DEFINE M == Len(legs)
  <2>4. M \in Nat /\ M >= L /\ M \in 1 .. M
    BY <1>1, <2>1, <2>3
  <2>5. M \in 1 .. L
    BY <2>2, <2>4
  <2> HIDE DEF M
  <2>6. M = L
    BY <1>1, <2>4, <2>5
  <2> QED
    BY <2>6 DEF M
<1> QED
  BY <1>2, <1>6 DEF legs, L

IsRule(rule) == rule.rate \in Int /\ rule.recoverable \in Int

LEMMA LineVatIsInt ==
  ASSUME NEW rule, IsRule(rule), NEW amount \in Int
  PROVE  \A p \in {"cash", "output", "input"} :
            /\ LineVat(rule, amount)[p] \in Int
            /\ amount = 0 => LineVat(rule, amount)[p] = 0
<1> DEFINE line == MulRate(amount, rule.rate)
           deductible == IF rule.recoverable = RateScale THEN line
                         ELSE MulRate(line, rule.recoverable)
           output == OutputSide(rule, amount)
           reverse == rule.treatment = "reverse_charge"
           v == LineVat(rule, amount)
<1>1. line \in Int /\ (amount = 0 => line = 0)
  BY MulRateIsInt, MulRateOfNothing DEF IsRule
<1> HIDE DEF line
<1>2. deductible \in Int /\ (amount = 0 => deductible = 0)
  BY <1>1, MulRateIsInt, MulRateOfNothing DEF IsRule
<1>3. v = [cash   |-> IF reverse THEN 0 ELSE line,
           output |-> IF reverse = output THEN 0 ELSE IF output THEN line ELSE -line,
           input  |-> IF output THEN 0 ELSE deductible]
  BY DEF LineVat, line
<1> HIDE DEF v, deductible, output, reverse
<1>4. /\ v.cash = IF reverse THEN 0 ELSE line
      /\ v.output = IF reverse = output THEN 0 ELSE IF output THEN line ELSE -line
      /\ v.input = IF output THEN 0 ELSE deductible
  BY <1>3
<1>5. v.cash \in {0, line} /\ v.output \in {0, line, -line} /\ v.input \in {0, deductible}
  BY <1>4
<1>6. -line \in Int /\ (line = 0 => -line = 0)
  <2>1. -line = 0 - line
    BY <1>1
  <2> QED
    BY <1>1, <2>1
<1>7. \A p \in {"cash", "output", "input"} : v[p] \in {0, line, -line, deductible}
  BY <1>5
<1> QED
  BY <1>1, <1>2, <1>6, <1>7 DEF v

(* VAT spread over the legs of its line comes back whole, whatever the     *)
(* settlement, the rates and the rounding: the recognition on the cash     *)
(* and the one on the invoice are the same, to the minor unit (vat.py).    *)
THEOREM VatIsSpreadWhole ==
  ASSUME NEW settlement, IsSplit(settlement), NEW rule, IsRule(rule), NEW amount \in Int,
         NEW p \in {"cash", "output", "input"}
  PROVE  LET vat == LineVat(rule, amount)[p]
             parts == Allocate(vat, GrossLegs(settlement, amount))
         IN /\ DOMAIN parts = DOMAIN settlement
            /\ \A k \in DOMAIN settlement : parts[k] \in Int
            /\ Sum(parts) = vat
<1> DEFINE vat == LineVat(rule, amount)[p]
           legs == GrossLegs(settlement, amount)
           L == Len(settlement)
<1>1. vat \in Int /\ (amount = 0 => vat = 0)
  BY LineVatIsInt
<1>2. L \in Nat \ {0} /\ DOMAIN settlement = 1 .. L
  BY SplitShape
<1>3. DOMAIN legs = 1 .. L /\ Len(legs) = L /\ \A k \in 1 .. L : legs[k] \in Int
  BY <1>2, LegsAreSequences
<1>4. Sum(legs) = 0 => vat = 0
  BY <1>1, LegsAddUp
<1> HIDE DEF vat, legs, L
<1>5. /\ DOMAIN Allocate(vat, legs) = 1 .. L
      /\ \A k \in 1 .. L : Allocate(vat, legs)[k] \in Int
      /\ Sum(Allocate(vat, legs)) = vat
  BY <1>1, <1>2, <1>3, <1>4, AllocationAddsUp
<1> QED
  BY <1>2, <1>5 DEF vat, legs

-----------------------------------------------------------------------------
(* Postings: what a column's total moves by.                               *)
AreColumns(columns) ==
    /\ DOMAIN columns = Columns
    /\ \A c \in Columns : DOMAIN columns[c] = Days /\ \A t \in Days : columns[c][t] \in Int
IsPosting(p) == p.column \in Columns /\ p.day \in Days \cup {Outside} /\ p.amount \in Int
Postings == [column : Columns, day : Days \cup {Outside}, amount : Int]
ArePostings(postings) == postings \in Seq(Postings)

Landed(p, c) == IF p.column = c /\ p.day # Outside THEN p.amount ELSE 0
LandedIn(postings, c) == [k \in DOMAIN postings |-> Landed(postings[k], c)]
Landing(postings, c) == TotalOf(LandedIn(postings, c), DOMAIN postings)

LEMMA DaysAreFinite == IsFiniteSet(Days) /\ Days \subseteq Int
BY HorizonAssumption, FS_Interval DEF Days

LEMMA PostingShape ==
  ASSUME NEW postings, ArePostings(postings)
  PROVE  /\ Len(postings) \in Nat /\ DOMAIN postings = 1 .. Len(postings)
         /\ \A k \in DOMAIN postings : IsPosting(postings[k])
<1>1. Len(postings) \in Nat /\ DOMAIN postings = 1 .. Len(postings)
  BY LenProperties DEF ArePostings
<1>2. \A k \in 1 .. Len(postings) : postings[k] \in Postings
  BY ElementOfSeq DEF ArePostings
<1> QED
  BY <1>1, <1>2 DEF IsPosting, Postings

LEMMA PostMoves ==
  ASSUME NEW columns, AreColumns(columns), NEW p, IsPosting(p)
  PROVE  /\ AreColumns(Post(columns, p))
         /\ \A c \in Columns : TotalOf(Post(columns, p)[c], Days)
                                  = TotalOf(columns[c], Days) + Landed(p, c)
<1> DEFINE after == Post(columns, p)
<1>1. CASE p.day = Outside
  <2>1. after = columns /\ \A c \in Columns : Landed(p, c) = 0
    BY <1>1 DEF Post, Landed
  <2>2. \A c \in Columns : TotalOf(columns[c], Days) \in Int
    BY DaysAreFinite, TotalIsInt DEF AreColumns
  <2> QED
    BY <2>1, <2>2
<1>2. CASE p.day # Outside
  <2>1. p.day \in Days /\ p.column \in Columns /\ p.amount \in Int
    BY <1>2 DEF IsPosting
  <2>2. after = [columns EXCEPT ![p.column][p.day] = @ + p.amount]
    BY <1>2 DEF Post
  <2>3. /\ DOMAIN after = Columns
        /\ \A c \in Columns : DOMAIN after[c] = Days
        /\ \A c \in Columns : c # p.column => after[c] = columns[c]
        /\ after[p.column][p.day] = columns[p.column][p.day] + p.amount
        /\ \A t \in Days \ {p.day} : after[p.column][t] = columns[p.column][t]
    BY <2>1, <2>2 DEF AreColumns
  <2> HIDE DEF after
  <2>4. \A c \in Columns : \A t \in Days : columns[c][t] \in Int
    BY DEF AreColumns
  <2>5. AreColumns(after)
    <3>1. \A t \in Days : after[p.column][t] \in Int
      BY <2>1, <2>3, <2>4
    <3> QED
      BY <2>3, <2>4, <3>1 DEF AreColumns
  <2>6. ASSUME NEW c \in Columns
        PROVE  TotalOf(after[c], Days) = TotalOf(columns[c], Days) + Landed(p, c)
    <3>1. TotalOf(columns[c], Days) \in Int
      BY <2>4, DaysAreFinite, TotalIsInt
    <3>2. CASE c # p.column
      BY <2>3, <3>1, <3>2 DEF Landed
    <3>3. CASE c = p.column
      <4> DEFINE f == columns[c]
                 g == after[c]
      <4>1. /\ \A t \in Days : f[t] \in Int /\ g[t] \in Int
            /\ \A t \in Days \ {p.day} : g[t] = f[t]
            /\ g[p.day] = f[p.day] + p.amount
        BY <2>3, <2>4, <2>5, <3>3 DEF AreColumns
      <4>2. Landed(p, c) = p.amount
        BY <1>2, <3>3 DEF Landed
      <4>3. f[p.day] \in Int
        BY <2>1, <4>1
      <4> HIDE DEF f, g
      <4>4. TotalOf(g, Days) = TotalOf(f, Days) - f[p.day] + g[p.day]
        <5> DEFINE x == p.day
        <5>1. x \in Days /\ IsFiniteSet(Days)
          BY <2>1, DaysAreFinite
        <5>2. /\ \A t \in Days : f[t] \in Int /\ g[t] \in Int
              /\ \A t \in Days \ {x} : g[t] = f[t]
          BY <4>1
        <5> HIDE DEF x
        <5>3. TotalOf(g, Days) = TotalOf(f, Days) - f[x] + g[x]
          BY ONLY <5>1, <5>2, TotalMoves
        <5> QED
          BY <5>3 DEF x
      <4>5. TotalOf(f, Days) \in Int
        BY <4>1, DaysAreFinite, TotalIsInt
      <4>6. TotalOf(g, Days) = TotalOf(f, Days) + p.amount
        BY <2>1, <4>1, <4>3, <4>4, <4>5
      <4> QED
        BY <4>2, <4>6 DEF f, g
    <3> QED
      BY <3>2, <3>3
  <2> QED
    BY <2>5, <2>6 DEF after
<1> QED
  BY <1>1, <1>2

LEMMA PostedMoves ==
  ASSUME NEW columns, AreColumns(columns), NEW postings, ArePostings(postings)
  PROVE  /\ AreColumns(Posted(columns, postings))
         /\ \A c \in Columns : TotalOf(Posted(columns, postings)[c], Days)
                                  = TotalOf(columns[c], Days) + Landing(postings, c)
<1> DEFINE L == Len(postings)
<1>1. L \in Nat /\ DOMAIN postings = 1 .. L
  BY PostingShape
<1> HIDE DEF L
<1>2. PICK R : PostedRun(R, columns, postings, L)
  BY <1>1, PostedRuns
<1> DEFINE Partial(n, c) == TotalOf(LandedIn(postings, c), 1 .. n)
           Good(n) == /\ AreColumns(R[n])
                      /\ \A c \in Columns : TotalOf(R[n][c], Days)
                                               = TotalOf(columns[c], Days) + Partial(n, c)
           Bad == {n \in 0 .. L : ~Good(n)}
<1>3. \A c \in Columns : TotalOf(columns[c], Days) \in Int
  BY DaysAreFinite, TotalIsInt DEF AreColumns
<1>4. \A c : \A k \in 1 .. L : LandedIn(postings, c)[k] = Landed(postings[k], c)
                               /\ LandedIn(postings, c)[k] \in Int
  BY <1>1, PostingShape DEF LandedIn, Landed, IsPosting
<1>5. 0 \notin Bad
  <2>1. R[0] = columns
    BY <1>2 DEF PostedRun
  <2>2. \A c : Partial(0, c) = 0
    <3>1. (1 .. 0) = {}
      OBVIOUS
    <3> QED
      BY <3>1, TotalOfNothing
  <2> HIDE DEF Partial
  <2> QED
    BY <1>3, <2>1, <2>2
<1>6. ASSUME NEW n \in 1 .. L, n - 1 \notin Bad PROVE n \notin Bad
  <2>1. n - 1 \in 0 .. L /\ n - 1 \in Nat /\ n \in Nat
    BY <1>1
  <2>2. Good(n - 1)
    BY <1>6, <2>1
  <2>3. R[n] = Post(R[n - 1], postings[n]) /\ IsPosting(postings[n])
    BY <1>1, <1>2, PostingShape DEF PostedRun
  <2>4. /\ AreColumns(R[n])
        /\ \A c \in Columns : TotalOf(R[n][c], Days)
                                 = TotalOf(R[n - 1][c], Days) + Landed(postings[n], c)
    <3> DEFINE before == R[n - 1]
               p == postings[n]
    <3>1. AreColumns(before) /\ IsPosting(p)
      BY <2>2, <2>3
    <3> HIDE DEF before, p, Good, Bad
    <3>2. AreColumns(Post(before, p))
      BY <3>1, PostMoves
    <3>3. \A c \in Columns : TotalOf(Post(before, p)[c], Days)
                                 = TotalOf(before[c], Days) + Landed(p, c)
      BY <3>1, PostMoves
    <3> QED
      BY <2>3, <3>2, <3>3 DEF before, p
  <2>5. \A c : Partial(n, c) = Landed(postings[n], c) + Partial(n - 1, c)
               /\ Partial(n - 1, c) \in Int
    <3> TAKE c
    <3> DEFINE f == LandedIn(postings, c)
    <3>1. \A k \in 1 .. n : f[k] \in Int
      BY <1>1, <1>4
    <3>2. f[n] = Landed(postings[n], c)
      BY <1>4
    <3>3. (1 .. n) \ {n} = 1 .. (n - 1)
      BY ONLY n \in 1 .. L
    <3>4. IsFiniteSet(1 .. n) /\ IsFiniteSet(1 .. (n - 1)) /\ n \in 1 .. n
      <4>1. IsFiniteSet(1 .. n) /\ IsFiniteSet(1 .. (n - 1))
        BY <2>1, FS_Interval
      <4> QED
        BY <4>1
    <3> HIDE DEF f
    <3>5. TotalOf(f, 1 .. n) = f[n] + TotalOf(f, 1 .. (n - 1))
      BY <3>1, <3>3, <3>4, TotalTakes
    <3>6. TotalOf(f, 1 .. (n - 1)) \in Int
      <4>1. \A k \in 1 .. (n - 1) : f[k] \in Int
        BY <3>1, <3>3
      <4> QED
        BY <3>4, <4>1, TotalIsInt
    <3> QED
      BY <3>2, <3>5, <3>6 DEF f
  <2>6. \A c : Landed(postings[n], c) \in Int
    BY <1>4
  <2> HIDE DEF Partial
  <2>7. \A c \in Columns : TotalOf(R[n][c], Days) = TotalOf(columns[c], Days) + Partial(n, c)
    <3> TAKE c \in Columns
    <3>1. TotalOf(R[n - 1][c], Days) = TotalOf(columns[c], Days) + Partial(n - 1, c)
      BY <2>2
    <3> QED
      BY <1>3, <2>4, <2>5, <2>6, <3>1
  <2> QED
    BY <2>4, <2>7
<1>7. L \notin Bad
  <2> HIDE DEF Good
  <2>1. SUFFICES ASSUME Bad # {} PROVE FALSE
    OBVIOUS
  <2>2. Bad \subseteq Nat
    OBVIOUS
  <2>3. PICK m \in Bad : \A n \in Bad : m <= n
    <3> HIDE DEF Bad
    <3> QED
      BY <2>1, <2>2, LeastNatural
  <2>4. m \in 0 .. L
    OBVIOUS
  <2> HIDE DEF Bad
  <2>5. m \in 1 .. L /\ m - 1 \notin Bad
    BY <1>5, <2>3, <2>4
  <2> QED
    BY <1>6, <2>3, <2>5
<1>8. Good(L)
  <2> HIDE DEF Good
  <2>1. L \in 0 .. L
    BY <1>1
  <2> QED
    BY <1>7, <2>1
<1>9. R[L] = Posted(columns, postings)
  BY <1>2 DEF PostedRun
<1> QED
  BY <1>1, <1>8, <1>9 DEF Landing

LEMMA LandingIsInt ==
  ASSUME NEW postings, ArePostings(postings), NEW c
  PROVE  /\ Landing(postings, c) \in Int
         /\ \A k \in DOMAIN postings : LandedIn(postings, c)[k] = Landed(postings[k], c)
                                       /\ LandedIn(postings, c)[k] \in Int
<1>1. \A k \in DOMAIN postings : LandedIn(postings, c)[k] = Landed(postings[k], c)
                                 /\ LandedIn(postings, c)[k] \in Int
  BY PostingShape DEF LandedIn, Landed, IsPosting
<1>2. IsFiniteSet(DOMAIN postings)
  BY PostingShape, FS_Interval
<1> QED
  BY <1>1, <1>2, TotalIsInt DEF Landing

(* What two sequences land is what the one after the other lands.          *)
LEMMA LandingsAdd ==
  ASSUME NEW s, NEW t, ArePostings(s), ArePostings(t)
  PROVE  /\ ArePostings(s \o t)
         /\ \A c : Landing(s \o t, c) = Landing(s, c) + Landing(t, c)
<1> DEFINE m == Len(s)
           n == Len(t)
           u == s \o t
<1>1. /\ u \in Seq(Postings) /\ Len(u) = m + n
      /\ \A k \in 1 .. (m + n) : u[k] = IF k <= m THEN s[k] ELSE t[k - m]
  BY ConcatProperties DEF ArePostings
<1>2. /\ m \in Nat /\ DOMAIN s = 1 .. m
      /\ n \in Nat /\ DOMAIN t = 1 .. n
  BY PostingShape
<1>3. ArePostings(u) /\ DOMAIN u = 1 .. (m + n)
  BY <1>1, PostingShape DEF ArePostings
<1> HIDE DEF m, n, u
<1>4. ASSUME NEW c PROVE Landing(u, c) = Landing(s, c) + Landing(t, c)
  <2> DEFINE f == LandedIn(u, c)
             g == LandedIn(s, c)
             h == LandedIn(t, c)
             Bad == {k \in 0 .. n : TotalOf(f, 1 .. (m + k))
                                        # TotalOf(g, 1 .. m) + TotalOf(h, 1 .. k)}
  <2>1. /\ \A k \in 1 .. m : g[k] = Landed(s[k], c) /\ g[k] \in Int
        /\ \A k \in 1 .. n : h[k] = Landed(t[k], c) /\ h[k] \in Int
        /\ \A k \in 1 .. (m + n) : f[k] = Landed(u[k], c) /\ f[k] \in Int
    BY <1>2, <1>3, LandingIsInt
  <2>2. \A k \in 1 .. m : k \in 1 .. (m + n) /\ u[k] = s[k]
    BY <1>1, <1>2
  <2>3. \A k \in 1 .. n : m + k \in 1 .. (m + n) /\ u[m + k] = t[k]
    <3> TAKE k \in 1 .. n
    <3>1. m + k \in 1 .. (m + n) /\ ~(m + k <= m) /\ (m + k) - m = k
      BY <1>2
    <3> QED
      BY <1>1, <3>1
  <2>4. /\ \A k \in 1 .. m : f[k] = g[k]
        /\ \A k \in 1 .. n : f[m + k] = h[k]
    BY <2>1, <2>2, <2>3
  <2> HIDE DEF f, g, h
  <2>5. IsFiniteSet(1 .. m) /\ TotalOf(g, 1 .. m) \in Int
    <3>1. IsFiniteSet(1 .. m)
      BY <1>2, FS_Interval
    <3> QED
      BY <2>1, <3>1, TotalIsInt
  <2>6. 0 \notin Bad
    <3>1. (1 .. 0) = {} /\ m + 0 = m
      BY <1>2
    <3>2. TotalOf(g, 1 .. m) = TotalOf(f, 1 .. m)
      BY <2>1, <2>4, <2>5, TotalsAgreeing
    <3>3. TotalOf(h, 1 .. 0) = 0
      BY <3>1, TotalOfNothing
    <3> QED
      BY <2>5, <3>1, <3>2, <3>3
  <2>7. ASSUME NEW k \in 1 .. n, k - 1 \notin Bad PROVE k \notin Bad
    <3> DEFINE x == m + k
    <3>1. k \in Nat /\ k - 1 \in Nat /\ k - 1 \in 0 .. n /\ x \in Nat /\ m + (k - 1) = x - 1
      BY <1>2
    <3>2. IsFiniteSet(1 .. x) /\ IsFiniteSet(1 .. k) /\ IsFiniteSet(1 .. (k - 1))
      BY <3>1, FS_Interval
    <3>3. x \in 1 .. x /\ k \in 1 .. k
      BY <1>2
    <3>4. (1 .. x) \ {x} = 1 .. (x - 1)
      <4>1. x \in Nat
        BY <3>1
      <4> HIDE DEF x
      <4> QED
        BY ONLY <4>1
    <3>5. (1 .. k) \ {k} = 1 .. (k - 1)
      BY ONLY <3>1
    <3>6. \A j \in 1 .. x : f[j] \in Int
      <4> TAKE j \in 1 .. x
      <4>1. j \in 1 .. (m + n)
        BY <1>2
      <4> QED
        BY <2>1, <4>1
    <3>7. \A j \in 1 .. k : h[j] \in Int
      BY <1>2, <2>1
    <3>8. f[x] = h[k]
      BY <2>4
    <3> HIDE DEF x
    <3>9. TotalOf(f, 1 .. x) = f[x] + TotalOf(f, 1 .. (x - 1))
      BY <3>2, <3>3, <3>4, <3>6, TotalTakes
    <3>10. TotalOf(h, 1 .. k) = h[k] + TotalOf(h, 1 .. (k - 1))
      BY <3>2, <3>3, <3>5, <3>7, TotalTakes
    <3>11. TotalOf(f, 1 .. (x - 1)) = TotalOf(g, 1 .. m) + TotalOf(h, 1 .. (k - 1))
      BY <2>7, <3>1
    <3>12. TotalOf(h, 1 .. (k - 1)) \in Int /\ h[k] \in Int
      <4>1. \A j \in 1 .. (k - 1) : h[j] \in Int
        BY <3>5, <3>7
      <4>2. TotalOf(h, 1 .. (k - 1)) \in Int
        BY <3>2, <4>1, TotalIsInt
      <4> QED
        BY <3>3, <3>7, <4>2
    <3>13. TotalOf(f, 1 .. x) = TotalOf(g, 1 .. m) + TotalOf(h, 1 .. k)
      BY <2>5, <3>8, <3>9, <3>10, <3>11, <3>12
    <3> QED
      BY <3>13 DEF x
  <2>8. n \notin Bad
    <3>1. SUFFICES ASSUME Bad # {} PROVE FALSE
      OBVIOUS
    <3>2. Bad \subseteq Nat
      OBVIOUS
    <3>3. PICK y \in Bad : \A z \in Bad : y <= z
      <4> HIDE DEF Bad
      <4> QED
        BY <3>1, <3>2, LeastNatural
    <3>4. y \in 0 .. n
      OBVIOUS
    <3> HIDE DEF Bad
    <3>5. y \in 1 .. n /\ y - 1 \notin Bad
      BY <2>6, <3>3, <3>4
    <3> QED
      BY <2>7, <3>3, <3>5
  <2>9. TotalOf(f, 1 .. (m + n)) = TotalOf(g, 1 .. m) + TotalOf(h, 1 .. n)
    <3>1. n \in 0 .. n
      BY <1>2
    <3> QED
      BY <2>8, <3>1
  <2> QED
    BY <1>2, <1>3, <2>9 DEF Landing, f, g, h
<1> QED
  BY <1>3, <1>4 DEF u

(* Postings that move one column, by so much.                              *)
LandsOnly(postings, column, total) ==
    /\ ArePostings(postings)
    /\ \A c : Landing(postings, c) = IF c = column THEN total ELSE 0

(* A sequence of parts, each on a day of the horizon, lands whole.         *)
LEMMA PartsLand ==
  ASSUME NEW L \in Nat, NEW parts, DOMAIN parts = 1 .. L, \A k \in 1 .. L : parts[k] \in Int,
         NEW target, \A k \in 1 .. L : target[k] \in Days,
         NEW column \in Columns, NEW postings,
         postings = [k \in 1 .. L |-> Posting(column, target[k], parts[k])]
  PROVE  LandsOnly(postings, column, Sum(parts))
<1>1. \A k \in 1 .. L : /\ postings[k] \in Postings
                        /\ postings[k].column = column /\ postings[k].day # Outside
                        /\ postings[k].amount = parts[k]
  <2> TAKE k \in 1 .. L
  <2>1. postings[k] = [column |-> column, day |-> target[k], amount |-> parts[k]]
    BY DEF Posting
  <2>2. target[k] \in Days /\ parts[k] \in Int
    OBVIOUS
  <2>3. target[k] # Outside
    BY <2>2 DEF Days, Outside
  <2> QED
    BY <2>1, <2>2, <2>3 DEF Postings
<1>2. postings \in [1 .. L -> Postings]
  BY <1>1
<1>3. ArePostings(postings)
  BY <1>2, SeqDef DEF ArePostings
<1>4. DOMAIN postings = 1 .. L /\ IsFiniteSet(1 .. L)
  BY <1>2, FS_Interval
<1>5. Sum(parts) = TotalOf(parts, 1 .. L)
  BY SumIsTotal
<1>6. ASSUME NEW c PROVE Landing(postings, c) = IF c = column THEN Sum(parts) ELSE 0
  <2> DEFINE f == LandedIn(postings, c)
  <2>1. \A k \in 1 .. L : f[k] = IF c = column THEN parts[k] ELSE 0
    BY <1>1, <1>4 DEF LandedIn, Landed
  <2> HIDE DEF f
  <2>2. CASE c = column
    <3>1. TotalOf(parts, 1 .. L) = TotalOf(f, 1 .. L)
      BY <1>4, <2>1, <2>2, TotalsAgreeing
    <3> QED
      BY <1>4, <1>5, <2>2, <3>1 DEF Landing, f
  <2>3. CASE c # column
    <3>1. \A k \in 1 .. L : f[k] \in Nat /\ f[k] = 0
      BY <2>1, <2>3
    <3>2. {} \in SUBSET (1 .. L) /\ \A k \in (1 .. L) \ {} : f[k] = 0
      BY <3>1
    <3>3. TotalOf(f, {}) = TotalOf(f, 1 .. L)
      BY <1>4, <3>1, <3>2, TotalOfPart
    <3> QED
      BY <1>4, <2>3, <3>3, TotalOfNothing DEF Landing, f
  <2> QED
    BY <2>2, <2>3
<1> QED
  BY <1>3, <1>6 DEF LandsOnly

LEMMA OneLands ==
  ASSUME NEW column \in Columns, NEW day \in Days, NEW amount \in Int
  PROVE  LandsOnly(<<Posting(column, day, amount)>>, column, amount)
<1> DEFINE parts == [k \in 1 .. 1 |-> amount]
           target == [k \in 1 .. 1 |-> day]
           postings == <<Posting(column, day, amount)>>
<1>1. postings = [k \in 1 .. 1 |-> Posting(column, target[k], parts[k])]
  <2>1. \A x : <<x>> = [k \in 1 .. 1 |-> x]
    BY Z3
  <2>2. postings = [k \in 1 .. 1 |-> Posting(column, day, amount)]
    BY <2>1
  <2> QED
    BY <2>2
<1>2. Sum(parts) = amount
  <2>1. /\ DOMAIN parts = 1 .. 1 /\ 1 \in 1 .. 1 /\ (1 .. 1) \ {1} = {}
        /\ \A k \in 1 .. 1 : parts[k] \in Int
        /\ parts[1] = amount
    OBVIOUS
  <2>2. IsFiniteSet(1 .. 1)
    <3>1. 1 .. 1 = {1}
      OBVIOUS
    <3> QED
      BY <3>1, FS_Singleton
  <2> HIDE DEF parts
  <2>3. Sum(parts) = TotalOf(parts, 1 .. 1)
    BY <2>1, SumIsTotal
  <2>4. TotalOf(parts, 1 .. 1) = parts[1] + TotalOf(parts, {})
    BY <2>1, <2>2, TotalTakes
  <2> QED
    BY <2>1, <2>3, <2>4, TotalOfNothing
<1>3. /\ DOMAIN parts = 1 .. 1 /\ \A k \in 1 .. 1 : parts[k] \in Int
      /\ \A k \in 1 .. 1 : target[k] \in Days
  OBVIOUS
<1> HIDE DEF parts, target, postings
<1>4. LandsOnly(postings, column, Sum(parts))
  <2>1. PICK L \in Nat : L = 1
    OBVIOUS
  <2>2. /\ DOMAIN parts = 1 .. L /\ \A k \in 1 .. L : parts[k] \in Int
        /\ \A k \in 1 .. L : target[k] \in Days
        /\ postings = [k \in 1 .. L |-> Posting(column, target[k], parts[k])]
    BY <1>1, <1>3, <2>1
  <2> QED
    BY ONLY <2>2, PartsLand, column \in Columns, L \in Nat
<1> QED
  BY <1>2, <1>4 DEF postings

-----------------------------------------------------------------------------
(* A line that lands in the horizon: paid on its day, or split into legs   *)
(* that each fall on a day of it.                                          *)
LandsIn(settlement, kind, day) ==
    /\ day \in Days
    /\ \/ kind = "immediate"
       \/ /\ kind = Classify(settlement)
          /\ IsSplit(settlement)
          /\ \A k \in DOMAIN settlement :
                /\ LegTarget(settlement[k], day) # Outside
                /\ settlement[k].withholding \in Int

(* Nothing withheld, and fixed legs within the amount.                     *)
PaidInFull(settlement, kind, amount) ==
    \/ kind = "immediate"
    \/ /\ \A k \in DOMAIN settlement : settlement[k].withholding = 0
       /\ "CK-W001" \notin SplitNotes(settlement, amount)

LEMMA TargetsLand ==
  ASSUME NEW settlement, NEW kind, NEW day, LandsIn(settlement, kind, day), kind # "immediate"
  PROVE  /\ IsSplit(settlement) /\ kind = Classify(settlement) /\ Splits(kind)
         /\ kind \notin {"never", "invalid"}
         /\ \A k \in DOMAIN settlement : /\ LegDays(settlement, day)[k] \in Days
                                          /\ settlement[k].withholding \in Int
<1>1. IsSplit(settlement) /\ kind = Classify(settlement) /\ Splits(kind)
  BY DEF LandsIn, IsSplit
<1>2. kind \notin {"never", "invalid"}
  BY <1>1 DEF Splits
<1>3. ASSUME NEW k \in DOMAIN settlement
      PROVE  LegDays(settlement, day)[k] \in Days /\ settlement[k].withholding \in Int
  <2>1. LegDays(settlement, day)[k] = LegTarget(settlement[k], day)
    BY DEF LegDays
  <2>2. LegTarget(settlement[k], day) # Outside /\ settlement[k].withholding \in Int
    BY DEF LandsIn
  <2>3. \A d : DayOf(d) \in Days \cup {Outside}
    BY DEF DayOf
  <2>4. LegTarget(settlement[k], day) \in Days \cup {Outside}
    BY <2>3 DEF LegTarget
  <2> QED
    BY <2>1, <2>2, <2>4
<1> QED
  BY <1>1, <1>2, <1>3

(* The VAT recognised on cash lands whole.                                 *)
LEMMA VatOnCashLands ==
  ASSUME NEW settlement, NEW kind, NEW day, LandsIn(settlement, kind, day),
         NEW rule, IsRule(rule), NEW amount \in Int,
         NEW p \in {"cash", "output", "input"}, NEW column \in Columns
  PROVE  LandsOnly(VatOnCash(settlement, kind, day, amount, column, LineVat(rule, amount)[p]),
                   column, LineVat(rule, amount)[p])
<1> DEFINE vat == LineVat(rule, amount)[p]
           postings == VatOnCash(settlement, kind, day, amount, column, vat)
<1>1. vat \in Int /\ day \in Days
  BY LineVatIsInt DEF LandsIn
<1>2. CASE kind = "immediate"
  <2>1. postings = <<Posting(column, day, vat)>>
    BY <1>2 DEF VatOnCash, Splits
  <2> HIDE DEF vat, postings
  <2>2. LandsOnly(<<Posting(column, day, vat)>>, column, vat)
    BY <1>1, OneLands
  <2> QED
    BY <2>1, <2>2 DEF vat, postings
<1>3. CASE kind # "immediate"
  <2> DEFINE parts == Allocate(vat, GrossLegs(settlement, amount))
             target == LegDays(settlement, day)
             L == Len(settlement)
  <2>1. /\ IsSplit(settlement) /\ Splits(kind) /\ kind \notin {"never", "invalid"}
        /\ \A k \in DOMAIN settlement : target[k] \in Days
    BY <1>3, TargetsLand
  <2>2. L \in Nat /\ DOMAIN settlement = 1 .. L
    BY <2>1, SplitShape
  <2>3. /\ DOMAIN parts = DOMAIN settlement
        /\ \A k \in DOMAIN settlement : parts[k] \in Int
        /\ Sum(parts) = vat
    BY <2>1, VatIsSpreadWhole
  <2>4. postings = [k \in DOMAIN parts |-> Posting(column, target[k], parts[k])]
    BY <1>3, <2>1 DEF VatOnCash
  <2> HIDE DEF parts, target, L, postings, vat
  <2>5. LandsOnly(postings, column, Sum(parts))
    <3>1. /\ DOMAIN parts = 1 .. L /\ \A k \in 1 .. L : parts[k] \in Int
          /\ \A k \in 1 .. L : target[k] \in Days
          /\ postings = [k \in 1 .. L |-> Posting(column, target[k], parts[k])]
      BY <2>1, <2>2, <2>3, <2>4
    <3> QED
      BY ONLY <2>2, <3>1, PartsLand, column \in Columns
  <2> QED
    BY <2>3, <2>5 DEF postings, vat
<1> QED
  BY <1>2, <1>3

(* A rate of zero takes nothing.                                           *)
LEMMA NothingWithheld == \A amount \in Int : MulRate(amount, 0) = 0
<1> TAKE amount \in Int
<1>1. amount * 0 = 0 /\ RateScale \in Int \ {0}
  BY RateScaleAssumption
<1>2. 0 * 1 = 0
  OBVIOUS
<1>3. MulRate(amount, 0) = RoundDiv(0, RateScale)
  BY <1>1 DEF MulRate
<1>4. MulRate(0, 1) = RoundDiv(0, RateScale)
  BY <1>2 DEF MulRate
<1>5. PICK n \in Int : n = 0
  OBVIOUS
<1>6. MulRate(n, 1) = 0
  BY <1>5, MulRateOfNothing
<1> QED
  BY <1>3, <1>4, <1>5, <1>6

(* The cash of a line moves no column but cash, and by the whole amount    *)
(* when it is paid in full.                                                *)
LEMMA CashMoves ==
  ASSUME NEW settlement, NEW kind, NEW day, LandsIn(settlement, kind, day),
         NEW amount \in Int
  PROVE  LET postings == CashPostings(settlement, kind, day, amount) IN
         /\ ArePostings(postings)
         /\ \A c \in Columns \ {"cash"} : Landing(postings, c) = 0
         /\ PaidInFull(settlement, kind, amount) => Landing(postings, "cash") = amount
<1> DEFINE postings == CashPostings(settlement, kind, day, amount)
<1>1. day \in Days /\ "cash" \in Columns
  BY DEF LandsIn, Columns
<1>2. CASE kind = "immediate"
  <2>1. postings = <<Posting("cash", day, amount)>>
    BY <1>2 DEF CashPostings, Splits
  <2> HIDE DEF postings
  <2>2. LandsOnly(postings, "cash", amount)
    BY <1>1, <2>1, OneLands
  <2> QED
    BY <2>2 DEF LandsOnly, postings
<1>3. CASE kind # "immediate"
  <2> DEFINE gross == GrossLegs(settlement, amount)
             net == NetLegs(settlement, amount)
             target == LegDays(settlement, day)
             L == Len(settlement)
  <2>1. /\ IsSplit(settlement) /\ Splits(kind) /\ kind \notin {"never", "invalid"}
        /\ \A k \in DOMAIN settlement : target[k] \in Days /\ settlement[k].withholding \in Int
    BY <1>3, TargetsLand
  <2>2. L \in Nat \ {0} /\ DOMAIN settlement = 1 .. L
    BY <2>1, SplitShape
  <2>3. DOMAIN gross = DOMAIN settlement /\ \A k \in DOMAIN settlement : gross[k] \in Int
    BY <2>1, LegsAreSequences
  <2>4. PaidInFull(settlement, kind, amount) =>
           /\ \A k \in DOMAIN settlement : settlement[k].withholding = 0
           /\ Sum(gross) = amount
    BY <1>3, <2>1, LegsAddUp DEF PaidInFull
  <2>6. postings = [k \in DOMAIN net |-> Posting("cash", target[k], net[k])]
    BY <1>3, <2>1 DEF CashPostings
  <2>7. net = [k \in DOMAIN gross |-> gross[k] - MulRate(gross[k], settlement[k].withholding)]
    BY DEF NetLegs
  <2> HIDE DEF gross, net, target, L, postings
  <2>8. /\ DOMAIN net = 1 .. L
        /\ \A k \in 1 .. L : net[k] \in Int
    <3>1. ASSUME NEW k \in 1 .. L PROVE net[k] \in Int
      <4>1. MulRate(gross[k], settlement[k].withholding) \in Int /\ gross[k] \in Int
        BY <2>2, <2>3, <2>1, MulRateIsInt
      <4> QED
        BY <2>2, <2>3, <2>7, <4>1
    <3> QED
      BY <2>2, <2>3, <2>7, <3>1
  <2>9. PaidInFull(settlement, kind, amount) => Sum(net) = amount
    <3> SUFFICES ASSUME PaidInFull(settlement, kind, amount) PROVE Sum(net) = amount
      OBVIOUS
    <3>1. Sum(net) = TotalOf(net, 1 .. L)
      BY <2>2, <2>8, SumIsTotal
    <3>2. Sum(gross) = TotalOf(gross, 1 .. L)
      BY <2>2, <2>3, SumIsTotal
    <3>3. IsFiniteSet(1 .. L)
      BY <2>2, FS_Interval
    <3>4. ASSUME NEW k \in 1 .. L PROVE net[k] = gross[k]
      <4>1. MulRate(gross[k], 0) = 0 /\ gross[k] \in Int
        BY <2>2, <2>3, NothingWithheld
      <4> QED
        BY <2>2, <2>3, <2>4, <2>7, <4>1
    <3>6. \A k \in 1 .. L : gross[k] \in Int /\ net[k] = gross[k]
      BY <2>2, <2>3, <3>4
    <3>5. TotalOf(net, 1 .. L) = TotalOf(gross, 1 .. L)
      BY <3>3, <3>6, TotalsAgreeing
    <3> QED
      BY <2>4, <3>1, <3>2, <3>5
  <2>10. LandsOnly(postings, "cash", Sum(net))
    <3>1. /\ L \in Nat
          /\ DOMAIN net = 1 .. L /\ \A k \in 1 .. L : net[k] \in Int
          /\ \A k \in 1 .. L : target[k] \in Days
          /\ postings = [k \in 1 .. L |-> Posting("cash", target[k], net[k])]
      BY <2>1, <2>2, <2>6, <2>8
    <3> QED
      BY ONLY <1>1, <3>1, PartsLand
  <2> QED
    BY <2>9, <2>10 DEF LandsOnly, postings
<1> QED
  BY <1>2, <1>3

(* The VAT of a line that has some: on the invoice, and on the cash.       *)
LEMMA VatLands ==
  ASSUME NEW settlement, NEW kind, NEW day, LandsIn(settlement, kind, day),
         NEW rule, IsRule(rule), ~Inert(rule), NEW amount \in Int
  PROVE  LET postings == VatPostings(settlement, kind, rule, day, amount)
             vat == LineVat(rule, amount)
         IN /\ ArePostings(postings)
            /\ Landing(postings, "outputAccrual") = vat.output
            /\ Landing(postings, "outputCash") = vat.output
            /\ Landing(postings, "inputAccrual") = vat.input
            /\ Landing(postings, "inputCash") = vat.input
            /\ Landing(postings, "cash") = vat.cash
            /\ Landing(postings, "accrual") = 0
<1> DEFINE vat == LineVat(rule, amount)
           o == vat.output
           i == vat.input
           m == vat.cash
           a == <<Posting("outputAccrual", day, o)>>
           b == <<Posting("inputAccrual", day, i)>>
           c == VatOnCash(settlement, kind, day, amount, "cash", m)
           d == VatOnCash(settlement, kind, day, amount, "outputCash", o)
           e == VatOnCash(settlement, kind, day, amount, "inputCash", i)
           postings == VatPostings(settlement, kind, rule, day, amount)
<1>1. day \in Days /\ m \in Int /\ o \in Int /\ i \in Int
  BY LineVatIsInt DEF LandsIn
<1>2. postings = <<Posting("outputAccrual", day, o), Posting("inputAccrual", day, i)>>
                    \o c \o d \o e
  BY DEF VatPostings
<1>3. <<Posting("outputAccrual", day, o), Posting("inputAccrual", day, i)>> = a \o b
  <2>1. \A x, y \in Postings : <<x, y>> = <<x>> \o <<y>>
    <3> TAKE x, y \in Postings
    <3>1. <<x>> \in Seq(Postings) /\ <<y>> \in Seq(Postings) /\ <<x, y>> \in Seq(Postings)
      OBVIOUS
    <3>2. /\ Len(<<x>>) = 1 /\ Len(<<y>>) = 1 /\ Len(<<x, y>>) = 2
          /\ <<x>>[1] = x /\ <<y>>[1] = y /\ <<x, y>>[1] = x /\ <<x, y>>[2] = y
      BY Z3
    <3> DEFINE s == <<x>>
               t == <<y>>
               u == <<x, y>>
    <3>3. /\ s \o t \in Seq(Postings) /\ Len(s \o t) = Len(s) + Len(t)
          /\ \A k \in 1 .. (Len(s) + Len(t)) :
                (s \o t)[k] = IF k <= Len(s) THEN s[k] ELSE t[k - Len(s)]
      BY <3>1, ConcatProperties
    <3> HIDE DEF s, t, u
    <3>4. \A k \in 1 .. 2 : (s \o t)[k] = u[k]
      <4> TAKE k \in 1 .. 2
      <4>1. k = 1 \/ k = 2
        OBVIOUS
      <4>2. Len(s) = 1 /\ Len(t) = 1 /\ s[1] = x /\ t[1] = y /\ u[1] = x /\ u[2] = y
        BY <3>2 DEF s, t, u
      <4>3. k - 1 \in Int /\ (k = 2 => k - 1 = 1)
        OBVIOUS
      <4> QED
        BY <3>3, <4>1, <4>2, <4>3
    <3>5. Len(s \o t) = 2 /\ Len(u) = 2 /\ u \in Seq(Postings)
      BY <3>1, <3>2, <3>3 DEF s, t, u
    <3>6. s \o t = u
      BY <3>3, <3>4, <3>5, SeqEqual
    <3> QED
      BY <3>6 DEF s, t, u
  <2>2. /\ Posting("outputAccrual", day, o) \in Postings
        /\ Posting("inputAccrual", day, i) \in Postings
    BY <1>1 DEF Posting, Postings, Columns
  <2> QED
    BY <2>1, <2>2
<1>4. /\ LandsOnly(c, "cash", m)
      /\ LandsOnly(d, "outputCash", o)
      /\ LandsOnly(e, "inputCash", i)
  BY VatOnCashLands DEF Columns
<1> HIDE DEF vat, o, i, m, c, d, e, postings
<1>5. LandsOnly(a, "outputAccrual", o) /\ LandsOnly(b, "inputAccrual", i)
  BY <1>1, OneLands DEF Columns
<1> HIDE DEF a, b
<1>6. postings = (((a \o b) \o c) \o d) \o e
  BY <1>2, <1>3
<1>7. /\ ArePostings(a) /\ ArePostings(b) /\ ArePostings(c) /\ ArePostings(d) /\ ArePostings(e)
  BY <1>4, <1>5 DEF LandsOnly
<1>8. /\ ArePostings(a \o b)
      /\ \A x : Landing(a \o b, x) = Landing(a, x) + Landing(b, x)
  BY <1>7, LandingsAdd
<1>9. /\ ArePostings((a \o b) \o c)
      /\ \A x : Landing((a \o b) \o c, x) = Landing(a \o b, x) + Landing(c, x)
  BY <1>7, <1>8, LandingsAdd
<1>10. /\ ArePostings(((a \o b) \o c) \o d)
       /\ \A x : Landing(((a \o b) \o c) \o d, x) = Landing((a \o b) \o c, x) + Landing(d, x)
  BY <1>7, <1>9, LandingsAdd
<1>11. /\ ArePostings(postings)
       /\ \A x : Landing(postings, x) = Landing(((a \o b) \o c) \o d, x) + Landing(e, x)
  BY <1>6, <1>7, <1>10, LandingsAdd
<1>12. \A x : /\ Landing(a, x) = IF x = "outputAccrual" THEN o ELSE 0
              /\ Landing(b, x) = IF x = "inputAccrual" THEN i ELSE 0
              /\ Landing(c, x) = IF x = "cash" THEN m ELSE 0
              /\ Landing(d, x) = IF x = "outputCash" THEN o ELSE 0
              /\ Landing(e, x) = IF x = "inputCash" THEN i ELSE 0
  BY <1>4, <1>5 DEF LandsOnly
<1>13. \A x : Landing(postings, x) =
                 ((((IF x = "outputAccrual" THEN o ELSE 0) + (IF x = "inputAccrual" THEN i ELSE 0))
                     + (IF x = "cash" THEN m ELSE 0)) + (IF x = "outputCash" THEN o ELSE 0))
                     + (IF x = "inputCash" THEN i ELSE 0)
  BY <1>8, <1>9, <1>10, <1>11, <1>12
<1>14. /\ Landing(postings, "outputAccrual") = o
       /\ Landing(postings, "outputCash") = o
       /\ Landing(postings, "inputAccrual") = i
       /\ Landing(postings, "inputCash") = i
       /\ Landing(postings, "cash") = m
       /\ Landing(postings, "accrual") = 0
  BY <1>1, <1>13
<1> QED
  BY <1>11, <1>14 DEF postings, o, i, m, vat

(* What settling a line lands.                                             *)
LEMMA SettleLands ==
  ASSUME NEW settlement, NEW kind, NEW day, LandsIn(settlement, kind, day),
         NEW rule, IsRule(rule), NEW amount \in Int
  PROVE  LET postings == Settle(settlement, kind, rule, day, amount) IN
         /\ ArePostings(postings)
         /\ Landing(postings, "accrual") = 0
         /\ Landing(postings, "outputCash") = Landing(postings, "outputAccrual")
         /\ Landing(postings, "inputCash") = Landing(postings, "inputAccrual")
         /\ PaidInFull(settlement, kind, amount) =>
               Landing(postings, "cash") =
                  amount + IF Inert(rule) THEN 0 ELSE LineVat(rule, amount).cash
<1> DEFINE cash == CashPostings(settlement, kind, day, amount)
           taxes == VatPostings(settlement, kind, rule, day, amount)
           postings == Settle(settlement, kind, rule, day, amount)
           paid == IF Inert(rule) THEN 0 ELSE LineVat(rule, amount).cash
<1>1. /\ ArePostings(taxes)
      /\ Landing(taxes, "outputCash") = Landing(taxes, "outputAccrual")
      /\ Landing(taxes, "inputCash") = Landing(taxes, "inputAccrual")
      /\ Landing(taxes, "cash") = paid
      /\ Landing(taxes, "accrual") = 0
  <2>1. CASE Inert(rule)
    <3>1. taxes = <<>>
      BY <2>1 DEF VatPostings
    <3>2. ArePostings(<<>>) /\ DOMAIN <<>> = {}
      BY DEF ArePostings
    <3>3. \A c : Landing(<<>>, c) = 0
      BY <3>2, TotalOfNothing DEF Landing
    <3> QED
      BY <2>1, <3>1, <3>2, <3>3
  <2>2. CASE ~Inert(rule)
    <3> HIDE DEF taxes
    <3> QED
      BY <2>2, VatLands DEF taxes
  <2> QED
    BY <2>1, <2>2
<1>2. /\ ArePostings(cash)
      /\ \A c \in Columns \ {"cash"} : Landing(cash, c) = 0
      /\ PaidInFull(settlement, kind, amount) => Landing(cash, "cash") = amount
  BY CashMoves
<1>3. postings = cash \o taxes
  BY DEF Settle
<1> HIDE DEF cash, taxes, postings, paid
<1>4. /\ ArePostings(postings)
      /\ \A c : Landing(postings, c) = Landing(cash, c) + Landing(taxes, c)
  BY <1>1, <1>2, <1>3, LandingsAdd
<1>6. \A c : Landing(cash, c) \in Int /\ Landing(taxes, c) \in Int
  BY <1>1, <1>2, LandingIsInt
<1>7. \A c \in {"outputCash", "outputAccrual", "inputCash", "inputAccrual", "accrual"} :
         Landing(postings, c) = Landing(taxes, c)
  <2>1. \A c \in {"outputCash", "outputAccrual", "inputCash", "inputAccrual", "accrual"} :
           c \in Columns \ {"cash"}
    BY DEF Columns
  <2> QED
    BY <1>2, <1>4, <1>6, <2>1
<1>8. PaidInFull(settlement, kind, amount) => Landing(postings, "cash") = amount + paid
  BY <1>1, <1>2, <1>4
<1> QED
  BY <1>1, <1>4, <1>7, <1>8 DEF postings, paid

(* Posting moves the total of a column by what lands in it.                *)
LEMMA PostingsMove ==
  ASSUME NEW columns, AreColumns(columns), NEW postings, ArePostings(postings)
  PROVE  LET after == Posted(columns, postings) IN
         /\ AreColumns(after)
         /\ \A c \in Columns : TotalOf(after[c], Days) - TotalOf(columns[c], Days)
                                  = Landing(postings, c)
<1>1. \A c \in Columns : TotalOf(columns[c], Days) \in Int
  BY DaysAreFinite, TotalIsInt DEF AreColumns
<1>2. \A c : Landing(postings, c) \in Int
  BY LandingIsInt
<1> QED
  BY <1>1, <1>2, PostedMoves

(* An accrued line is conserved, whatever the columns it is posted to, its *)
(* settlement, its VAT rule, the rates and the rounding: when its legs all *)
(* fall in the horizon, the VAT on sales and the one on purchases are      *)
(* recognised on the cash to the minor unit as on the invoice; and a line  *)
(* with nothing withheld and no CK-W001 moves the cash by its amount and   *)
(* the VAT paid with it (expand.py, vat.py: where a line is settled).      *)
THEOREM LineIsConserved ==
  ASSUME NEW columns, AreColumns(columns),
         NEW settlement, NEW kind, NEW day, LandsIn(settlement, kind, day),
         NEW rule, IsRule(rule), NEW amount \in Int
  PROVE  LET after == Posted(columns, Settle(settlement, kind, rule, day, amount))
             moved(c) == TotalOf(after[c], Days) - TotalOf(columns[c], Days)
         IN /\ AreColumns(after)
            /\ moved("outputCash") = moved("outputAccrual")
            /\ moved("inputCash") = moved("inputAccrual")
            /\ PaidInFull(settlement, kind, amount) =>
                  moved("cash") = amount + IF Inert(rule) THEN 0 ELSE LineVat(rule, amount).cash
<1> DEFINE postings == Settle(settlement, kind, rule, day, amount)
           after == Posted(columns, postings)
           moved(c) == TotalOf(after[c], Days) - TotalOf(columns[c], Days)
           paid == IF Inert(rule) THEN 0 ELSE LineVat(rule, amount).cash
<1>1. /\ ArePostings(postings)
      /\ Landing(postings, "outputCash") = Landing(postings, "outputAccrual")
      /\ Landing(postings, "inputCash") = Landing(postings, "inputAccrual")
      /\ PaidInFull(settlement, kind, amount) => Landing(postings, "cash") = amount + paid
  BY SettleLands
<1> HIDE DEF postings, paid
<1>2. AreColumns(after) /\ \A c \in Columns : moved(c) = Landing(postings, c)
  BY <1>1, PostingsMove
<1> HIDE DEF after, moved
<1>3. {"outputCash", "outputAccrual", "inputCash", "inputAccrual", "cash"} \subseteq Columns
  BY DEF Columns
<1>4. /\ moved("outputCash") = moved("outputAccrual")
      /\ moved("inputCash") = moved("inputAccrual")
      /\ PaidInFull(settlement, kind, amount) => moved("cash") = amount + paid
  BY <1>1, <1>2, <1>3
<1> QED
  BY <1>2, <1>4 DEF moved, after, postings, paid

-----------------------------------------------------------------------------
(* The tax account, over every return of the horizon.                      *)
Entry(f, due, refunds, surcharge, t) ==
    IF t = -1 THEN [credit |-> 0, movement |-> 0]
    ELSE IF t \in DOMAIN due THEN Assess(f[t - 1].credit, due[t], t \in refunds, surcharge)
    ELSE [credit |-> f[t - 1].credit, movement |-> 0]
IsAccount(f, due, refunds, surcharge, final) ==
    f = [t \in -1 .. final |-> Entry(f, due, refunds, surcharge, t)]
AccountRun(due, refunds, surcharge) ==
    CHOOSE f : IsAccount(f, due, refunds, surcharge, Horizon - 1)

LEMMA AccountExists ==
  ASSUME NEW due, NEW refunds, NEW surcharge
  PROVE  IsAccount(AccountRun(due, refunds, surcharge), due, refunds, surcharge, Horizon - 1)
<1> DEFINE Solves(f, n) == IsAccount(f, due, refunds, surcharge, n - 1)
           Bad == {n \in Nat : ~ \E f : Solves(f, n)}
<1>1. 0 \notin Bad
  <2> DEFINE f == [t \in -1 .. (0 - 1) |-> [credit |-> 0, movement |-> 0]]
  <2>1. \A t \in -1 .. (0 - 1) : t = -1
    OBVIOUS
  <2>2. Solves(f, 0)
    BY <2>1 DEF IsAccount, Entry
  <2> QED
    BY <2>2
<1>2. ASSUME NEW n \in Nat, n # 0, n - 1 \notin Bad PROVE n \notin Bad
  <2>1. n - 1 \in Nat
    BY <1>2
  <2>2. PICK f : Solves(f, n - 1)
    BY <1>2, <2>1
  <2> DEFINE g == [t \in -1 .. (n - 1) |-> Entry(f, due, refunds, surcharge, t)]
  <2>3. ASSUME NEW t \in -1 .. (n - 1)
        PROVE  Entry(f, due, refunds, surcharge, t) = Entry(g, due, refunds, surcharge, t)
    <3>1. CASE t = -1
      BY <3>1 DEF Entry
    <3>2. CASE t # -1
      <4>1. t - 1 \in -1 .. (n - 1) /\ t - 1 \in -1 .. ((n - 1) - 1)
        BY <3>2
      <4>2. g[t - 1] = Entry(f, due, refunds, surcharge, t - 1)
        BY <4>1
      <4>3. f[t - 1] = Entry(f, due, refunds, surcharge, t - 1)
        BY <2>2, <4>1 DEF IsAccount
      <4> HIDE DEF g
      <4> QED
        BY <3>2, <4>2, <4>3 DEF Entry
    <3> QED
      BY <3>1, <3>2
  <2>4. Solves(g, n)
    BY <2>3 DEF IsAccount
  <2> QED
    BY <2>4
<1>3. Bad = {}
  <2> HIDE DEF Solves
  <2>1. SUFFICES ASSUME Bad # {} PROVE FALSE
    OBVIOUS
  <2>2. PICK m \in Bad : \A n \in Bad : m <= n
    <3>1. Bad \subseteq Nat
      OBVIOUS
    <3> HIDE DEF Bad
    <3> QED
      BY <2>1, <3>1, LeastNatural
  <2>3. m \in Nat
    OBVIOUS
  <2> HIDE DEF Bad
  <2>4. m # 0 /\ m - 1 \notin Bad
    BY <1>1, <2>2, <2>3
  <2> QED
    BY <1>2, <2>2, <2>3, <2>4
<1>4. \E f : Solves(f, Horizon)
  <2> HIDE DEF Solves
  <2> QED
    BY <1>3, HorizonAssumption
<1> QED
  BY <1>4 DEF AccountRun

LEMMA AccountIs ==
  ASSUME NEW due, NEW refunds, NEW surcharge
  PROVE  /\ Account(due, refunds, surcharge) = [t \in Days |-> AccountRun(due, refunds, surcharge)[t]]
         /\ \A t \in -1 .. (Horizon - 1) :
               AccountRun(due, refunds, surcharge)[t]
                  = Entry(AccountRun(due, refunds, surcharge), due, refunds, surcharge, t)
<1>1. Account(due, refunds, surcharge) = [t \in Days |-> AccountRun(due, refunds, surcharge)[t]]
  BY DEF Account, AccountRun, IsAccount, Entry
<1>2. ASSUME NEW t \in -1 .. (Horizon - 1)
      PROVE  AccountRun(due, refunds, surcharge)[t]
                = Entry(AccountRun(due, refunds, surcharge), due, refunds, surcharge, t)
  <2> DEFINE f == AccountRun(due, refunds, surcharge)
  <2>1. f = [x \in -1 .. (Horizon - 1) |-> Entry(f, due, refunds, surcharge, x)]
    BY AccountExists DEF IsAccount
  <2> HIDE DEF f
  <2>2. f[t] = Entry(f, due, refunds, surcharge, t)
    BY <2>1
  <2> QED
    BY <2>2 DEF f
<1> QED
  BY <1>1, <1>2

(* What the returns up to a day were due and moved.                        *)
UpTo(due, t) == {c \in DOMAIN due : c <= t}
MovedBy(account, due) == [c \in DOMAIN due |-> account[c].movement]
Balance(account, due, t) ==
    TotalOf(due, UpTo(due, t)) + TotalOf(MovedBy(account, due), UpTo(due, t))

(* A tax account closes, whatever is due at its returns and whichever of   *)
(* them refund: on every day the credit held is not negative, money comes  *)
(* in only where there is a refund, and what was due so far is what was    *)
(* paid less the credit, up to the surcharges (tax.py, where the credit is *)
(* carried from a return to the next).                                     *)
THEOREM AccountCloses ==
  ASSUME NEW due, DOMAIN due \subseteq Days, \A t \in DOMAIN due : due[t] \in Int,
         NEW refunds, NEW surcharge \in Nat
  PROVE  LET account == Account(due, refunds, surcharge) IN
         \A t \in Days :
            /\ account[t].credit \in Nat
            /\ account[t].movement \in Int
            /\ account[t].movement > 0 => t \in refunds
            /\ Balance(account, due, t) + account[t].credit <= 0
            /\ surcharge = 0 => Balance(account, due, t) + account[t].credit = 0
<1> DEFINE account == Account(due, refunds, surcharge)
           f == AccountRun(due, refunds, surcharge)
           moved == MovedBy(account, due)
           Held(t) == /\ f[t].credit \in Nat
                      /\ f[t].movement \in Int
                      /\ f[t].movement > 0 => t \in refunds
           Squared(t) == /\ \A c \in UpTo(due, t) : moved[c] \in Int
                         /\ Balance(account, due, t) \in Int
                         /\ Balance(account, due, t) + f[t].credit <= 0
                         /\ surcharge = 0 => Balance(account, due, t) + f[t].credit = 0
           Good(t) == Held(t) /\ Squared(t)
           Bad == {n \in 0 .. Horizon : ~Good(n - 1)}
<1>0. Horizon \in Nat \ {0}
  BY HorizonAssumption
<1>1. /\ account = [t \in Days |-> f[t]]
      /\ \A t \in -1 .. (Horizon - 1) : f[t] = Entry(f, due, refunds, surcharge, t)
  BY AccountIs
<1>2. \A t \in Days : account[t] = f[t]
  BY <1>1
<1>3. IsFiniteSet(DOMAIN due) /\ \A t : IsFiniteSet(UpTo(due, t))
  BY DaysAreFinite, FS_Subset DEF UpTo
<1>4. \A c \in DOMAIN due : moved[c] = f[c].movement /\ c \in Int /\ 0 <= c /\ c <= Horizon - 1
  BY <1>0, <1>2 DEF MovedBy, Days
<1> HIDE DEF account, f, moved
<1>5. 0 \notin Bad
  <2>1. f[-1] = [credit |-> 0, movement |-> 0]
    <3>1. -1 \in -1 .. (Horizon - 1)
      BY <1>0
    <3> QED
      BY <1>1, <3>1 DEF Entry
  <2>2. UpTo(due, -1) = {}
    BY <1>4 DEF UpTo
  <2>3. Balance(account, due, -1) = 0
    BY <2>2, TotalOfNothing DEF Balance
  <2>4. Good(-1)
    <3>1. f[-1].credit = 0 /\ f[-1].movement = 0
      BY <2>1
    <3>2. Held(-1)
      BY <3>1
    <3>3. Squared(-1)
      <4> DEFINE b == Balance(account, due, -1)
                 k == f[-1].credit
      <4>1. b = 0 /\ k = 0
        BY <2>3, <3>1
      <4>2. b \in Int /\ b + k <= 0 /\ b + k = 0
        <5> HIDE DEF b, k
        <5> QED
          BY <4>1
      <4>3. \A c \in UpTo(due, -1) : moved[c] \in Int
        BY <2>2
      <4> QED
        BY <4>2, <4>3
    <3> HIDE DEF Held, Squared
    <3> QED
      BY <3>2, <3>3
  <2>5. 0 - 1 = -1
    OBVIOUS
  <2> HIDE DEF Good
  <2> QED
    BY <2>4, <2>5
<1>6. ASSUME NEW n \in 1 .. Horizon, n - 1 \notin Bad PROVE n \notin Bad
  <2> DEFINE t == n - 1
             p == t - 1
  <2>1. /\ t \in Days /\ t \in Int /\ p \in Int /\ t \in -1 .. (Horizon - 1) /\ t # -1
        /\ n - 1 \in 0 .. Horizon
    BY <1>0 DEF Days
  <2>2. Held(p) /\ Squared(p)
    BY <1>6, <2>1
  <2>3. f[t] = IF t \in DOMAIN due THEN Assess(f[p].credit, due[t], t \in refunds, surcharge)
               ELSE [credit |-> f[p].credit, movement |-> 0]
    BY <1>1, <2>1 DEF Entry
  <2> DEFINE prior == Balance(account, due, p)
  <2>p. prior \in Int /\ prior + f[p].credit <= 0 /\ (surcharge = 0 => prior + f[p].credit = 0)
    BY <2>2
  <2>h. f[p].credit \in Nat
    BY <2>2
  <2>4. CASE t \notin DOMAIN due
    <3>1. f[t].credit = f[p].credit /\ f[t].movement = 0
      BY <2>3, <2>4
    <3>2. UpTo(due, t) = UpTo(due, p)
      <4>1. \A c \in DOMAIN due : c <= t <=> c <= p
        BY <1>4, <2>1, <2>4
      <4> HIDE DEF t, p
      <4> QED
        BY <4>1 DEF UpTo
    <3>3. Balance(account, due, t) = prior
      BY <3>2 DEF Balance
    <3> HIDE DEF prior, t, p
    <3>4. Held(t)
      BY <2>h, <3>1
    <3>5. \A c \in UpTo(due, t) : moved[c] \in Int
      BY <2>2, <3>2
    <3>6. Squared(t)
      BY <2>p, <3>1, <3>3, <3>5
    <3> QED
      BY <3>4, <3>6 DEF t
  <2>5. CASE t \in DOMAIN due
    <3> DEFINE d == due[t]
               m == f[t].movement
               k == f[t].credit
               old == f[p].credit
    <3>1. d \in Int /\ old \in Nat /\ (t \in refunds) \in BOOLEAN
      BY <2>5, <2>h
    <3>2. f[t] = Assess(old, d, t \in refunds, surcharge)
      BY <2>3, <2>5
    <3>3. /\ k \in Nat /\ m \in Int /\ (m > 0 => t \in refunds)
          /\ d + m + k - old <= 0
          /\ surcharge = 0 => d + m + k - old = 0
      <4> DEFINE r == t \in refunds
      <4>1. r \in BOOLEAN
        OBVIOUS
      <4> HIDE DEF d, old, t, r
      <4>2. /\ Assess(old, d, r, surcharge).credit \in Nat
            /\ Assess(old, d, r, surcharge).movement \in Int
            /\ Assess(old, d, r, surcharge).movement > 0 => r
            /\ d + Assess(old, d, r, surcharge).movement + Assess(old, d, r, surcharge).credit - old <= 0
            /\ surcharge = 0 =>
                  d + Assess(old, d, r, surcharge).movement + Assess(old, d, r, surcharge).credit - old = 0
        BY <3>1, <4>1, ReturnBalances
      <4>3. f[t] = Assess(old, d, r, surcharge)
        BY <3>2 DEF r
      <4> QED
        BY <4>2, <4>3 DEF r
    <3>4. /\ t \in UpTo(due, t) /\ UpTo(due, t) \ {t} = UpTo(due, p)
      <4>1. \A c \in DOMAIN due : (c <= t /\ c # t) <=> c <= p
        BY <1>4, <2>1
      <4>2. t <= t /\ ~(t <= p)
        BY <2>1
      <4> HIDE DEF t, p
      <4> QED
        BY <2>5, <4>1, <4>2 DEF UpTo
    <3>5. \A c \in UpTo(due, t) : c \in DOMAIN due
      BY DEF UpTo
    <3>6. \A c \in UpTo(due, t) : due[c] \in Int
      BY <3>5
    <3>7. \A c \in UpTo(due, t) : moved[c] \in Int
      <4> SUFFICES ASSUME NEW c \in UpTo(due, t) PROVE moved[c] \in Int
        OBVIOUS
      <4>1. CASE c = t
        BY <1>4, <2>5, <3>3, <4>1
      <4>2. CASE c # t
        <5>1. c \in UpTo(due, p)
          BY <3>4, <4>2
        <5> QED
          BY <2>2, <5>1
      <4> QED
        BY <4>1, <4>2
    <3>8. /\ TotalOf(due, UpTo(due, t)) = d + TotalOf(due, UpTo(due, p))
          /\ TotalOf(moved, UpTo(due, t)) = m + TotalOf(moved, UpTo(due, p))
      <4>1. moved[t] = m
        BY <1>4, <2>5
      <4> DEFINE S == UpTo(due, t)
                 R == UpTo(due, p)
      <4>2. IsFiniteSet(S) /\ t \in S /\ S \ {t} = R
        BY <1>3, <3>4
      <4>3. \A c \in S : due[c] \in Int /\ moved[c] \in Int
        BY <3>6, <3>7
      <4> HIDE DEF S, R, t, m, Squared, Held
      <4>4. TotalOf(due, S) = due[t] + TotalOf(due, R)
        BY <4>2, <4>3, TotalTakes
      <4>5. TotalOf(moved, S) = moved[t] + TotalOf(moved, R)
        BY <4>2, <4>3, TotalTakes
      <4> QED
        BY <4>1, <4>4, <4>5 DEF S, R
    <3>9. TotalOf(due, UpTo(due, p)) \in Int /\ TotalOf(moved, UpTo(due, p)) \in Int
      <4> DEFINE R == UpTo(due, p)
      <4>1. R \subseteq UpTo(due, t) /\ IsFiniteSet(R)
        BY <1>3, <3>4
      <4>2. \A c \in R : due[c] \in Int /\ moved[c] \in Int
        BY <3>6, <3>7, <4>1
      <4> HIDE DEF R
      <4> QED
        BY <4>1, <4>2, TotalIsInt DEF R
    <3>10. prior = TotalOf(due, UpTo(due, p)) + TotalOf(moved, UpTo(due, p))
      BY DEF Balance, moved
    <3>11. Balance(account, due, t) = TotalOf(due, UpTo(due, t)) + TotalOf(moved, UpTo(due, t))
      BY DEF Balance, moved
    <3>12. Balance(account, due, t) = prior + d + m
      <4> HIDE DEF prior, d, m, t, p
      <4> QED
        BY <3>1, <3>3, <3>8, <3>9, <3>10, <3>11
    <3>13. /\ Balance(account, due, t) \in Int
           /\ Balance(account, due, t) + k <= 0
           /\ surcharge = 0 => Balance(account, due, t) + k = 0
      <4>1. prior \in Int /\ prior + old <= 0 /\ (surcharge = 0 => prior + old = 0)
        BY <2>p
      <4> HIDE DEF prior, d, m, k, old, t
      <4> QED
        BY <3>1, <3>3, <3>12, <4>1
    <3>14. Held(t)
      BY <3>3
    <3>15. Squared(t)
      BY <3>7, <3>13
    <3> HIDE DEF Held, Squared
    <3> QED
      BY <3>14, <3>15
  <2> QED
    BY <2>4, <2>5
<1>7. Bad = {}
  <2> HIDE DEF Good
  <2>1. SUFFICES ASSUME Bad # {} PROVE FALSE
    OBVIOUS
  <2>2. PICK n \in Bad : \A x \in Bad : n <= x
    <3>1. Bad \subseteq Nat
      BY <1>0
    <3> HIDE DEF Bad
    <3> QED
      BY <2>1, <3>1, LeastNatural
  <2>3. n \in 0 .. Horizon
    OBVIOUS
  <2> HIDE DEF Bad
  <2>4. n \in 1 .. Horizon /\ n - 1 \notin Bad
    BY <1>0, <1>5, <2>2, <2>3
  <2> QED
    BY <1>6, <2>2, <2>4
<1>8. ASSUME NEW t \in Days PROVE Good(t)
  <2>1. t + 1 \in 0 .. Horizon /\ (t + 1) - 1 = t
    BY <1>0 DEF Days
  <2> HIDE DEF Good
  <2>2. Good((t + 1) - 1)
    BY <1>7, <2>1
  <2> QED
    BY <2>1, <2>2
<1> QED
  BY <1>2, <1>8 DEF account

-----------------------------------------------------------------------------
(* A batch of lines.                                                       *)
Flattening(R, seqs, L) ==
    /\ \A n \in 1 .. L : R[n] = IF n = 1 THEN seqs[n] ELSE R[n - 1] \o seqs[n]
    /\ FlattenSeq(seqs) = R[L]

LEMMA FlatteningExists ==
  ASSUME NEW seqs, NEW L \in Nat \ {0}, Len(seqs) = L
  PROVE  \E R : Flattening(R, seqs, L)
<1> DEFINE Joined(R, i) == IF i = 1 THEN seqs[i] ELSE R[i - 1] \o seqs[i]
           Solves(R, n) == R = [i \in 1 .. n |-> Joined(R, i)]
           Bad == {n \in Nat : ~ \E R : Solves(R, n)}
           K == CHOOSE R : Solves(R, L)
<1>1. 0 \notin Bad
  <2> DEFINE R == [i \in 1 .. 0 |-> <<>>]
  <2>1. \A i \in 1 .. 0 : FALSE
    OBVIOUS
  <2>2. Solves(R, 0)
    BY <2>1
  <2> HIDE DEF Solves, R
  <2> QED
    BY <2>2
<1>2. ASSUME NEW n \in Nat, n # 0, n - 1 \notin Bad PROVE n \notin Bad
  <2>1. n - 1 \in Nat
    BY <1>2
  <2>2. PICK R : Solves(R, n - 1)
    <3> HIDE DEF Solves
    <3> QED
      BY <1>2, <2>1
  <2> DEFINE H == [i \in 1 .. n |-> Joined(R, i)]
  <2>3. ASSUME NEW i \in 1 .. n PROVE Joined(R, i) = Joined(H, i)
    <3>1. CASE i = 1
      BY <3>1
    <3>2. CASE i # 1
      <4>1. i - 1 \in 1 .. n /\ i - 1 \in 1 .. (n - 1)
        BY <3>2
      <4>2. H[i - 1] = Joined(R, i - 1)
        BY <4>1
      <4>3. R[i - 1] = Joined(R, i - 1)
        <5> HIDE DEF Joined
        <5> QED
          BY <2>2, <4>1
      <4>4. H[i - 1] = R[i - 1]
        BY <4>2, <4>3
      <4> HIDE DEF H
      <4> QED
        BY <3>2, <4>4
    <3> QED
      BY <3>1, <3>2
  <2>4. H = [i \in 1 .. n |-> Joined(H, i)]
    <3> HIDE DEF Joined
    <3>1. \A i \in 1 .. n : Joined(R, i) = Joined(H, i)
      BY <2>3
    <3> QED
      BY <3>1
  <2>5. Solves(H, n)
    BY <2>4
  <2> HIDE DEF Solves, H
  <2> QED
    BY <2>5
<1>3. Bad = {}
  <2> HIDE DEF Solves
  <2>1. SUFFICES ASSUME Bad # {} PROVE FALSE
    OBVIOUS
  <2>2. PICK m \in Bad : \A n \in Bad : m <= n
    <3>1. Bad \subseteq Nat
      OBVIOUS
    <3> HIDE DEF Bad
    <3> QED
      BY <2>1, <3>1, LeastNatural
  <2>3. m \in Nat
    OBVIOUS
  <2> HIDE DEF Bad
  <2>4. m # 0 /\ m - 1 \notin Bad
    BY <1>1, <2>2, <2>3
  <2> QED
    BY <1>2, <2>2, <2>3, <2>4
<1>4. Solves(K, L)
  <2> HIDE DEF Solves
  <2>1. \E R : Solves(R, L)
    BY <1>3
  <2> QED
    BY <2>1
<1>5. FlattenSeq(seqs) = K[L]
  <2>1. L # 0
    OBVIOUS
  <2> QED
    BY <2>1 DEF FlattenSeq
<1>6. \A n \in 1 .. L : K[n] = Joined(K, n)
  <2> HIDE DEF K, Joined
  <2> QED
    BY <1>4
<1> HIDE DEF K
<1>7. Flattening(K, seqs, L)
  BY <1>5, <1>6 DEF Flattening
<1> QED
  BY <1>7

LandingsOf(seqs, c) == [n \in DOMAIN seqs |-> Landing(seqs[n], c)]

LEMMA FlattenedLands ==
  ASSUME NEW seqs, NEW L \in Nat, DOMAIN seqs = 1 .. L, Len(seqs) = L, L = 0 => seqs = <<>>,
         \A n \in 1 .. L : ArePostings(seqs[n])
  PROVE  /\ ArePostings(FlattenSeq(seqs))
         /\ \A c : /\ TotalOf(LandingsOf(seqs, c), 1 .. L) \in Int
                   /\ Landing(FlattenSeq(seqs), c) = TotalOf(LandingsOf(seqs, c), 1 .. L)
<1>0. \A c : \A n \in 1 .. L : /\ LandingsOf(seqs, c)[n] = Landing(seqs[n], c)
                               /\ LandingsOf(seqs, c)[n] \in Int
  BY LandingIsInt DEF LandingsOf
<1>1. CASE L = 0
  <2>1. FlattenSeq(seqs) = <<>>
    BY <1>1 DEF FlattenSeq
  <2>2. ArePostings(<<>>) /\ DOMAIN <<>> = {}
    BY DEF ArePostings
  <2>3. \A c : Landing(<<>>, c) = 0
    BY <2>2, TotalOfNothing DEF Landing
  <2>4. 1 .. L = {}
    BY <1>1
  <2> QED
    BY <2>1, <2>2, <2>3, <2>4, TotalOfNothing
<1>2. CASE L # 0
  <2>1. PICK R : Flattening(R, seqs, L)
    BY <1>2, FlatteningExists
  <2> DEFINE Partial(c, n) == TotalOf(LandingsOf(seqs, c), 1 .. n)
             Good(n) == /\ ArePostings(R[n])
                        /\ \A c : Landing(R[n], c) = Partial(c, n)
             Bad == {n \in 1 .. L : ~Good(n)}
  <2>2. \A n \in 1 .. L : \A c : /\ Partial(c, n) = Landing(seqs[n], c) + Partial(c, n - 1)
                                 /\ Partial(c, n - 1) \in Int
    <3> TAKE n \in 1 .. L
    <3> TAKE c
    <3> DEFINE f == LandingsOf(seqs, c)
    <3>1. \A k \in 1 .. n : f[k] \in Int
      BY <1>0
    <3>2. f[n] = Landing(seqs[n], c)
      BY <1>0
    <3>3. (1 .. n) \ {n} = 1 .. (n - 1)
      BY ONLY n \in 1 .. L
    <3>4. IsFiniteSet(1 .. n) /\ IsFiniteSet(1 .. (n - 1)) /\ n \in 1 .. n
      <4>1. n \in Nat /\ n - 1 \in Nat
        OBVIOUS
      <4>2. IsFiniteSet(1 .. n) /\ IsFiniteSet(1 .. (n - 1))
        BY <4>1, FS_Interval
      <4> QED
        BY <4>2
    <3> HIDE DEF f
    <3>5. TotalOf(f, 1 .. n) = f[n] + TotalOf(f, 1 .. (n - 1))
      BY <3>1, <3>3, <3>4, TotalTakes
    <3>6. TotalOf(f, 1 .. (n - 1)) \in Int
      <4>1. \A k \in 1 .. (n - 1) : f[k] \in Int
        BY <3>1, <3>3
      <4> QED
        BY <3>4, <4>1, TotalIsInt
    <3> QED
      BY <3>2, <3>5, <3>6 DEF f
  <2>3. \A n \in 1 .. L : R[n] = IF n = 1 THEN seqs[n] ELSE R[n - 1] \o seqs[n]
    BY <2>1 DEF Flattening
  <2>4. ASSUME NEW n \in 1 .. L, n # 1 => n - 1 \notin Bad PROVE n \notin Bad
    <3>1. ArePostings(seqs[n]) /\ \A c : Landing(seqs[n], c) \in Int
      BY LandingIsInt
    <3>2. CASE n = 1
      <4>1. R[n] = seqs[n]
        BY <2>3, <3>2
      <4>2. \A c : Partial(c, n - 1) = 0
        <5>1. 1 .. (n - 1) = {}
          BY <3>2
        <5> QED
          BY <5>1, TotalOfNothing
      <4> HIDE DEF Partial
      <4>3. \A c : Landing(R[n], c) = Partial(c, n)
        BY <2>2, <3>1, <4>1, <4>2
      <4> QED
        BY <3>1, <4>1, <4>3
    <3>3. CASE n # 1
      <4>1. Good(n - 1)
        <5>1. n - 1 \in 1 .. L
          BY <3>3
        <5> HIDE DEF Good
        <5> QED
          BY <2>4, <3>3, <5>1
      <4>2. R[n] = R[n - 1] \o seqs[n]
        BY <2>3, <3>3
      <4>3. ArePostings(R[n - 1]) /\ \A c : Landing(R[n - 1], c) = Partial(c, n - 1)
        BY <4>1
      <4> DEFINE s == R[n - 1]
                 t == seqs[n]
      <4>4. ArePostings(s) /\ ArePostings(t)
        BY <3>1, <4>3
      <4> HIDE DEF s, t
      <4>5. ArePostings(s \o t) /\ \A c : Landing(s \o t, c) = Landing(s, c) + Landing(t, c)
        BY <4>4, LandingsAdd
      <4> HIDE DEF Partial
      <4>6. ArePostings(R[n])
        BY <4>2, <4>5 DEF s, t
      <4>7. \A c : Landing(R[n], c) = Partial(c, n)
        BY <2>2, <3>1, <4>2, <4>3, <4>5 DEF s, t
      <4> QED
        BY <4>6, <4>7
    <3> QED
      BY <3>2, <3>3
  <2>5. Bad = {}
    <3> HIDE DEF Good
    <3>1. SUFFICES ASSUME Bad # {} PROVE FALSE
      OBVIOUS
    <3>2. PICK m \in Bad : \A n \in Bad : m <= n
      <4>1. Bad \subseteq Nat
        OBVIOUS
      <4> HIDE DEF Bad
      <4> QED
        BY <3>1, <4>1, LeastNatural
    <3>3. m \in 1 .. L
      OBVIOUS
    <3> HIDE DEF Bad
    <3>4. m - 1 \notin Bad
      BY <3>2, <3>3
    <3> QED
      BY <2>4, <3>2, <3>3, <3>4
  <2>6. Good(L)
    <3> HIDE DEF Good
    <3>1. L \in 1 .. L
      BY <1>2
    <3> QED
      BY <2>5, <3>1
  <2>7. R[L] = FlattenSeq(seqs)
    BY <2>1 DEF Flattening
  <2>8. \A c : TotalOf(LandingsOf(seqs, c), 1 .. L) \in Int
    <3>1. IsFiniteSet(1 .. L)
      BY FS_Interval
    <3> QED
      BY <1>0, <3>1, TotalIsInt
  <2> QED
    BY <2>6, <2>7, <2>8
<1> QED
  BY <1>1, <1>2

(* A whole batch of lines is conserved, however many they are and however  *)
(* their legs interleave: in every column it is posted to, the accrual     *)
(* moves by the amounts of the lines, the VAT recognised on the cash is    *)
(* the one recognised on the invoice, and lines paid in full without VAT   *)
(* move the cash as they move the accrual (expand.py, where the lines of   *)
(* an item are scattered into its columns).                                *)
THEOREM LinesAreConserved ==
  ASSUME NEW columns, AreColumns(columns), NEW settlement, NEW kind, NEW rule, IsRule(rule),
         NEW lines, lines \in Seq([day : Days, amount : Int]),
         \A n \in DOMAIN lines : LandsIn(settlement, kind, lines[n].day)
  PROVE  LET after == Posted(columns, LinePostings(settlement, kind, rule, lines))
             moved(c) == TotalOf(after[c], Days) - TotalOf(columns[c], Days)
         IN /\ AreColumns(after)
            /\ moved("accrual") = TotalOf([n \in DOMAIN lines |-> lines[n].amount], DOMAIN lines)
            /\ moved("outputCash") = moved("outputAccrual")
            /\ moved("inputCash") = moved("inputAccrual")
            /\ Inert(rule) /\ (\A n \in DOMAIN lines : PaidInFull(settlement, kind, lines[n].amount))
                  => moved("cash") = moved("accrual")
<1> DEFINE L == Len(lines)
           accrued(n) == <<Posting("accrual", lines[n].day, lines[n].amount)>>
           settled(n) == Settle(settlement, kind, rule, lines[n].day, lines[n].amount)
           seqs == [n \in DOMAIN lines |-> accrued(n) \o settled(n)]
           amounts == [n \in DOMAIN lines |-> lines[n].amount]
           postings == LinePostings(settlement, kind, rule, lines)
           after == Posted(columns, postings)
           moved(c) == TotalOf(after[c], Days) - TotalOf(columns[c], Days)
           full == Inert(rule) /\ \A n \in DOMAIN lines : PaidInFull(settlement, kind, lines[n].amount)
<1>1. /\ L \in Nat /\ DOMAIN lines = 1 .. L /\ IsFiniteSet(1 .. L)
      /\ \A n \in 1 .. L : lines[n].day \in Days /\ lines[n].amount \in Int
  <2>1. L \in Nat /\ DOMAIN lines = 1 .. L
    BY LenProperties
  <2>2. \A n \in 1 .. L : lines[n] \in [day : Days, amount : Int]
    BY ElementOfSeq
  <2>3. IsFiniteSet(1 .. L)
    BY <2>1, FS_Interval
  <2> HIDE DEF L
  <2> QED
    BY <2>1, <2>2, <2>3
<1>2. postings = FlattenSeq(seqs)
  BY DEF LinePostings
<1>3. ASSUME NEW n \in 1 .. L
      PROVE  /\ ArePostings(seqs[n])
             /\ Landing(seqs[n], "accrual") = amounts[n]
             /\ Landing(seqs[n], "outputCash") = Landing(seqs[n], "outputAccrual")
             /\ Landing(seqs[n], "inputCash") = Landing(seqs[n], "inputAccrual")
             /\ full => Landing(seqs[n], "cash") = amounts[n]
  <2> DEFINE day == lines[n].day
             amount == lines[n].amount
             a == accrued(n)
             s == settled(n)
  <2>1. day \in Days /\ amount \in Int /\ LandsIn(settlement, kind, day)
    BY <1>1
  <2>2. LandsOnly(a, "accrual", amount)
    <3> HIDE DEF day, amount
    <3>1. "accrual" \in Columns
      BY DEF Columns
    <3>2. LandsOnly(<<Posting("accrual", day, amount)>>, "accrual", amount)
      BY <2>1, <3>1, OneLands
    <3> QED
      BY <3>2 DEF day, amount
  <2>3. /\ ArePostings(s)
        /\ Landing(s, "accrual") = 0
        /\ Landing(s, "outputCash") = Landing(s, "outputAccrual")
        /\ Landing(s, "inputCash") = Landing(s, "inputAccrual")
        /\ PaidInFull(settlement, kind, amount) =>
              Landing(s, "cash") = amount + IF Inert(rule) THEN 0 ELSE LineVat(rule, amount).cash
    <3> HIDE DEF day, amount
    <3>1. LET line == Settle(settlement, kind, rule, day, amount) IN
          /\ ArePostings(line)
          /\ Landing(line, "accrual") = 0
          /\ Landing(line, "outputCash") = Landing(line, "outputAccrual")
          /\ Landing(line, "inputCash") = Landing(line, "inputAccrual")
          /\ PaidInFull(settlement, kind, amount) =>
                Landing(line, "cash") =
                   amount + IF Inert(rule) THEN 0 ELSE LineVat(rule, amount).cash
      BY <2>1, SettleLands
    <3> QED
      BY <3>1 DEF day, amount
  <2>4. seqs[n] = a \o s /\ amounts[n] = amount
    BY <1>1
  <2>5. full => Landing(s, "cash") = amount
    BY <1>1, <2>1, <2>3
  <2> HIDE DEF a, s, seqs, amounts, full, amount, day
  <2>6. ArePostings(a) /\ \A c : Landing(a, c) = IF c = "accrual" THEN amount ELSE 0
    BY <2>2 DEF LandsOnly
  <2>7. ArePostings(a \o s) /\ \A c : Landing(a \o s, c) = Landing(a, c) + Landing(s, c)
    BY <2>3, <2>6, LandingsAdd
  <2>8. \A c : Landing(s, c) \in Int
    BY <2>3, LandingIsInt
  <2>9. /\ Landing(seqs[n], "accrual") = amounts[n]
        /\ \A c \in {"outputCash", "outputAccrual", "inputCash", "inputAccrual", "cash"} :
              Landing(seqs[n], c) = Landing(s, c)
    BY <2>1, <2>3, <2>4, <2>6, <2>7, <2>8
  <2> QED
    BY <2>3, <2>4, <2>5, <2>7, <2>9
<1>4. /\ DOMAIN seqs = 1 .. L /\ Len(seqs) = L /\ (L = 0 => seqs = <<>>)
  BY <1>1
<1> HIDE DEF seqs, postings, amounts, full
<1>5. /\ ArePostings(postings)
      /\ \A c : /\ TotalOf(LandingsOf(seqs, c), 1 .. L) \in Int
                /\ Landing(postings, c) = TotalOf(LandingsOf(seqs, c), 1 .. L)
  BY <1>1, <1>2, <1>3, <1>4, FlattenedLands
<1>6. AreColumns(after) /\ \A c \in Columns : moved(c) = Landing(postings, c)
  BY <1>5, PostingsMove
<1> HIDE DEF after, moved
<1>7. \A c : \A n \in 1 .. L : LandingsOf(seqs, c)[n] = Landing(seqs[n], c)
                               /\ LandingsOf(seqs, c)[n] \in Int
  BY <1>3, <1>4, LandingIsInt DEF LandingsOf
<1> DEFINE Same(f, g) == \A n \in 1 .. L : f[n] = g[n] /\ f[n] \in Int /\ g[n] \in Int
<1>8. ASSUME NEW f, NEW g, Same(f, g) PROVE TotalOf(f, 1 .. L) = TotalOf(g, 1 .. L)
  <2>1. \A n \in 1 .. L : f[n] = g[n] /\ f[n] \in Int /\ g[n] \in Int
    BY <1>8
  <2>2. /\ IsFiniteSet(1 .. L)
        /\ \A x \in 1 .. L : f[x] \in Int /\ g[x] = f[x]
    BY <1>1, <2>1
  <2> HIDE DEF L
  <2> QED
    BY <2>2, TotalsAgreeing
<1>9. /\ Same(LandingsOf(seqs, "accrual"), amounts)
      /\ Same(LandingsOf(seqs, "outputCash"), LandingsOf(seqs, "outputAccrual"))
      /\ Same(LandingsOf(seqs, "inputCash"), LandingsOf(seqs, "inputAccrual"))
      /\ full => Same(LandingsOf(seqs, "cash"), amounts)
  BY <1>3, <1>7
<1> HIDE DEF Same
<1>10. /\ Landing(postings, "accrual") = TotalOf(amounts, 1 .. L)
       /\ Landing(postings, "outputCash") = Landing(postings, "outputAccrual")
       /\ Landing(postings, "inputCash") = Landing(postings, "inputAccrual")
       /\ full => Landing(postings, "cash") = TotalOf(amounts, 1 .. L)
  BY <1>5, <1>8, <1>9
<1>11. {"outputCash", "outputAccrual", "inputCash", "inputAccrual", "cash", "accrual"} \subseteq Columns
  BY DEF Columns
<1>12. /\ moved("accrual") = TotalOf(amounts, 1 .. L)
       /\ moved("outputCash") = moved("outputAccrual")
       /\ moved("inputCash") = moved("inputAccrual")
       /\ full => moved("cash") = moved("accrual")
  BY <1>6, <1>10, <1>11
<1> QED
  BY <1>1, <1>6, <1>12 DEF after, moved, postings, amounts, full
=============================================================================
