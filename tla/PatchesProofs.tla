----------------------------- MODULE PatchesProofs -----------------------------
(***************************************************************************)
(* Theorems of Patches, for any names and values, any documents that are   *)
(* trees, and any patches.                                                 *)
(***************************************************************************)
EXTENDS Patches, FiniteSetTheorems, SequenceTheorems, WellFoundedInduction, TLAPS

-----------------------------------------------------------------------------
(***************************************************************************)
(* Induction over the natural numbers, and what it gives: a function whose *)
(* value at i is defined by the one at i - 1 exists, and the numbers of a  *)
(* finite set can be counted off.                                          *)
(***************************************************************************)
LEMMA Induct ==
  ASSUME NEW T, \A n \in Nat : (\A m \in Nat : m < n => m \in T) => n \in T
  PROVE  Nat \subseteq T
  <1> DEFINE R == OpToRel(<, Nat)
             F == Nat \ T
  <1>1. IsWellFoundedOn(R, Nat)
    BY NatLessThanWellFounded, Zenon
  <1>2. \A m, n \in Nat : m < n => <<m, n>> \in R
    BY Zenon DEF OpToRel
  <1>3. SUFFICES ASSUME F # {} PROVE FALSE
    OBVIOUS
  <1> HIDE DEF R
  <1>4. PICK n \in F : \A m \in F : <<m, n>> \notin R
    BY <1>1, <1>3, WFMin
  <1>5. QED
    BY <1>2, <1>4

LEMMA RecursionExists ==
  ASSUME NEW D, NEW d \in D, NEW L \in Nat, NEW G \in [1..L -> [D -> D]]
  PROVE  \E f \in [0..L -> D] : f[0] = d /\ \A i \in 1..L : f[i] = G[i][f[i - 1]]
  <1> DEFINE Goes(f, k) == f[0] = d /\ \A i \in 1..k : f[i] = G[i][f[i - 1]]
             T == {k \in Nat : k <= L => \E f \in [0..k -> D] : Goes(f, k)}
  <1>1. ASSUME NEW n \in Nat, \A m \in Nat : m < n => m \in T PROVE n \in T
    <2> SUFFICES ASSUME n <= L PROVE \E f \in [0..n -> D] : Goes(f, n)
      OBVIOUS
    <2>1. CASE n = 0
      <3> DEFINE f == [i \in 0..n |-> d]
      <3>1. f \in [0..n -> D] /\ Goes(f, n)
        BY <2>1
      <3>2. QED
        BY <3>1
    <2>2. CASE n # 0
      <3>1. n - 1 \in Nat /\ n - 1 < n /\ n \in 1..L
        BY <2>2
      <3>2. PICK f \in [0..n - 1 -> D] : Goes(f, n - 1)
        <4>1. n - 1 \in T
          BY <1>1, <3>1
        <4>2. n - 1 <= L
          BY <3>1
        <4>3. QED
          BY <4>1, <4>2
      <3> DEFINE g == [i \in 0..n |-> IF i = n THEN G[n][f[n - 1]] ELSE f[i]]
      <3>3. G[n][f[n - 1]] \in D
        BY <3>1
      <3>4. g \in [0..n -> D]
        BY <3>1, <3>3
      <3>5. g[0] = d
        BY <3>1, <3>2
      <3>6. ASSUME NEW i \in 1..n PROVE g[i] = G[i][g[i - 1]]
        <4>1. g[i - 1] = f[i - 1]
          BY <3>1
        <4>2. CASE i = n
          BY <4>1, <4>2
        <4>3. CASE i # n
          BY <3>2, <4>1, <4>3
        <4>4. QED
          BY <4>2, <4>3
      <3> HIDE DEF g
      <3>7. QED
        BY <3>4, <3>5, <3>6
    <2>3. QED
      BY <2>1, <2>2
  <1>2. L \in T
    <2> HIDE DEF T
    <2>1. QED
      BY <1>1, Induct
  <1>3. QED
    BY <1>2

LEMMA Ranks ==
  ASSUME NEW b \in Nat, NEW M \in SUBSET (1..b)
  PROVE  /\ IsFiniteSet(M) /\ Cardinality(M) \in Nat
         /\ \A i \in M : Cardinality({j \in M : j <= i}) \in 1..Cardinality(M)
         /\ \A i, l \in M : Cardinality({j \in M : j <= i}) = Cardinality({j \in M : j <= l}) => i = l
         /\ \A m \in 1..Cardinality(M) : \E i \in M : Cardinality({j \in M : j <= i}) = m
  <1> DEFINE Low(i) == {j \in M : j <= i}
             N == Cardinality(M)
             rank == [i \in M |-> Cardinality(Low(i))]
  <1>1. IsFiniteSet(M)
    <2>1. IsFiniteSet(1..b)
      BY FS_Interval
    <2>2. QED
      BY <2>1, FS_Subset
  <1>2. N \in Nat
    BY <1>1, FS_CardinalityType
  <1>3. ASSUME NEW i \in M
        PROVE  IsFiniteSet(Low(i)) /\ Cardinality(Low(i)) \in 1..N
    <2>1. Low(i) \in SUBSET M /\ Low(i) # {}
      <3>1. i \in Nat
        OBVIOUS
      <3>2. i \in Low(i)
        BY <3>1
      <3>3. QED
        BY <3>2
    <2> HIDE DEF Low
    <2>2. IsFiniteSet(Low(i)) /\ Cardinality(Low(i)) <= N
      BY <1>1, <2>1, FS_Subset
    <2>3. Cardinality(Low(i)) \in Nat /\ Cardinality(Low(i)) # 0
      BY <2>1, <2>2, FS_CardinalityType, FS_EmptySet
    <2>4. QED
      BY <1>2, <2>2, <2>3
  <1>4. ASSUME NEW i \in M, NEW l \in M, i < l
        PROVE  Cardinality(Low(i)) # Cardinality(Low(l))
    <2>1. Low(i) \in SUBSET Low(l) /\ Low(i) # Low(l)
      <3>1. M \subseteq Nat
        OBVIOUS
      <3>2. i \in Nat /\ l \in Nat
        OBVIOUS
      <3>3. l \in Low(l) /\ l \notin Low(i)
        BY <1>4, <3>2
      <3>4. ASSUME NEW j \in Low(i) PROVE j \in Low(l)
        <4>1. j \in M /\ j <= i /\ j \in Nat
          BY <3>1
        <4>2. j <= l
          BY <1>4, <3>2, <4>1
        <4>3. QED
          BY <4>1, <4>2
      <3> HIDE DEF Low
      <3>5. QED
        BY <3>3, <3>4
    <2>2. IsFiniteSet(Low(l))
      BY <1>3
    <2> HIDE DEF Low
    <2>3. QED
      BY <2>1, <2>2, FS_Subset
  <1>5. ASSUME NEW i \in M, NEW l \in M, Cardinality(Low(i)) = Cardinality(Low(l)) PROVE i = l
    <2>1. i \in Nat /\ l \in Nat
      OBVIOUS
    <2> HIDE DEF Low
    <2>2. QED
      BY <1>4, <1>5, <2>1
  <1>6. \A m \in 1..N : \E i \in M : Cardinality(Low(i)) = m
    <2>1. rank \in [M -> 1..N]
      BY <1>3
    <2>2. rank \in Injection(M, 1..N)
      <3>1. \A i, l \in M : rank[i] = rank[l] => i = l
        <4> HIDE DEF Low
        <4>1. QED
          BY <1>5
      <3> HIDE DEF rank
      <3>2. QED
        BY <2>1, <3>1 DEF Injection, IsInjective
    <2>3. IsFiniteSet(1..N) /\ Cardinality(1..N) = N
      <3> HIDE DEF N
      <3>1. IsFiniteSet(1..N) /\ Cardinality(1..N) = IF 1 > N THEN 0 ELSE N - 1 + 1
        BY <1>2, FS_Interval
      <3>2. QED
        BY <1>2, <3>1
    <2> HIDE DEF rank
    <2>4. rank \in Surjection(M, 1..N)
      BY <2>2, <2>3, FS_Injection
    <2>5. \A m \in 1..N : \E i \in M : rank[i] = m
      BY <2>4 DEF Surjection
    <2>6. QED
      BY <2>5 DEF rank
  <1> HIDE DEF Low, N
  <1>7. QED
    BY <1>1, <1>2, <1>3, <1>5, <1>6 DEF Low, N

-----------------------------------------------------------------------------
(***************************************************************************)
(* The walk of apply.                                                      *)
(***************************************************************************)
IsHeap(h) == h \in Seq([Key -> DOMAIN h \union Value \union {Absent}]) /\ h # << >>
IsPath(path) == path \in Seq(Key) /\ path # << >>

LEMMA HeapNodes ==
  ASSUME NEW h, IsHeap(h)
  PROVE  /\ Len(h) \in Nat /\ Len(h) > 0 /\ DOMAIN h = 1..Len(h) /\ 1 \in DOMAIN h
         /\ \A n \in DOMAIN h : h[n] \in [Key -> DOMAIN h \union Value \union {Absent}]
  BY DEF IsHeap

\* The first name is looked up in the root, every other one where the name before it
\* leads, or, when it leads nowhere, in the same map.
LEMMA SourceWalks ==
  ASSUME NEW h, NEW path, IsHeap(h), IsPath(path)
  PROVE  /\ Source(h, path) \in [1..Len(path) -> DOMAIN h]
         /\ Source(h, path)[1] = 1
         /\ \A i \in 1..Len(path) - 1 :
              Source(h, path)[i + 1] =
                IF Found(h, path, i) THEN h[Source(h, path)[i]][path[i]] ELSE Source(h, path)[i]
  <1> DEFINE L == Len(path)
             D == DOMAIN h
             Leads(n, i) == IF IsMap(h, h[n][path[i]]) THEN h[n][path[i]] ELSE n
             G == [i \in 1..L - 1 |-> [n \in D |-> Leads(n, i)]]
             Body(x) == [i \in 1..L |-> IF i = 1 THEN 1 ELSE Leads(x[i - 1], i - 1)]
             s == Source(h, path)
  <1>1. L \in Nat /\ L >= 1 /\ L - 1 \in Nat
    BY DEF IsPath
  <1>2. \A n \in D, i \in 1..L - 1 : Leads(n, i) \in D
    BY DEF IsMap
  <1>3. s = CHOOSE x : x = Body(x)
    BY DEF Source
  <1>4. \E x : x = Body(x)
    <2> HIDE DEF L, D, Leads
    <2>1. G \in [1..L - 1 -> [D -> D]]
      BY <1>2
    <2>2. 1 \in D
      BY HeapNodes DEF D
    <2> HIDE DEF G
    <2>3. PICK f \in [0..L - 1 -> D] : f[0] = 1 /\ \A i \in 1..L - 1 : f[i] = G[i][f[i - 1]]
      <3> DEFINE K == L - 1
      <3>1. K \in Nat /\ G \in [1..K -> [D -> D]]
        BY <1>1, <2>1
      <3> HIDE DEF K
      <3>2. \E f \in [0..K -> D] : f[0] = 1 /\ \A i \in 1..K : f[i] = G[i][f[i - 1]]
        BY <2>2, <3>1, RecursionExists
      <3>3. QED
        BY <3>2 DEF K
    <2> DEFINE x == [i \in 1..L |-> f[i - 1]]
    <2>4. ASSUME NEW i \in 1..L PROVE x[i] = IF i = 1 THEN 1 ELSE Leads(x[i - 1], i - 1)
      <3>1. CASE i = 1
        BY <1>1, <2>3, <3>1
      <3>2. CASE i # 1
        <4>1. i - 1 \in 1..L - 1 /\ i - 1 \in 1..L /\ (i - 1) - 1 \in 0..L - 1
          BY <1>1, <3>2
        <4>2. x[i] = f[i - 1] /\ x[i - 1] = f[(i - 1) - 1]
          BY <4>1
        <4>3. f[i - 1] = G[i - 1][f[(i - 1) - 1]]
          BY <2>3, <4>1
        <4>4. f[(i - 1) - 1] \in D
          BY <2>3, <4>1
        <4>5. G[i - 1][f[(i - 1) - 1]] = Leads(f[(i - 1) - 1], i - 1)
          BY <4>1, <4>4 DEF G
        <4>6. QED
          BY <3>2, <4>2, <4>3, <4>5
      <3>3. QED
        BY <3>1, <3>2
    <2>5. x = Body(x)
      BY <2>4
    <2>6. QED
      BY <2>5
  <1>5. s = Body(s)
    <2> HIDE DEF s, Body
    <2>1. QED
      BY <1>3, <1>4
  <1> HIDE DEF s
  <1>6. s[1] = 1
    BY <1>1, <1>5
  <1>7. ASSUME NEW i \in 1..L - 1 PROVE s[i + 1] = Leads(s[i], i)
    <2> HIDE DEF Leads, L
    <2>1. i + 1 \in 1..L /\ i + 1 # 1 /\ (i + 1) - 1 = i
      BY <1>1
    <2>2. s[i + 1] = IF i + 1 = 1 THEN 1 ELSE Leads(s[(i + 1) - 1], (i + 1) - 1)
      BY <1>5, <2>1
    <2>3. QED
      BY <2>1, <2>2
  <1>8. \A i \in 1..L : s[i] \in D
    <2> DEFINE T == {n \in Nat : n \in 1..L => s[n] \in D}
    <2>1. ASSUME NEW n \in Nat, \A m \in Nat : m < n => m \in T PROVE n \in T
      <3> SUFFICES ASSUME n \in 1..L PROVE s[n] \in D
        OBVIOUS
      <3>1. CASE n = 1
        BY <1>6, <3>1, HeapNodes
      <3>2. CASE n # 1
        <4> HIDE DEF Leads, L, D
        <4>1. n - 1 \in 1..L - 1 /\ n - 1 \in 1..L /\ n - 1 \in Nat /\ n - 1 < n /\ (n - 1) + 1 = n
          BY <1>1, <3>2
        <4>2. n - 1 \in T
          BY <2>1, <4>1
        <4>3. s[n - 1] \in D
          BY <4>1, <4>2
        <4>4. s[n] = Leads(s[n - 1], n - 1)
          BY <1>7, <4>1
        <4>5. QED
          BY <1>2, <4>1, <4>3, <4>4
      <3>3. QED
        BY <3>1, <3>2
    <2> HIDE DEF T
    <2>2. Nat \subseteq T
      BY <2>1, Induct
    <2>3. QED
      BY <1>1, <2>2 DEF T
  <1>9. s \in [1..L -> D]
    <2> HIDE DEF Leads, L, D
    <2>1. DOMAIN s = 1..L /\ s = [i \in 1..L |-> s[i]]
      BY <1>5
    <2>2. QED
      BY <1>8, <2>1
  <1>10. \A i \in 1..L - 1 : Leads(s[i], i) = IF Found(h, path, i) THEN h[s[i]][path[i]] ELSE s[i]
    BY DEF Found, s
  <1> HIDE DEF Leads
  <1>11. QED
    BY <1>6, <1>7, <1>9, <1>10 DEF s

-----------------------------------------------------------------------------
(***************************************************************************)
(* The heap a patch leaves.                                                *)
(***************************************************************************)
LEMMA NewMaps ==
  ASSUME NEW h, NEW path, IsHeap(h), IsPath(path)
  PROVE  /\ Missing(h, path) \subseteq 1..Len(path) - 1 /\ Cardinality(Missing(h, path)) \in Nat
         /\ \A i \in Missing(h, path) :
              NewMap(h, path, i) \in Len(h) + 1..Len(h) + Cardinality(Missing(h, path))
         /\ \A i, l \in Missing(h, path) : NewMap(h, path, i) = NewMap(h, path, l) => i = l
         /\ \A n \in Len(h) + 1..Len(h) + Cardinality(Missing(h, path)) :
              \E i \in Missing(h, path) : NewMap(h, path, i) = n
  <1> DEFINE M == Missing(h, path)
             b == Len(path) - 1
             C == Cardinality(M)
             r(i) == Cardinality({j \in M : j <= i})
  <1>1. b \in Nat /\ Len(h) \in Nat
    BY HeapNodes DEF IsPath
  <1>2. M \in SUBSET (1..b)
    BY DEF Missing
  <1>3. /\ C \in Nat
        /\ \A i \in M : r(i) \in 1..C
        /\ \A i, l \in M : r(i) = r(l) => i = l
        /\ \A m \in 1..C : \E i \in M : r(i) = m
    <2> HIDE DEF b, M
    <2>1. QED
      BY <1>1, <1>2, Ranks
  <1>4. \A i : NewMap(h, path, i) = Len(h) + r(i)
    BY DEF NewMap
  <1>5. ASSUME NEW n \in Len(h) + 1..Len(h) + C
        PROVE  \E i \in M : NewMap(h, path, i) = n
    <2> HIDE DEF M, C, r
    <2>1. n - Len(h) \in 1..C /\ n \in Int
      BY <1>1, <1>3
    <2>2. PICK i \in M : r(i) = n - Len(h)
      BY <1>3, <2>1
    <2>3. Len(h) + r(i) = n
      BY <1>1, <2>1, <2>2
    <2>4. QED
      BY <1>4, <2>3
  <1>6. ASSUME NEW i \in M PROVE NewMap(h, path, i) \in Len(h) + 1..Len(h) + C
    <2> HIDE DEF M, C, r
    <2>1. QED
      BY <1>1, <1>3, <1>4
  <1>7. ASSUME NEW i \in M, NEW l \in M, NewMap(h, path, i) = NewMap(h, path, l) PROVE i = l
    <2> HIDE DEF M, C, r
    <2>1. r(i) \in Nat /\ r(l) \in Nat
      BY <1>3
    <2>2. Len(h) + r(i) = Len(h) + r(l)
      BY <1>4, <1>7
    <2>3. r(i) = r(l)
      BY <1>1, <2>1, <2>2
    <2>4. QED
      BY <1>3, <2>3
  <1> HIDE DEF r
  <1>8. QED
    BY <1>2, <1>3, <1>5, <1>6, <1>7

IsPatch(patch) == patch.from \in Value /\ IsPath(patch.to)

\* The maps that are there after a patch to `path`, and what they may hold.
Nodes(h, path) == 1..Len(h) + Cardinality(Missing(h, path))
Maps(h, path) == [Key -> Nodes(h, path) \union Value \union {Absent}]

LEMMA PropertyType ==
  ASSUME NEW h, NEW patch, IsHeap(h), IsPatch(patch), NEW i \in 1..Len(patch.to)
  PROVE  /\ Property(h, patch, i) \in Nodes(h, patch.to) \union Value
         /\ i # Len(patch.to) => Property(h, patch, i) \in Nodes(h, patch.to)
  <1> DEFINE L == Len(patch.to)
             M == Missing(h, patch.to)
  <1>0. IsPath(patch.to) /\ patch.from \in Value /\ L \in Nat
    BY DEF IsPatch, IsPath
  <1>1. Len(h) \in Nat /\ DOMAIN h = 1..Len(h) /\ Cardinality(M) \in Nat
    BY <1>0, HeapNodes, NewMaps
  <1>2. DOMAIN h \subseteq Nodes(h, patch.to)
    BY <1>1 DEF Nodes
  <1>3. CASE i = L
    BY <1>0, <1>3 DEF Property
  <1>4. CASE i # L /\ i \in M
    <2>1. NewMap(h, patch.to, i) \in Len(h) + 1..Len(h) + Cardinality(M)
      BY <1>0, <1>4, NewMaps
    <2>2. NewMap(h, patch.to, i) \in Nodes(h, patch.to)
      <3> HIDE DEF M
      <3>1. QED
        BY <1>1, <2>1 DEF Nodes, M
    <2>3. QED
      BY <1>4, <2>2 DEF Property
  <1>5. CASE i # L /\ i \notin M
    <2>1. i \in 1..L - 1
      BY <1>0, <1>5
    <2>2. Found(h, patch.to, i)
      BY <1>5, <2>1 DEF Missing
    <2>3. Property(h, patch, i) \in DOMAIN h
      BY <1>5, <2>2 DEF Property, Found, IsMap
    <2>4. QED
      BY <1>2, <2>3
  <1>6. QED
    BY <1>3, <1>4, <1>5

\* The new map for a name that was missing: it holds the rest of the path.
New(h, patch, i) ==
  [k \in Key |-> IF k = patch.to[i + 1] THEN Property(h, patch, i + 1) ELSE Absent]

LEMMA MapTypes ==
  ASSUME NEW h, NEW patch, IsHeap(h), IsPatch(patch)
  PROVE  /\ \A n \in DOMAIN h : h[n] \in Maps(h, patch.to)
         /\ \A n \in DOMAIN h : \A i \in SetIn(h, patch.to, n) : Set(h, patch, n, i) \in Maps(h, patch.to)
         /\ \A i \in Missing(h, patch.to) : New(h, patch, i) \in Maps(h, patch.to)
  <1> DEFINE N == Nodes(h, patch.to)
             path == patch.to
  <1>0. IsPath(path) /\ path \in Seq(Key) /\ Len(path) \in Nat
    BY DEF IsPatch, IsPath
  <1>1. DOMAIN h \subseteq N
    <2>1. Len(h) \in Nat /\ DOMAIN h = 1..Len(h) /\ Cardinality(Missing(h, path)) \in Nat
      BY <1>0, HeapNodes, NewMaps
    <2>2. QED
      BY <2>1 DEF Nodes
  <1>2. \A i \in 1..Len(path) : Property(h, patch, i) \in N \union Value
    BY PropertyType
  <1> HIDE DEF N
  <1>3. \A n \in DOMAIN h : h[n] \in [Key -> N \union Value \union {Absent}]
    BY <1>1, HeapNodes
  <1>4. ASSUME NEW n \in DOMAIN h, NEW i \in SetIn(h, path, n)
        PROVE  Set(h, patch, n, i) \in [Key -> N \union Value \union {Absent}]
    <2>1. i \in 1..Len(path)
      BY DEF SetIn
    <2>2. QED
      BY <1>2, <1>3, <2>1 DEF Set
  <1>5. ASSUME NEW i \in Missing(h, path)
        PROVE  New(h, patch, i) \in [Key -> N \union Value \union {Absent}]
    <2>1. i + 1 \in 1..Len(path)
      BY <1>0 DEF Missing
    <2> DEFINE x == Property(h, patch, i + 1)
    <2>2. x \in N \union Value
      BY <1>2, <2>1
    <2> HIDE DEF x
    <2>3. [k \in Key |-> IF k = path[i + 1] THEN x ELSE Absent] \in [Key -> N \union Value \union {Absent}]
      BY <2>2
    <2>4. QED
      BY <2>3 DEF New, x
  <1>6. QED
    BY <1>3, <1>4, <1>5 DEF Maps, N

LEMMA Applying ==
  ASSUME NEW h, NEW patch, IsHeap(h), IsPatch(patch)
  PROVE  /\ ApplyTo(h, patch) \in Seq(Maps(h, patch.to))
         /\ DOMAIN ApplyTo(h, patch) = Nodes(h, patch.to)
         /\ \A n \in DOMAIN h :
              IF SetIn(h, patch.to, n) = {} THEN ApplyTo(h, patch)[n] = h[n]
              ELSE \E i \in SetIn(h, patch.to, n) : ApplyTo(h, patch)[n] = Set(h, patch, n, i)
         /\ \A i \in Missing(h, patch.to) :
              ApplyTo(h, patch)[NewMap(h, patch.to, i)] = New(h, patch, i)
  <1> DEFINE path == patch.to
             M == Missing(h, path)
             C == Cardinality(M)
             S == Maps(h, path)
             In(n) == SetIn(h, path, n)
             Old(n) == IF \E i \in In(n) : TRUE
                         THEN Set(h, patch, n, CHOOSE i \in In(n) : TRUE) ELSE h[n]
             At_(m) == CHOOSE j \in M : NewMap(h, path, j) = Len(h) + m
             A == [n \in 1..Len(h) |-> Old(n)]
             B == [m \in 1..C |-> New(h, patch, At_(m))]
             H == ApplyTo(h, patch)
  <1>1. H = A \o B
    BY DEF ApplyTo, New
  <1>2. Len(h) \in Nat /\ DOMAIN h = 1..Len(h) /\ C \in Nat /\ IsPath(path)
    BY HeapNodes, NewMaps DEF IsPatch
  <1>3. /\ \A n \in DOMAIN h : h[n] \in S
        /\ \A n \in DOMAIN h : \A i \in In(n) : Set(h, patch, n, i) \in S
        /\ \A i \in M : New(h, patch, i) \in S
    BY MapTypes
  <1>4. ASSUME NEW n \in DOMAIN h
        PROVE  /\ In(n) = {} => Old(n) = h[n]
               /\ In(n) # {} => \E i \in In(n) : Old(n) = Set(h, patch, n, i)
               /\ Old(n) \in S
    <2> HIDE DEF In, S
    <2>1. CASE In(n) = {}
      BY <1>3, <2>1
    <2>2. CASE In(n) # {}
      <3>1. (CHOOSE i \in In(n) : TRUE) \in In(n)
        BY <2>2
      <3>2. QED
        BY <1>3, <2>2, <3>1
    <2>3. QED
      BY <2>1, <2>2
  <1>5. ASSUME NEW m \in 1..C
        PROVE  At_(m) \in M /\ NewMap(h, path, At_(m)) = Len(h) + m
    <2>1. Len(h) + m \in Len(h) + 1..Len(h) + C
      <3> HIDE DEF C
      <3>1. QED
        BY <1>2
    <2>2. \E j \in M : NewMap(h, path, j) = Len(h) + m
      BY <1>2, <2>1, NewMaps
    <2> HIDE DEF M
    <2>3. QED
      BY <2>2
  <1> HIDE DEF Old, At_, S, C, H
  <1>6. A \in Seq(S) /\ Len(A) = Len(h)
    BY <1>2, <1>4
  <1>7. B \in Seq(S) /\ Len(B) = C
    BY <1>2, <1>3, <1>5
  <1> DEFINE a == A
             b == B
  <1>8. /\ \A n \in 1..Len(h) : a[n] = Old(n)
        /\ \A m \in 1..C : b[m] = New(h, patch, At_(m))
    OBVIOUS
  <1>9. H = a \o b /\ a \in Seq(S) /\ b \in Seq(S) /\ Len(a) = Len(h) /\ Len(b) = C
    BY <1>1, <1>6, <1>7
  <1> HIDE DEF a, b
  <1>10. /\ H \in Seq(S) /\ Len(H) = Len(h) + C
         /\ \A i \in 1..Len(h) + C : H[i] = IF i <= Len(h) THEN a[i] ELSE b[i - Len(h)]
    <2> DEFINE j == a \o b
    <2>1. /\ j \in Seq(S) /\ Len(j) = Len(a) + Len(b)
          /\ \A i \in 1..Len(a) + Len(b) : j[i] = IF i <= Len(a) THEN a[i] ELSE b[i - Len(a)]
      BY <1>9, ConcatProperties
    <2>2. H = j
      BY <1>9
    <2> HIDE DEF j
    <2>3. QED
      BY <1>9, <2>1, <2>2
  <1>11. \A n \in DOMAIN h : H[n] = Old(n)
    BY <1>2, <1>8, <1>10
  <1>12. DOMAIN H = 1..Len(h) + C
    BY <1>10
  <1>13. ASSUME NEW i \in M PROVE H[NewMap(h, path, i)] = New(h, patch, i)
    <2> DEFINE n == NewMap(h, path, i)
               m == n - Len(h)
    <2>1. n \in Len(h) + 1..Len(h) + C
      BY <1>2, NewMaps DEF C
    <2> HIDE DEF n
    <2>2. m \in 1..C /\ n \in 1..Len(h) + C /\ ~(n <= Len(h)) /\ Len(h) + m = n
      BY <1>2, <2>1
    <2>3. H[n] = New(h, patch, At_(m))
      BY <1>8, <1>10, <2>2
    <2>4. At_(m) \in M /\ NewMap(h, path, At_(m)) = NewMap(h, path, i)
      BY <1>5, <2>2 DEF n
    <2>5. At_(m) = i
      BY <1>2, <2>4, NewMaps
    <2>6. QED
      BY <2>3, <2>5 DEF n
  <1>14. QED
    BY <1>4, <1>10, <1>11, <1>12, <1>13 DEF H, S, C, Nodes

LEMMA HeapStep ==
  ASSUME NEW h, NEW patch, IsHeap(h), IsPatch(patch)
  PROVE  IsHeap(ApplyTo(h, patch))
  <1> DEFINE H == ApplyTo(h, patch)
  <1>1. H \in Seq(Maps(h, patch.to)) /\ DOMAIN H = Nodes(h, patch.to)
    BY Applying
  <1>2. H # << >>
    <2>1. Len(h) \in Nat /\ Len(h) > 0 /\ Cardinality(Missing(h, patch.to)) \in Nat
      BY HeapNodes, NewMaps DEF IsPatch
    <2>2. 1 \in DOMAIN H
      BY <1>1, <2>1 DEF Nodes
    <2> HIDE DEF H
    <2>3. QED
      BY <2>2
  <1> HIDE DEF H
  <1>3. QED
    BY <1>1, <1>2 DEF IsHeap, Maps, H

-----------------------------------------------------------------------------
(***************************************************************************)
(* The heap is always one of maps that hold maps of the heap, and values.  *)
(***************************************************************************)
LEMMA PatchIs ==
  ASSUME NEW patch \in Patch
  PROVE  IsPatch(patch)
  <1>1. PICK k \in 1..MaxLength : patch.to \in [1..k -> Key]
    BY DEF Patch, Paths
  <1>2. k \in Nat /\ k # 0
    BY PatchesAssumption
  <1>3. patch.to \in Seq(Key) /\ patch.to # << >>
    BY <1>1, <1>2
  <1>4. QED
    BY <1>3 DEF Patch, IsPatch, IsPath

TypeInv ==
  /\ IsHeap(heap) /\ patches \in Seq(Patch)
  /\ last \in Patch \union {Absent} /\ straight \in BOOLEAN

LEMMA TypeInit == Init => TypeInv
  <1> SUFFICES ASSUME Init PROVE TypeInv
    OBVIOUS
  <1>1. IsHeap(heap)
    BY PatchesAssumption DEF Init, IsHeap
  <1>2. patches \in Seq(Patch)
    <2>1. PICK k \in 0..MaxPatches : patches \in [1..k -> Patch]
      BY DEF Init
    <2>2. QED
      BY <2>1, PatchesAssumption
  <1>3. QED
    BY <1>1, <1>2 DEF Init, TypeInv

LEMMA TypeStep == TypeInv /\ [Next]_vars => TypeInv'
  <1> SUFFICES ASSUME TypeInv, [Next]_vars PROVE TypeInv'
    OBVIOUS
  <1>1. CASE Next
    <2>1. patches \in Seq(Patch) /\ patches # << >>
      BY <1>1 DEF Next, ApplyNext, TypeInv
    <2>2. Head(patches) \in Patch /\ Tail(patches) \in Seq(Patch)
      BY <2>1
    <2>3. IsHeap(heap')
      BY <1>1, <2>2, HeapStep, PatchIs DEF Next, ApplyNext, TypeInv
    <2>4. straight' \in BOOLEAN
      BY <1>1 DEF Next, ApplyNext, TypeInv
    <2>5. QED
      BY <1>1, <2>2, <2>3, <2>4 DEF Next, ApplyNext, TypeInv
  <1>2. CASE UNCHANGED vars
    BY <1>2 DEF vars, TypeInv
  <1>3. QED
    BY <1>1, <1>2

\* Whatever a patch adds, sets or replaces, no map of the status is left to refer
\* to one that is not there.
THEOREM PatchesTyped == Spec => []TypeOK
  <1>1. TypeInv => TypeOK
    BY HeapNodes DEF TypeInv, TypeOK
  <1>2. QED
    BY <1>1, TypeInit, TypeStep, PTL DEF Spec

-----------------------------------------------------------------------------
(***************************************************************************)
(* The maps lie at depths, so a walk never comes back to one it left.      *)
(***************************************************************************)
Deepens(h, depth) ==
  /\ depth \in [DOMAIN h -> Nat]
  /\ \A n \in DOMAIN h, k \in Key : h[n][k] \in DOMAIN h => depth[n] < depth[h[n][k]]
Acyclic(h) == \E depth : Deepens(h, depth)

\* The i-th name of the path is set in a map that was there.
Old(h, path, i) == i = 1 \/ i - 1 \notin Missing(h, path)

LEMMA OldLevels ==
  ASSUME NEW h, NEW path, IsHeap(h), IsPath(path), NEW i \in 1..Len(path)
  PROVE  /\ Source(h, path)[i] \in DOMAIN h
         /\ \A n : i \in SetIn(h, path, n) <=> Old(h, path, i) /\ n = Source(h, path)[i]
         /\ i \in 2..Len(path) /\ Old(h, path, i) =>
              Source(h, path)[i] = h[Source(h, path)[i - 1]][path[i - 1]]
         /\ ~Old(h, path, i) => i - 1 \in Missing(h, path) /\ Source(h, path)[i] = Source(h, path)[i - 1]
  <1> DEFINE s == Source(h, path)
             L == Len(path)
             M == Missing(h, path)
  <1>0. L \in Nat /\ M \subseteq 1..L - 1 /\ \A j \in 1..L - 1 : j \in M <=> ~Found(h, path, j)
    BY DEF IsPath, Missing
  <1>1. /\ s \in [1..L -> DOMAIN h] /\ s[1] = 1
        /\ \A j \in 1..L - 1 : s[j + 1] = IF Found(h, path, j) THEN h[s[j]][path[j]] ELSE s[j]
    BY SourceWalks
  <1>2. ASSUME i # 1
        PROVE  s[i] = IF i - 1 \in M THEN s[i - 1] ELSE h[s[i - 1]][path[i - 1]]
    <2> HIDE DEF s, L, M
    <2>1. i - 1 \in 1..L - 1 /\ (i - 1) + 1 = i
      BY <1>0, <1>2 DEF L
    <2>2. QED
      BY <1>0, <1>1, <2>1
  <1>3. \A n : i \in SetIn(h, path, n) <=>
               IF i = 1 THEN n = 1 ELSE i - 1 \notin M /\ n = h[s[i - 1]][path[i - 1]]
    BY DEF SetIn
  <1> HIDE DEF s, M
  <1>4. QED
    BY <1>0, <1>1, <1>2, <1>3 DEF Old, s, M

LEMMA Deeper ==
  ASSUME NEW h, NEW path, IsHeap(h), IsPath(path), NEW depth, Deepens(h, depth),
         NEW i \in 1..Len(path), NEW j \in 1..Len(path), i < j
  PROVE  /\ depth[Source(h, path)[i]] <= depth[Source(h, path)[j]]
         /\ Old(h, path, j) => depth[Source(h, path)[i]] < depth[Source(h, path)[j]]
  <1> DEFINE s == Source(h, path)
             L == Len(path)
             d(l) == depth[s[l]]
             P(m) == \A l \in 1..L : l < m => d(l) <= d(m) /\ (Old(h, path, m) => d(l) < d(m))
             T == {m \in Nat : m \in 1..L => P(m)}
  <1>0. L \in Nat /\ \A l \in 1..L : s[l] \in DOMAIN h /\ d(l) \in Nat
    BY OldLevels DEF Deepens, IsPath
  <1>1. ASSUME NEW m \in Nat, \A l \in Nat : l < m => l \in T PROVE m \in T
    <2> SUFFICES ASSUME m \in 1..L, NEW l \in 1..L, l < m
                 PROVE  d(l) <= d(m) /\ (Old(h, path, m) => d(l) < d(m))
      OBVIOUS
    <2>1. m \in 2..L /\ m - 1 \in 1..L /\ m - 1 \in Nat /\ m - 1 < m
      BY <1>0
    <2>2. d(l) <= d(m - 1)
      <3>1. m - 1 \in T
        BY <1>1, <2>1
      <3>2. CASE l = m - 1
        BY <1>0, <3>2
      <3>3. CASE l # m - 1
        <4>1. l < m - 1
          BY <2>1, <3>3
        <4> HIDE DEF d
        <4>2. QED
          BY <2>1, <3>1, <4>1
      <3>4. QED
        BY <3>2, <3>3
    <2>3. CASE Old(h, path, m)
      <3>1. s[m] = h[s[m - 1]][path[m - 1]] /\ s[m] \in DOMAIN h /\ s[m - 1] \in DOMAIN h
        BY <1>0, <2>1, <2>3, OldLevels
      <3>2. path[m - 1] \in Key
        BY <2>1 DEF IsPath
      <3>3. d(m - 1) < d(m)
        BY <3>1, <3>2 DEF Deepens
      <3>4. d(l) \in Nat /\ d(m) \in Nat /\ d(m - 1) \in Nat
        BY <1>0, <2>1
      <3> HIDE DEF d
      <3>5. QED
        BY <2>2, <3>3, <3>4
    <2>4. CASE ~Old(h, path, m)
      <3>1. s[m] = s[m - 1]
        BY <2>4, OldLevels
      <3>2. QED
        BY <2>2, <2>4, <3>1
    <2>5. QED
      BY <2>3, <2>4
  <1>2. j \in T
    <2> HIDE DEF T
    <2>1. Nat \subseteq T
      BY <1>1, Induct
    <2>2. QED
      BY <1>0, <2>1
  <1>3. P(j)
    BY <1>2
  <1>4. QED
    BY <1>3

\* No two names of a path are set in the same map.
LEMMA OneLevel ==
  ASSUME NEW h, NEW path, IsHeap(h), IsPath(path), Acyclic(h), NEW n,
         NEW i \in SetIn(h, path, n), NEW j \in SetIn(h, path, n)
  PROVE  i = j
  <1>1. PICK depth : Deepens(h, depth)
    BY DEF Acyclic
  <1>2. i \in 1..Len(path) /\ j \in 1..Len(path)
    BY DEF SetIn
  <1>3. /\ Old(h, path, i) /\ n = Source(h, path)[i]
        /\ Old(h, path, j) /\ n = Source(h, path)[j] /\ n \in DOMAIN h
    BY <1>2, OldLevels
  <1>4. depth[n] \in Nat
    BY <1>1, <1>3 DEF Deepens
  <1>5. ASSUME NEW l \in {i, j}, NEW m \in {i, j}, l < m PROVE FALSE
    <2>1. l \in 1..Len(path) /\ m \in 1..Len(path) /\ Old(h, path, m)
      BY <1>2, <1>3
    <2>2. depth[Source(h, path)[l]] < depth[Source(h, path)[m]]
      BY <1>1, <1>5, <2>1, Deeper
    <2>3. Source(h, path)[l] = n /\ Source(h, path)[m] = n
      BY <1>3
    <2>4. depth[n] < depth[n]
      BY <2>2, <2>3
    <2>5. QED
      BY <1>4, <2>4
  <1>6. QED
    BY <1>2, <1>5

\* The map the i-th name of the path is set in.
Node(h, patch, i) == IF i = 1 THEN 1 ELSE Property(h, patch, i - 1)

LEMMA OldNode ==
  ASSUME NEW h, NEW patch, IsHeap(h), IsPatch(patch), NEW i \in 1..Len(patch.to),
         Old(h, patch.to, i)
  PROVE  Node(h, patch, i) = Source(h, patch.to)[i]
  <1>0. IsPath(patch.to) /\ Len(patch.to) \in Nat
    BY DEF IsPatch, IsPath
  <1>1. CASE i = 1
    BY <1>0, <1>1, SourceWalks DEF Node
  <1>2. CASE i # 1
    <2>1. i \in 2..Len(patch.to) /\ i - 1 # Len(patch.to) /\ i - 1 \notin Missing(h, patch.to)
      BY <1>0, <1>2 DEF Old
    <2>2. Property(h, patch, i - 1) = h[Source(h, patch.to)[i - 1]][patch.to[i - 1]]
      BY <2>1 DEF Property
    <2>3. QED
      BY <1>0, <1>2, <2>1, <2>2, OldLevels DEF Node
  <1>3. QED
    BY <1>1, <1>2

LEMMA Levels ==
  ASSUME NEW h, NEW patch, IsHeap(h), IsPatch(patch), Acyclic(h), NEW i \in 1..Len(patch.to)
  PROVE  /\ Node(h, patch, i) \in DOMAIN ApplyTo(h, patch)
         /\ ApplyTo(h, patch)[Node(h, patch, i)][patch.to[i]] = Property(h, patch, i)
  <1> DEFINE path == patch.to
             s == Source(h, path)
             M == Missing(h, path)
             H == ApplyTo(h, patch)
             n == Node(h, patch, i)
             L == Len(path)
  <1>0. IsPath(path) /\ L \in Nat /\ path[i] \in Key /\ path \in Seq(Key)
    BY DEF IsPatch, IsPath
  <1>1. n \in DOMAIN H
    <2>1. CASE i = 1
      <3>1. 1 \in DOMAIN H
        BY HeapStep, HeapNodes
      <3>2. QED
        BY <2>1, <3>1 DEF Node
    <2>2. CASE i # 1
      <3>1. i - 1 \in 1..L /\ i - 1 # L
        BY <1>0, <2>2
      <3>2. QED
        BY <2>2, <3>1, Applying, PropertyType DEF Node
    <2>3. QED
      BY <2>1, <2>2
  <1>2. CASE Old(h, path, i)
    <2>1. n = s[i] /\ n \in DOMAIN h
      BY <1>0, <1>2, OldLevels, OldNode
    <2>2. i \in SetIn(h, path, n)
      BY <1>0, <1>2, <2>1, OldLevels
    <2>3. \A j \in SetIn(h, path, n) : j = i
      BY <1>0, <2>2, OneLevel
    <2>4. H[n] = Set(h, patch, n, i)
      BY <2>1, <2>2, <2>3, Applying
    <2>5. h[n] \in [Key -> DOMAIN h \union Value \union {Absent}]
      BY <2>1, HeapNodes
    <2>6. QED
      BY <1>0, <1>1, <2>4, <2>5 DEF Set
  <1>3. CASE ~Old(h, path, i)
    <2>1. i - 1 \in M /\ i # 1
      BY <1>3 DEF Old
    <2>2. i - 1 # L /\ (i - 1) + 1 = i
      BY <1>0
    <2>3. n = NewMap(h, path, i - 1)
      BY <2>1, <2>2 DEF Node, Property
    <2>4. H[n] = New(h, patch, i - 1)
      BY <2>1, <2>3, Applying
    <2>5. QED
      BY <1>0, <1>1, <2>2, <2>4 DEF New
  <1>4. QED
    BY <1>2, <1>3

\* What a map leads to after a patch is what it led to before, or the next map of
\* the path.
LEMMA Edges ==
  ASSUME NEW h, NEW patch, IsHeap(h), IsPatch(patch), Acyclic(h),
         NEW n \in DOMAIN ApplyTo(h, patch), NEW k \in Key,
         ApplyTo(h, patch)[n][k] \in DOMAIN ApplyTo(h, patch)
  PROVE  \/ n \in DOMAIN h /\ h[n][k] \in DOMAIN h /\ ApplyTo(h, patch)[n][k] = h[n][k]
         \/ \E i \in 1..Len(patch.to) - 1 :
              /\ n = Node(h, patch, i) /\ k = patch.to[i]
              /\ ApplyTo(h, patch)[n][k] = Node(h, patch, i + 1)
  <1> DEFINE path == patch.to
             H == ApplyTo(h, patch)
             L == Len(path)
             C == Cardinality(Missing(h, path))
             c == H[n][k]
  <1>0. IsPath(path) /\ L \in Nat /\ path \in Seq(Key) /\ patch.from \in Value
    BY DEF IsPatch, IsPath
  <1>1. Len(h) \in Nat /\ DOMAIN h = 1..Len(h) /\ C \in Nat /\ DOMAIN H = 1..Len(h) + C
    BY <1>0, HeapNodes, NewMaps, Applying DEF Nodes
  <1>2. c \in Nat /\ c \notin Value \union {Absent}
    BY <1>1, PatchesAssumption
  <1>3. ASSUME NEW i \in 1..L, n = Node(h, patch, i), k = path[i], c = Property(h, patch, i)
        PROVE  \E l \in 1..L - 1 :
                 n = Node(h, patch, l) /\ k = path[l] /\ c = Node(h, patch, l + 1)
    <2>1. i # L
      BY <1>0, <1>2, <1>3 DEF Property
    <2>2. i \in 1..L - 1 /\ i + 1 # 1 /\ (i + 1) - 1 = i
      BY <1>0, <2>1
    <2>3. c = Node(h, patch, i + 1)
      BY <1>3, <2>2 DEF Node
    <2>4. QED
      BY <1>3, <2>2, <2>3
  <1>4. CASE n \in DOMAIN h
    <2>1. h[n] \in [Key -> DOMAIN h \union Value \union {Absent}]
      BY <1>4, HeapNodes
    <2>2. CASE SetIn(h, path, n) = {}
      <3>1. c = h[n][k]
        BY <1>4, <2>2, Applying
      <3>2. QED
        BY <1>2, <1>4, <2>1, <3>1
    <2>3. CASE SetIn(h, path, n) # {}
      <3>1. PICK i \in SetIn(h, path, n) : H[n] = Set(h, patch, n, i)
        BY <1>4, <2>3, Applying
      <3>2. i \in 1..L
        BY DEF SetIn
      <3>3. CASE k = path[i]
        <4>1. c = Property(h, patch, i)
          BY <2>1, <3>1, <3>3 DEF Set
        <4>2. n = Node(h, patch, i)
          BY <1>0, <3>2, OldLevels, OldNode
        <4>3. QED
          BY <1>3, <3>2, <3>3, <4>1, <4>2
      <3>4. CASE k # path[i]
        <4>1. c = h[n][k]
          BY <2>1, <3>1, <3>4 DEF Set
        <4>2. QED
          BY <1>2, <1>4, <2>1, <4>1
      <3>5. QED
        BY <3>3, <3>4
    <2>4. QED
      BY <2>2, <2>3
  <1>5. CASE n \notin DOMAIN h
    <2>1. n \in Len(h) + 1..Len(h) + C
      BY <1>1, <1>5
    <2>2. PICK i \in Missing(h, path) : NewMap(h, path, i) = n
      BY <1>0, <2>1, NewMaps
    <2>3. H[n] = New(h, patch, i)
      BY <2>2, Applying
    <2>4. i \in 1..L - 1 /\ i + 1 \in 1..L /\ i # L /\ i + 1 # 1 /\ (i + 1) - 1 = i
      BY <1>0 DEF Missing
    <2>5. c = IF k = path[i + 1] THEN Property(h, patch, i + 1) ELSE Absent
      BY <2>3 DEF New
    <2>6. c = Property(h, patch, i + 1) /\ k = path[i + 1]
      BY <1>2, <2>5
    <2>7. n = Node(h, patch, i + 1)
      BY <2>2, <2>4 DEF Node, Property
    <2>8. QED
      BY <1>3, <2>4, <2>6, <2>7
  <1>6. QED
    BY <1>4, <1>5

LEMMA Times ==
  ASSUME NEW a \in Nat, NEW b \in Nat, NEW K \in Nat
  PROVE  /\ a * K \in Nat
         /\ a < b => \A e \in 0..K - 1 : a * K + e < b * K
  <1>1. \A x, y \in Nat : x * y \in Nat
    OBVIOUS
  <1>2. ASSUME a < b, NEW e \in 0..K - 1 PROVE a * K + e < b * K
    <2> DEFINE r == b - (a + 1)
    <2>1. r \in Nat /\ b = (a + 1) + r
      BY <1>2
    <2>2. ((a + 1) + r) * K = (a * K + K) + r * K
      BY <2>1
    <2>3. a * K \in Nat /\ r * K \in Nat /\ b * K \in Nat
      BY <1>1, <2>1
    <2> DEFINE p == a * K
               q == r * K
               w == b * K
    <2>4. w = (p + K) + q
      BY <2>1, <2>2
    <2> HIDE DEF p, q, w, r
    <2>5. p + e < w
      BY <2>3, <2>4 DEF p, q, w
    <2>6. QED
      BY <2>5 DEF p, w
  <1>3. QED
    BY <1>1, <1>2

\* The maps a patch makes lie between the map they are put in and the next depth.
LEMMA AcyclicStep ==
  ASSUME NEW h, NEW patch, IsHeap(h), IsPatch(patch), Acyclic(h)
  PROVE  Acyclic(ApplyTo(h, patch))
  <1> DEFINE path == patch.to
             H == ApplyTo(h, patch)
             M == Missing(h, path)
             L == Len(path)
             s == Source(h, path)
             K == L + 1
             C == Cardinality(M)
  <1>0. IsPath(path) /\ L \in Nat /\ K \in Nat
    BY DEF IsPatch, IsPath
  <1>1. PICK depth : Deepens(h, depth)
    BY DEF Acyclic
  <1> DEFINE At_(n) == CHOOSE i \in M : NewMap(h, path, i) = n
             high(n) == depth[n] * K
             deep == [n \in DOMAIN H |-> IF n \in DOMAIN h THEN high(n) ELSE high(s[At_(n)]) + At_(n)]
  <1>2. Len(h) \in Nat /\ DOMAIN h = 1..Len(h) /\ C \in Nat /\ DOMAIN H = 1..Len(h) + C
    BY <1>0, HeapNodes, NewMaps, Applying DEF Nodes
  <1>3. \A i \in 1..L : s[i] \in DOMAIN h
    BY <1>0, OldLevels
  <1>4. \A n \in DOMAIN h : depth[n] \in Nat /\ high(n) \in Nat
    BY <1>0, <1>1, Times DEF Deepens
  <1>5. ASSUME NEW i \in M
        PROVE  /\ i \in 1..L - 1 /\ NewMap(h, path, i) \in DOMAIN H /\ NewMap(h, path, i) \notin DOMAIN h
               /\ At_(NewMap(h, path, i)) = i
    <2>1. i \in 1..L - 1
      BY DEF Missing
    <2>2. NewMap(h, path, i) \in Len(h) + 1..Len(h) + C
      BY <1>0, NewMaps
    <2>3. At_(NewMap(h, path, i)) = i
      <3> DEFINE n == NewMap(h, path, i)
      <3>1. At_(n) \in M /\ NewMap(h, path, At_(n)) = n
        OBVIOUS
      <3>2. QED
        BY <1>0, <3>1, NewMaps
    <2> HIDE DEF M, C
    <2>4. QED
      BY <1>2, <2>1, <2>2, <2>3
  <1>6. \A n \in DOMAIN H : n \notin DOMAIN h => \E i \in M : n = NewMap(h, path, i)
    <2> SUFFICES ASSUME NEW n \in DOMAIN H, n \notin DOMAIN h
                 PROVE  \E i \in M : n = NewMap(h, path, i)
      OBVIOUS
    <2>1. n \in Len(h) + 1..Len(h) + C
      <3> HIDE DEF C, H
      <3>1. QED
        BY <1>2
    <2>2. QED
      BY <1>0, <2>1, NewMaps
  <1> HIDE DEF H, M, C, K, high, At_
  <1>7. ASSUME NEW n \in DOMAIN h PROVE deep[n] = high(n) /\ n \in DOMAIN H
    BY <1>2
  <1>8. ASSUME NEW i \in M
        PROVE  /\ deep[NewMap(h, path, i)] = high(s[i]) + i
               /\ high(s[i]) \in Nat /\ i \in 1..L - 1
    <2>1. i \in 1..L
      BY <1>0, <1>5
    <2>2. QED
      BY <1>3, <1>4, <1>5, <2>1
  <1>9. deep \in [DOMAIN H -> Nat]
    <2>1. ASSUME NEW n \in DOMAIN H PROVE deep[n] \in Nat
      <3>1. CASE n \in DOMAIN h
        BY <1>4, <1>7, <3>1
      <3>2. CASE n \notin DOMAIN h
        <4>1. PICK i \in M : n = NewMap(h, path, i)
          BY <1>6, <3>2
        <4> HIDE DEF deep
        <4>2. QED
          BY <1>0, <1>8, <4>1
      <3>3. QED
        BY <3>1, <3>2
    <2>2. QED
      BY <2>1
  <1> HIDE DEF deep
  <1>10. ASSUME NEW i \in 1..L
         PROVE  deep[Node(h, patch, i)] = IF Old(h, path, i) THEN high(s[i]) ELSE high(s[i]) + (i - 1)
    <2>1. CASE Old(h, path, i)
      <3>1. Node(h, patch, i) = s[i]
        BY <2>1, OldNode
      <3>2. QED
        BY <1>3, <1>7, <2>1, <3>1
    <2>2. CASE ~Old(h, path, i)
      <3>1. i - 1 \in M /\ i # 1 /\ s[i] = s[i - 1]
        BY <1>0, <2>2, OldLevels DEF Old, M
      <3>2. i - 1 # L
        BY <1>0
      <3>3. Node(h, patch, i) = NewMap(h, path, i - 1)
        BY <3>1, <3>2 DEF Node, Property, M
      <3>4. QED
        BY <1>8, <2>2, <3>1, <3>3
    <2>3. QED
      BY <2>1, <2>2
  <1>11. ASSUME NEW i \in 1..L - 1
         PROVE  deep[Node(h, patch, i)] < deep[Node(h, patch, i + 1)]
    <2>1. i \in 1..L /\ i + 1 \in 1..L /\ i < i + 1 /\ (i + 1) - 1 = i
      BY <1>0
    <2> DEFINE x == high(s[i])
               y == high(s[i + 1])
    <2>2. x \in Nat /\ y \in Nat
      BY <1>3, <1>4, <2>1
    <2>3. deep[Node(h, patch, i)] \in {x, x + (i - 1)}
      BY <1>10, <2>1
    <2>4. CASE Old(h, path, i + 1)
      <3>1. depth[s[i]] < depth[s[i + 1]]
        BY <1>0, <1>1, <2>1, <2>4, Deeper
      <3>2. depth[s[i]] \in Nat /\ depth[s[i + 1]] \in Nat
        BY <1>3, <1>4, <2>1
      <3>3. i - 1 \in 0..K - 1 /\ 0 \in 0..K - 1
        BY <1>0, <2>1 DEF K
      <3>4. depth[s[i]] * K + (i - 1) < depth[s[i + 1]] * K /\ depth[s[i]] * K + 0 < depth[s[i + 1]] * K
        <4> DEFINE a == depth[s[i]]
                   b == depth[s[i + 1]]
        <4> HIDE DEF a, b
        <4>1. a * K + (i - 1) < b * K /\ a * K + 0 < b * K
          BY <1>0, <3>1, <3>2, <3>3, Times DEF a, b
        <4>2. QED
          BY <4>1 DEF a, b
      <3>5. x + (i - 1) < y /\ x + 0 < y
        BY <3>4 DEF high
      <3>6. deep[Node(h, patch, i + 1)] = y
        BY <1>10, <2>1, <2>4
      <3> HIDE DEF x, y
      <3>7. QED
        BY <2>2, <2>3, <3>5, <3>6
    <2>5. CASE ~Old(h, path, i + 1)
      <3>1. y = x
        BY <1>0, <2>1, <2>5, OldLevels
      <3>2. deep[Node(h, patch, i + 1)] = y + ((i + 1) - 1)
        BY <1>10, <2>1, <2>5
      <3> HIDE DEF x, y
      <3>3. QED
        BY <2>1, <2>2, <2>3, <3>1, <3>2
    <2>6. QED
      BY <2>4, <2>5
  <1>12. ASSUME NEW n \in DOMAIN H, NEW k \in Key, H[n][k] \in DOMAIN H
         PROVE  deep[n] < deep[H[n][k]]
    <2>1. CASE n \in DOMAIN h /\ h[n][k] \in DOMAIN h /\ H[n][k] = h[n][k]
      <3> DEFINE c == h[n][k]
      <3>1. depth[n] < depth[c]
        BY <1>1, <2>1 DEF Deepens
      <3>2. depth[n] \in Nat /\ depth[c] \in Nat /\ 0 \in 0..K - 1
        BY <1>0, <1>4, <2>1 DEF K
      <3>3. high(n) < high(c)
        <4> DEFINE a == depth[n]
                   b == depth[c]
        <4> HIDE DEF a, b
        <4>1. a * K + 0 < b * K /\ a * K \in Nat /\ b * K \in Nat
          BY <1>0, <3>1, <3>2, Times DEF a, b
        <4>2. a * K < b * K
          BY <4>1
        <4>3. QED
          BY <4>2 DEF a, b, high
      <3>4. QED
        BY <1>7, <2>1, <3>3
    <2>2. ASSUME NEW i \in 1..L - 1, n = Node(h, patch, i), H[n][k] = Node(h, patch, i + 1)
          PROVE  deep[n] < deep[H[n][k]]
      BY <1>11, <2>2
    <2>3. QED
      BY <1>12, <2>1, <2>2, Edges DEF H
  <1>13. Deepens(H, deep)
    BY <1>9, <1>12 DEF Deepens
  <1>14. QED
    BY <1>13 DEF Acyclic, H

-----------------------------------------------------------------------------
(***************************************************************************)
(* A path is looked up map by map; after a patch its path leads through    *)
(* the maps its names were set in, to its value.                           *)
(***************************************************************************)
Walks(h, path, at) ==
  /\ at \in [0..Len(path) -> DOMAIN h \union Value \union {Absent}]
  /\ at[0] = 1
  /\ \A i \in 1..Len(path) :
       at[i] = IF IsMap(h, at[i - 1]) THEN h[at[i - 1]][path[i]] ELSE Absent

LEMMA AtWalks ==
  ASSUME NEW h, NEW path, IsHeap(h), IsPath(path)
  PROVE  \E at : Walks(h, path, at) /\ At(h, path) = at[Len(path)]
  <1> DEFINE L == Len(path)
             D == DOMAIN h \union Value \union {Absent}
             Leads(x, i) == IF IsMap(h, x) THEN h[x][path[i]] ELSE Absent
             G == [i \in 1..L |-> [x \in D |-> Leads(x, i)]]
             Body(w) == [i \in 0..L |-> IF i = 0 THEN 1 ELSE Leads(w[i - 1], i)]
             at == CHOOSE w : w = Body(w)
  <1>1. L \in Nat /\ path \in Seq(Key) /\ 1 \in D
    BY HeapNodes DEF IsPath
  <1>2. \A x \in D, i \in 1..L : Leads(x, i) \in D
    BY <1>1, HeapNodes DEF IsMap
  <1>3. At(h, path) = at[L]
    BY DEF At
  <1> HIDE DEF L, D, Leads
  <1>4. PICK f \in [0..L -> D] : f[0] = 1 /\ \A i \in 1..L : f[i] = G[i][f[i - 1]]
    <2>1. G \in [1..L -> [D -> D]]
      BY <1>2
    <2> HIDE DEF G
    <2>2. QED
      BY <1>1, <2>1, RecursionExists
  <1>5. \A i \in 1..L : f[i] = Leads(f[i - 1], i)
    <2> SUFFICES ASSUME NEW i \in 1..L PROVE f[i] = Leads(f[i - 1], i)
      OBVIOUS
    <2>1. i - 1 \in 0..L
      BY <1>1
    <2>2. QED
      BY <1>4, <2>1
  <1>6. f = Body(f)
    <2>1. \A i \in 0..L : f[i] = IF i = 0 THEN 1 ELSE Leads(f[i - 1], i)
      BY <1>1, <1>4, <1>5
    <2>2. QED
      BY <1>4, <2>1
  <1> HIDE DEF Body
  <1>7. at = Body(at)
    BY <1>6
  <1> HIDE DEF at
  <1>8. at[0] = 1 /\ DOMAIN at = 0..L /\ at = [i \in 0..L |-> at[i]]
    BY <1>1, <1>7 DEF Body
  <1>9. \A i \in 1..L : at[i] = Leads(at[i - 1], i)
    BY <1>1, <1>7 DEF Body
  <1>10. \A i \in 0..L : at[i] \in D
    <2> DEFINE T == {n \in Nat : n \in 0..L => at[n] \in D}
    <2>1. ASSUME NEW n \in Nat, \A m \in Nat : m < n => m \in T PROVE n \in T
      <3> SUFFICES ASSUME n \in 0..L PROVE at[n] \in D
        OBVIOUS
      <3>1. CASE n = 0
        BY <1>1, <1>8, <3>1
      <3>2. CASE n # 0
        <4>1. n - 1 \in 0..L /\ n - 1 \in Nat /\ n - 1 < n /\ n \in 1..L
          BY <1>1, <3>2
        <4>2. n - 1 \in T
          BY <2>1, <4>1
        <4>3. QED
          BY <1>2, <1>9, <4>1, <4>2
      <3>3. QED
        BY <3>1, <3>2
    <2> HIDE DEF T
    <2>2. Nat \subseteq T
      BY <2>1, Induct
    <2>3. QED
      BY <1>1, <2>2 DEF T
  <1>11. Walks(h, path, at)
    <2>1. at \in [0..L -> D]
      BY <1>8, <1>10
    <2>2. QED
      BY <1>8, <1>9, <2>1 DEF Walks, L, D, Leads
  <1>12. QED
    BY <1>3, <1>11 DEF L

\* The first j names of p are those of the path of a patch.
Along(path, p, j) == j <= Len(path) /\ \A i \in 1..j : p[i] = path[i]

\* Where a walk along the path of a patch is after it.
LEMMA Follows ==
  ASSUME NEW h, NEW patch, IsHeap(h), IsPatch(patch), Acyclic(h), NEW p, IsPath(p),
         NEW at, Walks(ApplyTo(h, patch), p, at),
         NEW j \in 0..Len(p), j < Len(patch.to), Along(patch.to, p, j)
  PROVE  at[j] = Node(h, patch, j + 1)
  <1> DEFINE path == patch.to
             L == Len(path)
             H == ApplyTo(h, patch)
             T == {n \in Nat : n \in 0..j => at[n] = Node(h, patch, n + 1)}
  <1>0. L \in Nat /\ Len(p) \in Nat
    BY DEF IsPatch, IsPath
  <1>1. ASSUME NEW n \in Nat, \A m \in Nat : m < n => m \in T PROVE n \in T
    <2> SUFFICES ASSUME n \in 0..j PROVE at[n] = Node(h, patch, n + 1)
      OBVIOUS
    <2>1. CASE n = 0
      BY <2>1 DEF Walks, Node
    <2>2. CASE n # 0
      <3> DEFINE m == n - 1
      <3>1. /\ m \in Nat /\ m < n /\ m \in 0..j /\ m + 1 = n /\ n \in 1..L /\ n \in 1..Len(p)
            /\ n # L /\ n + 1 # 1 /\ (n + 1) - 1 = n
        BY <1>0, <2>2
      <3>2. at[m] = Node(h, patch, n)
        <4>1. m \in T
          BY <1>1, <3>1
        <4> HIDE DEF m
        <4>2. QED
          BY <3>1, <4>1
      <3>3. p[n] = path[n]
        BY <3>1 DEF Along
      <3>4. Node(h, patch, n) \in DOMAIN H /\ H[Node(h, patch, n)][path[n]] = Property(h, patch, n)
        BY <3>1, Levels
      <3>5. at[n] = IF IsMap(H, at[m]) THEN H[at[m]][p[n]] ELSE Absent
        BY <3>1 DEF Walks
      <3> HIDE DEF H, m
      <3>6. QED
        BY <3>1, <3>2, <3>3, <3>4, <3>5 DEF IsMap, Node
    <2>3. QED
      BY <2>1, <2>2
  <1> HIDE DEF T
  <1>2. Nat \subseteq T
    BY <1>1, Induct
  <1>3. QED
    BY <1>0, <1>2 DEF T

LEMMA Reads ==
  ASSUME NEW h, NEW patch, IsHeap(h), IsPatch(patch), Acyclic(h)
  PROVE  At(ApplyTo(h, patch), patch.to) = patch.from
  <1> DEFINE H == ApplyTo(h, patch)
             path == patch.to
             L == Len(path)
  <1>0. IsPath(path) /\ L \in Nat /\ L >= 1 /\ IsHeap(H)
    BY HeapStep DEF IsPatch, IsPath
  <1>1. PICK at : Walks(H, path, at) /\ At(H, path) = at[L]
    BY <1>0, AtWalks
  <1>2. \A i \in 1..L : /\ Node(h, patch, i) \in DOMAIN H
                        /\ H[Node(h, patch, i)][path[i]] = Property(h, patch, i)
    BY Levels
  <1> HIDE DEF H
  <1>3. at[L] = Property(h, patch, L)
    <2> DEFINE l == L - 1
    <2>1. l \in 0..L /\ l < L /\ l + 1 = L /\ L \in 1..L /\ Along(path, path, l)
      BY <1>0 DEF Along
    <2>2. at[l] = Node(h, patch, l + 1)
      BY <1>0, <1>1, <2>1, Follows DEF H
    <2>3. at[L] = IF IsMap(H, at[l]) THEN H[at[l]][path[L]] ELSE Absent
      BY <1>1, <2>1 DEF Walks
    <2> HIDE DEF l
    <2>4. QED
      BY <1>2, <2>1, <2>2, <2>3 DEF IsMap
  <1>4. QED
    BY <1>1, <1>3 DEF Property, H

ReadsInv == TypeInv /\ Acyclic(heap) /\ ReadsBack

LEMMA ReadsInit == Init => ReadsInv
  <1> SUFFICES ASSUME Init PROVE ReadsInv
    OBVIOUS
  <1>1. TypeInv
    BY TypeInit
  <1>2. Acyclic(heap)
    <2> DEFINE depth == [n \in DOMAIN heap |-> n]
    <2>1. DOMAIN heap \subseteq Nat
      BY <1>1, HeapNodes DEF TypeInv
    <2>2. \A n \in DOMAIN heap, k \in Key : heap[n][k] \in DOMAIN heap => heap[n][k] > n
      BY PatchesAssumption DEF Init
    <2>3. Deepens(heap, depth)
      BY <2>1, <2>2 DEF Deepens
    <2>4. QED
      BY <2>3 DEF Acyclic
  <1>3. ReadsBack
    BY DEF Init, ReadsBack
  <1>4. QED
    BY <1>1, <1>2, <1>3 DEF ReadsInv

LEMMA ReadsStep == ReadsInv /\ [Next]_vars => ReadsInv'
  <1> SUFFICES ASSUME ReadsInv, [Next]_vars PROVE ReadsInv'
    OBVIOUS
  <1>1. TypeInv'
    BY TypeStep DEF ReadsInv
  <1>2. CASE Next
    <2>1. patches \in Seq(Patch) /\ patches # << >>
      BY <1>2 DEF Next, ApplyNext, ReadsInv, TypeInv
    <2>2. Head(patches) \in Patch
      BY <2>1
    <2>3. IsHeap(heap) /\ IsPatch(Head(patches)) /\ Acyclic(heap)
      BY <2>2, PatchIs DEF ReadsInv, TypeInv
    <2>4. heap' = ApplyTo(heap, Head(patches)) /\ last' = Head(patches)
      BY <1>2 DEF Next, ApplyNext
    <2>5. Acyclic(heap')
      BY <2>3, <2>4, AcyclicStep
    <2>6. At(heap', last'.to) = last'.from
      BY <2>3, <2>4, Reads
    <2>7. QED
      BY <1>1, <2>5, <2>6 DEF ReadsInv, ReadsBack
  <1>3. CASE UNCHANGED vars
    BY <1>1, <1>3 DEF vars, ReadsInv, ReadsBack
  <1>4. QED
    BY <1>2, <1>3

\* Right after a patch its value is found under its path, whatever maps, values or
\* missing names were on the way, and whatever the patches before it did.
THEOREM PatchesReadBack == Spec => []ReadsBack
  <1>1. ReadsInv => ReadsBack
    BY DEF ReadsInv
  <1>2. QED
    BY <1>1, ReadsInit, ReadsStep, PTL DEF Spec

-----------------------------------------------------------------------------
(***************************************************************************)
(* As long as every patch was straight the heap is a tree: no two names    *)
(* lead to one map.                                                        *)
(***************************************************************************)
Tree(h) ==
  \A n \in DOMAIN h, k \in Key : h[n][k] \in DOMAIN h =>
    /\ h[n][k] # 1
    /\ \A m \in DOMAIN h, l \in Key : h[m][l] = h[n][k] => m = n /\ l = k

\* On a straight path the maps that were there come first.
LEMMA OldFirst ==
  ASSUME NEW h, NEW path, IsPath(path), Straight(h, path), NEW i \in 2..Len(path),
         Old(h, path, i)
  PROVE  i - 1 \in 1..Len(path) /\ Old(h, path, i - 1)
  <1> DEFINE M == Missing(h, path)
             L == Len(path)
             j == i - 1
  <1>1. L \in Nat /\ j \in 1..L - 1
    BY DEF IsPath
  <1>2. j \notin M
    <2>1. i # 1
      OBVIOUS
    <2>2. QED
      BY <2>1 DEF Old
  <1>3. ASSUME j - 1 \in M PROVE FALSE
    <2>1. j \in (j - 1) + 1..L - 1
      BY <1>1
    <2>2. \A l \in (j - 1) + 1..L - 1 : l \in M
      BY <1>3 DEF Straight
    <2>3. QED
      BY <1>2, <2>1, <2>2
  <1>4. QED
    BY <1>1, <1>3 DEF Old

LEMMA TreeStep ==
  ASSUME NEW h, NEW patch, IsHeap(h), IsPatch(patch), Acyclic(h), Tree(h), Straight(h, patch.to)
  PROVE  Tree(ApplyTo(h, patch))
  <1> DEFINE path == patch.to
             H == ApplyTo(h, patch)
             M == Missing(h, path)
             L == Len(path)
             C == Cardinality(M)
             Added(n, k, c) == \E i \in M : n = Node(h, patch, i) /\ k = path[i] /\ c = NewMap(h, path, i)
             Was(n, k, c) == n \in DOMAIN h /\ c \in DOMAIN h /\ c = h[n][k]
  <1>0. IsPath(path) /\ L \in Nat
    BY DEF IsPatch, IsPath
  <1>1. Len(h) \in Nat /\ DOMAIN h = 1..Len(h) /\ C \in Nat
    BY <1>0, HeapNodes, NewMaps
  <1>2. \A i \in M : NewMap(h, path, i) \notin DOMAIN h /\ NewMap(h, path, i) # 1
    <2> SUFFICES ASSUME NEW i \in M PROVE NewMap(h, path, i) \notin DOMAIN h /\ NewMap(h, path, i) # 1
      OBVIOUS
    <2>1. NewMap(h, path, i) \in Len(h) + 1..Len(h) + C
      BY <1>0, NewMaps
    <2>2. Len(h) > 0
      BY HeapNodes
    <2> HIDE DEF C
    <2>3. QED
      BY <1>1, <2>1, <2>2
  <1>3. ASSUME NEW n \in DOMAIN H, NEW k \in Key, H[n][k] \in DOMAIN H
        PROVE  Was(n, k, H[n][k]) \/ Added(n, k, H[n][k])
    <2>1. CASE n \in DOMAIN h /\ h[n][k] \in DOMAIN h /\ H[n][k] = h[n][k]
      BY <2>1
    <2>2. ASSUME NEW i \in 1..L - 1, n = Node(h, patch, i), k = path[i], H[n][k] = Node(h, patch, i + 1)
          PROVE  Was(n, k, H[n][k]) \/ Added(n, k, H[n][k])
      <3> DEFINE j == i + 1
      <3>1. i \in 1..L /\ i # L /\ j \in 2..L /\ j \in 1..L /\ j - 1 = i /\ j # 1
        BY <1>0
      <3> HIDE DEF j
      <3>2. CASE Old(h, path, j)
        <4>1. Old(h, path, i)
          BY <1>0, <3>1, <3>2, OldFirst
        <4>2. n = Source(h, path)[i] /\ Node(h, patch, j) = Source(h, path)[j]
          BY <2>2, <3>1, <3>2, <4>1, OldNode
        <4>3. Source(h, path)[j] = h[Source(h, path)[i]][path[i]]
          BY <1>0, <3>1, <3>2, OldLevels
        <4>4. Source(h, path)[i] \in DOMAIN h /\ Source(h, path)[j] \in DOMAIN h
          BY <1>0, <3>1, OldLevels
        <4>5. H[n][k] = Node(h, patch, j)
          BY <2>2 DEF j
        <4> HIDE DEF H
        <4>6. Was(n, k, H[n][k])
          BY <2>2, <4>2, <4>3, <4>4, <4>5
        <4>7. QED
          BY <4>6
      <3>3. CASE ~Old(h, path, j)
        <4>1. i \in M
          BY <3>1, <3>3 DEF Old
        <4>2. Node(h, patch, j) = NewMap(h, path, i)
          BY <3>1, <4>1 DEF Node, Property
        <4>3. H[n][k] = Node(h, patch, j)
          BY <2>2 DEF j
        <4> HIDE DEF H
        <4>4. QED
          BY <2>2, <4>1, <4>2, <4>3
      <3>4. QED
        BY <3>2, <3>3
    <2>3. QED
      BY <1>3, <2>1, <2>2, Edges
  <1> HIDE DEF H
  <1>4. ASSUME NEW n \in DOMAIN H, NEW k \in Key, NEW m \in DOMAIN H, NEW l \in Key,
               H[n][k] \in DOMAIN H, H[m][l] = H[n][k]
        PROVE  H[n][k] # 1 /\ m = n /\ l = k
    <2> DEFINE c == H[n][k]
    <2>1. (Was(n, k, c) \/ Added(n, k, c)) /\ (Was(m, l, c) \/ Added(m, l, c))
      BY <1>3, <1>4
    <2> HIDE DEF c
    <2>2. CASE Was(n, k, c) /\ Was(m, l, c)
      <3>1. /\ n \in DOMAIN h /\ c = h[n][k] /\ h[n][k] \in DOMAIN h
            /\ m \in DOMAIN h /\ h[m][l] = h[n][k]
        BY <2>2
      <3>2. h[n][k] # 1 /\ m = n /\ l = k
        BY <3>1 DEF Tree
      <3>3. QED
        BY <3>1, <3>2 DEF c
    <2>3. CASE Added(n, k, c) /\ Added(m, l, c)
      <3>1. PICK i \in M : n = Node(h, patch, i) /\ k = path[i] /\ c = NewMap(h, path, i)
        BY <2>3
      <3>2. PICK j \in M : m = Node(h, patch, j) /\ l = path[j] /\ c = NewMap(h, path, j)
        BY <2>3
      <3>3. i = j
        BY <1>0, <3>1, <3>2, NewMaps
      <3>4. c # 1
        BY <1>2, <3>1
      <3>5. QED
        BY <3>1, <3>2, <3>3, <3>4 DEF c
    <2>4. ~(Was(n, k, c) /\ Added(m, l, c)) /\ ~(Was(m, l, c) /\ Added(n, k, c))
      BY <1>2
    <2>5. QED
      BY <2>1, <2>2, <2>3, <2>4
  <1>5. QED
    BY <1>4 DEF Tree, H

-----------------------------------------------------------------------------
(***************************************************************************)
(* The walk along a path p after a patch, beside the one before it.        *)
(***************************************************************************)

\* Among the first j names of p is one that is another in the path.
Parted(path, p, j) == \E i \in 1..j : i <= Len(path) /\ p[i] # path[i]

LEMMA SamePath ==
  ASSUME NEW s, NEW t, IsPath(s), IsPath(t), Len(s) = Len(t), \A i \in 1..Len(s) : s[i] = t[i]
  PROVE  s = t
  BY SeqEqual DEF IsPath

LEMMA PrefixIs ==
  ASSUME NEW s, NEW t, s \in Seq(Key), t \in Seq(Key)
  PROVE  IsPrefix(s, t) <=> Len(s) <= Len(t) /\ \A i \in 1..Len(s) : s[i] = t[i]
  <1>1. /\ SubSeq(s, 1, Len(s)) = [i \in 1..Len(s) |-> s[i]]
        /\ SubSeq(t, 1, Len(s)) = [i \in 1..Len(s) |-> t[i]]
    OBVIOUS
  <1>2. SubSeq(s, 1, Len(s)) = SubSeq(t, 1, Len(s)) <=> \A i \in 1..Len(s) : s[i] = t[i]
    BY <1>1
  <1>3. QED
    BY <1>2 DEF IsPrefix

\* Where it was before: in the same map, or nowhere when the patch made one.
LEMMA Followed ==
  ASSUME NEW h, NEW path, IsHeap(h), IsPath(path), Straight(h, path), NEW p, IsPath(p),
         NEW at, Walks(h, p, at),
         NEW j \in 0..Len(p), j < Len(path), Along(path, p, j)
  PROVE  IF Old(h, path, j + 1) THEN at[j] = Source(h, path)[j + 1] ELSE at[j] \notin DOMAIN h
  <1> DEFINE L == Len(path)
             s == Source(h, path)
             P(n) == IF Old(h, path, n + 1) THEN at[n] = s[n + 1] ELSE at[n] \notin DOMAIN h
             T == {n \in Nat : n \in 0..j => P(n)}
  <1>0. L \in Nat /\ Len(p) \in Nat
    BY DEF IsPath
  <1>1. ASSUME NEW n \in Nat, \A m \in Nat : m < n => m \in T PROVE n \in T
    <2> SUFFICES ASSUME n \in 0..j PROVE P(n)
      OBVIOUS
    <2>1. CASE n = 0
      BY <2>1, SourceWalks DEF Walks, Old
    <2>2. CASE n # 0
      <3> DEFINE m == n - 1
                 l == n + 1
      <3>1. /\ m \in Nat /\ m < n /\ m \in 0..j /\ m + 1 = n /\ n \in 1..L /\ n \in 1..Len(p)
            /\ n \in 1..L - 1 /\ l \in 2..L /\ l \in 1..L /\ l # 1 /\ l - 1 = n
        BY <1>0, <2>2
      <3>2. IF Old(h, path, n) THEN at[m] = s[n] ELSE at[m] \notin DOMAIN h
        <4>1. m \in T
          BY <1>1, <3>1
        <4>2. P(m)
          BY <3>1, <4>1
        <4> HIDE DEF m
        <4>3. QED
          BY <3>1, <4>2
      <3>3. p[n] = path[n]
        BY <3>1 DEF Along
      <3>4. at[n] = IF IsMap(h, at[m]) THEN h[at[m]][p[n]] ELSE Absent
        BY <3>1 DEF Walks
      <3>5. s[n] \in DOMAIN h
        BY <3>1, OldLevels
      <3> HIDE DEF m, l, s
      <3>6. CASE Old(h, path, l)
        <4>1. Old(h, path, n)
          BY <3>1, <3>6, OldFirst
        <4>2. s[l] = h[s[n]][path[n]]
          BY <3>1, <3>6, OldLevels DEF s
        <4>3. at[n] = s[l]
          BY <3>2, <3>3, <3>4, <3>5, <4>1, <4>2 DEF IsMap
        <4>4. QED
          BY <3>6, <4>3 DEF l
      <3>7. CASE ~Old(h, path, l)
        <4>1. n \in Missing(h, path)
          BY <3>1, <3>7 DEF Old
        <4>2. h[s[n]][path[n]] \notin DOMAIN h
          BY <4>1 DEF Missing, Found, IsMap, s
        <4>3. Absent \notin DOMAIN h
          BY HeapNodes, PatchesAssumption
        <4>4. at[n] \notin DOMAIN h
          BY <3>2, <3>3, <3>4, <4>2, <4>3 DEF IsMap
        <4>5. QED
          BY <3>7, <4>4 DEF l
      <3>8. QED
        BY <3>6, <3>7
    <2>3. QED
      BY <2>1, <2>2
  <1> HIDE DEF T
  <1>2. Nat \subseteq T
    BY <1>1, Induct
  <1>3. T = {n \in Nat : n \in 0..j => P(n)}
    BY DEF T
  <1>4. P(j)
    BY <1>0, <1>2, <1>3
  <1>5. QED
    BY <1>4

\* Once it has left the path it is where it was before, in no map the patch sets a
\* name in.
LEMMA Parts ==
  ASSUME NEW h, NEW patch, IsHeap(h), IsPatch(patch), Acyclic(h), Tree(h),
         Straight(h, patch.to), NEW p, IsPath(p),
         NEW at, Walks(h, p, at), NEW to, Walks(ApplyTo(h, patch), p, to),
         NEW j \in 0..Len(p), Parted(patch.to, p, j)
  PROVE  to[j] = at[j]
  <1> DEFINE path == patch.to
             L == Len(path)
             H == ApplyTo(h, patch)
             s == Source(h, path)
             Off(x) == \A i \in 1..L : Old(h, path, i) => x # s[i]
             P(n) == Parted(path, p, n) => to[n] = at[n] /\ Off(at[n])
             T == {n \in Nat : n \in 0..j => P(n)}
  <1>0. L \in Nat /\ Len(p) \in Nat /\ IsPath(path)
    BY DEF IsPatch, IsPath
  <1>1. /\ Absent \notin DOMAIN h /\ Absent \notin DOMAIN H
        /\ \A x \in DOMAIN h \union Value \union {Absent} : x \in DOMAIN H => x \in DOMAIN h
        /\ DOMAIN h \subseteq DOMAIN H
    <2>1. DOMAIN h \subseteq Nat /\ DOMAIN H \subseteq Nat /\ DOMAIN h \subseteq DOMAIN H
      <3>1. Len(h) \in Nat /\ DOMAIN h = 1..Len(h) /\ Cardinality(Missing(h, path)) \in Nat
        BY <1>0, HeapNodes, NewMaps
      <3>2. DOMAIN H = 1..Len(h) + Cardinality(Missing(h, path))
        BY Applying DEF Nodes
      <3> HIDE DEF H
      <3>3. QED
        BY <3>1, <3>2
    <2> HIDE DEF H
    <2>2. QED
      BY <2>1, PatchesAssumption
  <1>2. \A i \in 1..L : s[i] \in DOMAIN h
    BY <1>0, OldLevels
  <1>3. ASSUME NEW n \in 1..j
        PROVE  /\ n - 1 \in 0..Len(p) /\ p[n] \in Key
               /\ at[n] = IF IsMap(h, at[n - 1]) THEN h[at[n - 1]][p[n]] ELSE Absent
               /\ to[n] = IF IsMap(H, to[n - 1]) THEN H[to[n - 1]][p[n]] ELSE Absent
               /\ at[n - 1] \in DOMAIN h \union Value \union {Absent}
    <2>1. n \in 1..Len(p) /\ n - 1 \in 0..Len(p)
      BY <1>0
    <2>2. p[n] \in Key
      BY <2>1 DEF IsPath
    <2> HIDE DEF H
    <2>3. /\ at[n] = IF IsMap(h, at[n - 1]) THEN h[at[n - 1]][p[n]] ELSE Absent
          /\ at[n - 1] \in DOMAIN h \union Value \union {Absent}
      BY <2>1 DEF Walks
    <2>4. Walks(H, p, to)
      BY DEF H
    <2>5. to[n] = IF IsMap(H, to[n - 1]) THEN H[to[n - 1]][p[n]] ELSE Absent
      BY <2>1, <2>4 DEF Walks
    <2>6. QED
      BY <2>1, <2>2, <2>3, <2>5
  \* A map in which no name is set leads to no map in which one is.
  <1>4. ASSUME NEW x \in DOMAIN h, NEW k \in Key,
               \A i \in 1..L : Old(h, path, i) => ~(x = s[i] /\ k = path[i])
        PROVE  Off(h[x][k])
    <2> SUFFICES ASSUME NEW i \in 1..L, Old(h, path, i), h[x][k] = s[i] PROVE FALSE
      OBVIOUS
    <2>1. i # 1
      <3>1. ASSUME i = 1 PROVE FALSE
        <4>1. h[x][k] = 1 /\ h[x][k] \in DOMAIN h
          BY <1>0, <3>1, SourceWalks, HeapNodes
        <4>2. QED
          BY <4>1 DEF Tree
      <3>2. QED
        BY <3>1
    <2> DEFINE l == i - 1
    <2>2. i \in 2..L /\ l \in 1..L /\ Old(h, path, l)
      BY <1>0, <2>1, OldFirst
    <2>3. s[i] = h[s[l]][path[l]]
      BY <1>0, <2>2, OldLevels
    <2>4. path[l] \in Key /\ s[l] \in DOMAIN h /\ h[x][k] \in DOMAIN h
      BY <1>0, <1>2, <2>2 DEF IsPath
    <2> HIDE DEF l, s
    <2>5. h[s[l]][path[l]] = h[x][k]
      BY <2>3
    <2>6. s[l] = x /\ path[l] = k
      BY <2>4, <2>5 DEF Tree
    <2>7. QED
      BY <1>4, <2>2, <2>6
  <1>5. ASSUME NEW n \in Nat, \A m \in Nat : m < n => m \in T PROVE n \in T
    <2> SUFFICES ASSUME n \in 0..j, Parted(path, p, n)
                 PROVE  to[n] = at[n] /\ Off(at[n])
      OBVIOUS
    <2> DEFINE m == n - 1
    <2>1. n \in 1..j
      <3>1. n # 0
        BY DEF Parted
      <3>2. QED
        BY <3>1
    <2>2. m \in Nat /\ m < n /\ m \in 0..j /\ m + 1 = n /\ m \in 0..Len(p)
      BY <1>0, <2>1
    <2>3. /\ p[n] \in Key /\ at[n] = IF IsMap(h, at[m]) THEN h[at[m]][p[n]] ELSE Absent
          /\ to[n] = IF IsMap(H, to[m]) THEN H[to[m]][p[n]] ELSE Absent
          /\ at[m] \in DOMAIN h \union Value \union {Absent}
      BY <1>3, <2>1
    <2>4. CASE Parted(path, p, m)
      <3>1. to[m] = at[m] /\ Off(at[m])
        <4>1. m \in T
          BY <1>5, <2>2
        <4>2. P(m)
          BY <2>2, <4>1
        <4>3. QED
          BY <2>4, <4>2
      <3> HIDE DEF m, H
      <3>2. CASE at[m] \in DOMAIN h
        <4>1. SetIn(h, path, at[m]) = {}
          <5>1. ASSUME NEW i \in SetIn(h, path, at[m]) PROVE FALSE
            <6>1. i \in 1..L
              BY DEF SetIn
            <6>2. Old(h, path, i) /\ at[m] = s[i]
              BY <1>0, <6>1, OldLevels
            <6>3. QED
              BY <3>1, <6>1, <6>2
          <5>2. QED
            BY <5>1
        <4>2. H[at[m]] = h[at[m]]
          BY <3>2, <4>1, Applying DEF H
        <4>3. at[n] = h[at[m]][p[n]] /\ to[n] = at[n]
          BY <1>1, <2>3, <3>1, <3>2, <4>2 DEF IsMap
        <4>4. Off(h[at[m]][p[n]])
          <5>1. \A i \in 1..L : Old(h, path, i) => at[m] # s[i]
            BY <3>1
          <5> HIDE DEF Off, s
          <5>2. QED
            BY <1>4, <2>3, <3>2, <5>1
        <4>5. QED
          BY <4>3, <4>4
      <3>3. CASE at[m] \notin DOMAIN h
        <4>1. at[n] = Absent /\ to[n] = Absent
          BY <1>1, <2>3, <3>1, <3>3 DEF IsMap
        <4>2. QED
          BY <1>1, <1>2, <4>1
      <3>4. QED
        BY <3>2, <3>3
    <2>5. CASE ~Parted(path, p, m)
      <3>1. n \in 1..L /\ p[n] # path[n] /\ m < L /\ Along(path, p, m) /\ path[n] \in Key
        <4>1. PICK i \in 1..n : i <= L /\ p[i] # path[i]
          BY DEF Parted
        <4>2. i = n
          BY <2>2, <2>5, <4>1 DEF Parted
        <4>3. n \in 1..L /\ p[n] # path[n] /\ m < L
          BY <1>0, <2>1, <4>1, <4>2
        <4>4. \A l \in 1..m : p[l] = path[l]
          BY <1>0, <2>2, <2>5, <4>3 DEF Parted
        <4>5. QED
          BY <1>0, <2>2, <4>3, <4>4 DEF Along, IsPath
      <3>2. to[m] = Node(h, patch, n)
        <4>1. to[m] = Node(h, patch, m + 1)
          BY <2>2, <3>1, Follows
        <4> HIDE DEF m
        <4>2. QED
          BY <2>2, <4>1
      <3>3. IF Old(h, path, n) THEN at[m] = s[n] ELSE at[m] \notin DOMAIN h
        <4>1. IF Old(h, path, m + 1) THEN at[m] = s[m + 1] ELSE at[m] \notin DOMAIN h
          BY <1>0, <2>2, <3>1, Followed
        <4> HIDE DEF m
        <4>2. QED
          BY <2>2, <4>1
      <3>4. Node(h, patch, n) \in DOMAIN H
        BY <3>1, Levels
      <3>5. CASE Old(h, path, n)
        <4>1. Node(h, patch, n) = s[n] /\ s[n] \in DOMAIN h
          BY <1>2, <3>1, <3>5, OldNode
        <4>2. n \in SetIn(h, path, s[n])
          BY <1>0, <3>1, <3>5, OldLevels
        <4>3. \A i \in SetIn(h, path, s[n]) : i = n
          BY <1>0, <4>2, OneLevel
        <4>4. H[s[n]] = Set(h, patch, s[n], n)
          BY <4>1, <4>2, <4>3, Applying
        <4>5. h[s[n]] \in [Key -> DOMAIN h \union Value \union {Absent}]
          BY <4>1, HeapNodes
        <4>6. H[s[n]][p[n]] = h[s[n]][p[n]]
          BY <2>3, <3>1, <4>4, <4>5 DEF Set
        <4> HIDE DEF m, H
        <4>7. at[n] = h[s[n]][p[n]] /\ to[n] = at[n]
          BY <2>3, <3>2, <3>3, <3>4, <3>5, <4>1, <4>6 DEF IsMap
        <4>8. \A i \in 1..L : Old(h, path, i) => ~(s[n] = s[i] /\ p[n] = path[i])
          <5> SUFFICES ASSUME NEW i \in 1..L, Old(h, path, i), s[n] = s[i], p[n] = path[i]
                       PROVE  FALSE
            OBVIOUS
          <5>1. i \in SetIn(h, path, s[n])
            BY <1>0, OldLevels
          <5>2. QED
            BY <3>1, <4>3, <5>1
        <4>9. Off(h[s[n]][p[n]])
          <5> HIDE DEF Off, s
          <5>1. QED
            BY <1>4, <2>3, <4>1, <4>8
        <4>10. QED
          BY <4>7, <4>9
      <3>6. CASE ~Old(h, path, n)
        <4>1. m \in Missing(h, path) /\ n # 1
          BY <3>6 DEF Old
        <4>2. m # L /\ H[NewMap(h, path, m)] = New(h, patch, m)
          BY <1>0, <3>1, <4>1, Applying
        <4>3. Node(h, patch, n) = NewMap(h, path, m)
          BY <4>1, <4>2 DEF Node, Property
        <4>4. New(h, patch, m)[p[n]] = Absent
          <5>1. New(h, patch, m) = [k \in Key |-> IF k = path[n] THEN Property(h, patch, n) ELSE Absent]
            <6> HIDE DEF m
            <6>1. QED
              BY <2>2 DEF New
          <5>2. QED
            BY <2>3, <3>1, <5>1
        <4> HIDE DEF m, H
        <4>5. at[n] = Absent /\ to[n] = Absent
          BY <2>3, <3>2, <3>3, <3>4, <3>6, <4>2, <4>3, <4>4 DEF IsMap
        <4>6. QED
          BY <1>1, <1>2, <4>5
      <3>7. QED
        BY <3>5, <3>6
    <2>6. QED
      BY <2>4, <2>5
  <1> HIDE DEF T
  <1>6. Nat \subseteq T
    BY <1>5, Induct
  <1>7. T = {n \in Nat : n \in 0..j => P(n)}
    BY DEF T
  <1>8. P(j)
    BY <1>0, <1>6, <1>7
  <1>9. QED
    BY <1>8

\* What is found under another path than the one of a straight patch: on the way to
\* it or beyond it no value, elsewhere what was there.
LEMMA Keeps ==
  ASSUME NEW h, NEW patch, IsHeap(h), IsPatch(patch), Acyclic(h), Tree(h),
         Straight(h, patch.to), NEW p, IsPath(p), p # patch.to
  PROVE  IF IsPrefix(patch.to, p) \/ IsPrefix(p, patch.to)
           THEN At(ApplyTo(h, patch), p) \notin Value
           ELSE At(ApplyTo(h, patch), p) = At(h, p)
  <1> DEFINE path == patch.to
             L == Len(path)
             n == Len(p)
             H == ApplyTo(h, patch)
  <1>0. /\ L \in Nat /\ L >= 1 /\ n \in Nat /\ n >= 1 /\ IsPath(path) /\ IsHeap(H)
        /\ p \in Seq(Key) /\ path \in Seq(Key)
    BY HeapStep DEF IsPatch, IsPath
  <1>1. PICK at : Walks(h, p, at) /\ At(h, p) = at[n]
    BY AtWalks
  <1>2. PICK to : Walks(H, p, to) /\ At(H, p) = to[n]
    BY <1>0, AtWalks
  <1>3. /\ IsPrefix(path, p) <=> L <= n /\ \A i \in 1..L : path[i] = p[i]
        /\ IsPrefix(p, path) <=> n <= L /\ \A i \in 1..n : p[i] = path[i]
    BY <1>0, PrefixIs
  <1>4. DOMAIN H \subseteq Nat /\ \A x \in DOMAIN H : x \notin Value
    <2> HIDE DEF H
    <2>1. DOMAIN H = 1..Len(H) /\ Len(H) \in Nat
      BY <1>0, HeapNodes
    <2>2. QED
      BY <2>1, PatchesAssumption
  <1>5. \A i \in 1..n : to[i] = IF IsMap(H, to[i - 1]) THEN H[to[i - 1]][p[i]] ELSE Absent
    BY <1>2 DEF Walks
  <1>6. CASE IsPrefix(path, p)
    <2>1. L < n /\ L <= n /\ \A i \in 1..L : path[i] = p[i]
      <3>1. L <= n /\ \A i \in 1..L : path[i] = p[i]
        BY <1>3, <1>6
      <3>2. L # n
        BY <1>0, <3>1, SamePath
      <3>3. QED
        BY <1>0, <3>1, <3>2
    <2> DEFINE l == L - 1
    <2>2. l \in 0..n /\ l < L /\ Along(path, p, l) /\ l + 1 = L /\ L \in 1..L /\ L \in 1..n
      BY <1>0, <2>1 DEF Along
    <2>3. to[l] = Node(h, patch, L)
      <3>1. to[l] = Node(h, patch, l + 1)
        BY <1>0, <1>2, <2>2, Follows
      <3> HIDE DEF l
      <3>2. QED
        BY <2>2, <3>1
    <2>4. Node(h, patch, L) \in DOMAIN H /\ H[Node(h, patch, L)][path[L]] = patch.from
      BY <2>2, Levels DEF Property
    <2> HIDE DEF H
    <2>5. to[L] = patch.from
      BY <1>5, <2>1, <2>2, <2>3, <2>4 DEF IsMap
    <2>6. patch.from \in Value /\ Absent \notin Value /\ Absent \notin DOMAIN H /\ patch.from \notin DOMAIN H
      BY <1>4, PatchesAssumption DEF IsPatch
    <2> DEFINE T == {j \in Nat : j \in L + 1..n => to[j] = Absent}
    <2>7. ASSUME NEW j \in Nat, \A m \in Nat : m < j => m \in T PROVE j \in T
      <3> SUFFICES ASSUME j \in L + 1..n PROVE to[j] = Absent
        OBVIOUS
      <3> DEFINE m == j - 1
      <3>1. m \in Nat /\ m < j /\ j \in 1..n /\ (m = L \/ m \in L + 1..n)
        BY <1>0
      <3>2. to[m] \notin DOMAIN H
        <4>1. m \in T
          BY <2>7, <3>1
        <4> HIDE DEF m
        <4>2. QED
          BY <2>5, <2>6, <3>1, <4>1
      <3>3. QED
        BY <1>5, <3>1, <3>2 DEF IsMap
    <2> HIDE DEF T
    <2>8. Nat \subseteq T
      BY <2>7, Induct
    <2>9. to[n] = Absent
      BY <1>0, <2>1, <2>8 DEF T
    <2>10. At(H, p) \notin Value
      BY <1>2, <2>6, <2>9
    <2>11. QED
      BY <1>6, <2>10 DEF H
  <1>7. CASE ~IsPrefix(path, p) /\ IsPrefix(p, path)
    <2>1. n < L /\ \A i \in 1..n : p[i] = path[i]
      <3>1. n <= L /\ \A i \in 1..n : p[i] = path[i]
        BY <1>3, <1>7
      <3>2. n # L
        BY <1>0, <3>1, SamePath
      <3>3. QED
        BY <1>0, <3>1, <3>2
    <2> DEFINE m == n + 1
    <2>2. n \in 0..n /\ Along(path, p, n) /\ m \in 1..L
      BY <1>0, <2>1 DEF Along
    <2>3. to[n] = Node(h, patch, n + 1)
      BY <1>0, <1>2, <2>1, <2>2, Follows
    <2> HIDE DEF m
    <2>4. Node(h, patch, m) \in DOMAIN H
      BY <2>2, Levels
    <2>5. At(H, p) \notin Value
      BY <1>2, <1>4, <2>3, <2>4 DEF m
    <2>6. QED
      BY <1>7, <2>5 DEF H
  <1>8. CASE ~IsPrefix(path, p) /\ ~IsPrefix(p, path)
    <2>1. Parted(path, p, n)
      <3>1. CASE n <= L
        <4>1. PICK i \in 1..n : p[i] # path[i]
          BY <1>3, <1>8, <3>1
        <4>2. i <= L
          BY <1>0, <3>1
        <4>3. QED
          BY <4>1, <4>2 DEF Parted
      <3>2. CASE L <= n
        <4>1. PICK i \in 1..L : path[i] # p[i]
          BY <1>3, <1>8, <3>2
        <4>2. i \in 1..n /\ i <= L
          BY <1>0, <3>2
        <4>3. QED
          BY <4>1, <4>2 DEF Parted
      <3>3. QED
        BY <1>0, <3>1, <3>2
    <2>2. n \in 0..n
      BY <1>0
    <2>3. to[n] = at[n]
      BY <1>1, <1>2, <2>1, <2>2, Parts
    <2>4. At(H, p) = At(h, p)
      BY <1>1, <1>2, <2>3
    <2>5. QED
      BY <1>8, <2>4 DEF H
  <1>9. QED
    BY <1>6, <1>7, <1>8

-----------------------------------------------------------------------------
LEMMA Sets ==
  ASSUME NEW h, NEW patch, IsHeap(h), patch \in Patch, Acyclic(h), Tree(h), Straight(h, patch.to)
  PROVE  Contents(ApplyTo(h, patch)) = SetPath(Contents(h), patch.to, patch.from)
  <1> DEFINE path == patch.to
             H == ApplyTo(h, patch)
             R == SetPath(Contents(h), path, patch.from)
  <1>0. IsPatch(patch) /\ patch.from \in Value
    BY PatchIs DEF IsPatch
  <1>1. path \in Paths(Depth) /\ \A p \in Paths(Depth) : IsPath(p)
    <2>1. MaxLength \in Nat /\ Depth \in Nat /\ MaxLength < Depth
      BY PatchesAssumption DEF Depth
    <2>2. PICK k \in 1..MaxLength : path \in [1..k -> Key]
      BY DEF Patch, Paths
    <2>3. k \in 1..Depth
      BY <2>1
    <2>4. path \in Paths(Depth)
      BY <2>2, <2>3 DEF Paths
    <2>5. ASSUME NEW p \in Paths(Depth) PROVE IsPath(p)
      <3>1. PICK l \in 1..Depth : p \in [1..l -> Key]
        BY DEF Paths
      <3>2. l \in Nat /\ l # 0
        BY <2>1
      <3>3. p \in Seq(Key) /\ p # << >>
        BY <3>1, <3>2
      <3>4. QED
        BY <3>3 DEF IsPath
    <2>6. QED
      BY <2>4, <2>5
  <1>2. At(H, path) = patch.from
    BY <1>0, Reads
  <1>3. IsPrefix(path, path)
    BY <1>0, PrefixIs DEF IsPatch, IsPath
  <1>4. \A p \in Paths(Depth) : p # path =>
          IF IsPrefix(path, p) \/ IsPrefix(p, path) THEN At(H, p) \notin Value ELSE At(H, p) = At(h, p)
    BY <1>0, <1>1, Keeps
  <1> HIDE DEF H
  <1>5. /\ \A e : e \in Contents(H) <=> \E p \in Paths(Depth) : e = <<p, At(H, p)>> /\ At(H, p) \in Value
        /\ \A e : e \in Contents(h) <=> \E p \in Paths(Depth) : e = <<p, At(h, p)>> /\ At(h, p) \in Value
    BY DEF Contents
  <1>6. \A e : e \in R <=>
          \/ e = <<path, patch.from>>
          \/ e \in Contents(h) /\ ~IsPrefix(path, e[1]) /\ ~IsPrefix(e[1], path)
    BY DEF SetPath
  <1>7. ASSUME NEW e \in Contents(H) PROVE e \in R
    <2>1. PICK p \in Paths(Depth) : e = <<p, At(H, p)>> /\ At(H, p) \in Value
      BY <1>5
    <2>2. CASE p = path
      BY <1>2, <1>6, <2>1, <2>2
    <2>3. CASE p # path
      <3>1. ~IsPrefix(path, p) /\ ~IsPrefix(p, path) /\ At(H, p) = At(h, p)
        BY <1>4, <2>1, <2>3
      <3>2. e = <<p, At(h, p)>> /\ At(h, p) \in Value /\ e[1] = p
        BY <2>1, <3>1
      <3>3. e \in Contents(h)
        BY <1>5, <3>2
      <3>4. QED
        BY <1>6, <3>1, <3>2, <3>3
    <2>4. QED
      BY <2>2, <2>3
  <1>8. ASSUME NEW e \in R PROVE e \in Contents(H)
    <2>1. CASE e = <<path, patch.from>>
      BY <1>0, <1>1, <1>2, <1>5, <2>1
    <2>2. CASE e \in Contents(h) /\ ~IsPrefix(path, e[1]) /\ ~IsPrefix(e[1], path)
      <3>1. PICK p \in Paths(Depth) : e = <<p, At(h, p)>> /\ At(h, p) \in Value
        BY <1>5, <2>2
      <3>2. e[1] = p
        BY <3>1
      <3>3. ~IsPrefix(path, p) /\ ~IsPrefix(p, path) /\ p # path
        BY <1>3, <2>2, <3>2
      <3>4. At(H, p) = At(h, p)
        BY <1>4, <3>3
      <3>5. QED
        BY <1>5, <3>1, <3>4
    <2>3. QED
      BY <1>6, <2>1, <2>2
  <1> HIDE DEF R
  <1>9. Contents(H) = R
    BY <1>7, <1>8
  <1>10. QED
    BY <1>9 DEF H, R

KeepInv == TypeInv /\ Acyclic(heap) /\ (straight => Tree(heap))

LEMMA KeepInit == Init => KeepInv
  <1> SUFFICES ASSUME Init PROVE KeepInv
    OBVIOUS
  <1>1. TypeInv /\ Acyclic(heap)
    BY ReadsInit DEF ReadsInv
  <1>2. Tree(heap)
    <2>1. DOMAIN heap \subseteq Nat /\ \A n \in DOMAIN heap : n >= 1
      BY <1>1, HeapNodes DEF TypeInv
    <2>2. \A n \in DOMAIN heap, k \in Key : heap[n][k] \in DOMAIN heap =>
            /\ heap[n][k] > n
            /\ \A m \in DOMAIN heap, l \in Key : heap[m][l] = heap[n][k] => m = n /\ l = k
      BY PatchesAssumption DEF Init
    <2>3. \A n, c \in DOMAIN heap : c > n => c # 1
      BY <2>1
    <2>4. QED
      BY <2>2, <2>3 DEF Tree
  <1>3. QED
    BY <1>1, <1>2 DEF KeepInv

LEMMA KeepStep ==
  KeepInv /\ [Next]_vars =>
    /\ KeepInv'
    /\ [straight' => Contents(heap') = SetPath(Contents(heap), last'.to, last'.from)]_vars
  <1> SUFFICES ASSUME KeepInv, [Next]_vars
               PROVE  /\ KeepInv'
                      /\ [straight' => Contents(heap') = SetPath(Contents(heap), last'.to, last'.from)]_vars
    OBVIOUS
  <1>1. TypeInv'
    BY TypeStep DEF KeepInv
  <1>2. CASE Next
    <2> DEFINE patch == Head(patches)
    <2>1. patches \in Seq(Patch) /\ patches # << >>
      BY <1>2 DEF Next, ApplyNext, KeepInv, TypeInv
    <2>2. patch \in Patch
      BY <2>1
    <2>3. IsHeap(heap) /\ IsPatch(patch) /\ Acyclic(heap)
      BY <2>2, PatchIs DEF KeepInv, TypeInv
    <2>4. /\ heap' = ApplyTo(heap, patch) /\ last' = patch
          /\ straight' = (straight /\ Straight(heap, patch.to))
      BY <1>2 DEF Next, ApplyNext
    <2> HIDE DEF patch
    <2>5. Acyclic(heap')
      BY <2>3, <2>4, AcyclicStep
    <2>6. ASSUME straight'
          PROVE  /\ Tree(heap')
                 /\ Contents(heap') = SetPath(Contents(heap), last'.to, last'.from)
      <3>1. Tree(heap) /\ Straight(heap, patch.to)
        BY <2>4, <2>6 DEF KeepInv
      <3>2. Tree(heap')
        BY <2>3, <2>4, <3>1, TreeStep
      <3>3. Contents(ApplyTo(heap, patch)) = SetPath(Contents(heap), patch.to, patch.from)
        BY <2>2, <2>3, <3>1, Sets
      <3>4. QED
        BY <2>4, <3>2, <3>3
    <2>7. QED
      BY <1>1, <2>5, <2>6 DEF KeepInv
  <1>3. CASE UNCHANGED vars
    BY <1>1, <1>3 DEF vars, KeepInv
  <1>4. QED
    BY <1>2, <1>3

\* A patch sets its path and keeps everything else in the status, whatever the patches
\* before it did, until one finds a later name of its path where an earlier one is
\* missing.
THEOREM PatchesKeep == Spec => KeepsTheRest
  <1>1. Spec => [][straight' => Contents(heap') = SetPath(Contents(heap), last'.to, last'.from)]_vars
    BY KeepInit, KeepStep, PTL DEF Spec
  <1>2. QED
    BY <1>1 DEF KeepsTheRest
==============================================================================
