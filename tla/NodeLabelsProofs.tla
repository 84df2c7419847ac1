--------------------------- MODULE NodeLabelsProofs ---------------------------
(***************************************************************************)
(* Proofs about GPULabels and NodeLabels, for any listings, writers,       *)
(* retries and faults.  First the labels of one listing: sorting by ranks, *)
(* the writes of calculateGPULabels as a set in which each key occurs      *)
(* once, and what can be read back.  Then EnsureLabels, with any number of *)
(* workers, and last with one worker per node.                             *)
(***************************************************************************)
EXTENDS NodeLabels, FiniteSetTheorems, TLAPS

(* ------------------------- sorting, by ranks ----------------------------- *)

(* A smaller element has fewer elements below it. *)
LEMMA RankGrows ==
  ASSUME NEW S, IsFiniteSet(S), S \subseteq Nat, NEW x \in S, NEW y \in S, x < y
  PROVE  Below(S, x) < Below(S, y)
<1> DEFINE bx == {z \in S : z < x}
           by == {z \in S : z < y}
<1>1. bx \subseteq by /\ by \subseteq S
  <2>1. \A z \in S : z < x => z < y
    OBVIOUS
  <2> QED
    BY <2>1
<1>2. x \in by /\ x \notin bx
  OBVIOUS
<1>3. IsFiniteSet(by)
  BY <1>1, FS_Subset
<1>4. IsFiniteSet(bx)
  BY <1>1, <1>3, FS_Subset
<1>5. Cardinality(bx) <= Cardinality(by) /\ Cardinality(by) # Cardinality(bx)
  BY <1>1, <1>2, <1>3, FS_Subset
<1>6. Cardinality(bx) \in Nat /\ Cardinality(by) \in Nat
  BY <1>3, <1>4, FS_CardinalityType
<1> HIDE DEF bx, by
<1>7. Cardinality(bx) < Cardinality(by)
  BY <1>5, <1>6
<1> QED
  BY <1>7 DEF Below, bx, by

(* Ranks are counted from 0. *)
LEMMA RankBounded ==
  ASSUME NEW S, IsFiniteSet(S), NEW x \in S, S \subseteq Nat
  PROVE  Cardinality(S) \in Nat /\ Below(S, x) \in Nat /\ Below(S, x) < Cardinality(S)
<1> DEFINE bx == {z \in S : z < x}
<1>1. bx \subseteq S /\ x \notin bx
  OBVIOUS
<1>2. IsFiniteSet(bx) /\ Cardinality(bx) <= Cardinality(S) /\ Cardinality(S) # Cardinality(bx)
  BY <1>1, FS_Subset
<1>3. Cardinality(bx) \in Nat /\ Cardinality(S) \in Nat
  BY <1>2, FS_CardinalityType
<1> HIDE DEF bx
<1>4. Cardinality(bx) < Cardinality(S)
  BY <1>2, <1>3
<1> QED
  BY <1>3, <1>4 DEF Below, bx

LEMMA RankOrders ==
  ASSUME NEW S, IsFiniteSet(S), S \subseteq Nat, NEW x \in S, NEW y \in S
  PROVE  /\ Below(S, x) < Below(S, y) => x < y
         /\ Below(S, x) = Below(S, y) => x = y
<1>1. Below(S, x) \in Nat /\ Below(S, y) \in Nat /\ x \in Nat /\ y \in Nat
  BY RankBounded
<1>2. x < y => Below(S, x) < Below(S, y)
  BY RankGrows
<1>3. y < x => Below(S, y) < Below(S, x)
  BY RankGrows
<1> QED
  BY <1>1, <1>2, <1>3

(* sort.Strings has a result ... *)
LEMMA SortExists ==
  ASSUME NEW S, IsFiniteSet(S), S \subseteq Nat
  PROVE  \E s \in SetToSeqs(S) : \A i, j \in DOMAIN s : i < j => s[i] < s[j]
<1> DEFINE n == Cardinality(S)
           rank == [x \in S |-> Below(S, x) + 1]
           s == [i \in 1 .. n |-> CHOOSE x \in S : Below(S, x) + 1 = i]
<1>1. n \in Nat
  BY FS_CardinalityType
<1>2. \A x \in S : Below(S, x) \in Nat /\ Below(S, x) < n
  BY RankBounded
<1>3. IsFiniteSet(1 .. n) /\ Cardinality(1 .. n) = n
  BY <1>1, FS_Interval
<1>4. rank \in [S -> 1 .. n]
  BY <1>1, <1>2
<1>5. \A x, y \in S : rank[x] = rank[y] => x = y
  <2> SUFFICES ASSUME NEW x \in S, NEW y \in S, rank[x] = rank[y]
               PROVE  x = y
    OBVIOUS
  <2>1. Below(S, x) = Below(S, y)
    BY <1>2
  <2> QED
    BY <2>1, RankOrders
<1>6. rank \in Injection(S, 1 .. n)
  BY <1>4, <1>5 DEF Injection, IsInjective
<1>7. rank \in Surjection(S, 1 .. n)
  BY <1>3, <1>6, FS_Injection
<1>8. \A i \in 1 .. n : \E x \in S : Below(S, x) + 1 = i
  BY <1>7 DEF Surjection
<1>9. \A i \in 1 .. n : s[i] \in S /\ Below(S, s[i]) + 1 = i
  BY <1>8
<1>10. s \in [1 .. n -> S]
  BY <1>9
<1>11. \A i, j \in 1 .. n : i # j => s[i] # s[j]
  BY <1>9
<1>12. ASSUME NEW i \in 1 .. n, NEW j \in 1 .. n, i < j
       PROVE  s[i] < s[j]
  <2>2. /\ s[i] \in S /\ Below(S, s[i]) + 1 = i /\ Below(S, s[i]) \in Nat
        /\ s[j] \in S /\ Below(S, s[j]) + 1 = j /\ Below(S, s[j]) \in Nat
    BY <1>2, <1>9
  <2> HIDE DEF s, rank, n
  <2>3. Below(S, s[i]) < Below(S, s[j])
    BY <2>2, <1>12
  <2> QED
    BY <2>2, <2>3, RankOrders
<1>13. s \in SetToSeqs(S)
  BY <1>10, <1>11 DEF SetToSeqs
<1> QED
  BY <1>10, <1>12, <1>13

(* ... in which every element is at the place that its rank says. *)
LEMMA SortPlaces ==
  ASSUME NEW S, IsFiniteSet(S), S \subseteq Nat
  PROVE  /\ DOMAIN Ascending(S) = 1 .. Cardinality(S)
         /\ \A i \in 1 .. Cardinality(S) :
              Ascending(S)[i] \in S /\ Below(S, Ascending(S)[i]) = i - 1
         /\ \A x \in S : \E i \in 1 .. Cardinality(S) : Ascending(S)[i] = x
<1> DEFINE n == Cardinality(S)
           s == Ascending(S)
<1>1. s \in SetToSeqs(S) /\ \A i, j \in DOMAIN s : i < j => s[i] < s[j]
  BY SortExists DEF Ascending
<1>2. s \in [1 .. n -> S] /\ \A i, j \in 1 .. n : i # j => s[i] # s[j]
  BY <1>1 DEF SetToSeqs
<1>3. n \in Nat
  BY FS_CardinalityType
<1> HIDE DEF s, n
<1>4. s \in Injection(1 .. n, S)
  BY <1>2 DEF Injection, IsInjective
<1>5. Cardinality(1 .. n) = n
  BY <1>3, FS_Interval
<1>6. s \in Surjection(1 .. n, S)
  BY <1>4, <1>5, FS_Injection DEF n
<1>7. \A x \in S : \E i \in 1 .. n : s[i] = x
  BY <1>6 DEF Surjection
<1>8. ASSUME NEW i \in 1 .. n
      PROVE  Below(S, s[i]) = i - 1
  <2> DEFINE below == {y \in S : y < s[i]}
             f == [j \in 1 .. (i - 1) |-> s[j]]
  <2>1. \A j \in 1 .. (i - 1) : j \in 1 .. n /\ j < i
    BY <1>3
  <2>2. \A j \in 1 .. n : s[j] \in Nat
    BY <1>2
  <2>3. f \in [1 .. (i - 1) -> below]
    BY <1>1, <1>2, <2>1
  <2>4. \A j, k \in 1 .. (i - 1) : f[j] = f[k] => j = k
    BY <1>2, <2>1
  <2>5. \A y \in below : \E j \in 1 .. (i - 1) : f[j] = y
    <3> SUFFICES ASSUME NEW y \in below
                 PROVE  \E j \in 1 .. (i - 1) : f[j] = y
      OBVIOUS
    <3>1. PICK j \in 1 .. n : s[j] = y
      BY <1>7
    <3>2. s[j] < s[i]
      BY <3>1
    <3>3. ~(i < j) /\ i # j
      BY <1>1, <1>2, <2>2, <3>2
    <3>4. j \in 1 .. (i - 1)
      BY <1>3, <3>3
    <3> QED
      BY <3>1, <3>4
  <2>6. f \in Bijection(1 .. (i - 1), below)
    BY <2>3, <2>4, <2>5 DEF Bijection, Injection, Surjection, IsInjective
  <2>7. ExistsBijection(1 .. (i - 1), below)
    BY <2>6 DEF ExistsBijection
  <2>8. i - 1 \in Nat
    BY <1>3
  <2>9. Cardinality(below) = i - 1
    BY <2>7, <2>8, FS_CountingElements
  <2> QED
    BY <2>9 DEF Below
<1>9. DOMAIN s = 1 .. n /\ \A i \in 1 .. n : s[i] \in S
  BY <1>2
<1> QED
  BY <1>7, <1>8, <1>9 DEF s, n
(* ---------------------------- one listing -------------------------------- *)

(* What is known of a listing. *)
Listed(l) ==
  /\ l \subseteq Texts \X Texts
  /\ IsFiniteSet(l)
  /\ \A c, d \in ChassisOf(l) : c \in Unset /\ d \in Unset => c = d

LEMMA ListedFinite ==
  ASSUME NEW l, Listed(l)
  PROVE  /\ IsFiniteSet(ChassisOf(l)) /\ ChassisOf(l) \subseteq Nat
         /\ \A c \in ChassisOf(l) : IsFiniteSet(GPUsOf(l, c)) /\ GPUsOf(l, c) \subseteq Nat
<1>1. l \subseteq Nat \X Nat /\ IsFiniteSet(l)
  BY TextsOK DEF Listed, TextsOK
<1>2. IsFiniteSet(ChassisOf(l))
  <2> DEFINE f == [g \in l |-> g[1]]
  <2>1. f \in Surjection(l, ChassisOf(l))
    BY DEF ChassisOf, Surjection
  <2> QED
    BY <1>1, <2>1, FS_Surjection
<1>3. ASSUME NEW c \in ChassisOf(l)
      PROVE  IsFiniteSet(GPUsOf(l, c)) /\ GPUsOf(l, c) \subseteq Nat
  <2> DEFINE part == {h \in l : h[1] = c}
             f == [g \in part |-> g[2]]
  <2>1. f \in Surjection(part, GPUsOf(l, c))
    BY DEF GPUsOf, Surjection
  <2>2. IsFiniteSet(part)
    BY <1>1, FS_Subset
  <2>3. IsFiniteSet(GPUsOf(l, c))
    BY <2>1, <2>2, FS_Surjection
  <2>4. GPUsOf(l, c) \subseteq Nat
    BY <1>1 DEF GPUsOf
  <2> QED
    BY <2>3, <2>4
<1>4. ChassisOf(l) \subseteq Nat
  BY <1>1 DEF ChassisOf
<1> QED
  BY <1>2, <1>3, <1>4

LEMMA NamedIsSet ==
  ASSUME NEW t \in Texts
  PROVE  Named(t) <=> t \notin Unset
BY TextsOK DEF Named, sanitizeLabelValue, TextsOK

LEMMA ListedMembers ==
  ASSUME NEW l, Listed(l), NEW g \in l
  PROVE  /\ g[1] \in ChassisOf(l) /\ g[2] \in GPUsOf(l, g[1])
         /\ g[1] \in Texts /\ g[2] \in Texts /\ g = <<g[1], g[2]>>
BY DEF Listed, ChassisOf, GPUsOf

(* A single unit, or a unit without a chassis serial among several, is told  *)
(* by that.                                                                  *)
LEMMA PlainUnitIsOne ==
  ASSUME NEW l, Listed(l), NEW c \in ChassisOf(l), NEW d \in ChassisOf(l),
         ~(Several(l) /\ Named(c)), ~(Several(l) /\ Named(d))
  PROVE  c = d
<1>1. IsFiniteSet(ChassisOf(l)) /\ ChassisOf(l) \subseteq Nat
  BY ListedFinite
<1>2. CASE ~Several(l)
  <2>1. /\ Cardinality(ChassisOf(l)) \in Nat
        /\ Below(ChassisOf(l), c) \in Nat /\ Below(ChassisOf(l), c) < Cardinality(ChassisOf(l))
        /\ Below(ChassisOf(l), d) \in Nat /\ Below(ChassisOf(l), d) < Cardinality(ChassisOf(l))
    BY <1>1, RankBounded
  <2>2. ~(Cardinality(ChassisOf(l)) > 1)
    BY <1>2 DEF Several
  <2>3. Below(ChassisOf(l), c) = Below(ChassisOf(l), d)
    BY <2>1, <2>2
  <2> QED
    BY <1>1, <2>3, RankOrders
<1>3. CASE Several(l)
  <2>1. c \in Texts /\ d \in Texts
    BY DEF Listed, ChassisOf
  <2>2. c \in Unset /\ d \in Unset
    BY <1>3, <2>1, NamedIsSet
  <2> QED
    BY <2>2 DEF Listed
<1> QED
  BY <1>2, <1>3

(* The key of a GPU tells which GPU of which unit. *)
LEMMA KeyTellsGPU ==
  ASSUME NEW l, Listed(l), NEW g \in l, NEW h \in l, KeyOf(l, g) = KeyOf(l, h)
  PROVE  g = h
<1> DEFINE C == ChassisOf(l)
           i(x) == Below(C, x[1])
           j(x) == Below(GPUsOf(l, x[1]), x[2])
           own(x) == Several(l) /\ Named(x[1])
<1>1. \A x \in l : KeyOf(l, x) = IF own(x) THEN <<"chassis", i(x), "gpu", j(x)>> ELSE <<"gpu", j(x)>>
  BY DEF KeyOf, GPUKey
<1> HIDE DEF i, j, own
<1>2. /\ own(g) <=> own(h)
      /\ own(g) => i(g) = i(h)
      /\ j(g) = j(h)
  BY <1>1
<1>3. IsFiniteSet(C) /\ C \subseteq Nat
  BY ListedFinite
<1>4. g[1] \in C /\ h[1] \in C
  BY ListedMembers
<1>5. g[1] = h[1]
  <2>1. CASE own(g)
    <3>1. Below(C, g[1]) = Below(C, h[1])
      BY <1>2, <2>1 DEF i
    <3> HIDE DEF C
    <3> QED
      BY <1>3, <1>4, <3>1, RankOrders
  <2>2. CASE ~own(g)
    BY <1>2, <1>4, <2>2, PlainUnitIsOne DEF own
  <2> QED
    BY <2>1, <2>2
<1>6. g[2] = h[2]
  <2> DEFINE G == GPUsOf(l, g[1])
  <2>1. Below(G, g[2]) = Below(G, h[2])
    BY <1>2, <1>5 DEF j
  <2>2. IsFiniteSet(G) /\ G \subseteq Nat
    BY <1>4, ListedFinite
  <2>3. g[2] \in G /\ h[2] \in G
    BY <1>5, ListedMembers
  <2> HIDE DEF G
  <2> QED
    BY <2>1, <2>2, <2>3, RankOrders
<1> QED
  BY <1>5, <1>6, ListedMembers

(* And the key of a chassis, which chassis. *)
LEMMA KeyTellsChassis ==
  ASSUME NEW l, Listed(l), NEW c \in NamedIn(l), NEW d \in NamedIn(l),
         ChassisKey(Below(ChassisOf(l), c), Several(l)) = ChassisKey(Below(ChassisOf(l), d), Several(l))
  PROVE  c = d
<1>1. IsFiniteSet(ChassisOf(l)) /\ ChassisOf(l) \subseteq Nat
  BY ListedFinite
<1>2. c \in ChassisOf(l) /\ d \in ChassisOf(l)
  BY DEF NamedIn
<1>3. CASE Several(l)
  <2>1. Below(ChassisOf(l), c) = Below(ChassisOf(l), d)
    BY <1>3 DEF ChassisKey
  <2> QED
    BY <1>1, <1>2, <2>1, RankOrders
<1>4. CASE ~Several(l)
  BY <1>2, <1>4, PlainUnitIsOne
<1> QED
  BY <1>3, <1>4

(* No two kinds of keys are alike. *)
LEMMA KindsOfKeys ==
  ASSUME NEW i, NEW j, NEW own \in BOOLEAN, NEW m, NEW several \in BOOLEAN
  PROVE  /\ GPUKey(i, j, own) # ChassisKey(m, several)
         /\ GPUKey(i, j, own) # <<"chassis-count">>
         /\ ChassisKey(m, several) # <<"chassis-count">>
         /\ Len(ChassisKey(m, several)) # 4
         /\ Len(<<"chassis-count">>) # 4
         /\ ChassisKey(m, several)[1] = "chassis"
         /\ Len(GPUKey(i, j, own)) = 4 <=> own
         /\ GPUKey(i, j, own)[1] = "gpu" <=> ~own
         /\ own => GPUKey(i, j, own)[2] = i /\ GPUKey(i, j, own)[1] = "chassis"
<1>1. GPUKey(i, j, own) # ChassisKey(m, several)
  BY DEF GPUKey, ChassisKey
<1>2. GPUKey(i, j, own) # <<"chassis-count">>
  BY DEF GPUKey
<1>3. ChassisKey(m, several) # <<"chassis-count">>
  BY DEF ChassisKey
<1>4. Len(ChassisKey(m, several)) # 4 /\ Len(<<"chassis-count">>) # 4
  BY DEF ChassisKey
<1>5. ChassisKey(m, several)[1] = "chassis"
  BY DEF ChassisKey
<1>6. Len(GPUKey(i, j, own)) = 4 <=> own
  BY DEF GPUKey
<1>7. /\ GPUKey(i, j, own)[1] = "gpu" <=> ~own
      /\ own => GPUKey(i, j, own)[2] = i /\ GPUKey(i, j, own)[1] = "chassis"
  BY DEF GPUKey
<1> QED
  BY <1>1, <1>2, <1>3, <1>4, <1>5, <1>6, <1>7
(* ----------------------- what is computed from it ------------------------ *)

(* sort.Slice leaves the units in the order of their chassis, whatever order *)
(* they came in.                                                             *)
LEMMA SortedUnits ==
  ASSUME NEW l, Listed(l), NEW units \in Groupings(l)
  PROVE  LET n == Cardinality(ChassisOf(l))
         IN  /\ n \in Nat
             /\ DOMAIN units = 1 .. n
             /\ ByChassis(units) = [i \in 1 .. n |-> Unit(l, Ascending(ChassisOf(l))[i])]
<1> DEFINE C == ChassisOf(l)
           n == Cardinality(C)
           U == {Unit(l, c) : c \in C}
           order == Ascending({units[i].chassis : i \in DOMAIN units})
<1>1. IsFiniteSet(C) /\ C \subseteq Nat /\ n \in Nat
  BY ListedFinite, FS_CardinalityType
<1>2. \A c \in C : Unit(l, c).chassis = c
  BY DEF Unit
<1>3. IsFiniteSet(U) /\ Cardinality(U) = n
  <2> DEFINE f == [c \in C |-> Unit(l, c)]
  <2>1. f \in [C -> U] /\ \A c, d \in C : f[c] = f[d] => c = d
    BY <1>2
  <2>2. \A u \in U : \E c \in C : f[c] = u
    OBVIOUS
  <2>3. f \in Bijection(C, U)
    BY <2>1, <2>2 DEF Bijection, Injection, Surjection, IsInjective
  <2>4. ExistsBijection(C, U)
    BY <2>3 DEF ExistsBijection
  <2> HIDE DEF C, U
  <2> QED
    BY <1>1, <2>4, FS_Bijection
<1>4. units \in [1 .. n -> U] /\ \A i, j \in 1 .. n : i # j => units[i] # units[j]
  <2>1. units \in SetToSeqs(U)
    BY DEF Groupings
  <2>2. units \in [1 .. Cardinality(U) -> U]
        /\ \A i, j \in 1 .. Cardinality(U) : i # j => units[i] # units[j]
    BY <2>1 DEF SetToSeqs
  <2> QED
    BY <1>3, <2>2
<1>5. \A u \in U : \E i \in 1 .. n : units[i] = u
  <2> HIDE DEF U, n
  <2>1. units \in Injection(1 .. n, U)
    BY <1>4 DEF Injection, IsInjective
  <2>2. Cardinality(1 .. n) = n
    BY <1>1, FS_Interval
  <2>3. units \in Surjection(1 .. n, U)
    BY <1>3, <2>1, <2>2, FS_Injection
  <2> QED
    BY <2>3 DEF Surjection
<1>6. \A i \in 1 .. n : units[i].chassis \in C /\ units[i] = Unit(l, units[i].chassis)
  BY <1>2, <1>4
<1>7. {units[i].chassis : i \in DOMAIN units} = C
  <2>1. DOMAIN units = 1 .. n
    BY <1>4
  <2>2. \A c \in C : \E i \in 1 .. n : units[i].chassis = c
    BY <1>2, <1>5
  <2> QED
    BY <1>6, <2>1, <2>2
<1>8. order = Ascending(C) /\ \A i \in 1 .. n : order[i] \in C
  BY <1>1, <1>7, SortPlaces
<1>9. ByChassis(units)
        = [i \in 1 .. n |-> units[CHOOSE j \in 1 .. n : units[j].chassis = order[i]]]
  <2>1. DOMAIN units = 1 .. n
    BY <1>4
  <2> QED
    BY <2>1 DEF ByChassis
<1>10. ASSUME NEW i \in 1 .. n
       PROVE  units[CHOOSE j \in 1 .. n : units[j].chassis = order[i]] = Unit(l, order[i])
  <2> DEFINE at == CHOOSE j \in 1 .. n : units[j].chassis = order[i]
  <2>1. \E j \in 1 .. n : units[j].chassis = order[i]
    <3>1. order[i] \in C /\ Unit(l, order[i]) \in U
      BY <1>8
    <3> HIDE DEF order, C, U, n
    <3>2. PICK j \in 1 .. n : units[j] = Unit(l, order[i])
      BY <1>5, <3>1
    <3> QED
      BY <1>2, <3>1, <3>2
  <2>2. at \in 1 .. n /\ units[at].chassis = order[i]
    BY <2>1
  <2> HIDE DEF at, order
  <2>3. units[at] = Unit(l, order[i])
    BY <1>6, <2>2
  <2> QED
    BY <2>3 DEF at
<1>11. DOMAIN units = 1 .. n
  BY <1>4
<1>12. ByChassis(units) = [i \in 1 .. n |-> Unit(l, order[i])]
  BY <1>9, <1>10
<1> QED
  BY <1>1, <1>8, <1>11, <1>12

(* The writes for a listing, without any order. *)
GPUWrite(l, g) == Write(Below(ChassisOf(l), g[1]), KeyOf(l, g), sanitizeLabelValue(g[2]))

ChassisWrite(l, c) ==
  Write(Below(ChassisOf(l), c), ChassisKey(Below(ChassisOf(l), c), Several(l)),
        sanitizeLabelValue(c))

CountWrites(l) ==
  IF NamedIn(l) = {} THEN {}
  ELSE {Write(Cardinality(ChassisOf(l)), <<"chassis-count">>, Cardinality(NamedIn(l)))}

WritesOf(l) ==
  {GPUWrite(l, g) : g \in {h \in l : h[2] # 0}}
    \cup {ChassisWrite(l, c) : c \in NamedIn(l)}
    \cup CountWrites(l)

(* Each key is written once. *)
LEMMA WrittenOnce ==
  ASSUME NEW l, Listed(l), NEW e \in WritesOf(l), NEW f \in WritesOf(l), e.key = f.key
  PROVE  e = f
<1> DEFINE G == {GPUWrite(l, g) : g \in {h \in l : h[2] # 0}}
           H == {ChassisWrite(l, c) : c \in NamedIn(l)}
           K == CountWrites(l)
<1>1. \A x \in G : \E g \in l : x = GPUWrite(l, g) /\ x.key = KeyOf(l, g)
  BY DEF GPUWrite, Write
<1>2. \A x \in H : \E c \in NamedIn(l) :
        x = ChassisWrite(l, c) /\ x.key = ChassisKey(Below(ChassisOf(l), c), Several(l))
  BY DEF ChassisWrite, Write
<1>3. \A x, y \in K : x = y /\ x.key = <<"chassis-count">>
  BY DEF CountWrites, Write
<1>4. \A g \in l : /\ KeyOf(l, g) # <<"chassis-count">>
                   /\ \A c : KeyOf(l, g) # ChassisKey(Below(ChassisOf(l), c), Several(l))
  BY DEF KeyOf, GPUKey, ChassisKey
<1>5. \A c : ChassisKey(Below(ChassisOf(l), c), Several(l)) # <<"chassis-count">>
  BY DEF ChassisKey
<1>6. ASSUME NEW x \in G, NEW y \in G, x.key = y.key
      PROVE  x = y
  BY <1>1, <1>6, KeyTellsGPU
<1>7. ASSUME NEW x \in H, NEW y \in H, x.key = y.key
      PROVE  x = y
  BY <1>2, <1>7, KeyTellsChassis
<1>8. \A x \in G, y \in H : x.key # y.key
  BY <1>1, <1>2, <1>4
<1>9. \A x \in G, y \in K : x.key # y.key
  BY <1>1, <1>3, <1>4
<1>10. \A x \in H, y \in K : x.key # y.key
  BY <1>2, <1>3, <1>5
<1>11. e \in G \cup H \cup K /\ f \in G \cup H \cup K
  BY DEF WritesOf
<1> HIDE DEF G, H, K
<1> QED
  BY <1>3, <1>6, <1>7, <1>8, <1>9, <1>10, <1>11
(* The writes of one unit. *)
LEMMA WritesOfUnit ==
  ASSUME NEW l, Listed(l), NEW c \in ChassisOf(l)
  PROVE  UnitWrites(Unit(l, c), Below(ChassisOf(l), c), Several(l))
           = {GPUWrite(l, g) : g \in {h \in l : h[1] = c /\ h[2] # 0}}
               \cup (IF Named(c) THEN {ChassisWrite(l, c)} ELSE {})
<1> DEFINE S == GPUsOf(l, c)
           s == Ascending(S)
           i == Below(ChassisOf(l), c)
           own == Several(l) /\ Named(c)
           W(j) == Write(i, GPUKey(i, j - 1, own), sanitizeLabelValue(s[j]))
           serials == {j \in DOMAIN s : s[j] # 0}
           part == {h \in l : h[1] = c /\ h[2] # 0}
<1>1. /\ DOMAIN s = 1 .. Cardinality(S)
      /\ \A j \in DOMAIN s : s[j] \in S /\ Below(S, s[j]) = j - 1
      /\ \A x \in S : \E j \in DOMAIN s : s[j] = x
  BY ListedFinite, SortPlaces
<1>2. UnitWrites(Unit(l, c), i, Several(l))
        = {W(j) : j \in serials} \cup (IF Named(c) THEN {ChassisWrite(l, c)} ELSE {})
  BY DEF UnitWrites, Unit, ChassisWrite
<1>3. \A g \in part : GPUWrite(l, g) = Write(i, GPUKey(i, Below(S, g[2]), own), sanitizeLabelValue(g[2]))
  BY DEF GPUWrite, KeyOf
<1>4. ASSUME NEW j \in serials
      PROVE  \E g \in part : W(j) = GPUWrite(l, g)
  <2>1. s[j] \in S /\ s[j] # 0 /\ Below(S, s[j]) = j - 1
    BY <1>1
  <2>2. PICK g \in l : g[1] = c /\ g[2] = s[j]
    BY <2>1 DEF GPUsOf
  <2>3. g \in part
    BY <2>1, <2>2
  <2> HIDE DEF S, s, i, own, part
  <2>4. W(j) = GPUWrite(l, g)
    BY <1>3, <2>1, <2>2, <2>3
  <2> QED
    BY <2>3, <2>4
<1>5. ASSUME NEW g \in part
      PROVE  \E j \in serials : W(j) = GPUWrite(l, g)
  <2>1. g[2] \in S /\ g[2] # 0
    BY DEF GPUsOf
  <2>2. PICK j \in DOMAIN s : s[j] = g[2]
    BY <1>1, <2>1
  <2>3. Below(S, s[j]) = j - 1 /\ j \in serials
    BY <1>1, <2>1, <2>2
  <2> HIDE DEF S, s, i, own, part
  <2>4. W(j) = GPUWrite(l, g)
    BY <1>3, <2>2, <2>3
  <2> QED
    BY <2>3, <2>4
<1> HIDE DEF W, serials, part
<1>6. {W(j) : j \in serials} = {GPUWrite(l, g) : g \in part}
  BY <1>4, <1>5
<1> QED
  BY <1>2, <1>6 DEF part

(* The writes of all units: those of the listing. *)
LEMMA WritesOfUnits ==
  ASSUME NEW l, Listed(l), NEW units \in Groupings(l)
  PROVE  calculateGPULabels(units) = Final(WritesOf(l))
<1> DEFINE C == ChassisOf(l)
           n == Cardinality(C)
           order == Ascending(C)
           sorted == ByChassis(units)
           named == {i \in DOMAIN sorted : Named(sorted[i].chassis)}
           count == IF named = {} THEN {}
                    ELSE {Write(n, <<"chassis-count">>, Cardinality(named))}
<1>1. /\ n \in Nat /\ DOMAIN units = 1 .. n
      /\ sorted = [i \in 1 .. n |-> Unit(l, order[i])]
  BY SortedUnits
<1>2. IsFiniteSet(C) /\ C \subseteq Nat
  BY ListedFinite
<1>3. /\ DOMAIN order = 1 .. n
      /\ \A i \in 1 .. n : order[i] \in C /\ Below(C, order[i]) = i - 1
      /\ \A x \in C : \E i \in 1 .. n : order[i] = x
  BY <1>2, SortPlaces
<1>4. Cardinality(DOMAIN units) = n
  BY <1>1, FS_Interval
<1>5. calculateGPULabels(units)
        = Final(count \cup UNION {UnitWrites(sorted[i], i - 1, Several(l)) : i \in DOMAIN sorted})
  BY <1>4 DEF calculateGPULabels, Several
<1>6. \A i \in 1 .. n : sorted[i] = Unit(l, order[i]) /\ sorted[i].chassis = order[i]
  BY <1>1 DEF Unit
<1>7. DOMAIN sorted = 1 .. n
  BY <1>1
<1>8. count = CountWrites(l)
  <2> DEFINE f == [i \in named |-> order[i]]
  <2> HIDE DEF n, C, order, sorted
  <2>1. f \in [named -> NamedIn(l)]
    BY <1>3, <1>6, <1>7 DEF NamedIn, C
  <2>2. \A i, j \in named : f[i] = f[j] => i = j
    <3> SUFFICES ASSUME NEW i \in named, NEW j \in named, f[i] = f[j]
                 PROVE  i = j
      OBVIOUS
    <3>1. i \in 1 .. n /\ j \in 1 .. n /\ order[i] = order[j]
      BY <1>7
    <3>2. i - 1 = j - 1
      BY <1>3, <3>1
    <3> QED
      BY <1>1, <3>1, <3>2
  <2>3. \A c \in NamedIn(l) : \E i \in named : f[i] = c
    <3> SUFFICES ASSUME NEW c \in NamedIn(l)
                 PROVE  \E i \in named : f[i] = c
      OBVIOUS
    <3>1. c \in C /\ Named(c)
      BY DEF NamedIn, C
    <3>2. PICK i \in 1 .. n : order[i] = c
      BY <1>3, <3>1
    <3>3. i \in named
      BY <1>6, <1>7, <3>1, <3>2
    <3> QED
      BY <3>2, <3>3
  <2>4. ExistsBijection(named, NamedIn(l))
    BY <2>1, <2>2, <2>3 DEF ExistsBijection, Bijection, Injection, Surjection, IsInjective
  <2>5. IsFiniteSet(named)
    <3>1. IsFiniteSet(1 .. n) /\ named \subseteq 1 .. n
      BY <1>1, <1>7, FS_Interval
    <3> QED
      BY <3>1, FS_Subset
  <2>6. Cardinality(named) = Cardinality(NamedIn(l))
    BY <2>4, <2>5, FS_Bijection
  <2>7. named = {} <=> NamedIn(l) = {}
    BY <2>1, <2>3
  <2> HIDE DEF named
  <2> QED
    BY <2>6, <2>7 DEF CountWrites, n, C
<1>9. \A i \in 1 .. n :
        UnitWrites(sorted[i], i - 1, Several(l))
          = {GPUWrite(l, g) : g \in {h \in l : h[1] = order[i] /\ h[2] # 0}}
              \cup (IF Named(order[i]) THEN {ChassisWrite(l, order[i])} ELSE {})
  BY <1>3, <1>6, WritesOfUnit
<1> DEFINE G == {GPUWrite(l, g) : g \in {h \in l : h[2] # 0}}
           H == {ChassisWrite(l, c) : c \in NamedIn(l)}
           All == UNION {UnitWrites(sorted[i], i - 1, Several(l)) : i \in DOMAIN sorted}
<1> HIDE DEF sorted, order, n
<1>10. ASSUME NEW e \in All
       PROVE  e \in G \cup H
  <2>1. PICK i \in 1 .. n : e \in UnitWrites(sorted[i], i - 1, Several(l))
    BY <1>7
  <2>2. CASE e \in {GPUWrite(l, g) : g \in {h \in l : h[1] = order[i] /\ h[2] # 0}}
    BY <2>2
  <2>3. CASE Named(order[i]) /\ e = ChassisWrite(l, order[i])
    BY <1>3, <2>3 DEF NamedIn
  <2> QED
    BY <1>9, <2>1, <2>2, <2>3
<1>11. ASSUME NEW e \in G
       PROVE  e \in All
  <2>1. PICK g \in l : g[2] # 0 /\ e = GPUWrite(l, g)
    OBVIOUS
  <2>2. PICK i \in 1 .. n : order[i] = g[1]
    BY <1>3 DEF ChassisOf
  <2>3. e \in UnitWrites(sorted[i], i - 1, Several(l))
    BY <1>9, <2>1, <2>2
  <2> QED
    BY <1>7, <2>3
<1>12. ASSUME NEW e \in H
       PROVE  e \in All
  <2>1. PICK c \in C : Named(c) /\ e = ChassisWrite(l, c)
    BY DEF NamedIn
  <2>2. PICK i \in 1 .. n : order[i] = c
    BY <1>3
  <2>3. e \in UnitWrites(sorted[i], i - 1, Several(l))
    BY <1>9, <2>1, <2>2
  <2> QED
    BY <1>7, <2>3
<1>13. All = G \cup H
  BY <1>10, <1>11, <1>12
<1>14. count \cup All = WritesOf(l)
  BY <1>8, <1>13 DEF WritesOf
<1> QED
  BY <1>5, <1>14
(* The pairs of the listing's labels are those that are written. *)
LEMMA PairsWritten ==
  ASSUME NEW l, Listed(l)
  PROVE  /\ \A e \in WritesOf(l) : <<e.key, e.value>> \in LabelSet(l)
         /\ \A p \in LabelSet(l) : \E e \in WritesOf(l) : p = <<e.key, e.value>>
         /\ \A e \in WritesOf(l) : e.at \in Nat
<1> DEFINE G == {GPUWrite(l, g) : g \in {h \in l : h[2] # 0}}
           H == {ChassisWrite(l, c) : c \in NamedIn(l)}
           K == CountWrites(l)
           PG == {<<KeyOf(l, g), sanitizeLabelValue(g[2])>> : g \in {h \in l : h[2] # 0}}
           PH == {<<ChassisKey(Below(ChassisOf(l), c), Several(l)), sanitizeLabelValue(c)>> :
                    c \in NamedIn(l)}
           PK == IF NamedIn(l) = {} THEN {}
                 ELSE {<< <<"chassis-count">>, Cardinality(NamedIn(l))>>}
<1>1. WritesOf(l) = G \cup H \cup K /\ LabelSet(l) = PG \cup PH \cup PK
  BY DEF WritesOf, LabelSet
<1>2. /\ \A e \in G : <<e.key, e.value>> \in PG
      /\ \A p \in PG : \E e \in G : p = <<e.key, e.value>>
  <2>1. \A g : <<GPUWrite(l, g).key, GPUWrite(l, g).value>> = <<KeyOf(l, g), sanitizeLabelValue(g[2])>>
    BY DEF GPUWrite, Write
  <2> QED
    BY <2>1
<1>3. /\ \A e \in H : <<e.key, e.value>> \in PH
      /\ \A p \in PH : \E e \in H : p = <<e.key, e.value>>
  <2>1. \A c : <<ChassisWrite(l, c).key, ChassisWrite(l, c).value>>
                = <<ChassisKey(Below(ChassisOf(l), c), Several(l)), sanitizeLabelValue(c)>>
    BY DEF ChassisWrite, Write
  <2> QED
    BY <2>1
<1>4. /\ \A e \in K : <<e.key, e.value>> \in PK
      /\ \A p \in PK : \E e \in K : p = <<e.key, e.value>>
  <2> DEFINE count == Write(Cardinality(ChassisOf(l)), <<"chassis-count">>, Cardinality(NamedIn(l)))
  <2>1. <<count.key, count.value>> = << <<"chassis-count">>, Cardinality(NamedIn(l))>>
    BY DEF Write
  <2>2. K = IF NamedIn(l) = {} THEN {} ELSE {count}
    BY DEF CountWrites
  <2> HIDE DEF count, K
  <2> QED
    BY <2>1, <2>2
<1>5. IsFiniteSet(ChassisOf(l)) /\ ChassisOf(l) \subseteq Nat
  BY ListedFinite
<1>6. \A c \in ChassisOf(l) : Below(ChassisOf(l), c) \in Nat
  BY <1>5, RankBounded
<1>7. \A e \in G : e.at \in Nat
  <2>1. \A g : GPUWrite(l, g).at = Below(ChassisOf(l), g[1])
    BY DEF GPUWrite, Write
  <2>2. \A g \in l : g[1] \in ChassisOf(l)
    BY DEF ChassisOf
  <2> QED
    BY <1>6, <2>1, <2>2
<1>8. \A e \in H : e.at \in Nat
  BY <1>6 DEF ChassisWrite, Write, NamedIn
<1>9. \A e \in K : e.at \in Nat
  <2>1. Cardinality(ChassisOf(l)) \in Nat
    BY <1>5, FS_CardinalityType
  <2> QED
    BY <2>1 DEF CountWrites, Write
<1> HIDE DEF G, H, K, PG, PH, PK
<1> QED
  BY <1>1, <1>2, <1>3, <1>4, <1>7, <1>8, <1>9

(* What LabelsOf says of a key is the pair with that key, and no other. *)
LEMMA LabelsAt ==
  ASSUME NEW l, Listed(l), NEW p \in LabelSet(l)
  PROVE  p[1] \in DOMAIN LabelsOf(l) /\ LabelsOf(l)[p[1]] = p[2]
<1> DEFINE q == CHOOSE q \in LabelSet(l) : q[1] = p[1]
<1>1. q \in LabelSet(l) /\ q[1] = p[1]
  OBVIOUS
<1>2. p[1] \in DOMAIN LabelsOf(l) /\ LabelsOf(l)[p[1]] = q[2]
  BY DEF LabelsOf
<1> HIDE DEF q
<1>3. PICK e \in WritesOf(l) : p = <<e.key, e.value>>
  BY PairsWritten
<1>4. PICK f \in WritesOf(l) : q = <<f.key, f.value>>
  BY <1>1, PairsWritten
<1>5. e = f
  BY <1>1, <1>3, <1>4, WrittenOnce
<1> QED
  BY <1>2, <1>3, <1>4, <1>5

(* The map after the writes is that of the listing. *)
LEMMA FinalIsLabels ==
  ASSUME NEW l, Listed(l)
  PROVE  Final(WritesOf(l)) = LabelsOf(l)
<1> DEFINE W == WritesOf(l)
           last(k) == CHOOSE e \in W : e.key = k /\ \A f \in W : f.key = k => f.at <= e.at
<1>1. {e.key : e \in W} = {p[1] : p \in LabelSet(l)}
  <2>1. \A e \in W : <<e.key, e.value>> \in LabelSet(l) /\ <<e.key, e.value>>[1] = e.key
    BY PairsWritten
  <2>2. \A p \in LabelSet(l) : \E e \in W : p[1] = e.key
    BY PairsWritten
  <2> QED
    BY <2>1, <2>2
<1>2. ASSUME NEW k \in {e.key : e \in W}
      PROVE  last(k).value = LabelsOf(l)[k]
  <2>1. PICK e \in W : e.key = k
    OBVIOUS
  <2>2. \A f \in W : f.key = k => f = e
    BY <2>1, WrittenOnce
  <2>3. e.at <= e.at
    BY PairsWritten
  <2>4. last(k) \in W /\ last(k).key = k
    BY <2>1, <2>2, <2>3
  <2>5. last(k) = e
    BY <2>2, <2>4
  <2>6. <<e.key, e.value>> \in LabelSet(l)
    BY PairsWritten
  <2>7. LabelsOf(l)[e.key] = e.value
    BY <2>6, LabelsAt
  <2> QED
    BY <2>1, <2>5, <2>7
<1>3. Final(W) = [k \in {e.key : e \in W} |-> last(k).value]
  BY DEF Final
<1>4. LabelsOf(l) = [k \in {e.key : e \in W} |-> LabelsOf(l)[k]]
  <2>1. LabelsOf(l) = [k \in {p[1] : p \in LabelSet(l)} |-> LabelsOf(l)[k]]
    BY DEF LabelsOf
  <2> QED
    BY <1>1, <2>1
<1> HIDE DEF last
<1> QED
  BY <1>2, <1>3, <1>4

(* calculateGPULabels gives the labels of the listing, whatever the order in  *)
(* which GetSerialNumbers ranged over its map (label.go:195-275,              *)
(* gpu.go:59-73), when at most one text stands for a missing chassis serial.  *)
THEOREM LabelsFollow ==
  ASSUME NEW l, Listed(l), NEW units \in Groupings(l)
  PROVE  calculateGPULabels(units) = LabelsOf(l)
BY WritesOfUnits, FinalIsLabels

(* The kinds of labels there are. *)
LEMMA KindsOfLabels ==
  ASSUME NEW l, Listed(l), NEW k \in DOMAIN LabelsOf(l)
  PROVE  \/ \E g \in l : g[2] # 0 /\ k = KeyOf(l, g)
         \/ \E c \in NamedIn(l) : k = ChassisKey(Below(ChassisOf(l), c), Several(l))
         \/ k = <<"chassis-count">>
<1>1. PICK p \in LabelSet(l) : k = p[1]
  BY DEF LabelsOf
<1> QED
  BY <1>1 DEF LabelSet

(* From the labels of a listing the sanitized chassis and serial of every     *)
(* GPU can be read back, and nothing else (label.go:225-275).                 *)
THEOREM ReadingKept ==
  ASSUME NEW l, Listed(l)
  PROVE  ReadBack(LabelsOf(l)) = Content(l)
<1> DEFINE C == ChassisOf(l)
           L == LabelsOf(l)
           own(g) == Several(l) /\ Named(g[1])
           outer == IF <<"chassis">> \in DOMAIN L THEN L[<<"chassis">>] ELSE NotSet
           san(t) == sanitizeLabelValue(t)
<1>1. ASSUME NEW g \in l, g[2] # 0
      PROVE  KeyOf(l, g) \in DOMAIN L /\ L[KeyOf(l, g)] = san(g[2])
  <2>1. <<KeyOf(l, g), san(g[2])>> \in LabelSet(l)
    BY <1>1 DEF LabelSet
  <2> QED
    BY <2>1, LabelsAt
<1>2. ASSUME NEW c \in NamedIn(l)
      PROVE  /\ ChassisKey(Below(C, c), Several(l)) \in DOMAIN L
             /\ L[ChassisKey(Below(C, c), Several(l))] = san(c)
  <2>1. <<ChassisKey(Below(C, c), Several(l)), san(c)>> \in LabelSet(l)
    BY DEF LabelSet
  <2> QED
    BY <2>1, LabelsAt
<1>3. \A g \in l : KeyOf(l, g) = GPUKey(Below(C, g[1]), Below(GPUsOf(l, g[1]), g[2]), own(g))
  BY DEF KeyOf
<1>4. \A g \in l : /\ KeyOf(l, g)[1] = "gpu" <=> ~own(g)
                   /\ Len(KeyOf(l, g)) = 4 <=> own(g)
                   /\ own(g) => KeyOf(l, g)[2] = Below(C, g[1])
  BY <1>3 DEF GPUKey
<1>5. \A c \in NamedIn(l) : /\ ChassisKey(Below(C, c), Several(l))[1] # "gpu"
                           /\ Len(ChassisKey(Below(C, c), Several(l))) # 4
  BY DEF ChassisKey
<1>6. ASSUME NEW g \in l, ~own(g)
      PROVE  outer = san(g[1])
  <2>1. g[1] \in C
    BY ListedMembers
  <2>2. CASE <<"chassis">> \in DOMAIN L
    <3>1. \A h \in l : KeyOf(l, h) # <<"chassis">>
      BY DEF KeyOf, GPUKey
    <3>2. PICK c \in NamedIn(l) : <<"chassis">> = ChassisKey(Below(C, c), Several(l))
      BY <2>2, <3>1, KindsOfLabels
    <3>3. ~Several(l)
      BY <3>2 DEF ChassisKey
    <3>4. c \in C
      BY DEF NamedIn
    <3>5. c = g[1]
      BY <2>1, <3>3, <3>4, PlainUnitIsOne
    <3> QED
      BY <1>2, <2>2, <3>2, <3>5
  <2>3. CASE <<"chassis">> \notin DOMAIN L
    <3>1. ~Named(g[1])
      <4>1. SUFFICES ASSUME Named(g[1])
                     PROVE  FALSE
        OBVIOUS
      <4>2. ~Several(l) /\ g[1] \in NamedIn(l)
        BY <1>6, <2>1, <4>1 DEF NamedIn
      <4>3. ChassisKey(Below(C, g[1]), Several(l)) = <<"chassis">>
        BY <4>2 DEF ChassisKey
      <4> QED
        BY <1>2, <2>3, <4>2, <4>3
    <3> QED
      BY <2>3, <3>1 DEF Named
  <2> QED
    BY <2>2, <2>3
<1>7. ASSUME NEW g \in l, own(g)
      PROVE  L[<<"chassis", Below(C, g[1])>>] = san(g[1])
  <2>1. g[1] \in NamedIn(l)
    BY <1>7, ListedMembers DEF NamedIn
  <2>2. ChassisKey(Below(C, g[1]), Several(l)) = <<"chassis", Below(C, g[1])>>
    BY <1>7 DEF ChassisKey
  <2> QED
    BY <1>2, <2>1, <2>2
<1> DEFINE plain == {k \in DOMAIN L : k[1] = "gpu"}
           inner == {k \in DOMAIN L : Len(k) = 4}
           A == {<<outer, L[k]>> : k \in plain}
           B == {<<L[<<"chassis", k[2]>>], L[k]>> : k \in inner}
<1>8. ReadBack(L) = A \cup B
  BY DEF ReadBack
<1>9. \A k \in plain : \E g \in l : g[2] # 0 /\ k = KeyOf(l, g) /\ ~own(g)
  <2> SUFFICES ASSUME NEW k \in plain
               PROVE  \E g \in l : g[2] # 0 /\ k = KeyOf(l, g) /\ ~own(g)
    OBVIOUS
  <2>1. k \in DOMAIN L /\ k[1] = "gpu" /\ <<"chassis-count">>[1] # "gpu"
    OBVIOUS
  <2> QED
    BY <1>4, <1>5, <2>1, KindsOfLabels
<1>10. \A k \in inner : \E g \in l : g[2] # 0 /\ k = KeyOf(l, g) /\ own(g)
  <2> SUFFICES ASSUME NEW k \in inner
               PROVE  \E g \in l : g[2] # 0 /\ k = KeyOf(l, g) /\ own(g)
    OBVIOUS
  <2>1. k \in DOMAIN L /\ Len(k) = 4 /\ Len(<<"chassis-count">>) # 4
    OBVIOUS
  <2> QED
    BY <1>4, <1>5, <2>1, KindsOfLabels
<1> DEFINE pair(g) == <<san(g[1]), san(g[2])>>
<1>11. Content(l) = {pair(g) : g \in {g \in l : g[2] # 0}}
  BY DEF Content
<1> HIDE DEF own, outer, san, L
<1>12. ASSUME NEW g \in l, g[2] # 0, ~own(g)
       PROVE  KeyOf(l, g) \in plain /\ <<outer, L[KeyOf(l, g)]>> = pair(g)
  BY <1>1, <1>4, <1>6, <1>12
<1>13. ASSUME NEW g \in l, g[2] # 0, own(g)
       PROVE  /\ KeyOf(l, g) \in inner
              /\ <<L[<<"chassis", KeyOf(l, g)[2]>>], L[KeyOf(l, g)]>> = pair(g)
  BY <1>1, <1>4, <1>7, <1>13
<1>14. ASSUME NEW x \in A
       PROVE  x \in Content(l)
  <2>1. PICK k \in plain : x = <<outer, L[k]>>
    OBVIOUS
  <2>2. PICK g \in l : g[2] # 0 /\ k = KeyOf(l, g) /\ ~own(g)
    BY <1>9
  <2> QED
    BY <1>11, <1>12, <2>1, <2>2
<1>15. ASSUME NEW x \in B
       PROVE  x \in Content(l)
  <2>1. PICK k \in inner : x = <<L[<<"chassis", k[2]>>], L[k]>>
    OBVIOUS
  <2>2. PICK g \in l : g[2] # 0 /\ k = KeyOf(l, g) /\ own(g)
    BY <1>10
  <2> QED
    BY <1>11, <1>13, <2>1, <2>2
<1>16. ASSUME NEW x \in Content(l)
       PROVE  x \in A \cup B
  <2>1. PICK g \in l : g[2] # 0 /\ x = pair(g)
    BY <1>11
  <2>2. CASE own(g)
    BY <1>13, <2>1, <2>2
  <2>3. CASE ~own(g)
    BY <1>12, <2>1, <2>3
  <2> QED
    BY <2>2, <2>3
<1> HIDE DEF A, B
<1> QED
  BY <1>8, <1>14, <1>15, <1>16 DEF L

(* The keys that the program writes. *)
LEMMA OwnKeys ==
  ASSUME NEW l, Listed(l), NEW k \in DOMAIN LabelsOf(l)
  PROVE  k[1] \in {"gpu", "chassis", "chassis-count"}
<1>1. \A g \in l : KeyOf(l, g)[1] \in {"gpu", "chassis", "chassis-count"}
  BY DEF KeyOf, GPUKey
<1>2. \A c : ChassisKey(Below(ChassisOf(l), c), Several(l))[1] \in {"gpu", "chassis", "chassis-count"}
  BY DEF ChassisKey
<1>3. <<"chassis-count">>[1] = "chassis-count"
  OBVIOUS
<1> QED
  BY <1>1, <1>2, <1>3, KindsOfLabels

(* ---------------------------- on one node -------------------------------- *)

LEMMA ListingsListed == \A l \in Listings \cup {{}} : Listed(l)
<1>1. Listed({})
  BY FS_EmptySet DEF Listed, ChassisOf
<1>2. \A l \in Listings : Listed(l)
  BY ListingsOK DEF ListingsOK, Listed
<1> QED
  BY <1>1, <1>2

LEMMA NoneForeign ==
  ASSUME NEW l \in Listings \cup {{}}
  PROVE  DOMAIN LabelsOf(l) \cap Foreign = {}
BY ListingsListed, OwnKeys, ForeignOK DEF ForeignOK

(* A label that the patch neither deletes nor sets stays as it is.  *)
LEMMA Untouched ==
  ASSUME NEW f, NEW g, NEW S, NEW k,
         k \in DOMAIN g, k \notin S, k \notin DOMAIN f
  PROVE  /\ k \in DOMAIN Over(f, Without(g, S))
         /\ Over(f, Without(g, S))[k] = g[k]
<1>1. k \in DOMAIN Without(g, S) /\ Without(g, S)[k] = g[k]
  BY DEF Without
<1> QED
  BY <1>1 DEF Over

(* ------------------------- types, and others' labels --------------------- *)

(* What a writer wants to write comes from its listing. *)
Wants(w) ==
  pc[w] # "idle" =>
    /\ listing[w] \in Listings
    /\ \E units \in Groupings(listing[w]) : desired[w] = calculateGPULabels(units)

IInv ==
  /\ TypeOK
  /\ ForeignKept
  /\ DOMAIN desired = Writers /\ DOMAIN current = Writers /\ DOMAIN tries = Writers
  /\ \A w \in Writers : Wants(w)

(* The patch deletes and sets labels of the program only. *)
LEMMA MergeKeepsForeign ==
  ASSUME ForeignKept, NEW w \in Writers, Wants(w), pc[w] # "idle"
  PROVE  \A k \in Foreign : k \in DOMAIN Merged(w) /\ Merged(w)[k] = theirs[k]
<1> SUFFICES ASSUME NEW k \in Foreign
             PROVE  k \in DOMAIN Merged(w) /\ Merged(w)[k] = theirs[k]
  OBVIOUS
<1>1. k \in DOMAIN node /\ node[k] = theirs[k]
  BY DEF ForeignKept
<1>2. k \notin DOMAIN desired[w]
  <2>1. PICK units \in Groupings(listing[w]) : desired[w] = calculateGPULabels(units)
    BY DEF Wants
  <2>2. listing[w] \in Listings
    BY DEF Wants
  <2>3. desired[w] = LabelsOf(listing[w])
    BY <2>1, <2>2, ListingsListed, LabelsFollow
  <2> QED
    BY <2>2, <2>3, NoneForeign
<1>3. k \notin Prefixed(current[w]) \ DOMAIN desired[w]
  BY DEF Prefixed
<1>4. /\ k \in DOMAIN Merged(w)
      /\ Merged(w)[k] = node[k]
  BY <1>1, <1>2, <1>3, Untouched DEF Merged
<1> QED
  BY <1>1, <1>4

(* What a step of one writer leaves to the others, and what it makes of its  *)
(* own call.                                                                 *)
Local(w) ==
  /\ DOMAIN desired' = Writers /\ DOMAIN current' = Writers /\ DOMAIN tries' = Writers
  /\ \A v \in Writers \ {w} :
       /\ pc'[v] = pc[v] /\ listing'[v] = listing[v] /\ desired'[v] = desired[v]
       /\ tries'[v] = tries[v]

(* The end of a call. *)
LEMMA ReturnTyped ==
  ASSUME IInv, NEW w \in Writers, NEW result \in {"ok", "exhausted", "refused"},
         Return(w, result), listing' = listing
  PROVE  /\ Local(w)
         /\ pc' \in [Writers -> {"idle", "get", "patch"}]
         /\ outcome' \in [Writers -> {"none", "ok", "exhausted", "refused"}]
         /\ pc'[w] = "idle" /\ tries'[w] = 0
BY DEF IInv, TypeOK, Return, Local

LEMMA AgainTyped ==
  ASSUME IInv, NEW w \in Writers, pc[w] # "idle", Again(w), listing' = listing
  PROVE  /\ Local(w)
         /\ pc' \in [Writers -> {"idle", "get", "patch"}]
         /\ outcome' \in [Writers -> {"none", "ok", "exhausted", "refused"}]
         /\ \/ pc'[w] = "idle" /\ tries'[w] = 0
            \/ /\ pc'[w] = "get" /\ desired'[w] = desired[w]
               /\ tries'[w] \in 1 .. MaxRetries
<1>1. CASE tries[w] < MaxRetries
  <2>1. /\ pc' = [pc EXCEPT ![w] = "get"]
        /\ tries' = [tries EXCEPT ![w] = @ + 1]
        /\ current' = [current EXCEPT ![w] = <<>>]
        /\ UNCHANGED <<desired, outcome>>
    BY <1>1 DEF Again
  <2>2. tries[w] \in 1 .. MaxRetries
    BY DEF IInv, TypeOK
  <2>3. tries[w] + 1 \in 1 .. MaxRetries
    BY <1>1, <2>2, WritersOK DEF WritersOK
  <2>4. tries'[w] = tries[w] + 1
    BY <2>1 DEF IInv
  <2> QED
    BY <2>1, <2>3, <2>4 DEF IInv, TypeOK, Local
<1>2. CASE ~(tries[w] < MaxRetries)
  <2>1. Return(w, "exhausted")
    BY <1>2 DEF Again
  <2> QED
    BY <2>1, ReturnTyped
<1> QED
  BY <1>1, <1>2

(* A step of one writer that leaves it idle, or trying on with what it wants, *)
(* keeps every writer's part of the invariant.                                *)
LEMMA StepKeepsWriters ==
  ASSUME IInv, NEW w \in Writers, Local(w),
         \/ pc'[w] = "idle" /\ tries'[w] = 0
         \/ /\ pc'[w] # "idle" /\ Wants(w)'
            /\ tries'[w] \in 1 .. MaxRetries
  PROVE  \A v \in Writers :
           /\ Wants(v)'
           /\ tries'[v] \in (IF pc'[v] = "idle" THEN {0} ELSE 1 .. MaxRetries)
<1> SUFFICES ASSUME NEW v \in Writers
             PROVE  /\ Wants(v)'
                    /\ tries'[v] \in (IF pc'[v] = "idle" THEN {0} ELSE 1 .. MaxRetries)
  OBVIOUS
<1>1. CASE v = w
  BY <1>1 DEF Wants
<1>2. CASE v # w
  <2>1. /\ pc'[v] = pc[v] /\ listing'[v] = listing[v]
        /\ desired'[v] = desired[v] /\ tries'[v] = tries[v]
    BY <1>2 DEF Local
  <2>2. Wants(v) /\ tries[v] \in (IF pc[v] = "idle" THEN {0} ELSE 1 .. MaxRetries)
    BY DEF IInv, TypeOK
  <2> QED
    BY <2>1, <2>2 DEF Wants
<1> QED
  BY <1>1, <1>2

(* The same for the whole invariant. *)
LEMMA StepKeepsIInv ==
  ASSUME IInv, NEW w \in Writers, Local(w), theirs' = theirs,
         \/ node' = node
         \/ node' = Merged(w) /\ pc[w] # "idle",
         \/ pc'[w] = "idle" /\ tries'[w] = 0
         \/ /\ pc'[w] # "idle" /\ Wants(w)'
            /\ tries'[w] \in 1 .. MaxRetries,
         pc' \in [Writers -> {"idle", "get", "patch"}],
         listing' \in [Writers -> Listings \cup {{}}],
         outcome' \in [Writers -> {"none", "ok", "exhausted", "refused"}],
         faults' \in 0 .. MaxFaults, calls' \in 0 .. MaxCalls
  PROVE  IInv'
<1>1. \A k \in Foreign : k \in DOMAIN node' /\ node'[k] = theirs'[k]
  <2>1. CASE node' = node
    BY <2>1 DEF IInv, ForeignKept
  <2>2. CASE node' = Merged(w) /\ pc[w] # "idle"
    BY <2>2, MergeKeepsForeign DEF IInv
  <2> QED
    BY <2>1, <2>2
<1>2. ForeignKept'
  BY <1>1 DEF ForeignKept
<1>3. \A v \in Writers :
        /\ Wants(v)'
        /\ tries'[v] \in (IF pc'[v] = "idle" THEN {0} ELSE 1 .. MaxRetries)
  BY StepKeepsWriters
<1>4. (Foreign \subseteq DOMAIN node)' /\ theirs' \in [Foreign -> Values]
  BY <1>1 DEF IInv, TypeOK
<1>5. TypeOK'
  BY <1>3, <1>4 DEF TypeOK
<1> QED
  BY <1>2, <1>3, <1>5 DEF IInv, Local

LEMMA ForeignWriteKeeps ==
  ASSUME IInv, NEW k \in Foreign, NEW v \in Values, ForeignWrite(k, v)
  PROVE  IInv'
<1>1. /\ theirs' = [theirs EXCEPT ![k] = v]
      /\ node' = [node EXCEPT ![k] = v]
      /\ UNCHANGED <<pc, listing, desired, current, tries, outcome, faults, calls>>
  BY DEF ForeignWrite
<1>2. ForeignKept'
  BY <1>1 DEF IInv, TypeOK, ForeignKept
<1>3. TypeOK'
  BY <1>1 DEF IInv, TypeOK
<1>4. \A w \in Writers : Wants(w)'
  BY <1>1 DEF IInv, Wants
<1> QED
  BY <1>1, <1>2, <1>3, <1>4 DEF IInv

LEMMA EnsureLabelsKeeps ==
  ASSUME IInv, NEW w \in Writers, NEW l \in Listings, NEW units \in Groupings(l),
         EnsureLabels(w, l, units)
  PROVE  IInv'
<1>1. /\ calls < MaxCalls /\ calls' = calls + 1
      /\ pc' = [pc EXCEPT ![w] = "get"]
      /\ listing' = [listing EXCEPT ![w] = l]
      /\ desired' = [desired EXCEPT ![w] = calculateGPULabels(units)]
      /\ tries' = [tries EXCEPT ![w] = 1]
      /\ outcome' = [outcome EXCEPT ![w] = "none"]
      /\ UNCHANGED <<node, theirs, current, faults>>
  BY DEF EnsureLabels
<1>2. Local(w)
  BY <1>1 DEF IInv, TypeOK, Local
<1>3. /\ pc' \in [Writers -> {"idle", "get", "patch"}]
      /\ listing' \in [Writers -> Listings \cup {{}}]
      /\ outcome' \in [Writers -> {"none", "ok", "exhausted", "refused"}]
  BY <1>1 DEF IInv, TypeOK
<1>4. pc'[w] # "idle" /\ Wants(w)'
  <2>1. pc'[w] = "get" /\ listing'[w] = l /\ desired'[w] = calculateGPULabels(units)
    BY <1>1 DEF IInv, TypeOK
  <2> QED
    BY <2>1 DEF Wants
<1>5. tries'[w] \in 1 .. MaxRetries
  BY <1>1, WritersOK DEF IInv, WritersOK
<1>6. faults' \in 0 .. MaxFaults
  BY <1>1 DEF IInv, TypeOK
<1>7. calls' \in 0 .. MaxCalls
  BY <1>1, WritersOK DEF IInv, TypeOK, WritersOK
<1>8. node' = node /\ theirs' = theirs
  BY <1>1
<1> QED
  BY <1>2, <1>3, <1>4, <1>5, <1>6, <1>7, <1>8, StepKeepsIInv

LEMMA GetNodeKeeps ==
  ASSUME IInv, NEW w \in Writers, GetNode(w)
  PROVE  IInv'
<1>1. /\ pc[w] = "get"
      /\ current' = [current EXCEPT ![w] = node]
      /\ pc' = [pc EXCEPT ![w] = "patch"]
      /\ UNCHANGED <<node, theirs, listing, desired, tries, outcome, faults, calls>>
  BY DEF GetNode
<1>2. Local(w)
  BY <1>1 DEF IInv, TypeOK, Local
<1>3. /\ pc' \in [Writers -> {"idle", "get", "patch"}]
      /\ listing' \in [Writers -> Listings \cup {{}}]
      /\ outcome' \in [Writers -> {"none", "ok", "exhausted", "refused"}]
      /\ faults' \in 0 .. MaxFaults /\ calls' \in 0 .. MaxCalls
  BY <1>1 DEF IInv, TypeOK
<1>4. pc'[w] = "patch"
  BY <1>1 DEF IInv, TypeOK
<1>5. Wants(w)'
  BY <1>1 DEF IInv, Wants
<1>6. tries'[w] \in 1 .. MaxRetries
  BY <1>1 DEF IInv, TypeOK
<1>7. node' = node /\ theirs' = theirs
  BY <1>1
<1> QED
  BY <1>2, <1>3, <1>4, <1>5, <1>6, <1>7, StepKeepsIInv

(* The four ways a call can return. *)
LEMMA ReturnKeeps ==
  ASSUME IInv, NEW w \in Writers, NEW result \in {"ok", "exhausted", "refused"},
         Return(w, result), theirs' = theirs, listing' = listing, calls' = calls,
         faults' \in 0 .. MaxFaults,
         \/ node' = node
         \/ node' = Merged(w) /\ pc[w] # "idle"
  PROVE  IInv'
<1>1. /\ Local(w)
      /\ pc' \in [Writers -> {"idle", "get", "patch"}]
      /\ outcome' \in [Writers -> {"none", "ok", "exhausted", "refused"}]
      /\ pc'[w] = "idle" /\ tries'[w] = 0
  BY ReturnTyped
<1>2. listing' \in [Writers -> Listings \cup {{}}] /\ calls' \in 0 .. MaxCalls
  BY DEF IInv, TypeOK
<1> QED
  BY <1>1, <1>2, StepKeepsIInv

LEMMA FailedKeeps ==
  ASSUME IInv, NEW w \in Writers, NEW applied \in BOOLEAN, Failed(w, applied)
  PROVE  IInv'
<1>1. /\ pc[w] # "idle"
      /\ faults < MaxFaults /\ faults' = faults + 1
      /\ Again(w) /\ theirs' = theirs /\ listing' = listing /\ calls' = calls
  BY DEF Failed
<1>2. node' = node \/ node' = Merged(w)
  BY DEF Failed
<1>3. faults' \in 0 .. MaxFaults
  BY <1>1, WritersOK DEF IInv, TypeOK, WritersOK
<1>4. /\ Local(w)
      /\ pc' \in [Writers -> {"idle", "get", "patch"}]
      /\ outcome' \in [Writers -> {"none", "ok", "exhausted", "refused"}]
      /\ \/ pc'[w] = "idle" /\ tries'[w] = 0
         \/ /\ pc'[w] = "get" /\ desired'[w] = desired[w]
            /\ tries'[w] \in 1 .. MaxRetries
  BY <1>1, AgainTyped
<1>5. listing' \in [Writers -> Listings \cup {{}}] /\ calls' \in 0 .. MaxCalls
  BY <1>1 DEF IInv, TypeOK
<1>6. (pc'[w] = "get" /\ desired'[w] = desired[w]) => Wants(w)'
  BY <1>1 DEF IInv, Wants
<1>7. \/ pc'[w] = "idle" /\ tries'[w] = 0
      \/ /\ pc'[w] # "idle" /\ Wants(w)'
         /\ tries'[w] \in 1 .. MaxRetries
  BY <1>4, <1>6
<1> QED
  BY <1>1, <1>2, <1>3, <1>4, <1>5, <1>7, StepKeepsIInv

LEMMA InitIInv == Init => IInv
<1> SUFFICES ASSUME Init
             PROVE  IInv
  OBVIOUS
<1>1. /\ pc = [w \in Writers |-> "idle"]
      /\ listing = [w \in Writers |-> {}]
      /\ desired = [w \in Writers |-> <<>>]
      /\ current = [w \in Writers |-> <<>>]
      /\ tries = [w \in Writers |-> 0]
      /\ outcome = [w \in Writers |-> "none"]
      /\ faults = 0 /\ calls = 0
  BY DEF Init
<1>2. PICK v \in Values : theirs = [k \in Foreign |-> v]
  BY DEF Init
<1>3. PICK old \in Listings \cup {{}} : node = Over(LabelsOf(old), theirs)
  BY DEF Init
<1>4. ForeignKept
  <2>1. DOMAIN LabelsOf(old) \cap Foreign = {}
    BY NoneForeign
  <2>2. DOMAIN theirs = Foreign
    BY <1>2
  <2> QED
    BY <1>3, <2>1, <2>2 DEF ForeignKept, Over
<1>5. 0 \in 0 .. MaxFaults /\ 0 \in 0 .. MaxCalls
  BY WritersOK DEF WritersOK
<1>6. Foreign \subseteq DOMAIN node /\ theirs \in [Foreign -> Values]
  BY <1>2, <1>4 DEF ForeignKept
<1>7. TypeOK
  BY <1>1, <1>5, <1>6 DEF TypeOK
<1>8. \A w \in Writers : Wants(w)
  BY <1>1 DEF Wants
<1> QED
  BY <1>1, <1>4, <1>7, <1>8 DEF IInv

LEMMA NextIInv == IInv /\ [Next]_vars => IInv'
<1> SUFFICES ASSUME IInv, [Next]_vars
             PROVE  IInv'
  OBVIOUS
<1>1. CASE \E k \in Foreign, v \in Values : ForeignWrite(k, v)
  BY <1>1, ForeignWriteKeeps
<1>2. ASSUME NEW w \in Writers,
             \E l \in Listings : \E units \in Groupings(l) : EnsureLabels(w, l, units)
      PROVE  IInv'
  BY <1>2, EnsureLabelsKeeps
<1>3. ASSUME NEW w \in Writers, GetNode(w)
      PROVE  IInv'
  BY <1>3, GetNodeKeeps
<1>4. ASSUME NEW w \in Writers, UpToDate(w)
      PROVE  IInv'
  <2>1. /\ Return(w, "ok") /\ node' = node /\ theirs' = theirs /\ listing' = listing
        /\ calls' = calls /\ faults' \in 0 .. MaxFaults
    BY <1>4 DEF UpToDate, IInv, TypeOK
  <2> QED
    BY <2>1, ReturnKeeps
<1>5. ASSUME NEW w \in Writers, Patch(w)
      PROVE  IInv'
  <2>1. /\ pc[w] # "idle"
        /\ Return(w, "ok") /\ node' = Merged(w) /\ theirs' = theirs /\ listing' = listing
        /\ calls' = calls /\ faults' \in 0 .. MaxFaults
    BY <1>5 DEF Patch, IInv, TypeOK
  <2> QED
    BY <2>1, ReturnKeeps
<1>6. ASSUME NEW w \in Writers, NEW applied \in BOOLEAN, Failed(w, applied)
      PROVE  IInv'
  BY <1>6, FailedKeeps
<1>7. ASSUME NEW w \in Writers, Refused(w)
      PROVE  IInv'
  <2>1. /\ Return(w, "refused") /\ node' = node /\ theirs' = theirs /\ listing' = listing
        /\ calls' = calls /\ faults < MaxFaults /\ faults' = faults + 1
    BY <1>7 DEF Refused
  <2>2. faults' \in 0 .. MaxFaults
    BY <2>1, WritersOK DEF IInv, TypeOK, WritersOK
  <2> QED
    BY <2>1, <2>2, ReturnKeeps
<1>8. CASE UNCHANGED vars
  BY <1>8 DEF vars, IInv, TypeOK, ForeignKept, Wants
<1> QED
  BY <1>1, <1>2, <1>3, <1>4, <1>5, <1>6, <1>7, <1>8 DEF Next

(* No call tries more than maxRetries times, and everything stays in its     *)
(* range (label.go:110-135).                                                 *)
THEOREM LabelTypes == Spec => []TypeOK
<1>1. IInv => TypeOK
  BY DEF IInv
<1> QED
  BY <1>1, InitIInv, NextIInv, PTL DEF Spec

(* Whatever the writers read before, and however many of them retry, other   *)
(* controllers' labels keep what was written last (label.go:138-184).        *)
THEOREM ForeignStays == Spec => []ForeignKept
<1>1. IInv => ForeignKept
  BY DEF IInv
<1> QED
  BY <1>1, InitIInv, NextIInv, PTL DEF Spec

(* -------------------------- one worker per node -------------------------- *)

(* One worker at a time processes the pods of the node. *)
OneWriter == \A v, w \in Writers : v = w

(* What the writer read is what there is, up to other controllers' labels,   *)
(* and after a call that succeeded the node has the labels of its listing.   *)
UpToWriter(w) ==
  /\ pc[w] = "patch" => Prefixed(current[w]) = Prefixed(node)
  /\ pc[w] # "idle" => outcome[w] = "none"
  /\ outcome[w] = "ok" => /\ listing[w] \in Listings
                          /\ Own(node) = LabelsOf(listing[w])

WholeInv == IInv /\ OneReading /\ \A w \in Writers : UpToWriter(w)

LEMMA SameFunction ==
  ASSUME NEW f, NEW g, NEW S, NEW T,
         f = [k \in S |-> f[k]], g = [k \in T |-> g[k]],
         S = T, \A k \in S : f[k] = g[k]
  PROVE  f = g
<1>1. [k \in S |-> f[k]] = [k \in S |-> g[k]]
  OBVIOUS
<1> QED
  BY <1>1

(* Labels that contain the wanted ones, and no other prefixed one, are them. *)
LEMMA OwnIsWanted ==
  ASSUME NEW labels, NEW l \in Listings \cup {{}},
         \A k \in DOMAIN LabelsOf(l) : Has(labels, k, LabelsOf(l)[k]),
         Prefixed(labels) \subseteq DOMAIN LabelsOf(l)
  PROVE  Own(labels) = LabelsOf(l)
<1>1. DOMAIN LabelsOf(l) \cap Foreign = {}
  BY NoneForeign
<1>2. DOMAIN labels \ Foreign = DOMAIN LabelsOf(l)
  BY <1>1 DEF Has, Prefixed
<1>3. LabelsOf(l) = [k \in DOMAIN LabelsOf(l) |-> LabelsOf(l)[k]]
  BY DEF LabelsOf
<1>4. Own(labels) = [k \in DOMAIN LabelsOf(l) |-> labels[k]]
  BY <1>2 DEF Own, Without
<1>5. \A k \in DOMAIN LabelsOf(l) : Own(labels)[k] = LabelsOf(l)[k]
  BY <1>4 DEF Has
<1>6. Own(labels) = [k \in DOMAIN LabelsOf(l) |-> Own(labels)[k]]
  BY <1>4
<1> QED
  BY <1>3, <1>5, <1>6, SameFunction

(* The patch makes the node's labels those of the listing. *)
LEMMA MergeIsWhole ==
  ASSUME WholeInv,
         NEW w \in Writers, pc[w] = "patch"
  PROVE  /\ listing[w] \in Listings
         /\ Own(Merged(w)) = LabelsOf(listing[w])
         /\ Prefixed(Merged(w)) = DOMAIN LabelsOf(listing[w])
<1>1. Wants(w)
  BY DEF WholeInv, IInv
<1>2. /\ listing[w] \in Listings
      /\ desired[w] = LabelsOf(listing[w])
  BY <1>1, ListingsListed, LabelsFollow DEF Wants
<1>3. Prefixed(current[w]) = DOMAIN node \ Foreign
  BY DEF WholeInv, UpToWriter, Prefixed
<1>4. DOMAIN Merged(w)
        = DOMAIN desired[w] \cup (DOMAIN node \ (Prefixed(current[w]) \ DOMAIN desired[w]))
  BY DEF Merged, Over, Without
<1>5. \A k \in DOMAIN desired[w] : Has(Merged(w), k, desired[w][k])
  BY DEF Merged, Over, Has
<1>6. DOMAIN desired[w] \cap Foreign = {}
  BY <1>2, NoneForeign
<1>7. Prefixed(Merged(w)) = DOMAIN LabelsOf(listing[w])
  BY <1>2, <1>3, <1>4, <1>6 DEF Prefixed
<1>8. Own(Merged(w)) = LabelsOf(listing[w])
  BY <1>2, <1>5, <1>7, OwnIsWanted
<1> QED
  BY <1>2, <1>7, <1>8

(* Nor does the node need labels when it has exactly those. *)
LEMMA NothingToWrite ==
  ASSUME WholeInv,
         NEW w \in Writers, pc[w] = "get", ~needsLabelUpdate(node, desired[w])
  PROVE  /\ listing[w] \in Listings
         /\ Own(node) = LabelsOf(listing[w])
<1>1. Wants(w)
  BY DEF WholeInv, IInv
<1>2. /\ listing[w] \in Listings
      /\ desired[w] = LabelsOf(listing[w])
  BY <1>1, ListingsListed, LabelsFollow DEF Wants
<1>3. /\ \A k \in DOMAIN desired[w] : Has(node, k, desired[w][k])
      /\ Prefixed(node) \subseteq DOMAIN desired[w]
  BY DEF needsLabelUpdate
<1> QED
  BY <1>2, <1>3, OwnIsWanted

(* A step that leaves the program's labels of the node alone. *)
LEMMA NodeAlone ==
  ASSUME WholeInv, Own(node)' = Own(node), Prefixed(node)' = Prefixed(node),
         \A w \in Writers :
           /\ pc'[w] = "patch" => /\ \/ pc[w] = "patch" /\ current'[w] = current[w]
                                    \/ current'[w] = node
                                 /\ outcome'[w] = "none"
           /\ pc'[w] = "get" => outcome'[w] = "none"
           /\ pc'[w] \in {"idle", "get", "patch"}
           /\ outcome'[w] = "ok" => /\ listing'[w] \in Listings
                                    /\ Own(node) = LabelsOf(listing'[w])
  PROVE  OneReading' /\ \A w \in Writers : UpToWriter(w)'
<1>1. OneReading'
  BY DEF WholeInv, OneReading
<1>2. ASSUME NEW w \in Writers
      PROVE  UpToWriter(w)'
  <2>1. UpToWriter(w)
    BY DEF WholeInv
  <2>2. pc'[w] = "patch" => Prefixed(current'[w]) = Prefixed(node')
    BY <2>1 DEF UpToWriter, Prefixed
  <2>3. pc'[w] # "idle" => outcome'[w] = "none"
    OBVIOUS
  <2> QED
    BY <2>2, <2>3 DEF UpToWriter
<1> QED
  BY <1>1, <1>2

(* A step of the only writer that applies the patch. *)
LEMMA NodeWritten ==
  ASSUME WholeInv, OneWriter,
         NEW w \in Writers, pc[w] = "patch", node' = Merged(w), listing' = listing,
         pc'[w] # "patch", pc'[w] # "idle" => outcome'[w] = "none"
  PROVE  OneReading' /\ \A v \in Writers : UpToWriter(v)'
<1>1. /\ listing[w] \in Listings
      /\ Own(node') = LabelsOf(listing[w])
  BY MergeIsWhole
<1>2. OneReading'
  BY <1>1 DEF OneReading
<1>3. UpToWriter(w)'
  BY <1>1 DEF UpToWriter
<1> QED
  BY <1>2, <1>3 DEF OneWriter

LEMMA InitWhole == Init => WholeInv
<1> SUFFICES ASSUME Init
             PROVE  WholeInv
  OBVIOUS
<1>1. PICK old \in Listings \cup {{}} : node = Over(LabelsOf(old), theirs)
  BY DEF Init
<1>2. PICK v \in Values : theirs = [k \in Foreign |-> v]
  BY DEF Init
<1>3. /\ DOMAIN node = DOMAIN LabelsOf(old) \cup Foreign
      /\ \A k \in DOMAIN LabelsOf(old) : Has(node, k, LabelsOf(old)[k])
  BY <1>1, <1>2 DEF Over, Has
<1>4. Prefixed(node) \subseteq DOMAIN LabelsOf(old)
  BY <1>3 DEF Prefixed
<1>5. Own(node) = LabelsOf(old)
  BY <1>3, <1>4, OwnIsWanted
<1>6. OneReading
  BY <1>5 DEF OneReading
<1>7. \A w \in Writers : UpToWriter(w)
  BY DEF Init, UpToWriter
<1> QED
  BY <1>6, <1>7, InitIInv DEF WholeInv

LEMMA ForeignWriteKeepsWhole ==
  ASSUME WholeInv, NEW k \in Foreign, NEW v \in Values, ForeignWrite(k, v)
  PROVE  OneReading' /\ \A w \in Writers : UpToWriter(w)'
<1>1. /\ node' = [node EXCEPT ![k] = v]
      /\ UNCHANGED <<pc, listing, current, outcome>>
  BY DEF ForeignWrite
<1>2. DOMAIN node' = DOMAIN node /\ \A j \in DOMAIN node \ Foreign : node'[j] = node[j]
  BY <1>1
<1>3. Own(node') = Own(node) /\ Prefixed(node') = Prefixed(node)
  BY <1>2 DEF Own, Without, Prefixed
<1>4. OneReading'
  BY <1>3 DEF WholeInv, OneReading
<1>5. \A w \in Writers : UpToWriter(w)'
  BY <1>1, <1>3 DEF WholeInv, UpToWriter
<1> QED
  BY <1>4, <1>5

LEMMA AgainOutcome ==
  ASSUME IInv, NEW w \in Writers, Again(w),
         pc[w] # "idle" => outcome[w] = "none", pc[w] # "idle"
  PROVE  /\ pc'[w] \in {"idle", "get"}
         /\ pc'[w] # "idle" => outcome'[w] = "none"
         /\ outcome'[w] # "ok"
<1>1. CASE tries[w] < MaxRetries
  BY <1>1 DEF Again, IInv, TypeOK
<1>2. CASE ~(tries[w] < MaxRetries)
  <2>1. Return(w, "exhausted")
    BY <1>2 DEF Again
  <2> QED
    BY <2>1 DEF Return, IInv, TypeOK
<1> QED
  BY <1>1, <1>2

(* A step of the only writer. *)
LEMMA WriterKeepsWhole ==
  ASSUME WholeInv, OneWriter,
         NEW w \in Writers,
         \/ \E l \in Listings : \E units \in Groupings(l) : EnsureLabels(w, l, units)
         \/ GetNode(w)
         \/ UpToDate(w)
         \/ Patch(w)
         \/ \E applied \in BOOLEAN : Failed(w, applied)
         \/ Refused(w)
  PROVE  OneReading' /\ \A v \in Writers : UpToWriter(v)'
<1>0. /\ Writers = {w}
      /\ UpToWriter(w)
      /\ w \in DOMAIN pc /\ w \in DOMAIN listing /\ w \in DOMAIN outcome
      /\ w \in DOMAIN current
  BY DEF OneWriter, WholeInv, IInv, TypeOK
<1>1. ASSUME NEW l \in Listings, NEW units \in Groupings(l), EnsureLabels(w, l, units)
      PROVE  OneReading' /\ \A v \in Writers : UpToWriter(v)'
  <2>1. /\ pc'[w] = "get" /\ outcome'[w] = "none" /\ node' = node
    BY <1>0, <1>1 DEF EnsureLabels
  <2> QED
    BY <1>0, <2>1, NodeAlone
<1>2. CASE GetNode(w)
  <2>1. /\ pc'[w] = "patch" /\ current'[w] = node /\ node' = node
        /\ outcome' = outcome /\ pc[w] = "get"
    BY <1>0, <1>2 DEF GetNode
  <2>2. outcome'[w] = "none"
    BY <1>0, <2>1 DEF UpToWriter
  <2> QED
    BY <1>0, <2>1, <2>2, NodeAlone
<1>3. CASE UpToDate(w)
  <2>1. /\ pc[w] = "get" /\ ~needsLabelUpdate(node, desired[w]) /\ node' = node
        /\ listing' = listing /\ pc'[w] = "idle"
    BY <1>0, <1>3 DEF UpToDate, Return
  <2>2. listing[w] \in Listings /\ Own(node) = LabelsOf(listing[w])
    BY <2>1, NothingToWrite
  <2> QED
    BY <1>0, <2>1, <2>2, NodeAlone
<1>4. CASE Patch(w)
  <2>1. /\ pc[w] = "patch" /\ node' = Merged(w) /\ listing' = listing
        /\ pc'[w] = "idle"
    BY <1>0, <1>4 DEF Patch, Return
  <2> QED
    BY <2>1, NodeWritten
<1>5. ASSUME NEW applied \in BOOLEAN, Failed(w, applied)
      PROVE  OneReading' /\ \A v \in Writers : UpToWriter(v)'
  <2>1. /\ pc[w] # "idle" /\ Again(w) /\ listing' = listing
    BY <1>5 DEF Failed
  <2>2. /\ pc'[w] \in {"idle", "get"}
        /\ pc'[w] # "idle" => outcome'[w] = "none"
        /\ outcome'[w] # "ok"
    BY <1>0, <2>1, AgainOutcome DEF UpToWriter, WholeInv
  <2>3. CASE applied
    <3>1. pc[w] = "patch" /\ node' = Merged(w)
      BY <1>5, <2>3 DEF Failed
    <3> QED
      BY <2>1, <2>2, <3>1, NodeWritten
  <2>4. CASE ~applied
    <3>1. node' = node
      BY <1>5, <2>4 DEF Failed
    <3> QED
      BY <1>0, <2>2, <3>1, NodeAlone
  <2> QED
    BY <2>3, <2>4
<1>6. CASE Refused(w)
  <2>1. pc'[w] = "idle" /\ outcome'[w] = "refused" /\ node' = node
    BY <1>0, <1>6 DEF Refused, Return
  <2> QED
    BY <1>0, <2>1, NodeAlone
<1> QED
  BY <1>1, <1>2, <1>3, <1>4, <1>5, <1>6

LEMMA NextWhole ==
  ASSUME OneWriter
  PROVE  WholeInv /\ [Next]_vars => WholeInv'
<1> SUFFICES ASSUME WholeInv, [Next]_vars
             PROVE  WholeInv'
  OBVIOUS
<1>1. IInv'
  BY NextIInv DEF WholeInv
<1>2. CASE \E k \in Foreign, v \in Values : ForeignWrite(k, v)
  BY <1>1, <1>2, ForeignWriteKeepsWhole DEF WholeInv
<1>3. CASE UNCHANGED vars
  <2>1. OneReading' /\ \A w \in Writers : UpToWriter(w)'
    BY <1>3 DEF WholeInv, vars, OneReading, UpToWriter
  <2> QED
    BY <1>1, <2>1 DEF WholeInv
<1>4. CASE \E w \in Writers :
             \/ \E l \in Listings : \E units \in Groupings(l) : EnsureLabels(w, l, units)
             \/ GetNode(w)
             \/ UpToDate(w)
             \/ Patch(w)
             \/ \E applied \in BOOLEAN : Failed(w, applied)
             \/ Refused(w)
  BY <1>1, <1>4, WriterKeepsWhole DEF WholeInv
<1> QED
  BY <1>2, <1>3, <1>4 DEF Next

(* With one worker per node, the labels are those of one reading at every    *)
(* moment, whatever fails and however often it is retried, while others      *)
(* write theirs (label.go:107-184).                                          *)
THEOREM OneReadingAtATime ==
  ASSUME OneWriter
  PROVE  Spec => []OneReading
<1>1. Init => WholeInv
  BY InitWhole
<1>2. WholeInv /\ [Next]_vars => WholeInv'
  BY NextWhole
<1>3. WholeInv => OneReading
  BY DEF WholeInv
<1> QED
  BY <1>1, <1>2, <1>3, PTL DEF Spec

(* And a call that succeeded leaves the labels from which its reading can be *)
(* told, also when an earlier answer was lost (label.go:107-136).            *)
THEOREM SuccessTellsReading ==
  ASSUME OneWriter
  PROVE  Spec => []LabelsTellReading
<1>1. Init => WholeInv
  BY InitWhole
<1>2. WholeInv /\ [Next]_vars => WholeInv'
  BY NextWhole
<1>3. WholeInv => LabelsTellReading
  BY ListingsListed, ReadingKept DEF WholeInv, UpToWriter, LabelsTellReading
<1> QED
  BY <1>1, <1>2, <1>3, PTL DEF Spec
=============================================================================
