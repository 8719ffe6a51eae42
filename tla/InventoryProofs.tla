-------------------------- MODULE InventoryProofs --------------------------
(***************************************************************************)
(* Inventories for any number of players, containers and blueprints and    *)
(* any size of bag: nothing multiplies, magazines fit their weapons, the   *)
(* hand holds a weapon, and versions tell every change.                    *)
(***************************************************************************)
EXTENDS Inventory, FiniteSetTheorems, SequenceTheorems, TLAPS

\* Induction over Nat as a fact about sets.  If k were missing, n |-> n + 1
\* would map the members up to k one to one into those other than 0.
LEMMA NatClosed ==
  ASSUME NEW A, 0 \in A, \A n \in Nat : n \in A => n + 1 \in A
  PROVE  Nat \subseteq A
  <1> SUFFICES ASSUME NEW k \in Nat, k \notin A PROVE FALSE OBVIOUS
  <1> DEFINE B == {n \in Nat : n \in A /\ n <= k}
  <1> DEFINE f == [n \in B |-> n + 1]
  <1>1. B \in SUBSET Nat /\ \A n \in B : n <= k OBVIOUS
  <1>2. IsFiniteSet(B) /\ 0 \in B
    <2>1. IsFiniteSet(B) BY <1>1, FS_BoundedSetOfNaturals
    <2> QED BY <2>1
  <1>3. \A n \in B : n + 1 \in B \ {0}
    <2> SUFFICES ASSUME NEW n \in B PROVE n + 1 \in B \ {0} OBVIOUS
    <2>1. n \in Nat /\ n \in A /\ n <= k /\ n # k OBVIOUS
    <2>2. n + 1 \in Nat /\ n + 1 <= k /\ n + 1 # 0 BY <2>1
    <2>3. n + 1 \in A BY <2>1
    <2> QED BY <2>2, <2>3
  <1>4. f \in [B -> B \ {0}] BY <1>3
  <1>5. \A m, n \in B : f[m] = f[n] => m = n OBVIOUS
  <1> HIDE DEF B, f
  <1>6. f \in Injection(B, B \ {0}) BY <1>4, <1>5, Zenon DEF Injection, IsInjective
  <1>7. IsFiniteSet(B \ {0}) /\ Cardinality(B \ {0}) = Cardinality(B) - 1 BY <1>2, FS_RemoveElement
  <1>8. Cardinality(B) <= Cardinality(B \ {0}) BY <1>6, <1>7, FS_Injection
  <1>9. Cardinality(B) \in Nat BY <1>2, FS_CardinalityType
  <1> QED BY <1>7, <1>8, <1>9

\* A set of naturals has its minimum.
LEMMA MinNat ==
  ASSUME NEW S, S \subseteq Nat, S # {}
  PROVE  Min(S) \in S /\ \A y \in S : Min(S) <= y
  <1>1. \E x \in S : \A y \in S : x <= y
    <2> SUFFICES ASSUME \A x \in S : \E y \in S : y < x PROVE FALSE OBVIOUS
    <2> DEFINE A == {n \in Nat : \A x \in S : n < x}
    <2>1. 0 \in A
      <3>1. \A x \in S : x # 0 OBVIOUS
      <3> QED BY <3>1
    <2>2. \A n \in Nat : n \in A => n + 1 \in A
      <3> SUFFICES ASSUME NEW n \in Nat, n \in A, NEW x \in S PROVE n + 1 < x OBVIOUS
      <3>1. PICK y \in S : y < x OBVIOUS
      <3>2. n < y /\ n < x /\ y \in Nat /\ x \in Nat BY <3>1
      <3> QED BY <3>1, <3>2
    <2>3. Nat \subseteq A
      <3> HIDE DEF A
      <3> QED BY <2>1, <2>2, NatClosed
    <2>4. PICK x \in S : TRUE OBVIOUS
    <2>5. x < x BY <2>3, <2>4
    <2> QED BY <2>5
  <1> QED BY <1>1 DEF Min

\* The smaller of two.
LEMMA MinPair ==
  ASSUME NEW a \in Nat, NEW b \in Nat
  PROVE  Min({a, b}) = IF a <= b THEN a ELSE b
  <1>1. Min({a, b}) \in {a, b} /\ \A y \in {a, b} : Min({a, b}) <= y BY MinNat
  <1> QED BY <1>1
-----------------------------------------------------------------------------
(* Sums.                                                                   *)

Points(f) == UNION {{x} \X (1 .. f[x]) : x \in DOMAIN f}

LEMMA PointsIn ==
  ASSUME NEW D, NEW f \in [D -> Nat], NEW x, NEW n
  PROVE  <<x, n>> \in Points(f) <=> x \in D /\ n \in 1 .. f[x]
  BY DEF Points

LEMMA PointsPairs ==
  ASSUME NEW D, NEW f \in [D -> Nat], NEW e \in Points(f)
  PROVE  \E x \in D : \E n \in 1 .. f[x] : e = <<x, n>>
  BY DEF Points

\* A column of the graph.
LEMMA Column ==
  ASSUME NEW x, NEW n \in Nat
  PROVE  IsFiniteSet({x} \X (1 .. n)) /\ Cardinality({x} \X (1 .. n)) = n
  <1>1. IsFiniteSet(1 .. n) /\ Cardinality(1 .. n) = n BY FS_Interval
  <1>2. IsFiniteSet({x}) /\ Cardinality({x}) = 1 BY FS_Singleton
  <1>3. IsFiniteSet({x} \X (1 .. n)) /\ Cardinality({x} \X (1 .. n)) = 1 * n BY <1>1, <1>2, FS_Product, ZenonT(60)
  <1> QED BY <1>3

LEMMA PointsFinite ==
  ASSUME NEW D, IsFiniteSet(D), NEW f \in [D -> Nat]
  PROVE  IsFiniteSet(Points(f)) /\ SumOf(f) \in Nat
  <1> DEFINE C == {{x} \X (1 .. f[x]) : x \in D}
  <1> DEFINE g == [x \in D |-> {x} \X (1 .. f[x])]
  <1>1. \A c \in C : IsFiniteSet(c)
    <2> SUFFICES ASSUME NEW x \in D PROVE IsFiniteSet({x} \X (1 .. f[x])) OBVIOUS
    <2>1. f[x] \in Nat OBVIOUS
    <2> QED BY <2>1, Column
  <1>2. g \in [D -> C] /\ \A c \in C : \E x \in D : g[x] = c OBVIOUS
  <1> HIDE DEF C, g
  <1>3. g \in Surjection(D, C) BY <1>2, Zenon DEF Surjection
  <1>4. IsFiniteSet(C) BY <1>3, FS_Surjection
  <1>5. IsFiniteSet(UNION C) BY <1>1, <1>4, FS_UNION
  <1>6. Points(f) = UNION C BY DEF Points, C
  <1>7. IsFiniteSet(Points(f)) BY <1>5, <1>6
  <1> QED BY <1>7, FS_CardinalityType DEF SumOf, Points

\* One value more in the domain, or another value: the rest f of the function
\* is the same.
LEMMA SumExtend ==
  ASSUME NEW D, IsFiniteSet(D), NEW f \in [D -> Nat], NEW x, x \notin D,
         NEW g \in [D \cup {x} -> Nat], \A y \in D : g[y] = f[y]
  PROVE  SumOf(g) = SumOf(f) + g[x]
  <1> DEFINE K == {x} \X (1 .. g[x])
  <1>1. Points(g) = Points(f) \cup K
    <2>1. ASSUME NEW e \in Points(g) PROVE e \in Points(f) \cup K
      <3>0. PICK y \in D \cup {x} : \E n \in 1 .. g[y] : e = <<y, n>> BY PointsPairs
      <3>1. PICK n \in 1 .. g[y] : e = <<y, n>> BY <3>0
      <3>2. CASE y = x BY <3>1, <3>2
      <3>3. CASE y # x
        <4>1. y \in D /\ n \in 1 .. f[y] BY <3>1, <3>3
        <4> QED BY <4>1, <3>1, PointsIn
      <3> QED BY <3>2, <3>3
    <2>2. ASSUME NEW e \in Points(f) PROVE e \in Points(g)
      <3>0. PICK y \in D : \E n \in 1 .. f[y] : e = <<y, n>> BY PointsPairs
      <3>1. PICK n \in 1 .. f[y] : e = <<y, n>> BY <3>0
      <3>2. y \in D \cup {x} /\ n \in 1 .. g[y] BY <3>1
      <3> QED BY <3>1, <3>2, PointsIn
    <2>3. ASSUME NEW e \in K PROVE e \in Points(g)
      <3>1. PICK n \in 1 .. g[x] : e = <<x, n>> OBVIOUS
      <3> QED BY <3>1, PointsIn
    <2> QED BY <2>1, <2>2, <2>3
  <1>2. Points(f) \cap K = {}
    <2> SUFFICES ASSUME NEW e \in Points(f), e \in K PROVE FALSE OBVIOUS
    <2>0. PICK y \in D : \E n \in 1 .. f[y] : e = <<y, n>> BY PointsPairs
    <2>1. PICK n \in 1 .. f[y] : e = <<y, n>> BY <2>0
    <2> QED BY <2>1
  <1>3. IsFiniteSet(K) /\ Cardinality(K) = g[x] BY Column
  <1>4. IsFiniteSet(Points(f)) /\ Cardinality(Points(f)) \in Nat BY PointsFinite, FS_CardinalityType
  <1> HIDE DEF K
  <1>5. Cardinality(Points(f) \cap K) = 0 BY <1>2, FS_EmptySet
  <1>6. Cardinality(Points(f) \cup K) = Cardinality(Points(f)) + Cardinality(K) - Cardinality(Points(f) \cap K)
    BY <1>3, <1>4, FS_Union
  <1>7. SumOf(g) = Cardinality(Points(f) \cup K) /\ SumOf(f) = Cardinality(Points(f))
    BY <1>1, Zenon DEF SumOf, Points
  <1>8. g[x] \in Nat OBVIOUS
  <1> QED BY <1>3, <1>4, <1>5, <1>6, <1>7, <1>8

LEMMA SumEmpty ==
  ASSUME NEW f \in [{} -> Nat]
  PROVE  SumOf(f) = 0
  <1>1. UNION {{x} \X (1 .. f[x]) : x \in DOMAIN f} = {} OBVIOUS
  <1> QED BY <1>1, FS_EmptySet DEF SumOf

\* One value of the function changes.
LEMMA SumUpdate ==
  ASSUME NEW D, IsFiniteSet(D), NEW f \in [D -> Nat], NEW g \in [D -> Nat],
         NEW x \in D, \A y \in D \ {x} : g[y] = f[y]
  PROVE  SumOf(g) = SumOf(f) - f[x] + g[x]
  <1> DEFINE E == D \ {x}
             r == [y \in E |-> f[y]]
  <1>1. IsFiniteSet(E) BY FS_RemoveElement
  <1>2. r \in [E -> Nat] /\ \A y \in E : f[y] = r[y] /\ g[y] = r[y] OBVIOUS
  <1>3. D = E \cup {x} /\ x \notin E OBVIOUS
  <1>4. f[x] \in Nat /\ g[x] \in Nat OBVIOUS
  <1> HIDE DEF E, r
  <1>5. f \in [E \cup {x} -> Nat] /\ g \in [E \cup {x} -> Nat] BY <1>3
  <1>6. SumOf(f) = SumOf(r) + f[x] BY <1>1, <1>2, <1>3, <1>5, SumExtend
  <1>7. SumOf(g) = SumOf(r) + g[x] BY <1>1, <1>2, <1>3, <1>5, SumExtend
  <1>8. SumOf(r) \in Nat BY <1>1, <1>2, PointsFinite
  <1> QED BY <1>4, <1>6, <1>7, <1>8

LEMMA SumZero ==
  ASSUME NEW D, NEW f \in [D -> Nat], \A x \in D : f[x] = 0
  PROVE  SumOf(f) = 0
  <1>1. UNION {{x} \X (1 .. f[x]) : x \in DOMAIN f} = {} OBVIOUS
  <1> QED BY <1>1, FS_EmptySet DEF SumOf

LEMMA SumElem ==
  ASSUME NEW D, IsFiniteSet(D), NEW f \in [D -> Nat], NEW x \in D
  PROVE  f[x] <= SumOf(f)
  <1> DEFINE g == [f EXCEPT ![x] = 0]
  <1>1. g \in [D -> Nat] /\ g[x] = 0 /\ \A y \in D \ {x} : g[y] = f[y] OBVIOUS
  <1> HIDE DEF g
  <1>2. SumOf(g) = SumOf(f) - f[x] + g[x] BY <1>1, SumUpdate
  <1>3. SumOf(g) \in Nat /\ SumOf(f) \in Nat /\ f[x] \in Nat BY <1>1, PointsFinite
  <1> QED BY <1>1, <1>2, <1>3

\* The same values under other names.
Renames(t, D, E, f, g) ==
    /\ f \in [D -> Nat] /\ g \in [E -> Nat] /\ t \in [D -> E]
    /\ \A x, y \in D : t[x] = t[y] => x = y
    /\ \A x \in D : g[t[x]] = f[x]
    /\ \A z \in E : g[z] # 0 => \E x \in D : t[x] = z

LEMMA SumRename ==
  ASSUME NEW D, IsFiniteSet(D), NEW E, IsFiniteSet(E), NEW f, NEW g, NEW t,
         Renames(t, D, E, f, g)
  PROVE  SumOf(f) = SumOf(g)
  <1> USE DEF Renames
  <1> DEFINE P == Points(f)
             Q == Points(g)
             b == [e \in P |-> <<t[e[1]], e[2]>>]
  <1>1. \A e \in P : b[e] \in Q
    <2> SUFFICES ASSUME NEW e \in P PROVE <<t[e[1]], e[2]>> \in Q OBVIOUS
    <2>0. PICK y \in D : \E n \in 1 .. f[y] : e = <<y, n>> BY PointsPairs
    <2>1. PICK n \in 1 .. f[y] : e = <<y, n>> BY <2>0
    <2>2. e[1] = y /\ e[2] = n BY <2>1
    <2>3. t[y] \in E /\ n \in 1 .. g[t[y]] BY <2>1
    <2> QED BY <2>2, <2>3, PointsIn
  <1>2. \A d, e \in P : b[d] = b[e] => d = e
    <2> SUFFICES ASSUME NEW d \in P, NEW e \in P, <<t[d[1]], d[2]>> = <<t[e[1]], e[2]>>
                 PROVE d = e
      OBVIOUS
    <2>0. PICK y \in D : \E n \in 1 .. f[y] : d = <<y, n>> BY PointsPairs
    <2>1. PICK n \in 1 .. f[y] : d = <<y, n>> BY <2>0
    <2>2. PICK z \in D : \E m \in 1 .. f[z] : e = <<z, m>> BY PointsPairs
    <2>3. PICK m \in 1 .. f[z] : e = <<z, m>> BY <2>2
    <2>4. t[y] = t[z] /\ n = m BY <2>1, <2>3
    <2> QED BY <2>1, <2>3, <2>4
  <1>3. \A e \in Q : \E d \in P : b[d] = e
    <2> SUFFICES ASSUME NEW e \in Q PROVE \E d \in P : <<t[d[1]], d[2]>> = e OBVIOUS
    <2>0. PICK z \in E : \E n \in 1 .. g[z] : e = <<z, n>> BY PointsPairs
    <2>1. PICK n \in 1 .. g[z] : e = <<z, n>> BY <2>0
    <2>2. g[z] \in Nat /\ g[z] # 0 BY <2>1
    <2>3. PICK y \in D : t[y] = z BY <2>2
    <2>4. n \in 1 .. f[y] BY <2>1, <2>3
    <2>5. <<y, n>> \in P BY <2>4, PointsIn
    <2> WITNESS <<y, n>> \in P
    <2> QED BY <2>1, <2>3
  <1>4. b \in [P -> Q] BY <1>1
  <1> HIDE DEF P, Q, b
  <1>5. b \in Bijection(P, Q)
    BY <1>2, <1>3, <1>4, Zenon DEF Bijection, Injection, Surjection, IsInjective
  <1>6. IsFiniteSet(P) BY PointsFinite DEF P
  <1>7. Cardinality(P) = Cardinality(Q) BY <1>5, <1>6, FS_Bijection DEF ExistsBijection
  <1> QED BY <1>7, Zenon DEF SumOf, Points, P, Q
-----------------------------------------------------------------------------
(* Slots and what they hold.                                               *)

\* Pieces of bp in slot s.
Amount(s, bp) == IF s.bp = bp THEN s.qty ELSE 0

LEMMA SlotFacts ==
  ASSUME NEW s \in Slots
  PROVE  /\ IsEmpty(s) <=> s = Empty
         /\ s.bp = NoBp <=> s = Empty
         /\ s.qty \in Nat
         /\ s.bp \in Blueprints \cup {NoBp}
         /\ s # Empty => s.bp \in Blueprints /\ s.qty >= 1 /\ s.qty > 0
  <1>1. CASE s = Empty BY <1>1 DEF Empty, IsEmpty
  <1>2. CASE s # Empty
    <2>1. s \in [bp : Blueprints, qty : Nat \ {0}] BY <1>2 DEF Slots
    <2>2. s.bp \in Blueprints /\ s.qty \in Nat \ {0} BY <2>1
    <2>3. s.bp # NoBp BY <2>2, BlueprintAssumption
    <2> QED BY <1>2, <2>2, <2>3 DEF IsEmpty
  <1> QED BY <1>1, <1>2

LEMMA EmptySlot ==
  /\ Empty \in Slots /\ IsEmpty(Empty) /\ Empty.bp = NoBp /\ Empty.qty = 0
  /\ \A bp \in Blueprints : Amount(Empty, bp) = 0
  BY BlueprintAssumption DEF Empty, Slots, IsEmpty, Amount

LEMMA NewSlot ==
  ASSUME NEW b \in Blueprints, NEW n \in Nat, n # 0
  PROVE  [bp |-> b, qty |-> n] \in Slots
  BY DEF Slots

LEMMA AmountNat ==
  ASSUME NEW s \in Slots, NEW bp
  PROVE  Amount(s, bp) \in Nat
  BY SlotFacts DEF Amount

\* A slot that loses n of its pieces.
LEMMA LessSlot ==
  ASSUME NEW s \in Slots, NEW n \in 0 .. s.qty
  PROVE  /\ Less(s, n) \in Slots
         /\ \A bp \in Blueprints :
              Amount(Less(s, n), bp) = Amount(s, bp) - (IF s.bp = bp THEN n ELSE 0)
         /\ n = 0 => Less(s, n) = s
         /\ Less(s, n) # Empty => Less(s, n).bp = s.bp /\ Less(s, n).qty = s.qty - n
  <1>1. s.qty \in Nat /\ n \in Nat /\ n <= s.qty BY SlotFacts
  <1>2. CASE s.qty - n <= 0
    <2>1. n = s.qty BY <1>1, <1>2
    <2>2. Less(s, n) = Empty BY <1>2 DEF Less
    <2>3. n = 0 => s = Empty
      <3>1. s # Empty => s.qty >= 1 BY SlotFacts
      <3> QED BY <2>1, <1>1, <3>1
    <2>4. \A bp \in Blueprints : Amount(s, bp) - (IF s.bp = bp THEN n ELSE 0) = 0 BY <2>1, <1>1 DEF Amount
    <2> QED BY <2>2, <2>3, <2>4, EmptySlot
  <1>3. CASE s.qty - n > 0
    <2>1. s # Empty BY <1>1, <1>3, EmptySlot
    <2>2. s.bp \in Blueprints /\ s \in [bp : Blueprints, qty : Nat \ {0}] BY <2>1, SlotFacts DEF Slots
    <2>3. s.qty - n \in Nat /\ s.qty - n # 0 BY <1>1, <1>3
    <2>4. Less(s, n) = [bp |-> s.bp, qty |-> s.qty - n] BY <1>1, <1>3 DEF Less
    <2>5. Less(s, n) \in Slots BY <2>2, <2>3, <2>4, NewSlot
    <2>6. n = 0 => Less(s, n) = s BY <1>1, <2>2, <2>4
    <2>7. \A bp \in Blueprints : Amount(Less(s, n), bp) = Amount(s, bp) - (IF s.bp = bp THEN n ELSE 0)
      BY <2>4, <1>1 DEF Amount
    <2> QED BY <2>4, <2>5, <2>6, <2>7
  <1> QED BY <1>1, <1>2, <1>3

\* The function a count sums up.
LEMMA CountIs ==
  ASSUME NEW D, NEW f \in [D -> Slots], NEW bp
  PROVE  /\ CountIn(f, bp) = SumOf([x \in D |-> Amount(f[x], bp)])
         /\ [x \in D |-> Amount(f[x], bp)] \in [D -> Nat]
  <1>1. CountIn(f, bp) = SumOf([x \in D |-> Amount(f[x], bp)]) BY DEF CountIn, Amount
  <1>2. \A x \in D : Amount(f[x], bp) \in Nat BY AmountNat
  <1> QED BY <1>1, <1>2

LEMMA CountNat ==
  ASSUME NEW D, IsFiniteSet(D), NEW f \in [D -> Slots], NEW bp
  PROVE  CountIn(f, bp) \in Nat
  <1> DEFINE g == [x \in D |-> Amount(f[x], bp)]
  <1>1. g \in [D -> Nat] /\ CountIn(f, bp) = SumOf(g) BY CountIs
  <1> HIDE DEF g
  <1> QED BY <1>1, PointsFinite

\* One slot gets another content.
LEMMA CountPut ==
  ASSUME NEW D, IsFiniteSet(D), NEW f \in [D -> Slots], NEW g \in [D -> Slots],
         NEW x \in D, \A y \in D \ {x} : g[y] = f[y], NEW bp
  PROVE  CountIn(g, bp) = CountIn(f, bp) - Amount(f[x], bp) + Amount(g[x], bp)
  <1> DEFINE a == [y \in D |-> Amount(f[y], bp)]
             b == [y \in D |-> Amount(g[y], bp)]
  <1>1. a \in [D -> Nat] /\ CountIn(f, bp) = SumOf(a) BY CountIs
  <1>2. b \in [D -> Nat] /\ CountIn(g, bp) = SumOf(b) BY CountIs
  <1>3. \A y \in D \ {x} : b[y] = a[y] OBVIOUS
  <1>4. a[x] = Amount(f[x], bp) /\ b[x] = Amount(g[x], bp) OBVIOUS
  <1> HIDE DEF a, b
  <1>5. SumOf(b) = SumOf(a) - a[x] + b[x] BY <1>1, <1>2, <1>3, SumUpdate
  <1> QED BY <1>1, <1>2, <1>4, <1>5

LEMMA CountElem ==
  ASSUME NEW D, IsFiniteSet(D), NEW f \in [D -> Slots], NEW x \in D, NEW bp
  PROVE  Amount(f[x], bp) <= CountIn(f, bp)
  <1> DEFINE a == [y \in D |-> Amount(f[y], bp)]
  <1>1. a \in [D -> Nat] /\ CountIn(f, bp) = SumOf(a)
    <2>1. a \in [D -> Nat] BY AmountNat
    <2>2. CountIn(f, bp) = SumOf(a) BY CountIs
    <2> QED BY <2>1, <2>2
  <1>2. a[x] = Amount(f[x], bp) OBVIOUS
  <1> HIDE DEF a
  <1> QED BY <1>1, <1>2, SumElem

LEMMA CountNone ==
  ASSUME NEW D, NEW f \in [D -> Slots], NEW bp, \A x \in D : Amount(f[x], bp) = 0
  PROVE  CountIn(f, bp) = 0
  <1> DEFINE a == [y \in D |-> Amount(f[y], bp)]
  <1>1. a \in [D -> Nat] /\ CountIn(f, bp) = SumOf(a)
    <2>1. a \in [D -> Nat] BY AmountNat
    <2>2. CountIn(f, bp) = SumOf(a) BY CountIs
    <2> QED BY <2>1, <2>2
  <1>2. \A x \in D : a[x] = 0 OBVIOUS
  <1> HIDE DEF a
  <1> QED BY <1>1, <1>2, SumZero

LEMMA CountSame ==
  ASSUME NEW D, NEW f \in [D -> Slots], NEW g \in [D -> Slots], NEW bp,
         \A x \in D : Amount(f[x], bp) = Amount(g[x], bp)
  PROVE  CountIn(f, bp) = CountIn(g, bp)
  <1>1. [x \in D |-> Amount(f[x], bp)] = [x \in D |-> Amount(g[x], bp)] OBVIOUS
  <1>2. CountIn(f, bp) = SumOf([x \in D |-> Amount(f[x], bp)]) BY CountIs
  <1>3. CountIn(g, bp) = SumOf([x \in D |-> Amount(g[x], bp)]) BY CountIs
  <1> QED BY <1>1, <1>2, <1>3

\* One slot more.
LEMMA CountExtend ==
  ASSUME NEW D, IsFiniteSet(D), NEW f \in [D -> Slots], NEW x, x \notin D,
         NEW g \in [D \cup {x} -> Slots], \A y \in D : g[y] = f[y], NEW bp
  PROVE  CountIn(g, bp) = CountIn(f, bp) + Amount(g[x], bp)
  <1> DEFINE a == [y \in D |-> Amount(f[y], bp)]
             b == [y \in D \cup {x} |-> Amount(g[y], bp)]
  <1>1. a \in [D -> Nat] /\ b \in [D \cup {x} -> Nat] BY AmountNat
  <1>2. CountIn(f, bp) = SumOf(a) BY CountIs
  <1>3. CountIn(g, bp) = SumOf(b) BY CountIs
  <1>4. b[x] = Amount(g[x], bp) /\ \A y \in D : b[y] = a[y] OBVIOUS
  <1> HIDE DEF a, b
  <1>5. SumOf(b) = SumOf(a) + b[x] BY <1>1, <1>4, SumExtend
  <1> QED BY <1>2, <1>3, <1>4, <1>5
-----------------------------------------------------------------------------
(* Inventories.                                                            *)

Inventories == [bag : [Bag -> Slots], gear : [Gear -> Slots], mag : [Hands -> Slots],
                first : 0 .. BagSize, ver : 0 .. VersionMod - 1]

LEMMA FiniteParts ==
  IsFiniteSet(Bag) /\ IsFiniteSet(Gear) /\ IsFiniteSet(Hands)
  <1>1. IsFiniteSet(Bag) BY SizeAssumption, FS_Interval DEF Bag
  <1>2. IsFiniteSet({}) BY FS_EmptySet
  <1>3. IsFiniteSet({} \cup {"primary"}) BY <1>2, FS_AddElement
  <1>4. IsFiniteSet({} \cup {"primary"} \cup {"secondary"}) BY <1>3, FS_AddElement
  <1>5. IsFiniteSet({} \cup {"primary"} \cup {"secondary"} \cup {"armor"}) BY <1>4, FS_AddElement
  <1>6. Hands = {} \cup {"primary"} \cup {"secondary"} BY DEF Hands
  <1>7. Gear = {} \cup {"primary"} \cup {"secondary"} \cup {"armor"} BY DEF Gear, Hands
  <1> QED BY <1>1, <1>4, <1>5, <1>6, <1>7

LEMMA NextVersion ==
  ASSUME NEW n \in 0 .. VersionMod - 1
  PROVE  Next1(n) \in 0 .. VersionMod - 1 /\ Next1(n) # n
  <1>1. VersionMod \in Nat /\ VersionMod > 1 BY SizeAssumption
  <1>2. n \in Nat /\ n <= VersionMod - 1 BY <1>1
  <1>3. CASE n + 1 < VersionMod
    <2>1. (n + 1) % VersionMod = n + 1 BY <1>1, <1>2, <1>3
    <2> QED BY <2>1, <1>1, <1>2, <1>3 DEF Next1
  <1>4. CASE n + 1 >= VersionMod
    <2>1. n + 1 = VersionMod BY <1>1, <1>2, <1>4
    <2>2. VersionMod % VersionMod = 0 BY <1>1
    <2> QED BY <2>1, <2>2, <1>1, <1>2 DEF Next1
  <1> QED BY <1>1, <1>2, <1>3, <1>4

LEMMA FirstEmptyFacts ==
  ASSUME NEW bag \in [Bag -> Slots]
  PROVE  /\ FirstEmpty(bag) \in 0 .. BagSize
         /\ FirstEmpty(bag) = 0 => \A i \in Bag : bag[i] # Empty
         /\ FirstEmpty(bag) # 0 => FirstEmpty(bag) \in Bag /\ bag[FirstEmpty(bag)] = Empty
  <1> DEFINE free == {i \in Bag : IsEmpty(bag[i])}
  <1>1. \A i \in Bag : i \in free <=> bag[i] = Empty BY SlotFacts
  <1>2. free \subseteq Bag /\ Bag \subseteq Nat /\ free \subseteq Nat BY SizeAssumption DEF Bag
  <1>3. FirstEmpty(bag) = IF free = {} THEN 0 ELSE Min(free) BY DEF FirstEmpty
  <1>4. \A i \in Bag : i \in 0 .. BagSize /\ i # 0 BY SizeAssumption DEF Bag
  <1>5. 0 \in 0 .. BagSize BY SizeAssumption
  <1> HIDE DEF free
  <1>6. free # {} => Min(free) \in free BY <1>2, MinNat
  <1> QED BY <1>1, <1>2, <1>3, <1>4, <1>5, <1>6

\* Bags with the same free slots.
LEMMA FirstEmptySame ==
  ASSUME NEW f \in [Bag -> Slots], NEW g \in [Bag -> Slots],
         \A i \in Bag : f[i] = Empty <=> g[i] = Empty
  PROVE  FirstEmpty(f) = FirstEmpty(g)
  <1>1. {i \in Bag : IsEmpty(f[i])} = {i \in Bag : IsEmpty(g[i])} BY SlotFacts
  <1> QED BY <1>1, Zenon DEF FirstEmpty

LEMMA RefreshBump ==
  ASSUME NEW v \in Inventories
  PROVE  /\ Refreshed(v) \in Inventories
         /\ Refreshed(v).bag = v.bag /\ Refreshed(v).gear = v.gear
         /\ Refreshed(v).mag = v.mag /\ Refreshed(v).ver = v.ver
         /\ Refreshed(v).first = FirstEmpty(v.bag)
         /\ Bumped(v) \in Inventories
         /\ Bumped(v).bag = v.bag /\ Bumped(v).gear = v.gear
         /\ Bumped(v).mag = v.mag /\ Bumped(v).first = v.first
         /\ Bumped(v).ver = Next1(v.ver) /\ Bumped(v).ver # v.ver
  <1>1. v.ver \in 0 .. VersionMod - 1 /\ v.bag \in [Bag -> Slots] BY DEF Inventories
  <1>2. Next1(v.ver) \in 0 .. VersionMod - 1 /\ Next1(v.ver) # v.ver BY <1>1, NextVersion
  <1>3. FirstEmpty(v.bag) \in 0 .. BagSize BY <1>1, FirstEmptyFacts
  <1> QED BY <1>2, <1>3 DEF Inventories, Refreshed, Bumped

\* A magazine that is not empty is in a weapon whose rounds it holds.
MagFits(v) ==
    \A h \in Hands : v.mag[h] # Empty =>
      /\ v.gear[h].bp \in Weapons
      /\ v.mag[h].bp = AmmoType[v.gear[h].bp]
      /\ v.mag[h].qty <= MaxAmmo[v.gear[h].bp]

\* Rounds of ammo in the first i slots of a bag, and what is taken from them
\* when there is room for r.
Have(bag, ammo, i) == CountIn([j \in 1 .. i |-> bag[j]], ammo)
Taken(bag, ammo, r, i) == Min({Have(bag, ammo, i), r})

LEMMA HaveStep ==
  ASSUME NEW bag \in [Bag -> Slots], NEW ammo
  PROVE  /\ Have(bag, ammo, 0) = 0
         /\ Have(bag, ammo, BagSize) = CountIn(bag, ammo)
         /\ \A i \in 0 .. BagSize : Have(bag, ammo, i) \in Nat
         /\ \A i \in Bag : Have(bag, ammo, i) = Have(bag, ammo, i - 1) + Amount(bag[i], ammo)
  <1> DEFINE part(i) == [j \in 1 .. i |-> bag[j]]
  <1>1. \A i \in 0 .. BagSize : IsFiniteSet(1 .. i) /\ part(i) \in [1 .. i -> Slots]
    <2> SUFFICES ASSUME NEW i \in 0 .. BagSize PROVE IsFiniteSet(1 .. i) /\ part(i) \in [1 .. i -> Slots]
      OBVIOUS
    <2>1. i \in Nat /\ \A j \in 1 .. i : j \in Bag BY SizeAssumption DEF Bag
    <2>2. IsFiniteSet(1 .. i) BY <2>1, FS_Interval
    <2> QED BY <2>1, <2>2
  <1>2. Have(bag, ammo, 0) = 0
    <2>1. 0 \in 0 .. BagSize /\ \A x \in 1 .. 0 : FALSE BY SizeAssumption
    <2>2. part(0) \in [1 .. 0 -> Slots] BY <1>1, <2>1
    <2> HIDE DEF part
    <2>3. CountIn(part(0), ammo) = 0 BY <2>1, <2>2, CountNone
    <2> QED BY <2>3 DEF Have, part
  <1>3. part(BagSize) = bag BY DEF Bag
  <1>4. \A i \in 0 .. BagSize : Have(bag, ammo, i) \in Nat
    <2> SUFFICES ASSUME NEW i \in 0 .. BagSize PROVE CountIn(part(i), ammo) \in Nat BY DEF Have
    <2>1. IsFiniteSet(1 .. i) /\ part(i) \in [1 .. i -> Slots] BY <1>1
    <2> HIDE DEF part
    <2> QED BY <2>1, CountNat
  <1>5. \A i \in Bag : Have(bag, ammo, i) = Have(bag, ammo, i - 1) + Amount(bag[i], ammo)
    <2> SUFFICES ASSUME NEW i \in Bag
                 PROVE  CountIn(part(i), ammo) = CountIn(part(i - 1), ammo) + Amount(bag[i], ammo)
      BY DEF Have
    <2>1. i \in 0 .. BagSize /\ i - 1 \in 0 .. BagSize /\ i \in 1 .. i BY SizeAssumption DEF Bag
    <2>2. 1 .. i = (1 .. i - 1) \cup {i} /\ i \notin 1 .. i - 1 BY <2>1, SizeAssumption
    <2>3. \A j \in 1 .. i - 1 : part(i)[j] = part(i - 1)[j] BY <2>2
    <2>4. part(i)[i] = bag[i] BY <2>1
    <2>5. /\ IsFiniteSet(1 .. i - 1) /\ part(i - 1) \in [1 .. i - 1 -> Slots]
          /\ part(i) \in [1 .. i -> Slots]
      BY <1>1, <2>1
    <2> HIDE DEF part
    <2>6. part(i) \in [(1 .. i - 1) \cup {i} -> Slots] BY <2>2, <2>5, Zenon
    <2>7. CountIn(part(i), ammo) = CountIn(part(i - 1), ammo) + Amount(part(i)[i], ammo)
      <3>1. PICK D, f, g : D = 1 .. i - 1 /\ f = part(i - 1) /\ g = part(i) OBVIOUS
      <3>2. IsFiniteSet(D) /\ f \in [D -> Slots] /\ i \notin D BY <2>2, <2>5, <3>1
      <3>3. g \in [D \cup {i} -> Slots] /\ \A j \in D : g[j] = f[j] BY <2>3, <2>6, <3>1
      <3>4. CountIn(g, ammo) = CountIn(f, ammo) + Amount(g[i], ammo) BY <3>2, <3>3, CountExtend
      <3> QED BY <3>1, <3>4
    <2> QED BY <2>4, <2>7
  <1> QED BY <1>2, <1>3, <1>4, <1>5 DEF Have

LEMMA TakenStep ==
  ASSUME NEW bag \in [Bag -> Slots], NEW ammo, NEW r \in Nat
  PROVE  /\ Taken(bag, ammo, r, 0) = 0
         /\ \A i \in 0 .. BagSize :
              /\ Taken(bag, ammo, r, i) \in Nat
              /\ Taken(bag, ammo, r, i) <= r
              /\ Taken(bag, ammo, r, i) <= Have(bag, ammo, i)
         /\ \A i \in Bag :
              Taken(bag, ammo, r, i) - Taken(bag, ammo, r, i - 1) \in 0 .. Amount(bag[i], ammo)
         /\ r > 0 /\ CountIn(bag, ammo) # 0 => Taken(bag, ammo, r, BagSize) > 0
  <1>1. \A i \in 0 .. BagSize :
          /\ Have(bag, ammo, i) \in Nat
          /\ Taken(bag, ammo, r, i) = IF Have(bag, ammo, i) <= r THEN Have(bag, ammo, i) ELSE r
    <2> SUFFICES ASSUME NEW i \in 0 .. BagSize
                 PROVE /\ Have(bag, ammo, i) \in Nat
                       /\ Taken(bag, ammo, r, i) = IF Have(bag, ammo, i) <= r THEN Have(bag, ammo, i) ELSE r
      OBVIOUS
    <2>1. Have(bag, ammo, i) \in Nat BY HaveStep
    <2> QED BY <2>1, MinPair DEF Taken
  <1>2. 0 \in 0 .. BagSize /\ BagSize \in 0 .. BagSize BY SizeAssumption
  <1>3. Taken(bag, ammo, r, 0) = 0 BY <1>1, <1>2, HaveStep
  <1>4. \A i \in Bag :
          Taken(bag, ammo, r, i) - Taken(bag, ammo, r, i - 1) \in 0 .. Amount(bag[i], ammo)
    <2> SUFFICES ASSUME NEW i \in Bag
                 PROVE Taken(bag, ammo, r, i) - Taken(bag, ammo, r, i - 1) \in 0 .. Amount(bag[i], ammo)
      OBVIOUS
    <2>1. i \in 0 .. BagSize /\ i - 1 \in 0 .. BagSize BY SizeAssumption DEF Bag
    <2>2. Amount(bag[i], ammo) \in Nat BY AmountNat
    <2>3. Have(bag, ammo, i) = Have(bag, ammo, i - 1) + Amount(bag[i], ammo) BY HaveStep
    <2>4. PICK a \in Nat, b \in Nat, m \in Nat :
             a = Have(bag, ammo, i) /\ b = Have(bag, ammo, i - 1) /\ m = Amount(bag[i], ammo)
      BY <1>1, <2>1, <2>2
    <2>5. /\ Taken(bag, ammo, r, i) = IF a <= r THEN a ELSE r
          /\ Taken(bag, ammo, r, i - 1) = IF b <= r THEN b ELSE r
          /\ a = b + m
      BY <1>1, <2>1, <2>3, <2>4
    <2> QED BY <2>4, <2>5
  <1>5. r > 0 /\ CountIn(bag, ammo) # 0 => Taken(bag, ammo, r, BagSize) > 0
    BY <1>1, <1>2, HaveStep
  <1> QED BY <1>1, <1>3, <1>4, <1>5

\* The bag after LoadMagazineFromInventory.
Drawn(bag, ammo, r) ==
    [i \in Bag |-> IF bag[i].bp = ammo
                   THEN Less(bag[i], Taken(bag, ammo, r, i) - Taken(bag, ammo, r, i - 1))
                   ELSE bag[i]]

LEMMA DrawnCount ==
  ASSUME NEW bag \in [Bag -> Slots], NEW ammo \in Ammo, NEW r \in Nat
  PROVE  /\ Drawn(bag, ammo, r) \in [Bag -> Slots]
         /\ CountIn(Drawn(bag, ammo, r), ammo) = CountIn(bag, ammo) - Taken(bag, ammo, r, BagSize)
         /\ \A bp \in Blueprints \ {ammo} : CountIn(Drawn(bag, ammo, r), bp) = CountIn(bag, bp)
  <1> DEFINE N == Drawn(bag, ammo, r)
             d(i) == Taken(bag, ammo, r, i) - Taken(bag, ammo, r, i - 1)
  <1>0. ammo \in Blueprints BY DEF Blueprints
  <1>1. \A i \in Bag : /\ N[i] \in Slots
                       /\ \A bp \in Blueprints :
                            Amount(N[i], bp) = Amount(bag[i], bp) - (IF bp = ammo THEN d(i) ELSE 0)
    <2> SUFFICES ASSUME NEW i \in Bag
                 PROVE /\ N[i] \in Slots
                       /\ \A bp \in Blueprints :
                            Amount(N[i], bp) = Amount(bag[i], bp) - (IF bp = ammo THEN d(i) ELSE 0)
      OBVIOUS
    <2>1. bag[i] \in Slots /\ d(i) \in 0 .. Amount(bag[i], ammo) BY TakenStep
    <2>2. \A bp \in Blueprints : Amount(bag[i], bp) \in Nat BY <2>1, AmountNat
    <2>3. CASE bag[i].bp = ammo
      <3>1. N[i] = Less(bag[i], d(i)) BY <2>3 DEF Drawn
      <3>2. d(i) \in 0 .. bag[i].qty BY <2>1, <2>3 DEF Amount
      <3> HIDE DEF N, d
      <3>3. /\ Less(bag[i], d(i)) \in Slots
            /\ \A bp \in Blueprints : Amount(Less(bag[i], d(i)), bp)
                  = Amount(bag[i], bp) - (IF bag[i].bp = bp THEN d(i) ELSE 0)
        BY <2>1, <3>2, LessSlot
      <3> QED BY <2>3, <3>1, <3>3
    <2>4. CASE bag[i].bp # ammo
      <3>1. N[i] = bag[i] BY <2>4 DEF Drawn
      <3>2. d(i) = 0 BY <2>1, <2>4 DEF Amount
      <3> HIDE DEF N, d
      <3> QED BY <2>1, <2>2, <3>1, <3>2
    <2> QED BY <2>3, <2>4
  <1>2. N \in [Bag -> Slots] BY <1>1 DEF Drawn
  <1>3. \A bp \in Blueprints \ {ammo} : CountIn(N, bp) = CountIn(bag, bp)
    <2> SUFFICES ASSUME NEW bp \in Blueprints \ {ammo} PROVE CountIn(N, bp) = CountIn(bag, bp) OBVIOUS
    <2>1. \A i \in Bag : Amount(N[i], bp) = Amount(bag[i], bp)
      <3> SUFFICES ASSUME NEW i \in Bag PROVE Amount(N[i], bp) = Amount(bag[i], bp) OBVIOUS
      <3>1. Amount(bag[i], bp) \in Nat BY AmountNat
      <3>2. Amount(N[i], bp) = Amount(bag[i], bp) - (IF bp = ammo THEN d(i) ELSE 0) BY <1>1
      <3> HIDE DEF N, d
      <3> QED BY <3>1, <3>2
    <2> HIDE DEF N
    <2> QED BY <1>2, <2>1, CountSame
  <1>4. CountIn(N, ammo) = CountIn(bag, ammo) - Taken(bag, ammo, r, BagSize)
    <2> DEFINE Ok(n) == n <= BagSize => Have(N, ammo, n) = Have(bag, ammo, n) - Taken(bag, ammo, r, n)
               A == {n \in Nat : Ok(n)}
    <2>1. 0 \in A
      <3>1. Have(N, ammo, 0) = 0 /\ Have(bag, ammo, 0) = 0 BY <1>2, HaveStep
      <3>2. Taken(bag, ammo, r, 0) = 0 BY TakenStep
      <3> HIDE DEF N
      <3> QED BY <3>1, <3>2
    <2>2. \A n \in Nat : n \in A => n + 1 \in A
      <3> SUFFICES ASSUME NEW n \in Nat, Ok(n), n + 1 <= BagSize
                   PROVE  Have(N, ammo, n + 1) = Have(bag, ammo, n + 1) - Taken(bag, ammo, r, n + 1)
        OBVIOUS
      <3> DEFINE i == n + 1
      <3>1. i \in Bag /\ i - 1 = n /\ n \in 0 .. BagSize /\ i \in 0 .. BagSize /\ n <= BagSize
        BY SizeAssumption DEF Bag
      <3>2. Have(N, ammo, i) = Have(N, ammo, n) + Amount(N[i], ammo) BY <1>2, <3>1, HaveStep
      <3>3. Have(bag, ammo, i) = Have(bag, ammo, n) + Amount(bag[i], ammo) BY <3>1, HaveStep
      <3>4. Amount(N[i], ammo) = Amount(bag[i], ammo) - (Taken(bag, ammo, r, i) - Taken(bag, ammo, r, n))
        BY <1>0, <1>1, <3>1
      <3>5. Have(N, ammo, n) = Have(bag, ammo, n) - Taken(bag, ammo, r, n) BY <3>1
      <3>6. /\ Taken(bag, ammo, r, i) \in Nat /\ Taken(bag, ammo, r, n) \in Nat
            /\ Have(bag, ammo, n) \in Nat
        BY <3>1, TakenStep, HaveStep
      <3>7. Amount(bag[i], ammo) \in Nat BY <3>1, AmountNat
      <3> HIDE DEF N, i, Ok
      <3>8. Have(N, ammo, i) = Have(bag, ammo, i) - Taken(bag, ammo, r, i)
        BY <3>2, <3>3, <3>4, <3>5, <3>6, <3>7
      <3> QED BY <3>8 DEF i
    <2>3. Nat \subseteq A
      <3> HIDE DEF A
      <3> QED BY <2>1, <2>2, NatClosed
    <2>4. BagSize \in Nat /\ BagSize <= BagSize BY SizeAssumption
    <2>5. Ok(BagSize) BY <2>3, <2>4
    <2>6. Have(N, ammo, BagSize) = CountIn(N, ammo) /\ Have(bag, ammo, BagSize) = CountIn(bag, ammo)
      BY <1>2, HaveStep
    <2> HIDE DEF N
    <2> QED BY <2>4, <2>5, <2>6
  <1> HIDE DEF N
  <1> QED BY <1>2, <1>3, <1>4 DEF N

LEMMA CarriedNat ==
  ASSUME NEW v \in Inventories, NEW bp
  PROVE  /\ CountIn(v.bag, bp) \in Nat /\ CountIn(v.gear, bp) \in Nat /\ CountIn(v.mag, bp) \in Nat
         /\ Carried(v, bp) \in Nat
  <1>1. v.bag \in [Bag -> Slots] /\ v.gear \in [Gear -> Slots] /\ v.mag \in [Hands -> Slots]
    BY DEF Inventories
  <1>2. CountIn(v.bag, bp) \in Nat BY <1>1, FiniteParts, CountNat
  <1>3. CountIn(v.gear, bp) \in Nat BY <1>1, FiniteParts, CountNat
  <1>4. CountIn(v.mag, bp) \in Nat BY <1>1, FiniteParts, CountNat
  <1> QED BY <1>2, <1>3, <1>4 DEF Carried

LEMMA WeaponFacts ==
  ASSUME NEW w \in Weapons
  PROVE  AmmoType[w] \in Ammo /\ AmmoType[w] \in Blueprints /\ MaxAmmo[w] \in Nat /\ w # NoBp
  BY BlueprintAssumption DEF Blueprints

\* LoadMagazineFromInventory moves rounds from the bag to the magazine.
LEMMA LoadFacts ==
  ASSUME NEW v \in Inventories, MagFits(v), NEW h \in Hands
  PROVE  /\ Load(v, h) \in Inventories
         /\ MagFits(Load(v, h))
         /\ Load(v, h).gear = v.gear
         /\ \A bp \in Blueprints : Carried(Load(v, h), bp) = Carried(v, bp)
         /\ v.first = FirstEmpty(v.bag) => Load(v, h).first = FirstEmpty(Load(v, h).bag)
         /\ Load(v, h).bag # v.bag => Load(v, h).ver # v.ver
  <1>0. CASE Load(v, h) = v BY <1>0
  <1>1. CASE Load(v, h) # v
    <2> DEFINE wp == v.gear[h].bp
               ammo == AmmoType[wp]
               room == RoomOf(v, h)
               put == Taken(v.bag, ammo, room, BagSize)
               new == [bp |-> IF IsEmpty(v.mag[h]) THEN ammo ELSE v.mag[h].bp, qty |-> v.mag[h].qty + put]
               u == [v EXCEPT !.bag = Drawn(v.bag, ammo, room), !.mag[h] = new]
    <2>1. wp \in Weapons BY <1>1 DEF Load
    <2>2. ~ (room <= 0) /\ Have(v.bag, ammo, BagSize) # 0 /\ Load(v, h) = Bumped(Refreshed(u))
      BY <1>1, <2>1 DEF Load, Have, Taken, Drawn
    <2>3. /\ v.bag \in [Bag -> Slots] /\ v.gear \in [Gear -> Slots] /\ v.mag \in [Hands -> Slots]
          /\ v.mag[h] \in Slots /\ h \in Gear
      BY DEF Inventories, Gear
    <2>4. ammo \in Ammo /\ ammo \in Blueprints /\ MaxAmmo[wp] \in Nat BY <2>1, WeaponFacts
    <2>5. v.mag[h].qty \in Nat BY <2>3, SlotFacts
    <2>6. room \in Nat /\ room > 0 /\ room = MaxAmmo[wp] - v.mag[h].qty
      BY <2>2, <2>4, <2>5 DEF RoomOf
    <2>7. put \in Nat /\ put > 0 /\ put <= room
      <3>1. BagSize \in 0 .. BagSize BY SizeAssumption
      <3>2. CountIn(v.bag, ammo) # 0 BY <2>2, <2>3, HaveStep
      <3> HIDE DEF wp, ammo, room
      <3> QED BY <2>3, <2>6, <3>1, <3>2, TakenStep
    <2>8. (IF IsEmpty(v.mag[h]) THEN ammo ELSE v.mag[h].bp) = ammo
      BY <2>3, SlotFacts DEF MagFits
    <2>9. new = [bp |-> ammo, qty |-> v.mag[h].qty + put] BY <2>8
    <2>10. v.mag[h].qty + put \in Nat /\ v.mag[h].qty + put # 0 /\ v.mag[h].qty + put <= MaxAmmo[wp]
      <3> HIDE DEF wp, put, room
      <3> QED BY <2>4, <2>5, <2>6, <2>7
    <2>11. new \in Slots
      <3> HIDE DEF wp, put, ammo, new
      <3> QED BY <2>4, <2>9, <2>10, NewSlot
    <2>12. new.bp = ammo /\ new.qty = v.mag[h].qty + put BY <2>9
    <2>13. /\ Drawn(v.bag, ammo, room) \in [Bag -> Slots]
           /\ CountIn(Drawn(v.bag, ammo, room), ammo) = CountIn(v.bag, ammo) - put
           /\ \A bp \in Blueprints \ {ammo} : CountIn(Drawn(v.bag, ammo, room), bp) = CountIn(v.bag, bp)
      <3> HIDE DEF ammo, room
      <3> QED BY <2>3, <2>4, <2>6, DrawnCount
    <2> HIDE DEF wp, ammo, room, put, new
    <2>14. /\ u \in Inventories
           /\ u.bag = Drawn(v.bag, ammo, room) /\ u.gear = v.gear /\ u.ver = v.ver
           /\ u.mag \in [Hands -> Slots] /\ u.mag[h] = new
           /\ \A g \in Hands \ {h} : u.mag[g] = v.mag[g]
      BY <2>11, <2>13 DEF Inventories
    <2> HIDE DEF u
    <2>15. \A bp \in Blueprints : Carried(u, bp) = Carried(v, bp)
      <3> SUFFICES ASSUME NEW bp \in Blueprints PROVE Carried(u, bp) = Carried(v, bp) OBVIOUS
      <3>1. CountIn(u.mag, bp) = CountIn(v.mag, bp) - Amount(v.mag[h], bp) + Amount(new, bp)
        BY <2>3, <2>14, FiniteParts, CountPut
      <3>2. CountIn(v.mag, bp) \in Nat /\ CountIn(v.bag, bp) \in Nat /\ CountIn(v.gear, bp) \in Nat
        BY CarriedNat
      <3>3. Amount(v.mag[h], bp) \in Nat BY <2>3, AmountNat
      <3>4. CASE bp = ammo
        <4>1. v.mag[h] # Empty => v.mag[h].bp = ammo BY DEF MagFits, wp, ammo
        <4>2. v.mag[h] = Empty => v.mag[h].qty = 0 BY EmptySlot
        <4>3. Amount(v.mag[h], bp) = v.mag[h].qty BY <2>5, <3>4, <4>1, <4>2 DEF Amount
        <4>4. Amount(new, bp) = v.mag[h].qty + put BY <2>12, <3>4 DEF Amount
        <4> QED BY <2>5, <2>7, <2>13, <2>14, <3>1, <3>2, <3>4, <4>3, <4>4 DEF Carried
      <3>5. CASE bp # ammo
        <4>1. v.mag[h] # Empty => v.mag[h].bp = ammo BY DEF MagFits, wp, ammo
        <4>2. v.mag[h] = Empty => Amount(v.mag[h], bp) = 0 BY EmptySlot
        <4>3. Amount(v.mag[h], bp) = 0 BY <3>5, <4>1, <4>2 DEF Amount
        <4>4. Amount(new, bp) = 0 BY <2>12, <3>5 DEF Amount
        <4> QED BY <2>13, <2>14, <3>1, <3>2, <3>5, <4>3, <4>4 DEF Carried
      <3> QED BY <3>4, <3>5
    <2>16. /\ Refreshed(u) \in Inventories
           /\ Refreshed(u).bag = u.bag /\ Refreshed(u).gear = u.gear
           /\ Refreshed(u).mag = u.mag /\ Refreshed(u).ver = u.ver
           /\ Refreshed(u).first = FirstEmpty(u.bag)
      BY <2>14, RefreshBump
    <2>17. PICK w \in Inventories : w = Load(v, h) /\ w = Bumped(Refreshed(u)) BY <2>2, <2>16, RefreshBump
    <2>18. /\ w.bag = u.bag /\ w.gear = v.gear /\ w.mag = u.mag /\ w.ver # v.ver
           /\ w.first = FirstEmpty(w.bag)
      BY <2>14, <2>16, <2>17, RefreshBump
    <2>19. \A bp \in Blueprints : Carried(w, bp) = Carried(v, bp) BY <2>14, <2>15, <2>18 DEF Carried
    <2>20. MagFits(w)
      <3> SUFFICES ASSUME NEW g \in Hands, w.mag[g] # Empty
                   PROVE /\ w.gear[g].bp \in Weapons
                         /\ w.mag[g].bp = AmmoType[w.gear[g].bp]
                         /\ w.mag[g].qty <= MaxAmmo[w.gear[g].bp]
        BY DEF MagFits
      <3>1. CASE g = h BY <2>1, <2>10, <2>12, <2>14, <2>18, <3>1 DEF wp, ammo
      <3>2. CASE g # h BY <2>14, <2>18, <3>2 DEF MagFits
      <3> QED BY <3>1, <3>2
    <2> QED BY <2>17, <2>18, <2>19, <2>20
  <1> QED BY <1>0, <1>1

\* UnloadMagazineToInventory empties the magazine; its rounds are in the bag,
\* or the bag has no place for them.
LEMMA UnloadFacts ==
  ASSUME NEW v \in Inventories, v.first = FirstEmpty(v.bag), NEW h \in Hands,
         v.mag[h] # Empty => v.mag[h].bp \in Ammo
  PROVE  /\ Unload(v, h) \in Inventories
         /\ Unload(v, h).first = FirstEmpty(Unload(v, h).bag)
         /\ Unload(v, h).gear = v.gear /\ Unload(v, h).ver = v.ver
         /\ Unload(v, h).mag[h] = Empty
         /\ \A g \in Hands \ {h} : Unload(v, h).mag[g] = v.mag[g]
         /\ \A i \in Bag : v.bag[i].bp \in Weapons => Unload(v, h).bag[i] = v.bag[i]
         /\ \A bp \in Blueprints :
              \/ Carried(Unload(v, h), bp) = Carried(v, bp)
              \/ /\ bp \in Ammo /\ v.mag[h] # Empty
                 /\ Carried(Unload(v, h), bp) < Carried(v, bp)
                 /\ Unload(v, h).bag = v.bag
                 /\ \A i \in Bag : v.bag[i] # Empty /\ v.bag[i].bp # bp
  <1> DEFINE m == v.mag[h]
             same == {i \in Bag : ~ IsEmpty(v.bag[i]) /\ v.bag[i].bp = m.bp}
             off == [v EXCEPT !.mag[h] = Empty]
  <1>1. /\ v.bag \in [Bag -> Slots] /\ v.gear \in [Gear -> Slots] /\ v.mag \in [Hands -> Slots]
        /\ m \in Slots
    BY DEF Inventories
  <1>2. CASE m = Empty
    <2>1. Unload(v, h) = v BY <1>2, EmptySlot DEF Unload
    <2> QED BY <1>1, <1>2, <2>1
  <1>3. CASE m # Empty
    <2>1. /\ m.bp \in Ammo /\ m.bp \in Blueprints /\ m.qty \in Nat /\ m.qty # 0 /\ ~ IsEmpty(m)
          /\ m.bp \notin Weapons /\ m.bp # NoBp
      BY <1>1, <1>3, SlotFacts, BlueprintAssumption DEF Blueprints
    <2>2. /\ off \in Inventories /\ off.bag = v.bag /\ off.gear = v.gear /\ off.ver = v.ver
          /\ off.first = v.first /\ off.mag[h] = Empty /\ off.mag \in [Hands -> Slots]
          /\ \A g \in Hands \ {h} : off.mag[g] = v.mag[g]
      BY EmptySlot DEF Inventories
    <2>3. \A bp \in Blueprints : CountIn(off.mag, bp) = CountIn(v.mag, bp) - Amount(m, bp)
      <3> SUFFICES ASSUME NEW bp \in Blueprints
                   PROVE CountIn(off.mag, bp) = CountIn(v.mag, bp) - Amount(m, bp)
        OBVIOUS
      <3>1. PICK nm \in [Hands -> Slots] : nm = off.mag BY <2>2
      <3> HIDE DEF off
      <3>2. CountIn(nm, bp) = CountIn(v.mag, bp) - Amount(v.mag[h], bp) + Amount(nm[h], bp)
        BY <1>1, <2>2, <3>1, FiniteParts, CountPut
      <3>3. nm[h] = Empty BY <2>2, <3>1
      <3>4. CountIn(v.mag, bp) \in Nat /\ Amount(v.mag[h], bp) \in Nat /\ Amount(Empty, bp) = 0
        BY <1>1, CarriedNat, AmountNat, EmptySlot
      <3> QED BY <3>1, <3>2, <3>3, <3>4
    <2>4. \A i \in Bag : i \in same <=> v.bag[i].bp = m.bp
      BY <1>1, <2>1, SlotFacts, EmptySlot
    <2>5. CASE same # {}
      <3> DEFINE k == Min(same)
                 u == [off EXCEPT !.bag[k].qty = @ + m.qty]
                 s == [bp |-> m.bp, qty |-> v.bag[k].qty + m.qty]
      <3>1. k \in same
        <4>1. same \subseteq Nat BY SizeAssumption DEF Bag
        <4> HIDE DEF same
        <4> QED BY <2>5, <4>1, MinNat
      <3>2. Unload(v, h) = u BY <2>1, <2>5 DEF Unload
      <3>3. k \in Bag /\ v.bag[k].bp = m.bp BY <3>1
      <3> HIDE DEF same, k, m, off
      <3>4. v.bag[k] \in Slots /\ v.bag[k].qty \in Nat /\ v.bag[k] # Empty
        BY <1>1, <2>1, <3>3, SlotFacts, EmptySlot
      <3>5. [v.bag[k] EXCEPT !.qty = @ + m.qty] = s
        <4>1. v.bag[k] \in [bp : Blueprints, qty : Nat \ {0}] BY <3>4 DEF Slots
        <4> QED BY <3>3, <4>1
      <3>6. s \in Slots
        <4>1. v.bag[k].qty + m.qty \in Nat /\ v.bag[k].qty + m.qty # 0 BY <2>1, <3>4
        <4> QED BY <2>1, <4>1, NewSlot
      <3>7. u = [off EXCEPT !.bag = [v.bag EXCEPT ![k] = s]]
        BY <2>2, <3>5 DEF Inventories
      <3>8. /\ u \in Inventories
            /\ u.bag \in [Bag -> Slots] /\ u.bag[k] = s /\ \A i \in Bag \ {k} : u.bag[i] = v.bag[i]
            /\ u.gear = v.gear /\ u.ver = v.ver /\ u.first = v.first /\ u.mag = off.mag
        <4> HIDE DEF u, s
        <4> QED BY <1>1, <2>2, <3>3, <3>6, <3>7 DEF Inventories
      <3>9. s # Empty /\ s.bp = m.bp /\ s.qty = v.bag[k].qty + m.qty BY <2>1, EmptySlot
      <3> HIDE DEF u, s
      <3>10. FirstEmpty(u.bag) = FirstEmpty(v.bag)
        <4>1. \A i \in Bag : u.bag[i] = Empty <=> v.bag[i] = Empty BY <3>4, <3>8, <3>9
        <4> QED BY <1>1, <3>8, <4>1, FirstEmptySame
      <3>11. \A bp \in Blueprints : Carried(u, bp) = Carried(v, bp)
        <4> SUFFICES ASSUME NEW bp \in Blueprints PROVE Carried(u, bp) = Carried(v, bp) OBVIOUS
        <4>1. CountIn(u.bag, bp) = CountIn(v.bag, bp) - Amount(v.bag[k], bp) + Amount(s, bp)
          BY <1>1, <3>3, <3>8, FiniteParts, CountPut
        <4>2. Amount(s, bp) = Amount(v.bag[k], bp) + Amount(m, bp) BY <3>3, <3>9, <3>4, <2>1 DEF Amount
        <4>3. Amount(v.bag[k], bp) \in Nat /\ Amount(m, bp) \in Nat BY <1>1, <3>4, AmountNat
        <4>4. CountIn(v.bag, bp) \in Nat /\ CountIn(v.mag, bp) \in Nat /\ CountIn(v.gear, bp) \in Nat
          BY CarriedNat
        <4> QED BY <2>3, <3>8, <4>1, <4>2, <4>3, <4>4 DEF Carried
      <3>12. \A i \in Bag : v.bag[i].bp \in Weapons => u.bag[i] = v.bag[i] BY <2>1, <3>3, <3>8
      <3> QED BY <2>2, <3>2, <3>8, <3>10, <3>11, <3>12
    <2>6. CASE same = {} /\ v.first = 0
      <3>1. Unload(v, h) = off BY <2>1, <2>6, Zenon DEF Unload
      <3>2. \A i \in Bag : v.bag[i] # Empty /\ v.bag[i].bp # m.bp BY <1>1, <2>4, <2>6, FirstEmptyFacts
      <3> HIDE DEF same, m, off
      <3>3. ASSUME NEW bp \in Blueprints
            PROVE  /\ bp # m.bp => Carried(off, bp) = Carried(v, bp)
                   /\ bp = m.bp => Carried(off, bp) < Carried(v, bp)
        <4>1. CountIn(v.bag, bp) \in Nat /\ CountIn(v.mag, bp) \in Nat /\ CountIn(v.gear, bp) \in Nat
          BY CarriedNat
        <4>2. Carried(off, bp) = Carried(v, bp) - Amount(m, bp) /\ Carried(v, bp) \in Nat
          <5>1. Amount(m, bp) \in Nat BY <1>1, AmountNat
          <5> QED BY <2>2, <2>3, <4>1, <5>1 DEF Carried
        <4> QED BY <2>1, <4>2 DEF Amount
      <3>4. v.mag[h] # Empty BY <1>3 DEF m
      <3> QED BY <2>1, <2>2, <3>1, <3>2, <3>3, <3>4
    <2>7. CASE same = {} /\ v.first # 0
      <3> DEFINE k == v.first
                 u == [off EXCEPT !.bag[v.first] = m]
      <3>1. Unload(v, h) = Refreshed(u) BY <2>1, <2>7, Zenon DEF Unload
      <3>2. k \in Bag /\ v.bag[k] = Empty BY <1>1, <2>7, FirstEmptyFacts
      <3> HIDE DEF same, m, off
      <3>3. /\ u \in Inventories
            /\ u.bag \in [Bag -> Slots] /\ u.bag[k] = m /\ \A i \in Bag \ {k} : u.bag[i] = v.bag[i]
            /\ u.gear = v.gear /\ u.ver = v.ver /\ u.mag = off.mag
        BY <1>1, <2>2, <3>2 DEF Inventories
      <3> HIDE DEF u, k
      <3>4. \A bp \in Blueprints : Carried(u, bp) = Carried(v, bp)
        <4> SUFFICES ASSUME NEW bp \in Blueprints PROVE Carried(u, bp) = Carried(v, bp) OBVIOUS
        <4>1. CountIn(u.bag, bp) = CountIn(v.bag, bp) - Amount(v.bag[k], bp) + Amount(m, bp)
          BY <1>1, <3>2, <3>3, FiniteParts, CountPut
        <4>2. Amount(v.bag[k], bp) = 0 /\ Amount(m, bp) \in Nat BY <1>1, <3>2, EmptySlot, AmountNat
        <4>3. CountIn(v.bag, bp) \in Nat /\ CountIn(v.mag, bp) \in Nat /\ CountIn(v.gear, bp) \in Nat
          BY CarriedNat
        <4> QED BY <2>3, <3>3, <4>1, <4>2, <4>3 DEF Carried
      <3>5. PICK w \in Inventories : w = Refreshed(u) BY <3>3, RefreshBump
      <3>6. /\ w.bag = u.bag /\ w.gear = v.gear /\ w.ver = v.ver /\ w.mag = off.mag
            /\ w.first = FirstEmpty(w.bag)
        BY <3>3, <3>5, RefreshBump
      <3>7. \A bp \in Blueprints : Carried(w, bp) = Carried(v, bp) BY <3>3, <3>4, <3>6 DEF Carried
      <3>8. \A i \in Bag : v.bag[i].bp \in Weapons => w.bag[i] = v.bag[i]
        <4>1. v.bag[k].bp \notin Weapons BY <3>2, EmptySlot, WeaponFacts
        <4> QED BY <3>3, <3>6, <4>1
      <3> QED BY <2>2, <3>1, <3>5, <3>6, <3>7, <3>8
    <2> QED BY <2>5, <2>6, <2>7
  <1> QED BY <1>2, <1>3

\* A room begins with loaded weapons, and what was in the kit.
LEMMA NewFacts ==
  ASSUME NEW k, k.bag \in [Bag -> Slots], k.gear \in [Gear -> Slots]
  PROVE  /\ NewInventory(k) \in Inventories
         /\ NewInventory(k).first = FirstEmpty(NewInventory(k).bag)
         /\ MagFits(NewInventory(k))
         /\ NewInventory(k).gear = k.gear
  <1> DEFINE bare == [bag |-> k.bag, gear |-> k.gear,
                      mag |-> [h \in Hands |-> Empty], first |-> 0, ver |-> 0]
  <1>1. 0 \in 0 .. BagSize /\ 0 \in 0 .. VersionMod - 1 BY SizeAssumption
  <1>2. bare \in Inventories /\ MagFits(bare) /\ bare.gear = k.gear
    BY <1>1, EmptySlot DEF Inventories, MagFits
  <1>3. "primary" \in Hands /\ "secondary" \in Hands BY DEF Hands
  <1>4. NewInventory(k) = Refreshed(Load(Load(bare, "primary"), "secondary")) BY DEF NewInventory
  <1> HIDE DEF bare
  <1>5. PICK v \in Inventories : v = Load(bare, "primary") BY <1>2, <1>3, LoadFacts
  <1>6. v.gear = k.gear /\ MagFits(v) BY <1>2, <1>3, <1>5, LoadFacts
  <1>7. PICK u \in Inventories : u = Load(v, "secondary") BY <1>3, <1>6, LoadFacts
  <1>8. u.gear = k.gear /\ MagFits(u) BY <1>3, <1>6, <1>7, LoadFacts
  <1>9. NewInventory(k) = Refreshed(u) BY <1>4, <1>5, <1>7
  <1>10. /\ Refreshed(u) \in Inventories /\ Refreshed(u).gear = u.gear /\ Refreshed(u).mag = u.mag
         /\ Refreshed(u).bag = u.bag /\ Refreshed(u).first = FirstEmpty(u.bag)
    BY RefreshBump
  <1>11. MagFits(Refreshed(u)) BY <1>8, <1>10, Zenon DEF MagFits
  <1> QED BY <1>8, <1>9, <1>10, <1>11

\* Clear.
LEMMA NothingFacts ==
  ASSUME NEW v \in Inventories
  PROVE  /\ Nothing(v) \in Inventories
         /\ Nothing(v).first = FirstEmpty(Nothing(v).bag)
         /\ MagFits(Nothing(v))
         /\ Nothing(v).ver # v.ver
         /\ Nothing(v).gear = [g \in Gear |-> Empty]
  <1> DEFINE u == [v EXCEPT !.bag = [i \in Bag |-> Empty], !.gear = [g \in Gear |-> Empty],
                            !.mag = [h \in Hands |-> Empty]]
  <1>1. /\ u \in Inventories /\ u.ver = v.ver /\ u.gear = [g \in Gear |-> Empty]
        /\ u.mag = [h \in Hands |-> Empty]
    BY EmptySlot DEF Inventories
  <1>2. Nothing(v) = Refreshed(Bumped(u)) BY DEF Nothing
  <1> HIDE DEF u
  <1>3. PICK w \in Inventories : w = Bumped(u) BY <1>1, RefreshBump
  <1>4. w.ver # v.ver /\ w.gear = u.gear /\ w.mag = u.mag BY <1>1, <1>3, RefreshBump
  <1>5. PICK x \in Inventories : x = Refreshed(w) BY RefreshBump
  <1>6. x.ver = w.ver /\ x.gear = w.gear /\ x.mag = w.mag /\ x.first = FirstEmpty(x.bag)
    BY <1>5, RefreshBump
  <1>7. MagFits(x) BY <1>1, <1>4, <1>6 DEF MagFits
  <1> QED BY <1>1, <1>2, <1>3, <1>4, <1>5, <1>6, <1>7
-----------------------------------------------------------------------------
(* The loot container.                                                     *)

\* A domain in two parts.
Joins(f, a, b, D, E) ==
    /\ D \cap E = {} /\ f \in [D \cup E -> Nat] /\ a \in [D -> Nat] /\ b \in [E -> Nat]
    /\ \A x \in D : a[x] = f[x]
    /\ \A x \in E : b[x] = f[x]

LEMMA SumJoin ==
  ASSUME NEW D, IsFiniteSet(D), NEW E, IsFiniteSet(E), NEW f, NEW a, NEW b, Joins(f, a, b, D, E)
  PROVE  SumOf(f) = SumOf(a) + SumOf(b)
  <1>0. D \cap E = {} /\ f \in [D \cup E -> Nat] BY DEF Joins
  <1>1. a \in [D -> Nat] /\ b \in [E -> Nat] BY DEF Joins
  <1>2. \A x \in D : a[x] = f[x] BY DEF Joins
  <1>3. \A x \in E : b[x] = f[x] BY DEF Joins
  <1>4. Points(f) = Points(a) \cup Points(b)
    <2>1. ASSUME NEW e \in Points(f) PROVE e \in Points(a) \cup Points(b)
      <3>0. PICK y \in D \cup E : \E n \in 1 .. f[y] : e = <<y, n>> BY <1>0, PointsPairs
      <3>1. PICK n \in 1 .. f[y] : e = <<y, n>> BY <3>0
      <3>2. CASE y \in D
        <4>1. n \in 1 .. a[y] BY <1>2, <3>2
        <4> QED BY <1>1, <3>1, <3>2, <4>1, PointsIn
      <3>3. CASE y \in E
        <4>1. n \in 1 .. b[y] BY <1>3, <3>3
        <4> QED BY <1>1, <3>1, <3>3, <4>1, PointsIn
      <3> QED BY <3>2, <3>3
    <2>2. ASSUME NEW e \in Points(a) PROVE e \in Points(f)
      <3>0. PICK y \in D : \E n \in 1 .. a[y] : e = <<y, n>> BY <1>1, PointsPairs
      <3>1. PICK n \in 1 .. a[y] : e = <<y, n>> BY <3>0
      <3>2. y \in D \cup E /\ n \in 1 .. f[y] BY <1>2, <3>1
      <3> QED BY <1>0, <3>1, <3>2, PointsIn
    <2>3. ASSUME NEW e \in Points(b) PROVE e \in Points(f)
      <3>0. PICK y \in E : \E n \in 1 .. b[y] : e = <<y, n>> BY <1>1, PointsPairs
      <3>1. PICK n \in 1 .. b[y] : e = <<y, n>> BY <3>0
      <3>2. y \in D \cup E /\ n \in 1 .. f[y] BY <1>3, <3>1
      <3> QED BY <1>0, <3>1, <3>2, PointsIn
    <2> QED BY <2>1, <2>2, <2>3
  <1>5. Points(a) \cap Points(b) = {}
    <2> SUFFICES ASSUME NEW e \in Points(a), e \in Points(b) PROVE FALSE OBVIOUS
    <2>1. PICK y \in D : \E n \in 1 .. a[y] : e = <<y, n>> BY <1>1, PointsPairs
    <2>2. PICK z \in E : \E n \in 1 .. b[z] : e = <<z, n>> BY <1>1, PointsPairs
    <2>3. y = z BY <2>1, <2>2
    <2> QED BY <1>0, <2>3
  <1>6. IsFiniteSet(Points(a)) /\ Cardinality(Points(a)) \in Nat BY <1>1, PointsFinite, FS_CardinalityType
  <1>7. IsFiniteSet(Points(b)) /\ Cardinality(Points(b)) \in Nat BY <1>1, PointsFinite, FS_CardinalityType
  <1>8. Cardinality(Points(a) \cap Points(b)) = 0 BY <1>5, FS_EmptySet
  <1>9. Cardinality(Points(a) \cup Points(b))
        = Cardinality(Points(a)) + Cardinality(Points(b)) - Cardinality(Points(a) \cap Points(b))
    BY <1>6, <1>7, FS_Union
  <1>10. SumOf(f) = Cardinality(Points(a) \cup Points(b)) BY <1>4, Zenon DEF SumOf, Points
  <1>11. SumOf(a) = Cardinality(Points(a)) /\ SumOf(b) = Cardinality(Points(b)) BY Zenon DEF SumOf, Points
  <1> QED BY <1>6, <1>7, <1>8, <1>9, <1>10, <1>11

\* The place of a member of a finite set of naturals among its members.
Rank(S, k) == Cardinality({j \in S : j <= k})

LEMMA RankFacts ==
  ASSUME NEW n \in Nat, NEW S, S \subseteq 1 .. n
  PROVE  /\ \A k \in S : Rank(S, k) \in 1 .. n
         /\ \A j, k \in S : Rank(S, j) = Rank(S, k) => j = k
  <1> DEFINE to(k) == {j \in S : j <= k}
  <1>1. IsFiniteSet(1 .. n) /\ Cardinality(1 .. n) = n BY FS_Interval
  <1>2. \A k \in S : IsFiniteSet(to(k)) /\ Cardinality(to(k)) \in Nat /\ Cardinality(to(k)) <= n
    <2> SUFFICES ASSUME NEW k \in S
                 PROVE IsFiniteSet(to(k)) /\ Cardinality(to(k)) \in Nat /\ Cardinality(to(k)) <= n
      OBVIOUS
    <2>1. to(k) \subseteq 1 .. n OBVIOUS
    <2> HIDE DEF to
    <2> QED BY <1>1, <2>1, FS_Subset, FS_CardinalityType
  <1>3. ASSUME NEW j \in S, NEW k \in S, j < k PROVE Cardinality(to(j)) < Cardinality(to(k))
    <2>1. j \in Nat /\ k \in Nat OBVIOUS
    <2>2. to(j) \subseteq to(k) /\ k \in to(k) /\ k \notin to(j)
      <3>1. \A i \in S : i \in Nat OBVIOUS
      <3>2. \A i \in S : i <= j => i <= k BY <1>3, <2>1, <3>1
      <3>3. k <= k /\ ~ (k <= j) BY <1>3, <2>1
      <3> QED BY <3>2, <3>3
    <2>3. to(j) \subseteq to(k) \ {k} BY <2>2
    <2>4. IsFiniteSet(to(k)) /\ Cardinality(to(k)) \in Nat BY <1>2
    <2> HIDE DEF to
    <2>5. IsFiniteSet(to(k) \ {k}) /\ Cardinality(to(k) \ {k}) = Cardinality(to(k)) - 1
      BY <2>2, <2>4, FS_RemoveElement
    <2>6. Cardinality(to(j)) <= Cardinality(to(k) \ {k}) BY <2>3, <2>5, FS_Subset
    <2>7. Cardinality(to(j)) \in Nat BY <1>2
    <2> QED BY <2>4, <2>5, <2>6, <2>7
  <1>4. \A k \in S : Cardinality(to(k)) # 0
    <2> SUFFICES ASSUME NEW k \in S, Cardinality(to(k)) = 0 PROVE FALSE OBVIOUS
    <2>1. k \in to(k) OBVIOUS
    <2>2. IsFiniteSet(to(k)) BY <1>2
    <2> HIDE DEF to
    <2>3. to(k) = {} BY <2>2, FS_EmptySet
    <2> QED BY <2>1, <2>3
  <1>5. \A k \in S : Rank(S, k) = Cardinality(to(k)) BY DEF Rank
  <1> HIDE DEF to
  <1>6. \A k \in S : Rank(S, k) \in 1 .. n BY <1>2, <1>4, <1>5
  <1>7. ASSUME NEW j \in S, NEW k \in S, Rank(S, j) = Rank(S, k) PROVE j = k
    <2>1. j \in Nat /\ k \in Nat OBVIOUS
    <2>2. Cardinality(to(j)) = Cardinality(to(k)) /\ Cardinality(to(j)) \in Nat BY <1>2, <1>5, <1>7
    <2>3. ~ (j < k) BY <1>3, <2>2
    <2>4. ~ (k < j) BY <1>3, <2>2
    <2> QED BY <2>1, <2>3, <2>4
  <1> QED BY <1>6, <1>7

\* What FillFrom goes through.
AllOf(v) == <<v.gear["primary"], v.mag["primary"], v.gear["secondary"],
              v.mag["secondary"], v.gear["armor"]>> \o [i \in Bag |-> v.bag[i]]

LEMMA AllOfIs ==
  ASSUME NEW v \in Inventories
  PROVE  /\ AllOf(v) \in [1 .. BagSize + 5 -> Slots]
         /\ AllOf(v)[1] = v.gear["primary"] /\ AllOf(v)[2] = v.mag["primary"]
         /\ AllOf(v)[3] = v.gear["secondary"] /\ AllOf(v)[4] = v.mag["secondary"]
         /\ AllOf(v)[5] = v.gear["armor"]
         /\ \A i \in Bag : AllOf(v)[i + 5] = v.bag[i]
  <1> DEFINE hd == <<v.gear["primary"], v.mag["primary"], v.gear["secondary"],
                     v.mag["secondary"], v.gear["armor"]>>
             tl == [i \in Bag |-> v.bag[i]]
  <1>1. BagSize \in Nat /\ Bag = 1 .. BagSize BY SizeAssumption DEF Bag
  <1>2. hd \in Seq(Slots) /\ Len(hd) = 5 BY DEF Inventories, Gear, Hands
  <1>3. tl \in Seq(Slots) /\ Len(tl) = BagSize /\ \A i \in Bag : tl[i] = v.bag[i]
    BY <1>1 DEF Inventories
  <1>4. /\ hd[1] = v.gear["primary"] /\ hd[2] = v.mag["primary"] /\ hd[3] = v.gear["secondary"]
        /\ hd[4] = v.mag["secondary"] /\ hd[5] = v.gear["armor"]
    OBVIOUS
  <1> HIDE DEF hd, tl
  <1>5. PICK s \in Seq(Slots) :
           /\ s = hd \o tl /\ Len(s) = 5 + BagSize
           /\ \A i \in 1 .. 5 + BagSize : s[i] = IF i <= 5 THEN hd[i] ELSE tl[i - 5]
    <2>1. /\ hd \o tl \in Seq(Slots) /\ Len(hd \o tl) = Len(hd) + Len(tl)
          /\ \A i \in 1 .. Len(hd) + Len(tl) : (hd \o tl)[i] = IF i <= Len(hd) THEN hd[i] ELSE tl[i - Len(hd)]
      BY <1>2, <1>3, ConcatProperties
    <2>2. Len(hd) + Len(tl) = 5 + BagSize /\ Len(hd) = 5 BY <1>1, <1>2, <1>3
    <2> QED BY <2>1, <2>2, Zenon
  <1>6. s[1] = hd[1] /\ s[2] = hd[2] /\ s[3] = hd[3] /\ s[4] = hd[4] /\ s[5] = hd[5] BY <1>1, <1>5, SMTT(30)
  <1>7. \A i \in Bag : s[i + 5] = tl[i]
    <2> SUFFICES ASSUME NEW i \in Bag PROVE s[i + 5] = tl[i] OBVIOUS
    <2>1. i + 5 \in 1 .. 5 + BagSize /\ ~ (i + 5 <= 5) /\ i + 5 - 5 = i BY <1>1
    <2>2. ASSUME NEW j \in 1 .. 5 + BagSize PROVE s[j] = IF j <= 5 THEN hd[j] ELSE tl[j - 5]
      BY <1>5
    <2>3. PICK j \in 1 .. 5 + BagSize : j = i + 5 BY <2>1
    <2>4. s[j] = tl[j - 5] BY <2>1, <2>2, <2>3
    <2>5. j - 5 = i BY <1>1, <2>3
    <2> QED BY <2>3, <2>4, <2>5, Zenon
  <1>8. AllOf(v) = s BY <1>5 DEF AllOf, hd, tl
  <1>9. s \in [1 .. BagSize + 5 -> Slots]
    <2>1. s \in [1 .. Len(s) -> Slots] OBVIOUS
    <2>2. Len(s) = BagSize + 5 BY <1>1, <1>5
    <2> QED BY <2>1, <2>2, Zenon
  <1> QED BY <1>3, <1>4, <1>6, <1>7, <1>8, <1>9

LEMMA AllOfCount ==
  ASSUME NEW v \in Inventories, NEW bp \in Blueprints
  PROVE  CountIn(AllOf(v), bp) = Carried(v, bp)
  <1> DEFINE n == BagSize + 5
             a == [x \in 1 .. n |-> Amount(AllOf(v)[x], bp)]
             G == {1, 3, 5}
             M == {2, 4}
             B == 6 .. n
             tg == [g \in Gear |-> CASE g = "primary" -> 1 [] g = "secondary" -> 3 [] OTHER -> 5]
             tm == [h \in Hands |-> IF h = "primary" THEN 2 ELSE 4]
             tb == [i \in Bag |-> i + 5]
             ag == [g \in Gear |-> Amount(v.gear[g], bp)]
             am == [h \in Hands |-> Amount(v.mag[h], bp)]
             ab == [i \in Bag |-> Amount(v.bag[i], bp)]
             xg == [x \in G |-> a[x]]
             xm == [x \in M |-> a[x]]
             xb == [x \in B |-> a[x]]
             xgm == [x \in G \cup M |-> a[x]]
  <1>1. n \in Nat /\ BagSize \in Nat /\ Bag = 1 .. BagSize BY SizeAssumption DEF Bag
  <1>2. /\ v.bag \in [Bag -> Slots] /\ v.gear \in [Gear -> Slots] /\ v.mag \in [Hands -> Slots]
    BY DEF Inventories
  <1>3. a \in [1 .. n -> Nat] /\ CountIn(AllOf(v), bp) = SumOf(a)
    <2>1. AllOf(v) \in [1 .. n -> Slots] BY AllOfIs
    <2>2. a \in [1 .. n -> Nat] BY <2>1, AmountNat
    <2>3. CountIn(AllOf(v), bp) = SumOf(a)
      <3>1. PICK D : D = 1 .. n OBVIOUS
      <3>2. AllOf(v) \in [D -> Slots] BY <2>1, <3>1
      <3>3. CountIn(AllOf(v), bp) = SumOf([x \in D |-> Amount(AllOf(v)[x], bp)]) BY <3>2, CountIs
      <3> QED BY <3>1, <3>3
    <2> QED BY <2>2, <2>3
  <1>4. ag \in [Gear -> Nat] /\ CountIn(v.gear, bp) = SumOf(ag)
    <2>1. ag \in [Gear -> Nat] BY <1>2, AmountNat
    <2>2. CountIn(v.gear, bp) = SumOf(ag) BY <1>2, CountIs
    <2> QED BY <2>1, <2>2
  <1>5. am \in [Hands -> Nat] /\ CountIn(v.mag, bp) = SumOf(am)
    <2>1. am \in [Hands -> Nat] BY <1>2, AmountNat
    <2>2. CountIn(v.mag, bp) = SumOf(am) BY <1>2, CountIs
    <2> QED BY <2>1, <2>2
  <1>6. ab \in [Bag -> Nat] /\ CountIn(v.bag, bp) = SumOf(ab)
    <2>1. ab \in [Bag -> Nat] BY <1>2, AmountNat
    <2>2. CountIn(v.bag, bp) = SumOf(ab) BY <1>2, CountIs
    <2> QED BY <2>1, <2>2
  <1>7. /\ G \cap M = {} /\ (G \cup M) \cap B = {} /\ (G \cup M) \cup B = 1 .. n
        /\ G \cup M \subseteq 1 .. n
    BY <1>1
  <1>8. IsFiniteSet(G) /\ IsFiniteSet(M) /\ IsFiniteSet(G \cup M) /\ IsFiniteSet(B)
    <2>1. IsFiniteSet(1 .. n) BY <1>1, FS_Interval
    <2>2. G \subseteq 1 .. n /\ M \subseteq 1 .. n /\ G \cup M \subseteq 1 .. n /\ B \subseteq 1 .. n
      BY <1>1, <1>7
    <2> HIDE DEF G, M, B, n
    <2> QED BY <2>1, <2>2, FS_Subset
  <1>9. SumOf(ag) = SumOf(xg)
    <2>1. tg \in [Gear -> G] /\ tg["primary"] = 1 /\ tg["secondary"] = 3 /\ tg["armor"] = 5
      BY DEF Gear, Hands
    <2>2. xg \in [G -> Nat] BY <1>3, <1>7
    <2>3. \A x \in Gear : xg[tg[x]] = ag[x]
      <3>1. xg[1] = ag["primary"] /\ xg[3] = ag["secondary"] /\ xg[5] = ag["armor"]
        <4>1. 1 \in 1 .. n /\ 3 \in 1 .. n /\ 5 \in 1 .. n BY <1>1
        <4>2. "primary" \in Gear /\ "secondary" \in Gear /\ "armor" \in Gear BY DEF Gear, Hands
        <4> QED BY <4>1, <4>2, AllOfIs
      <3> HIDE DEF xg, ag, tg
      <3> QED BY <2>1, <3>1 DEF Gear, Hands
    <2> HIDE DEF xg, ag, tg
    <2>4. \A x, y \in Gear : tg[x] = tg[y] => x = y BY <2>1 DEF Gear, Hands
    <2>5. \A z \in G : \E x \in Gear : tg[x] = z BY <2>1 DEF Gear, Hands
    <2> HIDE DEF G
    <2>6. Renames(tg, Gear, G, ag, xg) BY <1>4, <2>1, <2>2, <2>3, <2>4, <2>5 DEF Renames
    <2> QED BY <1>8, <2>6, FiniteParts, SumRename
  <1>10. SumOf(am) = SumOf(xm)
    <2>1. tm \in [Hands -> M] /\ tm["primary"] = 2 /\ tm["secondary"] = 4 BY DEF Hands
    <2>2. xm \in [M -> Nat] BY <1>3, <1>7
    <2>3. \A x \in Hands : xm[tm[x]] = am[x]
      <3>1. xm[2] = am["primary"] /\ xm[4] = am["secondary"]
        <4>1. 2 \in 1 .. n /\ 4 \in 1 .. n BY <1>1
        <4>2. "primary" \in Hands /\ "secondary" \in Hands BY DEF Hands
        <4> QED BY <4>1, <4>2, AllOfIs
      <3> HIDE DEF xm, am, tm
      <3> QED BY <2>1, <3>1 DEF Hands
    <2> HIDE DEF xm, am, tm
    <2>4. \A x, y \in Hands : tm[x] = tm[y] => x = y BY <2>1 DEF Hands
    <2>5. \A z \in M : \E x \in Hands : tm[x] = z BY <2>1 DEF Hands
    <2> HIDE DEF M
    <2>6. Renames(tm, Hands, M, am, xm) BY <1>5, <2>1, <2>2, <2>3, <2>4, <2>5 DEF Renames
    <2> QED BY <1>8, <2>6, FiniteParts, SumRename
  <1>11. SumOf(ab) = SumOf(xb)
    <2>1. tb \in [Bag -> B] /\ \A i \in Bag : tb[i] = i + 5 BY <1>1
    <2>2. xb \in [B -> Nat] BY <1>1, <1>3
    <2>3. \A i \in Bag : xb[tb[i]] = ab[i]
      <3> SUFFICES ASSUME NEW i \in Bag PROVE xb[i + 5] = ab[i] OBVIOUS
      <3>1. i + 5 \in B /\ i + 5 \in 1 .. n BY <1>1
      <3>2. AllOf(v)[i + 5] = v.bag[i] BY AllOfIs
      <3> QED BY <3>1, <3>2
    <2> HIDE DEF xb, ab, tb
    <2>4. \A x, y \in Bag : tb[x] = tb[y] => x = y BY <1>1, <2>1
    <2>5. \A z \in B : \E x \in Bag : tb[x] = z
      <3> SUFFICES ASSUME NEW z \in B PROVE \E x \in Bag : tb[x] = z OBVIOUS
      <3>1. z - 5 \in Bag /\ (z - 5) + 5 = z BY <1>1
      <3> QED BY <2>1, <3>1
    <2> HIDE DEF B
    <2>6. Renames(tb, Bag, B, ab, xb) BY <1>6, <2>1, <2>2, <2>3, <2>4, <2>5 DEF Renames
    <2> QED BY <1>8, <2>6, FiniteParts, SumRename
  <1>12. SumOf(a) = SumOf(xgm) + SumOf(xb)
    <2>0. /\ xgm \in [G \cup M -> Nat] /\ xb \in [B -> Nat]
          /\ \A x \in G \cup M : xgm[x] = a[x]
          /\ \A x \in B : xb[x] = a[x]
      BY <1>1, <1>3, <1>7
    <2>1. a \in [(G \cup M) \cup B -> Nat] BY <1>3, <1>7, Zenon
    <2> HIDE DEF a, G, M, B, xgm, xb
    <2>2. Joins(a, xgm, xb, G \cup M, B) BY <1>7, <2>1, <2>0 DEF Joins
    <2> QED BY <1>8, <2>2, SumJoin
  <1>13. SumOf(xgm) = SumOf(xg) + SumOf(xm)
    <2>1. /\ xgm \in [G \cup M -> Nat] /\ xg \in [G -> Nat] /\ xm \in [M -> Nat]
          /\ \A x \in G : xg[x] = xgm[x]
          /\ \A x \in M : xm[x] = xgm[x]
      BY <1>3, <1>7
    <2> HIDE DEF a, G, M, B, xgm, xg, xm
    <2>2. Joins(xgm, xg, xm, G, M) BY <1>7, <2>1 DEF Joins
    <2> QED BY <1>8, <2>2, SumJoin
  <1> HIDE DEF a, ag, am, ab, xg, xm, xb, xgm
  <1>14. CountIn(v.bag, bp) \in Nat /\ CountIn(v.gear, bp) \in Nat /\ CountIn(v.mag, bp) \in Nat
    BY CarriedNat
  <1> QED BY <1>3, <1>4, <1>5, <1>6, <1>9, <1>10, <1>11, <1>12, <1>13, <1>14 DEF Carried

\* FillFrom loses and doubles nothing.
LEMMA LootFacts ==
  ASSUME NEW v \in Inventories
  PROVE  /\ LootOf(v) \in Seq(Slots)
         /\ \A bp \in Blueprints : CountIn(LootOf(v), bp) = Carried(v, bp)
  <1> DEFINE n == BagSize + 5
             all == AllOf(v)
             full == {k \in 1 .. n : ~ IsEmpty(all[k])}
             put == [i \in 1 .. LootSize |->
                      IF \E k \in full : Rank(full, k) = i
                      THEN all[CHOOSE k \in full : Rank(full, k) = i] ELSE Empty]
             t == [k \in full |-> Rank(full, k)]
  <1>1. n \in Nat /\ LootSize \in Nat /\ n <= LootSize BY SizeAssumption
  <1>2. all \in [1 .. n -> Slots] BY AllOfIs
  <1>3. LootOf(v) = put
    <2>1. DOMAIN all = 1 .. n BY <1>2
    <2> QED BY <2>1, Zenon DEF LootOf, AllOf, Rank
  <1>4. full \subseteq 1 .. n OBVIOUS
  <1>5. \A k \in 1 .. n : k \in full <=> all[k] # Empty BY <1>2, SlotFacts
  <1> HIDE DEF all, full
  <1>6. /\ \A k \in full : Rank(full, k) \in 1 .. n
        /\ \A j, k \in full : Rank(full, j) = Rank(full, k) => j = k
    BY <1>1, <1>4, RankFacts
  <1> HIDE DEF n
  <1>7. t \in [full -> 1 .. LootSize] /\ \A k \in full : t[k] = Rank(full, k) BY <1>1, <1>6
  <1>8. \A k \in full : put[t[k]] = all[k]
    <2> SUFFICES ASSUME NEW k \in full PROVE put[t[k]] = all[k] OBVIOUS
    <2>1. (CHOOSE j \in full : Rank(full, j) = Rank(full, k)) = k BY <1>6
    <2>2. t[k] \in 1 .. LootSize /\ t[k] = Rank(full, k) BY <1>7
    <2> QED BY <2>1, <2>2
  <1>9. \A i \in 1 .. LootSize : put[i] # Empty => \E k \in full : t[k] = i BY <1>7
  <1>10. put \in [1 .. LootSize -> Slots]
    <2> SUFFICES ASSUME NEW i \in 1 .. LootSize PROVE put[i] \in Slots OBVIOUS
    <2>1. CASE put[i] = Empty BY <2>1, EmptySlot
    <2>2. CASE put[i] # Empty
      <3>1. PICK k \in full : t[k] = i BY <1>9, <2>2
      <3>2. put[i] = all[k] BY <1>8, <3>1
      <3> QED BY <1>2, <1>4, <3>2
    <2> QED BY <2>1, <2>2
  <1> HIDE DEF put, t
  <1>11. ASSUME NEW bp \in Blueprints PROVE CountIn(put, bp) = Carried(v, bp)
    <2> DEFINE b == [i \in 1 .. LootSize |-> Amount(put[i], bp)]
               a == [k \in 1 .. n |-> Amount(all[k], bp)]
               f == [k \in full |-> Amount(all[k], bp)]
               id == [k \in full |-> k]
    <2>1. b \in [1 .. LootSize -> Nat] /\ a \in [1 .. n -> Nat] /\ f \in [full -> Nat]
      BY <1>2, <1>4, <1>10, AmountNat
    <2>2. CountIn(put, bp) = SumOf(b)
      <3>1. PICK D : D = 1 .. LootSize OBVIOUS
      <3>2. put \in [D -> Slots] BY <1>10, <3>1
      <3>3. CountIn(put, bp) = SumOf([x \in D |-> Amount(put[x], bp)]) BY <3>2, CountIs
      <3> QED BY <3>1, <3>3
    <2>3. CountIn(all, bp) = SumOf(a)
      <3>1. PICK D : D = 1 .. n OBVIOUS
      <3>2. all \in [D -> Slots] BY <1>2, <3>1
      <3>3. CountIn(all, bp) = SumOf([x \in D |-> Amount(all[x], bp)]) BY <3>2, CountIs
      <3> QED BY <3>1, <3>3
    <2>4. IsFiniteSet(1 .. n) /\ IsFiniteSet(1 .. LootSize) BY <1>1, FS_Interval
    <2>5. IsFiniteSet(full) BY <1>4, <2>4, FS_Subset
    <2>6. \A k \in full : b[t[k]] = f[k] BY <1>7, <1>8
    <2>7. \A i \in 1 .. LootSize : b[i] # 0 => \E k \in full : t[k] = i
      <3> SUFFICES ASSUME NEW i \in 1 .. LootSize, b[i] # 0 PROVE put[i] # Empty BY <1>9
      <3>1. Amount(Empty, bp) = 0 BY EmptySlot
      <3> QED BY <3>1
    <2>8. \A j, k \in full : t[j] = t[k] => j = k BY <1>6, <1>7
    <2>9. /\ id \in [full -> 1 .. n] /\ \A k \in full : a[id[k]] = f[k]
          /\ \A j, k \in full : id[j] = id[k] => j = k
      BY <1>4
    <2>10. \A k \in 1 .. n : a[k] # 0 => \E j \in full : id[j] = k
      <3> SUFFICES ASSUME NEW k \in 1 .. n, a[k] # 0 PROVE k \in full OBVIOUS
      <3>1. Amount(Empty, bp) = 0 BY EmptySlot
      <3> QED BY <1>5, <3>1
    <2> HIDE DEF a, b, f, id
    <2>11. SumOf(f) = SumOf(b)
      <3>1. PICK E : E = 1 .. LootSize OBVIOUS
      <3>2. IsFiniteSet(E) /\ b \in [E -> Nat] /\ t \in [full -> E] BY <1>7, <2>1, <2>4, <3>1
      <3>3. \A z \in E : b[z] # 0 => \E k \in full : t[k] = z BY <2>7, <3>1
      <3>4. Renames(t, full, E, f, b) BY <2>1, <2>6, <2>8, <3>2, <3>3 DEF Renames
      <3> QED BY <2>5, <3>2, <3>4, SumRename
    <2>12. SumOf(f) = SumOf(a)
      <3>1. PICK E : E = 1 .. n OBVIOUS
      <3>2. IsFiniteSet(E) /\ a \in [E -> Nat] /\ id \in [full -> E] BY <2>1, <2>4, <2>9, <3>1
      <3>3. \A z \in E : a[z] # 0 => \E k \in full : id[k] = z BY <2>10, <3>1
      <3>4. Renames(id, full, E, f, a) BY <2>1, <2>9, <3>2, <3>3 DEF Renames
      <3> QED BY <2>5, <3>2, <3>4, SumRename
    <2>13. CountIn(all, bp) = Carried(v, bp) BY AllOfCount DEF all
    <2> QED BY <2>2, <2>3, <2>11, <2>12, <2>13
  <1>12. put \in Seq(Slots) BY <1>1, <1>10
  <1> QED BY <1>3, <1>11, <1>12
-----------------------------------------------------------------------------
(* Containers, and moves between slots.                                    *)

Boxes == [Chests \cup Players -> [slots : Seq(Slots), ver : 0 .. VersionMod - 1]]

Content(v, bs, c, r) == IF r[1] = "bag" THEN v.bag[r[2]] ELSE bs[c].slots[r[2]]
Places(bs, c) == ({"bag"} \X Bag) \cup (IF c = NoBox THEN {} ELSE {"box"} \X DOMAIN bs[c].slots)

InBoxes(bs, bp) == SumOf([b \in Chests \cup Players |-> CountIn(bs[b].slots, bp)])
Held(v, bs, bp) == Carried(v, bp) + InBoxes(bs, bp)

LEMMA SlotsFinite ==
  ASSUME NEW s \in Seq(Slots)
  PROVE  /\ IsFiniteSet(DOMAIN s) /\ s \in [DOMAIN s -> Slots]
         /\ \A bp : CountIn(s, bp) \in Nat
  <1>1. Len(s) \in Nat /\ DOMAIN s = 1 .. Len(s) OBVIOUS
  <1>2. IsFiniteSet(DOMAIN s) BY <1>1, FS_Interval
  <1>3. s \in [DOMAIN s -> Slots] OBVIOUS
  <1>4. PICK D : D = DOMAIN s OBVIOUS
  <1>5. \A bp : CountIn(s, bp) \in Nat BY <1>2, <1>3, <1>4, CountNat
  <1> QED BY <1>2, <1>3, <1>5

LEMMA SlotsPut ==
  ASSUME NEW s \in Seq(Slots), NEW i \in DOMAIN s, NEW x \in Slots
  PROVE  /\ [s EXCEPT ![i] = x] \in Seq(Slots)
         /\ DOMAIN [s EXCEPT ![i] = x] = DOMAIN s
         /\ [s EXCEPT ![i] = x][i] = x
         /\ \A j \in DOMAIN s \ {i} : [s EXCEPT ![i] = x][j] = s[j]
         /\ \A bp : CountIn([s EXCEPT ![i] = x], bp) = CountIn(s, bp) - Amount(s[i], bp) + Amount(x, bp)
  <1>1. PICK u : u = [s EXCEPT ![i] = x] OBVIOUS
  <1>2. /\ u \in Seq(Slots) /\ DOMAIN u = DOMAIN s /\ u[i] = x
        /\ \A j \in DOMAIN s \ {i} : u[j] = s[j]
    BY <1>1
  <1>3. PICK D : D = DOMAIN s OBVIOUS
  <1>4. IsFiniteSet(D) /\ s \in [D -> Slots] /\ u \in [D -> Slots] BY <1>2, <1>3, SlotsFinite
  <1>5. ASSUME NEW bp PROVE CountIn(u, bp) = CountIn(s, bp) - Amount(s[i], bp) + Amount(u[i], bp)
    BY <1>2, <1>3, <1>4, CountPut
  <1> QED BY <1>1, <1>2, <1>5

LEMMA FiniteBoxes == IsFiniteSet(Chests \cup Players)
  BY BoxAssumption, FS_Union

LEMMA InBoxesNat ==
  ASSUME NEW bs \in Boxes, NEW bp
  PROVE  InBoxes(bs, bp) \in Nat
  <1> DEFINE f == [b \in Chests \cup Players |-> CountIn(bs[b].slots, bp)]
  <1>1. \A b \in Chests \cup Players : bs[b].slots \in Seq(Slots) BY DEF Boxes
  <1>2. f \in [Chests \cup Players -> Nat] BY <1>1, SlotsFinite
  <1>3. InBoxes(bs, bp) = SumOf(f) BY DEF InBoxes
  <1> HIDE DEF f
  <1> QED BY <1>2, <1>3, FiniteBoxes, PointsFinite

\* The slots of one container change.
LEMMA InBoxesPut ==
  ASSUME NEW bs \in Boxes, NEW cs \in Boxes, NEW c \in Chests \cup Players, NEW bp,
         \A b \in (Chests \cup Players) \ {c} : cs[b].slots = bs[b].slots
  PROVE  InBoxes(cs, bp) = InBoxes(bs, bp) - CountIn(bs[c].slots, bp) + CountIn(cs[c].slots, bp)
  <1> DEFINE f == [b \in Chests \cup Players |-> CountIn(bs[b].slots, bp)]
             g == [b \in Chests \cup Players |-> CountIn(cs[b].slots, bp)]
  <1>1. \A b \in Chests \cup Players : bs[b].slots \in Seq(Slots) /\ cs[b].slots \in Seq(Slots)
    BY DEF Boxes
  <1>2. f \in [Chests \cup Players -> Nat] /\ g \in [Chests \cup Players -> Nat] BY <1>1, SlotsFinite
  <1>3. \A b \in (Chests \cup Players) \ {c} : g[b] = f[b] OBVIOUS
  <1>4. f[c] = CountIn(bs[c].slots, bp) /\ g[c] = CountIn(cs[c].slots, bp) OBVIOUS
  <1>5. InBoxes(bs, bp) = SumOf(f) /\ InBoxes(cs, bp) = SumOf(g) BY DEF InBoxes
  <1> HIDE DEF f, g
  <1>6. SumOf(g) = SumOf(f) - f[c] + g[c] BY <1>2, <1>3, FiniteBoxes, SumUpdate
  <1> QED BY <1>4, <1>5, <1>6

LEMMA PlaceCases ==
  ASSUME NEW bs \in Boxes, NEW c \in Chests \cup Players \cup {NoBox}, NEW r \in Places(bs, c)
  PROVE  \/ r[1] = "bag" /\ r[2] \in Bag /\ r = <<"bag", r[2]>>
         \/ /\ r[1] = "box" /\ c \in Chests \cup Players /\ r[2] \in DOMAIN bs[c].slots
            /\ r = <<"box", r[2]>>
  BY DEF Places

LEMMA ContentSlot ==
  ASSUME NEW v \in Inventories, NEW bs \in Boxes, NEW c \in Chests \cup Players \cup {NoBox},
         NEW r \in Places(bs, c)
  PROVE  Content(v, bs, c, r) \in Slots
  <1>1. CASE r[1] = "bag" /\ r[2] \in Bag BY <1>1 DEF Content, Inventories
  <1>2. CASE r[1] = "box" /\ c \in Chests \cup Players /\ r[2] \in DOMAIN bs[c].slots
    <2>1. bs[c].slots \in Seq(Slots) BY <1>2 DEF Boxes
    <2>2. bs[c].slots[r[2]] \in Slots BY <1>2, <2>1
    <2> QED BY <1>2, <2>2 DEF Content
  <1> QED BY <1>1, <1>2, PlaceCases

LEMMA HeldNat ==
  ASSUME NEW v \in Inventories, NEW bs \in Boxes, NEW bp
  PROVE  Held(v, bs, bp) \in Nat
  BY CarriedNat, InBoxesNat DEF Held

\* Slot r of the bag or the open container gets another content.
LEMMA PutOne ==
  ASSUME NEW v \in Inventories, NEW bs \in Boxes, NEW c \in Chests \cup Players \cup {NoBox},
         NEW r \in Places(bs, c), NEW s \in Slots
  PROVE  /\ PutBag(v, r, s) \in Inventories
         /\ PutBag(v, r, s).gear = v.gear /\ PutBag(v, r, s).mag = v.mag
         /\ PutBag(v, r, s).first = v.first /\ PutBag(v, r, s).ver = v.ver
         /\ PutBox(bs, c, r, s) \in Boxes
         /\ \A b \in Chests \cup Players :
              /\ PutBox(bs, c, r, s)[b].ver = bs[b].ver
              /\ DOMAIN PutBox(bs, c, r, s)[b].slots = DOMAIN bs[b].slots
              /\ b # c => PutBox(bs, c, r, s)[b].slots = bs[b].slots
         /\ r[1] # "box" => PutBox(bs, c, r, s) = bs
         /\ r[1] # "bag" => PutBag(v, r, s) = v
         /\ Places(PutBox(bs, c, r, s), c) = Places(bs, c)
         /\ \A q \in Places(bs, c) : q # r =>
              Content(PutBag(v, r, s), PutBox(bs, c, r, s), c, q) = Content(v, bs, c, q)
         /\ \A bp : Held(PutBag(v, r, s), PutBox(bs, c, r, s), bp)
                    = Held(v, bs, bp) - Amount(Content(v, bs, c, r), bp) + Amount(s, bp)
  <1>1. CASE r[1] = "bag" /\ r[2] \in Bag /\ r = <<"bag", r[2]>>
    <2>1. PutBox(bs, c, r, s) = bs BY <1>1 DEF PutBox
    <2>2. PICK i \in Bag : i = r[2] BY <1>1
    <2>3. PICK u : u = PutBag(v, r, s) OBVIOUS
    <2>4. /\ u \in Inventories /\ u.gear = v.gear /\ u.mag = v.mag /\ u.first = v.first /\ u.ver = v.ver
          /\ u.bag \in [Bag -> Slots] /\ v.bag \in [Bag -> Slots]
          /\ u.bag[i] = s /\ \A j \in Bag \ {i} : u.bag[j] = v.bag[j]
      BY <1>1, <2>2, <2>3 DEF PutBag, Inventories
    <2>5. \A q \in Places(bs, c) : q # r => Content(u, bs, c, q) = Content(v, bs, c, q)
      <3> SUFFICES ASSUME NEW q \in Places(bs, c), q # r
                   PROVE  Content(u, bs, c, q) = Content(v, bs, c, q)
        OBVIOUS
      <3>1. CASE q[1] = "bag" /\ q[2] \in Bag /\ q = <<"bag", q[2]>>
        <4>1. q[2] # i BY <1>1, <2>2, <3>1
        <4> QED BY <2>4, <3>1, <4>1 DEF Content
      <3>2. CASE q[1] = "box" BY <3>2 DEF Content
      <3> QED BY <3>1, <3>2, PlaceCases
    <2>6. ASSUME NEW bp
          PROVE  Held(u, bs, bp) = Held(v, bs, bp) - Amount(Content(v, bs, c, r), bp) + Amount(s, bp)
      <3>1. CountIn(u.bag, bp) = CountIn(v.bag, bp) - Amount(v.bag[i], bp) + Amount(u.bag[i], bp)
        BY <2>4, FiniteParts, CountPut
      <3>2. Content(v, bs, c, r) = v.bag[i] BY <1>1, <2>2 DEF Content
      <3>3. Amount(v.bag[i], bp) \in Nat /\ Amount(s, bp) \in Nat BY <2>4, AmountNat
      <3>4. /\ CountIn(v.bag, bp) \in Nat /\ CountIn(v.gear, bp) \in Nat /\ CountIn(v.mag, bp) \in Nat
            /\ InBoxes(bs, bp) \in Nat
        BY CarriedNat, InBoxesNat
      <3> QED BY <2>4, <3>1, <3>2, <3>3, <3>4 DEF Held, Carried
    <2> QED BY <1>1, <2>1, <2>3, <2>4, <2>5, <2>6
  <1>2. CASE /\ r[1] = "box" /\ c \in Chests \cup Players /\ r[2] \in DOMAIN bs[c].slots
             /\ r = <<"box", r[2]>>
    <2>1. PutBag(v, r, s) = v BY <1>2 DEF PutBag
    <2>2. PICK i \in DOMAIN bs[c].slots : i = r[2] BY <1>2
    <2>3. PICK cs, t : cs = PutBox(bs, c, r, s) /\ t = [bs[c].slots EXCEPT ![i] = s] OBVIOUS
    <2>4. bs[c].slots \in Seq(Slots) BY <1>2 DEF Boxes
    <2>5. /\ t \in Seq(Slots) /\ DOMAIN t = DOMAIN bs[c].slots /\ t[i] = s
          /\ \A j \in DOMAIN bs[c].slots \ {i} : t[j] = bs[c].slots[j]
          /\ \A bp : CountIn(t, bp) = CountIn(bs[c].slots, bp) - Amount(bs[c].slots[i], bp) + Amount(s, bp)
      BY <2>3, <2>4, SlotsPut, SMTT(30)
    <2>6. cs = [bs EXCEPT ![c] = [slots |-> t, ver |-> bs[c].ver]]
      <3>1. cs = [bs EXCEPT ![c].slots[i] = s] BY <1>2, <2>2, <2>3, Zenon DEF PutBox
      <3>2. bs[c] \in [slots : Seq(Slots), ver : 0 .. VersionMod - 1] BY <1>2 DEF Boxes
      <3>3. [bs[c] EXCEPT !.slots[i] = s] = [slots |-> t, ver |-> bs[c].ver]
        <4>1. PICK q, n : q = bs[c].slots /\ n = bs[c].ver OBVIOUS
        <4>2. bs[c] = [slots |-> q, ver |-> n] BY <3>2, <4>1
        <4>3. [[slots |-> q, ver |-> n] EXCEPT !.slots[i] = s] = [slots |-> [q EXCEPT ![i] = s], ver |-> n]
          OBVIOUS
        <4> QED BY <2>3, <4>1, <4>2, <4>3
      <3>4. [bs EXCEPT ![c].slots[i] = s] = [bs EXCEPT ![c] = [bs[c] EXCEPT !.slots[i] = s]] OBVIOUS
      <3> QED BY <3>1, <3>3, <3>4
    <2>7. /\ cs \in Boxes /\ cs[c].slots = t
          /\ \A b \in Chests \cup Players : cs[b].ver = bs[b].ver /\ (b # c => cs[b].slots = bs[b].slots)
      BY <1>2, <2>5, <2>6 DEF Boxes
    <2>8. \A b \in Chests \cup Players : DOMAIN cs[b].slots = DOMAIN bs[b].slots BY <2>5, <2>7
    <2>9. Places(cs, c) = Places(bs, c) BY <1>2, <2>5, <2>7 DEF Places
    <2>10. \A q \in Places(bs, c) : q # r => Content(v, cs, c, q) = Content(v, bs, c, q)
      <3> SUFFICES ASSUME NEW q \in Places(bs, c), q # r
                   PROVE  Content(v, cs, c, q) = Content(v, bs, c, q)
        OBVIOUS
      <3>1. CASE q[1] = "bag" BY <3>1 DEF Content
      <3>2. CASE q[1] = "box" /\ q[2] \in DOMAIN bs[c].slots /\ q = <<"box", q[2]>>
        <4>1. q[2] # i BY <1>2, <2>2, <3>2
        <4> QED BY <2>5, <2>7, <3>2, <4>1 DEF Content
      <3> QED BY <3>1, <3>2, PlaceCases
    <2>11. ASSUME NEW bp
           PROVE  Held(v, cs, bp) = Held(v, bs, bp) - Amount(Content(v, bs, c, r), bp) + Amount(s, bp)
      <3>1. InBoxes(cs, bp) = InBoxes(bs, bp) - CountIn(bs[c].slots, bp) + CountIn(t, bp)
        BY <1>2, <2>7, InBoxesPut
      <3>2. Content(v, bs, c, r) = bs[c].slots[i] BY <1>2, <2>2 DEF Content
      <3>3. bs[c].slots[i] \in Slots BY <2>2, <2>4
      <3>4. Amount(bs[c].slots[i], bp) \in Nat /\ Amount(s, bp) \in Nat BY <3>3, AmountNat
      <3>5. Carried(v, bp) \in Nat /\ InBoxes(bs, bp) \in Nat /\ CountIn(bs[c].slots, bp) \in Nat
        BY <2>4, CarriedNat, InBoxesNat, SlotsFinite
      <3>6. CountIn(t, bp) = CountIn(bs[c].slots, bp) - Amount(bs[c].slots[i], bp) + Amount(s, bp) BY <2>5
      <3> QED BY <3>1, <3>2, <3>4, <3>5, <3>6 DEF Held
    <2> QED BY <1>2, <2>1, <2>3, <2>7, <2>8, <2>9, <2>10, <2>11
  <1> QED BY <1>1, <1>2, PlaceCases

LEMMA BumpFacts ==
  ASSUME NEW bs \in Boxes, NEW c, NEW used \in BOOLEAN, used => c \in Chests \cup Players
  PROVE  /\ BumpBox(bs, c, used) \in Boxes
         /\ \A b \in Chests \cup Players : BumpBox(bs, c, used)[b].slots = bs[b].slots
         /\ used => BumpBox(bs, c, used)[c].ver # bs[c].ver
         /\ \A v, bp : Held(v, BumpBox(bs, c, used), bp) = Held(v, bs, bp)
  <1>1. PICK cs : cs = BumpBox(bs, c, used) OBVIOUS
  <1>2. /\ cs \in Boxes /\ \A b \in Chests \cup Players : cs[b].slots = bs[b].slots
        /\ used => cs[c].ver # bs[c].ver
    <2>1. CASE ~ used BY <1>1, <2>1 DEF BumpBox
    <2>2. CASE used
      <3>1. c \in Chests \cup Players /\ bs[c] \in [slots : Seq(Slots), ver : 0 .. VersionMod - 1]
        BY <2>2 DEF Boxes
      <3>2. Next1(bs[c].ver) \in 0 .. VersionMod - 1 /\ Next1(bs[c].ver) # bs[c].ver
        BY <3>1, NextVersion
      <3>3. cs = [bs EXCEPT ![c].ver = Next1(bs[c].ver)] BY <1>1, <2>2 DEF BumpBox
      <3> QED BY <2>2, <3>1, <3>2, <3>3 DEF Boxes
    <2> QED BY <2>1, <2>2
  <1>3. ASSUME NEW v, NEW bp PROVE Held(v, cs, bp) = Held(v, bs, bp)
    <2>1. [b \in Chests \cup Players |-> CountIn(cs[b].slots, bp)]
          = [b \in Chests \cup Players |-> CountIn(bs[b].slots, bp)]
      BY <1>2
    <2> QED BY <2>1 DEF Held, InBoxes
  <1> QED BY <1>1, <1>2, <1>3

\* What v holds is in its bag, gear and magazines.
LEMMA HeldSame ==
  ASSUME NEW v, NEW u, u.bag = v.bag, u.gear = v.gear, u.mag = v.mag
  PROVE  \A bs, bp : Held(u, bs, bp) = Held(v, bs, bp)
  BY DEF Held, Carried

LEMMA MagSame ==
  ASSUME NEW v, NEW u, u.gear = v.gear, u.mag = v.mag, MagFits(v)
  PROVE  MagFits(u)
  BY DEF MagFits

LEMMA FinishFacts ==
  ASSUME NEW v \in Inventories
  PROVE  /\ Bumped(Refreshed(v)) \in Inventories
         /\ Bumped(Refreshed(v)).bag = v.bag /\ Bumped(Refreshed(v)).gear = v.gear
         /\ Bumped(Refreshed(v)).mag = v.mag
         /\ Bumped(Refreshed(v)).first = FirstEmpty(v.bag)
         /\ Bumped(Refreshed(v)).ver # v.ver
  <1>1. PICK u \in Inventories : u = Refreshed(v) BY RefreshBump
  <1>2. u.bag = v.bag /\ u.gear = v.gear /\ u.mag = v.mag /\ u.ver = v.ver /\ u.first = FirstEmpty(v.bag)
    BY <1>1, RefreshBump
  <1>3. PICK w \in Inventories : w = Bumped(u) BY RefreshBump
  <1>4. w.bag = u.bag /\ w.gear = u.gear /\ w.mag = u.mag /\ w.ver # u.ver /\ w.first = u.first
    BY <1>3, RefreshBump
  <1> QED BY <1>1, <1>2, <1>3, <1>4
-----------------------------------------------------------------------------
(* A request of player p makes his inventory v and the containers bs.      *)

Sound(u, as, v, bs) ==
    /\ v \in Inventories /\ bs \in Boxes
    /\ v.first = FirstEmpty(v.bag) /\ MagFits(v)
    /\ \A b \in Chests \cup Players : DOMAIN bs[b].slots = DOMAIN as[b].slots
    /\ \A bp \in Weapons \cup Armors : Held(v, bs, bp) = Held(u, as, bp)
    /\ \A a \in Ammo :
         \/ Held(v, bs, a) = Held(u, as, a)
         \/ /\ Held(v, bs, a) < Held(u, as, a)
            /\ \A i \in Bag : ~ IsEmpty(v.bag[i]) /\ v.bag[i].bp # a
         \/ v = [u EXCEPT !.mag = v.mag] /\ bs = as /\ Held(v, bs, a) = Held(u, as, a) - 1
    /\ (v.bag # u.bag \/ v.gear # u.gear) => v.ver # u.ver
    /\ \A b \in Chests \cup Players : bs[b].slots # as[b].slots => bs[b].ver # as[b].ver

\* Swapping, splitting and merging keep what the two slots hold together.
LEMMA MovesKeep ==
  ASSUME NEW a \in Slots, NEW b \in Slots, a # Empty,
         NEW m \in {Swap(a, b)} \cup {Get(a, b, q) : q \in 1 .. a.qty}
                                \cup {Merge(a, b, q) : q \in 1 .. a.qty},
         m.ok
  PROVE  /\ m.a \in Slots /\ m.b \in Slots
         /\ \A bp \in Blueprints : Amount(m.a, bp) + Amount(m.b, bp) = Amount(a, bp) + Amount(b, bp)
  <1>1. /\ a.qty \in Nat /\ b.qty \in Nat /\ a.bp \in Blueprints
        /\ \A bp : Amount(a, bp) \in Nat /\ Amount(b, bp) \in Nat
    BY SlotFacts, AmountNat
  <1>2. CASE m = Swap(a, b)
    <2>1. m.a = b /\ m.b = a BY <1>2 DEF Swap
    <2> QED BY <1>1, <2>1
  <1>3. CASE \E q \in 1 .. a.qty : m = Get(a, b, q)
    <2>1. PICK q \in 1 .. a.qty : m = Get(a, b, q) BY <1>3
    <2>2. b = Empty /\ m.a = Less(a, q) /\ m.b = [bp |-> a.bp, qty |-> q] BY <2>1, SlotFacts DEF Get
    <2>3. q \in Nat /\ q # 0 /\ q \in 0 .. a.qty BY <1>1
    <2>4. m.b \in Slots BY <1>1, <2>2, <2>3, NewSlot
    <2>5. /\ m.a \in Slots
          /\ \A bp \in Blueprints : Amount(m.a, bp) = Amount(a, bp) - (IF a.bp = bp THEN q ELSE 0)
      BY <2>2, <2>3, LessSlot
    <2>6. \A bp \in Blueprints : Amount(m.b, bp) = IF a.bp = bp THEN q ELSE 0 BY <2>2 DEF Amount
    <2>7. \A bp \in Blueprints : Amount(b, bp) = 0 BY <2>2, EmptySlot
    <2> QED BY <1>1, <2>3, <2>4, <2>5, <2>6, <2>7
  <1>4. CASE \E q \in 1 .. a.qty : m = Merge(a, b, q)
    <2>1. PICK q \in 1 .. a.qty : m = Merge(a, b, q) BY <1>4
    <2>2. a.bp = b.bp /\ m.a = Less(a, q) /\ m.b = [bp |-> b.bp, qty |-> b.qty + q]
      BY <2>1 DEF Merge
    <2>3. q \in Nat /\ q # 0 /\ q \in 0 .. a.qty /\ b.qty + q \in Nat /\ b.qty + q # 0 BY <1>1
    <2>4. m.b \in Slots BY <1>1, <2>2, <2>3, NewSlot
    <2>5. /\ m.a \in Slots
          /\ \A bp \in Blueprints : Amount(m.a, bp) = Amount(a, bp) - (IF a.bp = bp THEN q ELSE 0)
      BY <2>2, <2>3, LessSlot
    <2>6. \A bp \in Blueprints : Amount(m.b, bp) = Amount(b, bp) + (IF a.bp = bp THEN q ELSE 0)
      BY <1>1, <2>2, <2>3 DEF Amount
    <2> QED BY <1>1, <2>3, <2>4, <2>5, <2>6
  <1> QED BY <1>2, <1>3, <1>4


\* The slots from and to get the contents s and t.
Both(v, bs, c, from, to, s, t, u, cs) ==
    /\ u \in Inventories /\ u.gear = v.gear /\ u.mag = v.mag
    /\ u.first = v.first /\ u.ver = v.ver
    /\ cs \in Boxes
    /\ \A b \in Chests \cup Players :
         /\ cs[b].ver = bs[b].ver
         /\ DOMAIN cs[b].slots = DOMAIN bs[b].slots
         /\ b # c => cs[b].slots = bs[b].slots
    /\ (from[1] # "box" /\ to[1] # "box") => cs = bs
    /\ (from[1] # "bag" /\ to[1] # "bag") => u = v
    /\ \A bp : Held(u, cs, bp)
               = Held(v, bs, bp) - Amount(Content(v, bs, c, from), bp) + Amount(s, bp)
                 - Amount(Content(v, bs, c, to), bp) + Amount(t, bp)

LEMMA PutTwo ==
  ASSUME NEW v \in Inventories, NEW bs \in Boxes, NEW c \in Chests \cup Players \cup {NoBox},
         NEW from \in Places(bs, c), NEW to \in Places(bs, c), from # to,
         NEW s \in Slots, NEW t \in Slots
  PROVE  Both(v, bs, c, from, to, s, t, PutBag(PutBag(v, from, s), to, t),
              PutBox(PutBox(bs, c, from, s), c, to, t))
  <1>1. PICK v1, b1 : v1 = PutBag(v, from, s) /\ b1 = PutBox(bs, c, from, s) OBVIOUS
  <1>2. PICK u, cs : u = PutBag(v1, to, t) /\ cs = PutBox(b1, c, to, t) OBVIOUS
  <1>3. /\ v1 \in Inventories /\ v1.gear = v.gear /\ v1.mag = v.mag /\ v1.first = v.first /\ v1.ver = v.ver
        /\ b1 \in Boxes
        /\ \A b \in Chests \cup Players :
             /\ b1[b].ver = bs[b].ver /\ DOMAIN b1[b].slots = DOMAIN bs[b].slots
             /\ b # c => b1[b].slots = bs[b].slots
        /\ from[1] # "box" => b1 = bs
        /\ from[1] # "bag" => v1 = v
        /\ Places(b1, c) = Places(bs, c)
        /\ Content(v1, b1, c, to) = Content(v, bs, c, to)
    BY <1>1, PutOne, SMTT(30)
  <1>4. \A bp : Held(v1, b1, bp) = Held(v, bs, bp) - Amount(Content(v, bs, c, from), bp) + Amount(s, bp)
    BY <1>1, PutOne
  <1>5. to \in Places(b1, c) BY <1>3
  <1>6. /\ u \in Inventories /\ u.gear = v1.gear /\ u.mag = v1.mag /\ u.first = v1.first /\ u.ver = v1.ver
        /\ cs \in Boxes
        /\ \A b \in Chests \cup Players :
             /\ cs[b].ver = b1[b].ver /\ DOMAIN cs[b].slots = DOMAIN b1[b].slots
             /\ b # c => cs[b].slots = b1[b].slots
        /\ to[1] # "box" => cs = b1
        /\ to[1] # "bag" => u = v1
    <2>1. v1 \in Inventories /\ b1 \in Boxes BY <1>3
    <2> QED BY <1>2, <1>5, <2>1, PutOne, SMTT(30)
  <1>7. \A bp : Held(u, cs, bp) = Held(v1, b1, bp) - Amount(Content(v1, b1, c, to), bp) + Amount(t, bp)
    BY <1>2, <1>3, <1>5, PutOne
  <1>8. \A bp : Held(u, cs, bp)
                = Held(v, bs, bp) - Amount(Content(v, bs, c, from), bp) + Amount(s, bp)
                  - Amount(Content(v, bs, c, to), bp) + Amount(t, bp)
    <2> SUFFICES ASSUME NEW bp
                 PROVE  Held(u, cs, bp)
                        = Held(v, bs, bp) - Amount(Content(v, bs, c, from), bp) + Amount(s, bp)
                          - Amount(Content(v, bs, c, to), bp) + Amount(t, bp)
      OBVIOUS
    <2>1. Content(v1, b1, c, to) = Content(v, bs, c, to) BY <1>3
    <2>2. Held(v1, b1, bp) = Held(v, bs, bp) - Amount(Content(v, bs, c, from), bp) + Amount(s, bp)
      BY <1>4
    <2>3. Held(u, cs, bp) = Held(v1, b1, bp) - Amount(Content(v1, b1, c, to), bp) + Amount(t, bp)
      BY <1>7
    <2>4. Content(v, bs, c, from) \in Slots /\ Content(v, bs, c, to) \in Slots BY ContentSlot
    <2>5. /\ Amount(Content(v, bs, c, from), bp) \in Nat /\ Amount(Content(v, bs, c, to), bp) \in Nat
          /\ Amount(s, bp) \in Nat /\ Amount(t, bp) \in Nat /\ Held(v, bs, bp) \in Nat
      BY <2>4, AmountNat, HeldNat
    <2> QED BY <2>1, <2>2, <2>3, <2>5
  <1>9. Both(v, bs, c, from, to, s, t, u, cs)
    <2>1. u.gear = v.gear /\ u.mag = v.mag /\ u.first = v.first /\ u.ver = v.ver BY <1>3, <1>6
    <2> QED BY <1>3, <1>6, <1>8, <2>1 DEF Both
  <1> QED BY <1>1, <1>2, <1>9

\* Equipment g and slot r trade places.
Traded(v, bs, c, r, g, w, cs) ==
    /\ Content(v, bs, c, r) \in Slots
    /\ w \in Inventories /\ w.mag = v.mag /\ w.ver = v.ver
    /\ w.gear = [v.gear EXCEPT ![g] = Content(v, bs, c, r)]
    /\ \A i \in Bag : w.bag[i] \in {v.bag[i], v.gear[g]}
    /\ cs \in Boxes
    /\ \A b \in Chests \cup Players :
         /\ cs[b].ver = bs[b].ver
         /\ DOMAIN cs[b].slots = DOMAIN bs[b].slots
         /\ b # c => cs[b].slots = bs[b].slots
    /\ r[1] # "box" => cs = bs
    /\ \A bp : Held(w, cs, bp) = Held(v, bs, bp)

LEMMA SwapGear ==
  ASSUME NEW v \in Inventories, NEW bs \in Boxes, NEW c \in Chests \cup Players \cup {NoBox},
         NEW r \in Places(bs, c), NEW g \in Gear
  PROVE  Traded(v, bs, c, r, g, PutBag([v EXCEPT !.gear[g] = Content(v, bs, c, r)], r, v.gear[g]),
                PutBox(bs, c, r, v.gear[g]))
  <1>1. PICK s \in Slots : s = Content(v, bs, c, r) BY ContentSlot
  <1>2. PICK w0 : w0 = [v EXCEPT !.gear[g] = s] OBVIOUS
  <1>3. /\ w0 \in Inventories /\ w0.gear = [v.gear EXCEPT ![g] = s] /\ w0.bag = v.bag /\ w0.mag = v.mag
        /\ w0.ver = v.ver /\ w0.first = v.first
        /\ v.gear \in [Gear -> Slots] /\ w0.gear \in [Gear -> Slots] /\ v.gear[g] \in Slots
        /\ v.bag \in [Bag -> Slots]
    BY <1>2 DEF Inventories
  <1>4. PICK w, cs : w = PutBag(w0, r, v.gear[g]) /\ cs = PutBox(bs, c, r, v.gear[g]) OBVIOUS
  <1>5. /\ w \in Inventories /\ w.mag = w0.mag /\ w.ver = w0.ver /\ w.gear = w0.gear
        /\ cs \in Boxes
        /\ \A b \in Chests \cup Players :
                  /\ cs[b].ver = bs[b].ver
                  /\ DOMAIN cs[b].slots = DOMAIN bs[b].slots
                  /\ b # c => cs[b].slots = bs[b].slots
        /\ r[1] # "box" => cs = bs
    BY <1>3, <1>4, PutOne
  <1>6. \A i \in Bag : w.bag[i] \in {v.bag[i], v.gear[g]}
    <2>1. CASE r[1] = "bag"
      <3>1. w = [w0 EXCEPT !.bag[r[2]] = v.gear[g]] BY <1>4, <2>1 DEF PutBag
      <3> QED BY <1>3, <3>1 DEF Inventories
    <2>2. CASE r[1] # "bag" BY <1>3, <1>4, <2>2 DEF PutBag
    <2> QED BY <2>1, <2>2
  <1>7. ASSUME NEW bp PROVE Held(w, cs, bp) = Held(v, bs, bp)
    <2>1. Content(w0, bs, c, r) = s BY <1>1, <1>3 DEF Content
    <2>2. Held(w, cs, bp) = Held(w0, bs, bp) - Amount(s, bp) + Amount(v.gear[g], bp)
      BY <1>3, <1>4, <2>1, PutOne
    <2>3. CountIn(w0.gear, bp) = CountIn(v.gear, bp) - Amount(v.gear[g], bp) + Amount(s, bp)
      <3>1. w0.gear[g] = s /\ \A h \in Gear \ {g} : w0.gear[h] = v.gear[h] BY <1>3
      <3>2. PICK ng \in [Gear -> Slots] : ng = w0.gear BY <1>3
      <3>3. CountIn(ng, bp) = CountIn(v.gear, bp) - Amount(v.gear[g], bp) + Amount(ng[g], bp)
        BY <1>3, <3>1, <3>2, FiniteParts, CountPut
      <3> QED BY <3>1, <3>2, <3>3
    <2>4. Amount(s, bp) \in Nat /\ Amount(v.gear[g], bp) \in Nat BY <1>3, AmountNat
    <2>5. /\ CountIn(v.bag, bp) \in Nat /\ CountIn(v.gear, bp) \in Nat /\ CountIn(v.mag, bp) \in Nat
          /\ InBoxes(bs, bp) \in Nat
      BY CarriedNat, InBoxesNat
    <2>6. Held(w0, bs, bp) = Held(v, bs, bp) - Amount(v.gear[g], bp) + Amount(s, bp)
      BY <1>3, <2>3, <2>4, <2>5 DEF Held, Carried
    <2>7. Held(v, bs, bp) \in Nat BY HeldNat
    <2> QED BY <2>2, <2>4, <2>6, <2>7
  <1>8. Traded(v, bs, c, r, g, w, cs)
    <2>1. w.mag = v.mag /\ w.ver = v.ver /\ w.gear = [v.gear EXCEPT ![g] = s] BY <1>3, <1>5
    <2> QED BY <1>1, <1>5, <1>6, <1>7, <2>1 DEF Traded
  <1> QED BY <1>1, <1>2, <1>4, <1>8
-----------------------------------------------------------------------------
(* The requests.                                                           *)

Typed ==
    /\ status \in [Players -> {"loading", "in", "dead", "home", "gone"}]
    /\ inv \in [Players -> Inventories]
    /\ obj \in [Players -> [Hands -> Blueprints \cup {NoBp}]]
    /\ hand \in [Players -> Hands]
    /\ box \in Boxes
    /\ open \in [Players -> Chests \cup Players \cup {NoBox}]
    /\ home \in [Players -> [bag : [Bag -> Slots], gear : [Gear -> Slots]]]
    /\ owned \in [Blueprints -> Nat]

\* The cached index is right and magazines are in their weapons.
Loaded == \A p \in Players : inv[p].first = FirstEmpty(inv[p].bag) /\ MagFits(inv[p])

LEMMA RefsAt ==
  ASSUME NEW p \in Players, NEW v, NEW r
  PROVE  Refs(p) = Places(box, open[p]) /\ At(v, open[p], r) = Content(v, box, open[p], r)
  BY DEF Refs, Places, At, Content

\* RequestInteractContainerObject.
LEMMA InteractSound ==
  ASSUME Typed, Loaded, NEW p \in Players, NEW from \in Refs(p), NEW to \in Refs(p),
         Interact(p, from, to)
  PROVE  /\ inv' = [inv EXCEPT ![p] = inv'[p]]
         /\ Sound(inv[p], box, inv'[p], box')
         /\ inv'[p].gear = inv[p].gear
  <1> DEFINE its == "box" \in {from[1], to[1]}
             mine == "bag" \in {from[1], to[1]}
  <1>1. PICK u \in Inventories, c \in Chests \cup Players \cup {NoBox}, as \in Boxes :
           u = inv[p] /\ c = open[p] /\ as = box
    BY DEF Typed
  <1>2. from \in Places(as, c) /\ to \in Places(as, c) BY <1>1, RefsAt
  <1>3. PICK a \in Slots, b \in Slots : a = Content(u, as, c, from) /\ b = Content(u, as, c, to)
    BY <1>2, ContentSlot
  <1>4. At(inv[p], open[p], from) = a /\ At(inv[p], open[p], to) = b BY <1>1, <1>3, RefsAt
  <1>5. from # to /\ a # Empty BY <1>4, SlotFacts DEF Interact
  <1>6. PICK m \in {Swap(a, b)} \cup {Get(a, b, q) : q \in 1 .. a.qty}
                                \cup {Merge(a, b, q) : q \in 1 .. a.qty} :
           /\ m.ok
           /\ inv' = [inv EXCEPT ![p] = IF mine THEN Bumped(Refreshed(PutBag(PutBag(u, from, m.a), to, m.b)))
                                                ELSE PutBag(PutBag(u, from, m.a), to, m.b)]
           /\ box' = BumpBox(PutBox(PutBox(as, c, from, m.a), c, to, m.b), c, its)
    BY <1>1, <1>4, ZenonT(60) DEF Interact
  <1>7. /\ m.a \in Slots /\ m.b \in Slots
        /\ \A bp \in Blueprints : Amount(m.a, bp) + Amount(m.b, bp) = Amount(a, bp) + Amount(b, bp)
    BY <1>5, <1>6, MovesKeep
  <1>8. PICK v, cs : /\ v = PutBag(PutBag(u, from, m.a), to, m.b)
                     /\ cs = PutBox(PutBox(as, c, from, m.a), c, to, m.b)
    OBVIOUS
  <1>9. /\ v \in Inventories /\ v.gear = u.gear /\ v.mag = u.mag /\ v.first = u.first /\ v.ver = u.ver
        /\ cs \in Boxes
        /\ \A d \in Chests \cup Players :
                  /\ cs[d].ver = as[d].ver
                  /\ DOMAIN cs[d].slots = DOMAIN as[d].slots
                  /\ d # c => cs[d].slots = as[d].slots
        /\ (from[1] # "box" /\ to[1] # "box") => cs = as
        /\ (from[1] # "bag" /\ to[1] # "bag") => v = u
        /\ \A bp : Held(v, cs, bp) = Held(u, as, bp) - Amount(a, bp) + Amount(m.a, bp)
                                     - Amount(b, bp) + Amount(m.b, bp)
    <2>1. PICK s \in Slots, t \in Slots : s = m.a /\ t = m.b BY <1>7
    <2>2. v = PutBag(PutBag(u, from, s), to, t) /\ cs = PutBox(PutBox(as, c, from, s), c, to, t)
      BY <1>8, <2>1
    <2>3. Both(u, as, c, from, to, s, t, v, cs) BY <1>2, <1>5, <2>2, PutTwo
    <2>4. \A bp : Held(v, cs, bp) = Held(u, as, bp) - Amount(a, bp) + Amount(s, bp)
                                    - Amount(b, bp) + Amount(t, bp)
      BY <1>3, <2>3 DEF Both
    <2> QED BY <2>1, <2>3, <2>4 DEF Both
  <1>10. \A bp \in Blueprints : Held(v, cs, bp) = Held(u, as, bp)
    <2> SUFFICES ASSUME NEW bp \in Blueprints PROVE Held(v, cs, bp) = Held(u, as, bp) OBVIOUS
    <2>1. /\ Amount(a, bp) \in Nat /\ Amount(b, bp) \in Nat /\ Amount(m.a, bp) \in Nat
          /\ Amount(m.b, bp) \in Nat /\ Held(u, as, bp) \in Nat
      BY <1>7, AmountNat, HeldNat
    <2>2. Amount(m.a, bp) + Amount(m.b, bp) = Amount(a, bp) + Amount(b, bp) BY <1>7
    <2>3. Held(v, cs, bp) = Held(u, as, bp) - Amount(a, bp) + Amount(m.a, bp)
                            - Amount(b, bp) + Amount(m.b, bp)
      BY <1>9
    <2>4. PICK i \in Nat, j \in Nat, k \in Nat, l \in Nat, n \in Nat :
             /\ i = Amount(a, bp) /\ j = Amount(b, bp) /\ k = Amount(m.a, bp) /\ l = Amount(m.b, bp)
             /\ n = Held(u, as, bp)
      BY <2>1
    <2>5. k + l = i + j /\ Held(v, cs, bp) = n - i + k - j + l BY <2>2, <2>3, <2>4
    <2>6. n - i + k - j + l = n BY <2>5
    <2> QED BY <2>4, <2>5, <2>6
  <1>11. its => c \in Chests \cup Players BY <1>1, <1>2, PlaceCases
  <1>12. PICK bs \in Boxes :
            /\ bs = BumpBox(cs, c, its)
            /\ \A d \in Chests \cup Players : bs[d].slots = cs[d].slots
            /\ its => bs[c].ver # cs[c].ver
            /\ \A w, bp : Held(w, bs, bp) = Held(w, cs, bp)
    <2>1. its \in BOOLEAN OBVIOUS
    <2> HIDE DEF its
    <2> QED BY <1>9, <1>11, <2>1, BumpFacts
  <1>13. box' = bs BY <1>6, <1>8, <1>12
  <1>14. u.first = FirstEmpty(u.bag) /\ MagFits(u) BY <1>1 DEF Loaded
  <1>15. PICK w \in Inventories :
            /\ w = IF mine THEN Bumped(Refreshed(v)) ELSE v
            /\ w.bag = v.bag /\ w.gear = v.gear /\ w.mag = v.mag
            /\ w.first = FirstEmpty(w.bag)
            /\ (w.bag # u.bag \/ w.gear # u.gear) => w.ver # u.ver
    <2>1. CASE mine BY <1>9, <2>1, FinishFacts
    <2>2. CASE ~ mine
      <3>1. v = u BY <1>9, <2>2
      <3> QED BY <1>9, <1>14, <2>2, <3>1
    <2> QED BY <2>1, <2>2
  <1>16. inv' = [inv EXCEPT ![p] = w] /\ inv'[p] = w
    <2>1. inv' = [inv EXCEPT ![p] = w] BY <1>6, <1>8, <1>15
    <2> QED BY <2>1 DEF Typed
  <1>17. MagFits(w) /\ \A bp : Held(w, bs, bp) = Held(v, cs, bp)
    <2>1. MagFits(w) BY <1>9, <1>14, <1>15, MagSame
    <2>2. \A bp : Held(w, bs, bp) = Held(v, bs, bp) BY <1>15, HeldSame
    <2> QED BY <1>12, <2>1, <2>2
  <1>18. \A d \in Chests \cup Players : bs[d].slots # as[d].slots => bs[d].ver # as[d].ver
    <2> SUFFICES ASSUME NEW d \in Chests \cup Players, bs[d].slots # as[d].slots
                 PROVE  bs[d].ver # as[d].ver
      OBVIOUS
    <2>1. d = c /\ its BY <1>9, <1>12
    <2> QED BY <1>9, <1>12, <2>1
  <1>19. \A d \in Chests \cup Players : DOMAIN bs[d].slots = DOMAIN as[d].slots BY <1>9, <1>12
  <1>20. Weapons \cup Armors \subseteq Blueprints /\ Ammo \subseteq Blueprints BY DEF Blueprints
  <1>21. Sound(u, as, w, bs) BY <1>10, <1>15, <1>17, <1>18, <1>19, <1>20 DEF Sound
  <1> QED BY <1>1, <1>9, <1>13, <1>15, <1>16, <1>21

\* Of the containers as only the slots of c changed, and only if r is there.
OnlyIn(as, cs, c, r) ==
    /\ cs \in Boxes
    /\ \A b \in Chests \cup Players :
         /\ cs[b].ver = as[b].ver
         /\ DOMAIN cs[b].slots = DOMAIN as[b].slots
         /\ b # c => cs[b].slots = as[b].slots
    /\ r[1] # "box" => cs = as

\* The versions of the containers bs tell what changed since as; they hold
\* what cs hold.
Told(as, cs, bs) ==
    /\ bs \in Boxes
    /\ \A b \in Chests \cup Players :
         /\ DOMAIN bs[b].slots = DOMAIN as[b].slots
         /\ bs[b].slots # as[b].slots => bs[b].ver # as[b].ver
    /\ \A v, bp : Held(v, bs, bp) = Held(v, cs, bp)

\* Equipped bumps the version of the container it used.
LEMMA EquippedBox ==
  ASSUME NEW as \in Boxes, NEW c \in Chests \cup Players \cup {NoBox}, NEW r \in Places(as, c),
         NEW cs, OnlyIn(as, cs, c, r), NEW used \in BOOLEAN, used <=> r[1] = "box"
  PROVE  Told(as, cs, BumpBox(cs, c, used))
  <1> USE DEF OnlyIn
  <1>2. PICK bs : bs = BumpBox(cs, c, used) OBVIOUS
  <1>1. r[1] = "box" => c \in Chests \cup Players BY PlaceCases
  <1>3. /\ bs \in Boxes
        /\ \A b \in Chests \cup Players : bs[b].slots = cs[b].slots
        /\ used => bs[c].ver # cs[c].ver
        /\ \A v, bp : Held(v, bs, bp) = Held(v, cs, bp)
    BY <1>1, <1>2, BumpFacts
  <1>4. ASSUME NEW b \in Chests \cup Players
        PROVE  /\ DOMAIN bs[b].slots = DOMAIN as[b].slots
               /\ bs[b].slots # as[b].slots => bs[b].ver # as[b].ver
    <2>1. bs[b].slots = cs[b].slots BY <1>3
    <2>2. CASE b # c BY <2>1, <2>2
    <2>3. CASE b = c /\ used BY <1>3, <2>1, <2>3
    <2>4. CASE ~ used BY <2>1, <2>4
    <2> QED BY <2>2, <2>3, <2>4
  <1> QED BY <1>2, <1>3, <1>4, ZenonT(60) DEF Told

\* The end of RequestEquipItem, from facts about the inventory.
LEMMA EquipEnd ==
  ASSUME Typed, Loaded, NEW p \in Players, NEW r \in Refs(p), NEW w \in Inventories, NEW cs,
         Equipped(p, w, cs, r), OnlyIn(box, cs, open[p], r),
         w.first = FirstEmpty(w.bag), MagFits(w), w.ver # inv[p].ver,
         \A bp \in Weapons \cup Armors : Held(w, cs, bp) = Held(inv[p], box, bp),
         \A a \in Ammo : \/ Held(w, cs, a) = Held(inv[p], box, a)
                         \/ /\ Held(w, cs, a) < Held(inv[p], box, a)
                            /\ \A i \in Bag : ~ IsEmpty(w.bag[i]) /\ w.bag[i].bp # a
  PROVE  /\ inv' = [inv EXCEPT ![p] = w] /\ inv'[p] = w
         /\ Sound(inv[p], box, w, box')
  <1>1. inv' = [inv EXCEPT ![p] = w] /\ inv'[p] = w BY DEF Equipped, Typed
  <1>2. box' = BumpBox(cs, open[p], r[1] = "box") BY DEF Equipped
  <1>3. PICK c \in Chests \cup Players \cup {NoBox}, as \in Boxes : c = open[p] /\ as = box BY DEF Typed
  <1>4. r \in Places(as, c) BY <1>3, RefsAt
  <1>5. PICK bs : bs = BumpBox(cs, c, r[1] = "box") OBVIOUS
  <1>6. Told(as, cs, bs)
    <2>1. OnlyIn(as, cs, c, r) BY <1>3
    <2>2. PICK used \in BOOLEAN : used <=> r[1] = "box" OBVIOUS
    <2>3. bs = BumpBox(cs, c, used) BY <1>5, <2>2 DEF BumpBox
    <2>4. Told(as, cs, BumpBox(cs, c, used)) BY <1>4, <2>1, <2>2, EquippedBox
    <2> QED BY <2>3, <2>4
  <1>7. Sound(inv[p], as, w, bs)
    <2>1. /\ \A bp \in Weapons \cup Armors : Held(w, bs, bp) = Held(inv[p], as, bp)
          /\ \A a \in Ammo : \/ Held(w, bs, a) = Held(inv[p], as, a)
                             \/ /\ Held(w, bs, a) < Held(inv[p], as, a)
                                /\ \A i \in Bag : ~ IsEmpty(w.bag[i]) /\ w.bag[i].bp # a
      BY <1>3, <1>6 DEF Told
    <2> QED BY <1>6, <2>1 DEF Sound, Told
  <1> QED BY <1>1, <1>2, <1>3, <1>5, <1>7

\* EquipWeaponFromSlot.
LEMMA EquipSound ==
  ASSUME Typed, Loaded, NEW p \in Players, NEW h \in Hands, NEW r \in Refs(p), EquipWeapon(p, h, r)
  PROVE  /\ inv' = [inv EXCEPT ![p] = inv'[p]]
         /\ Sound(inv[p], box, inv'[p], box')
         /\ \E s \in Slots : s.bp \in Weapons /\ inv'[p].gear = [inv[p].gear EXCEPT ![h] = s]
         /\ Equipped(p, inv'[p], PutBox(box, open[p], r, inv[p].gear[h]), r)
  <1>1. PICK u \in Inventories, c \in Chests \cup Players \cup {NoBox}, as \in Boxes :
           u = inv[p] /\ c = open[p] /\ as = box
    BY DEF Typed
  <1>2. r \in Places(as, c) BY <1>1, RefsAt
  <1>3. u.first = FirstEmpty(u.bag) /\ MagFits(u) BY <1>1 DEF Loaded
  <1>4. u.mag[h] # Empty => u.mag[h].bp \in Ammo /\ u.gear[h].bp \in Weapons
    BY <1>3, WeaponFacts DEF MagFits
  <1>5. PICK v : v = Unload(u, h) OBVIOUS
  <1>6. /\ v \in Inventories /\ v.gear = u.gear /\ v.ver = u.ver /\ v.mag[h] = Empty
        /\ \A g \in Hands \ {h} : v.mag[g] = u.mag[g]
        /\ \A i \in Bag : u.bag[i].bp \in Weapons => v.bag[i] = u.bag[i]
        /\ \A bp \in Blueprints :
              \/ Carried(v, bp) = Carried(u, bp)
              \/ /\ bp \in Ammo /\ u.mag[h] # Empty
                 /\ Carried(v, bp) < Carried(u, bp)
                 /\ v.bag = u.bag
                 /\ \A i \in Bag : u.bag[i] # Empty /\ u.bag[i].bp # bp
    BY <1>3, <1>4, <1>5, UnloadFacts
  <1>7. h \in Gear BY DEF Gear
  <1>8. PICK s : s = Content(v, as, c, r) OBVIOUS
  <1>9. PICK w0, cs : /\ w0 = PutBag([v EXCEPT !.gear[h] = s], r, v.gear[h])
                      /\ cs = PutBox(as, c, r, v.gear[h])
    OBVIOUS
  <1>10. Traded(v, as, c, r, h, w0, cs) BY <1>2, <1>6, <1>7, <1>8, <1>9, SwapGear
  <1>11. PICK w \in Inventories :
            /\ w = Bumped(Refreshed(w0))
            /\ w.bag = w0.bag /\ w.gear = w0.gear /\ w.mag = w0.mag
            /\ w.first = FirstEmpty(w0.bag) /\ w.ver # w0.ver
    BY <1>10, FinishFacts DEF Traded
  <1>12. At(v, open[p], r) = s /\ At(inv[p], open[p], r) = Content(u, as, c, r)
    BY <1>1, <1>8, RefsAt
  <1>13. Equipped(p, w, cs, r) /\ Content(u, as, c, r).bp \in Weapons
    BY <1>1, <1>5, <1>9, <1>11, <1>12 DEF EquipWeapon
  <1>14. s \in Slots /\ s.bp \in Weapons
    <2>1. s \in Slots BY <1>8, <1>10 DEF Traded
    <2>2. s = Content(u, as, c, r)
      <3>1. CASE r[1] = "bag" /\ r[2] \in Bag
        <4>1. u.bag[r[2]].bp \in Weapons BY <1>13, <3>1 DEF Content
        <4> QED BY <1>6, <1>8, <3>1, <4>1 DEF Content
      <3>2. CASE r[1] = "box" BY <1>8, <3>2 DEF Content
      <3> QED BY <1>2, <3>1, <3>2, PlaceCases
    <2> QED BY <1>13, <2>1, <2>2
  <1>15. w.gear = [u.gear EXCEPT ![h] = s] BY <1>6, <1>8, <1>10, <1>11 DEF Traded
  <1>16. MagFits(w)
    <2> SUFFICES ASSUME NEW g \in Hands, w.mag[g] # Empty
                 PROVE /\ w.gear[g].bp \in Weapons
                       /\ w.mag[g].bp = AmmoType[w.gear[g].bp]
                       /\ w.mag[g].qty <= MaxAmmo[w.gear[g].bp]
      BY DEF MagFits
    <2>1. w.mag = v.mag BY <1>10, <1>11 DEF Traded
    <2>2. g # h /\ w.mag[g] = u.mag[g] BY <1>6, <2>1
    <2>3. w.gear[g] = u.gear[g] BY <1>15, <2>2, <1>7 DEF Inventories, Gear
    <2> QED BY <1>3, <2>2, <2>3 DEF MagFits
  <1>17. ASSUME NEW bp \in Blueprints
         PROVE  \/ Held(w, cs, bp) = Held(u, as, bp)
                \/ /\ bp \in Ammo /\ Held(w, cs, bp) < Held(u, as, bp)
                   /\ \A i \in Bag : ~ IsEmpty(w.bag[i]) /\ w.bag[i].bp # bp
    <2>1. Held(w, cs, bp) = Held(v, as, bp)
      <3>1. Held(w, cs, bp) = Held(w0, cs, bp) BY <1>11, HeldSame
      <3> QED BY <1>10, <3>1 DEF Traded
    <2>2. Carried(v, bp) \in Nat /\ Carried(u, bp) \in Nat /\ InBoxes(as, bp) \in Nat
      BY <1>6, CarriedNat, InBoxesNat
    <2>3. CASE Carried(v, bp) = Carried(u, bp) BY <2>1, <2>3 DEF Held
    <2>4. CASE Carried(v, bp) # Carried(u, bp)
      <3>1. /\ bp \in Ammo /\ u.mag[h] # Empty /\ Carried(v, bp) < Carried(u, bp) /\ v.bag = u.bag
            /\ \A i \in Bag : u.bag[i] # Empty /\ u.bag[i].bp # bp
        BY <1>6, <2>4
      <3>2. Held(w, cs, bp) < Held(u, as, bp)
        <4>1. /\ Held(w, cs, bp) = Carried(v, bp) + InBoxes(as, bp)
              /\ Held(u, as, bp) = Carried(u, bp) + InBoxes(as, bp)
          BY <2>1 DEF Held
        <4>2. PICK i \in Nat, j \in Nat, k \in Nat :
                 i = Carried(v, bp) /\ j = Carried(u, bp) /\ k = InBoxes(as, bp)
          BY <2>2
        <4>3. i < j BY <3>1, <4>2
        <4>4. i + k < j + k BY <4>3
        <4> QED BY <4>1, <4>2, <4>4
      <3>3. u.gear[h].bp \in Weapons /\ u.gear[h].bp # bp /\ u.gear[h] # Empty
        <4>1. u.gear[h].bp \in Weapons BY <1>4, <3>1
        <4> QED BY <3>1, <4>1, WeaponFacts, EmptySlot, BlueprintAssumption
      <3>4. ASSUME NEW i \in Bag PROVE ~ IsEmpty(w.bag[i]) /\ w.bag[i].bp # bp
        <4>1. w.bag[i] \in {u.bag[i], u.gear[h]} BY <1>6, <1>10, <1>11, <3>1 DEF Traded
        <4>2. w.bag[i] \in Slots BY DEF Inventories
        <4>3. w.bag[i] # Empty /\ w.bag[i].bp # bp BY <3>1, <3>3, <4>1
        <4> QED BY <4>2, <4>3, SlotFacts
      <3> QED BY <3>1, <3>2, <3>4
    <2> QED BY <2>3, <2>4
  <1>18. /\ \A bp \in Weapons \cup Armors : Held(w, cs, bp) = Held(u, as, bp)
         /\ \A a \in Ammo : \/ Held(w, cs, a) = Held(u, as, a)
                            \/ /\ Held(w, cs, a) < Held(u, as, a)
                               /\ \A i \in Bag : ~ IsEmpty(w.bag[i]) /\ w.bag[i].bp # a
    BY <1>17, BlueprintAssumption DEF Blueprints
  <1>19. w.first = FirstEmpty(w.bag) /\ w.ver # u.ver BY <1>6, <1>10, <1>11 DEF Traded
  <1>20. OnlyIn(box, cs, open[p], r) BY <1>1, <1>10 DEF Traded, OnlyIn
  <1>21. /\ inv' = [inv EXCEPT ![p] = w] /\ inv'[p] = w
         /\ Sound(inv[p], box, w, box')
    BY <1>1, <1>13, <1>16, <1>18, <1>19, <1>20, EquipEnd
  <1>22. cs = PutBox(box, open[p], r, inv[p].gear[h]) BY <1>1, <1>6, <1>9
  <1> QED BY <1>1, <1>13, <1>14, <1>15, <1>21, <1>22

\* UnequipWeaponToSlot.
LEMMA UnequipSound ==
  ASSUME Typed, Loaded, NEW p \in Players, NEW h \in Hands, NEW r \in Refs(p), UnequipWeapon(p, h, r)
  PROVE  /\ inv' = [inv EXCEPT ![p] = inv'[p]]
         /\ Sound(inv[p], box, inv'[p], box')
         /\ \E s \in Slots : s.bp \in Weapons \cup {NoBp} /\ inv'[p].gear = [inv[p].gear EXCEPT ![h] = s]
         /\ Equipped(p, inv'[p], PutBox(box, open[p], r, inv[p].gear[h]), r)
  <1>1. PICK u \in Inventories, c \in Chests \cup Players \cup {NoBox}, as \in Boxes :
           u = inv[p] /\ c = open[p] /\ as = box
    BY DEF Typed
  <1>2. r \in Places(as, c) BY <1>1, RefsAt
  <1>3. u.first = FirstEmpty(u.bag) /\ MagFits(u) BY <1>1 DEF Loaded
  <1>4. u.mag[h] # Empty => u.mag[h].bp \in Ammo BY <1>3, WeaponFacts DEF MagFits
  <1>5. h \in Gear BY DEF Gear
  <1>6. PICK s \in Slots : s = Content(u, as, c, r) BY <1>2, ContentSlot
  <1>7. PICK w0, cs : /\ w0 = PutBag([u EXCEPT !.gear[h] = s], r, u.gear[h])
                      /\ cs = PutBox(as, c, r, u.gear[h])
    OBVIOUS
  <1>8. Traded(u, as, c, r, h, w0, cs) BY <1>2, <1>5, <1>6, <1>7, SwapGear
  <1>9. PICK w1 \in Inventories :
           /\ w1 = Refreshed(w0) /\ w1.bag = w0.bag /\ w1.gear = w0.gear /\ w1.mag = w0.mag
           /\ w1.ver = w0.ver /\ w1.first = FirstEmpty(w1.bag)
    BY <1>8, RefreshBump DEF Traded
  <1>10. w1.mag = u.mag /\ w1.ver = u.ver /\ w1.gear = [u.gear EXCEPT ![h] = s]
    BY <1>6, <1>8, <1>9 DEF Traded
  <1>11. PICK w2 : w2 = Unload(w1, h) OBVIOUS
  <1>12. /\ w2 \in Inventories /\ w2.first = FirstEmpty(w2.bag)
         /\ w2.gear = w1.gear /\ w2.ver = w1.ver /\ w2.mag[h] = Empty
         /\ \A g \in Hands \ {h} : w2.mag[g] = w1.mag[g]
         /\ \A bp \in Blueprints :
              \/ Carried(w2, bp) = Carried(w1, bp)
              \/ /\ bp \in Ammo
                 /\ Carried(w2, bp) < Carried(w1, bp)
                 /\ w2.bag = w1.bag
                 /\ \A i \in Bag : w1.bag[i] # Empty /\ w1.bag[i].bp # bp
    BY <1>4, <1>9, <1>10, <1>11, UnloadFacts
  <1>13. PICK w \in Inventories :
            /\ w = Bumped(w2) /\ w.bag = w2.bag /\ w.gear = w2.gear /\ w.mag = w2.mag
            /\ w.first = w2.first /\ w.ver # w2.ver
    BY <1>12, RefreshBump
  <1>14. At(inv[p], open[p], r) = s BY <1>1, <1>6, RefsAt
  <1>15. Equipped(p, w, cs, r) /\ (IsEmpty(s) \/ s.bp \in Weapons)
    BY <1>1, <1>7, <1>9, <1>11, <1>13, <1>14 DEF UnequipWeapon
  <1>16. s.bp \in Weapons \cup {NoBp} BY <1>15, SlotFacts
  <1>17. MagFits(w)
    <2> SUFFICES ASSUME NEW g \in Hands, w.mag[g] # Empty
                 PROVE /\ w.gear[g].bp \in Weapons
                       /\ w.mag[g].bp = AmmoType[w.gear[g].bp]
                       /\ w.mag[g].qty <= MaxAmmo[w.gear[g].bp]
      BY DEF MagFits
    <2>1. g # h /\ w.mag[g] = u.mag[g] BY <1>10, <1>12, <1>13
    <2>2. w.gear[g] = u.gear[g] BY <1>10, <1>12, <1>13, <2>1, <1>5 DEF Inventories, Gear
    <2> QED BY <1>3, <2>1, <2>2 DEF MagFits
  <1>18. ASSUME NEW bp \in Blueprints
         PROVE  \/ Held(w, cs, bp) = Held(u, as, bp)
                \/ /\ bp \in Ammo /\ Held(w, cs, bp) < Held(u, as, bp)
                   /\ \A i \in Bag : ~ IsEmpty(w.bag[i]) /\ w.bag[i].bp # bp
    <2>1. Held(w1, cs, bp) = Held(u, as, bp)
      <3>1. Held(w1, cs, bp) = Held(w0, cs, bp) BY <1>9, HeldSame
      <3> QED BY <1>8, <3>1 DEF Traded
    <2>2. Held(w, cs, bp) = Held(w2, cs, bp) BY <1>13, HeldSame
    <2>3. PICK i \in Nat, j \in Nat, k \in Nat :
             i = Carried(w2, bp) /\ j = Carried(w1, bp) /\ k = InBoxes(cs, bp)
      BY <1>8, <1>12, CarriedNat, InBoxesNat DEF Traded
    <2>4. Held(w, cs, bp) = i + k /\ Held(u, as, bp) = j + k BY <2>1, <2>2, <2>3 DEF Held
    <2>5. CASE i = j BY <2>4, <2>5
    <2>6. CASE i # j
      <3>1. /\ bp \in Ammo /\ i < j /\ w2.bag = w1.bag
            /\ \A n \in Bag : w1.bag[n] # Empty /\ w1.bag[n].bp # bp
        BY <1>12, <2>3, <2>6
      <3>2. i + k < j + k BY <3>1
      <3>3. ASSUME NEW n \in Bag PROVE ~ IsEmpty(w.bag[n]) /\ w.bag[n].bp # bp
        <4>1. w.bag[n] = w1.bag[n] BY <1>13, <3>1
        <4>2. w.bag[n] \in Slots BY DEF Inventories
        <4> QED BY <3>1, <4>1, <4>2, SlotFacts
      <3> QED BY <2>4, <3>1, <3>2, <3>3
    <2> QED BY <2>5, <2>6
  <1>19. /\ \A bp \in Weapons \cup Armors : Held(w, cs, bp) = Held(u, as, bp)
         /\ \A a \in Ammo : \/ Held(w, cs, a) = Held(u, as, a)
                            \/ /\ Held(w, cs, a) < Held(u, as, a)
                               /\ \A i \in Bag : ~ IsEmpty(w.bag[i]) /\ w.bag[i].bp # a
    BY <1>18, BlueprintAssumption DEF Blueprints
  <1>20. w.first = FirstEmpty(w.bag) /\ w.ver # u.ver BY <1>10, <1>12, <1>13
  <1>21. OnlyIn(box, cs, open[p], r) BY <1>1, <1>8 DEF Traded, OnlyIn
  <1>22. /\ inv' = [inv EXCEPT ![p] = w] /\ inv'[p] = w
         /\ Sound(inv[p], box, w, box')
    BY <1>1, <1>15, <1>17, <1>19, <1>20, <1>21, EquipEnd
  <1>23. w.gear = [u.gear EXCEPT ![h] = s] BY <1>10, <1>12, <1>13
  <1> QED BY <1>1, <1>7, <1>15, <1>16, <1>22, <1>23

\* EquipArmorFromSlot and UnequipArmorToSlot.
LEMMA ArmorSound ==
  ASSUME Typed, Loaded, NEW p \in Players, NEW r \in Refs(p), ChangeArmor(p, r)
  PROVE  /\ inv' = [inv EXCEPT ![p] = inv'[p]]
         /\ Sound(inv[p], box, inv'[p], box')
         /\ \E s \in Slots : s.bp \in Armors \cup {NoBp} /\ inv'[p].gear = [inv[p].gear EXCEPT !["armor"] = s]
         /\ Equipped(p, inv'[p], PutBox(box, open[p], r, inv[p].gear["armor"]), r)
  <1>1. PICK u \in Inventories, c \in Chests \cup Players \cup {NoBox}, as \in Boxes :
           u = inv[p] /\ c = open[p] /\ as = box
    BY DEF Typed
  <1>2. r \in Places(as, c) BY <1>1, RefsAt
  <1>3. MagFits(u) BY <1>1 DEF Loaded
  <1>4. PICK g \in Gear : g = "armor" BY DEF Gear
  <1>5. PICK s \in Slots : s = Content(u, as, c, r) BY <1>2, ContentSlot
  <1>6. PICK w0, cs : /\ w0 = PutBag([u EXCEPT !.gear[g] = s], r, u.gear[g])
                      /\ cs = PutBox(as, c, r, u.gear[g])
    OBVIOUS
  <1>7. Traded(u, as, c, r, g, w0, cs) BY <1>2, <1>5, <1>6, SwapGear
  <1>8. PICK w \in Inventories :
            /\ w = Bumped(Refreshed(w0))
            /\ w.bag = w0.bag /\ w.gear = w0.gear /\ w.mag = w0.mag
            /\ w.first = FirstEmpty(w0.bag) /\ w.ver # w0.ver
    BY <1>7, FinishFacts DEF Traded
  <1>9. w.mag = u.mag /\ w.ver # u.ver /\ w.gear = [u.gear EXCEPT ![g] = s] /\ w.first = FirstEmpty(w.bag)
    BY <1>5, <1>7, <1>8 DEF Traded
  <1>10. At(inv[p], open[p], r) = s BY <1>1, <1>5, RefsAt
  <1>11. Equipped(p, w, cs, r) /\ (IsEmpty(s) \/ s.bp \in Armors)
    BY <1>1, <1>4, <1>6, <1>8, <1>10 DEF ChangeArmor
  <1>12. s.bp \in Armors \cup {NoBp} BY <1>11, SlotFacts
  <1>13. MagFits(w)
    <2>1. \A h \in Hands : w.gear[h] = u.gear[h] BY <1>4, <1>9 DEF Inventories, Gear, Hands
    <2> QED BY <1>3, <1>9, <2>1 DEF MagFits
  <1>14. \A bp : Held(w, cs, bp) = Held(u, as, bp)
    <2>1. \A bp : Held(w, cs, bp) = Held(w0, cs, bp) BY <1>8, HeldSame
    <2> QED BY <1>7, <2>1 DEF Traded
  <1>15. OnlyIn(box, cs, open[p], r) BY <1>1, <1>7 DEF Traded, OnlyIn
  <1>16. /\ inv' = [inv EXCEPT ![p] = w] /\ inv'[p] = w
         /\ Sound(inv[p], box, w, box')
    BY <1>1, <1>9, <1>11, <1>13, <1>14, <1>15, EquipEnd
  <1> QED BY <1>1, <1>4, <1>6, <1>9, <1>11, <1>12, <1>16

\* RequestWeaponFire.
LEMMA FireSound ==
  ASSUME Typed, Loaded, NEW p \in Players, WeaponFire(p)
  PROVE  /\ inv' = [inv EXCEPT ![p] = inv'[p]]
         /\ Sound(inv[p], box, inv'[p], box')
         /\ inv'[p].gear = inv[p].gear
  <1>1. PICK u \in Inventories, h \in Hands, as \in Boxes : u = inv[p] /\ h = hand[p] /\ as = box
    BY DEF Typed
  <1>2. u.first = FirstEmpty(u.bag) /\ MagFits(u) BY <1>1 DEF Loaded
  <1>3. u.mag \in [Hands -> Slots] /\ u.mag[h] \in Slots BY DEF Inventories
  <1>4. PICK m : m = Less(u.mag[h], 1) OBVIOUS
  <1>5. PICK w : w = [u EXCEPT !.mag[h] = m] OBVIOUS
  <1>6. inv' = [inv EXCEPT ![p] = w] /\ inv'[p] = w
    <2>1. inv' = [inv EXCEPT ![p].mag[h] = m] BY <1>1, <1>4 DEF WeaponFire
    <2>2. inv' = [inv EXCEPT ![p] = w] BY <1>1, <1>5, <2>1
    <2> QED BY <2>2 DEF Typed
  <1>7. box' = as BY <1>1 DEF WeaponFire
  <1>8. u.mag[h].qty \in Nat /\ 1 \in 0 .. u.mag[h].qty /\ u.mag[h] # Empty
    <2>1. u.mag[h].qty \in Nat BY <1>3, SlotFacts
    <2>2. u.mag[h].qty > 0 BY <1>1 DEF WeaponFire
    <2>3. 1 \in 0 .. u.mag[h].qty BY <2>1, <2>2
    <2> QED BY <2>1, <2>2, <2>3, EmptySlot
  <1>9. /\ m \in Slots
        /\ \A bp \in Blueprints : Amount(m, bp) = Amount(u.mag[h], bp) - (IF u.mag[h].bp = bp THEN 1 ELSE 0)
        /\ m # Empty => m.bp = u.mag[h].bp /\ m.qty = u.mag[h].qty - 1
    BY <1>3, <1>4, <1>8, LessSlot
  <1>10. /\ w \in Inventories /\ w.bag = u.bag /\ w.gear = u.gear /\ w.first = u.first /\ w.ver = u.ver
         /\ w.mag \in [Hands -> Slots] /\ w.mag[h] = m /\ \A g \in Hands \ {h} : w.mag[g] = u.mag[g]
         /\ w = [u EXCEPT !.mag = w.mag]
    BY <1>5, <1>9 DEF Inventories
  <1>11. MagFits(w)
    <2> SUFFICES ASSUME NEW g \in Hands, w.mag[g] # Empty
                 PROVE /\ w.gear[g].bp \in Weapons
                       /\ w.mag[g].bp = AmmoType[w.gear[g].bp]
                       /\ w.mag[g].qty <= MaxAmmo[w.gear[g].bp]
      BY DEF MagFits
    <2>1. CASE g # h BY <1>2, <1>10, <2>1 DEF MagFits
    <2>2. CASE g = h
      <3>1. /\ u.gear[h].bp \in Weapons /\ u.mag[h].bp = AmmoType[u.gear[h].bp]
            /\ u.mag[h].qty <= MaxAmmo[u.gear[h].bp]
        BY <1>2, <1>8 DEF MagFits
      <3>2. MaxAmmo[u.gear[h].bp] \in Nat BY <3>1, WeaponFacts
      <3>3. m.bp = u.mag[h].bp /\ m.qty = u.mag[h].qty - 1 BY <1>9, <1>10, <2>2
      <3>4. m.qty <= MaxAmmo[u.gear[h].bp] BY <1>8, <3>1, <3>2, <3>3
      <3> QED BY <1>10, <2>2, <3>1, <3>3, <3>4
    <2> QED BY <2>1, <2>2
  <1>12. ASSUME NEW bp \in Blueprints
         PROVE  Held(w, as, bp) = Held(u, as, bp) - (IF u.mag[h].bp = bp THEN 1 ELSE 0)
    <2>1. CountIn(w.mag, bp) = CountIn(u.mag, bp) - Amount(u.mag[h], bp) + Amount(m, bp)
      BY <1>3, <1>10, FiniteParts, CountPut
    <2>2. Amount(u.mag[h], bp) \in Nat BY <1>3, AmountNat
    <2>3. Amount(m, bp) = Amount(u.mag[h], bp) - (IF u.mag[h].bp = bp THEN 1 ELSE 0) BY <1>9
    <2>4. /\ CountIn(u.bag, bp) \in Nat /\ CountIn(u.gear, bp) \in Nat /\ CountIn(u.mag, bp) \in Nat
          /\ InBoxes(as, bp) \in Nat
      BY CarriedNat, InBoxesNat
    <2>5. /\ Held(w, as, bp) = CountIn(u.bag, bp) + CountIn(u.gear, bp) + CountIn(w.mag, bp) + InBoxes(as, bp)
          /\ Held(u, as, bp) = CountIn(u.bag, bp) + CountIn(u.gear, bp) + CountIn(u.mag, bp) + InBoxes(as, bp)
      BY <1>10 DEF Held, Carried
    <2>6. PICK d \in {0, 1} : d = IF u.mag[h].bp = bp THEN 1 ELSE 0 OBVIOUS
    <2>7. CountIn(w.mag, bp) = CountIn(u.mag, bp) - d BY <2>1, <2>2, <2>3, <2>4, <2>6
    <2>8. Held(w, as, bp) = Held(u, as, bp) - d
      <3>1. PICK i \in Nat, j \in Nat, k \in Nat, l \in Nat :
               i = CountIn(u.bag, bp) /\ j = CountIn(u.gear, bp) /\ k = CountIn(u.mag, bp) /\ l = InBoxes(as, bp)
        BY <2>4
      <3>2. Held(w, as, bp) = i + j + (k - d) + l /\ Held(u, as, bp) = i + j + k + l BY <2>5, <2>7, <3>1
      <3>3. i + j + (k - d) + l = i + j + k + l - d OBVIOUS
      <3> QED BY <3>2, <3>3
    <2> QED BY <2>6, <2>8
  <1>13. u.mag[h].bp \in Ammo BY <1>2, <1>8, WeaponFacts DEF MagFits
  <1>14. /\ \A bp \in Weapons \cup Armors : Held(w, as, bp) = Held(u, as, bp)
         /\ \A a \in Ammo : Held(w, as, a) = Held(u, as, a) \/ Held(w, as, a) = Held(u, as, a) - 1
    <2>1. ASSUME NEW bp \in Blueprints, bp # u.mag[h].bp PROVE Held(w, as, bp) = Held(u, as, bp)
      <3>1. PICK n \in Nat : n = Held(u, as, bp) BY HeldNat
      <3>2. Held(w, as, bp) = n - 0 BY <1>12, <2>1, <3>1
      <3>3. n - 0 = n OBVIOUS
      <3> QED BY <3>1, <3>2, <3>3
    <2>2. ASSUME NEW bp \in Blueprints, bp = u.mag[h].bp PROVE Held(w, as, bp) = Held(u, as, bp) - 1
      BY <1>12, <2>2
    <2> QED BY <1>13, <2>1, <2>2, BlueprintAssumption DEF Blueprints
  <1>15. Sound(u, as, w, as) BY <1>2, <1>10, <1>11, <1>14 DEF Sound
  <1> QED BY <1>1, <1>6, <1>7, <1>10, <1>15

\* RequestReload.
LEMMA ReloadSound ==
  ASSUME Typed, Loaded, NEW p \in Players, Reload(p)
  PROVE  /\ inv' = [inv EXCEPT ![p] = inv'[p]]
         /\ Sound(inv[p], box, inv'[p], box')
         /\ inv'[p].gear = inv[p].gear
  <1>1. PICK u \in Inventories, h \in Hands, as \in Boxes : u = inv[p] /\ h = hand[p] /\ as = box
    BY DEF Typed
  <1>2. u.first = FirstEmpty(u.bag) /\ MagFits(u) BY <1>1 DEF Loaded
  <1>3. PICK w : w = Load(u, h) OBVIOUS
  <1>4. /\ w \in Inventories /\ MagFits(w) /\ w.gear = u.gear /\ w.first = FirstEmpty(w.bag)
        /\ \A bp \in Blueprints : Carried(w, bp) = Carried(u, bp)
        /\ w.bag # u.bag => w.ver # u.ver
    BY <1>2, <1>3, LoadFacts
  <1>5. inv' = [inv EXCEPT ![p] = w] /\ inv'[p] = w /\ box' = as
    <2>1. inv' = [inv EXCEPT ![p] = w] BY <1>1, <1>3 DEF Reload
    <2> QED BY <1>1, <2>1 DEF Typed, Reload
  <1>6. \A bp \in Blueprints : Held(w, as, bp) = Held(u, as, bp) BY <1>4 DEF Held
  <1>7. Weapons \cup Armors \subseteq Blueprints /\ Ammo \subseteq Blueprints BY DEF Blueprints
  <1>8. Sound(u, as, w, as) BY <1>4, <1>6, <1>7 DEF Sound
  <1> QED BY <1>1, <1>4, <1>5, <1>8
-----------------------------------------------------------------------------
(* Totals.                                                                 *)

Homes == [bag : [Bag -> Slots], gear : [Gear -> Slots]]

\* What counts of a player in state s with inventory v and h on its way home.
Share(s, v, h, bp) ==
    (IF s \in {"loading", "in"} THEN Carried(v, bp) ELSE 0) + CountIn(h.bag, bp) + CountIn(h.gear, bp)

TotalOf(st, iv, hm, bs, bp) ==
    SumOf([p \in Players |-> Share(st[p], iv[p], hm[p], bp)]) + InBoxes(bs, bp)

LEMMA TotalIs ==
  ASSUME NEW bp
  PROVE  /\ Total(bp) = TotalOf(status, inv, home, box, bp)
         /\ Total(bp)' = TotalOf(status', inv', home', box', bp)
  <1>1. Total(bp) = TotalOf(status, inv, home, box, bp)
    BY Zenon DEF Total, TotalOf, InBoxes, Share, IsActiveState
  <1>2. Total(bp)' = TotalOf(status', inv', home', box', bp)
    BY Zenon DEF Total, TotalOf, InBoxes, Share, IsActiveState
  <1> QED BY <1>1, <1>2

LEMMA ShareNat ==
  ASSUME NEW s, NEW v \in Inventories, NEW h \in Homes, NEW bp
  PROVE  /\ Share(s, v, h, bp) \in Nat
         /\ CountIn(h.bag, bp) \in Nat /\ CountIn(h.gear, bp) \in Nat
         /\ s \in {"loading", "in"} => Carried(v, bp) <= Share(s, v, h, bp)
  <1>1. h.bag \in [Bag -> Slots] /\ h.gear \in [Gear -> Slots] BY DEF Homes
  <1>2. CountIn(h.bag, bp) \in Nat BY <1>1, FiniteParts, CountNat
  <1>3. CountIn(h.gear, bp) \in Nat BY <1>1, FiniteParts, CountNat
  <1>4. Carried(v, bp) \in Nat BY CarriedNat
  <1>5. PICK i \in Nat, j \in Nat, k \in Nat :
           i = Carried(v, bp) /\ j = CountIn(h.bag, bp) /\ k = CountIn(h.gear, bp)
    BY <1>2, <1>3, <1>4
  <1>6. CASE s \in {"loading", "in"}
    <2>1. Share(s, v, h, bp) = i + j + k BY <1>5, <1>6 DEF Share
    <2> QED BY <1>2, <1>3, <1>5, <2>1
  <1>7. CASE s \notin {"loading", "in"}
    <2>1. Share(s, v, h, bp) = 0 + j + k BY <1>5, <1>7 DEF Share
    <2> QED BY <1>2, <1>3, <1>5, <1>7, <2>1
  <1> QED BY <1>6, <1>7

LEMMA TotalNat ==
  ASSUME NEW st, NEW iv \in [Players -> Inventories], NEW hm \in [Players -> Homes],
         NEW bs \in Boxes, NEW bp
  PROVE  /\ TotalOf(st, iv, hm, bs, bp) \in Nat
         /\ \A p \in Players :
              Share(st[p], iv[p], hm[p], bp) + InBoxes(bs, bp) <= TotalOf(st, iv, hm, bs, bp)
  <1> DEFINE f == [p \in Players |-> Share(st[p], iv[p], hm[p], bp)]
  <1>1. f \in [Players -> Nat] BY ShareNat
  <1>2. \A p \in Players : f[p] = Share(st[p], iv[p], hm[p], bp) OBVIOUS
  <1>3. TotalOf(st, iv, hm, bs, bp) = SumOf(f) + InBoxes(bs, bp) BY DEF TotalOf
  <1> HIDE DEF f
  <1>4. SumOf(f) \in Nat /\ InBoxes(bs, bp) \in Nat BY <1>1, BoxAssumption, PointsFinite, InBoxesNat
  <1>5. \A p \in Players : f[p] <= SumOf(f) /\ f[p] \in Nat BY <1>1, BoxAssumption, SumElem
  <1>6. PICK i \in Nat, k \in Nat : i = SumOf(f) /\ k = InBoxes(bs, bp) BY <1>4
  <1>7. ASSUME NEW p \in Players
        PROVE  Share(st[p], iv[p], hm[p], bp) + InBoxes(bs, bp) <= TotalOf(st, iv, hm, bs, bp)
    <2>1. PICK j \in Nat : j = f[p] BY <1>5
    <2>2. j <= i BY <1>5, <1>6, <2>1
    <2>3. j + k <= i + k BY <2>2
    <2> QED BY <1>2, <1>3, <1>6, <2>1, <2>3
  <1>8. TotalOf(st, iv, hm, bs, bp) = i + k /\ i + k \in Nat BY <1>3, <1>6
  <1> QED BY <1>7, <1>8

\* Only p changed.
OthersSame(p, st, iv, hm, su, iu, hu) ==
    \A q \in Players \ {p} : su[q] = st[q] /\ iu[q] = iv[q] /\ hu[q] = hm[q]

\* What the others have.
Rest(st, iv, hm, bs, p, bp) ==
    TotalOf(st, iv, hm, bs, bp) - (Share(st[p], iv[p], hm[p], bp) + InBoxes(bs, bp))

LEMMA TotalMove ==
  ASSUME NEW st, NEW iv \in [Players -> Inventories], NEW hm \in [Players -> Homes], NEW bs \in Boxes,
         NEW su, NEW iu \in [Players -> Inventories], NEW hu \in [Players -> Homes], NEW bu \in Boxes,
         NEW p \in Players, NEW bp, OthersSame(p, st, iv, hm, su, iu, hu)
  PROVE  Rest(su, iu, hu, bu, p, bp) = Rest(st, iv, hm, bs, p, bp)
  <1> DEFINE f == [q \in Players |-> Share(st[q], iv[q], hm[q], bp)]
             g == [q \in Players |-> Share(su[q], iu[q], hu[q], bp)]
  <1>1. f \in [Players -> Nat] /\ g \in [Players -> Nat] BY ShareNat
  <1>2. f[p] = Share(st[p], iv[p], hm[p], bp) /\ g[p] = Share(su[p], iu[p], hu[p], bp) OBVIOUS
  <1>3. \A q \in Players \ {p} : g[q] = f[q] BY DEF OthersSame
  <1>4. /\ TotalOf(st, iv, hm, bs, bp) = SumOf(f) + InBoxes(bs, bp)
        /\ TotalOf(su, iu, hu, bu, bp) = SumOf(g) + InBoxes(bu, bp)
    BY DEF TotalOf
  <1> HIDE DEF f, g
  <1>5. SumOf(g) = SumOf(f) - f[p] + g[p] BY <1>1, <1>3, BoxAssumption, SumUpdate
  <1>6. PICK i \in Nat, j \in Nat, k \in Nat, m \in Nat, n \in Nat :
           i = SumOf(f) /\ j = f[p] /\ k = g[p] /\ m = InBoxes(bs, bp) /\ n = InBoxes(bu, bp)
    BY <1>1, BoxAssumption, PointsFinite, InBoxesNat
  <1>7. SumOf(g) = i - j + k BY <1>5, <1>6
  <1>8. ((i - j + k) + n) - (k + n) = (i + m) - (j + m) OBVIOUS
  <1> QED BY <1>2, <1>4, <1>6, <1>7, <1>8 DEF Rest
-----------------------------------------------------------------------------
(* The invariant.                                                          *)

\* Only the dead have a loot container.
LootOfDead == \A p \in Players : status[p] # "dead" => DOMAIN box[p].slots = {}

\* Only what a recalled player carries is on its way home.
HomeOfRecalled == \A p \in Players : status[p] # "home" => home[p] = NoHome

InvInv == Typed /\ Loaded /\ LootOfDead /\ HomeOfRecalled /\ Conserved

LEMMA TypedHomes == Typed <=> /\ status \in [Players -> {"loading", "in", "dead", "home", "gone"}]
                              /\ inv \in [Players -> Inventories]
                              /\ obj \in [Players -> [Hands -> Blueprints \cup {NoBp}]]
                              /\ hand \in [Players -> Hands]
                              /\ box \in Boxes
                              /\ open \in [Players -> Chests \cup Players \cup {NoBox}]
                              /\ home \in [Players -> Homes]
                              /\ owned \in [Blueprints -> Nat]
  BY DEF Typed, Homes

LEMMA NoHomeFacts ==
  /\ NoHome \in Homes
  /\ \A bp \in Blueprints : CountIn(NoHome.bag, bp) = 0 /\ CountIn(NoHome.gear, bp) = 0
  <1>1. NoHome.bag \in [Bag -> Slots] /\ NoHome.gear \in [Gear -> Slots] /\ NoHome \in Homes
    BY EmptySlot DEF NoHome, NoSlots, Bag, Homes
  <1>2. (\A i \in Bag : NoHome.bag[i] = Empty) /\ (\A g \in Gear : NoHome.gear[g] = Empty)
    BY DEF NoHome, NoSlots, Bag
  <1>3. ASSUME NEW bp \in Blueprints PROVE CountIn(NoHome.bag, bp) = 0 /\ CountIn(NoHome.gear, bp) = 0
    <2>1. Amount(Empty, bp) = 0 BY EmptySlot
    <2>2. CountIn(NoHome.bag, bp) = 0 BY <1>1, <1>2, <2>1, CountNone
    <2>3. CountIn(NoHome.gear, bp) = 0 BY <1>1, <1>2, <2>1, CountNone
    <2> QED BY <2>2, <2>3
  <1> QED BY <1>1, <1>3

\* A request of an active player.
LEMMA RequestKeeps ==
  ASSUME InvInv, NEW p \in Players, IsActiveState(p), UNCHANGED <<status, home, owned>>,
         inv' = [inv EXCEPT ![p] = inv'[p]], Sound(inv[p], box, inv'[p], box'),
         obj' \in [Players -> [Hands -> Blueprints \cup {NoBp}]], hand' \in [Players -> Hands],
         open' \in [Players -> Chests \cup Players \cup {NoBox}]
  PROVE  /\ InvInv'
         /\ \A bp \in Blueprints :
              Total(bp)' - Held(inv'[p], box', bp) = Total(bp) - Held(inv[p], box, bp)
  <1>1. /\ inv \in [Players -> Inventories] /\ home \in [Players -> Homes] /\ box \in Boxes
        /\ owned \in [Blueprints -> Nat]
    BY TypedHomes DEF InvInv
  <1>2. PICK w \in Inventories : w = inv'[p] BY DEF Sound
  <1>3. /\ box' \in Boxes /\ inv' \in [Players -> Inventories] /\ home' \in [Players -> Homes]
        /\ \A q \in Players \ {p} : inv'[q] = inv[q]
    BY <1>1, <1>2 DEF Sound
  <1>4. Typed' BY <1>1, <1>3 DEF InvInv, Typed
  <1>5. Loaded'
    <2> SUFFICES ASSUME NEW q \in Players
                 PROVE inv'[q].first = FirstEmpty(inv'[q].bag) /\ MagFits(inv'[q])
      BY DEF Loaded
    <2>1. CASE q = p BY <2>1 DEF Sound
    <2>2. CASE q # p BY <1>3, <2>2 DEF InvInv, Loaded
    <2> QED BY <2>1, <2>2
  <1>6. LootOfDead' BY DEF Sound, InvInv, LootOfDead
  <1>7. HomeOfRecalled' BY DEF InvInv, HomeOfRecalled, NoHome, NoSlots
  <1>8. ASSUME NEW bp \in Blueprints
        PROVE  /\ Total(bp)' - Held(inv'[p], box', bp) = Total(bp) - Held(inv[p], box, bp)
               /\ Total(bp) \in Nat /\ Total(bp)' \in Nat
    <2>1. PICK T \in Nat, U \in Nat : T = Total(bp) /\ U = Total(bp)'
      BY <1>1, <1>3, TotalIs, TotalNat
    <2>2. U - (Share(status'[p], inv'[p], home'[p], bp) + InBoxes(box', bp))
          = T - (Share(status[p], inv[p], home[p], bp) + InBoxes(box, bp))
      <3>1. T = TotalOf(status, inv, home, box, bp) /\ U = TotalOf(status', inv', home', box', bp)
        BY <2>1, TotalIs
      <3>2. PICK iu \in [Players -> Inventories], bu \in Boxes : iu = inv' /\ bu = box' BY <1>3
      <3>3. OthersSame(p, status, inv, home, status', iu, home') BY <1>3, <3>2 DEF OthersSame
      <3>4. Rest(status', iu, home', bu, p, bp) = Rest(status, inv, home, box, p, bp)
        BY <1>1, <1>3, <3>3, TotalMove
      <3> QED BY <3>1, <3>2, <3>4 DEF Rest
    <2>3. home[p] \in Homes BY <1>1
    <2>4. PICK i \in Nat, j \in Nat, k \in Nat, l \in Nat, m \in Nat, n \in Nat :
             /\ i = Carried(inv[p], bp) /\ j = Carried(inv'[p], bp)
             /\ k = CountIn(home[p].bag, bp) /\ l = CountIn(home[p].gear, bp)
             /\ m = InBoxes(box, bp) /\ n = InBoxes(box', bp)
      BY <1>1, <1>2, <1>3, <2>3, CarriedNat, ShareNat, InBoxesNat
    <2>5. Share(status[p], inv[p], home[p], bp) = i + k + l BY <2>4 DEF Share, IsActiveState
    <2>6. Share(status'[p], inv'[p], home'[p], bp) = j + k + l BY <2>4 DEF Share, IsActiveState
    <2>7. Held(inv[p], box, bp) = i + m /\ Held(inv'[p], box', bp) = j + n BY <2>4 DEF Held
    <2>8. U - ((j + k + l) + n) = T - ((i + k + l) + m) BY <2>2, <2>4, <2>5, <2>6
    <2>9. U - (j + n) = T - (i + m) BY <2>8
    <2> QED BY <2>1, <2>7, <2>9
  <1>9. Conserved'
    <2>1. ASSUME NEW bp \in Blueprints, Held(inv'[p], box', bp) = Held(inv[p], box, bp)
          PROVE  Total(bp)' = Total(bp)
      <3>1. PICK n \in Nat : n = Held(inv[p], box, bp) BY <1>1, HeldNat
      <3>2. PICK T \in Nat, U \in Nat : T = Total(bp) /\ U = Total(bp)' BY <1>8
      <3>3. U - n = T - n BY <1>8, <2>1, <3>1, <3>2
      <3>4. U = T BY <3>3
      <3> QED BY <3>2, <3>4
    <2>2. ASSUME NEW bp \in Blueprints, Held(inv'[p], box', bp) <= Held(inv[p], box, bp)
          PROVE  Total(bp)' <= Total(bp)
      <3>1. PICK n \in Nat, m \in Nat : n = Held(inv[p], box, bp) /\ m = Held(inv'[p], box', bp)
        BY <1>1, <1>2, <1>3, HeldNat
      <3>2. PICK T \in Nat, U \in Nat : T = Total(bp) /\ U = Total(bp)' BY <1>8
      <3>3. U - m = T - n /\ m <= n BY <1>8, <2>2, <3>1, <3>2
      <3>4. U <= T BY <3>3
      <3> QED BY <3>2, <3>4
    <2>3. ASSUME NEW a \in Ammo PROVE (Total(a) <= owned[a])'
      <3>1. a \in Blueprints BY DEF Blueprints
      <3>2. Held(inv'[p], box', a) <= Held(inv[p], box, a)
        <4>1. PICK n \in Nat, m \in Nat : n = Held(inv[p], box, a) /\ m = Held(inv'[p], box', a)
          BY <1>1, <1>2, <1>3, HeldNat
        <4>2. m = n \/ m < n \/ m = n - 1 BY <4>1 DEF Sound
        <4>3. m <= n BY <4>2
        <4> QED BY <4>1, <4>3
      <3>3. Total(a)' <= Total(a) BY <2>2, <3>1, <3>2
      <3>4. PICK T \in Nat, U \in Nat, W \in Nat : T = Total(a) /\ U = Total(a)' /\ W = owned[a] /\ W = owned'[a]
        BY <1>1, <1>8, <3>1
      <3>5. T <= W BY <3>4 DEF InvInv, Conserved
      <3>6. U <= W BY <3>3, <3>4, <3>5
      <3> QED BY <3>4, <3>6
    <2>4. ASSUME NEW bp \in Weapons \cup Armors PROVE (Total(bp) = owned[bp])'
      <3>1. bp \in Blueprints BY DEF Blueprints
      <3>2. Total(bp)' = Total(bp) BY <2>1, <3>1 DEF Sound
      <3> QED BY <3>2 DEF InvInv, Conserved
    <2> QED BY <2>3, <2>4 DEF Conserved
  <1> QED BY <1>4, <1>5, <1>6, <1>7, <1>8, <1>9 DEF InvInv

\* The total before and after a step of p.
Ledger(p, bp, T, U, S, R, M, N) ==
    /\ T = Total(bp) /\ U = Total(bp)'
    /\ S = Share(status[p], inv[p], home[p], bp) /\ R = Share(status'[p], inv'[p], home'[p], bp)
    /\ M = InBoxes(box, bp) /\ N = InBoxes(box', bp)
    /\ U - (R + N) = T - (S + M)
    /\ S + M <= T

LEMMA StepTotal ==
  ASSUME Typed, inv' \in [Players -> Inventories], home' \in [Players -> Homes], box' \in Boxes,
         NEW p \in Players, OthersSame(p, status, inv, home, status', inv', home'), NEW bp
  PROVE  \E T, U, S, R, M, N \in Nat : Ledger(p, bp, T, U, S, R, M, N)
  <1>1. inv \in [Players -> Inventories] /\ home \in [Players -> Homes] /\ box \in Boxes BY TypedHomes
  <1>0. PICK su : su = status' OBVIOUS
  <1>2. PICK iu \in [Players -> Inventories], hu \in [Players -> Homes], bu \in Boxes :
           iu = inv' /\ hu = home' /\ bu = box'
    OBVIOUS
  <1>3. Rest(su, iu, hu, bu, p, bp) = Rest(status, inv, home, box, p, bp)
    <2>1. OthersSame(p, status, inv, home, su, iu, hu) BY <1>0, <1>2
    <2> QED BY <1>1, <2>1, TotalMove
  <1>4. Total(bp) = TotalOf(status, inv, home, box, bp) /\ Total(bp)' = TotalOf(su, iu, hu, bu, bp)
    BY <1>0, <1>2, TotalIs
  <1>5. PICK T \in Nat, U \in Nat : T = Total(bp) /\ U = Total(bp)' BY <1>1, <1>4, TotalNat
  <1>6. PICK S \in Nat, R \in Nat :
           S = Share(status[p], inv[p], home[p], bp) /\ R = Share(su[p], iu[p], hu[p], bp)
    <2>1. inv[p] \in Inventories /\ home[p] \in Homes /\ iu[p] \in Inventories /\ hu[p] \in Homes BY <1>1
    <2> QED BY <2>1, ShareNat
  <1>7. PICK M \in Nat, N \in Nat : M = InBoxes(box, bp) /\ N = InBoxes(bu, bp) BY <1>1, InBoxesNat
  <1>8. U - (R + N) = T - (S + M) BY <1>3, <1>4, <1>5, <1>6, <1>7 DEF Rest
  <1>9. S + M <= T BY <1>1, <1>4, <1>5, <1>6, <1>7, TotalNat
  <1>10. Ledger(p, bp, T, U, S, R, M, N) BY <1>0, <1>2, <1>5, <1>6, <1>7, <1>8, <1>9 DEF Ledger
  <1> QED BY <1>10

\* Spawning, opening a container and switching weapons move nothing.
LEMMA QuietKeeps ==
  ASSUME InvInv, NEW p \in Players, IsActiveState(p), UNCHANGED <<inv, box, home, owned>>,
         status' = status \/ status' = [status EXCEPT ![p] = "in"],
         obj' \in [Players -> [Hands -> Blueprints \cup {NoBp}]], hand' \in [Players -> Hands],
         open' \in [Players -> Chests \cup Players \cup {NoBox}]
  PROVE  /\ InvInv'
         /\ \A bp \in Blueprints : Total(bp)' = Total(bp)
  <1>1. Typed /\ inv' \in [Players -> Inventories] /\ home' \in [Players -> Homes] /\ box' \in Boxes
    BY TypedHomes DEF InvInv
  <1>2. /\ status' \in [Players -> {"loading", "in", "dead", "home", "gone"}]
        /\ \A q \in Players : q # p => status'[q] = status[q]
        /\ status'[p] \in {"loading", "in"} /\ status[p] \in {"loading", "in"}
    BY <1>1 DEF Typed, IsActiveState
  <1>3. Typed' BY <1>1, <1>2 DEF Typed
  <1>4. OthersSame(p, status, inv, home, status', inv', home') BY <1>2 DEF OthersSame
  <1>5. ASSUME NEW bp \in Blueprints PROVE Total(bp)' = Total(bp)
    <2>0. PICK T, U, S, R, M, N \in Nat : Ledger(p, bp, T, U, S, R, M, N)
      BY <1>1, <1>4, StepTotal
    <2>1. /\ T = Total(bp) /\ U = Total(bp)'
          /\ S = Share(status[p], inv[p], home[p], bp) /\ R = Share(status'[p], inv'[p], home'[p], bp)
          /\ M = InBoxes(box, bp) /\ N = InBoxes(box', bp)
          /\ U - (R + N) = T - (S + M)
      BY <2>0 DEF Ledger
    <2>2. R = S /\ N = M BY <1>2, <2>1 DEF Share
    <2>3. U = T BY <2>1, <2>2
    <2> QED BY <2>1, <2>3
  <1>6. Loaded' BY DEF InvInv, Loaded
  <1>7. LootOfDead' BY <1>2 DEF InvInv, LootOfDead
  <1>8. HomeOfRecalled' BY <1>2 DEF InvInv, HomeOfRecalled, NoHome, NoSlots
  <1>9. Conserved' BY <1>5 DEF InvInv, Conserved, Blueprints
  <1> QED BY <1>3, <1>5, <1>6, <1>7, <1>8, <1>9 DEF InvInv

\* A dead player's things are in his loot container.
LEMMA DieKeeps ==
  ASSUME InvInv, NEW p \in Players, Die(p)
  PROVE  InvInv' /\ \A bp \in Blueprints : Total(bp)' = Total(bp)
  <1>1. Typed /\ inv \in [Players -> Inventories] /\ home \in [Players -> Homes] /\ box \in Boxes
    BY TypedHomes DEF InvInv
  <1>2. PICK u \in Inventories : u = inv[p] BY <1>1
  <1>3. PICK w, l : w = Nothing(u) /\ l = LootOf(u) OBVIOUS
  <1>4. w \in Inventories /\ w.first = FirstEmpty(w.bag) /\ MagFits(w) BY <1>3, NothingFacts
  <1>5. l \in Seq(Slots) /\ \A bp \in Blueprints : CountIn(l, bp) = Carried(u, bp) BY <1>3, LootFacts
  <1>6. /\ status[p] = "in" /\ status' = [status EXCEPT ![p] = "dead"]
        /\ box' = [box EXCEPT ![p].slots = l] /\ inv' = [inv EXCEPT ![p] = w]
        /\ open' = [open EXCEPT ![p] = NoBox] /\ UNCHANGED <<obj, hand, home, owned>>
    BY <1>2, <1>3 DEF Die
  <1>7. p \in Chests \cup Players OBVIOUS
  <1>8. /\ box' \in Boxes /\ box'[p].slots = l
        /\ \A b \in (Chests \cup Players) \ {p} : box'[b].slots = box[b].slots
    BY <1>1, <1>5, <1>6, <1>7 DEF Boxes
  <1>9. /\ inv' \in [Players -> Inventories] /\ inv'[p] = w
        /\ \A q \in Players \ {p} : inv'[q] = inv[q] /\ status'[q] = status[q]
        /\ status' \in [Players -> {"loading", "in", "dead", "home", "gone"}] /\ status'[p] = "dead"
        /\ home' \in [Players -> Homes]
        /\ open' \in [Players -> Chests \cup Players \cup {NoBox}]
    BY <1>1, <1>4, <1>6 DEF Typed
  <1>10. Typed' BY <1>1, <1>6, <1>8, <1>9 DEF Typed
  <1>11. OthersSame(p, status, inv, home, status', inv', home') BY <1>6, <1>9 DEF OthersSame
  <1>12. ASSUME NEW bp \in Blueprints PROVE Total(bp)' = Total(bp)
    <2>0. PICK T, U, S, R, M, N \in Nat : Ledger(p, bp, T, U, S, R, M, N)
      BY <1>1, <1>8, <1>9, <1>11, StepTotal
    <2>1. /\ T = Total(bp) /\ U = Total(bp)'
          /\ S = Share(status[p], inv[p], home[p], bp) /\ R = Share(status'[p], inv'[p], home'[p], bp)
          /\ M = InBoxes(box, bp) /\ N = InBoxes(box', bp)
          /\ U - (R + N) = T - (S + M)
      BY <2>0 DEF Ledger
    <2>2. home[p] \in Homes BY <1>1
    <2>3. PICK i \in Nat, j \in Nat, k \in Nat :
             i = Carried(u, bp) /\ j = CountIn(home[p].bag, bp) /\ k = CountIn(home[p].gear, bp)
      BY <2>2, CarriedNat, ShareNat
    <2>4. S = i + j + k /\ R = 0 + j + k BY <1>2, <1>6, <1>9, <2>1, <2>3 DEF Share
    <2>5. N = M + i
      <3>1. InBoxes(box', bp) = InBoxes(box, bp) - CountIn(box[p].slots, bp) + CountIn(box'[p].slots, bp)
        <4>1. PICK bu \in Boxes : bu = box' BY <1>8
        <4>2. InBoxes(bu, bp) = InBoxes(box, bp) - CountIn(box[p].slots, bp) + CountIn(bu[p].slots, bp)
          BY <1>1, <1>7, <1>8, <4>1, InBoxesPut
        <4> QED BY <4>1, <4>2
      <3>2. CountIn(box[p].slots, bp) = 0
        <4>1. box[p].slots \in Seq(Slots) BY <1>1, <1>7 DEF Boxes
        <4>2. DOMAIN box[p].slots = {} BY <1>6 DEF InvInv, LootOfDead
        <4>3. PICK D, s : s = box[p].slots /\ D = DOMAIN s OBVIOUS
        <4>4. s \in [D -> Slots] /\ D = {} BY <4>1, <4>2, <4>3, SlotsFinite
        <4>5. CountIn(s, bp) = 0 BY <4>4, CountNone
        <4> QED BY <4>3, <4>5
      <3>3. CountIn(box'[p].slots, bp) = i BY <1>5, <1>8, <2>3
      <3>4. N = M - 0 + i BY <2>1, <3>1, <3>2, <3>3
      <3> QED BY <3>4
    <2>6. U = T BY <2>1, <2>4, <2>5
    <2> QED BY <2>1, <2>6
  <1>13. Loaded'
    <2> SUFFICES ASSUME NEW q \in Players
                 PROVE inv'[q].first = FirstEmpty(inv'[q].bag) /\ MagFits(inv'[q])
      BY DEF Loaded
    <2>1. CASE q = p BY <1>4, <1>9, <2>1
    <2>2. CASE q # p BY <1>9, <2>2 DEF InvInv, Loaded
    <2> QED BY <2>1, <2>2
  <1>14. LootOfDead' BY <1>8, <1>9 DEF InvInv, LootOfDead
  <1>15. HomeOfRecalled' BY <1>6, <1>9 DEF InvInv, HomeOfRecalled, NoHome, NoSlots
  <1>16. Conserved' BY <1>6, <1>12 DEF InvInv, Conserved, Blueprints
  <1> QED BY <1>10, <1>12, <1>13, <1>14, <1>15, <1>16 DEF InvInv

\* What a player who is cut off carries is written off.
LEMMA VanishKeeps ==
  ASSUME InvInv, NEW p \in Players, Vanish(p)
  PROVE  InvInv'
  <1>1. /\ Typed /\ inv \in [Players -> Inventories] /\ home \in [Players -> Homes] /\ box \in Boxes
        /\ owned \in [Blueprints -> Nat]
    BY TypedHomes DEF InvInv
  <1>2. PICK u \in Inventories : u = inv[p] BY <1>1
  <1>3. PICK w \in Inventories : /\ w = IF status[p] = "in" THEN Nothing(u) ELSE u
                                 /\ w.first = FirstEmpty(w.bag) /\ MagFits(w)
    BY <1>2, NothingFacts DEF InvInv, Loaded
  <1>4. /\ status[p] \in {"loading", "in"} /\ status' = [status EXCEPT ![p] = "gone"]
        /\ inv' = [inv EXCEPT ![p] = w] /\ open' = [open EXCEPT ![p] = NoBox]
        /\ owned' = [bp \in Blueprints |-> owned[bp] - Carried(u, bp)]
        /\ UNCHANGED <<obj, hand, box, home>>
    BY <1>2, <1>3 DEF Vanish, IsActiveState
  <1>5. /\ inv' \in [Players -> Inventories] /\ inv'[p] = w
        /\ \A q \in Players \ {p} : inv'[q] = inv[q] /\ status'[q] = status[q]
        /\ status' \in [Players -> {"loading", "in", "dead", "home", "gone"}] /\ status'[p] = "gone"
        /\ home' \in [Players -> Homes] /\ box' \in Boxes
        /\ open' \in [Players -> Chests \cup Players \cup {NoBox}]
    BY <1>1, <1>4 DEF Typed
  <1>6. OthersSame(p, status, inv, home, status', inv', home') BY <1>4, <1>5 DEF OthersSame
  <1>7. ASSUME NEW bp \in Blueprints
        PROVE  /\ owned'[bp] \in Nat
               /\ Total(bp) <= owned[bp] => Total(bp)' <= owned'[bp]
               /\ Total(bp) = owned[bp] => Total(bp)' = owned'[bp]
    <2>0. PICK T, U, S, R, M, N \in Nat : Ledger(p, bp, T, U, S, R, M, N)
      BY <1>1, <1>5, <1>6, StepTotal
    <2>1. /\ T = Total(bp) /\ U = Total(bp)'
          /\ S = Share(status[p], inv[p], home[p], bp) /\ R = Share(status'[p], inv'[p], home'[p], bp)
          /\ M = InBoxes(box, bp) /\ N = InBoxes(box', bp)
          /\ U - (R + N) = T - (S + M) /\ S + M <= T
      BY <2>0 DEF Ledger
    <2>2. home[p] \in Homes BY <1>1
    <2>3. PICK i \in Nat, j \in Nat, k \in Nat :
             i = Carried(u, bp) /\ j = CountIn(home[p].bag, bp) /\ k = CountIn(home[p].gear, bp)
      BY <2>2, CarriedNat, ShareNat
    <2>4. S = i + j + k /\ R = 0 + j + k /\ N = M BY <1>2, <1>4, <1>5, <2>1, <2>3 DEF Share
    <2>5. PICK W \in Nat : W = owned[bp] BY <1>1
    <2>6. owned'[bp] = W - i BY <1>4, <2>3, <2>5
    <2>7. U = T - i /\ i <= T BY <2>1, <2>4
    <2>8. T <= W
      <3>1. CASE bp \in Ammo BY <2>1, <2>5, <3>1 DEF InvInv, Conserved
      <3>2. CASE bp \notin Ammo
        <4>1. bp \in Weapons \cup Armors BY <3>2 DEF Blueprints
        <4>2. T = W BY <2>1, <2>5, <4>1 DEF InvInv, Conserved
        <4> QED BY <4>2
      <3> QED BY <3>1, <3>2
    <2>9. W - i \in Nat /\ (T <= W => U <= W - i) /\ (T = W => U = W - i) BY <2>7, <2>8
    <2> QED BY <2>1, <2>5, <2>6, <2>9
  <1>8. Typed'
    <2>1. owned' \in [Blueprints -> Nat] BY <1>4, <1>7
    <2> QED BY <1>1, <1>4, <1>5, <2>1 DEF Typed
  <1>9. Loaded'
    <2> SUFFICES ASSUME NEW q \in Players
                 PROVE inv'[q].first = FirstEmpty(inv'[q].bag) /\ MagFits(inv'[q])
      BY DEF Loaded
    <2>1. CASE q = p BY <1>3, <1>5, <2>1
    <2>2. CASE q # p BY <1>5, <2>2 DEF InvInv, Loaded
    <2> QED BY <2>1, <2>2
  <1>10. LootOfDead' BY <1>4, <1>5 DEF InvInv, LootOfDead
  <1>11. HomeOfRecalled' BY <1>4, <1>5 DEF InvInv, HomeOfRecalled, NoHome, NoSlots
  <1>12. Conserved' BY <1>7 DEF InvInv, Conserved, Blueprints
  <1> QED BY <1>8, <1>9, <1>10, <1>11, <1>12 DEF InvInv

\* Magazines hold no weapons and no armour.
LEMMA MagsHoldAmmo ==
  ASSUME NEW v \in Inventories, MagFits(v), NEW bp \in Weapons \cup Armors
  PROVE  CountIn(v.mag, bp) = 0
  <1>1. v.mag \in [Hands -> Slots] BY DEF Inventories
  <1>2. bp \in Blueprints /\ bp \notin Ammo BY BlueprintAssumption DEF Blueprints
  <1>3. ASSUME NEW h \in Hands PROVE Amount(v.mag[h], bp) = 0
    <2>1. CASE v.mag[h] = Empty BY <1>2, <2>1, EmptySlot
    <2>2. CASE v.mag[h] # Empty
      <3>1. v.mag[h].bp \in Ammo BY <2>2, WeaponFacts DEF MagFits
      <3> QED BY <1>2, <3>1 DEF Amount
    <2> QED BY <2>1, <2>2
  <1> QED BY <1>1, <1>3, CountNone

\* A recalled player takes bag and equipment with him, not his rounds.
LEMMA GoHomeKeeps ==
  ASSUME InvInv, NEW p \in Players, GoHome(p)
  PROVE  InvInv'
  <1>1. Typed /\ inv \in [Players -> Inventories] /\ home \in [Players -> Homes] /\ box \in Boxes
    BY TypedHomes DEF InvInv
  <1>2. PICK u \in Inventories : u = inv[p] /\ MagFits(u) BY <1>1 DEF InvInv, Loaded
  <1>3. PICK k \in Homes : k = [bag |-> u.bag, gear |-> u.gear] BY DEF Inventories, Homes
  <1>4. /\ status[p] = "in" /\ status' = [status EXCEPT ![p] = "home"]
        /\ home' = [home EXCEPT ![p] = k] /\ open' = [open EXCEPT ![p] = NoBox]
        /\ UNCHANGED <<inv, obj, hand, box, owned>>
    BY <1>2, <1>3 DEF GoHome
  <1>5. /\ inv' \in [Players -> Inventories] /\ home' \in [Players -> Homes] /\ box' \in Boxes
        /\ home'[p] = k
        /\ \A q \in Players \ {p} : home'[q] = home[q] /\ status'[q] = status[q]
        /\ status' \in [Players -> {"loading", "in", "dead", "home", "gone"}] /\ status'[p] = "home"
        /\ open' \in [Players -> Chests \cup Players \cup {NoBox}]
    BY <1>1, <1>4 DEF Typed
  <1>6. OthersSame(p, status, inv, home, status', inv', home') BY <1>4, <1>5 DEF OthersSame
  <1>7. home[p] = NoHome BY <1>4 DEF InvInv, HomeOfRecalled
  <1>8. ASSUME NEW bp \in Blueprints
        PROVE  /\ Total(bp) \in Nat /\ Total(bp)' \in Nat /\ Total(bp)' <= Total(bp)
               /\ CountIn(u.mag, bp) = 0 => Total(bp)' = Total(bp)
    <2>0. PICK T, U, S, R, M, N \in Nat : Ledger(p, bp, T, U, S, R, M, N)
      BY <1>1, <1>5, <1>6, StepTotal
    <2>1. /\ T = Total(bp) /\ U = Total(bp)'
          /\ S = Share(status[p], inv[p], home[p], bp) /\ R = Share(status'[p], inv'[p], home'[p], bp)
          /\ M = InBoxes(box, bp) /\ N = InBoxes(box', bp)
          /\ U - (R + N) = T - (S + M)
      BY <2>0 DEF Ledger
    <2>2. PICK i \in Nat, j \in Nat, m \in Nat :
             i = CountIn(u.bag, bp) /\ j = CountIn(u.gear, bp) /\ m = CountIn(u.mag, bp)
      BY CarriedNat
    <2>3. Carried(u, bp) = i + j + m BY <2>2 DEF Carried
    <2>4. CountIn(home[p].bag, bp) = 0 /\ CountIn(home[p].gear, bp) = 0 BY <1>7, NoHomeFacts
    <2>5. S = (i + j + m) + 0 + 0 BY <1>2, <1>4, <2>1, <2>3, <2>4 DEF Share
    <2>6. CountIn(home'[p].bag, bp) = i /\ CountIn(home'[p].gear, bp) = j BY <1>3, <1>5, <2>2
    <2>7. R = 0 + i + j /\ N = M BY <1>4, <1>5, <2>1, <2>6 DEF Share
    <2>8. U = T - m BY <2>1, <2>5, <2>7
    <2> QED BY <2>1, <2>2, <2>8
  <1>9. Typed' BY <1>1, <1>4, <1>5, TypedHomes DEF Typed, Homes
  <1>10. Loaded' BY <1>4 DEF InvInv, Loaded
  <1>11. LootOfDead' BY <1>4, <1>5 DEF InvInv, LootOfDead
  <1>12. HomeOfRecalled' BY <1>5 DEF InvInv, HomeOfRecalled, NoHome, NoSlots
  <1>13. Conserved'
    <2>1. ASSUME NEW a \in Ammo PROVE (Total(a) <= owned[a])'
      <3>1. a \in Blueprints BY DEF Blueprints
      <3>2. PICK T \in Nat, U \in Nat, W \in Nat : T = Total(a) /\ U = Total(a)' /\ W = owned[a] /\ W = owned'[a]
        BY <1>1, <1>4, <1>8, <3>1 DEF Typed
      <3>3. T <= W /\ U <= T BY <1>8, <3>1, <3>2 DEF InvInv, Conserved
      <3>4. U <= W BY <3>3
      <3> QED BY <3>2, <3>4
    <2>2. ASSUME NEW bp \in Weapons \cup Armors PROVE (Total(bp) = owned[bp])'
      <3>1. bp \in Blueprints BY DEF Blueprints
      <3>2. CountIn(u.mag, bp) = 0 BY <1>2, MagsHoldAmmo
      <3> QED BY <1>4, <1>8, <3>1, <3>2 DEF InvInv, Conserved
    <2> QED BY <2>1, <2>2 DEF Conserved
  <1> QED BY <1>9, <1>10, <1>11, <1>12, <1>13 DEF InvInv
-----------------------------------------------------------------------------
(* All steps.                                                              *)

WeaponIdsTyped == [Hands -> Blueprints \cup {NoBp}]

LEMMA ObjectFacts ==
  ASSUME NEW v \in Inventories, NEW h \in Hands
  PROVE  /\ WeaponIds(v) \in WeaponIdsTyped
         /\ SetWeapons(h, WeaponIds(v)) \in Hands
         /\ WeaponIds(v)[SetWeapons(h, WeaponIds(v))] = NoBp => \A o \in Hands : WeaponIds(v)[o] = NoBp
  <1>1. \A o \in Hands : v.gear[o].bp \in Blueprints \cup {NoBp} BY SlotFacts, EmptySlot DEF Inventories, Gear, Slots, Empty
  <1>2. WeaponIds(v) \in WeaponIdsTyped BY <1>1 DEF WeaponIds, WeaponIdsTyped
  <1>3. PICK ids \in WeaponIdsTyped : ids = WeaponIds(v) BY <1>2
  <1>4. /\ SetWeapons(h, ids) \in Hands
        /\ ids[SetWeapons(h, ids)] = NoBp => \A o \in Hands : ids[o] = NoBp
    BY DEF SetWeapons, Hands, WeaponIdsTyped
  <1> QED BY <1>2, <1>3, <1>4

\* A request of p, which moves things between his inventory and a container.
Request(p) ==
    /\ IsActiveState(p)
    /\ UNCHANGED <<status, home, owned, open>>
    /\ inv' = [inv EXCEPT ![p] = inv'[p]]
    /\ Sound(inv[p], box, inv'[p], box')
    /\ obj' \in [Players -> WeaponIdsTyped]
    /\ hand' \in [Players -> Hands]

\* A step of p that moves nothing.
Quiet(p) ==
    /\ IsActiveState(p)
    /\ UNCHANGED <<inv, box, home, owned>>
    /\ status' = status \/ status' = [status EXCEPT ![p] = "in"]
    /\ obj' \in [Players -> WeaponIdsTyped]
    /\ hand' \in [Players -> Hands]
    /\ open' \in [Players -> Chests \cup Players \cup {NoBox}]

Leaves(p) == Die(p) \/ Vanish(p) \/ GoHome(p)

LEMMA EquippedTyped ==
  ASSUME Typed, NEW p \in Players, NEW v \in Inventories, NEW bs, NEW r, Equipped(p, v, bs, r)
  PROVE  obj' \in [Players -> WeaponIdsTyped] /\ hand' \in [Players -> Hands]
  <1>1. obj \in [Players -> WeaponIdsTyped] /\ hand \in [Players -> Hands] BY DEF Typed, WeaponIdsTyped
  <1>2. WeaponIds(v) \in WeaponIdsTyped BY ObjectFacts DEF Hands
  <1>3. SetWeapons(hand[p], WeaponIds(v)) \in Hands BY <1>1, ObjectFacts
  <1> QED BY <1>1, <1>2, <1>3 DEF Equipped

LEMMA StepCases ==
  ASSUME InvInv, Next
  PROVE  \E p \in Players : Request(p) \/ Quiet(p) \/ Leaves(p)
  <1>1. /\ Typed /\ Loaded
        /\ obj \in [Players -> WeaponIdsTyped] /\ hand \in [Players -> Hands]
        /\ inv \in [Players -> Inventories] /\ open \in [Players -> Chests \cup Players \cup {NoBox}]
    BY DEF InvInv, Typed, WeaponIdsTyped
  <1>2. PICK p \in Players :
          \/ SpawnMe(p) \/ WeaponFire(p) \/ Reload(p)
          \/ Die(p) \/ Vanish(p) \/ GoHome(p)
          \/ \E b \in Chests \cup Players : OpenContainer(p, b)
          \/ \E from, to \in Refs(p) : Interact(p, from, to)
          \/ \E h \in Hands : SwitchWeapon(p, h)
          \/ \E h \in Hands, r \in Refs(p) : EquipWeapon(p, h, r) \/ UnequipWeapon(p, h, r)
          \/ \E r \in Refs(p) : ChangeArmor(p, r)
    BY Zenon DEF Next
  <1>3. CASE SpawnMe(p)
    <2>1. "primary" \in Hands /\ inv[p] \in Inventories BY <1>1 DEF Hands
    <2>2. WeaponIds(inv[p]) \in WeaponIdsTyped /\ SetWeapons("primary", WeaponIds(inv[p])) \in Hands
      BY <2>1, ObjectFacts
    <2>3. Quiet(p) BY <1>1, <1>3, <2>2 DEF SpawnMe, Quiet
    <2> QED BY <2>3
  <1>4. CASE WeaponFire(p)
    <2>1. /\ IsActiveState(p) /\ UNCHANGED <<status, home, owned, open, obj, hand>>
      BY <1>4 DEF WeaponFire, IsActiveState
    <2>2. Request(p) BY <1>1, <1>4, <2>1, FireSound DEF Request
    <2> QED BY <2>2
  <1>5. CASE Reload(p)
    <2>1. /\ IsActiveState(p) /\ UNCHANGED <<status, home, owned, open, obj, hand>>
      BY <1>5 DEF Reload, IsActiveState
    <2>2. Request(p) BY <1>1, <1>5, <2>1, ReloadSound DEF Request
    <2> QED BY <2>2
  <1>6. CASE Die(p) \/ Vanish(p) \/ GoHome(p) BY <1>6 DEF Leaves
  <1>7. CASE \E b \in Chests \cup Players : OpenContainer(p, b)
    <2>1. PICK b \in Chests \cup Players : OpenContainer(p, b) BY <1>7
    <2>2. IsActiveState(p) /\ UNCHANGED <<status, inv, obj, hand, box, home, owned>>
      BY <2>1 DEF OpenContainer, IsActiveState
    <2>3. open' \in [Players -> Chests \cup Players \cup {NoBox}] BY <1>1, <2>1 DEF OpenContainer
    <2>4. Quiet(p) BY <1>1, <2>2, <2>3 DEF Quiet
    <2> QED BY <2>4
  <1>8. CASE \E from, to \in Refs(p) : Interact(p, from, to)
    <2>1. PICK from \in Refs(p), to \in Refs(p) : Interact(p, from, to) BY <1>8
    <2>2. IsActiveState(p) /\ UNCHANGED <<status, home, owned, open, obj, hand>> BY <2>1 DEF Interact
    <2>3. Request(p) BY <1>1, <2>1, <2>2, InteractSound DEF Request
    <2> QED BY <2>3
  <1>9. CASE \E h \in Hands : SwitchWeapon(p, h)
    <2>1. PICK h \in Hands : SwitchWeapon(p, h) BY <1>9
    <2>2. IsActiveState(p) /\ UNCHANGED <<status, inv, obj, box, open, home, owned>> /\ hand' \in [Players -> Hands]
      BY <1>1, <2>1 DEF SwitchWeapon, IsActiveState
    <2>3. Quiet(p) BY <1>1, <2>2 DEF Quiet
    <2> QED BY <2>3
  <1>10. ASSUME NEW h \in Hands, NEW r \in Refs(p), EquipWeapon(p, h, r) PROVE Request(p)
    <2>1. IsActiveState(p) BY <1>10 DEF EquipWeapon
    <2>2. /\ inv' = [inv EXCEPT ![p] = inv'[p]] /\ Sound(inv[p], box, inv'[p], box')
          /\ Equipped(p, inv'[p], PutBox(box, open[p], r, inv[p].gear[h]), r)
      BY <1>1, <1>10, EquipSound
    <2>3. PICK v \in Inventories : v = inv'[p] BY <2>2 DEF Sound
    <2>4. obj' \in [Players -> WeaponIdsTyped] /\ hand' \in [Players -> Hands] BY <1>1, <2>2, <2>3, EquippedTyped
    <2> QED BY <2>1, <2>2, <2>4 DEF Request, Equipped
  <1>11. ASSUME NEW h \in Hands, NEW r \in Refs(p), UnequipWeapon(p, h, r) PROVE Request(p)
    <2>1. IsActiveState(p) BY <1>11 DEF UnequipWeapon
    <2>2. /\ inv' = [inv EXCEPT ![p] = inv'[p]] /\ Sound(inv[p], box, inv'[p], box')
          /\ Equipped(p, inv'[p], PutBox(box, open[p], r, inv[p].gear[h]), r)
      BY <1>1, <1>11, UnequipSound
    <2>3. PICK v \in Inventories : v = inv'[p] BY <2>2 DEF Sound
    <2>4. obj' \in [Players -> WeaponIdsTyped] /\ hand' \in [Players -> Hands] BY <1>1, <2>2, <2>3, EquippedTyped
    <2> QED BY <2>1, <2>2, <2>4 DEF Request, Equipped
  <1>12. ASSUME NEW r \in Refs(p), ChangeArmor(p, r) PROVE Request(p)
    <2>1. IsActiveState(p) BY <1>12 DEF ChangeArmor
    <2>2. /\ inv' = [inv EXCEPT ![p] = inv'[p]] /\ Sound(inv[p], box, inv'[p], box')
          /\ Equipped(p, inv'[p], PutBox(box, open[p], r, inv[p].gear["armor"]), r)
      BY <1>1, <1>12, ArmorSound
    <2>3. PICK v \in Inventories : v = inv'[p] BY <2>2 DEF Sound
    <2>4. obj' \in [Players -> WeaponIdsTyped] /\ hand' \in [Players -> Hands] BY <1>1, <2>2, <2>3, EquippedTyped
    <2> QED BY <2>1, <2>2, <2>4 DEF Request, Equipped
  <1> QED BY <1>2, <1>3, <1>4, <1>5, <1>6, <1>7, <1>8, <1>9, <1>10, <1>11, <1>12

LEMMA StepKeeps ==
  ASSUME InvInv, Next
  PROVE  InvInv'
  <1>1. PICK p \in Players : Request(p) \/ Quiet(p) \/ Leaves(p) BY StepCases
  <1>2. CASE Request(p)
    <2>1. open' \in [Players -> Chests \cup Players \cup {NoBox}] BY <1>2 DEF InvInv, Typed, Request
    <2> QED BY <1>2, <2>1, RequestKeeps DEF Request, WeaponIdsTyped
  <1>3. CASE Quiet(p) BY <1>3, QuietKeeps DEF Quiet, WeaponIdsTyped
  <1>4. CASE Leaves(p) BY <1>4, DieKeeps, VanishKeeps, GoHomeKeeps DEF Leaves
  <1> QED BY <1>1, <1>2, <1>3, <1>4

LEMMA StutterKeeps ==
  ASSUME InvInv, UNCHANGED vars
  PROVE  InvInv'
  <1>1. \A bp : Total(bp)' = Total(bp) BY TotalIs DEF vars
  <1>2. Typed' /\ Loaded' /\ LootOfDead' BY DEF vars, InvInv, Typed, Loaded, LootOfDead
  <1>3. HomeOfRecalled' BY DEF vars, InvInv, HomeOfRecalled, NoHome, NoSlots
  <1>4. Conserved' BY <1>1 DEF vars, InvInv, Conserved
  <1> QED BY <1>2, <1>3, <1>4 DEF InvInv

\* MakeRoomForThisGroup.
LEMMA InitKeeps ==
  ASSUME Init
  PROVE  InvInv
  <1>1. PICK s \in Starts :
           /\ status = [p \in Players |-> IF p \in DOMAIN s.kit THEN "loading" ELSE "gone"]
           /\ inv = [p \in Players |->
                       NewInventory(IF p \in DOMAIN s.kit THEN s.kit[p] ELSE NoHome)]
           /\ box = [b \in Chests \cup Players |->
                       [slots |-> IF b \in Chests THEN s.stock ELSE <<>>, ver |-> 0]]
    BY DEF Init
  <1>2. /\ \A p \in DOMAIN s.kit : s.kit[p].bag \in [Bag -> Slots] /\ s.kit[p].gear \in [Gear -> Slots]
        /\ s.stock \in Seq(Slots)
    BY StartAssumption
  <1>3. /\ obj = [p \in Players |-> [h \in Hands |-> NoBp]] /\ hand = [p \in Players |-> "primary"]
        /\ open = [p \in Players |-> NoBox] /\ home = [p \in Players |-> NoHome]
        /\ owned = [bp \in Blueprints |-> Total(bp)]
    BY DEF Init
  <1>4. ASSUME NEW p \in Players
        PROVE  inv[p] \in Inventories /\ inv[p].first = FirstEmpty(inv[p].bag) /\ MagFits(inv[p])
    <2>1. PICK k : k = IF p \in DOMAIN s.kit THEN s.kit[p] ELSE NoHome OBVIOUS
    <2>2. k.bag \in [Bag -> Slots] /\ k.gear \in [Gear -> Slots] BY <1>2, <2>1, NoHomeFacts DEF Homes
    <2>3. inv[p] = NewInventory(k) BY <1>1, <2>1
    <2> QED BY <2>2, <2>3, NewFacts
  <1>5. inv \in [Players -> Inventories] BY <1>1, <1>4
  <1>6. box \in Boxes
    <2>1. <<>> \in Seq(Slots) /\ 0 \in 0 .. VersionMod - 1 BY SizeAssumption
    <2>2. \A b \in Chests \cup Players :
             [slots |-> IF b \in Chests THEN s.stock ELSE <<>>, ver |-> 0]
             \in [slots : Seq(Slots), ver : 0 .. VersionMod - 1]
      BY <1>2, <2>1
    <2> QED BY <1>1, <2>2 DEF Boxes
  <1>7. home \in [Players -> Homes] BY <1>3, NoHomeFacts
  <1>8. \A bp : Total(bp) \in Nat BY <1>5, <1>6, <1>7, TotalIs, TotalNat
  <1>9. Typed
    <2>1. status \in [Players -> {"loading", "in", "dead", "home", "gone"}] BY <1>1
    <2>2. obj \in [Players -> [Hands -> Blueprints \cup {NoBp}]] /\ hand \in [Players -> Hands] BY <1>3 DEF Hands
    <2>3. open \in [Players -> Chests \cup Players \cup {NoBox}] BY <1>3
    <2>4. owned \in [Blueprints -> Nat] BY <1>3, <1>8
    <2> QED BY <1>5, <1>6, <1>7, <2>1, <2>2, <2>3, <2>4, TypedHomes
  <1>10. Loaded BY <1>4 DEF Loaded
  <1>11. LootOfDead
    <2> SUFFICES ASSUME NEW p \in Players PROVE DOMAIN box[p].slots = {} BY DEF LootOfDead
    <2>1. p \notin Chests BY BoxAssumption
    <2>2. box[p].slots = <<>> BY <1>1, <2>1
    <2> QED BY <2>2
  <1>12. HomeOfRecalled BY <1>3 DEF HomeOfRecalled
  <1>13. Conserved
    <2>1. \A bp \in Blueprints : owned[bp] = Total(bp) /\ owned[bp] \in Nat BY <1>3, <1>8
    <2>2. ASSUME NEW a \in Ammo PROVE Total(a) <= owned[a]
      <3>1. PICK n \in Nat : n = Total(a) /\ n = owned[a] BY <2>1 DEF Blueprints
      <3>2. n <= n OBVIOUS
      <3> QED BY <3>1, <3>2
    <2>3. \A bp \in Weapons \cup Armors : Total(bp) = owned[bp] BY <2>1 DEF Blueprints
    <2> QED BY <2>2, <2>3 DEF Conserved
  <1> QED BY <1>9, <1>10, <1>11, <1>12, <1>13 DEF InvInv

\* The invariant the theorems rest on.
THEOREM InvariantHolds == Spec => []InvInv
  <1>1. Init => InvInv BY InitKeeps
  <1>2. InvInv /\ [Next]_vars => InvInv' BY StepKeeps, StutterKeeps
  <1> QED BY <1>1, <1>2, PTL DEF Spec

\* Slots, indexes and versions have their types; in particular a slot has a
\* blueprint exactly when it has a quantity, so that IsEmpty of
\* PlayerInventory never sees one that is neither empty nor usable.
THEOREM InventoryTypeOK == Spec => []TypeOK
  <1>1. InvInv => TypeOK
    <2> SUFFICES ASSUME InvInv PROVE TypeOK OBVIOUS
    <2>1. Typed BY DEF InvInv
    <2>2. ASSUME NEW p \in Players
          PROVE  /\ inv[p].bag \in [Bag -> Slots] /\ inv[p].gear \in [Gear -> Slots]
                 /\ inv[p].mag \in [Hands -> Slots] /\ inv[p].first \in 0 .. BagSize
                 /\ inv[p].ver \in 0 .. VersionMod - 1
                 /\ home[p].bag \in [Bag -> Slots] /\ home[p].gear \in [Gear -> Slots]
      BY <2>1 DEF Typed, Inventories
    <2>3. ASSUME NEW b \in Chests \cup Players
          PROVE  box[b].slots \in Seq(Slots) /\ box[b].ver \in 0 .. VersionMod - 1
      BY <2>1 DEF Typed, Boxes
    <2> QED BY <2>1, <2>2, <2>3 DEF Typed, TypeOK
  <1> QED BY <1>1, InvariantHolds, PTL

\* Whatever the players of a room do, in any order, splitting, merging,
\* swapping, equipping, reloading, looting and extracting keep the quantity of
\* every weapon and armour and make no ammunition.
THEOREM InventoryConserved == Spec => []Conserved
  <1>1. InvInv => Conserved BY DEF InvInv
  <1> QED BY <1>1, InvariantHolds, PTL

LEMMA EmptyDomain ==
  ASSUME NEW s \in Seq(Slots), DOMAIN s = {}
  PROVE  s = <<>>
  <1>1. Len(s) \in Nat /\ DOMAIN s = 1 .. Len(s) OBVIOUS
  <1>2. Len(s) = 0
    <2> SUFFICES ASSUME Len(s) # 0 PROVE FALSE OBVIOUS
    <2>1. 1 \in 1 .. Len(s) BY <1>1
    <2> QED BY <1>1, <2>1
  <1> QED BY <1>2

\* Every handler that changes the content of a bag, the equipment or a
\* container leaves another version than it found, so that a request made from
\* the picture before it is refused; a loot container that has just been made
\* was nobody's picture yet.
THEOREM InventoryVersionsTell == Spec => VersionsTell
  <1> DEFINE Tell == /\ \A p \in Players : (inv'[p].bag # inv[p].bag \/ inv'[p].gear # inv[p].gear)
                                           => inv'[p].ver # inv[p].ver
                     /\ \A b \in Chests \cup Players :
                          (box'[b].slots # box[b].slots /\ box[b].slots # <<>>) => box'[b].ver # box[b].ver
  <1>1. InvInv /\ [Next]_vars => [Tell]_vars
    <2> SUFFICES ASSUME InvInv, Next PROVE Tell OBVIOUS
    <2>1. PICK p \in Players : Request(p) \/ Quiet(p) \/ Leaves(p) BY StepCases
    <2>2. inv \in [Players -> Inventories] /\ box \in Boxes BY DEF InvInv, Typed
    <2>3. CASE Request(p)
      <3>1. \A q \in Players \ {p} : inv'[q] = inv[q] BY <2>2, <2>3 DEF Request
      <3>2. (inv'[p].bag # inv[p].bag \/ inv'[p].gear # inv[p].gear) => inv'[p].ver # inv[p].ver
        BY <2>3 DEF Request, Sound
      <3>3. \A b \in Chests \cup Players : box'[b].slots # box[b].slots => box'[b].ver # box[b].ver
        BY <2>3 DEF Request, Sound
      <3> QED BY <3>1, <3>2, <3>3
    <2>4. CASE Quiet(p) BY <2>4 DEF Quiet
    <2>5. CASE Die(p)
      <3>1. inv' = [inv EXCEPT ![p] = Nothing(inv[p])] /\ status[p] = "in" BY <2>5 DEF Die
      <3>2. inv'[p].ver # inv[p].ver /\ \A q \in Players \ {p} : inv'[q] = inv[q]
        BY <2>2, <3>1, NothingFacts
      <3>3. box[p].slots = <<>>
        <4>1. box[p].slots \in Seq(Slots) BY <2>2 DEF Boxes
        <4>2. DOMAIN box[p].slots = {} BY <3>1 DEF InvInv, LootOfDead
        <4>3. PICK s : s = box[p].slots OBVIOUS
        <4>4. s \in Seq(Slots) /\ DOMAIN s = {} BY <4>1, <4>2, <4>3
        <4>5. s = <<>> BY <4>4, EmptyDomain
        <4> QED BY <4>3, <4>5
      <3>4. \A b \in (Chests \cup Players) \ {p} : box'[b] = box[b] BY <2>2, <2>5 DEF Die, Boxes
      <3> QED BY <3>2, <3>3, <3>4
    <2>6. CASE Vanish(p)
      <3>1. inv' = [inv EXCEPT ![p] = IF status[p] = "in" THEN Nothing(inv[p]) ELSE inv[p]] /\ box' = box
        BY <2>6 DEF Vanish
      <3>2. \A q \in Players \ {p} : inv'[q] = inv[q] BY <2>2, <3>1
      <3>3. inv'[p].ver # inv[p].ver \/ inv'[p] = inv[p] BY <2>2, <3>1, NothingFacts
      <3> QED BY <3>1, <3>2, <3>3
    <2>7. CASE GoHome(p) BY <2>7 DEF GoHome
    <2> QED BY <2>1, <2>3, <2>4, <2>5, <2>6, <2>7 DEF Leaves
  <1> QED BY <1>1, InvariantHolds, PTL DEF Spec, VersionsTell

\* A step that is no stutter keeps the ammunition there is, or is a shot, or
\* takes a player out of the room, or found no place for a magazine.
THEOREM InventoryAmmoKept == Spec => AmmoKept
  <1> DEFINE Kept == \A a \in Ammo : Total(a)' < Total(a) =>
                       \E p \in Players :
                         \/ status'[p] # status[p]
                         \/ Shot(p, a)
                         \/ \A i \in Bag : ~ IsEmpty(inv'[p].bag[i]) /\ inv'[p].bag[i].bp # a
  <1>1. InvInv /\ [Next]_vars => [Kept]_vars
    <2> SUFFICES ASSUME InvInv, Next, NEW a \in Ammo, Total(a)' < Total(a)
                 PROVE  \E p \in Players :
                          \/ status'[p] # status[p]
                          \/ Shot(p, a)
                          \/ \A i \in Bag : ~ IsEmpty(inv'[p].bag[i]) /\ inv'[p].bag[i].bp # a
      OBVIOUS
    <2>1. PICK p \in Players : Request(p) \/ Quiet(p) \/ Leaves(p) BY StepCases
    <2>2. a \in Blueprints BY DEF Blueprints
    <2>3. Typed /\ inv \in [Players -> Inventories] /\ home \in [Players -> Homes] /\ box \in Boxes
      BY TypedHomes DEF InvInv
    <2>4. PICK T \in Nat : T = Total(a) BY <2>3, TotalIs, TotalNat
    <2>5. CASE Request(p)
      <3>1. open' \in [Players -> Chests \cup Players \cup {NoBox}] BY <2>3, <2>5 DEF Typed, Request
      <3>2. /\ InvInv'
            /\ Total(a)' - Held(inv'[p], box', a) = Total(a) - Held(inv[p], box, a)
        BY <2>2, <2>5, <3>1, RequestKeeps DEF Request, WeaponIdsTyped
      <3>3. inv' \in [Players -> Inventories] /\ home' \in [Players -> Homes] /\ box' \in Boxes
        BY <3>2 DEF InvInv, Typed, Homes
      <3>4. PICK U \in Nat : U = Total(a)'
        <4>1. PICK iu \in [Players -> Inventories], hu \in [Players -> Homes], bu \in Boxes :
                 iu = inv' /\ hu = home' /\ bu = box'
          BY <3>3
        <4>2. TotalOf(status', iu, hu, bu, a) \in Nat BY TotalNat
        <4> QED BY <4>1, <4>2, TotalIs
      <3>5. PICK m \in Nat, n \in Nat : m = Held(inv[p], box, a) /\ n = Held(inv'[p], box', a)
        BY <2>3, <3>3, HeldNat
      <3>6. U - n = T - m /\ U < T BY <2>4, <3>2, <3>4, <3>5
      <3>7. \/ n = m
            \/ \A i \in Bag : ~ IsEmpty(inv'[p].bag[i]) /\ inv'[p].bag[i].bp # a
            \/ inv'[p] = [inv[p] EXCEPT !.mag = inv'[p].mag] /\ n = m - 1
        BY <2>5, <3>5 DEF Request, Sound
      <3>8. CASE n = m BY <3>6, <3>8
      <3>9. CASE \A i \in Bag : ~ IsEmpty(inv'[p].bag[i]) /\ inv'[p].bag[i].bp # a BY <3>9
      <3>10. CASE inv'[p] = [inv[p] EXCEPT !.mag = inv'[p].mag] /\ n = m - 1
        <4>1. U = T - 1 BY <3>6, <3>10
        <4>2. Total(a)' = Total(a) - 1 BY <2>4, <3>4, <4>1
        <4>3. Shot(p, a) BY <3>10, <4>2 DEF Shot
        <4> QED BY <4>3
      <3> QED BY <3>7, <3>8, <3>9, <3>10
    <2>6. CASE Quiet(p)
      <3>1. Total(a)' = Total(a) BY <2>2, <2>6, QuietKeeps DEF Quiet, WeaponIdsTyped
      <3>2. T < T BY <2>4, <3>1
      <3> QED BY <3>2
    <2>7. CASE Leaves(p)
      <3>1. status'[p] # status[p]
        BY <2>3, <2>7 DEF Leaves, Die, Vanish, GoHome, Typed, IsActiveState
      <3> QED BY <3>1
    <2> QED BY <2>1, <2>5, <2>6, <2>7
  <1> QED BY <1>1, InvariantHolds, PTL DEF Spec, AmmoKept
-----------------------------------------------------------------------------
(* The hand and the equipment.                                             *)

InHand(st, v, ids, h) ==
    st = "in" => /\ ids = WeaponIds(v)
                 /\ ids[h] = NoBp => \A o \in Hands : ids[o] = NoBp

\* What the others see and hold does not change with a step of p.
OthersHold(p) ==
    \A q \in Players \ {p} : /\ status'[q] = status[q] /\ inv'[q] = inv[q]
                             /\ obj'[q] = obj[q] /\ hand'[q] = hand[q]

LEMMA HandsKept ==
  ASSUME HandHoldsWeapon, NEW p \in Players, OthersHold(p), InHand(status'[p], inv'[p], obj'[p], hand'[p])
  PROVE  HandHoldsWeapon'
  <1> SUFFICES ASSUME NEW q \in Players
               PROVE  InHand(status'[q], inv'[q], obj'[q], hand'[q])
    BY DEF HandHoldsWeapon, InHand
  <1>1. CASE q = p BY <1>1
  <1>2. CASE q # p BY <1>2 DEF OthersHold, HandHoldsWeapon, InHand
  <1> QED BY <1>1, <1>2

\* SetWeapons at the end of RequestEquipItem.
LEMMA EquippedHolds ==
  ASSUME Typed, HandHoldsWeapon, NEW p \in Players, NEW v \in Inventories, NEW bs, NEW r,
         Equipped(p, v, bs, r)
  PROVE  HandHoldsWeapon'
  <1>1. /\ status' = status /\ inv' = [inv EXCEPT ![p] = v]
        /\ status[p] = "in" => /\ obj' = [obj EXCEPT ![p] = WeaponIds(v)]
                               /\ hand' = [hand EXCEPT ![p] = SetWeapons(@, WeaponIds(v))]
        /\ status[p] # "in" => UNCHANGED <<obj, hand>>
    BY DEF Equipped
  <1>2. OthersHold(p) BY <1>1 DEF Typed, OthersHold
  <1>3. hand[p] \in Hands /\ inv'[p] = v BY <1>1 DEF Typed
  <1>4. InHand(status'[p], inv'[p], obj'[p], hand'[p])
    <2>1. CASE status[p] = "in"
      <3>1. obj'[p] = WeaponIds(v) /\ hand'[p] = SetWeapons(hand[p], WeaponIds(v)) BY <1>1, <2>1 DEF Typed
      <3> QED BY <1>3, <3>1, ObjectFacts DEF InHand
    <2>2. CASE status[p] # "in" BY <1>1, <2>2 DEF InHand
    <2> QED BY <2>1, <2>2
  <1> QED BY <1>2, <1>4, HandsKept

\* A step that keeps the equipment and the object of p.
LEMMA SameGearHolds ==
  ASSUME Typed, HandHoldsWeapon, NEW p \in Players, inv' = [inv EXCEPT ![p] = inv'[p]],
         inv'[p].gear = inv[p].gear, UNCHANGED <<status, obj, hand>>
  PROVE  HandHoldsWeapon'
  <1>1. OthersHold(p) BY DEF Typed, OthersHold
  <1>2. WeaponIds(inv'[p]) = WeaponIds(inv[p]) BY DEF WeaponIds
  <1>3. InHand(status'[p], inv'[p], obj'[p], hand'[p]) BY <1>2 DEF HandHoldsWeapon, InHand
  <1> QED BY <1>1, <1>3, HandsKept

LEMMA StepHolds ==
  ASSUME InvInv, HandHoldsWeapon, Next
  PROVE  HandHoldsWeapon'
  <1>1. Typed /\ Loaded /\ inv \in [Players -> Inventories] BY DEF InvInv, Typed
  <1>2. PICK p \in Players :
          \/ SpawnMe(p) \/ WeaponFire(p) \/ Reload(p)
          \/ Die(p) \/ Vanish(p) \/ GoHome(p)
          \/ \E b \in Chests \cup Players : OpenContainer(p, b)
          \/ \E from, to \in Refs(p) : Interact(p, from, to)
          \/ \E h \in Hands : SwitchWeapon(p, h)
          \/ \E h \in Hands, r \in Refs(p) : EquipWeapon(p, h, r) \/ UnequipWeapon(p, h, r)
          \/ \E r \in Refs(p) : ChangeArmor(p, r)
    BY Zenon DEF Next
  <1>3. CASE SpawnMe(p)
    <2>1. "primary" \in Hands /\ inv[p] \in Inventories BY <1>1 DEF Hands
    <2>2. /\ OthersHold(p) /\ inv'[p] = inv[p]
          /\ obj'[p] = WeaponIds(inv[p]) /\ hand'[p] = SetWeapons("primary", WeaponIds(inv[p]))
      BY <1>1, <1>3 DEF SpawnMe, Typed, OthersHold
    <2>3. InHand(status'[p], inv'[p], obj'[p], hand'[p]) BY <2>1, <2>2, ObjectFacts DEF InHand
    <2> QED BY <2>2, <2>3, HandsKept
  <1>4. CASE WeaponFire(p)
    <2>1. UNCHANGED <<status, obj, hand>> BY <1>4 DEF WeaponFire
    <2> QED BY <1>1, <1>4, <2>1, FireSound, SameGearHolds
  <1>5. CASE Reload(p)
    <2>1. UNCHANGED <<status, obj, hand>> BY <1>5 DEF Reload
    <2> QED BY <1>1, <1>5, <2>1, ReloadSound, SameGearHolds
  <1>6. CASE Die(p) \/ Vanish(p) \/ GoHome(p)
    <2>1. OthersHold(p) /\ status'[p] # "in"
      BY <1>1, <1>6 DEF Die, Vanish, GoHome, Typed, OthersHold
    <2>2. InHand(status'[p], inv'[p], obj'[p], hand'[p]) BY <2>1 DEF InHand
    <2> QED BY <2>1, <2>2, HandsKept
  <1>7. CASE \E b \in Chests \cup Players : OpenContainer(p, b)
    <2>1. UNCHANGED <<status, inv, obj, hand>> BY <1>7 DEF OpenContainer
    <2> QED BY <2>1 DEF HandHoldsWeapon, WeaponIds
  <1>8. CASE \E from, to \in Refs(p) : Interact(p, from, to)
    <2>1. PICK from \in Refs(p), to \in Refs(p) : Interact(p, from, to) BY <1>8
    <2>2. UNCHANGED <<status, obj, hand>> BY <2>1 DEF Interact
    <2> QED BY <1>1, <2>1, <2>2, InteractSound, SameGearHolds
  <1>9. CASE \E h \in Hands : SwitchWeapon(p, h)
    <2>1. PICK h \in Hands : SwitchWeapon(p, h) BY <1>9
    <2>2. OthersHold(p) /\ UNCHANGED <<status, inv, obj>> /\ hand'[p] = h /\ obj[p][h] # NoBp
      BY <1>1, <2>1 DEF SwitchWeapon, Typed, OthersHold
    <2>3. InHand(status'[p], inv'[p], obj'[p], hand'[p]) BY <2>2 DEF HandHoldsWeapon, InHand, WeaponIds
    <2> QED BY <2>2, <2>3, HandsKept
  <1>10. ASSUME NEW h \in Hands, NEW r \in Refs(p), EquipWeapon(p, h, r) \/ UnequipWeapon(p, h, r)
         PROVE  HandHoldsWeapon'
    <2>1. /\ Sound(inv[p], box, inv'[p], box')
          /\ Equipped(p, inv'[p], PutBox(box, open[p], r, inv[p].gear[h]), r)
      BY <1>1, <1>10, EquipSound, UnequipSound
    <2>2. PICK v \in Inventories : v = inv'[p] BY <2>1 DEF Sound
    <2> QED BY <1>1, <2>1, <2>2, EquippedHolds
  <1>11. ASSUME NEW r \in Refs(p), ChangeArmor(p, r) PROVE HandHoldsWeapon'
    <2>1. /\ Sound(inv[p], box, inv'[p], box')
          /\ Equipped(p, inv'[p], PutBox(box, open[p], r, inv[p].gear["armor"]), r)
      BY <1>1, <1>11, ArmorSound
    <2>2. PICK v \in Inventories : v = inv'[p] BY <2>1 DEF Sound
    <2> QED BY <1>1, <2>1, <2>2, EquippedHolds
  <1> QED BY <1>2, <1>3, <1>4, <1>5, <1>6, <1>7, <1>8, <1>9, <1>10, <1>11

\* The player object has the weapons of the inventory, and a player with a
\* weapon holds one, whatever he equips, puts away, loots or switches to and
\* however often he repeats RequestSpawnMe.
THEOREM InventoryHandHoldsWeapon == Spec => []HandHoldsWeapon
  <1>1. Init => HandHoldsWeapon
    <2> SUFFICES ASSUME Init, NEW p \in Players PROVE status[p] # "in" BY DEF HandHoldsWeapon
    <2> QED BY DEF Init
  <1>2. InvInv /\ HandHoldsWeapon /\ [Next]_vars => HandHoldsWeapon'
    <2>1. InvInv /\ HandHoldsWeapon /\ Next => HandHoldsWeapon' BY StepHolds
    <2>2. HandHoldsWeapon /\ UNCHANGED vars => HandHoldsWeapon' BY DEF vars, HandHoldsWeapon, WeaponIds
    <2> QED BY <2>1, <2>2
  <1> QED BY <1>1, <1>2, InvariantHolds, PTL DEF Spec

\* The tickets name weapons for the hands and armour for the body.
\* /match/start looks at this for one weapon slot only.
StartsFit ==
    \A s \in Starts : \A p \in DOMAIN s.kit :
      /\ \A h \in Hands : s.kit[p].gear[h].bp \in Weapons \cup {NoBp}
      /\ s.kit[p].gear["armor"].bp \in Armors \cup {NoBp}

Wears(gear) ==
    /\ \A h \in Hands : gear[h].bp \in Weapons \cup {NoBp}
    /\ gear["armor"].bp \in Armors \cup {NoBp}

AllWear == \A p \in Players : Wears(inv[p].gear)

LEMMA NothingWears == Wears([g \in Gear |-> Empty])
  BY DEF Wears, Gear, Hands, Empty

LEMMA ChangeWears ==
  ASSUME NEW gear \in [Gear -> Slots], Wears(gear), NEW s \in Slots, NEW g \in Gear,
         g \in Hands => s.bp \in Weapons \cup {NoBp}, g = "armor" => s.bp \in Armors \cup {NoBp}
  PROVE  Wears([gear EXCEPT ![g] = s])
  BY DEF Wears, Gear, Hands

LEMMA WearsKept ==
  ASSUME InvInv, AllWear, NEW p \in Players, NEW v, inv' = [inv EXCEPT ![p] = v], Wears(v.gear)
  PROVE  AllWear'
  BY DEF InvInv, Typed, AllWear

LEMMA StepWears ==
  ASSUME InvInv, AllWear, Next
  PROVE  AllWear'
  <1>1. Typed /\ Loaded /\ inv \in [Players -> Inventories] BY DEF InvInv, Typed
  <1>2. PICK p \in Players :
          \/ SpawnMe(p) \/ WeaponFire(p) \/ Reload(p)
          \/ Die(p) \/ Vanish(p) \/ GoHome(p)
          \/ \E b \in Chests \cup Players : OpenContainer(p, b)
          \/ \E from, to \in Refs(p) : Interact(p, from, to)
          \/ \E h \in Hands : SwitchWeapon(p, h)
          \/ \E h \in Hands, r \in Refs(p) : EquipWeapon(p, h, r) \/ UnequipWeapon(p, h, r)
          \/ \E r \in Refs(p) : ChangeArmor(p, r)
    BY Zenon DEF Next
  <1>3. PICK w : w = inv'[p] OBVIOUS
  <1>4. /\ inv[p] \in Inventories /\ inv[p].gear \in [Gear -> Slots] /\ Wears(inv[p].gear)
    BY <1>1 DEF AllWear, Inventories
  <1>5. ASSUME inv' = inv PROVE AllWear' BY <1>5 DEF AllWear
  <1>6. ASSUME inv' = [inv EXCEPT ![p] = inv'[p]], inv'[p].gear = inv[p].gear PROVE AllWear'
    <2>1. inv' = [inv EXCEPT ![p] = w] /\ Wears(w.gear) BY <1>3, <1>4, <1>6
    <2> QED BY <2>1, WearsKept
  <1>7. CASE SpawnMe(p) \/ GoHome(p) \/ (\E b \in Chests \cup Players : OpenContainer(p, b))
             \/ \E h \in Hands : SwitchWeapon(p, h)
    BY <1>5, <1>7 DEF SpawnMe, GoHome, OpenContainer, SwitchWeapon
  <1>8. CASE WeaponFire(p) BY <1>1, <1>6, <1>8, FireSound
  <1>9. CASE Reload(p) BY <1>1, <1>6, <1>9, ReloadSound
  <1>10. CASE \E from, to \in Refs(p) : Interact(p, from, to)
    <2>1. PICK from \in Refs(p), to \in Refs(p) : Interact(p, from, to) BY <1>10
    <2> QED BY <1>1, <1>6, <2>1, InteractSound
  <1>11. CASE Die(p) \/ Vanish(p)
    <2>1. PICK v : v = Nothing(inv[p]) OBVIOUS
    <2>2. Wears(v.gear) BY <1>4, <2>1, NothingFacts, NothingWears
    <2>3. inv' = [inv EXCEPT ![p] = v] \/ inv' = [inv EXCEPT ![p] = inv[p]] BY <1>11, <2>1 DEF Die, Vanish
    <2> QED BY <1>4, <2>2, <2>3, WearsKept
  <1>12. ASSUME NEW h \in Hands, NEW r \in Refs(p), EquipWeapon(p, h, r) \/ UnequipWeapon(p, h, r)
         PROVE  AllWear'
    <2>1. /\ inv' = [inv EXCEPT ![p] = inv'[p]]
          /\ \E s \in Slots : s.bp \in Weapons \cup {NoBp} /\ inv'[p].gear = [inv[p].gear EXCEPT ![h] = s]
      BY <1>1, <1>12, EquipSound, UnequipSound
    <2>2. PICK s \in Slots : s.bp \in Weapons \cup {NoBp} /\ w.gear = [inv[p].gear EXCEPT ![h] = s]
      BY <1>3, <2>1
    <2>3. h \in Gear /\ h # "armor" BY DEF Gear, Hands
    <2>4. Wears(w.gear) BY <1>4, <2>2, <2>3, ChangeWears
    <2> QED BY <1>3, <2>1, <2>4, WearsKept
  <1>13. ASSUME NEW r \in Refs(p), ChangeArmor(p, r) PROVE AllWear'
    <2>1. /\ inv' = [inv EXCEPT ![p] = inv'[p]]
          /\ \E s \in Slots : s.bp \in Armors \cup {NoBp} /\ inv'[p].gear = [inv[p].gear EXCEPT !["armor"] = s]
      BY <1>1, <1>13, ArmorSound
    <2>2. PICK s \in Slots : s.bp \in Armors \cup {NoBp} /\ w.gear = [inv[p].gear EXCEPT !["armor"] = s]
      BY <1>3, <2>1
    <2>3. "armor" \in Gear /\ "armor" \notin Hands BY DEF Gear, Hands
    <2>4. Wears(w.gear) BY <1>4, <2>2, <2>3, ChangeWears
    <2> QED BY <1>3, <2>1, <2>4, WearsKept
  <1> QED BY <1>2, <1>7, <1>8, <1>9, <1>10, <1>11, <1>12, <1>13

\* When the tickets equip weapons in the hands and armour on the body, so does
\* every later state; and a magazine that is not empty is in a weapon and holds
\* at most maxAmmo rounds of that weapon's ammunition, after any sequence of
\* equipping, unequipping, swapping, reloading and firing.
THEOREM InventoryGearFits ==
  ASSUME StartsFit
  PROVE  Spec => []GearFits
  <1>1. Init => AllWear
    <2> SUFFICES ASSUME Init, NEW p \in Players PROVE Wears(inv[p].gear) BY DEF AllWear
    <2>1. PICK s \in Starts :
             inv = [q \in Players |-> NewInventory(IF q \in DOMAIN s.kit THEN s.kit[q] ELSE NoHome)]
      BY DEF Init
    <2>2. PICK k : k = IF p \in DOMAIN s.kit THEN s.kit[p] ELSE NoHome OBVIOUS
    <2>3. k.bag \in [Bag -> Slots] /\ k.gear \in [Gear -> Slots]
      BY <2>2, StartAssumption, NoHomeFacts DEF Homes
    <2>4. inv[p].gear = k.gear
      <3>1. inv[p] = NewInventory(k) BY <2>1, <2>2
      <3> QED BY <2>3, <3>1, NewFacts
    <2>5. Wears(k.gear)
      <3>1. CASE p \in DOMAIN s.kit BY <2>2, <3>1 DEF StartsFit, Wears
      <3>2. CASE p \notin DOMAIN s.kit BY <2>2, <3>2, NothingWears DEF NoHome
      <3> QED BY <3>1, <3>2
    <2> QED BY <2>4, <2>5
  <1>2. InvInv /\ AllWear /\ [Next]_vars => AllWear'
    <2>1. InvInv /\ AllWear /\ Next => AllWear' BY StepWears
    <2>2. AllWear /\ UNCHANGED vars => AllWear' BY DEF vars, AllWear
    <2> QED BY <2>1, <2>2
  <1>3. InvInv /\ AllWear => GearFits
    <2> SUFFICES ASSUME InvInv, AllWear, NEW p \in Players, NEW h \in Hands, ~ IsEmpty(inv[p].mag[h])
                 PROVE  /\ inv[p].gear[h].bp \in Weapons
                        /\ inv[p].mag[h].bp = AmmoType[inv[p].gear[h].bp]
                        /\ inv[p].mag[h].qty \in 1 .. MaxAmmo[inv[p].gear[h].bp]
      BY DEF GearFits, AllWear, Wears
    <2>1. PICK u \in Inventories : u = inv[p] /\ MagFits(u) BY DEF InvInv, Typed, Loaded
    <2>2. PICK m \in Slots : m = u.mag[h] BY DEF Inventories
    <2>3. m # Empty BY <2>1, <2>2 DEF IsEmpty, Empty
    <2>4. m.qty \in Nat \ {0} BY <2>3 DEF Slots
    <2>5. /\ u.gear[h].bp \in Weapons /\ m.bp = AmmoType[u.gear[h].bp] /\ m.qty <= MaxAmmo[u.gear[h].bp]
      BY <2>1, <2>2, <2>3 DEF MagFits
    <2>6. MaxAmmo[u.gear[h].bp] \in Nat BY <2>5, WeaponFacts
    <2>7. m.qty \in 1 .. MaxAmmo[u.gear[h].bp] BY <2>4, <2>5, <2>6
    <2> QED BY <2>1, <2>2, <2>5, <2>7
  <1> QED BY <1>1, <1>2, <1>3, InvariantHolds, PTL DEF Spec
=============================================================================
