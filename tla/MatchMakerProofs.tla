-------------------------- MODULE MatchMakerProofs --------------------------
(***************************************************************************)
(* The MatchMaker for every number of tickets, every choice of aggressions *)
(* and every group size: the two indexes agree, groups fit their pivot, no *)
(* waiting player is dropped or placed twice, and the flags hide no group. *)
(***************************************************************************)
EXTENDS MatchMaker, FiniteSetTheorems, TLAPS

\* Strictly increasing, as the time vector and the buckets are.
Ordered(s) == \A i, j \in 1 .. Len(s) : i < j => s[i] < s[j]

\* No element twice.
Distinct(s) == \A i, j \in 1 .. Len(s) : s[i] = s[j] => i = j

\* The place of a number among the members of a set.
Rank(S, k) == Cardinality({j \in S : j <= k})
-----------------------------------------------------------------------------
(* Sequences and their ranges.                                             *)

LEMMA RangeIndex ==
  ASSUME NEW S, NEW s \in Seq(S)
  PROVE  /\ Len(s) \in Nat /\ DOMAIN s = 1 .. Len(s)
         /\ \A i \in 1 .. Len(s) : s[i] \in S /\ s[i] \in Range(s)
         /\ \A x : x \in Range(s) <=> \E i \in 1 .. Len(s) : s[i] = x
         /\ Range(s) \subseteq S
         /\ s = <<>> <=> Range(s) = {}
  <1>1. DOMAIN s = 1 .. Len(s) /\ Len(s) \in Nat /\ \A i \in 1 .. Len(s) : s[i] \in S OBVIOUS
  <1>2. \A x : x \in Range(s) <=> \E i \in 1 .. Len(s) : s[i] = x BY <1>1, Zenon DEF Range
  <1>3. s = <<>> => Range(s) = {}
    <2> SUFFICES ASSUME s = <<>>, NEW x \in Range(s) PROVE FALSE OBVIOUS
    <2>1. PICK i \in 1 .. Len(s) : s[i] = x BY <1>2
    <2> QED BY <2>1
  <1>4. s # <<>> => Range(s) # {}
    <2> SUFFICES ASSUME s # <<>> PROVE Range(s) # {} OBVIOUS
    <2>1. 1 \in 1 .. Len(s) OBVIOUS
    <2> QED BY <1>2, <2>1
  <1> QED BY <1>1, <1>2, <1>3, <1>4

LEMMA EmptyFacts == Range(<<>>) = {} /\ Ordered(<<>>) /\ Distinct(<<>>)
  BY DEF Range, Ordered, Distinct

LEMMA OrderedDistinct ==
  ASSUME NEW s \in Seq(Nat), Ordered(s)
  PROVE  Distinct(s)
  <1> SUFFICES ASSUME NEW i \in 1 .. Len(s), NEW j \in 1 .. Len(s), s[i] = s[j], i # j PROVE FALSE
    BY DEF Distinct
  <1>1. s[i] \in Nat /\ s[j] \in Nat OBVIOUS
  <1>2. i < j \/ j < i OBVIOUS
  <1>3. s[i] < s[j] \/ s[j] < s[i] BY <1>2 DEF Ordered
  <1> QED BY <1>1, <1>3

LEMMA ConcatFacts ==
  ASSUME NEW S, NEW s \in Seq(S), NEW r \in Seq(S)
  PROVE  /\ s \o r \in Seq(S) /\ Len(s \o r) = Len(s) + Len(r)
         /\ Range(s \o r) = Range(s) \cup Range(r)
         /\ Distinct(s) /\ Distinct(r) /\ Range(s) \cap Range(r) = {} => Distinct(s \o r)
         /\ Ordered(s) /\ Ordered(r) /\ (\A x \in Range(s), y \in Range(r) : x < y)
              => Ordered(s \o r)
         /\ s # <<>> => (s \o r)[1] = s[1]
  <1>1. PICK q : q = s \o r OBVIOUS
  <1>2. /\ q \in Seq(S) /\ Len(q) = Len(s) + Len(r) /\ Len(s) \in Nat /\ Len(r) \in Nat
        /\ \A i \in 1 .. Len(q) : q[i] = IF i <= Len(s) THEN s[i] ELSE r[i - Len(s)]
    BY <1>1
  <1>3. \A i \in 1 .. Len(q) : i <= Len(s) => i \in 1 .. Len(s) /\ q[i] = s[i] BY <1>2
  <1>4. \A i \in 1 .. Len(q) : i > Len(s) => i - Len(s) \in 1 .. Len(r) /\ q[i] = r[i - Len(s)] BY <1>2
  <1>5. ASSUME NEW x PROVE x \in Range(q) <=> x \in Range(s) \/ x \in Range(r)
    <2>1. ASSUME x \in Range(q) PROVE x \in Range(s) \/ x \in Range(r)
      <3>1. PICK i \in 1 .. Len(q) : q[i] = x BY <1>2, <2>1, RangeIndex
      <3>2. CASE i <= Len(s) BY <1>3, <3>1, <3>2, RangeIndex
      <3>3. CASE i > Len(s)
        <4>1. i - Len(s) \in 1 .. Len(r) /\ r[i - Len(s)] = x BY <1>4, <3>1, <3>3
        <4> QED BY <4>1, RangeIndex
      <3> QED BY <1>2, <3>2, <3>3
    <2>2. ASSUME x \in Range(s) PROVE x \in Range(q)
      <3>1. PICK i \in 1 .. Len(s) : s[i] = x BY <2>2, RangeIndex
      <3>2. i \in 1 .. Len(q) /\ q[i] = x BY <1>2, <3>1
      <3> QED BY <1>2, <3>2, RangeIndex
    <2>3. ASSUME x \in Range(r) PROVE x \in Range(q)
      <3>1. PICK i \in 1 .. Len(r) : r[i] = x BY <2>3, RangeIndex
      <3>2. i + Len(s) \in 1 .. Len(q) /\ q[i + Len(s)] = x BY <1>2, <3>1
      <3> QED BY <1>2, <3>2, RangeIndex
    <2> QED BY <2>1, <2>2, <2>3
  <1>6. ASSUME Distinct(s), Distinct(r), Range(s) \cap Range(r) = {} PROVE Distinct(q)
    <2> SUFFICES ASSUME NEW i \in 1 .. Len(q), NEW j \in 1 .. Len(q), q[i] = q[j] PROVE i = j
      BY DEF Distinct
    <2>1. CASE i <= Len(s) /\ j <= Len(s) BY <1>3, <1>6, <2>1 DEF Distinct
    <2>2. CASE i > Len(s) /\ j > Len(s)
      <3>1. PICK k \in 1 .. Len(r) : k = i - Len(s) BY <1>4, <2>2
      <3>2. PICK m \in 1 .. Len(r) : m = j - Len(s) BY <1>4, <2>2
      <3>3. r[k] = r[m] BY <1>4, <2>2, <3>1, <3>2
      <3>4. k = m BY <1>6, <3>3 DEF Distinct
      <3> QED BY <1>2, <3>1, <3>2, <3>4
    <2>3. CASE i <= Len(s) /\ j > Len(s)
      <3>1. q[i] \in Range(s) BY <1>3, <2>3, RangeIndex
      <3>2. q[j] \in Range(r) BY <1>4, <2>3, RangeIndex
      <3> QED BY <1>6, <3>1, <3>2
    <2>4. CASE i > Len(s) /\ j <= Len(s)
      <3>1. q[j] \in Range(s) BY <1>3, <2>4, RangeIndex
      <3>2. q[i] \in Range(r) BY <1>4, <2>4, RangeIndex
      <3> QED BY <1>6, <3>1, <3>2
    <2> QED BY <1>2, <2>1, <2>2, <2>3, <2>4
  <1>7. ASSUME Ordered(s), Ordered(r), \A x \in Range(s), y \in Range(r) : x < y PROVE Ordered(q)
    <2> SUFFICES ASSUME NEW i \in 1 .. Len(q), NEW j \in 1 .. Len(q), i < j PROVE q[i] < q[j]
      BY DEF Ordered
    <2>1. CASE j <= Len(s) BY <1>2, <1>3, <1>7, <2>1 DEF Ordered
    <2>2. CASE i > Len(s)
      <3>1. PICK k \in 1 .. Len(r) : k = i - Len(s) BY <1>4, <2>2
      <3>2. PICK m \in 1 .. Len(r) : m = j - Len(s) BY <1>2, <1>4, <2>2
      <3>3. k < m BY <1>2, <3>1, <3>2
      <3>4. q[i] = r[k] /\ q[j] = r[m] BY <1>2, <1>4, <2>2, <3>1, <3>2
      <3> QED BY <1>7, <3>3, <3>4 DEF Ordered
    <2>3. CASE i <= Len(s) /\ j > Len(s)
      <3>1. q[i] \in Range(s) BY <1>3, <2>3, RangeIndex
      <3>2. q[j] \in Range(r) BY <1>4, <2>3, RangeIndex
      <3> QED BY <1>7, <3>1, <3>2
    <2> QED BY <1>2, <2>1, <2>2, <2>3
  <1>8. s # <<>> => q[1] = s[1] BY <1>2, <1>3
  <1>9. Range(q) = Range(s) \cup Range(r) BY <1>5
  <1> QED BY <1>1, <1>2, <1>6, <1>7, <1>8, <1>9

LEMMA TailFacts ==
  ASSUME NEW S, NEW s \in Seq(S), s # <<>>
  PROVE  /\ Tail(s) \in Seq(S) /\ Head(s) = s[1] /\ Head(s) \in S /\ Head(s) \in Range(s)
         /\ Len(Tail(s)) = Len(s) - 1 /\ Len(s) \in Nat \ {0}
         /\ \A i \in 1 .. Len(Tail(s)) : i + 1 \in 1 .. Len(s) /\ Tail(s)[i] = s[i + 1]
         /\ Range(Tail(s)) \subseteq Range(s)
         /\ Range(s) \subseteq Range(Tail(s)) \cup {Head(s)}
  <1>1. PICK q : q = Tail(s) OBVIOUS
  <1>2. /\ q \in Seq(S) /\ Len(q) = Len(s) - 1 /\ Len(s) \in Nat \ {0} /\ Head(s) = s[1]
        /\ \A i \in 1 .. Len(q) : i + 1 \in 1 .. Len(s) /\ q[i] = s[i + 1]
        /\ 1 \in 1 .. Len(s)
    BY <1>1
  <1>3. Head(s) \in S /\ Head(s) \in Range(s) BY <1>2, RangeIndex
  <1>4. ASSUME NEW x \in Range(q) PROVE x \in Range(s)
    <2>1. PICK i \in 1 .. Len(q) : q[i] = x BY <1>2, RangeIndex
    <2>2. i + 1 \in 1 .. Len(s) /\ s[i + 1] = x BY <1>2, <2>1
    <2> QED BY <2>2, RangeIndex
  <1>5. ASSUME NEW x \in Range(s) PROVE x \in Range(q) \cup {Head(s)}
    <2>1. PICK i \in 1 .. Len(s) : s[i] = x BY RangeIndex
    <2>2. CASE i = 1 BY <1>2, <2>1, <2>2
    <2>3. CASE i # 1
      <3>1. PICK k : k = i - 1 OBVIOUS
      <3>2. k \in 1 .. Len(q) /\ k + 1 = i BY <1>2, <2>3, <3>1
      <3>3. q[k] = x BY <1>2, <2>1, <3>2
      <3> QED BY <1>2, <3>2, <3>3, RangeIndex
    <2> QED BY <2>2, <2>3
  <1> QED BY <1>1, <1>2, <1>3, <1>4, <1>5

\* The rest of an increasing queue is increasing and above its head.
LEMMA OrderedTail ==
  ASSUME NEW s \in Seq(Nat), s # <<>>, Ordered(s)
  PROVE  Ordered(Tail(s)) /\ \A x \in Range(Tail(s)) : Head(s) < x
  <1>1. PICK q : q = Tail(s) OBVIOUS
  <1>2. /\ q \in Seq(Nat) /\ Head(s) = s[1] /\ Len(s) \in Nat \ {0}
        /\ \A i \in 1 .. Len(q) : i + 1 \in 1 .. Len(s) /\ q[i] = s[i + 1]
    BY <1>1, TailFacts
  <1>3. Ordered(q)
    <2> SUFFICES ASSUME NEW i \in 1 .. Len(q), NEW j \in 1 .. Len(q), i < j PROVE q[i] < q[j]
      BY DEF Ordered
    <2>1. PICK k \in 1 .. Len(s) : k = i + 1 /\ q[i] = s[k] BY <1>2
    <2>2. PICK m \in 1 .. Len(s) : m = j + 1 /\ q[j] = s[m] BY <1>2
    <2>3. k < m BY <2>1, <2>2
    <2> QED BY <2>1, <2>2, <2>3 DEF Ordered
  <1>4. ASSUME NEW x \in Range(q) PROVE Head(s) < x
    <2>1. PICK i \in 1 .. Len(q) : q[i] = x BY <1>2, RangeIndex
    <2>2. PICK k \in 1 .. Len(s) : k = i + 1 /\ q[i] = s[k] BY <1>2
    <2>3. 1 \in 1 .. Len(s) /\ 1 < k BY <1>2, <2>1, <2>2
    <2> QED BY <1>2, <2>1, <2>2, <2>3 DEF Ordered
  <1> QED BY <1>1, <1>3, <1>4

LEMMA AppendFacts ==
  ASSUME NEW S, NEW s \in Seq(S), NEW e \in S
  PROVE  /\ Append(s, e) \in Seq(S) /\ Len(Append(s, e)) = Len(s) + 1 /\ Len(s) \in Nat
         /\ \A i \in 1 .. Len(s) : Append(s, e)[i] = s[i]
         /\ Append(s, e)[Len(s) + 1] = e
         /\ Range(Append(s, e)) = Range(s) \cup {e}
         /\ Ordered(s) /\ (\A x \in Range(s) : x < e) => Ordered(Append(s, e))
  <1>1. PICK q : q = Append(s, e) OBVIOUS
  <1>2. /\ q \in Seq(S) /\ Len(q) = Len(s) + 1 /\ Len(s) \in Nat
        /\ \A i \in 1 .. Len(s) : q[i] = s[i]
        /\ q[Len(s) + 1] = e
    BY <1>1
  <1>3. ASSUME NEW x PROVE x \in Range(q) <=> x \in Range(s) \/ x = e
    <2>1. ASSUME x \in Range(q) PROVE x \in Range(s) \/ x = e
      <3>1. PICK i \in 1 .. Len(q) : q[i] = x BY <1>2, <2>1, RangeIndex
      <3>2. i \in 1 .. Len(s) \/ i = Len(s) + 1 BY <1>2
      <3> QED BY <1>2, <3>1, <3>2, RangeIndex
    <2>2. ASSUME x \in Range(s) PROVE x \in Range(q)
      <3>1. PICK i \in 1 .. Len(s) : s[i] = x BY <2>2, RangeIndex
      <3>2. i \in 1 .. Len(q) /\ q[i] = x BY <1>2, <3>1
      <3> QED BY <1>2, <3>2, RangeIndex
    <2>3. ASSUME x = e PROVE x \in Range(q)
      <3>1. Len(s) + 1 \in 1 .. Len(q) BY <1>2
      <3> QED BY <1>2, <2>3, <3>1, RangeIndex
    <2> QED BY <2>1, <2>2, <2>3
  <1>4. ASSUME Ordered(s), \A x \in Range(s) : x < e PROVE Ordered(q)
    <2> SUFFICES ASSUME NEW i \in 1 .. Len(q), NEW j \in 1 .. Len(q), i < j PROVE q[i] < q[j]
      BY DEF Ordered
    <2>1. i \in 1 .. Len(s) /\ (j \in 1 .. Len(s) \/ j = Len(s) + 1) BY <1>2
    <2>2. s[i] \in Range(s) BY <2>1, RangeIndex
    <2> QED BY <1>2, <1>4, <2>1, <2>2 DEF Ordered
  <1>5. Range(q) = Range(s) \cup {e} BY <1>3
  <1> QED BY <1>1, <1>2, <1>4, <1>5

\* The first elements of a sequence.
LEMMA UpToFacts ==
  ASSUME NEW S, NEW s \in Seq(S), NEW n \in Nat
  PROVE  /\ UpTo(s, n) \in Seq(S) /\ Range(UpTo(s, n)) \subseteq Range(s)
         /\ Len(UpTo(s, n)) <= n /\ Len(UpTo(s, n)) <= Len(s) /\ Len(UpTo(s, n)) \in Nat
         /\ Len(UpTo(s, n)) < n => UpTo(s, n) = s
         /\ Distinct(s) => Distinct(UpTo(s, n))
         /\ n # 0 /\ s # <<>> => UpTo(s, n) # <<>> /\ UpTo(s, n)[1] = s[1]
  <1>1. PICK m \in Nat : m = IF Len(s) < n THEN Len(s) ELSE n OBVIOUS
  <1>2. PICK q : q = SubSeq(s, 1, m) OBVIOUS
  <1>3. q = UpTo(s, n) BY <1>1, <1>2 DEF UpTo
  <1>4. m <= n /\ m <= Len(s) /\ Len(s) \in Nat BY <1>1
  <1>5. q \in Seq(S) /\ Len(q) = m /\ \A i \in 1 .. m : i \in 1 .. Len(s) /\ q[i] = s[i] BY <1>2, <1>4
  <1>6. ASSUME NEW x \in Range(q) PROVE x \in Range(s)
    <2>1. PICK i \in 1 .. m : q[i] = x BY <1>5, RangeIndex
    <2> QED BY <1>5, <2>1, RangeIndex
  <1>7. ASSUME m < n PROVE q = s
    <2>1. m = Len(s) BY <1>1, <1>7
    <2> QED BY <1>2, <2>1
  <1>8. Distinct(s) => Distinct(q) BY <1>5 DEF Distinct
  <1>9. n # 0 /\ s # <<>> => q # <<>> /\ q[1] = s[1]
    <2> SUFFICES ASSUME n # 0, s # <<>> PROVE q # <<>> /\ q[1] = s[1] OBVIOUS
    <2>1. m # 0 BY <1>1
    <2>2. 1 \in 1 .. m BY <2>1
    <2>3. q # <<>> BY <1>5, <2>1
    <2> QED BY <1>5, <2>2, <2>3
  <1> QED BY <1>3, <1>4, <1>5, <1>6, <1>7, <1>8, <1>9
-----------------------------------------------------------------------------
(* Counting: what a filter keeps, and in which order.                      *)

LEMMA DistinctCardinality ==
  ASSUME NEW S, NEW s \in Seq(S), Distinct(s)
  PROVE  IsFiniteSet(Range(s)) /\ Cardinality(Range(s)) = Len(s)
  <1>1. /\ Len(s) \in Nat /\ \A i \in 1 .. Len(s) : s[i] \in Range(s)
        /\ \A x \in Range(s) : \E i \in 1 .. Len(s) : s[i] = x
    BY RangeIndex
  <1>2. s \in [1 .. Len(s) -> Range(s)] BY <1>1
  <1>3. s \in Bijection(1 .. Len(s), Range(s))
    BY <1>1, <1>2 DEF Bijection, Injection, Surjection, IsInjective, Distinct
  <1>4. ExistsBijection(1 .. Len(s), Range(s)) BY <1>3 DEF ExistsBijection
  <1>5. IsFiniteSet(1 .. Len(s)) /\ Cardinality(1 .. Len(s)) = Len(s)
    <2>1. PICK n \in Nat : n = Len(s) BY <1>1
    <2>2. IsFiniteSet(1 .. n) /\ Cardinality(1 .. n) = n BY FS_Interval
    <2> QED BY <2>1, <2>2
  <1> QED BY <1>4, <1>5, FS_Bijection

\* The ranks of a set's members are 1, 2, 3 and so on, in their order.
LEMMA RankFacts ==
  ASSUME NEW n \in Nat, NEW S, S \subseteq 1 .. n
  PROVE  /\ IsFiniteSet(S) /\ Cardinality(S) \in Nat
         /\ \A k \in S : Rank(S, k) \in 1 .. Cardinality(S)
         /\ \A j, k \in S : j < k => Rank(S, j) < Rank(S, k)
         /\ \A r \in 1 .. Cardinality(S) : \E k \in S : Rank(S, k) = r
  <1> DEFINE to(k) == {j \in S : j <= k}
  <1>1. IsFiniteSet(S) /\ Cardinality(S) \in Nat
    <2>1. IsFiniteSet(1 .. n) BY FS_Interval
    <2> QED BY <2>1, FS_Subset, FS_CardinalityType
  <1>2. ASSUME NEW k \in S
        PROVE  /\ IsFiniteSet(to(k)) /\ Cardinality(to(k)) \in Nat
               /\ Cardinality(to(k)) <= Cardinality(S) /\ Cardinality(to(k)) # 0
    <2>1. to(k) \subseteq S /\ to(k) # {}
      <3>1. k \in Nat /\ k <= k OBVIOUS
      <3> QED BY <3>1
    <2> HIDE DEF to
    <2>2. IsFiniteSet(to(k)) BY <1>1, <2>1, FS_Subset
    <2>3. Cardinality(to(k)) # 0 BY <2>1, <2>2, FS_EmptySet
    <2> QED BY <1>1, <2>1, <2>2, <2>3, FS_Subset, FS_CardinalityType
  <1>3. ASSUME NEW j \in S, NEW k \in S, j < k PROVE Cardinality(to(j)) < Cardinality(to(k))
    <2>1. j \in Nat /\ k \in Nat OBVIOUS
    <2>2. to(j) \subseteq to(k) \ {k} /\ k \in to(k)
      <3>1. \A i \in S : i \in Nat OBVIOUS
      <3>2. \A i \in S : i <= j => i <= k BY <1>3, <2>1, <3>1
      <3>3. k <= k /\ ~ (k <= j) BY <1>3, <2>1
      <3> QED BY <3>2, <3>3
    <2>3. IsFiniteSet(to(k)) /\ Cardinality(to(k)) \in Nat /\ Cardinality(to(j)) \in Nat BY <1>2
    <2> HIDE DEF to
    <2>4. IsFiniteSet(to(k) \ {k}) /\ Cardinality(to(k) \ {k}) = Cardinality(to(k)) - 1
      BY <2>2, <2>3, FS_RemoveElement
    <2>5. Cardinality(to(j)) <= Cardinality(to(k) \ {k}) BY <2>2, <2>4, FS_Subset
    <2> QED BY <2>3, <2>4, <2>5
  <1>4. \A k \in S : Rank(S, k) = Cardinality(to(k)) BY DEF Rank
  <1> HIDE DEF to
  <1>5. \A k \in S : Rank(S, k) \in 1 .. Cardinality(S) BY <1>1, <1>2, <1>4
  <1>6. \A j, k \in S : j < k => Rank(S, j) < Rank(S, k) BY <1>3, <1>4
  <1>7. PICK f : f = [k \in S |-> Rank(S, k)] OBVIOUS
  <1>8. PICK c \in Nat : c = Cardinality(S) BY <1>1
  <1>9. f \in [S -> 1 .. c] /\ \A k \in S : f[k] = Rank(S, k) BY <1>5, <1>7, <1>8
  <1>10. \A j, k \in S : f[j] = f[k] => j = k
    <2> SUFFICES ASSUME NEW j \in S, NEW k \in S, f[j] = f[k], j # k PROVE FALSE OBVIOUS
    <2>1. j < k \/ k < j OBVIOUS
    <2>2. f[j] \in 1 .. c /\ f[k] \in 1 .. c BY <1>9
    <2>3. f[j] < f[k] \/ f[k] < f[j] BY <1>6, <1>9, <2>1
    <2> QED BY <2>2, <2>3
  <1>11. f \in Injection(S, 1 .. c) BY <1>9, <1>10 DEF Injection, IsInjective
  <1>12. IsFiniteSet(1 .. c) /\ Cardinality(1 .. c) = c BY FS_Interval
  <1>13. f \in Surjection(S, 1 .. c) BY <1>8, <1>11, <1>12, FS_Injection
  <1>14. \A r \in 1 .. c : \E k \in S : f[k] = r BY <1>13 DEF Surjection
  <1> QED BY <1>1, <1>5, <1>6, <1>8, <1>9, <1>14

\* A filter keeps what is in S, and the order.
LEMMA KeepFacts ==
  ASSUME NEW T, NEW s \in Seq(T), NEW S
  PROVE  /\ Keep(s, S) \in Seq(T)
         /\ Range(Keep(s, S)) = Range(s) \cap S
         /\ Distinct(s) => Distinct(Keep(s, S))
         /\ Ordered(s) => Ordered(Keep(s, S))
  <1> DEFINE hits == {i \in DOMAIN s : s[i] \in S}
  <1>1. DOMAIN s = 1 .. Len(s) /\ Len(s) \in Nat BY RangeIndex
  <1>2. hits \subseteq 1 .. Len(s) BY <1>1
  <1>3. \A i \in 1 .. Len(s) : i \in hits <=> s[i] \in S BY <1>1
  <1>4. Keep(s, S) = [n \in 1 .. Cardinality(hits) |-> s[CHOOSE i \in hits : Rank(hits, i) = n]]
    BY Zenon DEF Keep, Rank
  <1> HIDE DEF hits
  <1>5. /\ IsFiniteSet(hits) /\ Cardinality(hits) \in Nat
        /\ \A k \in hits : Rank(hits, k) \in 1 .. Cardinality(hits)
        /\ \A j, k \in hits : j < k => Rank(hits, j) < Rank(hits, k)
        /\ \A r \in 1 .. Cardinality(hits) : \E k \in hits : Rank(hits, k) = r
    BY <1>1, <1>2, RankFacts
  <1>6. PICK c \in Nat : c = Cardinality(hits) BY <1>5
  <1>r. PICK rank : rank = [k \in hits |-> Rank(hits, k)] OBVIOUS
  <1>k. /\ \A k \in hits : rank[k] \in 1 .. c
        /\ \A j, k \in hits : j < k => rank[j] < rank[k]
        /\ \A r \in 1 .. c : \E k \in hits : rank[k] = r
    BY <1>5, <1>6, <1>r
  <1>7. PICK place : place = [n \in 1 .. c |-> CHOOSE i \in hits : rank[i] = n] OBVIOUS
  <1>8. PICK q : q = Keep(s, S) OBVIOUS
  <1>9. \A n \in 1 .. c : place[n] \in hits /\ rank[place[n]] = n
    <2> SUFFICES ASSUME NEW n \in 1 .. c PROVE place[n] \in hits /\ rank[place[n]] = n OBVIOUS
    <2>1. \E k \in hits : rank[k] = n BY <1>k
    <2>2. place[n] = CHOOSE i \in hits : rank[i] = n BY <1>7
    <2> QED BY <2>1, <2>2, Zenon
  <1>10. DOMAIN q = 1 .. c /\ q = [n \in DOMAIN q |-> q[n]] /\ \A n \in 1 .. c : q[n] = s[place[n]]
    <2>1. q = [n \in 1 .. c |-> s[CHOOSE i \in hits : Rank(hits, i) = n]] BY <1>4, <1>6, <1>8, Zenon
    <2>2. DOMAIN q = 1 .. c /\ q = [n \in DOMAIN q |-> q[n]] BY <2>1
    <2>3. \A n \in 1 .. c : q[n] = s[CHOOSE i \in hits : Rank(hits, i) = n] BY <2>1, Zenon
    <2>4. ASSUME NEW n \in 1 .. c PROVE q[n] = s[place[n]]
      <3>1. place[n] = CHOOSE i \in hits : rank[i] = n BY <1>7
      <3>2. \A i \in hits : rank[i] = Rank(hits, i) BY <1>r
      <3>3. (CHOOSE i \in hits : rank[i] = n) = (CHOOSE i \in hits : Rank(hits, i) = n) BY <3>2, Zenon
      <3> QED BY <2>3, <3>1, <3>3, Zenon
    <2> QED BY <2>2, <2>4
  <1>p. \A n \in 1 .. c : place[n] \in hits BY <1>9, Zenon
  <1>11. \A n \in 1 .. c : place[n] \in 1 .. Len(s) /\ s[place[n]] \in T /\ s[place[n]] \in S
    <2> SUFFICES ASSUME NEW n \in 1 .. c
                 PROVE place[n] \in 1 .. Len(s) /\ s[place[n]] \in T /\ s[place[n]] \in S
      OBVIOUS
    <2>1. PICK j \in hits : j = place[n] BY <1>p
    <2>2. j \in 1 .. Len(s) /\ s[j] \in S BY <1>2, <1>3
    <2>3. s[j] \in T BY <2>2
    <2> QED BY <2>1, <2>2, <2>3
  <1>12. q \in Seq(T) /\ Len(q) = c /\ \A n \in 1 .. c : q[n] = s[place[n]]
    <2>1. q \in [1 .. c -> T] BY <1>10, <1>11
    <2> QED BY <1>10, <2>1
  <1>13. \A m, n \in 1 .. c : m < n => place[m] < place[n]
    <2> SUFFICES ASSUME NEW m \in 1 .. c, NEW n \in 1 .. c, m < n, ~ (place[m] < place[n]) PROVE FALSE
      OBVIOUS
    <2>1. place[m] \in Nat /\ place[n] \in Nat BY <1>1, <1>11
    <2>2. place[n] < place[m] \/ place[n] = place[m] BY <2>1
    <2>3. rank[place[n]] < rank[place[m]] \/ rank[place[n]] = rank[place[m]]
      BY <1>k, <1>9, <2>2
    <2>4. n < m \/ n = m BY <1>9, <2>3
    <2> QED BY <2>4
  <1>14. ASSUME NEW x PROVE x \in Range(q) <=> x \in Range(s) /\ x \in S
    <2>1. ASSUME x \in Range(q) PROVE x \in Range(s) /\ x \in S
      <3>1. PICK n \in 1 .. c : q[n] = x BY <1>12, <2>1, RangeIndex
      <3> QED BY <1>11, <1>12, <3>1, RangeIndex
    <2>2. ASSUME x \in Range(s), x \in S PROVE x \in Range(q)
      <3>1. PICK i \in 1 .. Len(s) : s[i] = x BY <2>2, RangeIndex
      <3>2. i \in hits BY <1>3, <2>2, <3>1
      <3>3. PICK n \in 1 .. c : n = rank[i] BY <1>k, <3>2
      <3>4. place[n] = i
        <4>1. place[n] \in hits /\ rank[place[n]] = rank[i] BY <1>9, <3>3
        <4>2. PICK j \in hits : j = place[n] BY <4>1, Zenon
        <4>3. rank[j] = rank[i] BY <4>1, <4>2, Zenon
        <4>4. i \in Nat /\ j \in Nat /\ rank[i] \in 1 .. c BY <1>2, <1>k, <3>2
        <4>5. ~ (j < i) /\ ~ (i < j) BY <1>k, <3>2, <4>3, <4>4
        <4> QED BY <4>2, <4>4, <4>5
      <3>5. q[n] = x BY <1>12, <3>1, <3>4
      <3> QED BY <1>12, <3>5, RangeIndex
    <2> QED BY <2>1, <2>2
  <1>15. Range(q) = Range(s) \cap S BY <1>14
  <1>16. ASSUME Distinct(s) PROVE Distinct(q)
    <2> SUFFICES ASSUME NEW m \in 1 .. c, NEW n \in 1 .. c, q[m] = q[n], m # n PROVE FALSE
      BY <1>12 DEF Distinct
    <2>1. m < n \/ n < m OBVIOUS
    <2>2. place[m] < place[n] \/ place[n] < place[m] BY <1>13, <2>1
    <2>3. place[m] = place[n] BY <1>11, <1>12, <1>16 DEF Distinct
    <2>4. place[m] \in Nat BY <1>11
    <2> QED BY <2>2, <2>3, <2>4
  <1>17. ASSUME Ordered(s) PROVE Ordered(q)
    BY <1>11, <1>12, <1>13, <1>17 DEF Ordered
  <1> QED BY <1>8, <1>12, <1>15, <1>16, <1>17

\* An increasing sequence is known by its elements.
LEMMA OrderedUnique ==
  ASSUME NEW s \in Seq(Nat), NEW r \in Seq(Nat), Ordered(s), Ordered(r), Range(s) = Range(r)
  PROVE  s = r
  <1>1. Len(s) = Len(r)
    <2>1. Cardinality(Range(s)) = Len(s) BY OrderedDistinct, DistinctCardinality
    <2>2. Cardinality(Range(r)) = Len(r) BY OrderedDistinct, DistinctCardinality
    <2> QED BY <2>1, <2>2
  <1>2. ASSUME NEW q \in Seq(Nat), Ordered(q), NEW i \in 1 .. Len(q)
        PROVE  Rank(Range(q), q[i]) = i
    <2>1. PICK a : a = SubSeq(q, 1, i) OBVIOUS
    <2>2. a \in Seq(Nat) /\ Len(a) = i /\ \A j \in 1 .. i : a[j] = q[j] /\ j \in 1 .. Len(q) BY <2>1
    <2>3. Distinct(a)
      <3>1. Distinct(q) BY <1>2, OrderedDistinct
      <3> QED BY <2>2, <3>1 DEF Distinct
    <2>4. Cardinality(Range(a)) = i BY <2>2, <2>3, DistinctCardinality
    <2>5. ASSUME NEW x \in Range(a) PROVE x \in Range(q) /\ x <= q[i]
      <3>1. PICK j \in 1 .. i : a[j] = x BY <2>2, RangeIndex
      <3>2. j \in 1 .. Len(q) /\ q[j] = x BY <2>2, <3>1
      <3>3. j < i \/ j = i BY <3>1
      <3>4. q[j] < q[i] \/ q[j] = q[i] BY <1>2, <3>2, <3>3 DEF Ordered
      <3>5. q[j] \in Nat /\ q[i] \in Nat BY <3>2
      <3>6. x \in Range(q) BY <3>2, RangeIndex
      <3> QED BY <3>2, <3>4, <3>5, <3>6
    <2>6. ASSUME NEW x \in Range(q), x <= q[i] PROVE x \in Range(a)
      <3>1. PICK j \in 1 .. Len(q) : q[j] = x BY RangeIndex
      <3>2. q[j] \in Nat /\ q[i] \in Nat BY <3>1
      <3>3. ~ (i < j) BY <2>6, <3>1, <3>2, <1>2 DEF Ordered
      <3>4. j \in 1 .. i BY <3>3
      <3>5. j \in 1 .. Len(a) /\ a[j] = x BY <2>2, <3>1, <3>4
      <3> QED BY <2>2, <3>5, RangeIndex
    <2>7. Range(a) = {x \in Range(q) : x <= q[i]} BY <2>5, <2>6
    <2> QED BY <2>4, <2>7 DEF Rank
  <1>3. ASSUME NEW i \in 1 .. Len(s) PROVE s[i] = r[i]
    <2>1. s[i] \in Range(r) BY RangeIndex
    <2>2. PICK j \in 1 .. Len(r) : r[j] = s[i] BY <2>1, RangeIndex
    <2>3. Rank(Range(s), s[i]) = i BY <1>2
    <2>4. Rank(Range(r), r[j]) = j BY <1>2
    <2> QED BY <2>2, <2>3, <2>4
  <1> QED BY <1>1, <1>3
-----------------------------------------------------------------------------
(* The inductive invariant.                                                *)

TypeInv ==
    /\ aggr \in [Tickets -> Aggrs] /\ arrived \in 0 .. N
    /\ age \in [Tickets -> 0 .. 3] /\ begun \in [Tickets -> 0 .. 3]
    /\ redis \in [Tickets -> {"none", "WAITING", "INPROGRESS", "gone"}]
    /\ toAdd \in Seq(Tickets) /\ queue \in Seq(Tickets) /\ todo \in Seq(Tickets)
    /\ bucket \in [Aggrs -> Seq(Tickets)]
    /\ memo \subseteq Aggrs
    /\ matched \subseteq Tickets /\ invalid \subseteq Tickets /\ released \subseteq Tickets
    /\ groups \in Seq(Seq(Tickets))
    /\ phase \in {"idle", "find", "commit", "place", "refused"}
    /\ placed \subseteq SUBSET Tickets

\* Both indexes are in the order of arrival and hold the same tickets, which
\* have arrived and are not released.
IndexInv ==
    /\ Ordered(queue) /\ Ordered(toAdd)
    /\ \A s \in Range(queue), t \in Range(toAdd) : s < t
    /\ \A t \in Range(queue) \cup Range(toAdd) : t <= arrived /\ t \notin released
    /\ \A t \in released : t <= arrived
    /\ \A a \in Aggrs : Ordered(bucket[a]) /\ Range(bucket[a]) = Range(queue) \cap OfAggr(a)

\* What the phases of a pass leave behind.
PassInv ==
    /\ phase = "idle" => groups = <<>> /\ matched = {} /\ invalid = {}
    /\ phase = "find" =>
         todo # <<>> /\ invalid = {} /\ Ordered(todo) /\ Range(todo) \subseteq Range(queue)
    /\ phase \in {"place", "refused"} => groups # <<>>
    /\ matched \subseteq Range(queue) /\ invalid \subseteq matched

\* A group is content with its pivot's tolerance.
Fits(g) ==
    LET p == g[1] IN
    /\ Len(g) \in MinPlayers(age[p]) .. GroupSize
    /\ \A t \in Range(g) :
         aggr[t] - aggr[p] \in -AllowedDiff(age[p]) .. AllowedDiff(age[p])

\* Groups that wait for their commit share no player, and theirs are matched,
\* not settled.
GroupInv ==
    /\ \A i \in 1 .. Len(groups) :
         /\ groups[i] # <<>> /\ Distinct(groups[i]) /\ Fits(groups[i])
         /\ Range(groups[i]) \subseteq matched \ invalid
         /\ \A g \in placed : Range(groups[i]) \cap g = {}
    /\ \A i, j \in 1 .. Len(groups) : i # j => Range(groups[i]) \cap Range(groups[j]) = {}

\* A matched ticket is in a group, in a game or invalid, and only those that
\* are in a game or invalid are released.
SettledInv ==
    /\ \A g, h \in placed : g # h => g \cap h = {}
    /\ \A g \in placed : g \subseteq released \cup matched
    /\ \A t \in matched :
         \/ t \in invalid
         \/ \E i \in 1 .. Len(groups) : t \in Range(groups[i])
         \/ \E g \in placed : t \in g
    /\ \A t \in invalid : redis[t] # "WAITING"
    /\ \A t \in released : redis[t] = "WAITING" => \E g \in placed : t \in g

\* Who came first has waited longest.
AgeInv ==
    /\ \A s, t \in Tickets :
         s < t /\ t <= arrived /\ s \notin released /\ t \notin released => age[t] <= age[s]
    /\ \A t \in Tickets : t > arrived => age[t] = 0

Free == Range(queue) \ matched

\* The tickets of S that a pivot of aggression a tolerates after n units.
Near(S, a, n) == {t \in S : aggr[t] - a \in -AllowedDiff(n) .. AllowedDiff(n)}

\* Too few tickets are left around aggression a.
Lonely(S, a, n) == Cardinality(Near(S, a, n)) < MinPlayers(n)

\* The pivots that FindMatchGroup has looked at are matched or alone, and a flag
\* speaks for all younger pivots of its aggression.
FindInv ==
    phase = "find" =>
      /\ \A t \in Tickets : begun[t] <= age[t]
      /\ \A s, t \in Range(queue) : s < t => begun[t] <= begun[s]
      /\ \A p \in Free \ Range(todo) : Lonely(Free, aggr[p], begun[p])
      /\ \A a \in memo : \E n \in 0 .. 3 :
           /\ \A p \in Range(todo) : aggr[p] = a => begun[p] <= n
           /\ Lonely(Free, a, n)

MakerInv ==
    TypeInv /\ IndexInv /\ PassInv /\ GroupInv /\ SettledInv /\ AgeInv /\ FindInv
-----------------------------------------------------------------------------
(* What a pivot tolerates, and whom FindMatchGroup puts into his group.    *)

LEMMA TicketsNat == Tickets \subseteq Nat /\ Seq(Tickets) \subseteq Seq(Nat)
  <1>1. Tickets \subseteq Nat BY SizeAssumption DEF Tickets
  <1>2. ASSUME NEW s \in Seq(Tickets) PROVE s \in Seq(Nat)
    <2>1. PICK n \in Nat : n = Len(s) OBVIOUS
    <2>2. s \in [1 .. n -> Tickets] BY <2>1
    <2>3. s \in [1 .. n -> Nat] BY <1>1, <2>2
    <2> QED BY <2>3
  <1> QED BY <1>1, <1>2

\* Who waits longer wants fewer players and tolerates more of them.
LEMMA ToleranceGrows ==
  ASSUME NEW m \in 0 .. 3, NEW n \in 0 .. 3, m <= n
  PROVE  /\ MinPlayers(n) \in 1 .. GroupSize /\ MinPlayers(m) \in 1 .. GroupSize
         /\ MinPlayers(n) <= MinPlayers(m)
         /\ AllowedDiff(n) \in {0, 1} /\ AllowedDiff(m) <= AllowedDiff(n)
         /\ (-AllowedDiff(m) .. AllowedDiff(m)) \subseteq (-AllowedDiff(n) .. AllowedDiff(n))
  BY SizeAssumption DEF MinPlayers, AllowedDiff

LEMMA FreeFinite ==
  ASSUME TypeInv, IndexInv
  PROVE  IsFiniteSet(Range(queue)) /\ IsFiniteSet(Free)
  <1>1. queue \in Seq(Nat) BY TicketsNat DEF TypeInv
  <1>2. IsFiniteSet(Range(queue)) BY <1>1, OrderedDistinct, DistinctCardinality DEF IndexInv
  <1> QED BY <1>2, FS_Subset DEF Free

\* The fewer tickets and the less time, the lonelier.
LEMMA LonelyGrows ==
  ASSUME NEW S, IsFiniteSet(S), NEW R, R \subseteq S, NEW a,
         NEW m \in 0 .. 3, NEW n \in 0 .. 3, m <= n, Lonely(S, a, n)
  PROVE  Lonely(R, a, m)
  <1>1. Near(R, a, m) \subseteq Near(S, a, n) BY ToleranceGrows DEF Near
  <1>2. Near(S, a, n) \subseteq S BY DEF Near
  <1>3. IsFiniteSet(Near(S, a, n)) BY <1>2, FS_Subset
  <1>4. IsFiniteSet(Near(R, a, m)) /\ Cardinality(Near(R, a, m)) <= Cardinality(Near(S, a, n))
    BY <1>1, <1>3, FS_Subset
  <1>5. PICK x \in Nat : x = Cardinality(Near(R, a, m)) BY <1>4, FS_CardinalityType
  <1>6. PICK y \in Nat : y = Cardinality(Near(S, a, n)) BY <1>3, FS_CardinalityType
  <1>7. PICK u \in Nat : u = MinPlayers(m) BY SizeAssumption, ToleranceGrows
  <1>8. PICK v \in Nat : v = MinPlayers(n) BY SizeAssumption, ToleranceGrows
  <1>9. v <= u BY <1>7, <1>8, ToleranceGrows
  <1>10. x <= y /\ y < v BY <1>4, <1>5, <1>6, <1>8 DEF Lonely
  <1>11. x < u BY <1>9, <1>10
  <1> QED BY <1>5, <1>7, <1>11 DEF Lonely

\* Candidates of one bucket.
FreeIn(p, b) == Keep(bucket[b], Tickets \ (matched \cup {p}))

\* Candidates of a neighbouring bucket.
From(p, b) == IF b \in Aggrs /\ AllowedDiff(age[p]) = 1 THEN FreeIn(p, b) ELSE <<>>

LEMMA FreeInFacts ==
  ASSUME TypeInv, IndexInv, NEW p, NEW b \in Aggrs
  PROVE  /\ FreeIn(p, b) \in Seq(Tickets) /\ Distinct(FreeIn(p, b))
         /\ Range(FreeIn(p, b)) = {t \in Free : t # p /\ aggr[t] = b}
  <1>1. PICK s : s = bucket[b] OBVIOUS
  <1>2. s \in Seq(Tickets) /\ Ordered(s) /\ Range(s) = Range(queue) \cap OfAggr(b)
    BY <1>1 DEF TypeInv, IndexInv
  <1>3. Distinct(s) BY <1>2, TicketsNat, OrderedDistinct
  <1>4. PICK K : K = Tickets \ (matched \cup {p}) OBVIOUS
  <1>5. Keep(s, K) \in Seq(Tickets) /\ Distinct(Keep(s, K)) /\ Range(Keep(s, K)) = Range(s) \cap K
    BY <1>2, <1>3, KeepFacts
  <1>6. Range(queue) \subseteq Tickets BY RangeIndex DEF TypeInv
  <1>7. Range(s) \cap K = {t \in Free : t # p /\ aggr[t] = b}
    BY <1>2, <1>4, <1>6 DEF Free, OfAggr
  <1> QED BY <1>1, <1>4, <1>5, <1>7 DEF FreeIn

LEMMA FromFacts ==
  ASSUME TypeInv, IndexInv, NEW p, NEW b
  PROVE  /\ From(p, b) \in Seq(Tickets) /\ Distinct(From(p, b))
         /\ Range(From(p, b)) =
              {t \in Free : t # p /\ aggr[t] = b /\ b \in Aggrs /\ AllowedDiff(age[p]) = 1}
  <1>1. CASE b \in Aggrs /\ AllowedDiff(age[p]) = 1 BY <1>1, FreeInFacts DEF From
  <1>2. CASE ~ (b \in Aggrs /\ AllowedDiff(age[p]) = 1)
    <2>1. From(p, b) = <<>> BY <1>2 DEF From
    <2>2. <<>> \in Seq(Tickets) OBVIOUS
    <2> QED BY <1>2, <2>1, <2>2, EmptyFacts
  <1> QED BY <1>1, <1>2

\* The pivot and his candidates are the free tickets he tolerates, each once.
LEMMA CandidateFacts ==
  ASSUME TypeInv, IndexInv, NEW p \in Free
  PROVE  /\ <<p>> \o Candidates(p) \in Seq(Tickets)
         /\ Distinct(<<p>> \o Candidates(p))
         /\ Range(<<p>> \o Candidates(p)) = Near(Free, aggr[p], age[p])
         /\ (<<p>> \o Candidates(p))[1] = p
  <1>0. /\ p \in Tickets /\ Free \subseteq Tickets
        /\ aggr[p] \in Aggrs /\ age[p] \in 0 .. 3
        /\ \A t \in Free : aggr[t] \in Aggrs
    BY RangeIndex DEF TypeInv, Free
  <1>1. PICK a \in Aggrs : a = aggr[p] BY <1>0
  <1>2. a \in Int /\ Aggrs \subseteq Int BY DEF Aggrs
  <1>3. PICK d \in {0, 1} : d = AllowedDiff(age[p]) BY <1>0, ToleranceGrows
  <1>4. PICK x : x = FreeIn(p, a) OBVIOUS
  <1>5. PICK y : y = From(p, a + 1) OBVIOUS
  <1>6. PICK z : z = From(p, a - 1) OBVIOUS
  <1>7. Candidates(p) = x \o y \o z BY <1>1, <1>4, <1>5, <1>6 DEF Candidates, FreeIn, From
  <1>8. x \in Seq(Tickets) /\ Distinct(x) /\ Range(x) = {t \in Free : t # p /\ aggr[t] = a}
    BY <1>4, FreeInFacts
  <1>9. /\ y \in Seq(Tickets) /\ Distinct(y)
        /\ Range(y) = {t \in Free : t # p /\ aggr[t] = a + 1 /\ a + 1 \in Aggrs /\ d = 1}
    BY <1>3, <1>5, FromFacts
  <1>10. /\ z \in Seq(Tickets) /\ Distinct(z)
         /\ Range(z) = {t \in Free : t # p /\ aggr[t] = a - 1 /\ a - 1 \in Aggrs /\ d = 1}
    BY <1>3, <1>6, FromFacts
  <1>11. PICK xy : xy = x \o y OBVIOUS
  <1>12. Range(x) \cap Range(y) = {} BY <1>2, <1>8, <1>9
  <1>13. xy \in Seq(Tickets) /\ Distinct(xy) /\ Range(xy) = Range(x) \cup Range(y)
    BY <1>8, <1>9, <1>11, <1>12, ConcatFacts
  <1>14. PICK c : c = xy \o z OBVIOUS
  <1>15. Range(xy) \cap Range(z) = {} BY <1>2, <1>8, <1>9, <1>10, <1>13
  <1>16. c \in Seq(Tickets) /\ Distinct(c) /\ Range(c) = Range(xy) \cup Range(z)
    BY <1>10, <1>13, <1>14, <1>15, ConcatFacts
  <1>17. PICK o : o = <<p>> OBVIOUS
  <1>18. o \in Seq(Tickets) /\ Distinct(o) /\ o # <<>> /\ o[1] = p /\ Len(o) = 1
    BY <1>0, <1>17 DEF Distinct
  <1>19. Range(o) = {p}
    <2>1. \A i \in 1 .. Len(o) : i = 1 BY <1>18
    <2> QED BY <1>18, <2>1, RangeIndex
  <1>20. p \notin Range(c) BY <1>8, <1>9, <1>10, <1>13, <1>16
  <1>21. PICK s : s = o \o c OBVIOUS
  <1>22. s \in Seq(Tickets) /\ Distinct(s) /\ Range(s) = {p} \cup Range(c) /\ s[1] = p
    BY <1>16, <1>18, <1>19, <1>20, <1>21, ConcatFacts
  <1>23. s = <<p>> \o Candidates(p) BY <1>7, <1>11, <1>14, <1>17, <1>21
  <1>24. ASSUME NEW t \in Free PROVE t \in Range(s) <=> aggr[t] - a \in -d .. d
    <2>1. PICK b \in Aggrs : b = aggr[t] BY <1>0
    <2>2. b \in Int BY <1>2
    <2>3. t \in Range(s) <=> (t = p \/ b = a \/ (d = 1 /\ b = a + 1) \/ (d = 1 /\ b = a - 1))
      BY <1>8, <1>9, <1>10, <1>13, <1>16, <1>22, <2>1
    <2>4. t = p => b = a BY <1>1, <2>1
    <2>5. b - a \in -d .. d <=> (b = a \/ (d = 1 /\ b = a + 1) \/ (d = 1 /\ b = a - 1))
      BY <1>2, <1>3, <2>2
    <2> QED BY <2>1, <2>3, <2>4, <2>5
  <1>25. Range(s) \subseteq Free BY <1>8, <1>9, <1>10, <1>13, <1>16, <1>22
  <1>26. Range(s) = {t \in Free : aggr[t] - a \in -d .. d} BY <1>24, <1>25
  <1>27. Range(s) = Near(Free, aggr[p], age[p]) BY <1>1, <1>3, <1>26 DEF Near
  <1> QED BY <1>22, <1>23, <1>27

\* A group is a part of them, and all of them when it is too small.
LEMMA GroupOfFacts ==
  ASSUME TypeInv, IndexInv, NEW p \in Free
  PROVE  /\ GroupOf(p) \in Seq(Tickets) /\ GroupOf(p) # <<>> /\ GroupOf(p)[1] = p
         /\ Distinct(GroupOf(p)) /\ Range(GroupOf(p)) \subseteq Near(Free, aggr[p], age[p])
         /\ Len(GroupOf(p)) \in 0 .. GroupSize
         /\ ~ (Len(GroupOf(p)) >= MinPlayers(age[p])) => Lonely(Free, aggr[p], age[p])
  <1>1. PICK s : s = <<p>> \o Candidates(p) OBVIOUS
  <1>2. /\ s \in Seq(Tickets) /\ Distinct(s) /\ s[1] = p
        /\ Range(s) = Near(Free, aggr[p], age[p])
    BY <1>1, CandidateFacts
  <1>3. s # <<>>
    <2>1. <<p>> \in Seq({p}) /\ <<p>> # <<>> OBVIOUS
    <2>2. p \in Near(Free, aggr[p], age[p])
      <3>1. aggr[p] \in Aggrs /\ age[p] \in 0 .. 3 BY RangeIndex DEF TypeInv, Free
      <3>2. AllowedDiff(age[p]) \in {0, 1} BY <3>1, ToleranceGrows
      <3>3. aggr[p] - aggr[p] = 0 BY <3>1 DEF Aggrs
      <3>4. 0 \in -AllowedDiff(age[p]) .. AllowedDiff(age[p]) BY <3>2
      <3> QED BY <3>3, <3>4 DEF Near
    <2> QED BY <1>2, <2>2, EmptyFacts
  <1>4. PICK k \in Nat \ {0} : k = GroupSize BY SizeAssumption
  <1>5. PICK g : g = UpTo(s, k) OBVIOUS
  <1>6. /\ g \in Seq(Tickets) /\ Range(g) \subseteq Range(s) /\ Len(g) <= k /\ Len(g) \in Nat
        /\ Len(g) < k => g = s
        /\ Distinct(g) /\ g # <<>> /\ g[1] = s[1]
    BY <1>2, <1>3, <1>4, <1>5, UpToFacts
  <1>7. g = GroupOf(p) BY <1>1, <1>4, <1>5 DEF GroupOf
  <1>8. ASSUME ~ (Len(g) >= MinPlayers(age[p])) PROVE Lonely(Free, aggr[p], age[p])
    <2>1. age[p] \in 0 .. 3 BY RangeIndex DEF TypeInv, Free
    <2>2. PICK m \in 1 .. k : m = MinPlayers(age[p]) BY <1>4, <2>1, ToleranceGrows
    <2>3. Len(g) < m /\ Len(g) < k BY <1>6, <1>8, <2>2
    <2>4. g = s BY <1>6, <2>3
    <2>5. Cardinality(Near(Free, aggr[p], age[p])) = Len(s) BY <1>2, DistinctCardinality
    <2> QED BY <2>2, <2>3, <2>4, <2>5 DEF Lonely
  <1> QED BY <1>2, <1>4, <1>6, <1>7, <1>8
-----------------------------------------------------------------------------
(* The parts of the invariant, and what leaves them alone.                 *)

LEMMA IndexFrame ==
  ASSUME IndexInv, UNCHANGED <<indexVars, aggr, arrived>>
  PROVE  IndexInv'
  BY DEF IndexInv, indexVars, OfAggr

LEMMA GroupFrame ==
  ASSUME GroupInv, UNCHANGED <<groups, matched, invalid, placed, age, aggr>>
  PROVE  GroupInv'
  BY DEF GroupInv, Fits

LEMMA AgeFrame ==
  ASSUME AgeInv, UNCHANGED <<age, arrived, released>>
  PROVE  AgeInv'
  BY DEF AgeInv

LEMMA FindFrame ==
  ASSUME FindInv, UNCHANGED <<queue, matched, todo, memo, phase, age, begun, aggr>>
  PROVE  FindInv'
  BY DEF FindInv, Free, Lonely, Near

\* Outside of FindMatchGroup nothing is said about pivots.
LEMMA FindOver ==
  ASSUME phase' # "find"
  PROVE  FindInv'
  BY DEF FindInv

LEMMA InitMaker == Init => MakerInv
  <1> SUFFICES ASSUME Init PROVE MakerInv OBVIOUS
  <1>1. TypeInv
    <2>1. aggr \in [Tickets -> Aggrs] BY MixAssumption DEF Init
    <2> QED BY <2>1, SizeAssumption DEF Init, TypeInv
  <1>2. IndexInv BY EmptyFacts DEF Init, IndexInv
  <1>3. PassInv /\ GroupInv /\ SettledInv BY DEF Init, PassInv, GroupInv, SettledInv
  <1>4. AgeInv BY DEF Init, AgeInv
  <1>5. FindInv BY DEF Init, FindInv
  <1> QED BY <1>1, <1>2, <1>3, <1>4, <1>5 DEF MakerInv
-----------------------------------------------------------------------------
(* The steps of the clients and of the clock.                              *)

LEMMA ArriveStep ==
  ASSUME MakerInv, Arrive
  PROVE  MakerInv'
  <1> USE DEF MakerInv
  <1>0. /\ phase = "idle" /\ arrived' = arrived + 1 /\ arrived \in 0 .. N /\ arrived < N
        /\ toAdd' = Append(toAdd, arrived')
        /\ UNCHANGED <<aggr, age, queue, bucket, released, memo, matched, invalid, groups, todo,
                       phase, placed, begun, failures>>
    BY DEF Arrive, TypeInv, passVars, histVars
  <1>1. PICK n \in Tickets : n = arrived' BY <1>0, SizeAssumption DEF Tickets
  <1>2. arrived \in Nat /\ n = arrived + 1 /\ n \in Nat BY <1>0, <1>1
  <1>3. redis' = [redis EXCEPT ![n] = "WAITING"] BY <1>1 DEF Arrive
  <1>4. /\ toAdd' \in Seq(Tickets) /\ Range(toAdd') = Range(toAdd) \cup {n}
        /\ Ordered(toAdd) /\ (\A x \in Range(toAdd) : x < n) => Ordered(toAdd')
    <2>1. toAdd \in Seq(Tickets) BY DEF TypeInv
    <2> QED BY <1>0, <1>1, <2>1, AppendFacts
  <1>r. Range(toAdd) \subseteq Nat /\ Range(queue) \subseteq Nat /\ released \subseteq Nat
    BY TicketsNat, RangeIndex DEF TypeInv
  <1>5. TypeInv'
    <2>1. arrived' \in 0 .. N BY <1>0, SizeAssumption
    <2>2. redis' \in [Tickets -> {"none", "WAITING", "INPROGRESS", "gone"}] BY <1>3 DEF TypeInv
    <2> QED BY <1>0, <1>4, <2>1, <2>2 DEF TypeInv
  <1>6. \A x \in Range(toAdd) \cup Range(queue) : x < n BY <1>2, <1>r DEF IndexInv
  <1>7. n \notin released BY <1>2, <1>r DEF IndexInv
  <1>8. IndexInv'
    <2>1. Ordered(queue') /\ Ordered(toAdd') BY <1>0, <1>4, <1>6 DEF IndexInv
    <2>2. \A s \in Range(queue'), t \in Range(toAdd') : s < t BY <1>0, <1>4, <1>6 DEF IndexInv
    <2>3. \A t \in Range(queue') \cup Range(toAdd') : t <= arrived' /\ t \notin released'
      <3>1. \A t \in Range(queue) \cup Range(toAdd) : t <= n /\ t \notin released
        BY <1>2, <1>r, <1>6 DEF IndexInv
      <3> QED BY <1>0, <1>1, <1>2, <1>4, <1>7, <3>1
    <2>4. \A t \in released' : t <= arrived' BY <1>0, <1>2, <1>r DEF IndexInv
    <2>5. \A a \in Aggrs : Ordered(bucket'[a]) /\ Range(bucket'[a]) = Range(queue') \cap OfAggr(a)'
      BY <1>0 DEF IndexInv, OfAggr
    <2> QED BY <2>1, <2>2, <2>3, <2>4, <2>5 DEF IndexInv
  <1>9. PassInv' BY <1>0 DEF PassInv
  <1>10. GroupInv' BY <1>0, GroupFrame
  <1>11. SettledInv'
    <2>1. \A t \in released : t # n BY <1>7
    <2>2. \A t \in released : redis'[t] = redis[t] BY <1>3, <2>1 DEF TypeInv
    <2>3. invalid = {} BY <1>0 DEF PassInv
    <2> QED BY <1>0, <2>2, <2>3 DEF SettledInv
  <1>12. AgeInv'
    <2>1. \A t \in Tickets : t > arrived' => age'[t] = 0 BY <1>0, <1>2, TicketsNat DEF AgeInv
    <2>2. ASSUME NEW s \in Tickets, NEW t \in Tickets, s < t, t <= arrived',
                 s \notin released', t \notin released'
          PROVE  age'[t] <= age'[s]
      <3>1. s \in Nat /\ t \in Nat /\ age[s] \in 0 .. 3 BY TicketsNat DEF TypeInv
      <3>2. CASE t <= arrived BY <1>0, <2>2, <3>2 DEF AgeInv
      <3>3. CASE ~ (t <= arrived)
        <4>1. t > arrived BY <1>2, <3>1, <3>3
        <4>2. age[t] = 0 BY <4>1 DEF AgeInv
        <4> QED BY <1>0, <3>1, <4>2
      <3> QED BY <3>2, <3>3
    <2> QED BY <2>1, <2>2 DEF AgeInv
  <1>13. FindInv' BY <1>0, FindOver
  <1> QED BY <1>5, <1>8, <1>9, <1>10, <1>11, <1>12, <1>13

LEMMA TickStep ==
  ASSUME MakerInv, Tick
  PROVE  MakerInv'
  <1> USE DEF MakerInv
  <1>0. /\ UNCHANGED <<aggr, arrived, redis, toAdd, queue, bucket, released, memo, matched, invalid,
                       groups, todo, phase, placed, begun, failures>>
        /\ age' = [t \in Tickets |-> IF t \in Waiting THEN age[t] + 1 ELSE age[t]]
    BY DEF Tick, indexVars, passVars, histVars
  <1>1. \A t \in Tickets : /\ age[t] \in 0 .. 3 /\ age'[t] \in 0 .. 3 /\ age[t] <= age'[t]
                           /\ age'[t] = IF t \in Waiting THEN age[t] + 1 ELSE age[t]
    <2> SUFFICES ASSUME NEW t \in Tickets
                 PROVE  /\ age[t] \in 0 .. 3 /\ age'[t] \in 0 .. 3 /\ age[t] <= age'[t]
                        /\ age'[t] = IF t \in Waiting THEN age[t] + 1 ELSE age[t]
      OBVIOUS
    <2>1. age[t] \in 0 .. 3 BY DEF TypeInv
    <2>2. t \in Waiting => age[t] < 3 BY DEF Waiting
    <2>3. age'[t] = IF t \in Waiting THEN age[t] + 1 ELSE age[t] BY <1>0
    <2> QED BY <2>1, <2>2, <2>3
  <1>2. TypeInv'
    <2>1. age' \in [Tickets -> 0 .. 3] BY <1>0, <1>1
    <2> QED BY <1>0, <2>1 DEF TypeInv
  <1>3. IndexInv' BY <1>0, IndexFrame DEF indexVars
  <1>4. PassInv' BY <1>0 DEF PassInv
  <1>5. GroupInv'
    <2>1. ASSUME NEW i \in 1 .. Len(groups) PROVE Fits(groups[i])'
      <3>1. PICK g : g = groups[i] OBVIOUS
      <3>2. g \in Seq(Tickets) /\ g # <<>> /\ Fits(g) BY <3>1 DEF TypeInv, GroupInv
      <3>3. PICK p \in Tickets : p = g[1] BY <3>2
      <3>4. PICK m \in 0 .. 3 : m = age[p] BY <1>1
      <3>5. PICK n \in 0 .. 3 : n = age'[p] BY <1>1
      <3>6. m <= n BY <1>1, <3>4, <3>5
      <3>7. /\ MinPlayers(n) <= MinPlayers(m) /\ MinPlayers(n) \in 1 .. GroupSize
            /\ MinPlayers(m) \in 1 .. GroupSize
            /\ (-AllowedDiff(m) .. AllowedDiff(m)) \subseteq (-AllowedDiff(n) .. AllowedDiff(n))
        BY <3>6, ToleranceGrows
      <3>8. /\ Len(g) \in MinPlayers(m) .. GroupSize
            /\ \A t \in Range(g) : aggr[t] - aggr[p] \in -AllowedDiff(m) .. AllowedDiff(m)
        BY <3>2, <3>3, <3>4 DEF Fits
      <3>9. Len(g) \in MinPlayers(n) .. GroupSize
        <4>1. PICK u \in Nat : u = MinPlayers(n) BY <3>7, SizeAssumption
        <4>2. PICK v \in Nat : v = MinPlayers(m) BY <3>7, SizeAssumption
        <4>3. u <= v /\ Len(g) \in v .. GroupSize /\ GroupSize \in Nat
          BY <3>7, <3>8, <4>1, <4>2, SizeAssumption
        <4>4. Len(g) \in u .. GroupSize BY <4>3
        <4> QED BY <4>1, <4>4
      <3>10. \A t \in Range(g) : aggr[t] - aggr[p] \in -AllowedDiff(n) .. AllowedDiff(n)
        BY <3>7, <3>8
      <3>11. g = groups'[i] /\ aggr' = aggr BY <1>0, <3>1
      <3>12. Fits(groups[i])' <=>
               /\ Len(g) \in MinPlayers(age'[p]) .. GroupSize
               /\ \A t \in Range(g) : aggr[t] - aggr[p] \in -AllowedDiff(age'[p]) .. AllowedDiff(age'[p])
        BY <3>3, <3>11 DEF Fits
      <3> QED BY <3>5, <3>9, <3>10, <3>12
    <2> QED BY <1>0, <2>1 DEF GroupInv
  <1>6. SettledInv' BY <1>0 DEF SettledInv
  <1>7. AgeInv'
    <2>1. ASSUME NEW s \in Tickets, NEW t \in Tickets, s < t, t <= arrived, s \notin released, t \notin released
          PROVE  age'[t] <= age'[s]
      <3>1. age[t] <= age[s] BY <2>1 DEF AgeInv
      <3>2. s \in 1 .. arrived /\ t \in 1 .. arrived
        BY <2>1 DEF TypeInv, Tickets
      <3>3. (s \in Waiting <=> age[s] < 3) /\ (t \in Waiting <=> age[t] < 3)
        BY <2>1, <3>2 DEF Waiting
      <3> QED BY <1>1, <3>1, <3>3
    <2>2. ASSUME NEW t \in Tickets, t > arrived PROVE age'[t] = 0
      <3>1. t \notin Waiting BY <2>2 DEF Waiting, TypeInv
      <3>2. age[t] = 0 BY <2>2 DEF AgeInv
      <3> QED BY <1>1, <3>1, <3>2
    <2> QED BY <1>0, <2>1, <2>2 DEF AgeInv
  <1>8. FindInv'
    <2>1. CASE phase # "find" BY <1>0, <2>1, FindOver
    <2>2. CASE phase = "find"
      <3>1. \A t \in Tickets : begun'[t] <= age'[t]
        <4> SUFFICES ASSUME NEW t \in Tickets PROVE begun[t] <= age'[t] BY <1>0
        <4>1. begun[t] \in 0 .. 3 /\ begun[t] <= age[t] BY <2>2 DEF FindInv, TypeInv
        <4> QED BY <1>1, <4>1
      <3> QED BY <1>0, <2>2, <3>1 DEF FindInv, Free, Lonely, Near
    <2> QED BY <2>1, <2>2
  <1> QED BY <1>2, <1>3, <1>4, <1>5, <1>6, <1>7, <1>8

\* A cancel or an expiry only takes a hash away.
LEMMA LossStep ==
  ASSUME MakerInv, NEW t \in Tickets, Cancel(t) \/ Expire(t)
  PROVE  MakerInv'
  <1> USE DEF MakerInv
  <1>0. /\ UNCHANGED <<aggr, arrived, age, toAdd, queue, bucket, released, memo, matched, invalid,
                       groups, todo, phase, placed, begun, failures>>
        /\ redis' = [redis EXCEPT ![t] = "gone"]
    BY DEF Cancel, Expire, indexVars, passVars, histVars
  <1>1. \A u \in Tickets : redis'[u] = "WAITING" => redis[u] = "WAITING" BY <1>0 DEF TypeInv
  <1>2. TypeInv' BY <1>0 DEF TypeInv
  <1>3. IndexInv' BY <1>0, IndexFrame DEF indexVars
  <1>4. PassInv' BY <1>0 DEF PassInv
  <1>5. GroupInv' BY <1>0, GroupFrame
  <1>6. SettledInv' BY <1>0, <1>1 DEF SettledInv, TypeInv
  <1>7. AgeInv' BY <1>0, AgeFrame
  <1>8. FindInv' BY <1>0, FindFrame
  <1> QED BY <1>2, <1>3, <1>4, <1>5, <1>6, <1>7, <1>8
-----------------------------------------------------------------------------
(* The steps of a pass.                                                    *)

LEMMA BeginStep ==
  ASSUME MakerInv, Begin
  PROVE  MakerInv'
  <1> USE DEF MakerInv
  <1>0. /\ phase = "idle" /\ queue \o toAdd # <<>> /\ queue' = queue \o toAdd /\ toAdd' = <<>>
        /\ memo' = {} /\ groups' = <<>> /\ todo' = queue' /\ phase' = "find" /\ begun' = age
        /\ UNCHANGED <<released, matched, invalid, placed, aggr, arrived, age, redis>>
    BY DEF Begin, clientVars
  <1>1. matched = {} /\ invalid = {} BY <1>0 DEF PassInv
  <1>2. queue \in Seq(Tickets) /\ toAdd \in Seq(Tickets) BY DEF TypeInv
  <1>3. /\ queue' \in Seq(Tickets) /\ Range(queue') = Range(queue) \cup Range(toAdd)
        /\ Ordered(queue')
    BY <1>0, <1>2, ConcatFacts DEF IndexInv
  <1>4. ASSUME NEW a \in Aggrs
        PROVE  /\ bucket'[a] \in Seq(Tickets) /\ Ordered(bucket'[a])
               /\ Range(bucket'[a]) = Range(queue') \cap OfAggr(a)
    <2>1. PICK s : s = bucket[a] OBVIOUS
    <2>2. PICK k : k = Keep(toAdd, OfAggr(a)) OBVIOUS
    <2>3. s \in Seq(Tickets) /\ Ordered(s) /\ Range(s) = Range(queue) \cap OfAggr(a)
      BY <2>1 DEF TypeInv, IndexInv
    <2>4. k \in Seq(Tickets) /\ Ordered(k) /\ Range(k) = Range(toAdd) \cap OfAggr(a)
      BY <1>2, <2>2, KeepFacts DEF IndexInv
    <2>5. \A x \in Range(s), y \in Range(k) : x < y BY <2>3, <2>4 DEF IndexInv
    <2>6. s \o k \in Seq(Tickets) /\ Ordered(s \o k) /\ Range(s \o k) = Range(s) \cup Range(k)
      BY <2>3, <2>4, <2>5, ConcatFacts
    <2>7. bucket'[a] = s \o k BY <2>1, <2>2 DEF Begin
    <2>8. Range(s) \cup Range(k) = Range(queue') \cap OfAggr(a) BY <1>3, <2>3, <2>4
    <2> QED BY <2>6, <2>7, <2>8
  <1>5. TypeInv'
    <2>1. bucket' \in [Aggrs -> Seq(Tickets)]
      <3>1. bucket' = [a \in Aggrs |-> bucket'[a]] BY DEF Begin
      <3> QED BY <1>4, <3>1
    <2>2. toAdd' \in Seq(Tickets) /\ todo' \in Seq(Tickets) /\ groups' \in Seq(Seq(Tickets))
      BY <1>0, <1>3
    <2>3. memo' \subseteq Aggrs BY <1>0
    <2> QED BY <1>0, <1>3, <2>1, <2>2, <2>3 DEF TypeInv
  <1>6. IndexInv'
    <2>1. Ordered(toAdd') /\ Range(toAdd') = {} BY <1>0, EmptyFacts
    <2>2. \A a \in Aggrs : Ordered(bucket'[a]) /\ Range(bucket'[a]) = Range(queue') \cap OfAggr(a)'
      <3>1. \A a \in Aggrs : OfAggr(a)' = OfAggr(a) BY <1>0 DEF OfAggr
      <3> QED BY <1>4, <3>1
    <2> QED BY <1>0, <1>3, <2>1, <2>2 DEF IndexInv
  <1>7. PassInv' BY <1>0, <1>1, <1>3 DEF PassInv
  <1>8. GroupInv' BY <1>0 DEF GroupInv
  <1>9. SettledInv' BY <1>0, <1>1 DEF SettledInv
  <1>10. AgeInv' BY <1>0, AgeFrame
  <1>11. FindInv'
    <2>1. \A t \in Tickets : begun'[t] <= age'[t]
      <3> SUFFICES ASSUME NEW t \in Tickets PROVE age[t] <= age[t] BY <1>0
      <3>1. age[t] \in 0 .. 3 BY DEF TypeInv
      <3> QED BY <3>1
    <2>2. ASSUME NEW s \in Range(queue'), NEW t \in Range(queue'), s < t PROVE begun'[t] <= begun'[s]
      <3>1. s \in Tickets /\ t \in Tickets BY <1>3, RangeIndex
      <3>2. t <= arrived /\ s \notin released /\ t \notin released BY <1>3 DEF IndexInv
      <3> QED BY <1>0, <2>2, <3>1, <3>2 DEF AgeInv
    <2>3. Free' \ Range(todo') = {} /\ memo' = {} BY <1>0 DEF Free
    <2> QED BY <2>1, <2>2, <2>3 DEF FindInv
  <1> QED BY <1>5, <1>6, <1>7, <1>8, <1>9, <1>10, <1>11

\* What FindMatchGroup has shown when it has looked at one more pivot, the last
\* one included.
LEMMA PivotLooks ==
  ASSUME MakerInv, Pivot
  PROVE  /\ \A p \in Free' \ Range(todo') : Lonely(Free', aggr[p], begun[p])
         /\ \A a \in memo' : \E n \in 0 .. 3 :
              /\ \A p \in Range(todo') : aggr[p] = a => begun[p] <= n
              /\ Lonely(Free', a, n)
  <1> USE DEF MakerInv
  <1>0. /\ phase = "find" /\ todo' = Tail(todo) /\ queue' = queue
        /\ todo # <<>> /\ Ordered(todo) /\ Range(todo) \subseteq Range(queue) /\ todo \in Seq(Tickets)
    BY DEF Pivot, PassInv, indexVars, TypeInv
  <1>1. PICK h : h = Head(todo) OBVIOUS
  <1>2. /\ h \in Range(todo) /\ h \in Tickets /\ Range(todo') \subseteq Range(todo)
        /\ Range(todo) \subseteq Range(todo') \cup {h}
    BY <1>0, <1>1, TailFacts
  <1>3. \A x \in Range(todo') : h < x
    <2>1. todo \in Seq(Nat) BY <1>0, TicketsNat
    <2> QED BY <1>0, <1>1, <2>1, OrderedTail
  <1>4. /\ \A t \in Tickets : begun[t] \in 0 .. 3 /\ age[t] \in 0 .. 3 /\ begun[t] <= age[t]
        /\ \A s, t \in Range(queue) : s < t => begun[t] <= begun[s]
        /\ \A p \in Free \ Range(todo) : Lonely(Free, aggr[p], begun[p])
        /\ \A a \in memo : \E n \in 0 .. 3 :
             (\A p \in Range(todo) : aggr[p] = a => begun[p] <= n) /\ Lonely(Free, a, n)
    BY <1>0 DEF FindInv, TypeInv
  <1>5. IsFiniteSet(Free) /\ Range(queue) \subseteq Tickets BY FreeFinite, RangeIndex DEF TypeInv
  <1>6. matched \subseteq matched'
    BY DEF Pivot
  <1>7. Free' \subseteq Free BY <1>0, <1>6 DEF Free
  <1>8. \A a, n : n \in 0 .. 3 /\ Lonely(Free, a, n) => Lonely(Free', a, n)
    <2> SUFFICES ASSUME NEW a, NEW n \in 0 .. 3, Lonely(Free, a, n) PROVE Lonely(Free', a, n) OBVIOUS
    <2>1. PICK R : R = Free' OBVIOUS
    <2>2. n <= n OBVIOUS
    <2>3. Lonely(R, a, n) BY <1>5, <1>7, <2>1, <2>2, LonelyGrows
    <2> QED BY <2>1, <2>3
  \* What the older flags say, they say still.
  <1>9. \A a \in memo : \E n \in 0 .. 3 :
          (\A p \in Range(todo') : aggr[p] = a => begun[p] <= n) /\ Lonely(Free', a, n)
    BY <1>2, <1>4, <1>8
  \* The pivot is matched, skipped for a flag, put into a group, or flagged.
  <1>10. \/ h \in matched' /\ memo' = memo
         \/ aggr[h] \in memo /\ memo' = memo
         \/ h \in Free /\ memo' = memo \cup {aggr[h]} /\ Lonely(Free, aggr[h], age[h])
    <2>1. CASE h \in matched
      <3>1. memo' = memo BY <1>1, <2>1 DEF Pivot
      <3> QED BY <1>6, <2>1, <3>1
    <2>2. CASE aggr[h] \in memo
      <3>1. memo' = memo BY <1>1, <2>2 DEF Pivot
      <3> QED BY <2>2, <3>1
    <2>3. CASE h \notin matched /\ aggr[h] \notin memo
      <3>1. h \in Free BY <1>0, <1>2, <2>3 DEF Free
      <3>2. PICK g : g = GroupOf(h) OBVIOUS
      <3>3. /\ g \in Seq(Tickets) /\ g # <<>> /\ g[1] = h
            /\ ~ (Len(g) >= MinPlayers(age[h])) => Lonely(Free, aggr[h], age[h])
        BY <3>1, <3>2, GroupOfFacts
      <3>4. CASE Len(g) >= MinPlayers(age[h])
        <4>1. memo' = memo /\ matched' = matched \cup Range(g)
          BY <1>1, <2>3, <3>2, <3>4 DEF Pivot, Mark
        <4>2. h \in Range(g)
          <5>1. 1 \in 1 .. Len(g) BY <3>3
          <5> QED BY <3>3, <5>1, RangeIndex
        <4> QED BY <4>1, <4>2
      <3>5. CASE ~ (Len(g) >= MinPlayers(age[h]))
        <4>1. memo' = memo \cup {aggr[h]} BY <1>1, <2>3, <3>2, <3>5 DEF Pivot, Flag
        <4> QED BY <3>1, <3>3, <3>5, <4>1
      <3> QED BY <3>4, <3>5
    <2> QED BY <2>1, <2>2, <2>3
  <1>11. PICK k \in 0 .. 3 : k = begun[h] BY <1>2, <1>4
  <1>12. ASSUME h \in Free, Lonely(Free, aggr[h], age[h]) PROVE Lonely(Free', aggr[h], k)
    <2>1. PICK R : R = Free' OBVIOUS
    <2>2. PICK n \in 0 .. 3 : n = age[h] BY <1>2, <1>4
    <2>3. k <= n BY <1>2, <1>4, <1>11, <2>2
    <2>4. Lonely(R, aggr[h], k) BY <1>5, <1>7, <1>12, <2>1, <2>2, <2>3, LonelyGrows
    <2> QED BY <2>1, <2>4
  <1>13. ASSUME h \in Free', aggr[h] \in memo PROVE Lonely(Free', aggr[h], k)
    <2>1. PICK n \in 0 .. 3 : begun[h] <= n /\ Lonely(Free, aggr[h], n)
      BY <1>2, <1>4, <1>13
    <2>2. PICK R : R = Free' OBVIOUS
    <2>3. Lonely(R, aggr[h], k) BY <1>5, <1>7, <1>11, <2>1, <2>2, LonelyGrows
    <2> QED BY <2>2, <2>3
  <1>14. h \in Free' => Lonely(Free', aggr[h], begun[h])
    <2>1. h \in Free' => h \notin matched' BY DEF Free
    <2> QED BY <1>10, <1>11, <1>12, <1>13, <2>1
  <1>15. ASSUME NEW p \in Free' \ Range(todo') PROVE Lonely(Free', aggr[p], begun[p])
    <2>1. CASE p = h BY <1>14, <1>15, <2>1
    <2>2. CASE p # h
      <3>1. p \in Free \ Range(todo) BY <1>2, <1>7, <1>15, <2>2
      <3>2. p \in Tickets BY <1>5, <3>1 DEF Free
      <3>3. begun[p] \in 0 .. 3 /\ Lonely(Free, aggr[p], begun[p]) BY <1>4, <3>1, <3>2
      <3> QED BY <1>8, <3>3
    <2> QED BY <2>1, <2>2
  <1>16. ASSUME NEW a \in memo'
         PROVE  \E n \in 0 .. 3 :
                  (\A p \in Range(todo') : aggr[p] = a => begun[p] <= n) /\ Lonely(Free', a, n)
    <2>1. CASE a \in memo BY <1>9, <2>1
    <2>2. CASE a \notin memo
      <3>1. h \in Free /\ a = aggr[h] /\ Lonely(Free, aggr[h], age[h]) BY <1>10, <1>16, <2>2
      <3>2. Lonely(Free', a, k) BY <1>12, <3>1
      <3>3. \A p \in Range(todo') : begun[p] <= k
        <4> SUFFICES ASSUME NEW p \in Range(todo') PROVE begun[p] <= k OBVIOUS
        <4>1. p \in Range(queue) /\ h \in Range(queue) /\ h < p BY <1>0, <1>2, <1>3
        <4> QED BY <1>4, <1>11, <4>1
      <3> QED BY <3>2, <3>3
    <2> QED BY <2>1, <2>2
  <1> QED BY <1>15, <1>16

\* A pivot leaves the groups alone or adds one of free tickets, which fits.
LEMMA PivotForms ==
  ASSUME MakerInv, Pivot
  PROVE  \/ UNCHANGED <<matched, groups>>
         \/ \E g \in Seq(Tickets) :
              /\ matched' = matched \cup Range(g) /\ groups' = Append(groups, g)
              /\ g # <<>> /\ Distinct(g) /\ Fits(g) /\ Range(g) \subseteq Free
  <1> USE DEF MakerInv
  <1>0. todo # <<>> /\ todo \in Seq(Tickets) /\ Range(todo) \subseteq Range(queue)
    BY DEF Pivot, PassInv, TypeInv
  <1>1. PICK h : h = Head(todo) OBVIOUS
  <1>2. h \in Tickets /\ h \in Range(queue) BY <1>0, <1>1, TailFacts
  <1>3. CASE h \in matched \/ aggr[h] \in memo BY <1>1, <1>3 DEF Pivot
  <1>4. CASE ~ (h \in matched \/ aggr[h] \in memo)
    <2>1. h \in Free BY <1>2, <1>4 DEF Free
    <2>2. PICK g : g = GroupOf(h) OBVIOUS
    <2>3. /\ g \in Seq(Tickets) /\ g # <<>> /\ g[1] = h /\ Distinct(g)
          /\ Range(g) \subseteq Near(Free, aggr[h], age[h])
          /\ Len(g) \in 0 .. GroupSize
      BY <2>1, <2>2, GroupOfFacts
    <2>4. CASE Len(g) >= MinPlayers(age[h])
      <3>1. matched' = matched \cup Range(g) /\ groups' = Append(groups, g)
        BY <1>1, <1>4, <2>2, <2>4 DEF Pivot, Mark
      <3>2. Fits(g)
        <4>1. PICK m \in Nat : m = MinPlayers(age[h])
          <5>1. age[h] \in 0 .. 3 BY <1>2 DEF TypeInv
          <5>2. MinPlayers(age[h]) \in 1 .. GroupSize BY <5>1, ToleranceGrows
          <5> QED BY <5>2, SizeAssumption
        <4>2. Len(g) \in m .. GroupSize BY <2>3, <2>4, <4>1, SizeAssumption
        <4>3. \A t \in Range(g) : aggr[t] - aggr[h] \in -AllowedDiff(age[h]) .. AllowedDiff(age[h])
          BY <2>3 DEF Near
        <4> QED BY <2>3, <4>1, <4>2, <4>3 DEF Fits
      <3>3. Range(g) \subseteq Free BY <2>3 DEF Near
      <3> QED BY <2>3, <3>1, <3>2, <3>3
    <2>5. CASE ~ (Len(g) >= MinPlayers(age[h])) BY <1>1, <1>4, <2>2, <2>5 DEF Pivot
    <2> QED BY <2>4, <2>5
  <1> QED BY <1>3, <1>4

LEMMA PivotStep ==
  ASSUME MakerInv, Pivot
  PROVE  MakerInv'
  <1> USE DEF MakerInv
  <1>0. /\ phase = "find" /\ todo' = Tail(todo)
        /\ phase' = IF Tail(todo) = <<>> THEN "commit" ELSE "find"
        /\ UNCHANGED <<invalid, aggr, arrived, age, redis, toAdd, queue, bucket, released, placed, begun>>
    BY DEF Pivot, clientVars, indexVars, histVars
  <1>1. /\ todo # <<>> /\ todo \in Seq(Tickets) /\ Ordered(todo) /\ invalid = {}
        /\ Range(todo) \subseteq Range(queue)
    BY <1>0 DEF PassInv, TypeInv
  <1>2. /\ todo' \in Seq(Tickets) /\ Range(todo') \subseteq Range(todo)
        /\ Head(todo) \in Tickets
    BY <1>0, <1>1, TailFacts
  <1>3. Ordered(todo')
    <2>1. todo \in Seq(Nat) BY <1>1, TicketsNat
    <2> QED BY <1>0, <1>1, <2>1, OrderedTail
  <1>4. memo' \subseteq Aggrs
    <2>1. aggr[Head(todo)] \in Aggrs BY <1>2 DEF TypeInv
    <2>2. memo' = memo \/ memo' = memo \cup {aggr[Head(todo)]} BY DEF Pivot, Flag
    <2> QED BY <2>1, <2>2 DEF TypeInv
  <1>5. Range(queue) \subseteq Tickets /\ Free \subseteq Range(queue) /\ Free \cap matched = {}
    BY RangeIndex DEF TypeInv, Free
  <1>6. IndexInv' BY <1>0, IndexFrame DEF indexVars
  <1>7. AgeInv' BY <1>0, AgeFrame
  <1>8. matched' \subseteq Range(queue) /\ groups' \in Seq(Seq(Tickets))
    <2>1. CASE UNCHANGED <<matched, groups>> BY <2>1 DEF TypeInv, PassInv
    <2>2. CASE ~ UNCHANGED <<matched, groups>>
      <3>1. PICK g \in Seq(Tickets) :
               matched' = matched \cup Range(g) /\ groups' = Append(groups, g) /\ Range(g) \subseteq Free
        BY <2>2, PivotForms
      <3>2. groups \in Seq(Seq(Tickets)) BY DEF TypeInv
      <3>3. groups' \in Seq(Seq(Tickets)) BY <3>1, <3>2, AppendFacts
      <3> QED BY <1>5, <3>1, <3>3 DEF PassInv
    <2> QED BY <2>1, <2>2
  <1>9. TypeInv' BY <1>0, <1>2, <1>4, <1>5, <1>8 DEF TypeInv
  <1>10. PassInv' BY <1>0, <1>1, <1>2, <1>3, <1>8 DEF PassInv
  <1>11. GroupInv' /\ SettledInv'
    <2>1. CASE UNCHANGED <<matched, groups>>
      <3>1. GroupInv' BY <1>0, <2>1, GroupFrame
      <3>2. SettledInv' BY <1>0, <2>1 DEF SettledInv
      <3> QED BY <3>1, <3>2
    <2>2. CASE ~ UNCHANGED <<matched, groups>>
      <3>1. PICK g \in Seq(Tickets) :
              /\ matched' = matched \cup Range(g) /\ groups' = Append(groups, g)
              /\ g # <<>> /\ Distinct(g) /\ Fits(g) /\ Range(g) \subseteq Free
        BY <2>2, PivotForms
      <3>2. groups \in Seq(Seq(Tickets)) BY DEF TypeInv
      <3>3. PICK l \in Nat : l = Len(groups) BY <3>2
      <3>4. /\ Len(groups') = l + 1 /\ groups'[l + 1] = g
            /\ \A i \in 1 .. l : groups'[i] = groups[i]
        BY <3>1, <3>2, <3>3, AppendFacts
      <3>5. \A i \in 1 .. l + 1 : i \in 1 .. l \/ i = l + 1 OBVIOUS
      <3>6. /\ \A i \in 1 .. l : Range(groups[i]) \cap Range(g) = {}
            /\ \A s \in placed : Range(g) \cap s = {}
        <4>1. \A i \in 1 .. l : Range(groups[i]) \subseteq matched BY <3>3 DEF GroupInv
        <4>2. \A s \in placed : s \subseteq released \cup matched BY DEF SettledInv
        <4>3. Range(queue) \cap released = {} BY DEF IndexInv
        <4> QED BY <1>5, <3>1, <4>1, <4>2, <4>3
      <3>7. \A i \in 1 .. l : Fits(groups[i])' <=> Fits(groups[i])
        BY <1>0, <3>3, <3>4 DEF Fits
      <3>9. ASSUME NEW i \in 1 .. l + 1
            PROVE  /\ groups'[i] # <<>> /\ Distinct(groups'[i]) /\ Fits(groups[i])'
                   /\ Range(groups'[i]) \subseteq matched' \ invalid'
                   /\ \A s \in placed' : Range(groups'[i]) \cap s = {}
        <4>1. CASE i \in 1 .. l
          <5>1. /\ groups[i] # <<>> /\ Distinct(groups[i]) /\ Fits(groups[i])
                /\ Range(groups[i]) \subseteq matched \ invalid
                /\ \A s \in placed : Range(groups[i]) \cap s = {}
            BY <3>3, <4>1 DEF GroupInv
          <5>2. groups'[i] = groups[i] BY <3>4, <4>1
          <5>3. Fits(groups[i])' BY <3>7, <4>1, <5>1
          <5> QED BY <1>0, <3>1, <5>1, <5>2, <5>3
        <4>2. CASE i = l + 1
          <5>1. Fits(groups[i])' BY <1>0, <3>1, <3>4, <4>2 DEF Fits
          <5>2. groups'[i] = g BY <3>4, <4>2
          <5> QED BY <1>0, <1>1, <3>1, <3>6, <5>1, <5>2
        <4> QED BY <3>5, <4>1, <4>2
      <3>10. ASSUME NEW i \in 1 .. l + 1, NEW j \in 1 .. l + 1, i # j
             PROVE  Range(groups'[i]) \cap Range(groups'[j]) = {}
        <4>1. CASE i \in 1 .. l /\ j \in 1 .. l
          <5>1. Range(groups[i]) \cap Range(groups[j]) = {} BY <3>3, <3>10, <4>1 DEF GroupInv
          <5> QED BY <3>4, <4>1, <5>1
        <4>2. CASE i \in 1 .. l /\ j = l + 1 BY <3>4, <3>6, <4>2
        <4>3. CASE i = l + 1 /\ j \in 1 .. l BY <3>4, <3>6, <4>3
        <4> QED BY <3>5, <3>10, <4>1, <4>2, <4>3
      <3>11. GroupInv' BY <3>4, <3>9, <3>10 DEF GroupInv
      <3>12. ASSUME NEW t \in matched'
             PROVE  \/ t \in invalid'
                    \/ \E i \in 1 .. Len(groups') : t \in Range(groups'[i])
                    \/ \E s \in placed' : t \in s
        <4>1. CASE t \in Range(g)
          <5>1. l + 1 \in 1 .. Len(groups') /\ t \in Range(groups'[l + 1]) BY <3>4, <4>1
          <5> QED BY <5>1
        <4>2. CASE t \in matched
          <5>1. \/ t \in invalid
                \/ \E i \in 1 .. l : t \in Range(groups[i])
                \/ \E s \in placed : t \in s
            BY <3>3, <4>2 DEF SettledInv
          <5>2. \A i \in 1 .. l : i \in 1 .. Len(groups') /\ groups'[i] = groups[i] BY <3>4
          <5> QED BY <1>0, <5>1, <5>2
        <4> QED BY <3>1, <3>12, <4>1, <4>2
      <3>13. \A s \in placed' : s \subseteq released' \cup matched' BY <1>0, <3>1 DEF SettledInv
      <3>14. SettledInv' BY <1>0, <3>12, <3>13 DEF SettledInv
      <3> QED BY <3>11, <3>14
    <2> QED BY <2>1, <2>2
  <1>12. FindInv'
    <2> SUFFICES ASSUME phase' = "find"
                 PROVE  /\ \A t \in Tickets : begun'[t] <= age'[t]
                        /\ \A s, t \in Range(queue') : s < t => begun'[t] <= begun'[s]
                        /\ \A p \in Free' \ Range(todo') : Lonely(Free, aggr[p], begun[p])'
                        /\ \A a \in memo' : \E n \in 0 .. 3 :
                             /\ \A p \in Range(todo') : aggr'[p] = a => begun'[p] <= n
                             /\ Lonely(Free, a, n)'
      BY DEF FindInv
    <2>1. \A a, n : Lonely(Free, a, n)' <=> Lonely(Free', a, n) BY <1>0 DEF Lonely, Near
    <2>2. /\ \A t \in Tickets : begun[t] <= age[t]
          /\ \A s, t \in Range(queue) : s < t => begun[t] <= begun[s]
      BY <1>0 DEF FindInv
    <2>3. \A p : Lonely(Free, aggr[p], begun[p])' <=> Lonely(Free', aggr[p], begun[p])
      BY <1>0 DEF Lonely, Near
    <2> QED BY <1>0, <2>1, <2>2, <2>3, PivotLooks
  <1> QED BY <1>6, <1>7, <1>9, <1>10, <1>11, <1>12

\* The first group, and the ones behind it.
LEMMA FirstGroup ==
  ASSUME MakerInv, groups # <<>>
  PROVE  /\ Members \subseteq matched /\ Members \cap invalid = {} /\ Members \subseteq Tickets
         /\ Members \cap released = {} /\ \A g \in placed : Members \cap g = {}
         /\ Tail(groups) \in Seq(Seq(Tickets))
         /\ \A i \in 1 .. Len(Tail(groups)) :
              /\ i + 1 \in 1 .. Len(groups) /\ Tail(groups)[i] = groups[i + 1]
              /\ Range(Tail(groups)[i]) \cap Members = {}
         /\ \A t : (\E i \in 1 .. Len(groups) : t \in Range(groups[i])) =>
              t \in Members \/ \E i \in 1 .. Len(Tail(groups)) : t \in Range(Tail(groups)[i])
  <1> USE DEF MakerInv
  <1>1. groups \in Seq(Seq(Tickets)) BY DEF TypeInv
  <1>2. PICK r : r = Tail(groups) OBVIOUS
  <1>3. /\ r \in Seq(Seq(Tickets)) /\ Head(groups) = groups[1]
        /\ Len(r) = Len(groups) - 1 /\ Len(groups) \in Nat \ {0}
        /\ \A i \in 1 .. Len(r) : i + 1 \in 1 .. Len(groups) /\ r[i] = groups[i + 1]
    BY <1>1, <1>2, TailFacts
  <1>4. 1 \in 1 .. Len(groups) /\ Members = Range(groups[1]) BY <1>3 DEF Members
  <1>5. Members \subseteq matched \ invalid /\ \A g \in placed : Members \cap g = {}
    BY <1>4 DEF GroupInv
  <1>6. Members \cap released = {} BY <1>5 DEF PassInv, IndexInv
  <1>7. ASSUME NEW i \in 1 .. Len(r) PROVE Range(r[i]) \cap Members = {}
    <2>1. PICK k \in 1 .. Len(groups) : k = i + 1 /\ r[i] = groups[k] BY <1>3
    <2>2. k # 1 BY <2>1
    <2> QED BY <1>4, <2>1, <2>2 DEF GroupInv
  <1>8. ASSUME NEW t, NEW i \in 1 .. Len(groups), t \in Range(groups[i]), t \notin Members
        PROVE  \E j \in 1 .. Len(r) : t \in Range(r[j])
    <2>1. i # 1 BY <1>4, <1>8
    <2>2. PICK j : j = i - 1 OBVIOUS
    <2>3. j \in 1 .. Len(r) /\ j + 1 = i BY <1>3, <2>1, <2>2
    <2>4. r[j] = groups[i] BY <1>3, <2>3
    <2> QED BY <1>8, <2>3, <2>4
  <1> QED BY <1>2, <1>3, <1>5, <1>6, <1>7, <1>8 DEF TypeInv

\* The others stay as they are when the first one is through.
LEMMA GroupsBehind ==
  ASSUME MakerInv, groups # <<>>, groups' = Tail(groups), UNCHANGED <<age, aggr>>,
         matched \ Members \subseteq matched',
         invalid' \subseteq invalid \cup Members,
         \A g \in placed' : g \in placed \/ g = Members
  PROVE  GroupInv'
  <1> USE DEF MakerInv
  <1>1. PICK r : r = Tail(groups) OBVIOUS
  <1>2. \A i \in 1 .. Len(r) : /\ i + 1 \in 1 .. Len(groups) /\ r[i] = groups[i + 1]
                               /\ Range(r[i]) \cap Members = {}
    BY <1>1, FirstGroup
  <1>3. groups' = r BY <1>1
  <1>4. ASSUME NEW i \in 1 .. Len(r)
        PROVE  /\ r[i] # <<>> /\ Distinct(r[i]) /\ Fits(groups[i])'
               /\ Range(r[i]) \subseteq matched' \ invalid'
               /\ \A g \in placed' : Range(r[i]) \cap g = {}
    <2>1. PICK k \in 1 .. Len(groups) : k = i + 1 /\ r[i] = groups[k] BY <1>2
    <2>2. /\ r[i] # <<>> /\ Distinct(r[i]) /\ Fits(r[i])
          /\ Range(r[i]) \subseteq matched \ invalid
          /\ \A g \in placed : Range(r[i]) \cap g = {}
      BY <2>1 DEF GroupInv
    <2>3. Range(r[i]) \cap Members = {} BY <1>2
    <2>4. Fits(groups[i])'
      <3>1. PICK g : g = r[i] OBVIOUS
      <3>2. Fits(g) /\ groups'[i] = g BY <1>3, <2>2, <3>1
      <3> QED BY <3>2 DEF Fits
    <2> QED BY <2>2, <2>3, <2>4
  <1>5. ASSUME NEW i \in 1 .. Len(r), NEW j \in 1 .. Len(r), i # j
        PROVE  Range(r[i]) \cap Range(r[j]) = {}
    <2>1. PICK k \in 1 .. Len(groups) : k = i + 1 /\ r[i] = groups[k] BY <1>2
    <2>2. PICK m \in 1 .. Len(groups) : m = j + 1 /\ r[j] = groups[m] BY <1>2
    <2>3. k # m BY <1>5, <2>1, <2>2
    <2> QED BY <2>1, <2>2, <2>3 DEF GroupInv
  <1> QED BY <1>3, <1>4, <1>5 DEF GroupInv

LEMMA CommitStep ==
  ASSUME MakerInv, Commit
  PROVE  MakerInv'
  <1> USE DEF MakerInv
  <1>0. /\ UNCHANGED <<aggr, arrived, age, toAdd, queue, bucket, released, memo, matched, invalid,
                       groups, todo, placed, begun>>
        /\ phase = "commit" /\ groups # <<>> /\ phase' \in {"place", "refused"}
    BY DEF Commit, indexVars, histVars
  <1>1. /\ redis' \in [Tickets -> {"none", "WAITING", "INPROGRESS", "gone"}]
        /\ \A t \in Tickets : redis'[t] = "WAITING" => redis[t] = "WAITING"
    BY DEF Commit, TypeInv
  <1>2. TypeInv' BY <1>0, <1>1 DEF TypeInv
  <1>3. IndexInv' BY <1>0, IndexFrame DEF indexVars
  <1>4. PassInv' BY <1>0 DEF PassInv
  <1>5. GroupInv' BY <1>0, GroupFrame
  <1>6. SettledInv' BY <1>0, <1>1 DEF SettledInv, TypeInv
  <1>7. AgeInv' BY <1>0, AgeFrame
  <1>8. FindInv' BY <1>0, FindOver
  <1> QED BY <1>2, <1>3, <1>4, <1>5, <1>6, <1>7, <1>8

LEMMA RefusedStep ==
  ASSUME MakerInv, Refused
  PROVE  MakerInv'
  <1> USE DEF MakerInv
  <1>w. PICK w : w = {t \in Members : redis[t] = "WAITING"} OBVIOUS
  <1>0. /\ UNCHANGED <<aggr, arrived, age, redis, toAdd, queue, bucket, released, memo, todo, placed, begun>>
        /\ groups # <<>> /\ groups' = Tail(groups) /\ phase' = "commit"
        /\ matched' = matched \ w /\ invalid' = invalid \cup (Members \ w)
    BY <1>w DEF Refused, PassInv, clientVars, indexVars, histVars
  <1>1. /\ Members \subseteq matched /\ Members \cap invalid = {} /\ Members \subseteq Tickets
        /\ \A g \in placed : Members \cap g = {}
        /\ Tail(groups) \in Seq(Seq(Tickets))
        /\ \A t : (\E i \in 1 .. Len(groups) : t \in Range(groups[i])) =>
              t \in Members \/ \E i \in 1 .. Len(Tail(groups)) : t \in Range(Tail(groups)[i])
    BY <1>0, FirstGroup
  <1>2. TypeInv' BY <1>0, <1>1 DEF TypeInv
  <1>3. IndexInv' BY <1>0, IndexFrame DEF indexVars
  <1>4. PassInv' BY <1>0, <1>1, <1>w DEF PassInv
  <1>5. GroupInv' BY <1>0, <1>w, GroupsBehind
  <1>6. SettledInv'
    <2>1. \A g \in placed : g \subseteq released \cup matched' BY <1>0, <1>1, <1>w DEF SettledInv
    <2>2. ASSUME NEW t \in matched'
          PROVE  \/ t \in invalid'
                 \/ \E i \in 1 .. Len(groups') : t \in Range(groups'[i])
                 \/ \E g \in placed : t \in g
      <3>1. CASE t \in Members BY <1>0, <1>w, <2>2, <3>1
      <3>2. CASE t \notin Members BY <1>0, <1>1, <2>2, <3>2 DEF SettledInv
      <3> QED BY <3>1, <3>2
    <2>3. \A t \in invalid' : redis[t] # "WAITING" BY <1>0, <1>w DEF SettledInv
    <2> QED BY <1>0, <2>1, <2>2, <2>3 DEF SettledInv
  <1>7. AgeInv' BY <1>0, AgeFrame
  <1>8. FindInv' BY <1>0, FindOver
  <1> QED BY <1>2, <1>3, <1>4, <1>5, <1>6, <1>7, <1>8

LEMMA DistributeStep ==
  ASSUME MakerInv, Distribute
  PROVE  MakerInv'
  <1> USE DEF MakerInv
  <1>0. /\ UNCHANGED <<aggr, arrived, age, toAdd, queue, bucket, released, memo, invalid, todo, begun>>
        /\ groups # <<>> /\ groups' = Tail(groups) /\ phase' = "commit"
    BY DEF Distribute, PassInv, indexVars
  <1>1. /\ Members \subseteq matched /\ Members \cap invalid = {} /\ Members \subseteq Tickets
        /\ Members \cap released = {} /\ \A g \in placed : Members \cap g = {}
        /\ Tail(groups) \in Seq(Seq(Tickets))
        /\ \A t : (\E i \in 1 .. Len(groups) : t \in Range(groups[i])) =>
              t \in Members \/ \E i \in 1 .. Len(Tail(groups)) : t \in Range(Tail(groups)[i])
    BY <1>0, FirstGroup
  <1>2. IndexInv' BY <1>0, IndexFrame DEF indexVars
  <1>3. AgeInv' BY <1>0, AgeFrame
  <1>4. FindInv' BY <1>0, FindOver
  <1>5. CASE placed' = placed \cup {Members} /\ UNCHANGED <<redis, matched>>
    <2>1. TypeInv' BY <1>0, <1>1, <1>5 DEF TypeInv
    <2>2. PassInv' BY <1>0, <1>5 DEF PassInv
    <2>3. GroupInv' BY <1>0, <1>5, GroupsBehind
    <2>4. SettledInv'
      <3>1. \A g, h \in placed' : g # h => g \cap h = {} BY <1>1, <1>5 DEF SettledInv
      <3>2. \A g \in placed' : g \subseteq released \cup matched BY <1>1, <1>5 DEF SettledInv
      <3>3. ASSUME NEW t \in matched
            PROVE  \/ t \in invalid
                   \/ \E i \in 1 .. Len(groups') : t \in Range(groups'[i])
                   \/ \E g \in placed' : t \in g
        BY <1>0, <1>1, <1>5 DEF SettledInv
      <3> QED BY <1>0, <1>5, <3>1, <3>2, <3>3 DEF SettledInv
    <2> QED BY <1>2, <1>3, <1>4, <2>1, <2>2, <2>3, <2>4
  <1>6. CASE /\ redis' = [t \in Tickets |-> IF t \in Members THEN "WAITING" ELSE redis[t]]
             /\ matched' = matched \ Members /\ UNCHANGED placed
    <2>1. TypeInv' BY <1>0, <1>1, <1>6 DEF TypeInv
    <2>2. PassInv' BY <1>0, <1>1, <1>6 DEF PassInv
    <2>3. GroupInv' BY <1>0, <1>6, GroupsBehind
    <2>4. SettledInv'
      <3>1. \A g \in placed : g \subseteq released \cup matched' BY <1>1, <1>6 DEF SettledInv
      <3>2. ASSUME NEW t \in matched'
            PROVE  \/ t \in invalid
                   \/ \E i \in 1 .. Len(groups') : t \in Range(groups'[i])
                   \/ \E g \in placed : t \in g
        BY <1>0, <1>1, <1>6, <3>2 DEF SettledInv
      <3>3. \A t \in invalid \cup released : redis'[t] = redis[t] BY <1>1, <1>6 DEF TypeInv
      <3> QED BY <1>0, <1>6, <3>1, <3>2, <3>3 DEF SettledInv
    <2> QED BY <1>2, <1>3, <1>4, <2>1, <2>2, <2>3, <2>4
  <1> QED BY <1>5, <1>6 DEF Distribute

LEMMA ReleaseStep ==
  ASSUME MakerInv, ReleaseAndDelete
  PROVE  MakerInv'
  <1> USE DEF MakerInv
  <1>1. Done = matched /\ invalid \ matched = {} BY DEF Done, PassInv
  <1>2. PICK K : K = Tickets \ matched OBVIOUS
  <1>0. /\ UNCHANGED <<toAdd, memo, groups, todo, aggr, arrived, placed>>
        /\ groups = <<>> /\ phase' = "idle" /\ matched' = {} /\ invalid' = {}
        /\ queue' = Keep(queue, K)
        /\ bucket' = [a \in Aggrs |-> Keep(bucket[a], K)]
        /\ released' = released \cup matched
        /\ begun' = [t \in Tickets |-> 0]
        /\ age' = [t \in Tickets |-> IF t \in matched THEN 0 ELSE age[t]]
    BY <1>1, <1>2 DEF ReleaseAndDelete
  <1>3. redis' = redis
    <2>1. redis' = [t \in Tickets |-> redis[t]] BY <1>1 DEF ReleaseAndDelete
    <2> QED BY <2>1 DEF TypeInv
  <1>4. queue \in Seq(Tickets) BY DEF TypeInv
  <1>5. queue' \in Seq(Tickets) /\ Ordered(queue') /\ Range(queue') = Range(queue) \ matched
    <2>1. Range(queue) \subseteq Tickets BY <1>4, RangeIndex
    <2>2. queue' \in Seq(Tickets) /\ Ordered(queue') /\ Range(queue') = Range(queue) \cap K
      BY <1>0, <1>4, KeepFacts DEF IndexInv
    <2> QED BY <1>2, <2>1, <2>2
  <1>6. ASSUME NEW a \in Aggrs
        PROVE  /\ bucket'[a] \in Seq(Tickets) /\ Ordered(bucket'[a])
               /\ Range(bucket'[a]) = Range(queue') \cap OfAggr(a)
    <2>1. PICK s : s = bucket[a] OBVIOUS
    <2>2. s \in Seq(Tickets) /\ Ordered(s) /\ Range(s) = Range(queue) \cap OfAggr(a)
      BY <2>1 DEF TypeInv, IndexInv
    <2>3. Keep(s, K) \in Seq(Tickets) /\ Ordered(Keep(s, K)) /\ Range(Keep(s, K)) = Range(s) \cap K
      BY <2>2, KeepFacts
    <2>4. bucket'[a] = Keep(s, K) BY <1>0, <2>1
    <2>5. Range(queue) \subseteq Tickets BY <1>4, RangeIndex
    <2>6. Range(s) \cap K = Range(queue') \cap OfAggr(a) BY <1>2, <1>5, <2>2, <2>5
    <2> QED BY <2>3, <2>4, <2>6
  <1>7. TypeInv'
    <2>1. bucket' \in [Aggrs -> Seq(Tickets)]
      <3>1. bucket' = [a \in Aggrs |-> bucket'[a]] BY <1>0
      <3> QED BY <1>6, <3>1
    <2>2. age' \in [Tickets -> 0 .. 3] /\ begun' \in [Tickets -> 0 .. 3] BY <1>0 DEF TypeInv
    <2> QED BY <1>0, <1>3, <1>5, <2>1, <2>2 DEF TypeInv
  <1>8. IndexInv'
    <2>1. \A a \in Aggrs : Ordered(bucket'[a]) /\ Range(bucket'[a]) = Range(queue') \cap OfAggr(a)'
      <3>1. \A a \in Aggrs : OfAggr(a)' = OfAggr(a) BY <1>0 DEF OfAggr
      <3> QED BY <1>6, <3>1
    <2>2. \A t \in Range(toAdd) : t \notin matched
      <3>1. \A t \in Range(toAdd) : t \in Nat BY TicketsNat, RangeIndex DEF TypeInv
      <3>2. \A t \in Range(toAdd) : t \in Range(queue) => t < t BY DEF IndexInv
      <3>3. \A t \in Range(toAdd) : t \notin Range(queue) BY <3>1, <3>2
      <3> QED BY <3>3 DEF PassInv
    <2>3. matched \subseteq Range(queue) BY DEF PassInv
    <2>4. \A t \in Range(queue') \cup Range(toAdd') : t <= arrived' /\ t \notin released'
      BY <1>0, <1>5, <2>2 DEF IndexInv
    <2>5. \A t \in released' : t <= arrived' BY <1>0, <2>3 DEF IndexInv
    <2>6. \A s \in Range(queue'), t \in Range(toAdd') : s < t BY <1>0, <1>5 DEF IndexInv
    <2>7. Ordered(toAdd') BY <1>0 DEF IndexInv
    <2> QED BY <1>5, <2>1, <2>4, <2>5, <2>6, <2>7 DEF IndexInv
  <1>9. PassInv' BY <1>0 DEF PassInv
  <1>10. GroupInv' BY <1>0 DEF GroupInv
  <1>11. SettledInv'
    <2>1. \A t \in matched : redis[t] = "WAITING" => \E g \in placed : t \in g
      BY <1>0 DEF SettledInv
    <2> QED BY <1>0, <1>3, <2>1 DEF SettledInv
  <1>12. AgeInv'
    <2>1. \A t \in Tickets : age'[t] = IF t \in matched THEN 0 ELSE age[t] BY <1>0
    <2> QED BY <1>0, <2>1 DEF AgeInv
  <1>13. FindInv' BY <1>0, FindOver
  <1> QED BY <1>7, <1>8, <1>9, <1>10, <1>11, <1>12, <1>13
-----------------------------------------------------------------------------
(* The theorems.                                                           *)

LEMMA MakerStep == MakerInv /\ [Next]_vars => MakerInv'
  <1> SUFFICES ASSUME MakerInv, [Next]_vars PROVE MakerInv' OBVIOUS
  <1>1. CASE Arrive BY <1>1, ArriveStep
  <1>2. CASE Tick BY <1>2, TickStep
  <1>3. ASSUME NEW t \in Tickets, Cancel(t) \/ Expire(t) PROVE MakerInv' BY <1>3, LossStep
  <1>4. CASE Begin BY <1>4, BeginStep
  <1>5. CASE Pivot BY <1>5, PivotStep
  <1>6. CASE Commit BY <1>6, CommitStep
  <1>7. CASE Refused BY <1>7, RefusedStep
  <1>8. CASE Distribute BY <1>8, DistributeStep
  <1>9. CASE ReleaseAndDelete BY <1>9, ReleaseStep
  <1>10. CASE UNCHANGED vars
    <2>1. UNCHANGED <<aggr, arrived, age, redis, toAdd, queue, bucket, released, memo, matched,
                      invalid, groups, todo, phase, placed, begun>>
      BY <1>10 DEF vars, clientVars, indexVars, passVars, histVars
    <2>2. TypeInv' BY <2>1 DEF MakerInv, TypeInv
    <2>3. IndexInv' BY <2>1, IndexFrame DEF MakerInv, indexVars
    <2>4. PassInv' BY <2>1 DEF MakerInv, PassInv
    <2>5. GroupInv' BY <2>1, GroupFrame DEF MakerInv
    <2>6. SettledInv' BY <2>1 DEF MakerInv, SettledInv
    <2>7. AgeInv' BY <2>1, AgeFrame DEF MakerInv
    <2>8. FindInv' BY <2>1, FindFrame DEF MakerInv
    <2> QED BY <2>2, <2>3, <2>4, <2>5, <2>6, <2>7, <2>8 DEF MakerInv
  <1> QED
    BY <1>1, <1>2, <1>3, <1>4, <1>5, <1>6, <1>7, <1>8, <1>9, <1>10 DEF Next, Pass

\* The invariant holds throughout, whatever the clients, the clock and the dedicated
\* processes do.
LEMMA MakerInvariant == Spec => []MakerInv
  BY InitMaker, MakerStep, PTL DEF Spec

\* The time vector and the buckets never disagree: AddNewMatchTickets and
\* ReleaseAndDeleteTickets keep a ticket in both, in the same order, or in
\* neither, and a ticket that went back to the pool is in no group.
THEOREM MatchMakerIndexesAgree == Spec => []IndexesAgree
  <1>1. MakerInv => IndexesAgree
    <2> SUFFICES ASSUME MakerInv PROVE IndexesAgree OBVIOUS
    <2> USE DEF MakerInv
    <2>1. queue \in Seq(Tickets) /\ DOMAIN queue = 1 .. Len(queue) /\ Ordered(queue)
      BY RangeIndex DEF TypeInv, IndexInv
    <2>2. ASSUME NEW a \in Aggrs PROVE bucket[a] = Keep(queue, OfAggr(a))
      <3>1. PICK s : s = bucket[a] OBVIOUS
      <3>2. PICK k : k = Keep(queue, OfAggr(a)) OBVIOUS
      <3>3. s \in Seq(Nat) /\ Ordered(s) /\ Range(s) = Range(queue) \cap OfAggr(a)
        BY <3>1, TicketsNat DEF TypeInv, IndexInv
      <3>4. k \in Seq(Tickets) /\ Ordered(k) /\ Range(k) = Range(queue) \cap OfAggr(a)
        BY <2>1, <3>2, KeepFacts
      <3>5. k \in Seq(Nat) BY <3>4, TicketsNat
      <3>6. s = k BY <3>3, <3>4, <3>5, OrderedUnique
      <3> QED BY <3>1, <3>2, <3>6
    <2>3. \A i, j \in DOMAIN queue : i < j => queue[i] < queue[j] BY <2>1 DEF Ordered
    <2>4. Range(queue) \cap released = {} BY DEF IndexInv
    <2>5. DOMAIN groups = 1 .. Len(groups) BY RangeIndex DEF TypeInv
    <2>6. \A i \in DOMAIN groups : Range(groups[i]) \cap released = {}
      BY <2>4, <2>5 DEF GroupInv, PassInv
    <2> QED BY <2>2, <2>3, <2>4, <2>6 DEF IndexesAgree
  <1> QED BY <1>1, MakerInvariant, PTL

\* Whatever is cancelled, expires or fails between the steps of
\* StartMatchMakeInternal: nobody gets into two games, and nobody who waits is
\* dropped from the queue without one.
THEOREM MatchMakerDroppedIsServed == Spec => []DroppedIsServed
  <1>1. MakerInv => DroppedIsServed BY DEF MakerInv, SettledInv, DroppedIsServed
  <1> QED BY <1>1, MakerInvariant, PTL

\* The groups of FindMatchGroup have no player in common and keep within the
\* tolerance of their pivot, for every mix of aggressions and every group size.
THEOREM MatchMakerGroupsFit == Spec => []GroupsFit
  <1>1. MakerInv => GroupsFit
    <2> SUFFICES ASSUME MakerInv PROVE GroupsFit OBVIOUS
    <2> USE DEF MakerInv
    <2>1. groups \in Seq(Seq(Tickets)) /\ DOMAIN groups = 1 .. Len(groups) BY RangeIndex DEF TypeInv
    <2>2. \A i, j \in DOMAIN groups : i # j => Range(groups[i]) \cap Range(groups[j]) = {}
      BY <2>1 DEF GroupInv
    <2>3. ASSUME NEW i \in DOMAIN groups
          PROVE  LET p == Head(groups[i]) IN
                 /\ Cardinality(Range(groups[i])) = Len(groups[i])
                 /\ Len(groups[i]) \in MinPlayers(age[p]) .. GroupSize
                 /\ \A t \in Range(groups[i]) :
                      aggr[t] - aggr[p] \in -AllowedDiff(age[p]) .. AllowedDiff(age[p])
      <3>1. PICK g : g = groups[i] OBVIOUS
      <3>2. g \in Seq(Tickets) /\ g # <<>> /\ Distinct(g) /\ Fits(g)
        BY <2>1, <3>1 DEF GroupInv
      <3>3. Head(g) = g[1] BY <3>2, TailFacts
      <3>4. Cardinality(Range(g)) = Len(g) BY <3>2, DistinctCardinality
      <3> QED BY <3>1, <3>2, <3>3, <3>4 DEF Fits
    <2> QED BY <2>2, <2>3 DEF GroupsFit
  <1> QED BY <1>1, MakerInvariant, PTL

\* The flags of FindMatchGroup hide no group: a flag is set by a pivot who has
\* waited at least as long as those it silences, so that he tolerated at least
\* as much, and later pivots only take tickets away.
THEOREM MatchMakerNoGroupMissed == Spec => NoGroupMissed
  <1> DEFINE A == phase = "find" /\ phase' = "commit" =>
                    \A p \in Range(queue) \ matched' :
                      LET near == {t \in Range(queue) \ matched' :
                                     aggr[t] - aggr[p] \in -AllowedDiff(begun[p]) .. AllowedDiff(begun[p])}
                      IN  Cardinality(near) < MinPlayers(begun[p])
  <1>1. MakerInv /\ [Next]_vars => [A]_vars
    <2> SUFFICES ASSUME MakerInv, Next, phase = "find", phase' = "commit",
                        NEW p \in Range(queue) \ matched'
                 PROVE  Cardinality({t \in Range(queue) \ matched' :
                                       aggr[t] - aggr[p] \in -AllowedDiff(begun[p]) .. AllowedDiff(begun[p])})
                          < MinPlayers(begun[p])
      OBVIOUS
    <2>1. Pivot
      BY DEF Next, Pass, Arrive, Tick, Cancel, Expire, Begin, Commit, Refused, Distribute,
             ReleaseAndDelete, passVars
    <2>2. todo' = <<>> /\ queue' = queue BY <2>1 DEF Pivot, indexVars
    <2>3. Free' = Range(queue) \ matched' /\ Range(todo') = {} BY <2>2, EmptyFacts DEF Free
    <2>4. Lonely(Free', aggr[p], begun[p]) BY <2>1, <2>3, PivotLooks
    <2> QED BY <2>3, <2>4 DEF Lonely, Near
  <1> QED BY <1>1, MakerInvariant, PTL DEF Spec, NoGroupMissed
=============================================================================
