---------------------------- MODULE LobbyProofs ----------------------------
(***************************************************************************)
(* Lobby for every set of items and slots and every bound: the types, the  *)
(* one session of an account, the lock that covers a return, the warehouse *)
(* no match touches, the rows that back a ticket, and the conservation of  *)
(* what an account owns.                                                   *)
(***************************************************************************)
EXTENDS Lobby, FiniteSetTheorems, TLAPS

-----------------------------------------------------------------------------
(* Units and coins of a layout.                                            *)

\* A unit is a slot and a number up to the quantity of its row.
LEMMA UnitsIn ==
  ASSUME NEW S, NEW rs \in [S -> Entries]
  PROVE  /\ Units(rs) \subseteq S \X (1 .. MaxQty)
         /\ \A s \in S, k \in 1 .. MaxQty : <<s, k>> \in Units(rs) <=> k <= rs[s].qty
         /\ \A u \in Units(rs) : u[1] \in S /\ u[2] \in 1 .. MaxQty /\ u = <<u[1], u[2]>>
                                 /\ rs[u[1]].item \in Items
  <1>1. DOMAIN rs = S OBVIOUS
  <1>2. \A u \in Units(rs) : u \in S \X (1 .. MaxQty) /\ u[2] <= rs[u[1]].qty BY <1>1 DEF Units
  <1>3. ASSUME NEW u \in Units(rs) PROVE rs[u[1]].item \in Items
    <2>1. u[1] \in S /\ u[2] \in 1 .. MaxQty /\ u[2] <= rs[u[1]].qty BY <1>2
    <2>2. rs[u[1]] \in Entries BY <2>1
    <2>3. Empty.qty = 0 BY DEF Empty, Entry
    <2>4. rs[u[1]] # Empty BY <2>1, <2>3, SizeAssumption
    <2>5. PICK i \in Items, n \in 1 .. MaxQty : rs[u[1]] = Entry(i, n) BY <2>2, <2>4 DEF Entries
    <2> QED BY <2>5 DEF Entry
  <1> QED BY <1>1, <1>2, <1>3 DEF Units

\* A coin is a unit and a number up to the price of its item.
LEMMA CoinsIn ==
  ASSUME NEW S, NEW rs \in [S -> Entries]
  PROVE  /\ \A c \in Coins(rs) : /\ c[1] \in Units(rs) /\ c[2] \in 1 .. Price[rs[c[1][1]].item]
                                 /\ c = <<c[1], c[2]>>
         /\ \A u \in Units(rs) : \A p \in 1 .. Price[rs[u[1]].item] : <<u, p>> \in Coins(rs)
  BY DEF Coins

LEMMA CoinsFinite ==
  ASSUME NEW S, IsFiniteSet(S), NEW rs \in [S -> Entries]
  PROVE  IsFiniteSet(Units(rs)) /\ IsFiniteSet(Coins(rs)) /\ Worth(rs) \in Nat
  <1>1. IsFiniteSet(1 .. MaxQty) BY FS_Interval, SizeAssumption
  <1>2. IsFiniteSet(S \X (1 .. MaxQty)) BY <1>1, FS_Product
  <1>3. IsFiniteSet(Units(rs)) BY <1>2, UnitsIn, FS_Subset
  <1> DEFINE Of(u) == {u} \X (1 .. Price[rs[u[1]].item])
             f == [u \in Units(rs) |-> Of(u)]
             P == {Of(u) : u \in Units(rs)}
  <1>4. \A u \in Units(rs) : IsFiniteSet(Of(u))
    <2> SUFFICES ASSUME NEW u \in Units(rs) PROVE IsFiniteSet(Of(u)) OBVIOUS
    <2>1. Price[rs[u[1]].item] \in Nat BY UnitsIn, PresetAssumption
    <2>2. IsFiniteSet(1 .. Price[rs[u[1]].item]) BY <2>1, FS_Interval
    <2> QED BY <2>2, FS_Singleton, FS_Product
  <1>5. f \in Surjection(Units(rs), P) BY DEF Surjection
  <1>6. IsFiniteSet(P) BY <1>3, <1>5, FS_Surjection
  <1>7. IsFiniteSet(UNION P) BY <1>4, <1>6, FS_UNION
  <1>8. IsFiniteSet(Coins(rs)) BY <1>7 DEF Coins
  <1> QED BY <1>3, <1>8, FS_CardinalityType DEF Worth

\* More coins, more worth.
LEMMA WorthMonotone ==
  ASSUME NEW S, NEW T, IsFiniteSet(S), IsFiniteSet(T),
         NEW a \in [S -> Entries], NEW b \in [T -> Entries], Coins(a) \subseteq Coins(b)
  PROVE  Worth(a) <= Worth(b)
  BY CoinsFinite, FS_Subset DEF Worth

\* A part of the slots holds part of the coins.
LEMMA WorthOfPart ==
  ASSUME NEW S, NEW T, IsFiniteSet(S), T \subseteq S,
         NEW a \in [S -> Entries], NEW b \in [T -> Entries],
         \A s \in T : b[s] = a[s] \/ b[s] = Empty \/ (b[s] = Entry(a[s].item, 1) /\ a[s].qty >= 1)
  PROVE  Coins(b) \subseteq Coins(a) /\ Worth(b) <= Worth(a)
  <1>1. ASSUME NEW c \in Coins(b) PROVE c \in Coins(a)
    <2>1. c[1] \in Units(b) /\ c[2] \in 1 .. Price[b[c[1][1]].item] /\ c = <<c[1], c[2]>> BY CoinsIn
    <2>2. PICK s \in T, k \in 1 .. MaxQty : c[1] = <<s, k>> /\ k <= b[s].qty BY <2>1, UnitsIn
    <2>3. b[s] # Empty BY <2>2, SizeAssumption DEF Empty, Entry
    <2>4. b[s].item = a[s].item /\ k <= a[s].qty
      <3>1. CASE b[s] = a[s] BY <3>1, <2>2
      <3>2. CASE b[s] = Entry(a[s].item, 1) /\ a[s].qty >= 1
        <4>1. k = 1 BY <3>2, <2>2, SizeAssumption DEF Entry
        <4> QED BY <4>1, <3>2 DEF Entry
      <3> QED BY <3>1, <3>2, <2>3
    <2>5. c[1] \in Units(a) BY <2>2, <2>4, UnitsIn
    <2> QED BY <2>1, <2>2, <2>4, <2>5, CoinsIn
  <1>2. IsFiniteSet(T) BY FS_Subset
  <1> QED BY <1>1, <1>2, WorthMonotone

\* totalsMatch is enough: who may rearrange the units of every item may not
\* change what the rows are worth.
LEMMA SameTotalsSameWorth ==
  ASSUME NEW S, IsFiniteSet(S), NEW a \in [S -> Entries], NEW b \in [S -> Entries],
         Totals(a) = Totals(b)
  PROVE  Worth(a) = Worth(b)
  <1> DEFINE A(i) == {u \in Units(a) : a[u[1]].item = i}
             B(i) == {u \in Units(b) : b[u[1]].item = i}
             F == [i \in Items |-> CHOOSE f : f \in Bijection(A(i), B(i))]
             g == [c \in Coins(a) |-> <<F[a[c[1][1]].item][c[1]], c[2]>>]
  <1>1. ASSUME NEW i \in Items PROVE F[i] \in Bijection(A(i), B(i))
    <2>1. IsFiniteSet(A(i)) /\ IsFiniteSet(B(i)) BY CoinsFinite, FS_Subset
    <2>2. Totals(a)[i] = Cardinality(A(i)) /\ Totals(b)[i] = Cardinality(B(i)) BY DEF Totals
    <2>3. ExistsBijection(A(i), B(i)) BY <2>1, <2>2, FS_SameCardinalityBij
    <2>4. \E f : f \in Bijection(A(i), B(i)) BY <2>3 DEF ExistsBijection
    <2> QED BY <2>4
  <1> HIDE DEF F
  <1>2. ASSUME NEW i \in Items, NEW u \in A(i) PROVE F[i][u] \in B(i)
    BY <1>1 DEF Bijection, Injection
  <1>3. ASSUME NEW i \in Items, NEW u \in A(i), NEW v \in A(i), F[i][u] = F[i][v] PROVE u = v
    BY <1>1, <1>3 DEF Bijection, Injection, IsInjective
  <1>4. ASSUME NEW i \in Items, NEW v \in B(i) PROVE \E u \in A(i) : F[i][u] = v
    BY <1>1 DEF Bijection, Surjection
  <1>5. ASSUME NEW c \in Coins(a)
        PROVE  /\ a[c[1][1]].item \in Items /\ c[1] \in A(a[c[1][1]].item)
               /\ c[2] \in 1 .. Price[a[c[1][1]].item] /\ c = <<c[1], c[2]>>
    BY CoinsIn, UnitsIn
  <1>6. ASSUME NEW c \in Coins(a) PROVE g[c] \in Coins(b)
    <2>1. PICK i \in Items : i = a[c[1][1]].item BY <1>5
    <2>2. PICK v \in B(i) : v = F[i][c[1]] BY <1>2, <1>5, <2>1, SMTT(30)
    <2>3. g[c] = <<v, c[2]>> BY <2>1, <2>2
    <2>4. v \in Units(b) /\ c[2] \in 1 .. Price[b[v[1]].item] BY <1>5, <2>1
    <2> QED BY <2>3, <2>4, CoinsIn
  <1>7. ASSUME NEW c \in Coins(a), NEW d \in Coins(a), g[c] = g[d] PROVE c = d
    <2>1. PICK i \in Items : i = a[c[1][1]].item BY <1>5
    <2>2. PICK j \in Items : j = a[d[1][1]].item BY <1>5
    <2>3. c[1] \in A(i) /\ d[1] \in A(j) BY <1>5, <2>1, <2>2
    <2>4. F[i][c[1]] = F[j][d[1]] /\ c[2] = d[2] BY <1>7, <2>1, <2>2
    <2>5. F[i][c[1]] \in B(i) /\ F[j][d[1]] \in B(j) BY <2>3, <1>2
    <2>6. i = j BY <2>4, <2>5
    <2>7. c[1] = d[1] BY <2>3, <2>4, <2>6, <1>3, SMTT(30)
    <2> QED BY <2>4, <2>7, <1>5
  <1>8. ASSUME NEW d \in Coins(b) PROVE \E c \in Coins(a) : g[c] = d
    <2>1. d[1] \in Units(b) /\ d[2] \in 1 .. Price[b[d[1][1]].item] /\ d = <<d[1], d[2]>> BY CoinsIn
    <2>2. PICK i \in Items : i = b[d[1][1]].item BY <2>1, UnitsIn
    <2>3. PICK u \in A(i) : F[i][u] = d[1] BY <2>1, <2>2, <1>4
    <2>4. <<u, d[2]>> \in Coins(a) BY <2>1, <2>2, <2>3, CoinsIn
    <2>5. g[<<u, d[2]>>] = <<d[1], d[2]>> BY <2>3, <2>4
    <2> QED BY <2>1, <2>4, <2>5
  <1>9. g \in Bijection(Coins(a), Coins(b))
    <2>1. g \in [Coins(a) -> Coins(b)] BY <1>6
    <2> HIDE DEF g
    <2> QED BY <2>1, <1>7, <1>8 DEF Bijection, Injection, Surjection, IsInjective
  <1>10. ExistsBijection(Coins(a), Coins(b)) BY <1>9 DEF ExistsBijection
  <1> QED BY <1>10, CoinsFinite, FS_Bijection DEF Worth

LEMMA CountUpTo ==
  ASSUME NEW n \in Nat, NEW I, I = 1 .. n PROVE IsFiniteSet(I) /\ Cardinality(I) = n
  BY FS_Interval

\* A row that comes into an empty slot adds its quantity times its price.
LEMMA WorthOfNewRow ==
  ASSUME NEW S, IsFiniteSet(S), NEW a \in [S -> Entries], NEW w \in S, a[w] = Empty,
         NEW i \in Items, NEW n \in 1 .. MaxQty, NEW b \in [S -> Entries],
         b[w] = Entry(i, n), \A s \in S : s # w => b[s] = a[s]
  PROVE  Worth(b) = Worth(a) + n * Price[i]
  <1> DEFINE new == ({w} \X (1 .. n)) \X (1 .. Price[i])
  <1>0. n \in Nat /\ n >= 1 /\ n <= MaxQty /\ Price[i] \in Nat BY SizeAssumption, PresetAssumption
  <1>1. b \in [S -> Entries] OBVIOUS
  <1>2. b[w].item = i /\ b[w].qty = n /\ \A s \in S : s # w => b[s] = a[s] BY DEF Entry
  <1>3. a[w].qty = 0 BY DEF Empty, Entry
  <1>4. ASSUME NEW c \in Coins(b) PROVE c \in Coins(a) \cup new
    <2>1. c[1] \in Units(b) /\ c[2] \in 1 .. Price[b[c[1][1]].item] /\ c = <<c[1], c[2]>>
      BY <1>1, CoinsIn
    <2>2. PICK s \in S, k \in 1 .. MaxQty : c[1] = <<s, k>> /\ k <= b[s].qty BY <1>1, <2>1, UnitsIn
    <2>3. CASE s = w
      <3>1. k \in 1 .. n /\ c[2] \in 1 .. Price[i] BY <2>1, <2>2, <2>3, <1>2, <1>0
      <3> QED BY <3>1, <2>1, <2>2, <2>3
    <2>4. CASE s # w
      <3>1. c[1] \in Units(a) /\ c[2] \in 1 .. Price[a[c[1][1]].item] BY <2>1, <2>2, <2>4, <1>2, UnitsIn
      <3> QED BY <3>1, <2>1, CoinsIn
    <2> QED BY <2>3, <2>4
  <1>5. ASSUME NEW c \in Coins(a) PROVE c \in Coins(b) /\ c \notin new
    <2>1. c[1] \in Units(a) /\ c[2] \in 1 .. Price[a[c[1][1]].item] /\ c = <<c[1], c[2]>> BY CoinsIn
    <2>2. PICK s \in S, k \in 1 .. MaxQty : c[1] = <<s, k>> /\ k <= a[s].qty BY <2>1, UnitsIn
    <2>3. s # w BY <2>2, <1>3, SizeAssumption
    <2>4. c[1] \in Units(b) /\ c[2] \in 1 .. Price[b[c[1][1]].item] BY <2>1, <2>2, <2>3, <1>1, <1>2, UnitsIn
    <2> QED BY <2>1, <2>2, <2>3, <2>4, <1>1, CoinsIn
  <1>6. ASSUME NEW c \in new PROVE c \in Coins(b)
    <2>1. PICK k \in 1 .. n, p \in 1 .. Price[i] : c = << <<w, k>>, p>> OBVIOUS
    <2>2. k \in 1 .. MaxQty BY <1>0, SizeAssumption
    <2>3. <<w, k>> \in Units(b) BY <2>2, <1>1, <1>2, UnitsIn
    <2> QED BY <2>1, <2>3, <1>1, <1>2, CoinsIn
  <1>7. Coins(b) = Coins(a) \cup new /\ Coins(a) \cap new = {} BY <1>4, <1>5, <1>6
  <1>8. IsFiniteSet(new) /\ Cardinality(new) = n * Price[i]
    <2> DEFINE I == 1 .. n
               J == 1 .. Price[i]
               row == {w} \X I
    <2>1. I = 1 .. n /\ J = 1 .. Price[i] /\ new = row \X J OBVIOUS
    <2> HIDE DEF I, J, new
    <2>2. IsFiniteSet(I) /\ Cardinality(I) = n BY <2>1, <1>0, CountUpTo
    <2>3. IsFiniteSet(J) /\ Cardinality(J) = Price[i] BY <2>1, <1>0, CountUpTo
    <2>4. IsFiniteSet({w}) /\ Cardinality({w}) = 1 BY FS_Singleton
    <2>5. IsFiniteSet(row) /\ Cardinality(row) = Cardinality({w}) * Cardinality(I)
      BY <2>2, <2>4, FS_Product, Zenon
    <2>6. Cardinality(row) = n BY <2>2, <2>4, <2>5, <1>0
    <2> HIDE DEF row
    <2>7. IsFiniteSet(row \X J) /\ Cardinality(row \X J) = Cardinality(row) * Cardinality(J)
      BY <2>3, <2>5, FS_Product, Zenon
    <2> QED BY <2>1, <2>3, <2>6, <2>7, Zenon
  <1>9. Cardinality(Coins(a) \cup new) = Cardinality(Coins(a)) + Cardinality(new) - Cardinality({})
    BY <1>7, <1>8, CoinsFinite, FS_Union
  <1>10. Worth(b) = Worth(a) + n * Price[i] - 0 BY <1>7, <1>8, <1>9, FS_EmptySet DEF Worth
  <1>11. Worth(a) \in Nat BY CoinsFinite
  <1>12. n * Price[i] \in Nat BY <1>0
  <1>13. Worth(b) = Worth(a) + n * Price[i] BY <1>10, <1>11, <1>12
  <1> QED BY <1>13

LEMMA WorthOfNothing ==
  ASSUME NEW S PROVE Worth([s \in S |-> Empty]) = 0
  <1> DEFINE rs == [s \in S |-> Empty]
  <1>1. rs \in [S -> Entries] BY DEF Entries
  <1>2. Units(rs) = {}
    <2> SUFFICES ASSUME NEW u \in Units(rs) PROVE FALSE OBVIOUS
    <2>1. PICK s \in S, k \in 1 .. MaxQty : u = <<s, k>> BY <1>1, UnitsIn
    <2>2. k <= rs[s].qty BY <2>1, <1>1, UnitsIn
    <2>3. rs[s].qty = 0 BY DEF Empty, Entry
    <2> QED BY <2>2, <2>3, SizeAssumption
  <1>3. Coins(rs) = {} BY <1>2 DEF Coins
  <1> QED BY <1>3, FS_EmptySet DEF Worth

LEMMA SlotsFinite == IsFiniteSet(Slots) /\ Raid \subseteq Slots /\ IsFiniteSet(Raid)
  BY SizeAssumption, FS_Subset DEF Slots

\* A return writes the raid slots over: what it brings and what was in the
\* warehouse is all there is.
LEMMA WorthOfJoin ==
  ASSUME NEW l \in Layouts, NEW r \in RaidLayouts
  PROVE  Join(l, r) \in Layouts /\ Worth(Join(l, r)) <= Worth(l) + Worth(r)
  <1> DEFINE j == Join(l, r)
  <1>1. j \in Layouts BY DEF Join, Layouts, RaidLayouts, Slots
  <1>2. \A s \in Slots : j[s] = IF s \in Raid THEN r[s] ELSE l[s] BY DEF Join
  <1> HIDE DEF j
  <1>3. ASSUME NEW c \in Coins(j) PROVE c \in Coins(l) \cup Coins(r)
    <2>1. c[1] \in Units(j) /\ c[2] \in 1 .. Price[j[c[1][1]].item] /\ c = <<c[1], c[2]>>
      BY <1>1, CoinsIn DEF Layouts
    <2>2. PICK s \in Slots, k \in 1 .. MaxQty : c[1] = <<s, k>> /\ k <= j[s].qty
      BY <1>1, <2>1, UnitsIn DEF Layouts
    <2>3. CASE s \in Raid
      <3>1. c[1] \in Units(r) /\ c[2] \in 1 .. Price[r[c[1][1]].item]
        BY <2>1, <2>2, <2>3, <1>2, UnitsIn DEF RaidLayouts
      <3> QED BY <3>1, <2>1, CoinsIn DEF RaidLayouts
    <2>4. CASE s \notin Raid
      <3>1. c[1] \in Units(l) /\ c[2] \in 1 .. Price[l[c[1][1]].item]
        BY <2>1, <2>2, <2>4, <1>2, UnitsIn DEF Layouts
      <3> QED BY <3>1, <2>1, CoinsIn DEF Layouts
    <2> QED BY <2>3, <2>4
  <1>4. IsFiniteSet(Coins(l)) /\ IsFiniteSet(Coins(r)) /\ Worth(l) \in Nat /\ Worth(r) \in Nat
    BY SlotsFinite, CoinsFinite DEF Layouts, RaidLayouts
  <1> DEFINE both == Coins(l) \cup Coins(r)
             common == Coins(l) \cap Coins(r)
  <1>5. IsFiniteSet(both) /\ Cardinality(both) = Worth(l) + Worth(r) - Cardinality(common)
    BY <1>4, FS_Union DEF Worth
  <1>6. Cardinality(common) \in Nat BY <1>4, FS_Intersection, FS_CardinalityType
  <1>7. Coins(j) \subseteq both BY <1>3
  <1> HIDE DEF both, common
  <1>8. Worth(j) <= Cardinality(both) /\ Worth(j) \in Nat BY <1>5, <1>7, FS_Subset, FS_CardinalityType DEF Worth
  <1>9. Worth(j) <= Worth(l) + Worth(r) BY <1>4, <1>5, <1>6, <1>8
  <1> QED BY <1>1, <1>9 DEF j

LEMMA CarryOfType ==
  ASSUME NEW l \in Layouts
  PROVE  /\ CarryOf(l) \in RaidLayouts
         /\ \A s \in Raid : CarryOf(l)[s] = l[s] \/ (CarryOf(l)[s] = Entry(l[s].item, 1) /\ l[s].qty >= 1)
  <1>1. ASSUME NEW s \in Raid
        PROVE  /\ CarryOf(l)[s] \in Entries
               /\ CarryOf(l)[s] = l[s] \/ (CarryOf(l)[s] = Entry(l[s].item, 1) /\ l[s].qty >= 1)
    <2>1. l[s] \in Entries BY DEF Layouts, Slots
    <2>2. CASE s \in Gear /\ l[s] # Empty
      <3>1. PICK i \in Items, n \in 1 .. MaxQty : l[s] = Entry(i, n) BY <2>1, <2>2 DEF Entries
      <3>2. l[s].item = i /\ l[s].qty >= 1 BY <3>1, SizeAssumption DEF Entry
      <3>3. CarryOf(l)[s] = Entry(i, 1) BY <2>2, <3>2 DEF CarryOf
      <3>4. Entry(i, 1) \in Entries BY SizeAssumption DEF Entries
      <3> QED BY <3>2, <3>3, <3>4
    <2>3. CASE ~ (s \in Gear /\ l[s] # Empty) BY <2>1, <2>3 DEF CarryOf
    <2> QED BY <2>2, <2>3
  <1>2. CarryOf(l) = [s \in Raid |-> CarryOf(l)[s]] BY DEF CarryOf
  <1> QED BY <1>1, <1>2 DEF RaidLayouts

\* What /match/connect leaves and what the ticket carries were both in the rows.
LEMMA WorthOfCarry ==
  ASSUME NEW l \in Layouts
  PROVE  /\ NoRaid \in RaidLayouts /\ Join(l, NoRaid) \in Layouts
         /\ Worth(Join(l, NoRaid)) + Worth(CarryOf(l)) <= Worth(l)
  <1> DEFINE j == Join(l, NoRaid)
             r == CarryOf(l)
  <1>0. NoRaid \in RaidLayouts BY DEF NoRaid, RaidLayouts, Entries
  <1>1. j \in [Slots -> Entries] BY <1>0, WorthOfJoin DEF Layouts
  <1>2. r \in [Raid -> Entries] BY CarryOfType DEF RaidLayouts
  <1>3. \A s \in Slots : j[s] = IF s \in Raid THEN Empty ELSE l[s] BY DEF Join, NoRaid
  <1>4. \A s \in Raid : r[s] = l[s] \/ r[s] = Empty \/ (r[s] = Entry(l[s].item, 1) /\ l[s].qty >= 1)
    BY CarryOfType
  <1>5. \A s \in Slots : j[s] = l[s] \/ j[s] = Empty \/ (j[s] = Entry(l[s].item, 1) /\ l[s].qty >= 1)
    BY <1>3
  <1> HIDE DEF j, r
  <1>6. Coins(j) \subseteq Coins(l) BY <1>1, <1>5, SlotsFinite, WorthOfPart DEF Layouts
  <1>7. Coins(r) \subseteq Coins(l) BY <1>2, <1>4, SlotsFinite, WorthOfPart DEF Layouts
  <1>8. Coins(j) \cap Coins(r) = {}
    <2> SUFFICES ASSUME NEW c \in Coins(j), c \in Coins(r) PROVE FALSE OBVIOUS
    <2>1. c[1] \in Units(j) BY <1>1, CoinsIn
    <2>2. c[1] \in Units(r) BY <1>2, CoinsIn
    <2>3. PICK s \in Slots, k \in 1 .. MaxQty : c[1] = <<s, k>> BY <2>1, <1>1, UnitsIn
    <2>4. s \in Raid BY <2>2, <2>3, <1>2, UnitsIn
    <2>5. k <= j[s].qty BY <2>1, <2>3, <1>1, UnitsIn
    <2>6. j[s].qty = 0 BY <2>4, <1>3 DEF Empty, Entry
    <2> QED BY <2>5, <2>6, SizeAssumption
  <1>9. IsFiniteSet(Coins(j)) /\ IsFiniteSet(Coins(r)) /\ IsFiniteSet(Coins(l))
        /\ Worth(j) \in Nat /\ Worth(r) \in Nat /\ Worth(l) \in Nat
    BY <1>1, <1>2, SlotsFinite, CoinsFinite DEF Layouts
  <1> DEFINE both == Coins(j) \cup Coins(r)
  <1>10. IsFiniteSet(both) /\ Cardinality(both) = Worth(j) + Worth(r) - Cardinality({})
    BY <1>8, <1>9, FS_Union DEF Worth
  <1>11. both \subseteq Coins(l) BY <1>6, <1>7
  <1> HIDE DEF both
  <1>12. Cardinality(both) <= Worth(l) BY <1>9, <1>11, FS_Subset DEF Worth
  <1>13. Worth(j) + Worth(r) <= Worth(l) BY <1>9, <1>10, <1>12, FS_EmptySet
  <1> QED BY <1>0, <1>1, <1>13 DEF j, r, Layouts
-----------------------------------------------------------------------------
(* The inductive invariants.                                               *)

\* A seat and a return belong to a match that is INGAME and exclude each other;
\* a return that is still to be applied has a try left.
SeatInv ==
    /\ game.state # "NONE" => match.stage = "INGAME" /\ home = NoHome
    /\ home.state # "NONE" => match.stage = "INGAME" /\ game = NoGame
    /\ game.state = "NONE" => game = NoGame
    /\ home.state = "NONE" => home = NoHome
    /\ home.state = "APPLY" => home.tries < Retries
    /\ signup = "NEW" => minted = 0

\* Of an orderly client: what the sessions are before user_sess names one.
SessionInv ==
    /\ signup = "NEW" => live = {}
    /\ signup = "HASHED" => live \subseteq {1}
    /\ signup = "DONE" => live \subseteq {named}

\* Of an orderly client: which match a request in flight belongs to, and what
\* its ticket and its seat carry.
RequestInv ==
    /\ req.pc \in {"PURCHASE", "SELL", "START", "LOCK"} => NothingOpen
    /\ req.pc = "LOCK" => req.carry = IF req.loadout = "CUSTOM" THEN CarryOf(rows) ELSE Preset
    /\ req.pc \in {"CONNECT", "TAKE"} => match.stage \in {"NONE", "INGAME"} /\ ~ match.taken
    /\ req.pc = "TAKE" /\ match.stage = "INGAME" => req.loadout = match.loadout
    /\ match.stage = "INGAME" => token \in {"NONE", match.loadout}
    /\ match.taken => match.stage = "INGAME"
    /\ match.stage # "NONE" /\ match.loadout = "FREE" => match.carry = Preset
    /\ game.state = "SEAT" => game.bag = match.carry

\* What a CUSTOM seat is owed between /match/connect, which took the rows, and
\* the entry into the game.
Owed == IF game.state = "SEAT" /\ match.taken /\ match.loadout = "CUSTOM" THEN Worth(match.carry) ELSE 0

InGame == IF game.state = "JOINED" THEN Worth(game.bag) ELSE 0
OnTheWay == IF home.state = "APPLY" THEN Worth(home.slots) ELSE 0

WorthInv == money + Worth(rows) + InGame + OnTheWay + Owed <= found

LobbyInv == TypeOK /\ SeatInv
-----------------------------------------------------------------------------
(* Types, seats and returns: every client.                                 *)

\* The snapshot of a client has the totals of the rows.
LEMMA SnapshotsIn ==
  \A l \in Snapshots : l \in Layouts /\ Totals(l) = Totals(rows)
  BY DEF Snapshots, Arrangements

LEMMA NothingTyped ==
  /\ NoRaid \in RaidLayouts
  /\ NoMatch \in [stage : Stages, loadout : Loadouts, carry : RaidLayouts, taken : BOOLEAN]
  /\ NoGame \in [state : {"NONE", "SEAT", "JOINED"}, bag : RaidLayouts]
  /\ NoHome \in [state : {"NONE", "APPLY", "UNLOCK"}, slots : RaidLayouts, tries : 0 .. Retries]
  /\ NoMatch.stage = "NONE" /\ NoMatch.taken = FALSE /\ NoGame.state = "NONE" /\ NoHome.state = "NONE"
  <1>1. NoRaid \in RaidLayouts BY DEF NoRaid, RaidLayouts, Entries
  <1> QED BY <1>1, SizeAssumption DEF NoMatch, NoGame, NoHome, Stages, Loadouts

Kinds == {"PURCHASE", "SELL", "START", "CANCEL", "CONNECT"}
Requests == [pc : {"IDLE", "LOCK", "TAKE"} \cup Kinds, loadout : Loadouts, carry : RaidLayouts]

LEMMA RequestTyped ==
  /\ \A pc \in {"IDLE", "LOCK", "TAKE"} \cup Kinds, lo \in Loadouts, c \in RaidLayouts :
       /\ Request(pc, lo, c) \in Requests
       /\ Request(pc, lo, c).pc = pc /\ Request(pc, lo, c).loadout = lo /\ Request(pc, lo, c).carry = c
  /\ Idle \in Requests /\ Idle.pc = "IDLE"
  /\ \A pc \in Kinds : At(pc) \in Requests /\ At(pc).pc = pc
  BY NothingTyped DEF Request, Requests, Idle, At, Loadouts, Kinds

\* The parts of TypeOK, by who changes them.
RowsType == rows \in Layouts /\ money \in Nat
AcctType ==
    /\ live \subseteq 1 .. MaxLogins /\ named \in 0 .. MaxLogins /\ minted \in 0 .. MaxLogins
    /\ signup \in {"NEW", "HASHED", "DONE"}
MatchType ==
    /\ match \in [stage : Stages, loadout : Loadouts, carry : RaidLayouts, taken : BOOLEAN]
    /\ token \in {"NONE"} \cup Loadouts
GameType == game \in [state : {"NONE", "SEAT", "JOINED"}, bag : RaidLayouts]
HomeType == home \in [state : {"NONE", "APPLY", "UNLOCK"}, slots : RaidLayouts, tries : 0 .. Retries]
HistType == found \in Nat /\ finds \in [items : 0 .. MaxFinds, matches : 0 .. MaxMatches]

LEMMA TypeParts ==
  TypeOK <=> RowsType /\ AcctType /\ req \in Requests /\ MatchType /\ GameType /\ HomeType /\ HistType
  <1>1. {"IDLE", "LOCK", "TAKE"} \cup Kinds
          = {"IDLE", "PURCHASE", "SELL", "START", "LOCK", "CANCEL", "CONNECT", "TAKE"} BY DEF Kinds
  <1> QED BY <1>1 DEF TypeOK, RowsType, AcctType, MatchType, GameType, HomeType, HistType, Requests

LEMMA LobbyInitially == Init => LobbyInv
  <1> SUFFICES ASSUME Init PROVE LobbyInv OBVIOUS
  <1>1. rows \in Layouts BY DEF Init, Layouts, Entries
  <1>2. RowsType BY <1>1 DEF Init, RowsType
  <1>3. AcctType BY SizeAssumption DEF Init, AcctType
  <1>4. req \in Requests BY RequestTyped DEF Init
  <1>5. MatchType /\ GameType /\ HomeType BY NothingTyped DEF Init, MatchType, GameType, HomeType
  <1>6. HistType BY SizeAssumption DEF Init, HistType
  <1>7. SeatInv BY NothingTyped DEF Init, SeatInv
  <1> QED BY <1>2, <1>3, <1>4, <1>5, <1>6, <1>7, TypeParts DEF LobbyInv

\* A purchase puts a row of a type the table has, a sale takes one away.
LEMMA RowsStep ==
  ASSUME LobbyInv, NEW l \in Snapshots
  PROVE  /\ \A w \in Warehouse, i \in Items, n \in 1 .. MaxQty :
              [l EXCEPT ![w] = Entry(i, n)] \in Layouts
         /\ \A s \in Slots : [l EXCEPT ![s] = Empty] \in Layouts
         /\ \A s \in Slots : EntryWorth(l[s]) \in Nat
  <1>1. l \in [Slots -> Entries] BY SnapshotsIn DEF Layouts
  <1>2. \A i \in Items, n \in 1 .. MaxQty : Entry(i, n) \in Entries BY DEF Entries
  <1>3. Empty \in Entries BY DEF Entries
  <1>4. ASSUME NEW s \in Slots PROVE EntryWorth(l[s]) \in Nat
    <2>1. CASE l[s] = Empty BY <2>1 DEF EntryWorth
    <2>2. CASE l[s] # Empty
      <3>1. PICK i \in Items, n \in 1 .. MaxQty : l[s] = Entry(i, n) BY <1>1, <2>2 DEF Entries
      <3>2. l[s].item = i /\ l[s].qty = n BY <3>1 DEF Entry
      <3>3. n \in Nat /\ Price[i] \in Nat BY SizeAssumption, PresetAssumption
      <3>4. n * Price[i] \in Nat BY <3>3
      <3> QED BY <2>2, <3>2, <3>4 DEF EntryWorth
    <2> QED BY <2>1, <2>2
  <1> QED BY <1>1, <1>2, <1>3, <1>4 DEF Layouts

LEMMA LobbyAgain ==
  ASSUME RowsType', AcctType', req' \in Requests, MatchType', GameType', HomeType', HistType', SeatInv'
  PROVE  LobbyInv'
  <1>1. {"IDLE", "LOCK", "TAKE"} \cup Kinds
          = {"IDLE", "PURCHASE", "SELL", "START", "LOCK", "CANCEL", "CONNECT", "TAKE"} BY DEF Kinds
  <1>2. TypeOK'
    BY <1>1 DEF TypeOK, RowsType, AcctType, MatchType, GameType, HomeType, HistType, Requests
  <1> QED BY <1>2 DEF LobbyInv

\* What a step that leaves a part alone leaves of the invariant.
LEMMA LobbyFrame ==
  ASSUME LobbyInv
  PROVE  /\ UNCHANGED <<rows, money>> => RowsType'
         /\ UNCHANGED acctVars => AcctType'
         /\ UNCHANGED req => req' \in Requests
         /\ UNCHANGED <<match, token>> => MatchType'
         /\ UNCHANGED game => GameType'
         /\ UNCHANGED home => HomeType'
         /\ UNCHANGED <<found, finds>> => HistType'
         /\ UNCHANGED <<match, game, home, signup, minted>> => SeatInv'
  <1>1. RowsType /\ AcctType /\ req \in Requests /\ MatchType /\ GameType /\ HomeType /\ HistType /\ SeatInv
    BY TypeParts DEF LobbyInv
  <1> USE <1>1
  <1>2. UNCHANGED <<rows, money>> => RowsType' BY DEF RowsType
  <1>3. UNCHANGED acctVars => AcctType' BY DEF AcctType, acctVars
  <1>4. UNCHANGED <<match, token>> => MatchType' BY DEF MatchType
  <1>5. UNCHANGED game => GameType' BY DEF GameType
  <1>6. UNCHANGED home => HomeType' BY DEF HomeType
  <1>7. UNCHANGED <<found, finds>> => HistType' BY DEF HistType
  <1>8. UNCHANGED <<match, game, home, signup, minted>> => SeatInv' BY DEF SeatInv
  <1> QED BY <1>2, <1>3, <1>4, <1>5, <1>6, <1>7, <1>8

\* The session routes.
LEMMA AcctStep ==
  ASSUME LobbyInv, Signup \/ SignupNames \/ Login \/ NameExpires \/ \E s \in live : Logout(s) \/ SessionExpires(s)
  PROVE  LobbyInv'
  <1> USE DEF matchVars
  <1>t. AcctType /\ MatchType /\ SeatInv BY TypeParts DEF LobbyInv
  <1>r. ASSUME NEW m, m \in [stage : Stages, loadout : Loadouts, carry : RaidLayouts, taken : BOOLEAN]
        PROVE  Released(m) \in [stage : Stages, loadout : Loadouts, carry : RaidLayouts, taken : BOOLEAN]
    BY <1>r, NothingTyped DEF Released
  <1>1. CASE Signup
    <2>1. AcctType' BY <1>1, <1>t, SizeAssumption DEF Signup, Fresh, AcctType, SeatInv
    <2>2. SeatInv' BY <1>1, <1>t DEF Signup, SeatInv
    <2> QED BY <1>1, <2>1, <2>2, LobbyFrame, LobbyAgain DEF Signup
  <1>2. CASE SignupNames
    <2>1. AcctType' BY <1>2, <1>t, SizeAssumption DEF SignupNames, AcctType
    <2>2. SeatInv' BY <1>2, <1>t DEF SignupNames, SeatInv
    <2> QED BY <1>2, <2>1, <2>2, LobbyFrame, LobbyAgain DEF SignupNames
  <1>3. CASE Login
    <2>1. AcctType' BY <1>3, <1>t, SizeAssumption DEF Login, Fresh, AcctType
    <2>2. MatchType' BY <1>3, <1>t, <1>r DEF Login, MatchType
    <2>3. signup # "NEW" BY <1>3 DEF Login
    <2>4. SeatInv' BY <1>3, <2>3, <1>t, NothingTyped DEF Login, Released, SeatInv
    <2> QED BY <1>3, <2>1, <2>2, <2>4, LobbyFrame, LobbyAgain DEF Login
  <1>4. CASE NameExpires
    <2>1. AcctType' BY <1>4, <1>t, SizeAssumption DEF NameExpires, AcctType
    <2> QED BY <1>4, <2>1, LobbyFrame, LobbyAgain DEF NameExpires
  <1>5. ASSUME NEW s \in live, Logout(s) \/ SessionExpires(s) PROVE LobbyInv'
    <2>0. live' \subseteq live /\ named' \in {0, named} /\ UNCHANGED <<minted, signup>>
      BY <1>5 DEF Logout, SessionExpires
    <2>1. AcctType' BY <2>0, <1>t, SizeAssumption DEF AcctType
    <2> QED BY <1>5, <2>1, LobbyFrame, LobbyAgain DEF Logout, SessionExpires
  <1> QED BY <1>1, <1>2, <1>3, <1>4, <1>5

\* The requests of the client.
LEMMA RequestStep ==
  ASSUME LobbyInv, \/ \E kind \in Kinds : Auth(kind)
                   \/ Refuse \/ Purchase \/ Sell \/ Start \/ StartLock \/ Cancel \/ Connect \/ Take
  PROVE  LobbyInv'
  <1> USE DEF matchVars
  <1>t. RowsType /\ req \in Requests /\ MatchType /\ HistType /\ SeatInv BY TypeParts DEF LobbyInv
  <1>1. ASSUME NEW kind \in Kinds, Auth(kind) PROVE LobbyInv'
    <2>1. req' \in Requests BY <1>1, RequestTyped DEF Auth
    <2> QED BY <1>1, <2>1, LobbyFrame, LobbyAgain DEF Auth, acctVars
  <1>2. CASE Refuse
    <2>1. req' \in Requests BY <1>2, RequestTyped DEF Refuse
    <2> QED BY <1>2, <2>1, LobbyFrame, LobbyAgain DEF Refuse, acctVars
  <1>3. CASE Purchase
    <2>1. req' \in Requests BY <1>3, RequestTyped DEF Purchase
    <2>2. PICK l \in Snapshots, w \in Warehouse, i \in Items, n \in 1 .. MaxQty :
            n * Price[i] <= money /\ rows' = [l EXCEPT ![w] = Entry(i, n)] /\ money' = money - n * Price[i]
      BY <1>3, ZenonT(60) DEF Purchase
    <2>3. n \in Nat /\ Price[i] \in Nat BY SizeAssumption, PresetAssumption
    <2>4. n * Price[i] \in Nat /\ money \in Nat BY <2>3, <1>t DEF RowsType
    <2>5. money' \in Nat BY <2>2, <2>4
    <2>6. RowsType' BY <2>2, <2>5, RowsStep DEF RowsType
    <2> QED BY <1>3, <2>1, <2>6, LobbyFrame, LobbyAgain DEF Purchase, acctVars
  <1>4. CASE Sell
    <2>1. req' \in Requests BY <1>4, RequestTyped DEF Sell
    <2>2. PICK l \in Snapshots, s \in Slots :
            rows' = [l EXCEPT ![s] = Empty] /\ money' = money + EntryWorth(l[s])
      BY <1>4 DEF Sell
    <2>3. EntryWorth(l[s]) \in Nat /\ money \in Nat BY RowsStep, <1>t DEF RowsType
    <2>4. RowsType'
      <3>1. rows' \in Layouts BY <2>2, RowsStep
      <3>2. money' \in Nat BY <2>2, <2>3
      <3> QED BY <3>1, <3>2 DEF RowsType
    <2> QED BY <1>4, <2>1, <2>4, LobbyFrame, LobbyAgain DEF Sell, acctVars
  <1>5. CASE Start
    <2>1. PICK l \in Snapshots : /\ rows' = l
                                 /\ \/ req' = Request("LOCK", "FREE", Preset)
                                    \/ req' = Request("LOCK", "CUSTOM", CarryOf(l))
      BY <1>5 DEF Start
    <2>2. l \in Layouts BY SnapshotsIn
    <2>3. CarryOf(l) \in RaidLayouts BY <2>2, CarryOfType
    <2>4. req' \in Requests BY <2>1, <2>3, PresetAssumption, RequestTyped DEF Loadouts
    <2>5. RowsType' BY <1>5, <2>1, <2>2, <1>t DEF Start, RowsType
    <2> QED BY <1>5, <2>4, <2>5, LobbyFrame, LobbyAgain DEF Start, acctVars
  <1>6. CASE StartLock
    <2>1. req' \in Requests BY <1>6, RequestTyped DEF StartLock
    <2>2. MatchType' BY <1>6, <1>t DEF StartLock, MatchType, Requests, Stages
    <2>3. HistType' BY <1>6, <1>t, SizeAssumption DEF StartLock, HistType
    <2>4. SeatInv' BY <1>6, <1>t DEF StartLock, SeatInv, acctVars
    <2> QED BY <1>6, <2>1, <2>2, <2>3, <2>4, LobbyFrame, LobbyAgain DEF StartLock, acctVars
  <1>7. CASE Cancel
    <2>1. req' \in Requests BY <1>7, RequestTyped DEF Cancel
    <2>2. MatchType' BY <1>7, <1>t, NothingTyped DEF Cancel, Released, MatchType
    <2>3. SeatInv' BY <1>7, <1>t DEF Cancel, Released, SeatInv, acctVars
    <2> QED BY <1>7, <2>1, <2>2, <2>3, LobbyFrame, LobbyAgain DEF Cancel, acctVars
  <1>8. CASE Connect
    <2>1. token \in Loadouts BY <1>8, <1>t DEF Connect, MatchType
    <2>2. req' \in Requests BY <1>8, <2>1, RequestTyped, NothingTyped DEF Connect
    <2> QED BY <1>8, <2>2, LobbyFrame, LobbyAgain DEF Connect, acctVars
  <1>9. CASE Take
    <2>1. req' \in Requests BY <1>9, RequestTyped DEF Take
    <2>2. MatchType' BY <1>9, <1>t DEF Take, MatchType
    <2>3. Join(rows, NoRaid) \in Layouts BY <1>t, WorthOfCarry DEF RowsType
    <2>4. RowsType' BY <1>9, <2>3, <1>t DEF Take, RowsType
    <2>5. match'.stage = match.stage BY <1>9, <1>t DEF Take, MatchType
    <2>6. SeatInv' BY <1>9, <2>5, <1>t DEF Take, SeatInv, acctVars
    <2> QED BY <1>9, <2>1, <2>2, <2>4, <2>6, LobbyFrame, LobbyAgain DEF Take, acctVars
  <1> QED BY <1>1, <1>2, <1>3, <1>4, <1>5, <1>6, <1>7, <1>8, <1>9

\* The match, the game and the way home.
LEMMA MatchStep ==
  ASSUME LobbyInv, \/ TicketExpires \/ LockExpires \/ Commit \/ GiveBack \/ Seat \/ TokenGone
  PROVE  LobbyInv'
  <1> USE DEF acctVars
  <1>t. MatchType /\ SeatInv BY TypeParts DEF LobbyInv
  <1>1. CASE TicketExpires \/ Commit \/ GiveBack
    <2>1. MatchType' BY <1>1, <1>t DEF TicketExpires, Commit, GiveBack, MatchType, Stages
    <2>2. match.stage # "INGAME" BY <1>1 DEF TicketExpires, Commit, GiveBack
    <2>3. SeatInv' BY <1>1, <2>2, <1>t DEF TicketExpires, Commit, GiveBack, SeatInv
    <2> QED BY <1>1, <2>1, <2>3, LobbyFrame, LobbyAgain DEF TicketExpires, Commit, GiveBack
  <1>2. CASE LockExpires
    <2>1. MatchType' BY <1>2, <1>t, NothingTyped DEF LockExpires, MatchType
    <2>2. SeatInv' BY <1>2, <1>t DEF LockExpires, SeatInv
    <2> QED BY <1>2, <2>1, <2>2, LobbyFrame, LobbyAgain DEF LockExpires
  <1>3. CASE Seat
    <2>1. MatchType' BY <1>3, <1>t DEF Seat, MatchType, Stages
    <2>2. GameType' BY <1>3, <1>t DEF Seat, GameType, MatchType
    <2>3. game'.state = "SEAT" /\ match'.stage = "INGAME" /\ home = NoHome
      BY <1>3, <1>t DEF Seat, SeatInv, MatchType
    <2>4. SeatInv' BY <1>3, <2>3, <1>t, NothingTyped DEF Seat, SeatInv
    <2> QED BY <1>3, <2>1, <2>2, <2>4, LobbyFrame, LobbyAgain DEF Seat
  <1>4. CASE TokenGone
    <2>1. MatchType' BY <1>4, <1>t DEF TokenGone, MatchType
    <2> QED BY <1>4, <2>1, LobbyFrame, LobbyAgain DEF TokenGone
  <1> QED BY <1>1, <1>2, <1>3, <1>4

\* A bag with one slot filled, or emptied, is a bag.
LEMMA BagChanges ==
  ASSUME GameType, NEW s \in Raid, NEW e \in Entries
  PROVE  /\ [game EXCEPT !.bag[s] = e] = [game EXCEPT !.bag = [game.bag EXCEPT ![s] = e]]
         /\ [game.bag EXCEPT ![s] = e] \in RaidLayouts
         /\ [game EXCEPT !.bag[s] = e].state = game.state
         /\ [game EXCEPT !.bag[s] = e].bag = [game.bag EXCEPT ![s] = e]
         /\ [game EXCEPT !.bag[s] = e] \in [state : {"NONE", "SEAT", "JOINED"}, bag : RaidLayouts]
  <1>1. [game EXCEPT !.bag[s] = e] = [game EXCEPT !.bag = [game.bag EXCEPT ![s] = e]] BY DEF GameType
  <1>2. game.bag \in [Raid -> Entries] BY DEF GameType, RaidLayouts
  <1> DEFINE b == [game.bag EXCEPT ![s] = e]
  <1>3. b \in RaidLayouts BY <1>2 DEF RaidLayouts
  <1> HIDE DEF b
  <1>4. [game EXCEPT !.bag = b].state = game.state /\ [game EXCEPT !.bag = b].bag = b BY DEF GameType
  <1>5. [game EXCEPT !.bag = b] \in [state : {"NONE", "SEAT", "JOINED"}, bag : RaidLayouts]
    BY <1>3 DEF GameType
  <1> QED BY <1>1, <1>3, <1>4, <1>5 DEF b

LEMMA GameStep ==
  ASSUME LobbyInv, \/ EnterGame \/ Find \/ \E s \in Raid : Lose(s)
                   \/ Leave \/ Apply \/ ApplyFails \/ Unlock
  PROVE  LobbyInv'
  <1> USE DEF acctVars
  <1>t. RowsType /\ MatchType /\ GameType /\ HomeType /\ HistType /\ SeatInv BY TypeParts DEF LobbyInv
  <1>1. CASE EnterGame
    <2>1. Worth(Preset) \in Nat BY PresetAssumption, SlotsFinite, CoinsFinite DEF RaidLayouts
    <2>2. HistType' BY <1>1, <2>1, <1>t DEF EnterGame, HistType
    <2>3. GameType' /\ game'.state = "JOINED" BY <1>1, <1>t DEF EnterGame, GameType
    <2>4. SeatInv' BY <1>1, <2>3, <1>t, NothingTyped DEF EnterGame, SeatInv
    <2> QED BY <1>1, <2>2, <2>3, <2>4, LobbyFrame, LobbyAgain DEF EnterGame
  <1>2. CASE Find
    <2>1. PICK s \in Bag, i \in Items : game' = [game EXCEPT !.bag[s] = Entry(i, 1)] /\ found' = found + Price[i]
      BY <1>2 DEF Find
    <2>2. Entry(i, 1) \in Entries /\ s \in Raid BY SizeAssumption DEF Entries, Raid
    <2>3. GameType' /\ game'.state = game.state BY <2>1, <2>2, <1>t, BagChanges DEF GameType
    <2>4. found' \in Nat BY <2>1, <1>t, PresetAssumption DEF HistType
    <2>5. HistType' BY <1>2, <2>4, <1>t, SizeAssumption DEF Find, HistType
    <2>6. SeatInv' BY <1>2, <2>3, <1>t, NothingTyped DEF Find, SeatInv
    <2> QED BY <1>2, <2>3, <2>5, <2>6, LobbyFrame, LobbyAgain DEF Find
  <1>3. ASSUME NEW s \in Raid, Lose(s) PROVE LobbyInv'
    <2>1. Empty \in Entries BY DEF Entries
    <2>2. GameType' /\ game'.state = game.state BY <1>3, <2>1, <1>t, BagChanges DEF Lose, GameType
    <2>3. SeatInv' BY <1>3, <2>2, <1>t, NothingTyped DEF Lose, SeatInv
    <2> QED BY <1>3, <2>2, <2>3, LobbyFrame, LobbyAgain DEF Lose
  <1>4. CASE Leave
    <2>1. PICK r \in {NoRaid} \cup (IF game.state = "JOINED" THEN {game.bag} ELSE {}) :
            home' = [state |-> "APPLY", slots |-> r, tries |-> 0]
      BY <1>4 DEF Leave
    <2>2. r \in RaidLayouts BY NothingTyped, <1>t DEF GameType
    <2>3. HomeType' /\ home'.state = "APPLY" /\ home'.tries = 0 BY <2>1, <2>2, SizeAssumption DEF HomeType
    <2>4. GameType' BY <1>4, NothingTyped DEF Leave, GameType
    <2>5. match.stage = "INGAME" BY <1>4, <1>t DEF Leave, SeatInv
    <2>6. SeatInv' BY <1>4, <2>3, <2>5, <1>t, NothingTyped, SizeAssumption DEF Leave, SeatInv
    <2> QED BY <1>4, <2>3, <2>4, <2>6, LobbyFrame, LobbyAgain DEF Leave
  <1>5. CASE Apply
    <2>1. RowsType' BY <1>5, <1>t, WorthOfJoin DEF Apply, RowsType, HomeType
    <2>2. HomeType' /\ home'.state = "UNLOCK" BY <1>5, <1>t DEF Apply, HomeType
    <2>3. SeatInv' BY <1>5, <2>2, <1>t, NothingTyped DEF Apply, SeatInv
    <2> QED BY <1>5, <2>1, <2>2, <2>3, LobbyFrame, LobbyAgain DEF Apply
  <1>6. CASE ApplyFails
    <2>1. home.state = "APPLY" /\ home.tries < Retries BY <1>6, <1>t DEF ApplyFails, SeatInv
    <2>2. home.tries \in 0 .. Retries BY <1>t DEF HomeType
    <2>3. home.tries + 1 \in 0 .. Retries BY <2>1, <2>2, SizeAssumption
    <2>4. /\ HomeType'
          /\ home'.tries = home.tries + 1
          /\ home'.state = IF home.tries + 1 < Retries THEN "APPLY" ELSE "UNLOCK"
      BY <1>6, <2>3, <1>t DEF ApplyFails, HomeType
    <2>5. SeatInv' BY <1>6, <2>1, <2>4, <1>t, NothingTyped DEF ApplyFails, SeatInv
    <2> QED BY <1>6, <2>4, <2>5, LobbyFrame, LobbyAgain DEF ApplyFails
  <1>7. CASE Unlock
    <2>1. HomeType' /\ MatchType' BY <1>7, <1>t, NothingTyped DEF Unlock, HomeType, MatchType
    <2>2. SeatInv' BY <1>7, <1>t, NothingTyped DEF Unlock, SeatInv
    <2> QED BY <1>7, <2>1, <2>2, LobbyFrame, LobbyAgain DEF Unlock
  <1> QED BY <1>1, <1>2, <1>3, <1>4, <1>5, <1>6, <1>7

LEMMA LobbyStep == LobbyInv /\ [Next]_vars => LobbyInv'
  <1> SUFFICES ASSUME LobbyInv, [Next]_vars PROVE LobbyInv' OBVIOUS
  <1>1. CASE UNCHANGED vars BY <1>1, LobbyFrame, LobbyAgain DEF vars, acctVars
  <1>2. CASE Next BY <1>2, AcctStep, RequestStep, MatchStep, GameStep DEF Next, Kinds
  <1> QED BY <1>1, <1>2

LEMMA LobbyInductive == Spec => []LobbyInv
  BY LobbyInitially, LobbyStep, PTL DEF Spec

\* The rows stay rows of the table, no purchase overdraws the balance
\* (Purchase in routes/items.js checks it in the transaction that locked the
\* rows), and no return is tried more than DB_RETRY_COUNT times.
THEOREM LobbyTypeOK == Spec => []TypeOK
  <1>1. LobbyInv => TypeOK BY DEF LobbyInv
  <1> QED BY <1>1, LobbyInductive, PTL

\* The lock of the account outlives the seat and the return: between a seat and
\* the DELETE of the lock in NotifyPlayerLeftRequest::Execute nothing frees it.
THEOREM LobbyLockCoversReturn == Spec => []LockCoversReturn
  <1>1. LobbyInv => LockCoversReturn BY NothingTyped DEF LobbyInv, SeatInv, LockCoversReturn
  <1> QED BY <1>1, LobbyInductive, PTL

\* Apart from the shop and /match/start, which rewrite the rows as the client
\* arranged them, only /match/connect and the return write rows, both with a
\* lower bound on slot_index.
THEOREM LobbyWarehouseKept == Spec => WarehouseKept
  <1>1. ASSUME LobbyInv, [Next]_vars
        PROVE  [req.pc \notin {"PURCHASE", "SELL", "START"}
                  => \A s \in Warehouse : rows'[s] = rows[s]]_vars
    <2>1. SUFFICES ASSUME req.pc \notin {"PURCHASE", "SELL", "START"}, Next, NEW s \in Warehouse
                   PROVE  rows'[s] = rows[s]
      BY <1>1
    <2>2. s \in Slots /\ s \notin Raid BY SlotAssumption DEF Slots
    <2>3. ASSUME NEW r PROVE Join(rows, r)[s] = rows[s] BY <2>2 DEF Join
    <2>4. CASE rows' = rows BY <2>4
    <2>5. CASE Take BY <2>5, <2>3 DEF Take
    <2>6. CASE Apply BY <2>6, <2>3 DEF Apply
    <2>7. rows' = rows \/ Take \/ Apply
      BY <2>1 DEF Next, Signup, SignupNames, Login, NameExpires, Logout, SessionExpires, Auth, Refuse,
                  Purchase, Sell, Start, StartLock, Cancel, Connect, TicketExpires, LockExpires, Commit,
                  GiveBack, Seat, TokenGone, EnterGame, Find, Lose, Leave, ApplyFails, Unlock
    <2> QED BY <2>4, <2>5, <2>6, <2>7
  <1> QED BY <1>1, LobbyInductive, PTL DEF Spec, WarehouseKept
-----------------------------------------------------------------------------
(* An orderly client.                                                      *)

\* An account has one session, once user_sess names it: loginTakeover deletes
\* the session it names, logout only the one it was called with.  An orderly
\* client does not log in before its /signup was answered.
THEOREM LobbyOneSession ==
  ASSUME Orderly = TRUE PROVE Spec => []OneSession
  <1>1. Init => SessionInv BY DEF Init, SessionInv
  <1>2. ASSUME LobbyInv, SessionInv, [Next]_vars PROVE SessionInv'
    <2> USE DEF matchVars, acctVars
    <2>t. SeatInv BY <1>2 DEF LobbyInv
    <2>1. CASE Signup BY <2>1, <1>2, <2>t DEF Signup, Fresh, SessionInv, SeatInv
    <2>2. CASE SignupNames BY <2>2, <1>2 DEF SignupNames, SessionInv
    <2>3. CASE Login BY <2>3, <1>2 DEF Login, SessionInv
    <2>4. CASE NameExpires BY <2>4, <1>2 DEF NameExpires, SessionInv
    <2>5. ASSUME NEW s \in live, Logout(s) \/ SessionExpires(s) PROVE SessionInv'
      BY <2>5, <1>2 DEF Logout, SessionExpires, SessionInv
    <2>6. CASE UNCHANGED acctVars BY <2>6, <1>2 DEF SessionInv
    <2>7. Signup \/ SignupNames \/ Login \/ NameExpires \/ UNCHANGED acctVars
            \/ \E s \in live : Logout(s) \/ SessionExpires(s)
      BY <1>2 DEF vars, Next, Auth, Refuse,
                  Purchase, Sell, Start, StartLock, Cancel, Connect, Take, TicketExpires, LockExpires, Commit,
                  GiveBack, Seat, TokenGone, EnterGame, Find, Lose, Leave, Apply, ApplyFails, Unlock
    <2> QED BY <2>1, <2>2, <2>3, <2>4, <2>5, <2>6, <2>7
  <1>3. SessionInv => OneSession BY DEF SessionInv, OneSession
  <1> QED BY <1>1, <1>2, <1>3, LobbyInductive, PTL DEF Spec

BackInv == RequestInv /\ CarryBacked

LEMMA BackFrame ==
  ASSUME BackInv, UNCHANGED <<rows, req, match, token, game, home>>
  PROVE  BackInv'
  <1>1. RequestInv' BY DEF BackInv, RequestInv, NothingOpen
  <1>2. CarryBacked' BY DEF BackInv, CarryBacked
  <1> QED BY <1>1, <1>2 DEF BackInv

\* The requests of an orderly client.
LEMMA BackRequest ==
  ASSUME Orderly = TRUE, LobbyInv, BackInv,
         \/ \E kind \in Kinds : Auth(kind)
         \/ Refuse \/ Purchase \/ Sell \/ Start \/ StartLock \/ Cancel \/ Connect \/ Take
  PROVE  BackInv'
  <1> USE DEF matchVars, acctVars
  <1>t. RowsType /\ req \in Requests /\ MatchType /\ SeatInv /\ RequestInv /\ CarryBacked
    BY TypeParts DEF LobbyInv, BackInv
  <1>i. Idle.pc = "IDLE" BY RequestTyped
  <1>1. ASSUME NEW kind \in Kinds, Auth(kind) PROVE BackInv'
    <2>1. req'.pc = kind BY <1>1, RequestTyped DEF Auth
    <2>2. RequestInv' BY <1>1, <2>1, <1>t DEF Auth, Kinds, RequestInv, NothingOpen
    <2>3. CarryBacked' BY <1>1, <1>t DEF Auth, CarryBacked
    <2> QED BY <2>2, <2>3 DEF BackInv
  <1>2. CASE Refuse
    <2>1. RequestInv' BY <1>2, <1>i, <1>t DEF Refuse, RequestInv
    <2>2. CarryBacked' BY <1>2, <1>t DEF Refuse, CarryBacked
    <2> QED BY <2>1, <2>2 DEF BackInv
  <1>3. CASE Purchase \/ Sell
    <2>1. NothingOpen /\ req' = Idle /\ UNCHANGED <<match, token, game, home>>
      BY <1>3, <1>t DEF Purchase, Sell, RequestInv
    <2>2. RequestInv' BY <2>1, <1>i, <1>t DEF RequestInv
    <2>3. CarryBacked' BY <2>1 DEF NothingOpen, CarryBacked
    <2> QED BY <2>2, <2>3 DEF BackInv
  <1>4. CASE Start
    <2>1. NothingOpen /\ UNCHANGED <<match, token, game, home>> BY <1>4, <1>t DEF Start, RequestInv
    <2>2. \/ req' = Request("LOCK", "FREE", Preset)
          \/ req' = Request("LOCK", "CUSTOM", CarryOf(rows'))
      BY <1>4 DEF Start
    <2>3. rows' \in Layouts BY <1>4, SnapshotsIn DEF Start
    <2>4. CarryOf(rows') \in RaidLayouts BY <2>3, CarryOfType
    <2>5. req'.pc = "LOCK" /\ req'.carry = IF req'.loadout = "CUSTOM" THEN CarryOf(rows') ELSE Preset
      BY <2>2, <2>4, PresetAssumption, RequestTyped DEF Loadouts
    <2>6. RequestInv' BY <2>1, <2>5, <1>t DEF RequestInv, NothingOpen
    <2>7. CarryBacked' BY <2>1 DEF NothingOpen, CarryBacked
    <2> QED BY <2>6, <2>7 DEF BackInv
  <1>5. CASE StartLock
    <2>1. /\ match'.stage = "WAITING" /\ match'.loadout = req.loadout /\ match'.carry = req.carry
          /\ match'.taken = FALSE /\ req' = Idle
          /\ UNCHANGED <<rows, token, game, home>>
      BY <1>5 DEF StartLock
    <2>2. req.carry = (IF req.loadout = "CUSTOM" THEN CarryOf(rows) ELSE Preset) /\ NothingOpen
      BY <1>5, <1>t DEF StartLock, RequestInv
    <2>3. RequestInv' BY <2>1, <2>2, <1>i, <1>t, NothingTyped DEF RequestInv, NothingOpen
    <2>4. CarryBacked' BY <2>1, <2>2 DEF CarryBacked
    <2> QED BY <2>3, <2>4 DEF BackInv
  <1>6. CASE Cancel
    <2>1. match' = NoMatch /\ req' = Idle /\ UNCHANGED <<rows, token, game, home>>
      BY <1>6 DEF Cancel, Released
    <2>2. game.state = "NONE" BY <1>6, <1>t DEF Cancel, SeatInv, GameType
    <2>3. RequestInv' BY <2>1, <2>2, <1>i, NothingTyped DEF RequestInv
    <2>4. CarryBacked' BY <2>1, NothingTyped DEF CarryBacked
    <2> QED BY <2>3, <2>4 DEF BackInv
  <1>7. CASE Connect
    <2>1. token \in Loadouts BY <1>7, <1>t DEF Connect, MatchType
    <2>2. req'.pc = "TAKE" /\ req'.loadout = token /\ UNCHANGED <<rows, match, token, game, home>>
      BY <1>7, <2>1, RequestTyped, NothingTyped DEF Connect
    <2>3. req.pc = "CONNECT" /\ token # "NONE" BY <1>7 DEF Connect
    <2>4. RequestInv' BY <2>2, <2>3, <1>t DEF RequestInv
    <2>5. CarryBacked' BY <2>2, <1>t DEF CarryBacked
    <2> QED BY <2>4, <2>5 DEF BackInv
  <1>8. CASE Take
    <2>1. /\ match'.stage = match.stage /\ match'.loadout = match.loadout /\ match'.carry = match.carry
          /\ match'.taken = (match.stage = "INGAME") /\ req' = Idle
          /\ UNCHANGED <<token, game, home>>
      BY <1>8, <1>t DEF Take, MatchType
    <2>2. match.stage \in {"NONE", "INGAME"} BY <1>8, <1>t DEF Take, RequestInv
    <2>3. RequestInv' BY <2>1, <2>2, <1>i, <1>t DEF RequestInv
    <2>4. CarryBacked' BY <2>1, <2>2 DEF CarryBacked
    <2> QED BY <2>3, <2>4 DEF BackInv
  <1> QED BY <1>1, <1>2, <1>3, <1>4, <1>5, <1>6, <1>7, <1>8

\* The steps of the others.
LEMMA BackOthers ==
  ASSUME LobbyInv, BackInv,
         \/ Login \/ TicketExpires \/ LockExpires \/ Commit \/ GiveBack \/ Seat \/ TokenGone \/ EnterGame
         \/ Find \/ (\E s \in Raid : Lose(s)) \/ Leave \/ Apply \/ ApplyFails \/ Unlock
  PROVE  BackInv'
  <1>t. MatchType /\ GameType /\ HomeType /\ SeatInv /\ RequestInv /\ CarryBacked
    BY TypeParts DEF LobbyInv, BackInv
  <1>1. CASE Login \/ LockExpires
    <2>1. match' \in {match, NoMatch} /\ UNCHANGED <<rows, req, token, game, home>>
      BY <1>1 DEF Login, LockExpires, Released
    <2>2. match' = NoMatch => game.state = "NONE" BY <1>1, <1>t DEF Login, LockExpires, SeatInv
    <2>3. RequestInv' BY <2>1, <2>2, <1>t, NothingTyped DEF RequestInv, NothingOpen
    <2>4. CarryBacked' BY <2>1, <1>t, NothingTyped DEF CarryBacked
    <2> QED BY <2>3, <2>4 DEF BackInv
  <1>2. CASE TicketExpires \/ Commit \/ GiveBack
    <2>1. /\ match'.loadout = match.loadout /\ match'.carry = match.carry /\ match'.taken = match.taken
          /\ match.stage \in {"WAITING", "MATCHED"} /\ match'.stage \in {"WAITING", "MATCHED", "EXPIRED"}
          /\ UNCHANGED <<rows, req, token, game, home>>
      BY <1>2, <1>t DEF TicketExpires, Commit, GiveBack, MatchType
    <2>2. RequestInv' BY <2>1, <1>t DEF RequestInv, NothingOpen
    <2>3. CarryBacked' BY <2>1, <1>t DEF CarryBacked
    <2> QED BY <2>2, <2>3 DEF BackInv
  <1>3. CASE Seat
    <2>1. /\ match'.loadout = match.loadout /\ match'.carry = match.carry /\ match'.taken = match.taken
          /\ match.stage = "MATCHED" /\ match'.stage = "INGAME" /\ token' = match.loadout
          /\ game'.state = "SEAT" /\ game'.bag = match.carry
          /\ UNCHANGED <<rows, req, home>>
      BY <1>3, <1>t DEF Seat, MatchType
    <2>2. RequestInv' BY <2>1, <1>t DEF RequestInv, NothingOpen
    <2>3. CarryBacked' BY <2>1, <1>t DEF CarryBacked
    <2> QED BY <2>2, <2>3 DEF BackInv
  <1>4. CASE TokenGone
    <2>1. token' = "NONE" /\ UNCHANGED <<rows, req, match, game, home>> BY <1>4 DEF TokenGone
    <2>2. RequestInv' BY <2>1, <1>t DEF RequestInv, NothingOpen
    <2>3. CarryBacked' BY <2>1, <1>t DEF CarryBacked
    <2> QED BY <2>2, <2>3 DEF BackInv
  <1>5. CASE EnterGame \/ Find \/ \E s \in Raid : Lose(s)
    <2>1. game.state # "NONE" /\ game'.state # "SEAT" /\ UNCHANGED <<rows, req, match, token, home>>
      <3>1. CASE EnterGame BY <3>1, <1>t DEF EnterGame, GameType
      <3>2. CASE Find
        <4>1. PICK s \in Bag, i \in Items : game' = [game EXCEPT !.bag[s] = Entry(i, 1)] BY <3>2 DEF Find
        <4>2. Entry(i, 1) \in Entries /\ s \in Raid BY SizeAssumption DEF Entries, Raid
        <4>3. game'.state = game.state BY <4>1, <4>2, <1>t, BagChanges
        <4> QED BY <3>2, <4>3 DEF Find
      <3>3. ASSUME NEW s \in Raid, Lose(s)
            PROVE  game.state # "NONE" /\ game'.state # "SEAT" /\ UNCHANGED <<rows, req, match, token, home>>
        <4>1. Empty \in Entries BY DEF Entries
        <4>2. game'.state = game.state BY <3>3, <4>1, <1>t, BagChanges DEF Lose
        <4> QED BY <3>3, <4>2 DEF Lose
      <3> QED BY <1>5, <3>1, <3>2, <3>3
    <2>2. match.stage = "INGAME" BY <2>1, <1>t DEF SeatInv
    <2>3. RequestInv' BY <2>1, <2>2, <1>t DEF RequestInv, NothingOpen
    <2>4. CarryBacked' BY <2>1, <1>t DEF CarryBacked
    <2> QED BY <2>3, <2>4 DEF BackInv
  <1>6. CASE Leave \/ Apply \/ ApplyFails
    <2>1. /\ game' = NoGame /\ match.stage = "INGAME" /\ home' # NoHome
          /\ UNCHANGED <<req, match, token>>
      <3>1. CASE Leave
        <4>1. home'.state = "APPLY" BY <3>1 DEF Leave
        <4> QED BY <3>1, <4>1, <1>t, NothingTyped DEF Leave, SeatInv
      <3>2. CASE Apply
        <4>1. home'.state = "UNLOCK" BY <3>2, <1>t DEF Apply, HomeType
        <4> QED BY <3>2, <4>1, <1>t, NothingTyped DEF Apply, SeatInv
      <3>3. CASE ApplyFails
        <4>1. home'.state \in {"APPLY", "UNLOCK"} BY <3>3, <1>t DEF ApplyFails, HomeType
        <4> QED BY <3>3, <4>1, <1>t, NothingTyped DEF ApplyFails, SeatInv
      <3> QED BY <1>6, <3>1, <3>2, <3>3
    <2>2. req.pc # "LOCK" BY <2>1, <1>t DEF RequestInv, NothingOpen
    <2>3. RequestInv' BY <2>1, <2>2, <1>t, NothingTyped DEF RequestInv, NothingOpen
    <2>4. CarryBacked' BY <2>1 DEF CarryBacked
    <2> QED BY <2>3, <2>4 DEF BackInv
  <1>7. CASE Unlock
    <2>1. match' = NoMatch /\ home' = NoHome /\ game = NoGame /\ UNCHANGED <<rows, req, token, game>>
      BY <1>7, <1>t DEF Unlock, SeatInv
    <2>2. RequestInv' BY <2>1, <1>t, NothingTyped DEF RequestInv, NothingOpen
    <2>3. CarryBacked' BY <2>1, NothingTyped DEF CarryBacked
    <2> QED BY <2>2, <2>3 DEF BackInv
  <1> QED BY <1>1, <1>2, <1>3, <1>4, <1>5, <1>6, <1>7

LEMMA BackStep == Orderly = TRUE /\ LobbyInv /\ BackInv /\ [Next]_vars => BackInv'
  <1> SUFFICES ASSUME Orderly = TRUE, LobbyInv, BackInv, [Next]_vars PROVE BackInv' OBVIOUS
  <1>1. CASE UNCHANGED vars BY <1>1, BackFrame DEF vars
  <1>2. CASE \/ Signup \/ SignupNames \/ NameExpires \/ \E s \in live : Logout(s) \/ SessionExpires(s)
    BY <1>2, BackFrame DEF Signup, SignupNames, NameExpires, Logout, SessionExpires, matchVars
  <1>3. CASE Next BY <1>2, <1>3, BackRequest, BackOthers DEF Next, Kinds
  <1> QED BY <1>1, <1>3

LEMMA BackInitially == Init => BackInv
  BY RequestTyped, NothingTyped DEF Init, BackInv, RequestInv, CarryBacked

LEMMA BackInductive == ASSUME Orderly = TRUE PROVE Spec => [](LobbyInv /\ BackInv)
  <1>1. Init => LobbyInv /\ BackInv BY LobbyInitially, BackInitially
  <1>2. LobbyInv /\ BackInv /\ [Next]_vars => (LobbyInv /\ BackInv)' BY LobbyStep, BackStep
  <1> QED BY <1>1, <1>2, PTL DEF Spec

\* Until /match/connect deletes them, the rows hold what the ticket carries.
\* The client is orderly: the shop routes and /match/start do not look at the
\* lock before they rewrite the rows.
THEOREM LobbyCarryBacked ==
  ASSUME Orderly = TRUE PROVE Spec => []CarryBacked
  <1>1. BackInv => CarryBacked BY DEF BackInv
  <1> QED BY <1>1, BackInductive, PTL
-----------------------------------------------------------------------------
(* Conservation.                                                           *)

LEMMA Amounts ==
  LobbyInv => /\ money \in Nat /\ Worth(rows) \in Nat /\ found \in Nat
              /\ Worth(game.bag) \in Nat /\ Worth(home.slots) \in Nat /\ Worth(match.carry) \in Nat
              /\ InGame \in Nat /\ OnTheWay \in Nat /\ Owed \in Nat
  <1> SUFFICES ASSUME LobbyInv PROVE /\ money \in Nat /\ Worth(rows) \in Nat /\ found \in Nat
                                     /\ Worth(game.bag) \in Nat /\ Worth(home.slots) \in Nat
                                     /\ Worth(match.carry) \in Nat
                                     /\ InGame \in Nat /\ OnTheWay \in Nat /\ Owed \in Nat
    OBVIOUS
  <1>1. RowsType /\ MatchType /\ GameType /\ HomeType /\ HistType BY TypeParts DEF LobbyInv
  <1>2. rows \in [Slots -> Entries] /\ money \in Nat /\ found \in Nat BY <1>1 DEF RowsType, HistType, Layouts
  <1>3. /\ game.bag \in [Raid -> Entries] /\ home.slots \in [Raid -> Entries]
        /\ match.carry \in [Raid -> Entries]
    BY <1>1 DEF GameType, HomeType, MatchType, RaidLayouts
  <1>4. Worth(rows) \in Nat BY <1>2, SlotsFinite, CoinsFinite
  <1>5. Worth(game.bag) \in Nat /\ Worth(home.slots) \in Nat /\ Worth(match.carry) \in Nat
    BY <1>3, SlotsFinite, CoinsFinite
  <1> QED BY <1>2, <1>4, <1>5 DEF InGame, OnTheWay, Owed

\* The shop and /match/start: money and rows together stay what they were.
LEMMA WorthTrade ==
  ASSUME LobbyInv, Purchase \/ Sell \/ Start
  PROVE  money' + Worth(rows') = money + Worth(rows)
  <1>a. money \in Nat /\ Worth(rows) \in Nat BY Amounts
  <1>r. rows \in Layouts BY TypeParts DEF LobbyInv, RowsType
  <1>l. ASSUME NEW l \in Snapshots PROVE l \in [Slots -> Entries] /\ Worth(l) = Worth(rows)
    BY <1>r, SnapshotsIn, SlotsFinite, SameTotalsSameWorth DEF Layouts
  <1>1. CASE Purchase
    <2>1. PICK l \in Snapshots, w \in Warehouse, i \in Items, n \in 1 .. MaxQty :
            /\ l[w] = Empty /\ n * Price[i] <= money
            /\ rows' = [l EXCEPT ![w] = Entry(i, n)] /\ money' = money - n * Price[i]
      BY <1>1, ZenonT(60) DEF Purchase
    <2>2. w \in Slots BY DEF Slots
    <2> DEFINE k == [l EXCEPT ![w] = Entry(i, n)]
    <2>5. k \in [Slots -> Entries] /\ k[w] = Entry(i, n) /\ \A s \in Slots : s # w => k[s] = l[s]
      BY <1>l, <2>2 DEF Entries
    <2>6. rows' = k BY <2>1
    <2> HIDE DEF k
    <2>7. Worth(k) = Worth(l) + n * Price[i] BY <1>l, <2>1, <2>2, <2>5, SlotsFinite, WorthOfNewRow
    <2>3. Worth(rows') = Worth(rows) + n * Price[i] BY <1>l, <2>6, <2>7
    <2>4. n * Price[i] \in Nat
      <3>1. n \in Nat /\ Price[i] \in Nat BY SizeAssumption, PresetAssumption
      <3> QED BY <3>1
    <2> QED BY <2>1, <2>3, <2>4, <1>a
  <1>2. CASE Sell
    <2>1. PICK l \in Snapshots, s \in Slots :
            l[s] # Empty /\ rows' = [l EXCEPT ![s] = Empty] /\ money' = money + EntryWorth(l[s])
      BY <1>2 DEF Sell
    <2>2. PICK i \in Items, n \in 1 .. MaxQty : l[s] = Entry(i, n) BY <1>l, <2>1 DEF Entries
    <2>3. EntryWorth(l[s]) = n * Price[i] BY <2>1, <2>2 DEF EntryWorth, Entry
    <2> DEFINE k == [l EXCEPT ![s] = Empty]
    <2>4. k \in [Slots -> Entries] /\ k[s] = Empty BY <1>l DEF Entries
    <2>5. l \in [Slots -> Entries] /\ \A t \in Slots : t # s => l[t] = k[t] BY <1>l
    <2> HIDE DEF k
    <2>6. Worth(l) = Worth(k) + n * Price[i]
      BY <2>2, <2>4, <2>5, SlotsFinite, WorthOfNewRow
    <2>7. rows' = k BY <2>1 DEF k
    <2>8. Worth(rows) = Worth(rows') + n * Price[i] BY <2>6, <2>7, <1>l
    <2>9. n * Price[i] \in Nat /\ Worth(k) \in Nat
      <3>1. n \in Nat /\ Price[i] \in Nat BY SizeAssumption, PresetAssumption
      <3> QED BY <3>1, <2>4, SlotsFinite, CoinsFinite
    <2>10. PICK x \in Nat : x = n * Price[i] BY <2>9
    <2>11. Worth(rows) = Worth(rows') + x /\ money' = money + x BY <2>1, <2>3, <2>8, <2>10
    <2>12. Worth(rows') \in Nat BY <2>7, <2>9
    <2> QED BY <2>11, <2>12, <1>a
  <1>3. CASE Start
    <2>1. rows' \in Snapshots /\ money' = money BY <1>3 DEF Start
    <2> QED BY <2>1, <1>l, <1>a
  <1> QED BY <1>1, <1>2, <1>3

\* /match/connect: a CUSTOM seat is owed no more than the rows lost.
LEMMA WorthTake ==
  ASSUME LobbyInv, BackInv, Take
  PROVE  /\ Worth(rows') \in Nat /\ Owed' \in Nat
         /\ Worth(rows') + Owed' <= Worth(rows) + Owed
  <1>a. Worth(rows) \in Nat /\ Owed \in Nat /\ Worth(match.carry) \in Nat BY Amounts
  <1>t. RowsType /\ MatchType /\ SeatInv /\ RequestInv /\ CarryBacked
    BY TypeParts DEF LobbyInv, BackInv
  <1>1. /\ req.pc = "TAKE" /\ rows' = IF req.loadout = "CUSTOM" THEN Join(rows, NoRaid) ELSE rows
        /\ match'.loadout = match.loadout /\ match'.carry = match.carry /\ UNCHANGED game
    BY <1>t DEF Take, MatchType
  <1>2. ~ match.taken BY <1>1, <1>t DEF RequestInv
  <1>3. Worth(Join(rows, NoRaid)) + Worth(CarryOf(rows)) <= Worth(rows)
    BY <1>t, WorthOfCarry DEF RowsType
  <1>4. Worth(Join(rows, NoRaid)) \in Nat /\ Worth(CarryOf(rows)) \in Nat
    <2>1. Join(rows, NoRaid) \in [Slots -> Entries] BY <1>t, WorthOfCarry DEF RowsType, Layouts
    <2>2. CarryOf(rows) \in [Raid -> Entries] BY <1>t, CarryOfType DEF RowsType, RaidLayouts
    <2> QED BY <2>1, <2>2, SlotsFinite, CoinsFinite
  <1>5. Worth(rows') <= Worth(rows) /\ Worth(rows') \in Nat BY <1>1, <1>3, <1>4, <1>a
  <1>6. CASE Owed' = 0 BY <1>5, <1>6, <1>a
  <1>7. CASE Owed' # 0
    <2>1. game.state = "SEAT" /\ match.loadout = "CUSTOM" /\ Owed' = Worth(match.carry)
      BY <1>1, <1>7 DEF Owed
    <2>2. match.stage = "INGAME" /\ home = NoHome BY <2>1, <1>t DEF SeatInv
    <2>3. req.loadout = "CUSTOM" BY <2>1, <2>2, <1>1, <1>t DEF RequestInv
    <2>4. CarryOf(rows) = match.carry BY <2>1, <2>2, <1>2, <1>t DEF CarryBacked
    <2>5. Worth(rows') + Owed' <= Worth(rows) BY <2>1, <2>3, <2>4, <1>1, <1>3
    <2>6. Worth(rows) <= Worth(rows) + Owed BY <1>a
    <2> QED BY <2>1, <2>5, <2>6, <1>5, <1>a
  <1> QED BY <1>6, <1>7

\* The steps that move nothing of worth.
LEMMA WorthFrame ==
  ASSUME LobbyInv, BackInv, WorthInv,
         UNCHANGED <<rows, money, home, found>>,
         \/ UNCHANGED <<match, game>>
         \/ UNCHANGED game /\ game.state # "SEAT"
         \/ game.state = "NONE" /\ game'.state = "SEAT" /\ match'.taken = FALSE
  PROVE  WorthInv'
  <1>1. OnTheWay' = OnTheWay BY DEF OnTheWay
  <1>2. InGame' = InGame BY DEF InGame
  <1>3. Owed' = Owed BY DEF Owed
  <1> QED BY <1>1, <1>2, <1>3 DEF WorthInv

LEMMA WorthQuiet ==
  ASSUME LobbyInv, BackInv, WorthInv,
         \/ UNCHANGED vars
         \/ Signup \/ SignupNames \/ Login \/ NameExpires \/ (\E s \in live : Logout(s) \/ SessionExpires(s))
         \/ (\E kind \in Kinds : Auth(kind)) \/ Refuse \/ StartLock \/ Cancel \/ Connect
         \/ TicketExpires \/ LockExpires \/ Commit \/ GiveBack \/ Seat \/ TokenGone
  PROVE  WorthInv'
  <1>t. MatchType /\ GameType /\ SeatInv /\ RequestInv BY TypeParts DEF LobbyInv, BackInv
  <1>1. CASE \/ UNCHANGED vars
             \/ Signup \/ SignupNames \/ NameExpires \/ (\E s \in live : Logout(s) \/ SessionExpires(s))
             \/ (\E kind \in Kinds : Auth(kind)) \/ Refuse \/ Connect \/ TokenGone
    <2>1. UNCHANGED <<rows, money, match, game, home, found>>
      BY <1>1 DEF vars, matchVars, Signup, SignupNames, NameExpires, Logout, SessionExpires, Auth, Refuse,
                  Connect, TokenGone
    <2> QED BY <2>1, WorthFrame
  <1>2. CASE Login \/ StartLock \/ Cancel \/ TicketExpires \/ LockExpires \/ Commit \/ GiveBack
    <2>1. UNCHANGED <<rows, money, game, home, found>> /\ match.stage # "INGAME"
      BY <1>2 DEF Login, StartLock, Cancel, TicketExpires, LockExpires, Commit, GiveBack
    <2>2. game.state # "SEAT" BY <2>1, <1>t DEF SeatInv
    <2> QED BY <2>1, <2>2, WorthFrame
  <1>3. CASE Seat
    <2>1. /\ UNCHANGED <<rows, money, home, found>> /\ match.stage = "MATCHED"
          /\ match'.taken = match.taken /\ game'.state = "SEAT"
      BY <1>3, <1>t DEF Seat, MatchType
    <2>2. game.state = "NONE" /\ match.taken = FALSE BY <2>1, <1>t DEF SeatInv, RequestInv, MatchType
    <2> QED BY <2>1, <2>2, WorthFrame
  <1> QED BY <1>1, <1>2, <1>3

\* The game and the way home.
LEMMA WorthGame ==
  ASSUME LobbyInv, BackInv, WorthInv,
         \/ EnterGame \/ Find \/ (\E s \in Raid : Lose(s)) \/ Leave \/ Apply \/ ApplyFails \/ Unlock
  PROVE  WorthInv'
  <1>t. /\ RowsType /\ MatchType /\ GameType /\ HomeType /\ HistType
        /\ SeatInv /\ RequestInv
    BY TypeParts DEF LobbyInv, BackInv
  <1>a. /\ money \in Nat /\ Worth(rows) \in Nat /\ found \in Nat
        /\ Worth(game.bag) \in Nat /\ Worth(home.slots) \in Nat /\ Worth(match.carry) \in Nat
        /\ InGame \in Nat /\ OnTheWay \in Nat /\ Owed \in Nat
        /\ money + Worth(rows) + InGame + OnTheWay + Owed <= found
    BY Amounts DEF WorthInv
  <1>b. game.bag \in [Raid -> Entries] BY <1>t DEF GameType, RaidLayouts
  <1>n. Worth(NoRaid) = 0 BY WorthOfNothing DEF NoRaid
  <1>1. CASE EnterGame
    <2>1. /\ game'.state = "JOINED" /\ game'.bag = game.bag /\ game.state = "SEAT" /\ match.taken
          /\ found' = (IF match.loadout = "FREE" THEN found + Worth(Preset) ELSE found)
          /\ UNCHANGED <<rows, money, match, home>>
      BY <1>1, <1>t DEF EnterGame, GameType
    <2>2. game.bag = match.carry /\ match.stage = "INGAME" BY <2>1, <1>t DEF RequestInv, SeatInv
    <2>3. InGame = 0 /\ InGame' = Worth(match.carry) /\ OnTheWay' = OnTheWay /\ Owed' = 0
      BY <2>1, <2>2 DEF InGame, OnTheWay, Owed
    <2>4. CASE match.loadout = "FREE"
      <3>1. match.carry = Preset BY <2>2, <2>4, <1>t DEF RequestInv
      <3>2. Owed = 0 BY <2>4 DEF Owed
      <3> QED BY <2>1, <2>3, <2>4, <3>1, <3>2, <1>a DEF WorthInv
    <2>5. CASE match.loadout # "FREE"
      <3>1. match.loadout = "CUSTOM" BY <2>5, <1>t DEF MatchType, Loadouts
      <3>2. Owed = Worth(match.carry) BY <2>1, <3>1 DEF Owed
      <3> QED BY <2>1, <2>3, <2>5, <3>2, <1>a DEF WorthInv
    <2> QED BY <2>4, <2>5
  <1>2. CASE Find
    <2>1. PICK s \in Bag, i \in Items :
            /\ game.bag[s] = Empty /\ game' = [game EXCEPT !.bag[s] = Entry(i, 1)] /\ found' = found + Price[i]
      BY <1>2 DEF Find
    <2>2. Entry(i, 1) \in Entries /\ s \in Raid /\ 1 \in 1 .. MaxQty BY SizeAssumption DEF Entries, Raid
    <2>3. game'.state = "JOINED" /\ game'.bag = [game.bag EXCEPT ![s] = Entry(i, 1)] /\ game.state = "JOINED"
      BY <1>2, <2>1, <2>2, <1>t, BagChanges DEF Find
    <2> DEFINE k == [game.bag EXCEPT ![s] = Entry(i, 1)]
    <2>4. k \in [Raid -> Entries] /\ k[s] = Entry(i, 1) /\ \A t \in Raid : t # s => k[t] = game.bag[t]
      BY <1>b, <2>2
    <2>5. game'.bag = k BY <2>3
    <2> HIDE DEF k
    <2>6. Worth(k) = Worth(game.bag) + 1 * Price[i]
      BY <1>b, <2>1, <2>2, <2>4, SlotsFinite, WorthOfNewRow
    <2>7. Price[i] \in Nat BY PresetAssumption
    <2>8. UNCHANGED <<rows, money, match, home>> BY <1>2 DEF Find
    <2>9. InGame = Worth(game.bag) /\ InGame' = Worth(k) /\ OnTheWay' = OnTheWay /\ Owed = 0 /\ Owed' = 0
      BY <2>3, <2>5, <2>8 DEF InGame, OnTheWay, Owed
    <2> QED BY <2>1, <2>6, <2>7, <2>8, <2>9, <1>a DEF WorthInv
  <1>3. ASSUME NEW s \in Raid, Lose(s) PROVE WorthInv'
    <2>1. Empty \in Entries BY DEF Entries
    <2>2. game'.state = "JOINED" /\ game'.bag = [game.bag EXCEPT ![s] = Empty] /\ game.state = "JOINED"
      BY <1>3, <2>1, <1>t, BagChanges DEF Lose
    <2> DEFINE k == [game.bag EXCEPT ![s] = Empty]
    <2>3. k \in [Raid -> Entries] /\ \A t \in Raid : k[t] = game.bag[t] \/ k[t] = Empty BY <1>b, <2>1
    <2>4. game'.bag = k BY <2>2
    <2> HIDE DEF k
    <2>5. Worth(k) <= Worth(game.bag) BY <1>b, <2>3, SlotsFinite, WorthOfPart
    <2>6. UNCHANGED <<rows, money, match, home, found>> BY <1>3 DEF Lose
    <2>7. InGame = Worth(game.bag) /\ InGame' = Worth(k) /\ OnTheWay' = OnTheWay /\ Owed = 0 /\ Owed' = 0
      BY <2>2, <2>4, <2>6 DEF InGame, OnTheWay, Owed
    <2>8. Worth(k) \in Nat BY <2>3, SlotsFinite, CoinsFinite
    <2> QED BY <2>5, <2>6, <2>7, <2>8, <1>a DEF WorthInv
  <1>4. CASE Leave
    <2>1. PICK r \in {NoRaid} \cup (IF game.state = "JOINED" THEN {game.bag} ELSE {}) :
            home' = [state |-> "APPLY", slots |-> r, tries |-> 0]
      BY <1>4 DEF Leave
    <2>2. Worth(r) \in Nat /\ Worth(r) <= InGame BY <2>1, <1>n, <1>a DEF InGame
    <2>3. game' = NoGame /\ UNCHANGED <<rows, money, match, found>> BY <1>4 DEF Leave
    <2>4. home'.state = "APPLY" /\ home'.slots = r BY <2>1
    <2>5. OnTheWay' = Worth(r) /\ InGame' = 0 /\ Owed' = 0
      BY <2>3, <2>4, NothingTyped DEF OnTheWay, InGame, Owed
    <2> QED BY <2>2, <2>3, <2>5, <1>a DEF WorthInv
  <1>5. CASE Apply
    <2>1. home.state = "APPLY" /\ rows' = Join(rows, home.slots) /\ UNCHANGED <<money, match, game, found>>
      BY <1>5 DEF Apply
    <2>2. home'.state = "UNLOCK" BY <1>5, <1>t DEF Apply, HomeType
    <2>3. rows \in Layouts /\ home.slots \in RaidLayouts BY <1>t DEF RowsType, HomeType
    <2>4. Worth(rows') <= Worth(rows) + Worth(home.slots) BY <2>1, <2>3, WorthOfJoin
    <2>5. Worth(rows') \in Nat
      <3>1. Join(rows, home.slots) \in [Slots -> Entries] BY <2>3, WorthOfJoin DEF Layouts
      <3> QED BY <2>1, <3>1, SlotsFinite, CoinsFinite
    <2>6. OnTheWay = Worth(home.slots) /\ OnTheWay' = 0 /\ InGame' = InGame /\ Owed' = Owed
      BY <2>1, <2>2 DEF OnTheWay, InGame, Owed
    <2> QED BY <2>1, <2>4, <2>5, <2>6, <1>a DEF WorthInv
  <1>6. CASE ApplyFails
    <2>1. home.state = "APPLY" /\ UNCHANGED <<rows, money, match, game, found>> BY <1>6 DEF ApplyFails
    <2>2. home'.slots = home.slots BY <1>6, <1>t DEF ApplyFails, HomeType
    <2>3. OnTheWay' \in Nat /\ OnTheWay' <= OnTheWay /\ InGame' = InGame /\ Owed' = Owed
      BY <2>1, <2>2, <1>a DEF OnTheWay, InGame, Owed
    <2> QED BY <2>1, <2>3, <1>a DEF WorthInv
  <1>7. CASE Unlock
    <2>1. home.state = "UNLOCK" /\ home' = NoHome /\ UNCHANGED <<rows, money, game, found>> BY <1>7 DEF Unlock
    <2>2. game = NoGame BY <2>1, <1>t DEF SeatInv
    <2>3. OnTheWay' = 0 /\ OnTheWay = 0 /\ InGame' = InGame /\ Owed' = 0 /\ Owed = 0
      BY <2>1, <2>2, NothingTyped DEF OnTheWay, InGame, Owed
    <2> QED BY <2>1, <2>3, <1>a DEF WorthInv
  <1> QED BY <1>1, <1>2, <1>3, <1>4, <1>5, <1>6, <1>7

LEMMA WorthStep == LobbyInv /\ BackInv /\ WorthInv /\ [Next]_vars => WorthInv'
  <1> SUFFICES ASSUME LobbyInv, BackInv, WorthInv, [Next]_vars PROVE WorthInv' OBVIOUS
  <1>a. /\ money \in Nat /\ Worth(rows) \in Nat /\ found \in Nat
        /\ InGame \in Nat /\ OnTheWay \in Nat /\ Owed \in Nat
        /\ money + Worth(rows) + InGame + OnTheWay + Owed <= found
    BY Amounts DEF WorthInv
  <1>1. CASE Purchase \/ Sell \/ Start
    <2>1. UNCHANGED <<match, game, home, found>> BY <1>1 DEF Purchase, Sell, Start, matchVars
    <2>2. InGame' = InGame /\ OnTheWay' = OnTheWay /\ Owed' = Owed BY <2>1 DEF InGame, OnTheWay, Owed
    <2>3. money' + Worth(rows') = money + Worth(rows) BY <1>1, WorthTrade
    <2> QED BY <2>1, <2>2, <2>3, <1>a DEF WorthInv
  <1>2. CASE Take
    <2>1. UNCHANGED <<money, game, home, found>> BY <1>2 DEF Take
    <2>2. InGame' = InGame /\ OnTheWay' = OnTheWay BY <2>1 DEF InGame, OnTheWay
    <2>3. Worth(rows') + Owed' <= Worth(rows) + Owed BY <1>2, WorthTake
    <2>4. Worth(rows') \in Nat /\ Owed' \in Nat BY <1>2, WorthTake
    <2> QED BY <2>1, <2>2, <2>3, <2>4, <1>a DEF WorthInv
  <1>3. CASE ~ (Purchase \/ Sell \/ Start \/ Take)
    BY <1>3, WorthQuiet, WorthGame DEF Next, Kinds
  <1> QED BY <1>1, <1>2, <1>3

\* Nothing is made out of nothing.  The promise rests on totalsMatch (a client
\* may rearrange its rows, but not change the total of an item), on the order
\* of /match/connect (the rows go before the key to the seat is answered) and
\* on the one return of a seat; it holds for an orderly client.
THEOREM LobbyConserved ==
  ASSUME Orderly = TRUE PROVE Spec => []Conserved
  <1>1. Init => WorthInv
    <2> SUFFICES ASSUME Init PROVE WorthInv OBVIOUS
    <2>1. Worth(rows) = 0 BY WorthOfNothing DEF Init
    <2>2. InGame = 0 /\ OnTheWay = 0 /\ Owed = 0 /\ money = 0 /\ found = 0
      BY NothingTyped DEF Init, InGame, OnTheWay, Owed
    <2> QED BY <2>1, <2>2 DEF WorthInv
  <1>2. LobbyInv /\ WorthInv => Conserved
    <2> SUFFICES ASSUME LobbyInv, WorthInv PROVE Conserved OBVIOUS
    <2>1. money + Worth(rows) + InGame + OnTheWay <= found BY Amounts DEF WorthInv
    <2> QED BY <2>1 DEF Conserved, InGame, OnTheWay
  <1> QED BY <1>1, <1>2, WorthStep, BackInductive, PTL DEF Spec
=============================================================================
