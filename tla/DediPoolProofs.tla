--------------------------- MODULE DediPoolProofs ---------------------------
(***************************************************************************)
(* The pool for every number of processes and groups and every capacity:   *)
(* what Main counts covers what the processes have, a group is in one      *)
(* place, and a session id routes to one session.                          *)
(***************************************************************************)
EXTENDS DediPool, FiniteSetTheorems, TLAPS

-----------------------------------------------------------------------------
(* Queues as sequences without repetition: what is in them after the       *)
(* operations on the vectors and sockets of Main and the processes.        *)

\* ToSet and IsInjective by indices.
LEMMA QueueIndices ==
  ASSUME NEW S, NEW q \in Seq(S)
  PROVE  /\ Len(q) \in Nat /\ \A i \in 1 .. Len(q) : q[i] \in S
         /\ \A x : x \in ToSet(q) <=> \E i \in 1 .. Len(q) : q[i] = x
         /\ IsInjective(q) <=> \A i, j \in 1 .. Len(q) : q[i] = q[j] => i = j
  <1>1. DOMAIN q = 1 .. Len(q) OBVIOUS
  <1>2. \A x : x \in ToSet(q) <=> \E i \in 1 .. Len(q) : q[i] = x BY <1>1, Zenon DEF ToSet
  <1>3. IsInjective(q) <=> \A i, j \in 1 .. Len(q) : q[i] = q[j] => i = j BY <1>1, Zenon DEF IsInjective
  <1> QED BY <1>2, <1>3

LEMMA QueueEmpty == IsInjective(<<>>) /\ ToSet(<<>>) = {}
  BY DEF IsInjective, ToSet

LEMMA QueueRange ==
  ASSUME NEW S, NEW q \in Seq(S)
  PROVE  ToSet(q) \subseteq S
  BY DEF ToSet

LEMMA QueueHead ==
  ASSUME NEW S, NEW q \in Seq(S), q # <<>>
  PROVE  Head(q) \in ToSet(q) /\ Head(q) \in S
  BY DEF ToSet

LEMMA QueueAppend ==
  ASSUME NEW S, NEW q \in Seq(S), NEW x \in S
  PROVE  /\ Append(q, x) \in Seq(S) /\ Len(Append(q, x)) = Len(q) + 1
         /\ ToSet(Append(q, x)) = ToSet(q) \cup {x}
         /\ IsInjective(q) /\ x \notin ToSet(q) => IsInjective(Append(q, x))
  <1> DEFINE a == Append(q, x)
  <1>1. /\ a \in Seq(S) /\ Len(a) = Len(q) + 1 /\ Len(q) \in Nat
        /\ \A i \in 1 .. Len(q) : a[i] = q[i]
        /\ a[Len(q) + 1] = x
    OBVIOUS
  <1> HIDE DEF a
  <1>2. ASSUME NEW y \in ToSet(a) PROVE y \in ToSet(q) \cup {x}
    <2>1. PICK i \in 1 .. Len(a) : a[i] = y BY <1>1, QueueIndices
    <2>2. CASE i = Len(q) + 1 BY <1>1, <2>1, <2>2
    <2>3. CASE i # Len(q) + 1
      <3>1. i \in 1 .. Len(q) /\ q[i] = y BY <1>1, <2>1, <2>3
      <3> QED BY <3>1, QueueIndices
    <2> QED BY <2>2, <2>3
  <1>3. ASSUME NEW y \in ToSet(q) PROVE y \in ToSet(a)
    <2>1. PICK i \in 1 .. Len(q) : q[i] = y BY QueueIndices
    <2>2. i \in 1 .. Len(a) /\ a[i] = y BY <1>1, <2>1
    <2> QED BY <1>1, <2>2, QueueIndices
  <1>4. x \in ToSet(a)
    <2>1. Len(q) + 1 \in 1 .. Len(a) BY <1>1
    <2> QED BY <1>1, <2>1, QueueIndices
  <1>5. IsInjective(q) /\ x \notin ToSet(q) => IsInjective(a)
    <2>1. IsInjective(q) <=> \A i, j \in 1 .. Len(q) : q[i] = q[j] => i = j BY QueueIndices
    <2>2. IsInjective(a) <=> \A i, j \in 1 .. Len(a) : a[i] = a[j] => i = j BY <1>1, QueueIndices
    <2>3. x \notin ToSet(q) => \A i \in 1 .. Len(q) : q[i] # x BY QueueIndices
    <2> QED BY <1>1, <2>1, <2>2, <2>3
  <1> QED BY <1>1, <1>2, <1>3, <1>4, <1>5 DEF a

LEMMA QueueTail ==
  ASSUME NEW S, NEW q \in Seq(S), q # <<>>, IsInjective(q)
  PROVE  /\ Tail(q) \in Seq(S)
         /\ ToSet(Tail(q)) = ToSet(q) \ {Head(q)}
         /\ IsInjective(Tail(q))
  <1> DEFINE t == Tail(q)
  <1>1. /\ t \in Seq(S) /\ Len(t) = Len(q) - 1
        /\ \A i \in 1 .. Len(q) - 1 : t[i] = q[i + 1]
        /\ Len(q) \in Nat \ {0} /\ Head(q) = q[1]
    OBVIOUS
  <1> HIDE DEF t
  <1>q. \A i, j \in 1 .. Len(q) : q[i] = q[j] => i = j BY QueueIndices
  <1>2. IsInjective(t)
    <2>1. ASSUME NEW i \in 1 .. Len(t), NEW j \in 1 .. Len(t), t[i] = t[j] PROVE i = j
      <3>1. i + 1 \in 1 .. Len(q) /\ j + 1 \in 1 .. Len(q) /\ q[i + 1] = q[j + 1] BY <1>1, <2>1
      <3>2. i + 1 = j + 1 BY <3>1, <1>q
      <3> QED BY <3>2
    <2> QED BY <1>1, <2>1, QueueIndices
  <1>3. ASSUME NEW x \in ToSet(t) PROVE x \in ToSet(q) \ {Head(q)}
    <2>1. PICK i \in 1 .. Len(t) : t[i] = x BY <1>1, QueueIndices
    <2>2. i + 1 \in 1 .. Len(q) /\ 1 \in 1 .. Len(q) /\ i + 1 # 1 /\ q[i + 1] = x
      BY <1>1, <2>1
    <2>3. q[i + 1] # q[1] BY <2>2, <1>q
    <2> QED BY <1>1, <2>2, <2>3, QueueIndices
  <1>4. ASSUME NEW x \in ToSet(q), x # Head(q) PROVE x \in ToSet(t)
    <2>1. PICK i \in 1 .. Len(q) : q[i] = x BY QueueIndices
    <2>2. i - 1 \in 1 .. Len(t) /\ t[i - 1] = x BY <1>1, <1>4, <2>1
    <2> QED BY <1>1, <2>2, QueueIndices
  <1> QED BY <1>1, <1>2, <1>3, <1>4 DEF t

LEMMA QueueConcat ==
  ASSUME NEW S, NEW q \in Seq(S), NEW r \in Seq(S)
  PROVE  /\ q \o r \in Seq(S) /\ Len(q \o r) = Len(q) + Len(r)
         /\ ToSet(q \o r) = ToSet(q) \cup ToSet(r)
         /\ IsInjective(q) /\ IsInjective(r) /\ ToSet(q) \cap ToSet(r) = {} => IsInjective(q \o r)
  <1>1. /\ q \o r \in Seq(S) /\ Len(q \o r) = Len(q) + Len(r)
        /\ \A i \in 1 .. Len(q) + Len(r) :
             (q \o r)[i] = IF i <= Len(q) THEN q[i] ELSE r[i - Len(q)]
    OBVIOUS
  <1>2. ToSet(q \o r) \subseteq ToSet(q) \cup ToSet(r)
    BY <1>1 DEF ToSet
  <1>3. ToSet(q) \subseteq ToSet(q \o r)
    BY <1>1 DEF ToSet
  <1>4. ASSUME NEW x \in ToSet(r) PROVE x \in ToSet(q \o r)
    <2>1. PICK i \in 1 .. Len(r) : r[i] = x BY DEF ToSet
    <2>2. i + Len(q) \in 1 .. Len(q) + Len(r) /\ (q \o r)[i + Len(q)] = x BY <1>1, <2>1
    <2> QED BY <1>1, <2>2 DEF ToSet
  <1>5. ASSUME IsInjective(q), IsInjective(r), ToSet(q) \cap ToSet(r) = {},
               NEW i \in 1 .. Len(q) + Len(r), NEW j \in 1 .. Len(q) + Len(r),
               (q \o r)[i] = (q \o r)[j]
        PROVE  i = j
    <2>1. CASE i <= Len(q) /\ j <= Len(q) BY <1>1, <1>5, <2>1 DEF IsInjective
    <2>2. CASE i > Len(q) /\ j > Len(q)
      <3>1. i - Len(q) \in 1 .. Len(r) /\ j - Len(q) \in 1 .. Len(r) BY <2>2
      <3>2. r[i - Len(q)] = r[j - Len(q)] BY <1>1, <1>5, <2>2
      <3> QED BY <3>1, <3>2, <1>5 DEF IsInjective
    <2>3. CASE i <= Len(q) /\ j > Len(q)
      <3>1. i \in 1 .. Len(q) /\ j - Len(q) \in 1 .. Len(r) /\ q[i] = r[j - Len(q)] BY <1>1, <1>5, <2>3
      <3>2. q[i] \in ToSet(q) /\ q[i] \in ToSet(r) BY <3>1, QueueIndices
      <3> QED BY <3>2, <1>5
    <2>4. CASE i > Len(q) /\ j <= Len(q)
      <3>1. j \in 1 .. Len(q) /\ i - Len(q) \in 1 .. Len(r) /\ q[j] = r[i - Len(q)] BY <1>1, <1>5, <2>4
      <3>2. q[j] \in ToSet(q) /\ q[j] \in ToSet(r) BY <3>1, QueueIndices
      <3> QED BY <3>2, <1>5
    <2> QED BY <2>1, <2>2, <2>3, <2>4
  <1>6. IsInjective(q) /\ IsInjective(r) /\ ToSet(q) \cap ToSet(r) = {} => IsInjective(q \o r)
    BY <1>1, <1>5 DEF IsInjective
  <1> QED BY <1>1, <1>2, <1>3, <1>4, <1>6

\* The first n elements and the rest.
LEMMA QueueSplit ==
  ASSUME NEW S, NEW q \in Seq(S), NEW n \in 0 .. Len(q), IsInjective(q)
  PROVE  LET a == SubSeq(q, 1, n)
             b == SubSeq(q, n + 1, Len(q))
         IN /\ a \in Seq(S) /\ Len(a) = n /\ IsInjective(a)
            /\ b \in Seq(S) /\ Len(b) = Len(q) - n /\ IsInjective(b)
            /\ ToSet(a) \cap ToSet(b) = {}
            /\ ToSet(a) \cup ToSet(b) = ToSet(q)
  <1> DEFINE a == SubSeq(q, 1, n)
             b == SubSeq(q, n + 1, Len(q))
  <1>1. /\ a \in Seq(S) /\ Len(a) = n /\ \A i \in 1 .. n : a[i] = q[i]
        /\ b \in Seq(S) /\ Len(b) = Len(q) - n /\ \A i \in 1 .. Len(q) - n : b[i] = q[i + n]
    OBVIOUS
  <1> HIDE DEF a, b
  <1>q. \A i, j \in 1 .. Len(q) : q[i] = q[j] => i = j BY QueueIndices
  <1>2. IsInjective(a) /\ IsInjective(b)
    <2>1. ASSUME NEW i \in 1 .. Len(a), NEW j \in 1 .. Len(a), a[i] = a[j] PROVE i = j
      <3>1. i \in 1 .. Len(q) /\ j \in 1 .. Len(q) /\ q[i] = q[j] BY <1>1, <2>1
      <3> QED BY <3>1, <1>q
    <2>2. ASSUME NEW i \in 1 .. Len(b), NEW j \in 1 .. Len(b), b[i] = b[j] PROVE i = j
      <3>1. i + n \in 1 .. Len(q) /\ j + n \in 1 .. Len(q) /\ q[i + n] = q[j + n] BY <1>1, <2>2
      <3>2. i + n = j + n BY <3>1, <1>q
      <3> QED BY <3>2
    <2> QED BY <1>1, <2>1, <2>2, QueueIndices
  <1>3. ASSUME NEW x \in ToSet(a), x \in ToSet(b) PROVE FALSE
    <2>1. PICK i \in 1 .. n : a[i] = x BY <1>1, QueueIndices
    <2>2. PICK j \in 1 .. Len(q) - n : b[j] = x BY <1>1, <1>3, QueueIndices
    <2>3. i \in 1 .. Len(q) /\ j + n \in 1 .. Len(q) /\ q[i] = q[j + n] /\ i # j + n
      BY <1>1, <2>1, <2>2
    <2> QED BY <2>3, <1>q
  <1>4. ASSUME NEW x \in ToSet(a) \cup ToSet(b) PROVE x \in ToSet(q)
    <2>1. CASE x \in ToSet(a)
      <3>1. PICK i \in 1 .. n : a[i] = x BY <1>1, <2>1, QueueIndices
      <3>2. i \in 1 .. Len(q) /\ q[i] = x BY <1>1, <3>1
      <3> QED BY <3>2, QueueIndices
    <2>2. CASE x \in ToSet(b)
      <3>1. PICK i \in 1 .. Len(q) - n : b[i] = x BY <1>1, <2>2, QueueIndices
      <3>2. i + n \in 1 .. Len(q) /\ q[i + n] = x BY <1>1, <3>1
      <3> QED BY <3>2, QueueIndices
    <2> QED BY <1>4, <2>1, <2>2
  <1>5. ASSUME NEW x \in ToSet(q) PROVE x \in ToSet(a) \cup ToSet(b)
    <2>1. PICK i \in 1 .. Len(q) : q[i] = x BY DEF ToSet
    <2>2. CASE i <= n BY <1>1, <2>1, <2>2 DEF ToSet
    <2>3. CASE i > n
      <3>1. i - n \in 1 .. Len(q) - n /\ b[i - n] = x BY <1>1, <2>1, <2>3
      <3> QED BY <1>1, <3>1 DEF ToSet
    <2> QED BY <2>2, <2>3
  <1> QED BY <1>1, <1>2, <1>3, <1>4, <1>5 DEF a, b
-----------------------------------------------------------------------------
(* The parts of the inductive invariant.                                   *)

\* The groups that have a process.
Placed == {g \in Groups : pid[g] # NoPid}

\* The groups whose room is open.
Opened(p) == {g \in GroupsOf(p) : room[g] = "open"}

\* The groups Main has back.
Over(p) == GroupsOf(p) \ Running(p)

\* Nothing belongs to a group without a process, nor to a process that was not
\* spawned.
IdleInv ==
    /\ \A g \in Groups : pid[g] = NoPid => room[g] = "none"
    /\ \A p \in Pids : session[p] = "None" => alloc[p] = 0
    /\ IsFiniteSet(Placed)

\* A group without a room is kept once or on the socket once; the others are in
\* neither place.
QueueInv ==
    \A p \in Pids :
      /\ IsInjective(temp[p]) /\ IsInjective(m2d[p])
      /\ ToSet(temp[p]) \cap ToSet(m2d[p]) = {}
      /\ ToSet(temp[p]) \cup ToSet(m2d[p]) = {g \in GroupsOf(p) : room[g] = "none"}

\* A room has one session for every seat while it is open, and none else.
SeatInv ==
    \A g \in Groups :
      /\ seats[g] <= size[g]
      /\ Len(ids[g]) = IF room[g] = "open" THEN seats[g] ELSE 0

\* A destroyed room is reported once, with the number of its sessions.
ReportInv ==
    \A p \in Pids : \A i \in DOMAIN d2m[p] : d2m[p][i].type = "Destroyed" =>
      /\ pid[d2m[p][i].g] = p /\ room[d2m[p][i].g] = "destroyed"
      /\ d2m[p][i].count = seats[d2m[p][i].g]
      /\ \A j \in DOMAIN d2m[p] :
           d2m[p][j].type = "Destroyed" /\ d2m[p][j].g = d2m[p][i].g => i = j

\* What Main counts for a process.
CountInv ==
    \A p \in Pids : alloc[p] = Total(size, GroupsOf(p)) - Total(seats, Over(p))

\* The ids of a process are free or in an open room.
FreeInv ==
    \A p \in Pids : Len(free[p]) = Cap - Total(seats, Opened(p))

PoolInv ==
    TypeOK /\ IdleInv /\ QueueInv /\ SeatInv /\ ReportInv /\ CountInv /\ FreeInv /\ IdsRoute
-----------------------------------------------------------------------------
(* Counting players.                                                       *)

LEMMA PlayersFinite ==
  ASSUME NEW S, IsFiniteSet(S), NEW f
  PROVE  IsFiniteSet(Players(f, S)) /\ Total(f, S) \in Nat
  <1>1. IsFiniteSet(1 .. MaxGroup) BY CapAssumption, FS_Interval
  <1>2. IsFiniteSet(S \X (1 .. MaxGroup)) BY <1>1, FS_Product
  <1>3. Players(f, S) \subseteq S \X (1 .. MaxGroup) BY DEF Players
  <1> QED BY <1>2, <1>3, FS_Subset, FS_CardinalityType DEF Total

\* A set of groups that grows by one, counted by a function that may differ on
\* the new one.
LEMMA TotalAdd ==
  ASSUME NEW S, IsFiniteSet(S), NEW g, g \notin S, NEW f, NEW h,
         f[g] \in 0 .. MaxGroup, \A x \in S : f[x] = h[x]
  PROVE  Total(f, S \cup {g}) = Total(h, S) + f[g]
  <1> DEFINE New == {g} \X (1 .. f[g])
  <1>1. Players(f, S \cup {g}) = Players(h, S) \cup New
    BY CapAssumption DEF Players
  <1>2. Players(h, S) \cap New = {}
    BY DEF Players
  <1>3. IsFiniteSet(New) /\ Cardinality(New) = f[g]
    <2>0. f[g] \in Nat BY CapAssumption
    <2>1. IsFiniteSet(1 .. f[g]) /\ Cardinality(1 .. f[g]) = f[g] BY <2>0, FS_Interval, SMTT(30)
    <2>2. IsFiniteSet({g}) /\ Cardinality({g}) = 1 BY FS_Singleton
    <2>3. IsFiniteSet(New) /\ Cardinality(New) = Cardinality({g}) * Cardinality(1 .. f[g])
      BY <2>1, <2>2, FS_Product
    <2> QED BY <2>0, <2>1, <2>2, <2>3
  <1>4. IsFiniteSet(Players(h, S)) /\ Cardinality(Players(h, S)) \in Nat BY PlayersFinite DEF Total
  <1> HIDE DEF New
  <1>5. Cardinality(Players(h, S) \cup New) = Cardinality(Players(h, S)) + Cardinality(New) - Cardinality({})
    BY <1>2, <1>3, <1>4, FS_Union
  <1>6. Cardinality({}) = 0 BY FS_EmptySet
  <1>7. f[g] \in Int BY CapAssumption
  <1>8. ASSUME NEW a \in Nat, NEW b, NEW c, NEW d \in Int, b = a + c - 0, c = d PROVE b = a + d
    BY <1>8
  <1>9. Cardinality(Players(h, S) \cup New) = Cardinality(Players(h, S)) + f[g]
    BY <1>3, <1>4, <1>5, <1>6, <1>7, <1>8
  <1> QED BY <1>1, <1>9 DEF Total

LEMMA TotalAllocated ==
  ASSUME NEW p, IsFiniteSet(GroupsOf(p)), NEW g, g \notin GroupsOf(p),
         size'[g] \in 0 .. MaxGroup, \A x \in GroupsOf(p) : size'[x] = size[x]
  PROVE  Total(size', GroupsOf(p) \cup {g}) = Total(size, GroupsOf(p)) + size'[g]
  BY TotalAdd

LEMMA TotalSame ==
  ASSUME NEW S, NEW f, NEW h, \A x \in S : f[x] = h[x]
  PROVE  Total(f, S) = Total(h, S)
  BY DEF Total, Players

LEMMA TotalMonotone ==
  ASSUME NEW T, IsFiniteSet(T), NEW S \in SUBSET T, NEW f, NEW h,
         \A x \in T : f[x] \in Int /\ h[x] \in Int /\ f[x] <= h[x]
  PROVE  Total(f, S) <= Total(h, T)
  <1>1. Players(f, S) \subseteq Players(h, T) BY DEF Players
  <1> QED BY <1>1, PlayersFinite, FS_Subset DEF Total

\* The groups that ran and the ones that are over, counted apart.
LEMMA TotalUnion ==
  ASSUME NEW S, IsFiniteSet(S), NEW T, IsFiniteSet(T), S \cap T = {}, NEW f
  PROVE  Total(f, S \cup T) = Total(f, S) + Total(f, T)
  <1>1. Players(f, S \cup T) = Players(f, S) \cup Players(f, T) BY DEF Players
  <1>2. Players(f, S) \cap Players(f, T) = {} BY DEF Players
  <1>3. IsFiniteSet(Players(f, S)) /\ IsFiniteSet(Players(f, T)) /\ Total(f, S) \in Nat /\ Total(f, T) \in Nat
    BY PlayersFinite
  <1>4. Cardinality(Players(f, S) \cup Players(f, T))
          = Cardinality(Players(f, S)) + Cardinality(Players(f, T)) - Cardinality({})
    BY <1>2, <1>3, FS_Union
  <1>5. Cardinality({}) = 0 BY FS_EmptySet
  <1>6. Cardinality(Players(f, S)) \in Nat /\ Cardinality(Players(f, T)) \in Nat BY <1>3 DEF Total
  <1>7. Cardinality(Players(f, S) \cup Players(f, T)) = Cardinality(Players(f, S)) + Cardinality(Players(f, T))
    BY <1>4, <1>5, <1>6
  <1> QED BY <1>1, <1>7 DEF Total

LEMMA TotalEmpty == \A f : Total(f, {}) = 0
  BY FS_EmptySet DEF Total, Players
-----------------------------------------------------------------------------
(* The steps.                                                              *)

\* Finite sets of groups, and sets that do not change.
LEMMA GroupSets ==
  ASSUME PoolInv, NEW p \in Pids
  PROVE  /\ p # NoPid
         /\ GroupsOf(p) \subseteq Groups /\ IsFiniteSet(GroupsOf(p))
         /\ Running(p) \subseteq GroupsOf(p) /\ IsFiniteSet(Running(p))
         /\ Over(p) \subseteq GroupsOf(p) /\ IsFiniteSet(Over(p))
         /\ Opened(p) \subseteq Running(p) /\ IsFiniteSet(Opened(p))
  <1>1. p # NoPid BY PidAssumption
  <1>2. IsFiniteSet(Placed) /\ GroupsOf(p) \subseteq Placed
    BY <1>1 DEF PoolInv, IdleInv, GroupsOf, Placed
  <1>3. /\ GroupsOf(p) \subseteq Groups /\ Running(p) \subseteq GroupsOf(p)
        /\ Over(p) \subseteq GroupsOf(p) /\ Opened(p) \subseteq Running(p)
    BY DEF GroupsOf, Running, Over, Opened
  <1>4. IsFiniteSet(GroupsOf(p)) BY <1>2, FS_Subset
  <1>5. IsFiniteSet(Running(p)) /\ IsFiniteSet(Over(p)) BY <1>3, <1>4, FS_Subset
  <1>6. IsFiniteSet(Opened(p)) BY <1>3, <1>5, FS_Subset
  <1> QED BY <1>1, <1>3, <1>4, <1>5, <1>6

\* AllocatePlayers, for a process that has room for the group.
LEMMA AllocateStep ==
  ASSUME PoolInv, NEW p \in Pids, NEW g \in Groups, NEW n \in 1 .. MaxGroup, NEW k \in 0 .. n,
         pid[g] = NoPid, Affords(p, n), AllocatePlayers(p, g, n, k),
         session' \in [Pids -> {"None", "Initializing", "Ready"}],
         session'[p] # "None", \A q \in Pids : session'[q] = "None" => session[q] = "None"
  PROVE  PoolInv'
  <1> USE DEF PoolInv
  <1>a. /\ alloc' = [alloc EXCEPT ![p] = @ + n] /\ pid' = [pid EXCEPT ![g] = p]
        /\ size' = [size EXCEPT ![g] = n] /\ seats' = [seats EXCEPT ![g] = k]
        /\ UNCHANGED <<room, d2m, ids, free, slots>>
    BY DEF AllocatePlayers, childVars
  <1>n. n \in 0 .. MaxGroup /\ k \in 0 .. MaxGroup /\ k <= n /\ n \in Int BY CapAssumption
  <1>p. p # NoPid /\ room[g] = "none" /\ ids[g] = <<>>
    <2>1. p # NoPid /\ room[g] = "none" BY PidAssumption DEF IdleInv
    <2>2. Len(ids[g]) = 0 /\ ids[g] \in Seq(Nat) BY <2>1 DEF SeatInv, TypeOK
    <2> QED BY <2>1, <2>2
  <1>g. /\ GroupsOf(p)' = GroupsOf(p) \cup {g}
        /\ \A q \in Pids : g \notin GroupsOf(q)
        /\ \A q \in Pids \ {p} : GroupsOf(q)' = GroupsOf(q)
        /\ \A q \in Pids : Over(q)' = Over(q) /\ Opened(q)' = Opened(q)
    <2>1. \A h \in Groups : pid'[h] = IF h = g THEN p ELSE pid[h] BY <1>a DEF TypeOK
    <2>2. \A q \in Pids : q # NoPid BY PidAssumption
    <2>3. GroupsOf(p)' = GroupsOf(p) \cup {g} BY <2>1 DEF GroupsOf
    <2>4. \A q \in Pids : g \notin GroupsOf(q) BY <2>2 DEF GroupsOf
    <2>5. \A q \in Pids \ {p} : GroupsOf(q)' = GroupsOf(q) BY <2>1, <2>4 DEF GroupsOf
    <2>6. ASSUME NEW q \in Pids PROVE Over(q)' = Over(q) /\ Opened(q)' = Opened(q)
      <3>1. \A h \in GroupsOf(q)' : h \in GroupsOf(q) \/ (h = g /\ room[h] = "none") BY <2>3, <2>5, <1>p
      <3>2. GroupsOf(q) \subseteq GroupsOf(q)' BY <2>3, <2>5
      <3> QED BY <3>1, <3>2, <1>a DEF Over, Running, Opened
    <2> QED BY <2>3, <2>4, <2>5, <2>6
  <1>q. \/ /\ m2d' = [m2d EXCEPT ![p] = @ \o Append(temp[p], g)]
           /\ temp' = [temp EXCEPT ![p] = <<>>]
        \/ temp' = [temp EXCEPT ![p] = Append(@, g)] /\ m2d' = m2d
    BY DEF AllocatePlayers, FlushPendingTickets
  <1>1. TypeOK'
    <2>1. alloc[p] + n \in 0 .. Cap BY <1>n, CapAssumption, SMTT(30) DEF Affords, TypeOK
    <2>2. temp[p] \in Seq(Groups) /\ m2d[p] \in Seq(Groups) BY DEF TypeOK
    <2>3. Append(temp[p], g) \in Seq(Groups) /\ m2d[p] \o Append(temp[p], g) \in Seq(Groups) /\ <<>> \in Seq(Groups)
      BY <2>2
    <2>4. temp' \in [Pids -> Seq(Groups)] /\ m2d' \in [Pids -> Seq(Groups)]
      <3> DEFINE a == Append(temp[p], g)
                 b == m2d[p] \o a
      <3>1. a \in Seq(Groups) /\ b \in Seq(Groups) /\ <<>> \in Seq(Groups) BY <2>3
      <3>2. \/ m2d' = [m2d EXCEPT ![p] = b] /\ temp' = [temp EXCEPT ![p] = <<>>]
            \/ temp' = [temp EXCEPT ![p] = a] /\ m2d' = m2d
        BY <1>q
      <3> HIDE DEF a, b
      <3>3. temp \in [Pids -> Seq(Groups)] /\ m2d \in [Pids -> Seq(Groups)] BY DEF TypeOK
      <3>4. CASE m2d' = [m2d EXCEPT ![p] = b] /\ temp' = [temp EXCEPT ![p] = <<>>]
        <4>1. m2d' \in [Pids -> Seq(Groups)] BY <3>1, <3>3, <3>4
        <4>2. temp' \in [Pids -> Seq(Groups)] BY <3>1, <3>3, <3>4
        <4> QED BY <4>1, <4>2
      <3>5. CASE temp' = [temp EXCEPT ![p] = a] /\ m2d' = m2d BY <3>1, <3>3, <3>5
      <3> QED BY <3>2, <3>4, <3>5
    <2> QED BY <1>a, <1>n, <2>1, <2>4 DEF TypeOK
  <1>2. IdleInv'
    <2>1. Placed' = Placed \cup {g} BY <1>a, <1>p DEF Placed, TypeOK
    <2>2. IsFiniteSet(Placed') BY <2>1, FS_AddElement DEF IdleInv
    <2>3. \A h \in Groups : pid'[h] = NoPid => room'[h] = "none" BY <1>a, <1>p DEF IdleInv, TypeOK
    <2>4. \A q \in Pids : session'[q] = "None" => alloc'[q] = 0 BY <1>a DEF IdleInv, TypeOK
    <2> QED BY <2>2, <2>3, <2>4 DEF IdleInv
  <1>3. QueueInv'
    <2> SUFFICES ASSUME NEW q \in Pids
                 PROVE  /\ IsInjective(temp'[q]) /\ IsInjective(m2d'[q])
                        /\ ToSet(temp'[q]) \cap ToSet(m2d'[q]) = {}
                        /\ ToSet(temp'[q]) \cup ToSet(m2d'[q]) = {h \in GroupsOf(q)' : room'[h] = "none"}
      BY DEF QueueInv
    <2>1. CASE q # p
      <3>1. temp'[q] = temp[q] /\ m2d'[q] = m2d[q] BY <2>1, <1>q DEF TypeOK
      <3>2. GroupsOf(q)' = GroupsOf(q) /\ room' = room BY <2>1, <1>a, <1>g
      <3>3. /\ IsInjective(temp[q]) /\ IsInjective(m2d[q])
            /\ ToSet(temp[q]) \cap ToSet(m2d[q]) = {}
            /\ ToSet(temp[q]) \cup ToSet(m2d[q]) = {h \in GroupsOf(q) : room[h] = "none"}
        BY DEF QueueInv
      <3> QED BY <3>1, <3>2, <3>3, ZenonT(30)
    <2>2. CASE q = p
      <3>1. /\ temp[p] \in Seq(Groups) /\ m2d[p] \in Seq(Groups)
            /\ IsInjective(temp[p]) /\ IsInjective(m2d[p])
            /\ ToSet(temp[p]) \cap ToSet(m2d[p]) = {}
            /\ ToSet(temp[p]) \cup ToSet(m2d[p]) = {h \in GroupsOf(p) : room[h] = "none"}
        BY DEF QueueInv, TypeOK
      <3>2. g \notin ToSet(temp[p]) /\ g \notin ToSet(m2d[p]) BY <3>1, <1>g
      <3>3. {h \in GroupsOf(p)' : room'[h] = "none"} = {h \in GroupsOf(p) : room[h] = "none"} \cup {g}
        BY <1>a, <1>g, <1>p
      <3>4. /\ Append(temp[p], g) \in Seq(Groups) /\ IsInjective(Append(temp[p], g))
            /\ ToSet(Append(temp[p], g)) = ToSet(temp[p]) \cup {g}
        BY <3>1, <3>2, QueueAppend
      <3>5. CASE m2d' = [m2d EXCEPT ![p] = @ \o Append(temp[p], g)] /\ temp' = [temp EXCEPT ![p] = <<>>]
        <4>1. m2d'[p] = m2d[p] \o Append(temp[p], g) /\ temp'[p] = <<>> BY <3>5 DEF TypeOK
        <4>2. ToSet(m2d[p]) \cap ToSet(Append(temp[p], g)) = {} BY <3>1, <3>2, <3>4
        <4>3. /\ ToSet(m2d'[p]) = ToSet(m2d[p]) \cup ToSet(Append(temp[p], g))
              /\ IsInjective(m2d'[p])
          <5> DEFINE a == Append(temp[p], g)
          <5>1. a \in Seq(Groups) /\ IsInjective(a) /\ ToSet(m2d[p]) \cap ToSet(a) = {} BY <3>4, <4>2
          <5> HIDE DEF a
          <5>2. ToSet(m2d[p] \o a) = ToSet(m2d[p]) \cup ToSet(a) /\ IsInjective(m2d[p] \o a)
            BY <5>1, <3>1, QueueConcat
          <5> QED BY <5>2, <4>1 DEF a
        <4>4. IsInjective(temp'[p]) /\ ToSet(temp'[p]) = {} BY <4>1, QueueEmpty
        <4> QED BY <4>3, <4>4, <3>1, <3>3, <3>4, <2>2
      <3>6. CASE temp' = [temp EXCEPT ![p] = Append(@, g)] /\ m2d' = m2d
        <4>1. temp'[p] = Append(temp[p], g) /\ m2d'[p] = m2d[p] BY <3>6 DEF TypeOK
        <4>2. IsInjective(temp'[p]) /\ ToSet(temp'[p]) = ToSet(temp[p]) \cup {g} BY <4>1, <3>4
        <4>3. IsInjective(m2d'[p]) /\ ToSet(m2d'[p]) = ToSet(m2d[p]) BY <4>1, <3>1
        <4>4. ToSet(temp'[p]) \cap ToSet(m2d'[p]) = {} BY <4>2, <4>3, <3>1, <3>2
        <4>5. ToSet(temp'[p]) \cup ToSet(m2d'[p]) = {h \in GroupsOf(p) : room[h] = "none"} \cup {g}
          BY <4>2, <4>3, <3>1
        <4> QED BY <4>2, <4>3, <4>4, <4>5, <3>3, <2>2
      <3> QED BY <3>5, <3>6, <1>q
    <2> QED BY <2>1, <2>2
  <1>4. SeatInv'
    BY <1>a, <1>n, <1>p DEF SeatInv, TypeOK
  <1>5. ReportInv'
    <2>1. \A q \in Pids : \A i \in DOMAIN d2m[q] : d2m[q][i].type = "Destroyed" => d2m[q][i].g # g
      BY <1>p DEF ReportInv
    <2>2. \A q \in Pids : \A i \in DOMAIN d2m[q] : d2m[q][i].type = "Destroyed" => d2m[q][i].g \in Groups
      <3> SUFFICES ASSUME NEW q \in Pids, NEW i \in DOMAIN d2m[q], d2m[q][i].type = "Destroyed"
                   PROVE d2m[q][i].g \in Groups
        OBVIOUS
      <3>1. d2m[q][i] \in DediMsgs BY SMTT(30) DEF TypeOK
      <3> QED BY <3>1 DEF DediMsgs
    <2>3. \A h \in Groups : h # g => pid'[h] = pid[h] /\ seats'[h] = seats[h] BY <1>a DEF TypeOK
    <2> SUFFICES ASSUME NEW q \in Pids, NEW i \in DOMAIN d2m[q], d2m[q][i].type = "Destroyed"
                 PROVE  /\ pid'[d2m[q][i].g] = q /\ room[d2m[q][i].g] = "destroyed"
                        /\ d2m[q][i].count = seats'[d2m[q][i].g]
                        /\ \A j \in DOMAIN d2m[q] :
                             d2m[q][j].type = "Destroyed" /\ d2m[q][j].g = d2m[q][i].g => i = j
      BY <1>a DEF ReportInv
    <2> QED BY <2>1, <2>2, <2>3 DEF ReportInv
  <1>6. CountInv'
    <2> SUFFICES ASSUME NEW q \in Pids
                 PROVE  alloc'[q] = Total(size', GroupsOf(q)') - Total(seats', Over(q)')
      BY DEF CountInv
    <2>1. /\ alloc[q] = Total(size, GroupsOf(q)) - Total(seats, Over(q))
          /\ Total(size, GroupsOf(q)) \in Nat /\ Total(seats, Over(q)) \in Nat
      BY GroupSets, PlayersFinite DEF CountInv
    <2>2. Total(seats', Over(q)') = Total(seats, Over(q))
      <3>1. \A x \in Over(q) : seats'[x] = seats[x] BY <1>a, <1>g DEF Over, GroupsOf, TypeOK
      <3>2. Total(seats', Over(q)) = Total(seats, Over(q)) BY <3>1, TotalSame
      <3> QED BY <3>2, <1>g
    <2>3. CASE q # p
      <3>1. \A x \in GroupsOf(q) : size'[x] = size[x] BY <1>a, <1>g DEF GroupsOf, TypeOK
      <3>2. Total(size', GroupsOf(q)) = Total(size, GroupsOf(q)) BY <3>1, TotalSame
      <3> QED BY <2>1, <2>2, <2>3, <3>2, <1>a, <1>g DEF TypeOK
    <2>4. CASE q = p
      <3>1. \A x \in GroupsOf(p) : size'[x] = size[x] BY <1>a, <1>g DEF GroupsOf, TypeOK
      <3>2. size'[g] = n BY <1>a DEF TypeOK
      <3>3. Total(size', GroupsOf(p) \cup {g}) = Total(size, GroupsOf(p)) + n
        <4>1. IsFiniteSet(GroupsOf(p)) /\ g \notin GroupsOf(p) BY <1>g, GroupSets
        <4>2. size'[g] \in 0 .. MaxGroup BY <3>2, <1>n
        <4>3. Total(size', GroupsOf(p) \cup {g}) = Total(size, GroupsOf(p)) + size'[g]
          BY <4>1, <4>2, <3>1, TotalAllocated, Zenon
        <4> QED BY <4>3, <3>2
      <3>4. alloc'[p] = alloc[p] + n BY <1>a DEF TypeOK
      <3>5. Total(size', GroupsOf(p)') = Total(size, GroupsOf(p)) + n BY <3>3, <1>g
      <3> QED BY <2>1, <2>2, <2>4, <3>4, <3>5, <1>n
    <2> QED BY <2>3, <2>4
  <1>7. FreeInv'
    <2> SUFFICES ASSUME NEW q \in Pids
                 PROVE  Len(free'[q]) = Cap - Total(seats', Opened(q)')
      BY DEF FreeInv
    <2>1. \A x \in Opened(q) : seats'[x] = seats[x] BY <1>a, <1>g DEF Opened, GroupsOf, TypeOK
    <2>2. Total(seats', Opened(q)) = Total(seats, Opened(q)) BY <2>1, TotalSame
    <2> QED BY <1>a, <1>g, <2>2 DEF FreeInv
  <1>8. IdsRoute'
    <2>1. ToSet(ids[g]) = {} /\ IsInjective(ids[g]) BY <1>p, QueueEmpty
    <2>2. ASSUME NEW q \in Pids PROVE GroupsOf(q)' \subseteq GroupsOf(q) \cup {g} BY <1>g
    <2> QED BY <1>a, <2>1, <2>2, ZenonT(60) DEF IdsRoute
  <1> QED BY <1>1, <1>2, <1>3, <1>4, <1>5, <1>6, <1>7, <1>8

\* A process reads or writes a message: the groups stay where they are.
LEMMA GroupsStay ==
  ASSUME UNCHANGED pid
  PROVE  Placed' = Placed /\ \A q : GroupsOf(q)' = GroupsOf(q)
  BY DEF Placed, GroupsOf

\* What the open rooms need is covered by what Main counts: the capacity a
\* room gives back was counted in full.
LEMMA CountCovers ==
  ASSUME PoolInv, NEW p \in Pids, NEW S \in SUBSET Running(p)
  PROVE  /\ Total(seats, S) \in Nat /\ Total(seats, S) <= alloc[p]
         /\ Total(seats, S) + Total(seats, Over(p)) <= Total(size, GroupsOf(p))
  <1>1. /\ IsFiniteSet(GroupsOf(p)) /\ IsFiniteSet(Running(p)) /\ IsFiniteSet(Over(p))
        /\ GroupsOf(p) \subseteq Groups
    BY GroupSets
  <1>2. IsFiniteSet(S) BY <1>1, FS_Subset
  <1>3. S \cap Over(p) = {} /\ S \cup Over(p) \subseteq GroupsOf(p) BY DEF Over, Running
  <1>4. Total(seats, S \cup Over(p)) = Total(seats, S) + Total(seats, Over(p))
    BY <1>1, <1>2, <1>3, TotalUnion
  <1>5. \A x \in GroupsOf(p) : seats[x] \in Int /\ size[x] \in Int /\ seats[x] <= size[x]
    BY <1>1, CapAssumption DEF PoolInv, SeatInv, TypeOK
  <1>6. Total(seats, S \cup Over(p)) <= Total(size, GroupsOf(p))
    BY <1>1, <1>3, <1>5, TotalMonotone
  <1>7. Total(seats, S) \in Nat /\ Total(seats, Over(p)) \in Nat /\ Total(size, GroupsOf(p)) \in Nat
    BY <1>1, <1>2, PlayersFinite
  <1>8. alloc[p] = Total(size, GroupsOf(p)) - Total(seats, Over(p)) BY DEF PoolInv, CountInv
  <1> QED BY <1>4, <1>6, <1>7, <1>8

\* A message is read: the reports that are left are still right.
LEMMA ReadStep ==
  ASSUME PoolInv, NEW p \in Pids, d2m[p] # <<>>, d2m' = [d2m EXCEPT ![p] = Tail(@)],
         UNCHANGED <<pid, seats>>,
         \A h \in Groups : room'[h] = room[h] \/ (Head(d2m[p]).type = "Destroyed" /\ Head(d2m[p]).g = h)
  PROVE  d2m' \in [Pids -> Seq(DediMsgs)] /\ ReportInv'
  <1>t. d2m \in [Pids -> Seq(DediMsgs)] BY DEF PoolInv, TypeOK
  <1>1. /\ Tail(d2m[p]) \in Seq(DediMsgs) /\ Len(Tail(d2m[p])) = Len(d2m[p]) - 1
        /\ \A i \in 1 .. Len(d2m[p]) - 1 : Tail(d2m[p])[i] = d2m[p][i + 1]
        /\ Head(d2m[p]) = d2m[p][1] /\ Len(d2m[p]) \in Nat \ {0}
    BY <1>t
  <1> DEFINE t == Tail(d2m[p])
  <1>2. d2m' = [d2m EXCEPT ![p] = t] OBVIOUS
  <1>3. t \in Seq(DediMsgs) BY <1>1
  <1>4. d2m'[p] = t /\ \A q \in Pids \ {p} : d2m'[q] = d2m[q] BY <1>t, <1>2
  <1>i. \A i \in DOMAIN t : i \in 1 .. Len(d2m[p]) - 1 /\ t[i] = d2m[p][i + 1] BY <1>1
  <1> HIDE DEF t
  <1>5. d2m' \in [Pids -> Seq(DediMsgs)] BY <1>t, <1>2, <1>3
  <1>6. ASSUME NEW q \in Pids, NEW i \in DOMAIN d2m'[q], d2m'[q][i].type = "Destroyed"
        PROVE  /\ pid[d2m'[q][i].g] = q /\ room'[d2m'[q][i].g] = "destroyed"
               /\ d2m'[q][i].count = seats[d2m'[q][i].g]
               /\ \A j \in DOMAIN d2m'[q] : d2m'[q][j].type = "Destroyed" /\ d2m'[q][j].g = d2m'[q][i].g => i = j
    <2>0. d2m'[q][i].g \in Groups
      <3>1. d2m'[q][i] \in DediMsgs BY <1>5
      <3> QED BY <3>1, <1>6 DEF DediMsgs
    <2>1. CASE q = p
      <3>1. i \in 1 .. Len(d2m[p]) - 1 /\ d2m'[p][i] = d2m[p][i + 1] BY <1>i, <1>4, <2>1
      <3>2. i + 1 \in DOMAIN d2m[p] /\ 1 \in DOMAIN d2m[p] /\ i + 1 # 1 BY <1>1, <1>t, <3>1
      <3>3. /\ pid[d2m[p][i + 1].g] = p /\ room[d2m[p][i + 1].g] = "destroyed"
            /\ d2m[p][i + 1].count = seats[d2m[p][i + 1].g]
            /\ \A j \in DOMAIN d2m[p] :
                 d2m[p][j].type = "Destroyed" /\ d2m[p][j].g = d2m[p][i + 1].g => i + 1 = j
        BY <1>6, <2>1, <3>1, <3>2 DEF PoolInv, ReportInv
      <3>4. ~ (Head(d2m[p]).type = "Destroyed" /\ Head(d2m[p]).g = d2m[p][i + 1].g) BY <1>1, <3>2, <3>3
      <3>5. room'[d2m[p][i + 1].g] = "destroyed" BY <2>0, <2>1, <3>1, <3>3, <3>4
      <3>6. ASSUME NEW j \in DOMAIN d2m'[p], d2m'[p][j].type = "Destroyed", d2m'[p][j].g = d2m'[p][i].g
            PROVE  i = j
        <4>1. j \in 1 .. Len(d2m[p]) - 1 /\ d2m'[p][j] = d2m[p][j + 1] BY <1>i, <1>4
        <4>2. j + 1 \in DOMAIN d2m[p] BY <1>1, <1>t, <4>1
        <4>3. i + 1 = j + 1 BY <3>1, <3>3, <3>6, <4>1, <4>2
        <4> QED BY <4>1, <4>3, <3>1
      <3> QED BY <2>1, <3>1, <3>3, <3>5, <3>6
    <2>2. CASE q # p
      <3>1. /\ pid[d2m[q][i].g] = q /\ room[d2m[q][i].g] = "destroyed"
            /\ d2m[q][i].count = seats[d2m[q][i].g]
            /\ \A j \in DOMAIN d2m[q] : d2m[q][j].type = "Destroyed" /\ d2m[q][j].g = d2m[q][i].g => i = j
        BY <1>4, <1>6, <2>2 DEF PoolInv, ReportInv
      <3>2. Head(d2m[p]).type = "Destroyed" => pid[Head(d2m[p]).g] = p
        <4>1. 1 \in DOMAIN d2m[p] BY <1>1, <1>t
        <4> QED BY <1>1, <4>1 DEF PoolInv, ReportInv
      <3>3. room'[d2m[q][i].g] = room[d2m[q][i].g] BY <2>0, <2>2, <3>1, <3>2, <1>4
      <3> QED BY <1>4, <2>2, <3>1, <3>3
    <2> QED BY <2>1, <2>2
  <1>7. ReportInv' BY <1>6 DEF ReportInv
  <1> QED BY <1>5, <1>7

LEMMA FinalizeStep ==
  ASSUME PoolInv, NEW p \in Pids, FinalizeConnection(p)
  PROVE  PoolInv'
  <1> USE DEF PoolInv
  <1>a. /\ session[p] = "Initializing" /\ session' = [session EXCEPT ![p] = "Ready"]
        /\ d2m[p] # <<>> /\ d2m' = [d2m EXCEPT ![p] = Tail(@)]
        /\ UNCHANGED <<alloc, temp, pid, size, seats, ids, free, slots, room, m2d>>
    BY DEF FinalizeConnection, childVars
  <1>g. Placed' = Placed /\ \A q : GroupsOf(q)' = GroupsOf(q) BY <1>a, GroupsStay
  <1>o. \A q : Over(q)' = Over(q) /\ Opened(q)' = Opened(q) BY <1>a, <1>g DEF Over, Running, Opened
  <1>1. d2m' \in [Pids -> Seq(DediMsgs)] /\ ReportInv' BY <1>a, ReadStep
  <1>2. TypeOK' BY <1>a, <1>1 DEF TypeOK
  <1>3. IdleInv' BY <1>a, <1>g DEF IdleInv, TypeOK
  <1>4. QueueInv' BY <1>a, <1>g DEF QueueInv
  <1>5. SeatInv' BY <1>a DEF SeatInv
  <1>6. CountInv' /\ FreeInv' BY <1>a, <1>g, <1>o DEF CountInv, FreeInv
  <1>7. IdsRoute' BY <1>a, <1>g DEF IdsRoute
  <1> QED BY <1>1, <1>2, <1>3, <1>4, <1>5, <1>6, <1>7

\* The clamp of ReleasePlayers is never reached.
LEMMA ReleaseStep ==
  ASSUME PoolInv, NEW p \in Pids, NotifyRoomDestroyed(p)
  PROVE  PoolInv'
  <1> USE DEF PoolInv
  <1> DEFINE g == Head(d2m[p]).g
  <1>a. /\ d2m[p] # <<>> /\ Head(d2m[p]).type = "Destroyed"
        /\ d2m' = [d2m EXCEPT ![p] = Tail(@)] /\ room' = [room EXCEPT ![g] = "back"]
        /\ alloc' = [alloc EXCEPT ![p] = IF @ - Head(d2m[p]).count < 0 THEN 0 ELSE @ - Head(d2m[p]).count]
        /\ UNCHANGED <<session, temp, pid, size, seats, ids, free, slots, m2d>>
    BY DEF NotifyRoomDestroyed, ReleasePlayers, childVars
  <1>m. g \in Groups /\ pid[g] = p /\ room[g] = "destroyed" /\ Head(d2m[p]).count = seats[g]
    <2>1. d2m[p] \in Seq(DediMsgs) BY DEF TypeOK
    <2>2. 1 \in DOMAIN d2m[p] /\ Head(d2m[p]) = d2m[p][1] /\ Head(d2m[p]) \in DediMsgs BY <1>a, <2>1
    <2>3. g \in Groups BY <1>a, <2>2 DEF DediMsgs
    <2> QED BY <1>a, <2>2, <2>3 DEF ReportInv
  <1> HIDE DEF g
  <1>r. room'[g] = "back" /\ \A h \in Groups \ {g} : room'[h] = room[h] BY <1>a, <1>m DEF TypeOK
  <1>g. Placed' = Placed /\ \A q : GroupsOf(q)' = GroupsOf(q) BY <1>a, GroupsStay
  <1>o. /\ \A q \in Pids : Opened(q)' = Opened(q)
        /\ \A q \in Pids : {h \in GroupsOf(q)' : room'[h] = "none"} = {h \in GroupsOf(q) : room[h] = "none"}
        /\ \A q \in Pids \ {p} : Over(q)' = Over(q)
        /\ Over(p)' = Over(p) \cup {g} /\ g \notin Over(p) /\ g \in Running(p)
    BY <1>g, <1>r, <1>m DEF Over, Running, Opened, GroupsOf
  <1>t. /\ Total(seats, Over(p) \cup {g}) = Total(seats, Over(p)) + seats[g]
        /\ Total(seats, Over(p)) \in Nat /\ Total(size, GroupsOf(p)) \in Nat
        /\ seats[g] \in Nat
        /\ seats[g] <= alloc[p]
    <2>1. IsFiniteSet(Over(p)) /\ IsFiniteSet(GroupsOf(p)) BY GroupSets
    <2>2. seats[g] \in 0 .. MaxGroup BY <1>m DEF TypeOK
    <2>3. Total(seats, Over(p) \cup {g}) = Total(seats, Over(p)) + seats[g]
      BY <1>o, <2>1, <2>2, TotalAdd, Zenon
    <2>4. Total(seats, {} \cup {g}) = Total(seats, {}) + seats[g] BY <2>2, FS_EmptySet, TotalAdd, Zenon
    <2>5. Total(seats, {g}) = seats[g]
      <3>1. {} \cup {g} = {g} OBVIOUS
      <3> QED BY <2>2, <2>4, <3>1, TotalEmpty, CapAssumption
    <2>6. Total(seats, {g}) <= alloc[p] BY <1>o, CountCovers
    <2> QED BY <2>1, <2>2, <2>3, <2>5, <2>6, PlayersFinite, CapAssumption
  <1>c. alloc'[p] = alloc[p] - seats[g] /\ alloc' = [alloc EXCEPT ![p] = alloc[p] - seats[g]] /\ alloc[p] - seats[g] \in 0 .. Cap
    <2>1. alloc[p] \in 0 .. Cap /\ alloc \in [Pids -> 0 .. Cap] BY DEF TypeOK
    <2>2. (IF alloc[p] - seats[g] < 0 THEN 0 ELSE alloc[p] - seats[g]) = alloc[p] - seats[g]
      BY <1>t, <2>1, CapAssumption
    <2>3. alloc' = [alloc EXCEPT ![p] = alloc[p] - seats[g]]
      <3>1. alloc' = [alloc EXCEPT ![p] = IF alloc[p] - seats[g] < 0 THEN 0 ELSE alloc[p] - seats[g]]
        BY <1>a, <1>m
      <3> QED BY <3>1, <2>2
    <2>4. alloc[p] - seats[g] \in 0 .. Cap BY <1>t, <2>1, CapAssumption
    <2> QED BY <2>1, <2>3, <2>4
  <1>1. d2m' \in [Pids -> Seq(DediMsgs)] /\ ReportInv' BY <1>a, <1>r, ReadStep DEF g
  <1>2. TypeOK'
    <2>1. alloc' \in [Pids -> 0 .. Cap] BY <1>c DEF TypeOK
    <2>2. room' \in [Groups -> {"none", "open", "destroyed", "back"}] BY <1>a DEF TypeOK
    <2> QED BY <1>a, <1>1, <2>1, <2>2 DEF TypeOK
  <1>3. IdleInv'
    <2>1. \A h \in Groups : pid'[h] = NoPid => room'[h] = "none"
      BY <1>a, <1>m, <1>r, PidAssumption DEF IdleInv
    <2>2. alloc[p] = 0 => alloc'[p] = 0 BY <1>c, <1>t, CapAssumption, SMTT(30) DEF TypeOK
    <2>3. \A q \in Pids : session'[q] = "None" => alloc'[q] = 0 BY <1>a, <1>c, <2>2 DEF IdleInv, TypeOK
    <2> QED BY <1>g, <2>1, <2>3 DEF IdleInv
  <1>4. QueueInv' BY <1>a, <1>o DEF QueueInv
  <1>5. SeatInv' BY <1>a, <1>m, <1>r DEF SeatInv
  <1>6. CountInv'
    <2>1. ASSUME NEW q \in Pids PROVE alloc'[q] = Total(size', GroupsOf(q)') - Total(seats', Over(q)')
      <3>1. CASE q = p
        <4>1. alloc[p] = Total(size, GroupsOf(p)) - Total(seats, Over(p)) BY DEF CountInv
        <4>2. Total(seats', Over(p)') = Total(seats, Over(p)) + seats[g] BY <1>a, <1>o, <1>t
        <4>3. Total(size', GroupsOf(p)') = Total(size, GroupsOf(p)) BY <1>a, <1>g
        <4> QED BY <3>1, <4>1, <4>2, <4>3, <1>c, <1>t
      <3>2. CASE q # p
        <4>1. alloc'[q] = alloc[q] BY <3>2, <1>c DEF TypeOK
        <4> QED BY <3>2, <4>1, <1>a, <1>g, <1>o DEF CountInv
      <3> QED BY <3>1, <3>2
    <2> QED BY <2>1 DEF CountInv
  <1>7. FreeInv' BY <1>a, <1>o DEF FreeInv
  <1>8. IdsRoute' BY <1>a, <1>g DEF IdsRoute
  <1> QED BY <1>1, <1>2, <1>3, <1>4, <1>5, <1>6, <1>7, <1>8

\* The ids prepared in the constructor suffice.
LEMMA FreeSuffice ==
  ASSUME PoolInv, NEW p \in Pids, NEW g \in Running(p), g \notin Opened(p)
  PROVE  /\ seats[g] \in 0 .. Len(free[p])
         /\ Total(seats, Opened(p) \cup {g}) = Total(seats, Opened(p)) + seats[g]
         /\ Total(seats, Opened(p)) \in Nat
  <1>1. IsFiniteSet(Opened(p)) /\ Opened(p) \subseteq Running(p) /\ Running(p) \subseteq Groups
    BY GroupSets
  <1>2. seats[g] \in 0 .. MaxGroup BY <1>1 DEF PoolInv, TypeOK
  <1>3. Total(seats, Opened(p) \cup {g}) = Total(seats, Opened(p)) + seats[g]
    BY <1>1, <1>2, TotalAdd, Zenon
  <1>4. Total(seats, Opened(p)) \in Nat BY <1>1, PlayersFinite
  <1>5. Total(seats, Opened(p) \cup {g}) <= alloc[p] BY <1>1, CountCovers
  <1>6. alloc[p] \in 0 .. Cap BY DEF PoolInv, TypeOK
  <1>7. Len(free[p]) = Cap - Total(seats, Opened(p)) BY DEF PoolInv, FreeInv
  <1> QED BY <1>2, <1>3, <1>4, <1>5, <1>6, <1>7, CapAssumption

\* The ids of one room and the free ids of its process change; the ids of its
\* other rooms are apart from both.
LEMMA IdsStep ==
  ASSUME PoolInv, NEW p \in Pids, NEW g \in GroupsOf(p), NEW a \in Seq(Nat), NEW b \in Seq(Nat),
         UNCHANGED <<pid, slots>>, ids' = [ids EXCEPT ![g] = a], free' = [free EXCEPT ![p] = b],
         IsInjective(a), IsInjective(b), ToSet(a) \cap ToSet(b) = {},
         ToSet(a) \cup ToSet(b) = ToSet(ids[g]) \cup ToSet(free[p])
  PROVE  IdsRoute'
  <1>g. \A q : GroupsOf(q)' = GroupsOf(q) BY GroupsStay
  <1>t. /\ ids \in [Groups -> Seq(Nat)] /\ free \in [Pids -> Seq(Nat)] /\ GroupsOf(p) \subseteq Groups
        /\ \A q \in Pids \ {p} : g \notin GroupsOf(q)
    BY DEF PoolInv, TypeOK, GroupsOf
  <1>i. /\ ids'[g] = a /\ free'[p] = b
        /\ \A h \in Groups \ {g} : ids'[h] = ids[h]
        /\ \A q \in Pids \ {p} : free'[q] = free[q]
    BY <1>t
  <1>s. \A q \in Pids : GroupsOf(q) \subseteq Groups BY DEF GroupsOf
  <1>1. \A h \in GroupsOf(p) \ {g} : /\ IsInjective(ids[h]) /\ ToSet(ids[h]) \cap ToSet(free[p]) = {}
                                     /\ ToSet(ids[h]) \cap ToSet(ids[g]) = {}
    BY DEF PoolInv, IdsRoute
  <1>2. \A h \in GroupsOf(p) \ {g} : ToSet(ids[h]) \cap ToSet(a) = {} /\ ToSet(ids[h]) \cap ToSet(b) = {}
    BY <1>1
  <1> SUFFICES ASSUME NEW q \in Pids
               PROVE  /\ \A h \in GroupsOf(q) : IsInjective(ids'[h]) /\ ToSet(ids'[h]) \cap ToSet(free'[q]) = {}
                      /\ \A h, k \in GroupsOf(q) : h # k => ToSet(ids'[h]) \cap ToSet(ids'[k]) = {}
                      /\ IsInjective(free'[q])
                      /\ slots'[q] = Cap + 1
    BY <1>g, ZenonT(60) DEF IdsRoute
  <1>3. CASE q # p
    <2>1. free'[q] = free[q] /\ \A h \in GroupsOf(q) : ids'[h] = ids[h] BY <1>3, <1>i, <1>t, <1>s
    <2> QED BY <2>1 DEF PoolInv, IdsRoute
  <1>4. CASE q = p
    <2>1. \A h \in GroupsOf(p) : IsInjective(ids'[h]) /\ ToSet(ids'[h]) \cap ToSet(free'[p]) = {}
      BY <1>1, <1>2, <1>i, <1>t
    <2>2. ASSUME NEW h \in GroupsOf(p), NEW k \in GroupsOf(p), h # k
          PROVE  ToSet(ids'[h]) \cap ToSet(ids'[k]) = {}
      <3>1. CASE h # g /\ k # g
        <4>1. ids'[h] = ids[h] /\ ids'[k] = ids[k] BY <3>1, <1>i, <1>s
        <4> QED BY <4>1, <2>2 DEF PoolInv, IdsRoute
      <3>2. CASE h = g BY <3>2, <2>2, <1>2, <1>i, <1>s
      <3>3. CASE k = g BY <3>3, <2>2, <1>2, <1>i, <1>s
      <3> QED BY <3>1, <3>2, <3>3
    <2>3. slots'[p] = Cap + 1 BY DEF PoolInv, IdsRoute
    <2> QED BY <1>4, <1>i, <2>1, <2>2, <2>3
  <1> QED BY <1>3, <1>4

LEMMA FreeStep ==
  ASSUME FreeInv, NEW p \in Pids, UNCHANGED seats,
         Len(free'[p]) = Cap - Total(seats, Opened(p)'),
         \A q \in Pids \ {p} : free'[q] = free[q] /\ Opened(q)' = Opened(q)
  PROVE  FreeInv'
  <1> SUFFICES ASSUME NEW q \in Pids PROVE Len(free'[q]) = Cap - Total(seats', Opened(q)')
    BY DEF FreeInv
  <1>1. CASE q = p BY <1>1
  <1>2. CASE q # p BY <1>2 DEF FreeInv
  <1> QED BY <1>1, <1>2

LEMMA MakeRoomStep ==
  ASSUME PoolInv, NEW p \in Pids, MakeRoomForThisGroup(p)
  PROVE  PoolInv'
  <1> USE DEF PoolInv
  <1> DEFINE g == Head(m2d[p])
             n == seats[g]
             a == SubSeq(free[p], 1, n)
             b == SubSeq(free[p], n + 1, Len(free[p]))
  <1>m. m2d[p] # <<>> /\ m2d[p] \in Seq(Groups) /\ IsInjective(m2d[p]) BY DEF MakeRoomForThisGroup, QueueInv, TypeOK
  <1>t. /\ Tail(m2d[p]) \in Seq(Groups) /\ IsInjective(Tail(m2d[p]))
        /\ ToSet(Tail(m2d[p])) = ToSet(m2d[p]) \ {g}
    BY <1>m, QueueTail
  <1>h. g \in ToSet(m2d[p]) BY <1>m, QueueHead
  <1>r. g \in Groups /\ pid[g] = p /\ room[g] = "none" /\ ids[g] = <<>>
    <2>1. g \in Groups /\ pid[g] = p /\ room[g] = "none" BY <1>h DEF QueueInv, GroupsOf
    <2>2. Len(ids[g]) = 0 /\ ids[g] \in Seq(Nat) BY <2>1 DEF SeatInv, TypeOK
    <2> QED BY <2>1, <2>2
  <1>n. /\ n \in 0 .. Len(free[p])
        /\ Total(seats, Opened(p) \cup {g}) = Total(seats, Opened(p)) + n
        /\ Total(seats, Opened(p)) \in Nat
    <2>1. g \in Running(p) /\ g \notin Opened(p) BY <1>r DEF Running, Opened, GroupsOf
    <2> QED BY <2>1, FreeSuffice
  <1>f. free[p] \in Seq(Nat) /\ IsInjective(free[p]) BY DEF TypeOK, IdsRoute
  <1>s. /\ a \in Seq(Nat) /\ Len(a) = n /\ IsInjective(a)
        /\ b \in Seq(Nat) /\ Len(b) = Len(free[p]) - n /\ IsInjective(b)
        /\ ToSet(a) \cap ToSet(b) = {} /\ ToSet(a) \cup ToSet(b) = ToSet(free[p])
    BY <1>f, <1>n, QueueSplit
  <1>i. Fresh(p, n) = n /\ GetFreeSessionIds(p, n) = a
    <2>1. Len(free[p]) \in Nat BY <1>f
    <2>2. Fresh(p, n) = n BY <1>n, <2>1 DEF Fresh
    <2>3. [i \in 1 .. n - n |-> slots[p] + i - 1] = <<>> BY <1>n, <2>1
    <2>4. GetFreeSessionIds(p, n) = a \o [i \in 1 .. n - n |-> slots[p] + i - 1] BY <2>2 DEF GetFreeSessionIds
    <2> HIDE DEF a, n
    <2>5. a \o <<>> = a BY <1>s
    <2> QED BY <2>2, <2>3, <2>4, <2>5
  <1>a. /\ ids' = [ids EXCEPT ![g] = a] /\ free' = [free EXCEPT ![p] = b]
        /\ room' = [room EXCEPT ![g] = "open"] /\ m2d' = [m2d EXCEPT ![p] = Tail(m2d[p])]
        /\ slots' = [slots EXCEPT ![p] = @ + n - n]
        /\ UNCHANGED <<session, alloc, temp, pid, size, seats, d2m>>
    BY <1>i DEF MakeRoomForThisGroup, mainVars
  <1>l. UNCHANGED slots
    <2>1. slots[p] + n - n = slots[p] BY <1>n, <1>f DEF TypeOK
    <2> QED BY <1>a, <2>1 DEF TypeOK
  <1> HIDE DEF g, n, a, b
  <1>g. Placed' = Placed /\ \A q : GroupsOf(q)' = GroupsOf(q) BY <1>a, GroupsStay
  <1>v. /\ room'[g] = "open" /\ \A h \in Groups \ {g} : room'[h] = room[h]
        /\ ids'[g] = a /\ \A h \in Groups \ {g} : ids'[h] = ids[h]
        /\ m2d'[p] = Tail(m2d[p]) /\ \A q \in Pids \ {p} : m2d'[q] = m2d[q]
        /\ free'[p] = b /\ \A q \in Pids \ {p} : free'[q] = free[q]
    BY <1>a, <1>r DEF TypeOK
  <1>o. /\ Opened(p)' = Opened(p) \cup {g}
        /\ \A q \in Pids \ {p} : Opened(q)' = Opened(q)
        /\ \A q \in Pids : Over(q)' = Over(q)
        /\ {h \in GroupsOf(p)' : room'[h] = "none"} = {h \in GroupsOf(p) : room[h] = "none"} \ {g}
        /\ \A q \in Pids \ {p} :
             {h \in GroupsOf(q)' : room'[h] = "none"} = {h \in GroupsOf(q) : room[h] = "none"}
    <2>1. g \in GroupsOf(p) /\ \A q \in Pids \ {p} : g \notin GroupsOf(q) BY <1>r DEF GroupsOf
    <2>2. \A q : GroupsOf(q) \subseteq Groups BY DEF GroupsOf
    <2>3. Opened(p)' = Opened(p) \cup {g} BY <1>g, <1>v, <2>1, <2>2 DEF Opened
    <2>4. \A q \in Pids \ {p} : Opened(q)' = Opened(q) BY <1>g, <1>v, <2>1, <2>2 DEF Opened
    <2>5. \A q \in Pids : Over(q)' = Over(q) BY <1>g, <1>v, <1>r, <2>2 DEF Over, Running
    <2>6. {h \in GroupsOf(p)' : room'[h] = "none"} = {h \in GroupsOf(p) : room[h] = "none"} \ {g}
      BY <1>g, <1>v, <2>2
    <2>7. \A q \in Pids \ {p} :
            {h \in GroupsOf(q)' : room'[h] = "none"} = {h \in GroupsOf(q) : room[h] = "none"}
      BY <1>g, <1>v, <2>1, <2>2
    <2> QED BY <2>3, <2>4, <2>5, <2>6, <2>7
  <1>1. TypeOK'
    <2>1. ids' \in [Groups -> Seq(Nat)] BY <1>a, <1>s DEF TypeOK
    <2>2. free' \in [Pids -> Seq(Nat)] BY <1>a, <1>s DEF TypeOK
    <2>3. m2d' \in [Pids -> Seq(Groups)] BY <1>a, <1>t DEF TypeOK
    <2>4. room' \in [Groups -> {"none", "open", "destroyed", "back"}] BY <1>a DEF TypeOK
    <2> QED BY <1>a, <1>l, <2>1, <2>2, <2>3, <2>4 DEF TypeOK
  <1>2. IdleInv'
    BY <1>a, <1>g, <1>r, <1>v, PidAssumption DEF IdleInv
  <1>3. QueueInv'
    <2> SUFFICES ASSUME NEW q \in Pids
                 PROVE  /\ IsInjective(temp[q]) /\ IsInjective(m2d'[q])
                        /\ ToSet(temp[q]) \cap ToSet(m2d'[q]) = {}
                        /\ ToSet(temp[q]) \cup ToSet(m2d'[q]) = {h \in GroupsOf(q)' : room'[h] = "none"}
      BY <1>a DEF QueueInv
    <2>1. CASE q # p BY <2>1, <1>v, <1>o DEF QueueInv
    <2>2. CASE q = p
      <3>1. /\ IsInjective(temp[p]) /\ ToSet(temp[p]) \cap ToSet(m2d[p]) = {}
            /\ ToSet(temp[p]) \cup ToSet(m2d[p]) = {h \in GroupsOf(p) : room[h] = "none"}
        BY DEF QueueInv
      <3>2. g \notin ToSet(temp[p]) BY <3>1, <1>h DEF g
      <3>3. ToSet(m2d'[p]) = ToSet(m2d[p]) \ {g} /\ IsInjective(m2d'[p]) BY <1>t, <1>v DEF g
      <3> QED BY <2>2, <3>1, <3>2, <3>3, <1>o
    <2> QED BY <2>1, <2>2
  <1>4. SeatInv' BY <1>a, <1>s, <1>r, <1>v DEF SeatInv, n
  <1>5. ReportInv'
    <2>1. \A q \in Pids : \A i \in DOMAIN d2m[q] : d2m[q][i].type = "Destroyed" => d2m[q][i].g # g
      BY <1>r DEF ReportInv
    <2>2. \A q \in Pids : \A i \in DOMAIN d2m[q] : d2m[q][i].type = "Destroyed" => d2m[q][i].g \in Groups
      <3> SUFFICES ASSUME NEW q \in Pids, NEW i \in DOMAIN d2m[q], d2m[q][i].type = "Destroyed"
                   PROVE d2m[q][i].g \in Groups
        OBVIOUS
      <3>1. d2m[q][i] \in DediMsgs BY DEF TypeOK
      <3> QED BY <3>1 DEF DediMsgs
    <2> QED BY <2>1, <2>2, <1>a, <1>v DEF ReportInv
  <1>6. CountInv' BY <1>a, <1>g, <1>o DEF CountInv
  <1>7. FreeInv'
    <2>1. Len(free[p]) = Cap - Total(seats, Opened(p)) BY DEF FreeInv
    <2>2. Len(free'[p]) = Len(free[p]) - n BY <1>v, <1>s
    <2>3. Len(free[p]) \in Nat /\ n \in Nat BY <1>f, <1>n
    <2>4. Len(free'[p]) = Cap - Total(seats, Opened(p) \cup {g})
      BY <1>n, <2>1, <2>2, <2>3, CapAssumption
    <2> QED BY <2>4, <1>a, <1>v, <1>o, FreeStep
  <1>8. IdsRoute'
    <2>1. g \in GroupsOf(p) BY <1>r DEF GroupsOf
    <2>2. ToSet(a) \cup ToSet(b) = ToSet(ids[g]) \cup ToSet(free[p]) BY <1>s, <1>r, QueueEmpty
    <2> QED BY <2>1, <2>2, <1>a, <1>l, <1>s, IdsStep
  <1> QED BY <1>1, <1>2, <1>3, <1>4, <1>5, <1>6, <1>7, <1>8

LEMMA DestroyStep ==
  ASSUME PoolInv, NEW p \in Pids, NEW g \in Groups, DestroyRoom(p, g)
  PROVE  PoolInv'
  <1> USE DEF PoolInv
  <1> DEFINE m == [type |-> "Destroyed", g |-> g, count |-> Len(ids[g])]
             b == free[p] \o ids[g]
             d == Append(d2m[p], m)
  <1>a. /\ pid[g] = p /\ room[g] = "open"
        /\ d2m' = [d2m EXCEPT ![p] = d] /\ free' = [free EXCEPT ![p] = b]
        /\ ids' = [ids EXCEPT ![g] = <<>>] /\ room' = [room EXCEPT ![g] = "destroyed"]
        /\ UNCHANGED <<session, alloc, temp, pid, size, seats, slots, m2d>>
    BY DEF DestroyRoom, mainVars, Returned
  <1>c. Len(ids[g]) = seats[g] /\ seats[g] \in Nat BY <1>a, CapAssumption DEF SeatInv, TypeOK
  <1>m. m \in DediMsgs /\ m.type = "Destroyed" /\ m.g = g /\ m.count = seats[g] BY <1>c DEF DediMsgs
  <1>b. /\ b \in Seq(Nat) /\ Len(b) = Len(free[p]) + Len(ids[g]) /\ IsInjective(b)
        /\ ToSet(b) = ToSet(free[p]) \cup ToSet(ids[g])
    <2>1. g \in GroupsOf(p) BY <1>a DEF GroupsOf
    <2>2. /\ free[p] \in Seq(Nat) /\ ids[g] \in Seq(Nat) /\ IsInjective(free[p]) /\ IsInjective(ids[g])
          /\ ToSet(free[p]) \cap ToSet(ids[g]) = {}
      BY <2>1 DEF TypeOK, IdsRoute
    <2> QED BY <2>2, QueueConcat
  <1>d. /\ d \in Seq(DediMsgs) /\ Len(d) = Len(d2m[p]) + 1 /\ d[Len(d)] = m
        /\ \A i \in DOMAIN d : i = Len(d) \/ (i \in DOMAIN d2m[p] /\ d[i] = d2m[p][i])
    <2> HIDE DEF m
    <2>1. d2m[p] \in Seq(DediMsgs) BY DEF TypeOK
    <2> QED BY <1>m, <2>1
  <1> HIDE DEF m, b, d
  <1>g. Placed' = Placed /\ \A q : GroupsOf(q)' = GroupsOf(q) BY <1>a, GroupsStay
  <1>v. /\ room'[g] = "destroyed" /\ \A h \in Groups \ {g} : room'[h] = room[h]
        /\ ids'[g] = <<>> /\ \A h \in Groups \ {g} : ids'[h] = ids[h]
        /\ free'[p] = b /\ \A q \in Pids \ {p} : free'[q] = free[q]
        /\ d2m'[p] = d /\ \A q \in Pids \ {p} : d2m'[q] = d2m[q]
    BY <1>a DEF TypeOK
  <1>o. /\ Opened(p)' = Opened(p) \ {g} /\ g \in Opened(p)
        /\ \A q \in Pids \ {p} : Opened(q)' = Opened(q)
        /\ \A q \in Pids : Over(q)' = Over(q)
        /\ \A q \in Pids : {h \in GroupsOf(q)' : room'[h] = "none"} = {h \in GroupsOf(q) : room[h] = "none"}
    BY <1>g, <1>v, <1>a DEF Over, Running, Opened, GroupsOf
  <1>1. TypeOK'
    <2>1. ids' \in [Groups -> Seq(Nat)] BY <1>a DEF TypeOK
    <2>2. free' \in [Pids -> Seq(Nat)] BY <1>a, <1>b DEF TypeOK
    <2>3. d2m' \in [Pids -> Seq(DediMsgs)] BY <1>a, <1>d DEF TypeOK
    <2>4. room' \in [Groups -> {"none", "open", "destroyed", "back"}] BY <1>a DEF TypeOK
    <2> QED BY <1>a, <2>1, <2>2, <2>3, <2>4 DEF TypeOK
  <1>2. IdleInv'
    BY <1>a, <1>g, <1>v, PidAssumption DEF IdleInv
  <1>3. QueueInv' BY <1>a, <1>o DEF QueueInv
  <1>4. SeatInv' BY <1>a, <1>v DEF SeatInv
  <1>5. ReportInv'
    <2>1. \A q \in Pids : \A i \in DOMAIN d2m[q] : d2m[q][i].type = "Destroyed" => d2m[q][i].g # g
      BY <1>a DEF ReportInv
    <2>2. \A q \in Pids : \A i \in DOMAIN d2m[q] : d2m[q][i].type = "Destroyed" => d2m[q][i].g \in Groups
      <3> SUFFICES ASSUME NEW q \in Pids, NEW i \in DOMAIN d2m[q], d2m[q][i].type = "Destroyed"
                   PROVE d2m[q][i].g \in Groups
        OBVIOUS
      <3>1. d2m[q][i] \in DediMsgs BY SMTT(30) DEF TypeOK
      <3> QED BY <3>1 DEF DediMsgs
    <2>3. ASSUME NEW q \in Pids, NEW i \in DOMAIN d2m'[q], d2m'[q][i].type = "Destroyed"
          PROVE  /\ pid[d2m'[q][i].g] = q /\ room'[d2m'[q][i].g] = "destroyed"
                 /\ d2m'[q][i].count = seats[d2m'[q][i].g]
                 /\ \A j \in DOMAIN d2m'[q] : d2m'[q][j].type = "Destroyed" /\ d2m'[q][j].g = d2m'[q][i].g => i = j
      <3>1. CASE q # p BY <3>1, <2>1, <2>2, <2>3, <1>v DEF ReportInv
      <3>2. CASE q = p /\ i = Len(d)
        <4>1. d2m'[q][i] = m BY <3>2, <1>v, <1>d
        <4>2. ASSUME NEW j \in DOMAIN d, d[j].type = "Destroyed", d[j].g = g PROVE j = Len(d)
          BY <4>2, <1>d, <2>1
        <4> QED BY <4>1, <4>2, <3>2, <1>v, <1>m, <1>a
      <3>3. CASE q = p /\ i # Len(d)
        <4>1. i \in DOMAIN d2m[p] /\ d2m'[q][i] = d2m[p][i] BY <3>3, <1>v, <1>d
        <4>2. d2m[p][i].g # g /\ d2m[p][i].g \in Groups BY <4>1, <2>1, <2>2, <2>3
        <4>3. ASSUME NEW j \in DOMAIN d, d[j].type = "Destroyed", d[j].g = d2m[p][i].g PROVE i = j
          <5>1. j # Len(d) BY <4>2, <4>3, <1>d, <1>m
          <5>2. j \in DOMAIN d2m[p] /\ d[j] = d2m[p][j] BY <5>1, <1>d
          <5> QED BY <4>1, <4>3, <5>2, <2>3 DEF ReportInv
        <4> QED BY <4>1, <4>2, <4>3, <3>3, <2>3, <1>v DEF ReportInv
      <3> QED BY <3>1, <3>2, <3>3
    <2> QED BY <2>3, <1>a DEF ReportInv
  <1>6. CountInv' BY <1>a, <1>g, <1>o DEF CountInv
  <1>7. FreeInv'
    <2>1. IsFiniteSet(Opened(p) \ {g}) BY GroupSets, FS_Subset
    <2>2. seats[g] \in 0 .. MaxGroup BY DEF TypeOK
    <2>3. Total(seats, (Opened(p) \ {g}) \cup {g}) = Total(seats, Opened(p) \ {g}) + seats[g]
      BY <2>1, <2>2, TotalAdd
    <2>4. (Opened(p) \ {g}) \cup {g} = Opened(p) BY <1>o
    <2>5. Total(seats, Opened(p) \ {g}) \in Nat BY <2>1, PlayersFinite
    <2>6. Len(free[p]) = Cap - Total(seats, Opened(p)) BY DEF FreeInv
    <2>7. Total(seats, Opened(p)) = Total(seats, Opened(p) \ {g}) + seats[g] BY <2>3, <2>4
    <2>8. Len(free'[p]) = Len(free[p]) + seats[g] BY <1>v, <1>b, <1>c
    <2>9. Len(free'[p]) = Cap - Total(seats, Opened(p) \ {g})
      BY <2>5, <2>6, <2>7, <2>8, <1>c, CapAssumption
    <2> QED BY <2>9, <1>a, <1>v, <1>o, FreeStep
  <1>8. IdsRoute'
    <2>1. g \in GroupsOf(p) BY <1>a DEF GroupsOf
    <2>2. <<>> \in Seq(Nat) /\ IsInjective(<<>>) /\ ToSet(<<>>) = {} BY QueueEmpty
    <2>3. ToSet(<<>>) \cup ToSet(b) = ToSet(ids[g]) \cup ToSet(free[p]) BY <1>b, <2>2
    <2>4. ToSet(<<>>) \cap ToSet(b) = {} BY <2>2
    <2> QED BY <2>1, <2>2, <2>3, <2>4, <1>a, <1>b, IdsStep
  <1> QED BY <1>1, <1>2, <1>3, <1>4, <1>5, <1>6, <1>7, <1>8
-----------------------------------------------------------------------------
(* The results.                                                            *)

LEMMA PoolInit == Init => PoolInv
  <1> SUFFICES ASSUME Init PROVE PoolInv OBVIOUS
  <1>i. /\ alloc = [p \in Pids |-> 0] /\ temp = [p \in Pids |-> <<>>] /\ m2d = [p \in Pids |-> <<>>]
        /\ d2m = [p \in Pids |-> <<[type |-> "Init"]>>]
        /\ pid = [g \in Groups |-> NoPid]
        /\ size = [g \in Groups |-> 0] /\ seats = [g \in Groups |-> 0]
        /\ room = [g \in Groups |-> "none"] /\ ids = [g \in Groups |-> <<>>]
        /\ free = [p \in Pids |-> [i \in 1 .. Cap |-> i - 1]]
        /\ slots = [p \in Pids |-> Cap + 1]
    BY DEF Init
  <1>s. session \in [Pids -> {"None", "Initializing", "Ready"}] BY DEF Init
  <1> DEFINE q0 == [i \in 1 .. Cap |-> i - 1]
  <1>q. q0 \in Seq(Nat) /\ Len(q0) = Cap /\ IsInjective(q0)
    <2>1. q0 \in [1 .. Cap -> Nat] /\ Cap \in Nat BY CapAssumption
    <2>2. q0 \in Seq(Nat) /\ Len(q0) = Cap BY <2>1
    <2>3. IsInjective(q0) BY CapAssumption DEF IsInjective
    <2> QED BY <2>2, <2>3
  <1> HIDE DEF q0
  <1>e. \A p \in Pids : GroupsOf(p) = {} /\ Over(p) = {} /\ Opened(p) = {}
    BY <1>i, PidAssumption DEF GroupsOf, Over, Opened, Running
  <1>1. TypeOK
    <2>1. free \in [Pids -> Seq(Nat)] BY <1>i, <1>q DEF q0
    <2>2. d2m \in [Pids -> Seq(DediMsgs)]
      <3>1. [type |-> "Init"] \in DediMsgs BY DEF DediMsgs
      <3> QED BY <1>i, <3>1
    <2>3. ids \in [Groups -> Seq(Nat)] /\ temp \in [Pids -> Seq(Groups)] /\ m2d \in [Pids -> Seq(Groups)]
      BY <1>i
    <2> QED BY <1>i, <1>s, <2>1, <2>2, <2>3, CapAssumption DEF TypeOK
  <1>2. IdleInv
    <2>1. Placed = {} BY <1>i DEF Placed
    <2> QED BY <1>i, <2>1, FS_EmptySet DEF IdleInv
  <1>3. QueueInv BY <1>i, <1>e, QueueEmpty DEF QueueInv
  <1>4. SeatInv BY <1>i DEF SeatInv
  <1>5. ReportInv BY <1>i DEF ReportInv
  <1>6. CountInv
    <2>1. ASSUME NEW p \in Pids PROVE alloc[p] = Total(size, GroupsOf(p)) - Total(seats, Over(p))
      <3>1. Total(size, GroupsOf(p)) = Total(size, {}) /\ Total(seats, Over(p)) = Total(seats, {}) BY <1>e
      <3>2. Total(size, {}) = 0 /\ Total(seats, {}) = 0 BY TotalEmpty
      <3> QED BY <3>1, <3>2, <1>i
    <2> QED BY <2>1 DEF CountInv
  <1>7. FreeInv
    <2>1. \A p \in Pids : free[p] = q0 BY <1>i DEF q0
    <2>2. ASSUME NEW p \in Pids PROVE Len(free[p]) = Cap - Total(seats, Opened(p))
      <3>1. Total(seats, Opened(p)) = Total(seats, {}) BY <1>e
      <3>2. Total(seats, {}) = 0 BY TotalEmpty
      <3> QED BY <1>q, <2>1, <3>1, <3>2, CapAssumption
    <2> QED BY <2>2 DEF FreeInv
  <1>8. IdsRoute
    <2>1. \A p \in Pids : free[p] = q0 BY <1>i DEF q0
    <2> QED BY <1>i, <1>e, <1>q, <2>1 DEF IdsRoute
  <1> QED BY <1>1, <1>2, <1>3, <1>4, <1>5, <1>6, <1>7, <1>8 DEF PoolInv

LEMMA PoolStep == PoolInv /\ [Next]_vars => PoolInv'
  <1> SUFFICES ASSUME PoolInv, [Next]_vars PROVE PoolInv' OBVIOUS
  <1>1. CASE UNCHANGED vars
    <2>1. /\ UNCHANGED <<session, alloc, temp, m2d, d2m, pid, size, seats, room, ids, free, slots>>
      BY <1>1 DEF vars, mainVars, childVars
    <2>2. Placed' = Placed /\ \A q : GroupsOf(q)' = GroupsOf(q) BY <2>1, GroupsStay
    <2>3. \A q : Over(q)' = Over(q) /\ Opened(q)' = Opened(q) BY <2>1, <2>2 DEF Over, Running, Opened
    <2>4. TypeOK' /\ IdleInv' BY <2>1, <2>2 DEF PoolInv, TypeOK, IdleInv
    <2>5. QueueInv' /\ SeatInv' BY <2>1, <2>2 DEF PoolInv, QueueInv, SeatInv
    <2>6. ReportInv' BY <2>1 DEF PoolInv, ReportInv
    <2>7. CountInv' /\ FreeInv' BY <2>1, <2>2, <2>3 DEF PoolInv, CountInv, FreeInv
    <2>8. IdsRoute' BY <2>1, <2>2 DEF PoolInv, IdsRoute
    <2> QED BY <2>4, <2>5, <2>6, <2>7, <2>8 DEF PoolInv
  <1>2. ASSUME NEW g \in Groups, NEW n \in 1 .. MaxGroup, NEW k \in 0 .. n, DistributePlayerGroup(g, n, k)
        PROVE  PoolInv'
    <2>t. session \in [Pids -> {"None", "Initializing", "Ready"}] /\ pid[g] = NoPid
      BY <1>2 DEF PoolInv, TypeOK, DistributePlayerGroup
    <2>1. ASSUME NEW p \in Spawned, Affords(p, n), AllocatePlayers(p, g, n, k), UNCHANGED session
          PROVE  PoolInv'
      <3>1. p \in Pids /\ session'[p] # "None" BY <2>1 DEF Spawned
      <3>2. session' \in [Pids -> {"None", "Initializing", "Ready"}] BY <2>t, <2>1
      <3> QED BY <2>t, <2>1, <3>1, <3>2, AllocateStep
    <2>2. ASSUME NEW p \in Pids \ Spawned, session' = Forked(p, session), AllocatePlayers(p, g, n, k)
          PROVE  PoolInv'
      <3>1. session[p] = "None" BY DEF Spawned
      <3>2. session' = [session EXCEPT ![p] = "Initializing"] BY <2>2 DEF Forked
      <3>3. /\ session' \in [Pids -> {"None", "Initializing", "Ready"}] /\ session'[p] # "None"
            /\ \A q \in Pids : session'[q] = "None" => session[q] = "None"
        BY <2>t, <3>1, <3>2
      <3>4. Affords(p, n) BY <3>1, CapAssumption DEF Affords, PoolInv, IdleInv
      <3> QED BY <2>t, <2>2, <3>3, <3>4, AllocateStep
    <2> QED BY <1>2, <2>1, <2>2 DEF DistributePlayerGroup
  <1>3. ASSUME NEW p \in Pids, FinalizeConnection(p) PROVE PoolInv' BY <1>3, FinalizeStep
  <1>4. ASSUME NEW p \in Pids, NotifyRoomDestroyed(p) PROVE PoolInv' BY <1>4, ReleaseStep
  <1>5. ASSUME NEW p \in Pids, MakeRoomForThisGroup(p) PROVE PoolInv' BY <1>5, MakeRoomStep
  <1>6. ASSUME NEW p \in Pids, NEW g \in Groups, DestroyRoom(p, g) PROVE PoolInv' BY <1>6, DestroyStep
  <1> QED BY <1>1, <1>2, <1>3, <1>4, <1>5, <1>6 DEF Next

\* The number of places of g in a queue without repetition.
LEMMA CopiesOnce ==
  ASSUME NEW q \in Seq(Groups), IsInjective(q), NEW g
  PROVE  Cardinality({i \in DOMAIN q : q[i] = g}) = IF g \in ToSet(q) THEN 1 ELSE 0
  <1>1. CASE g \in ToSet(q)
    <2>1. PICK i \in DOMAIN q : q[i] = g BY <1>1 DEF ToSet
    <2>2. \A j \in DOMAIN q : q[j] = g => j = i BY <2>1 DEF IsInjective
    <2>3. {j \in DOMAIN q : q[j] = g} = {i} BY <2>1, <2>2
    <2>4. Cardinality({i}) = 1 BY FS_Singleton
    <2> QED BY <1>1, <2>3, <2>4
  <1>2. CASE g \notin ToSet(q)
    <2>1. {j \in DOMAIN q : q[j] = g} = {} BY <1>2 DEF ToSet
    <2>2. Cardinality({}) = 0 BY FS_EmptySet
    <2> QED BY <1>2, <2>1, <2>2
  <1> QED BY <1>1, <1>2

LEMMA PoolGroupOnce == PoolInv => GroupOnce
  <1> SUFFICES ASSUME PoolInv, NEW p \in Pids, NEW g \in GroupsOf(p)
               PROVE  Cardinality({i \in DOMAIN temp[p] : temp[p][i] = g})
                        + Cardinality({i \in DOMAIN m2d[p] : m2d[p][i] = g})
                        + (IF room[g] = "none" THEN 0 ELSE 1) = 1
    BY DEF GroupOnce
  <1>1. /\ temp[p] \in Seq(Groups) /\ m2d[p] \in Seq(Groups)
        /\ IsInjective(temp[p]) /\ IsInjective(m2d[p])
    BY DEF PoolInv, TypeOK, QueueInv
  <1>2. /\ ToSet(temp[p]) \cap ToSet(m2d[p]) = {}
        /\ ToSet(temp[p]) \cup ToSet(m2d[p]) = {h \in GroupsOf(p) : room[h] = "none"}
    BY DEF PoolInv, QueueInv
  <1>3. Cardinality({i \in DOMAIN temp[p] : temp[p][i] = g}) = IF g \in ToSet(temp[p]) THEN 1 ELSE 0
    BY <1>1, CopiesOnce
  <1>4. Cardinality({i \in DOMAIN m2d[p] : m2d[p][i] = g}) = IF g \in ToSet(m2d[p]) THEN 1 ELSE 0
    BY <1>1, CopiesOnce
  <1>5. (g \in ToSet(temp[p]) \/ g \in ToSet(m2d[p])) <=> room[g] = "none" BY <1>2
  <1>6. ~ (g \in ToSet(temp[p]) /\ g \in ToSet(m2d[p])) BY <1>2
  <1> QED BY <1>3, <1>4, <1>5, <1>6

LEMMA PoolCapacity == PoolInv => CapacityReturns
  <1> SUFFICES ASSUME PoolInv, NEW p \in Pids
               PROVE  /\ alloc[p] = Total(size, Running(p)) + Total(size, Over(p)) - Total(seats, Over(p))
                      /\ Total(seats, Running(p)) <= alloc[p] /\ alloc[p] <= Cap
    BY DEF CapacityReturns, Over
  <1>1. IsFiniteSet(Running(p)) /\ IsFiniteSet(Over(p)) BY GroupSets
  <1>2. Running(p) \cap Over(p) = {} /\ Running(p) \cup Over(p) = GroupsOf(p) BY DEF Over, Running
  <1>3. Total(size, Running(p) \cup Over(p)) = Total(size, Running(p)) + Total(size, Over(p))
    BY <1>1, <1>2, TotalUnion
  <1>4. Total(size, GroupsOf(p)) = Total(size, Running(p)) + Total(size, Over(p)) BY <1>2, <1>3
  <1>5. alloc[p] = Total(size, GroupsOf(p)) - Total(seats, Over(p)) BY DEF PoolInv, CountInv
  <1>6. Total(seats, Running(p)) <= alloc[p] BY CountCovers
  <1>7. alloc[p] <= Cap BY CapAssumption DEF PoolInv, TypeOK
  <1>8. Total(size, Running(p)) \in Nat /\ Total(size, Over(p)) \in Nat /\ Total(seats, Over(p)) \in Nat
    BY <1>1, PlayersFinite
  <1> QED BY <1>4, <1>5, <1>6, <1>7, <1>8

\* The inductive invariant of the pool holds in every behaviour.
THEOREM PoolInductive == Spec => []PoolInv
  BY PoolInit, PoolStep, PTL DEF Spec

\* The variables of Main and of the processes have their types: in particular
\* _allocatedPlayers stays between zero and MAX_PLAYER_PER_PROCESS, so the
\* clamp of ReleasePlayers is never needed.
THEOREM PoolTypeOK == Spec => []TypeOK
  <1>1. PoolInv => TypeOK BY DEF PoolInv
  <1> QED BY <1>1, PoolInductive, PTL

\* AllocatePlayers and FlushPendingTickets: an allocated group waits in Main,
\* is on the socket or has its room, and exactly one of them.
THEOREM PoolGroupsOnce == Spec => []GroupOnce
  BY PoolGroupOnce, PoolInductive, PTL

\* GetFreeSessionId and DestroyRoom: a session id routes to one session, and
\* the prepared ids suffice for every capacity and every number of groups.
THEOREM PoolIdsRoute == Spec => []IdsRoute
  <1>1. PoolInv => IdsRoute BY DEF PoolInv
  <1> QED BY <1>1, PoolInductive, PTL

\* AllocatePlayers and ReleasePlayers: Main's count covers the sessions of
\* every process, and comes back except for tickets that had expired.
THEOREM PoolCapacityReturns == Spec => []CapacityReturns
  BY PoolCapacity, PoolInductive, PTL
=============================================================================
