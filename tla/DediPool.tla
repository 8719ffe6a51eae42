------------------------------ MODULE DediPool ------------------------------
(***************************************************************************)
(* The pool of dedicated processes: how Main spawns them, binds their      *)
(* sockets, allocates match groups to them and gets the capacity back, and *)
(* the session ids a process hands out.                                    *)
(*                                                                         *)
(* Main and every process run on one thread each; the sockets between them *)
(* are FIFO.  A group is a matched group whose tickets are INPROGRESS; its *)
(* room lives until the room module says that everybody left, which here   *)
(* may be at any moment.  No process dies (Main would not notice).         *)
(***************************************************************************)
EXTENDS Integers, Sequences, FiniteSets, SequencesExt

CONSTANTS
    Pids,       \* processes that can be forked
    Groups,     \* match groups
    NoPid,      \* not a process
    Cap,        \* MAX_PLAYER_PER_PROCESS, 50 in the code
    MaxGroup    \* largest group, 4 in the code

ASSUME PidAssumption == NoPid \notin Pids
ASSUME CapAssumption == MaxGroup \in Nat \ {0} /\ Cap \in Nat /\ MaxGroup <= Cap

VARIABLES
    session, \* _state of the M2DSession of a process, or None
    alloc,   \* its _allocatedPlayers
    temp,    \* its _tempMatchPkts
    m2d,     \* MakeRoomForThisGroup on the socket to the process
    d2m,     \* InitComplete and NotifyRoomDestroyed on the socket to Main
    pid,     \* the process a group was allocated to
    size,    \* tickets of the group
    seats,   \* tickets AllocatePlayers could read: sessions of its room
    room,    \* the group's room: none, open, destroyed; back: Main knows
    ids,     \* the session ids of the room
    free,    \* _freePlayerIds of a process
    slots    \* _players.size() of a process

mainVars  == <<session, alloc, temp, pid, size, seats>>
childVars == <<ids, free, slots>>
vars == <<mainVars, childVars, room, m2d, d2m>>
-----------------------------------------------------------------------------
Spawned  == {p \in Pids : session[p] # "None"}
GroupsOf(p) == {g \in Groups : pid[g] = p}

\* SpawnSingleServer: fork, and an M2DSession without a socket.
Forked(p, before) == [before EXCEPT ![p] = "Initializing"]

\* Main spawns one process before its loop; a failing fork is not noticed.  The
\* first message of a process, once it runs, is InitComplete.
Init ==
    /\ \E S \in SUBSET Pids :
         /\ Cardinality(S) <= 1
         /\ session = [p \in Pids |-> IF p \in S THEN "Initializing" ELSE "None"]
    /\ alloc = [p \in Pids |-> 0]
    /\ temp = [p \in Pids |-> <<>>]
    /\ m2d = [p \in Pids |-> <<>>]
    /\ d2m = [p \in Pids |-> <<[type |-> "Init"]>>]
    /\ pid = [g \in Groups |-> NoPid]
    /\ size = [g \in Groups |-> 0] /\ seats = [g \in Groups |-> 0]
    /\ room = [g \in Groups |-> "none"]
    /\ ids = [g \in Groups |-> <<>>]
    /\ free = [p \in Pids |-> [i \in 1 .. Cap |-> i - 1]]
    /\ slots = [p \in Pids |-> Cap + 1]
-----------------------------------------------------------------------------
(* Main.                                                                   *)

\* Mutant: the group in hand is not counted.
AffordsFull(p, n) == Cap > alloc[p]

\* GetAffordablePlayers is enough for n more.
Affords(p, n) == Cap - alloc[p] >= n

\* Mutant: the packets are sent and kept.
FlushPendingTicketsKeep(p, pkts) ==
    /\ m2d' = [m2d EXCEPT ![p] = @ \o pkts]
    /\ temp' = [temp EXCEPT ![p] = pkts]

FlushPendingTickets(p, pkts) ==
    /\ m2d' = [m2d EXCEPT ![p] = @ \o pkts]
    /\ temp' = [temp EXCEPT ![p] = <<>>]

\* AllocatePlayers for group g of n tickets, of which k still had a hash.  A
\* process that is not Ready keeps the packet.
AllocatePlayers(p, g, n, k) ==
    /\ alloc' = [alloc EXCEPT ![p] = @ + n]
    /\ pid' = [pid EXCEPT ![g] = p]
    /\ size' = [size EXCEPT ![g] = n] /\ seats' = [seats EXCEPT ![g] = k]
    /\ \/ /\ session[p] = "Ready"
          /\ FlushPendingTickets(p, Append(temp[p], g))
       \/ /\ session[p] # "Ready"
          /\ temp' = [temp EXCEPT ![p] = Append(@, g)]
          /\ UNCHANGED m2d
    /\ UNCHANGED <<room, d2m, childVars>>

\* DistributePlayerGroup: the first process in the order of a hash map that
\* has room for the group, else a new one.  When fork fails the group goes
\* back to the queue and nothing changes here.
DistributePlayerGroup(g, n, k) ==
    /\ pid[g] = NoPid
    /\ \/ \E p \in Spawned :
            /\ Affords(p, n)
            /\ AllocatePlayers(p, g, n, k)
            /\ UNCHANGED session
       \/ /\ \A p \in Spawned : ~ Affords(p, n)
          /\ \E p \in Pids \ Spawned :
               /\ session' = Forked(p, session)
               /\ AllocatePlayers(p, g, n, k)

\* M2DTempSession reads InitComplete: FinalizeConnection and BindSocket.
FinalizeConnection(p) ==
    /\ session[p] = "Initializing"
    /\ d2m[p] # <<>> /\ Head(d2m[p]).type = "Init"
    /\ d2m' = [d2m EXCEPT ![p] = Tail(@)]
    /\ session' = [session EXCEPT ![p] = "Ready"]
    /\ UNCHANGED <<alloc, temp, pid, size, seats, childVars, room, m2d>>

\* Mutant: a room counts as one player.
ReleasePlayersRoom(p, count) ==
    alloc' = [alloc EXCEPT ![p] = IF @ - 1 < 0 THEN 0 ELSE @ - 1]

ReleasePlayers(p, count) ==
    alloc' = [alloc EXCEPT ![p] = IF @ - count < 0 THEN 0 ELSE @ - count]

\* Handle_D2M_NotifyRoomDestroyed, on a bound socket.
NotifyRoomDestroyed(p) ==
    /\ session[p] = "Ready"
    /\ d2m[p] # <<>> /\ Head(d2m[p]).type = "Destroyed"
    /\ d2m' = [d2m EXCEPT ![p] = Tail(@)]
    /\ ReleasePlayers(p, Head(d2m[p]).count)
    /\ room' = [room EXCEPT ![Head(d2m[p]).g] = "back"]
    /\ UNCHANGED <<session, temp, pid, size, seats, childVars, m2d>>
-----------------------------------------------------------------------------
(* A dedicated process.                                                    *)

\* GetFreeSessionId, n times.
Fresh(p, n) == IF n <= Len(free[p]) THEN n ELSE Len(free[p])
GetFreeSessionIds(p, n) ==
    SubSeq(free[p], 1, Fresh(p, n))
    \o [i \in 1 .. n - Fresh(p, n) |-> slots[p] + i - 1]

\* MakeRoomForThisGroup; a group with no readable ticket gets a room too.
MakeRoomForThisGroup(p) ==
    /\ m2d[p] # <<>>
    /\ LET g == Head(m2d[p])
           n == seats[g]
       IN /\ ids' = [ids EXCEPT ![g] = GetFreeSessionIds(p, n)]
          /\ free' = [free EXCEPT ![p] = SubSeq(@, Fresh(p, n) + 1, Len(@))]
          /\ slots' = [slots EXCEPT ![p] = @ + n - Fresh(p, n)]
          /\ room' = [room EXCEPT ![g] = "open"]
    /\ m2d' = [m2d EXCEPT ![p] = Tail(@)]
    /\ UNCHANGED <<mainVars, d2m>>

\* Mutant: the first session of the room is returned by its departure and
\* again here.
ReturnedTwice(g) == IF ids[g] = <<>> THEN <<>> ELSE Append(ids[g], Head(ids[g]))

\* The ids DestroyRoom pushes.
Returned(g) == ids[g]

\* DestroyRoom: NotifyRoomDestroyedToMain, and the ids go back.
DestroyRoom(p, g) ==
    /\ pid[g] = p /\ room[g] = "open"
    /\ d2m' = [d2m EXCEPT ![p] = Append(@, [type |-> "Destroyed", g |-> g, count |-> Len(ids[g])])]
    /\ free' = [free EXCEPT ![p] = @ \o Returned(g)]
    /\ ids' = [ids EXCEPT ![g] = <<>>]
    /\ room' = [room EXCEPT ![g] = "destroyed"]
    /\ UNCHANGED <<mainVars, slots, m2d>>
-----------------------------------------------------------------------------
Next ==
    \/ \E g \in Groups, n \in 1 .. MaxGroup : \E k \in 0 .. n : DistributePlayerGroup(g, n, k)
    \/ \E p \in Pids :
         \/ FinalizeConnection(p) \/ NotifyRoomDestroyed(p) \/ MakeRoomForThisGroup(p)
         \/ \E g \in Groups : DestroyRoom(p, g)

Spec == Init /\ [][Next]_vars

\* Main and the processes read their sockets over and over.
FairSpec ==
    /\ Spec
    /\ \A p \in Pids : /\ WF_vars(FinalizeConnection(p))
                       /\ WF_vars(NotifyRoomDestroyed(p))
                       /\ WF_vars(MakeRoomForThisGroup(p))
-----------------------------------------------------------------------------
(* Properties.                                                             *)

\* What a process sends.
DediMsgs == [type : {"Init"}] \cup [type : {"Destroyed"}, g : Groups, count : Nat]

TypeOK ==
    /\ session \in [Pids -> {"None", "Initializing", "Ready"}]
    /\ alloc \in [Pids -> 0 .. Cap]
    /\ temp \in [Pids -> Seq(Groups)] /\ m2d \in [Pids -> Seq(Groups)]
    /\ d2m \in [Pids -> Seq(DediMsgs)]
    /\ pid \in [Groups -> Pids \cup {NoPid}]
    /\ size \in [Groups -> 0 .. MaxGroup] /\ seats \in [Groups -> 0 .. MaxGroup]
    /\ room \in [Groups -> {"none", "open", "destroyed", "back"}]
    /\ ids \in [Groups -> Seq(Nat)]
    /\ free \in [Pids -> Seq(Nat)] /\ slots \in [Pids -> Nat]

\* Players of a set of groups, by size or by seats: the i-th player of g is
\* <<g, i>>.
Players(f, S) == {x \in S \X (1 .. MaxGroup) : x[2] <= f[x[1]]}
Total(f, S)   == Cardinality(Players(f, S))

\* The groups Main has not taken back.
Running(p) == {g \in GroupsOf(p) : room[g] # "back"}

\* Capacity comes back, and never too much of it.  What Main counts for a
\* process beyond the groups that run there is the tickets that had expired
\* when AllocatePlayers read them (it adds the group's size, DestroyRoom
\* reports the sessions).  So the count covers every session the process has
\* or is going to have: it never gets more than MAX_PLAYER_PER_PROCESS, and
\* the negative count that ReleasePlayers calls impossible is impossible.
CapacityReturns ==
    \A p \in Pids :
      LET over == GroupsOf(p) \ Running(p)
      IN /\ alloc[p] = Total(size, Running(p)) + Total(size, over) - Total(seats, over)
         /\ Total(seats, Running(p)) <= alloc[p] /\ alloc[p] <= Cap

\* A group that was allocated is in one place: kept, on the socket, or in its
\* room.  FlushPendingTickets neither loses nor repeats one.
GroupOnce ==
    \A p \in Pids : \A g \in GroupsOf(p) :
      LET Copies(q) == Cardinality({i \in DOMAIN q : q[i] = g})
      IN Copies(temp[p]) + Copies(m2d[p]) + (IF room[g] = "none" THEN 0 ELSE 1) = 1

\* A session id routes to one session: no two sessions of a process share
\* one, none of a live session is free, and none is free twice (packets and
\* delayed callbacks look sessions up by id).  And the ids prepared in the
\* constructor suffice, so _players never grows: a process returns the ids of
\* a room before Main gets the capacity back.
IdsRoute ==
    \A p \in Pids :
      /\ \A g \in GroupsOf(p) : IsInjective(ids[g]) /\ ToSet(ids[g]) \cap ToSet(free[p]) = {}
      /\ \A g, h \in GroupsOf(p) : g # h => ToSet(ids[g]) \cap ToSet(ids[h]) = {}
      /\ IsInjective(free[p])
      /\ slots[p] = Cap + 1

\* dedicated-server.md: once the socket is bound, the groups that waited for
\* the process are served.
GroupStarts == \A g \in Groups : pid[g] # NoPid ~> room[g] # "none"
=============================================================================
