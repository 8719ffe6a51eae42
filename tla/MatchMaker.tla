----------------------------- MODULE MatchMaker -----------------------------
(***************************************************************************)
(* The MatchMaker of one map: StartMatchMake takes the tickets that came   *)
(* in, forms groups around pivots in the order of waiting, commits every   *)
(* group in Redis, hands it to a dedicated process, and drops the tickets  *)
(* that are done.                                                          *)
(*                                                                         *)
(* A ticket is the number of its arrival, which is the order of startTime: *)
(* Handle_H2M_MatchMake creates a ticket and adds it in one call.  The     *)
(* MatchMaker runs on Main's thread; the Node server's cancels and Redis'  *)
(* expiry come between any two of its Redis calls, and the clock runs on   *)
(* between two pivots.  What happens to a group in the dedicated process   *)
(* is the subject of MatchTicket and DediPool.                             *)
(***************************************************************************)
EXTENDS Integers, Sequences, FiniteSets, SequencesExt

CONSTANTS
    N,          \* bound on the tickets
    MaxAggr,    \* _maxAgression
    Mixes,      \* aggressions the clients choose, ticket by ticket
    GroupSize,  \* players of a full group, 4 in the code
    Losses,     \* bound on the tickets cancelled or expired at a time
    Failures    \* bound on DistributePlayerGroup returning false

ASSUME SizeAssumption ==
    /\ N \in Nat /\ MaxAggr \in Nat /\ Failures \in Nat /\ Losses \in Nat
    /\ GroupSize \in Nat \ {0, 1}

Tickets == 1 .. N
Aggrs   == 0 .. MaxAggr

ASSUME MixAssumption == Mixes \subseteq [Tickets -> Aggrs]

VARIABLES
    aggr,       \* aggression of the tickets, the clients' choice
    arrived,    \* tickets Main has received
    age,        \* full 20 s a ticket has waited, 3 for 60 s and more
    redis,      \* the ticket's hash: its status, or gone
    toAdd,      \* _ticketsToAdd
    queue,      \* _timeSortedTicketVector
    bucket,     \* _bucket
    memo,       \* _pivotMemorizationFlags
    matched,    \* tickets with isMatched
    invalid,    \* tickets with isValid = false
    groups,     \* _matchedGroups
    todo,       \* the rest of the queue FindMatchGroup has to look at
    phase,      \* where StartMatchMake is
    released,   \* tickets given back to the ObjectPool
    placed,     \* history: groups a dedicated process accepted
    begun,      \* history: age of the tickets when the pass began
    failures    \* DistributePlayerGroup calls that failed

clientVars == <<aggr, arrived, age, redis>>
indexVars  == <<toAdd, queue, bucket, released>>
passVars   == <<memo, matched, invalid, groups, todo, phase>>
histVars   == <<placed, begun, failures>>
vars == <<clientVars, indexVars, passVars, histVars>>
-----------------------------------------------------------------------------
\* Mutant: there is no last step for a player who is alone.
MinPlayersTwo(a) == IF GroupSize - a < 2 THEN 2 ELSE GroupSize - a

\* What a pivot that waited for a units of 20 s is content with.
MinPlayers(a)  == IF GroupSize - a < 1 THEN 1 ELSE GroupSize - a
AllowedDiff(a) == IF a >= 2 THEN 1 ELSE 0

\* erase of remove_if, and the continue of a loop: what is in S, in its order.
Keep(s, S) ==
    LET at == {i \in DOMAIN s : s[i] \in S}
    IN  [n \in 1 .. Cardinality(at) |->
           s[CHOOSE i \in at : Cardinality({j \in at : j <= i}) = n]]

OfAggr(a) == {t \in Tickets : aggr[t] = a}

UpTo(s, n) == SubSeq(s, 1, IF Len(s) < n THEN Len(s) ELSE n)

\* Members in the order of the search: the pivot's bucket, then the one above,
\* then the one below.
Candidates(p) ==
    LET free(b)  == Keep(bucket[b], Tickets \ (matched \cup {p}))
        from(b)  == IF b \in Aggrs /\ AllowedDiff(age[p]) = 1 THEN free(b) ELSE <<>>
    IN  free(aggr[p]) \o from(aggr[p] + 1) \o from(aggr[p] - 1)

GroupOf(p) == UpTo(<<p>> \o Candidates(p), GroupSize)
-----------------------------------------------------------------------------
Init ==
    /\ aggr \in Mixes
    /\ arrived = 0
    /\ age = [t \in Tickets |-> 0]
    /\ redis = [t \in Tickets |-> "none"]
    /\ toAdd = <<>> /\ queue = <<>>
    /\ bucket = [a \in Aggrs |-> <<>>]
    /\ memo = {} /\ matched = {} /\ invalid = {}
    /\ groups = <<>> /\ todo = <<>> /\ phase = "idle"
    /\ released = {} /\ placed = {}
    /\ begun = [t \in Tickets |-> 0]
    /\ failures = 0

\* Handle_H2M_MatchMake and AddSingleMatchTicket: between two passes.
Arrive ==
    /\ phase = "idle" /\ arrived < N
    /\ arrived' = arrived + 1
    /\ redis' = [redis EXCEPT ![arrived'] = "WAITING"]
    /\ toAdd' = Append(toAdd, arrived')
    /\ UNCHANGED <<aggr, age, queue, bucket, released, passVars, histVars>>

\* 20 s pass: GetWaitTimeSeconds of all tickets.  Only pivots look at it, so
\* that it need not change while groups are committed.
Waiting == {t \in 1 .. arrived : t \notin released /\ age[t] < 3}

Tick ==
    /\ phase \in {"idle", "find"} /\ Waiting # {}
    /\ age' = [t \in Tickets |-> IF t \in Waiting THEN age[t] + 1 ELSE age[t]]
    /\ UNCHANGED <<aggr, arrived, redis, indexVars, passVars, histVars>>

MayBeLost == Cardinality({t \in Tickets : redis[t] = "gone"}) < Losses

\* The Node server: /match/cancel, or the ticket's time to live ends.
Cancel(t) ==
    /\ redis[t] = "WAITING" /\ MayBeLost
    /\ redis' = [redis EXCEPT ![t] = "gone"]
    /\ UNCHANGED <<aggr, arrived, age, indexVars, passVars, histVars>>

\* The time to live of a committed ticket ends before the group is placed.
Expire(t) ==
    /\ MayBeLost
    /\ redis[t] = "INPROGRESS" /\ t \notin UNION placed
    /\ redis' = [redis EXCEPT ![t] = "gone"]
    /\ UNCHANGED <<aggr, arrived, age, indexVars, passVars, histVars>>
-----------------------------------------------------------------------------
\* Mutant: the flags of the pass before are kept.
BeginKeepsFlags ==
    /\ phase = "idle" /\ queue \o toAdd # <<>>
    /\ queue' = queue \o toAdd
    /\ bucket' = [a \in Aggrs |-> bucket[a] \o Keep(toAdd, OfAggr(a))]
    /\ toAdd' = <<>>
    /\ groups' = <<>> /\ todo' = queue'
    /\ phase' = "find" /\ begun' = age
    /\ UNCHANGED <<memo, released, matched, invalid, placed, failures, clientVars>>

\* AddNewMatchTickets, and the start of FindMatchGroup.  Whatever is added is
\* younger than the queue, so merging appends.
Begin ==
    /\ phase = "idle" /\ queue \o toAdd # <<>>
    /\ queue' = queue \o toAdd
    /\ bucket' = [a \in Aggrs |-> bucket[a] \o Keep(toAdd, OfAggr(a))]
    /\ toAdd' = <<>>
    /\ memo' = {} /\ groups' = <<>> /\ todo' = queue'
    /\ phase' = "find" /\ begun' = age
    /\ UNCHANGED <<released, matched, invalid, placed, failures, clientVars>>

\* Mutant: only the pivot is marked.
MarkPivot(p) == {p}

\* The members of the group that are marked isMatched.
Mark(p) == Range(GroupOf(p))

\* The flag a pivot sets who found no group.
Flag(p) == aggr[p]

\* One pivot of FindMatchGroup.
Pivot ==
    /\ phase = "find"
    /\ todo' = Tail(todo)
    /\ phase' = IF Tail(todo) = <<>> THEN "commit" ELSE "find"
    /\ LET p == Head(todo) IN
         IF p \in matched \/ aggr[p] \in memo THEN UNCHANGED <<matched, groups, memo>>
         ELSE IF Len(GroupOf(p)) >= MinPlayers(age[p])
         THEN /\ matched' = matched \cup Mark(p)
              /\ groups' = Append(groups, GroupOf(p))
              /\ UNCHANGED memo
         ELSE /\ memo' = memo \cup {Flag(p)}
              /\ UNCHANGED <<matched, groups>>
    /\ UNCHANGED <<invalid, clientVars, indexVars, histVars>>
-----------------------------------------------------------------------------
Members == Range(Head(groups))

\* VerifyAndSetMatchStatus: the script commits all members or none; a refusal
\* is followed by a look at each of them.
Commit ==
    /\ phase = "commit" /\ groups # <<>>
    /\ IF \A t \in Members : redis[t] = "WAITING"
       THEN /\ redis' = [t \in Tickets |-> IF t \in Members THEN "INPROGRESS" ELSE redis[t]]
            /\ phase' = "place"
       ELSE /\ phase' = "refused"
            /\ UNCHANGED redis
    /\ UNCHANGED <<aggr, arrived, age, memo, matched, invalid, groups, todo, indexVars, histVars>>

\* Mutant: members that are still waiting stay matched.
RefusedAll ==
    /\ phase = "refused"
    /\ invalid' = invalid \cup {t \in Members : redis[t] # "WAITING"}
    /\ groups' = Tail(groups) /\ phase' = "commit"
    /\ UNCHANGED <<memo, matched, todo, clientVars, indexVars, histVars>>

Refused ==
    /\ phase = "refused"
    /\ LET waiting == {t \in Members : redis[t] = "WAITING"} IN
         /\ matched' = matched \ waiting
         /\ invalid' = invalid \cup (Members \ waiting)
    /\ groups' = Tail(groups) /\ phase' = "commit"
    /\ UNCHANGED <<memo, todo, clientVars, indexVars, histVars>>

\* DistributePlayerGroup: a process takes the group, or the tickets go back to
\* WAITING, an expired one included.
Distribute ==
    /\ phase = "place"
    /\ groups' = Tail(groups) /\ phase' = "commit"
    /\ \/ /\ placed' = placed \cup {Members}
          /\ UNCHANGED <<redis, matched, failures>>
       \/ /\ failures < Failures
          /\ failures' = failures + 1
          /\ redis' = [t \in Tickets |-> IF t \in Members THEN "WAITING" ELSE redis[t]]
          /\ matched' = matched \ Members
          /\ UNCHANGED placed
    /\ UNCHANGED <<aggr, arrived, age, memo, invalid, todo, begun, indexVars>>

Done == matched \cup invalid

\* Mutant: the buckets keep the tickets that are done.
ReleaseKeepsBuckets ==
    /\ phase = "commit" /\ groups = <<>>
    /\ queue' = Keep(queue, Tickets \ Done)
    /\ released' = released \cup Done
    /\ matched' = {} /\ invalid' = {}
    /\ phase' = "idle"
    /\ UNCHANGED <<toAdd, bucket, memo, groups, todo, clientVars, histVars>>

\* ReleaseAndDeleteTickets; the fields of a ticket go with it, and one
\* that is invalid but not matched would lose its hash.
ReleaseAndDelete ==
    /\ phase = "commit" /\ groups = <<>>
    /\ queue' = Keep(queue, Tickets \ Done)
    /\ bucket' = [a \in Aggrs |-> Keep(bucket[a], Tickets \ Done)]
    /\ released' = released \cup Done
    /\ redis' = [t \in Tickets |-> IF t \in invalid \ matched THEN "gone" ELSE redis[t]]
    /\ matched' = {} /\ invalid' = {}
    /\ phase' = "idle"
    /\ begun' = [t \in Tickets |-> 0]
    /\ age' = [t \in Tickets |-> IF t \in Done THEN 0 ELSE age[t]]
    /\ UNCHANGED <<toAdd, memo, groups, todo, aggr, arrived, placed, failures>>

Pass == Begin \/ Pivot \/ Commit \/ Refused \/ Distribute \/ ReleaseAndDelete

Next ==
    \/ Arrive \/ Pass \/ Tick
    \/ \E t \in Tickets : Cancel(t) \/ Expire(t)

Spec == Init /\ [][Next]_vars

\* DediManager runs the passes again and again on Main's thread, and time
\* passes: SF only because Tick pauses while groups are committed.  Nothing is
\* asked of the clients.
FairSpec ==
    /\ Spec
    /\ WF_vars(Pass)
    /\ SF_vars(Tick)
-----------------------------------------------------------------------------
(* Properties.                                                             *)

\* The groups of a pass have no player in common, and the pivot's tolerance is
\* kept: at least the number he is content with, nobody further from him than
\* he allows (FindMatchGroup marks members across buckets).
GroupsFit ==
    /\ \A i, j \in DOMAIN groups : i # j => Range(groups[i]) \cap Range(groups[j]) = {}
    /\ \A i \in DOMAIN groups :
         LET p == Head(groups[i]) IN
         /\ Cardinality(Range(groups[i])) = Len(groups[i])
         /\ Len(groups[i]) \in MinPlayers(age[p]) .. GroupSize
         /\ \A t \in Range(groups[i]) :
              aggr[t] - aggr[p] \in -AllowedDiff(age[p]) .. AllowedDiff(age[p])

\* The flags are only a short cut: when FindMatchGroup ends, nobody is left
\* around whom a group could have been formed by the waiting times at the
\* start of the pass, although pivots of a flagged aggression were skipped.
NoGroupMissed ==
    [][phase = "find" /\ phase' = "commit" =>
         \A p \in Range(queue) \ matched' :
           LET near == {t \in Range(queue) \ matched' :
                          aggr[t] - aggr[p] \in -AllowedDiff(begun[p]) .. AllowedDiff(begun[p])}
           IN  Cardinality(near) < MinPlayers(begun[p])]_vars

\* Queue and buckets hold the same tickets in the same order, each once, and no
\* ticket that went back to the pool is in them or is matched again.
IndexesAgree ==
    /\ \A a \in Aggrs : bucket[a] = Keep(queue, OfAggr(a))
    /\ \A i, j \in DOMAIN queue : i < j => queue[i] < queue[j]
    /\ Range(queue) \cap released = {}
    /\ \A i \in DOMAIN groups : Range(groups[i]) \cap released = {}

\* No player is put into a game twice, and nobody whose ticket is in no game
\* is dropped from the queue while Redis still says he is waiting.
DroppedIsServed ==
    /\ \A g, h \in placed : g # h => g \cap h = {}
    /\ \A t \in released : redis[t] = "WAITING" => \E g \in placed : t \in g

\* A ticket does not wait for ever: it is put into a game or is gone, whatever
\* the others do, because a pivot who waited a minute is content alone.
Served ==
    \A t \in Tickets :
      redis[t] = "WAITING" ~> (redis[t] = "gone" \/ \E g \in placed : t \in g)
=============================================================================
