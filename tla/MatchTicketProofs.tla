------------------------- MODULE MatchTicketProofs -------------------------
(***************************************************************************)
(* A granted cancel wins, for every number of accounts, requests and       *)
(* tickets and with every fault of MatchTicket switched on.  With clients  *)
(* that send one request at a time and without faults, the lock of an      *)
(* account follows its ticket from SET NX to the departure, and the        *)
(* protocol implements MatchLife.                                          *)
(***************************************************************************)
EXTENDS MatchTicket, TLAPS

\* The ticket hash of t has not been written yet.
Writing(r, t) == req[r].pc = "TICKET" /\ req[r].t = t
Fresh(t)      == owner[t] = NoUser \/ \E r \in Reqs : Writing(r, t)

\* Nothing happened to a ticket before its hash is written.
FreshInv ==
    \A t \in Tickets : Fresh(t) =>
        /\ ticket[t].status = "NONE" /\ outcome[t] = "NONE"
        /\ ~ Committing(t) /\ ~ Dispatched(t)

\* One request writes and announces a ticket, and the id is taken by then.
WriterInv ==
    /\ \A r, s \in Reqs :
        /\ req[r].pc \in {"TICKET", "SEND"}
        /\ req[s].pc \in {"TICKET", "SEND"}
        /\ req[r].t = req[s].t
        => r = s
    /\ \A r \in Reqs : req[r].pc \in {"TICKET", "SEND"} => owner[req[r].t] # NoUser

\* Between the verification and the dispatch only an expiry can touch a ticket.
CommitInv ==
    \A t \in Tickets : Committing(t) =>
        ticket[t].status \in {"INPROGRESS", "NONE"} /\ ~ Dispatched(t)

\* A dispatched ticket never waits again, and what the Dedicate process
\* reports is about seats it has made.
DispatchInv ==
    /\ \A t \in Tickets : Dispatched(t) => ticket[t].status # "WAITING"
    /\ \A i \in 1 .. Len(d2m) : \A t \in d2m[i].ts : seat[t] # "NONE"
    /\ \A i \in 1 .. Len(jobs) : \A t \in jobs[i].ts : seat[t] # "NONE"

CancelInv == TypeOK /\ FreshInv /\ WriterInv /\ CommitInv /\ DispatchInv /\ CancelWins
-----------------------------------------------------------------------------
(* Type correctness.                                                       *)

LEMMA LockType ==
  /\ NoLock \in Locks
  /\ \A t \in Tickets : Held(t) \in Locks /\ InGame(t) \in Locks
  BY DEF Locks

LEMMA LockTicket == \A l \in Locks : l.kind = "TICKET" => l.t \in Tickets
  BY DEF Locks, NoLock, Held, InGame

LEMMA HashType ==
  /\ Absent \in Hashes /\ Absent.status = "NONE" /\ Absent.uid = NoUser
  /\ \A s \in Statuses, u \in Users \cup {NoUser} :
        Hash(s, u) \in Hashes /\ Hash(s, u).status = s /\ Hash(s, u).uid = u
  BY DEF Absent, Hash, Hashes, Statuses

LEMMA AtType ==
  /\ Idle \in Requests /\ Idle.pc = "IDLE"
  /\ \A pc \in PCs, u \in Users \cup {NoUser}, t \in Tickets \cup {NoTicket} :
        /\ At(pc, u, t) \in Requests
        /\ At(pc, u, t).pc = pc /\ At(pc, u, t).u = u /\ At(pc, u, t).t = t
  BY DEF At, Idle, Requests, PCs

\* The fields of a request.
LEMMA RequestFields ==
  \A q \in Requests : q.pc \in PCs /\ q.u \in Users \cup {NoUser} /\ q.t \in Tickets \cup {NoTicket}
  BY DEF Requests

LEMMA HeadTail ==
  ASSUME NEW S, NEW q \in Seq(S), q # <<>>
  PROVE  Head(q) \in S /\ Tail(q) \in Seq(S)
  OBVIOUS

LEMMA TypeInit == Init => TypeOK
  BY LockType, HashType, AtType DEF Init, TypeOK

\* The requests keep their type when one of them goes on.
ReqOK ==
  /\ req \in [Reqs -> Requests]
  /\ \A r \in Reqs : req[r].pc # "IDLE" => req[r].u \in Users
  /\ \A r \in Reqs : req[r].pc \in {"TICKET", "SEND", "DEL", "LOGINSEND"} => req[r].t \in Tickets

LEMMA ReqStep ==
  ASSUME ReqOK, NEW r \in Reqs,
         NEW pc \in PCs, NEW u \in Users \cup {NoUser}, NEW t \in Tickets \cup {NoTicket},
         req' = [req EXCEPT ![r] = At(pc, u, t)],
         pc # "IDLE" => u \in Users,
         pc \in {"TICKET", "SEND", "DEL", "LOGINSEND"} => t \in Tickets
  PROVE  ReqOK'
  BY AtType DEF ReqOK

LEMMA ReqDone ==
  ASSUME ReqOK, NEW r \in Reqs, Done(r)
  PROVE  ReqOK'
  BY AtType DEF ReqOK, Done

LEMMA TypeStart ==
  ASSUME TypeOK, NEW r \in Reqs, StartStep(r)
  PROVE  TypeOK'
  <1>0. ReqOK BY DEF TypeOK, ReqOK
  <1>f. req[r].pc \in PCs /\ req[r].u \in Users \cup {NoUser} /\ req[r].t \in Tickets \cup {NoTicket}
    BY <1>0, RequestFields DEF ReqOK
  <1>1. CASE StartLock(r)
    <2>u. req[r].u \in Users BY <1>1, <1>0 DEF StartLock, ReqOK
    <2>1. ReqOK' /\ lock' \in [Users -> Locks] /\ owner' \in [Tickets -> Users \cup {NoUser}]
      <3>1. CASE Done(r) /\ UNCHANGED <<lock, owner>>
        <4>1. ReqOK' BY <3>1, <1>0, ReqDone
        <4> QED BY <4>1, <3>1 DEF TypeOK
      <3>2. CASE Goto(r, "FAIL") /\ UNCHANGED <<lock, owner>>
        <4>1. ReqOK' BY <3>2, <1>0, <1>f, <2>u, ReqStep DEF Goto, PCs
        <4> QED BY <4>1, <3>2 DEF TypeOK
      <3>3. ASSUME NEW t \in Unminted,
                   owner' = [owner EXCEPT ![t] = req[r].u],
                   lock' = [lock EXCEPT ![req[r].u] = Held(t)],
                   req' = [req EXCEPT ![r] = At("TICKET", req[r].u, t)]
            PROVE  ReqOK' /\ lock' \in [Users -> Locks] /\ owner' \in [Tickets -> Users \cup {NoUser}]
        <4>1. t \in Tickets BY DEF Unminted
        <4>2. ReqOK' BY <4>1, <3>3, <1>0, <2>u, ReqStep DEF PCs
        <4> QED BY <4>1, <4>2, <3>3, <2>u, LockType DEF TypeOK
      <3> QED BY <1>1, <3>1, <3>2, <3>3 DEF StartLock
    <2> QED BY <2>1, <1>1 DEF TypeOK, ReqOK, StartLock, mainVars, dediVars
  <1>2. CASE StartTicket(r)
    <2>t. req[r].t \in Tickets /\ req[r].u \in Users BY <1>2, <1>0 DEF StartTicket, ReqOK
    <2>1. ReqOK' BY <2>t, <1>2, <1>0, <1>f, ReqStep DEF StartTicket, Goto, PCs
    <2>2. ticket' \in [Tickets -> Hashes]
      BY <2>t, <1>2, HashType, SMTT(30) DEF StartTicket, TypeOK, Statuses
    <2> QED BY <2>1, <2>2, <1>2 DEF TypeOK, ReqOK, StartTicket, mainVars, dediVars
  <1>3. CASE StartUndo(r)
    <2>u. req[r].u \in Users BY <1>3, <1>0 DEF StartUndo, ReqOK
    <2>1. ReqOK' BY <2>u, <1>3, <1>0, <1>f, ReqStep DEF StartUndo, Goto, PCs
    <2> QED BY <2>1, <2>u, <1>3, LockType, SMTT(30) DEF TypeOK, ReqOK, StartUndo, DelLock, mainVars, dediVars
  <1>4. CASE StartFail(r)
    <2>u. req[r].u \in Users BY <1>4, <1>0 DEF StartFail, ReqOK
    <2>1. ReqOK' BY <1>4, <1>0, ReqDone DEF StartFail
    <2> QED BY <2>1, <2>u, <1>4, LockType DEF TypeOK, ReqOK, StartFail, DelLock, mainVars, dediVars
  <1>5. CASE StartSend(r)
    <2>t. req[r].t \in Tickets BY <1>5, <1>0 DEF StartSend, ReqOK
    <2>1. ReqOK' BY <1>5, <1>0, ReqDone DEF StartSend
    <2>2. h2m' \in Seq(HttpMsgs) BY <2>t, <1>5 DEF StartSend, SendToMain, TypeOK, HttpMsgs
    <2> QED BY <2>1, <2>2, <1>5 DEF TypeOK, ReqOK, StartSend, redisVars, mainVars, dediVars
  <1> QED BY <1>1, <1>2, <1>3, <1>4, <1>5 DEF StartStep

LEMMA TypeClient ==
  ASSUME TypeOK, ClientStep
  PROVE  TypeOK'
  <1>0. ReqOK BY DEF TypeOK, ReqOK
  <1>1. ASSUME NEW r \in Reqs, NEW u \in Users, StartBegin(r, u) PROVE TypeOK'
    <2>1. ReqOK' BY <1>1, <1>0, ReqStep DEF StartBegin, PCs
    <2> QED BY <2>1, <1>1 DEF TypeOK, ReqOK, StartBegin, redisVars, mainVars, dediVars
  <1>2. ASSUME NEW r \in Reqs, NEW u \in Users, LoginTakeover(r, u) PROVE TypeOK'
    <2>t. lock[u].t \in Tickets BY <1>2, LockTicket DEF LoginTakeover, TypeOK
    <2>1. ReqOK' /\ ticket' \in [Tickets -> Hashes]
          /\ outcome' \in [Tickets -> {"NONE", "STARTED", "CANCELLED", "EXPIRED"}]
      <3>1. CASE UNCHANGED <<ticket, outcome, req>>
        BY <3>1, <1>0 DEF ReqOK, TypeOK
      <3>2. CASE /\ Remove(lock[u].t)
                 /\ outcome' = [outcome EXCEPT ![lock[u].t] = "CANCELLED"]
                 /\ req' = [req EXCEPT ![r] = At("LOGINSEND", u, lock[u].t)]
        <4>1. ReqOK' BY <3>2, <2>t, <1>0, ReqStep DEF PCs
        <4> QED BY <4>1, <3>2, <2>t, HashType DEF TypeOK, Remove
      <3> QED BY <1>2, <3>1, <3>2 DEF LoginTakeover
    <2> QED BY <2>1, <1>2, LockType DEF TypeOK, ReqOK, LoginTakeover, DelLock, mainVars, dediVars
  <1>3. ASSUME NEW r \in Reqs, NEW u \in Users, NEW t \in Tickets, CancelEval(r, u, t) PROVE TypeOK'
    <2>1. ReqOK' BY <1>3, <1>0, ReqStep DEF CancelEval, PCs
    <2>2. ticket' \in [Tickets -> Hashes]
      <3>1. CASE Remove(t) BY <3>1, HashType DEF TypeOK, Remove
      <3>2. CASE UNCHANGED ticket BY <3>2 DEF TypeOK
      <3> QED BY <1>3, <3>1, <3>2 DEF CancelEval
    <2>3. outcome' \in [Tickets -> {"NONE", "STARTED", "CANCELLED", "EXPIRED"}]
      BY <1>3 DEF CancelEval, TypeOK
    <2> QED BY <2>1, <2>2, <2>3, <1>3 DEF TypeOK, ReqOK, CancelEval, mainVars, dediVars
  <1>4. ASSUME NEW t \in Tickets, Connect(t) PROVE TypeOK'
    BY <1>4 DEF Connect, SendToMain, TypeOK, HttpMsgs, redisVars, nodeVars, mainVars, dediVars
  <1> QED BY <1>1, <1>2, <1>3, <1>4 DEF ClientStep

LEMMA TypeNode ==
  ASSUME TypeOK, NEW r \in Reqs, NodeStep(r)
  PROVE  TypeOK'
  <1>0. ReqOK BY DEF TypeOK, ReqOK
  <1>1. CASE CancelDel(r)
    <2>1. ReqOK' BY <1>1, <1>0, ReqDone DEF CancelDel
    <2>2. h2m' \in Seq(HttpMsgs)
      <3>1. CASE req[r].pc = "DEL" /\ SendToMain("CANCEL", req[r].t)
        BY <3>1 DEF SendToMain, TypeOK, HttpMsgs
      <3>2. CASE UNCHANGED h2m BY <3>2 DEF TypeOK
      <3> QED BY <1>1, <3>1, <3>2 DEF CancelDel
    <2>3. lock' \in [Users -> Locks] BY <1>1, LockType DEF CancelDel, DelLock, TypeOK
    <2> QED BY <2>1, <2>2, <2>3, <1>1 DEF TypeOK, ReqOK, CancelDel, mainVars, dediVars
  <1>2. CASE LoginSend(r)
    <2>1. ReqOK' BY <1>2, <1>0, ReqDone DEF LoginSend
    <2>2. h2m' \in Seq(HttpMsgs)
      <3>1. CASE SendToMain("CANCEL", req[r].t)
        BY <1>2, <3>1 DEF LoginSend, SendToMain, TypeOK, HttpMsgs
      <3>2. CASE UNCHANGED h2m BY <3>2 DEF TypeOK
      <3> QED BY <1>2, <3>1, <3>2 DEF LoginSend
    <2> QED BY <2>1, <2>2, <1>2 DEF TypeOK, ReqOK, LoginSend, redisVars, mainVars, dediVars
  <1> QED BY <1>1, <1>2, TypeStart DEF NodeStep

\* HSET of a status on a group of hashes.
LEMMA SetStatusType ==
  ASSUME TypeOK, NEW g, NEW status \in Statuses, SetStatus(g, status)
  PROVE  /\ ticket' \in [Tickets -> Hashes]
         /\ \A t \in Tickets : ticket'[t].status = IF t \in g THEN status ELSE ticket[t].status
  <1>1. \A t \in Tickets : ticket[t].uid \in Users \cup {NoUser} BY DEF TypeOK, Hashes
  <1> QED BY <1>1, HashType DEF SetStatus, TypeOK

LEMMA TypeMain ==
  ASSUME TypeOK, HttpStep \/ PassStep \/ \E g \in SUBSET queue : MMPick(g)
  PROVE  TypeOK'
  <1> USE DEF TypeOK, redisVars, nodeVars, mainVars, dediVars
  <1>1. CASE HandleMatchMake
    <2>0. Head(h2m) \in HttpMsgs /\ h2m' \in Seq(HttpMsgs) BY <1>1, HeadTail DEF HandleMatchMake, Received
    <2>1. Head(h2m).t \in Tickets /\ h2m' \in Seq(HttpMsgs) BY <2>0 DEF HttpMsgs
    <2>2. queue' \in SUBSET Tickets /\ httpRecv' \in BOOLEAN /\ mainUp' \in BOOLEAN
      BY <1>1, <2>1 DEF HandleMatchMake
    <2> QED BY <2>1, <2>2, <1>1 DEF HandleMatchMake
  <1>2. CASE HandleCancel
    <2>1. h2m' \in Seq(HttpMsgs) BY <1>2 DEF HandleCancel, Received
    <2> QED BY <1>2, <2>1 DEF HandleCancel
  <1>3. CASE HandleBind
    <2>0. Head(h2m) \in HttpMsgs /\ h2m' \in Seq(HttpMsgs) BY <1>3, HeadTail DEF HandleBind, Received
    <2>1. Head(h2m).t \in Tickets /\ h2m' \in Seq(HttpMsgs) BY <2>0 DEF HttpMsgs
    <2>2. ticket' \in [Tickets -> Hashes] BY <1>3, <2>1, HashType, ZenonT(60) DEF HandleBind, Remove
    <2>3. token' \in [Tickets -> BOOLEAN] BY <1>3, <2>1 DEF HandleBind
    <2> QED BY <2>1, <2>2, <2>3, <1>3 DEF HandleBind
  <1>4. CASE MMVerify
    <2>1. ticket' \in [Tickets -> Hashes] BY <1>4, SetStatusType DEF MMVerify, Statuses
    <2> QED BY <2>1, <1>4 DEF MMVerify
  <1>5. CASE MMDistribute
    <2> DEFINE read == {t \in cur : ticket[t].status # "NONE"}
    <2>0. read \in SUBSET Tickets OBVIOUS
    <2>1. m2d' \in Seq(SUBSET Tickets)
      <3>1. CASE m2d' = Append(m2d, read) BY <3>1, <2>0
      <3>2. CASE UNCHANGED m2d BY <3>2
      <3> QED BY <1>5, <3>1, <3>2 DEF MMDistribute
    <2> QED BY <2>1, <1>5 DEF MMDistribute
  <1>6. CASE MMGiveBack
    <2>1. ticket' \in [Tickets -> Hashes] BY <1>6, SetStatusType DEF MMGiveBack, Statuses
    <2> QED BY <2>1, <1>6 DEF MMGiveBack
  <1>7. ASSUME NEW t \in Tickets, MMRecheck(t) PROVE TypeOK'
    BY <1>7 DEF MMRecheck
  <1>8. ASSUME NEW g \in SUBSET queue, MMPick(g) PROVE TypeOK'
    BY <1>8 DEF MMPick
  <1> QED BY <1>1, <1>2, <1>3, <1>4, <1>5, <1>6, <1>7, <1>8 DEF HttpStep, PassStep

LEMMA TypeDedi ==
  ASSUME TypeOK, MakeRoom \/ HandleDedi \/ ExecuteJob \/ \E t \in Tickets : Leave(t)
  PROVE  TypeOK'
  <1> USE DEF TypeOK, redisVars, nodeVars, mainVars, dediVars
  <1>1. CASE MakeRoom
    <2>1. Head(m2d) \in SUBSET Tickets /\ m2d' \in Seq(SUBSET Tickets) BY <1>1 DEF MakeRoom
    <2>2. d2m' \in Seq(DediMsgs) BY <1>1, <2>1 DEF MakeRoom, DediMsgs
    <2> QED BY <1>1, <2>1, <2>2 DEF MakeRoom
  <1>2. ASSUME NEW t \in Tickets, Leave(t) PROVE TypeOK'
    <2>2. d2m' \in Seq(DediMsgs) BY <1>2 DEF Leave, DediMsgs
    <2> QED BY <1>2, <2>2 DEF Leave
  <1>3. CASE HandleDedi
    <2>1. jobs' \in Seq(DediMsgs) /\ d2m' \in Seq(DediMsgs) BY <1>3 DEF HandleDedi
    <2> QED BY <1>3, <2>1 DEF HandleDedi
  <1>4. CASE ExecuteJob
    <2>1. Head(jobs).ts \in SUBSET Tickets /\ jobs' \in Seq(DediMsgs)
      <3>1. Head(jobs) \in DediMsgs /\ jobs' \in Seq(DediMsgs) BY <1>4, HeadTail DEF ExecuteJob
      <3> QED BY <3>1 DEF DediMsgs
    <2>2. lock' \in [Users -> Locks] /\ ticket' \in [Tickets -> Hashes] /\ token' \in [Tickets -> BOOLEAN]
      <3> DEFINE ts == Head(jobs).ts
      <3>1. CASE ExecuteToken(ts)
        <4>1. \A u \in Users : TokenLock(u, ts) \in Locks
          BY <2>1, LockType DEF TokenLock
        <4> QED BY <3>1, <4>1, SetStatusType DEF ExecuteToken, Statuses
      <3>2. CASE ExecuteLeft(ts)
        BY <3>2, LockType DEF ExecuteLeft
      <3> QED BY <1>4, <3>1, <3>2 DEF ExecuteJob
    <2> QED BY <1>4, <2>1, <2>2 DEF ExecuteJob
  <1> QED BY <1>1, <1>2, <1>3, <1>4

LEMMA TypeExpiry ==
  ASSUME TypeOK, Expiry
  PROVE  TypeOK'
  <1> USE DEF TypeOK, nodeVars, mainVars, dediVars
  <1>1. ASSUME NEW t \in Tickets, ExpireTicket(t) PROVE TypeOK'
    <2>1. ticket' \in [Tickets -> Hashes] BY <1>1, HashType DEF ExpireTicket, Remove
    <2> QED BY <1>1, <2>1 DEF ExpireTicket
  <1>2. ASSUME NEW t \in Tickets, ExpireToken(t) PROVE TypeOK'
    BY <1>2 DEF ExpireToken
  <1>3. ASSUME NEW u \in Users, ExpireLock(u) PROVE TypeOK'
    <2>1. lock' \in [Users -> Locks] BY <1>3, LockType DEF ExpireLock, DelLock
    <2> QED BY <1>3, <2>1 DEF ExpireLock
  <1> QED BY <1>1, <1>2, <1>3 DEF Expiry

LEMMA TypeNext == TypeOK /\ [Next]_vars => TypeOK'
  <1> SUFFICES ASSUME TypeOK, [Next]_vars PROVE TypeOK' OBVIOUS
  <1>1. CASE UNCHANGED vars
    BY <1>1 DEF vars, TypeOK, redisVars, nodeVars, mainVars, dediVars
  <1>2. CASE Next
    BY <1>2, TypeClient, TypeNode, TypeMain, TypeDedi, TypeExpiry DEF Next
  <1> QED BY <1>1, <1>2

(***************************************************************************)
(* Every variable keeps its type in every reachable state: Redis, the two  *)
(* Node handlers, Main's queues and the Dedicate process.                  *)
(***************************************************************************)
THEOREM TypeCorrect == Spec => []TypeOK
  BY TypeInit, TypeNext, PTL DEF Spec
-----------------------------------------------------------------------------
(* A granted cancel wins.                                                  *)

SafeInv == FreshInv /\ CommitInv /\ DispatchInv /\ CancelWins

LEMMA CancelInit == Init => CancelInv
  <1> SUFFICES ASSUME Init PROVE CancelInv OBVIOUS
  <1>1. TypeOK BY TypeInit
  <1>2. WriterInv BY AtType DEF Init, WriterInv
  <1>3. SafeInv
    BY HashType
    DEF Init, SafeInv, FreshInv, CommitInv, DispatchInv, CancelWins, Committing, Dispatched
  <1> QED BY <1>1, <1>2, <1>3 DEF CancelInv, SafeInv

\* What the steps do that neither move the commit nor the seats on: a hash
\* may disappear, and a ticket is cancelled only while its hash says WAITING.
LEMMA Frame ==
  ASSUME SafeInv, TypeOK,
         \A t \in Tickets : Fresh(t)' => Fresh(t),
         \A t \in Tickets : ticket'[t].status \in {ticket[t].status, "NONE"},
         \A t \in Tickets :
            \/ outcome'[t] = outcome[t]
            \/ ~ Fresh(t) /\ outcome'[t] # "CANCELLED"
            \/ ticket[t].status = "WAITING" /\ ticket'[t].status = "NONE",
         UNCHANGED <<phase, cur, m2d, seat, d2m, jobs>>
  PROVE  SafeInv'
  <1>1. \A t \in Tickets : Committing(t)' = Committing(t) /\ Dispatched(t)' = Dispatched(t)
    BY DEF Committing, Dispatched
  <1>2. \A t \in Tickets : ticket[t].status = "WAITING" =>
            ~ Fresh(t) /\ ~ Committing(t) /\ ~ Dispatched(t)
    BY DEF SafeInv, FreshInv, CommitInv, DispatchInv
  <1>3. FreshInv' BY <1>1, <1>2 DEF SafeInv, FreshInv
  <1>4. CommitInv' BY <1>1 DEF SafeInv, CommitInv
  <1>5. DispatchInv' BY <1>1 DEF SafeInv, DispatchInv
  <1>6. CancelWins' BY <1>1, <1>2 DEF SafeInv, CancelWins
  <1> QED BY <1>3, <1>4, <1>5, <1>6 DEF SafeInv

\* A request that ends, fails or begins writes no ticket.
LEMMA WriterKeep ==
  ASSUME TypeOK, WriterInv, NEW r \in Reqs, NEW q \in Requests,
         req' = [req EXCEPT ![r] = q], q.pc \notin {"TICKET", "SEND"},
         UNCHANGED owner
  PROVE  WriterInv' /\ \A t \in Tickets : Fresh(t)' => Fresh(t)
  BY DEF TypeOK, WriterInv, Fresh, Writing

\* Nothing about writers changes when no request moves.
LEMMA WriterSame ==
  ASSUME WriterInv, UNCHANGED <<req, owner>>
  PROVE  WriterInv' /\ \A t \in Tickets : Fresh(t)' = Fresh(t)
  BY DEF WriterInv, Fresh, Writing

LEMMA CancelStart ==
  ASSUME CancelInv, NEW r \in Reqs, StartStep(r)
  PROVE  WriterInv' /\ SafeInv'
  <1>0. TypeOK /\ WriterInv /\ SafeInv /\ ReqOK BY DEF CancelInv, SafeInv, TypeOK, ReqOK
  <1>f. req[r].pc \in PCs /\ req[r].u \in Users \cup {NoUser} /\ req[r].t \in Tickets \cup {NoTicket}
    BY <1>0, RequestFields DEF ReqOK
  <1>fail. At("FAIL", req[r].u, req[r].t) \in Requests /\ At("FAIL", req[r].u, req[r].t).pc = "FAIL"
    <2>1. "FAIL" \in PCs BY DEF PCs
    <2> QED BY <2>1, <1>f, AtType
  <1>1. CASE StartLock(r)
    <2>1. WriterInv' /\ \A t \in Tickets : Fresh(t)' => Fresh(t)
      <3>1. CASE Done(r) /\ UNCHANGED owner
        BY <3>1, <1>0, AtType, WriterKeep DEF Done
      <3>2. CASE Goto(r, "FAIL") /\ UNCHANGED owner
        BY <3>2, <1>0, <1>fail, WriterKeep DEF Goto
      <3>3. ASSUME NEW t \in Unminted,
                   owner' = [owner EXCEPT ![t] = req[r].u],
                   req' = [req EXCEPT ![r] = At("TICKET", req[r].u, t)]
            PROVE  WriterInv' /\ \A x \in Tickets : Fresh(x)' => Fresh(x)
        <4>1. t \in Tickets /\ owner[t] = NoUser BY DEF Unminted, Minted
        <4>2. req[r].u \in Users BY <1>1, <1>0 DEF StartLock, ReqOK
        <4>3. At("TICKET", req[r].u, t).pc = "TICKET" /\ At("TICKET", req[r].u, t).t = t
          BY <4>1, <4>2, AtType DEF PCs
        <4>4. req'[r].pc = "TICKET" /\ req'[r].t = t BY <3>3, <4>3, <1>0 DEF ReqOK
        <4>5. \A s \in Reqs : s # r => req'[s] = req[s] BY <3>3, <1>0 DEF ReqOK
        <4>6. \A s \in Reqs : s # r /\ req[s].pc \in {"TICKET", "SEND"} => req[s].t # t
          BY <4>1, <1>0 DEF WriterInv
        <4>7. owner'[t] # NoUser /\ \A x \in Tickets : x # t => owner'[x] = owner[x]
          BY <3>3, <4>1, <4>2, <1>0, NoUserAssumption DEF TypeOK
        <4>8. \A s \in Reqs : req[s].pc \in {"TICKET", "SEND"} => req[s].t \in Tickets
          BY <1>0 DEF ReqOK
        <4>9. WriterInv' BY <4>4, <4>5, <4>6, <4>7, <4>8, <1>0 DEF WriterInv
        <4>10. ASSUME NEW x \in Tickets, Fresh(x)' PROVE Fresh(x)
          BY <4>10, <4>1, <4>4, <4>5, <4>7 DEF Fresh, Writing
        <4> QED BY <4>9, <4>10
      <3> QED BY <1>1, <3>1, <3>2, <3>3 DEF StartLock
    <2>2. UNCHANGED <<ticket, outcome, phase, cur, m2d, seat, d2m, jobs>>
      BY <1>1 DEF StartLock, mainVars, dediVars
    <2> QED BY <2>1, <2>2, <1>0, Frame
  <1>2. CASE StartTicket(r)
    <2> DEFINE x == req[r].t
    <2>1. x \in Tickets /\ req[r].u \in Users /\ req[r].pc = "TICKET"
      BY <1>2, <1>0 DEF StartTicket, ReqOK
    <2>2. PICK pc \in {"SEND", "UNDO"} : req' = [req EXCEPT ![r] = At(pc, req[r].u, x)]
      BY <1>2 DEF StartTicket, Goto
    <2>3. req'[r].pc = pc /\ req'[r].t = x /\ \A s \in Reqs : s # r => req'[s] = req[s]
      BY <2>1, <2>2, <1>0, AtType DEF ReqOK, PCs
    <2>4. owner' = owner /\ outcome' = outcome
          /\ UNCHANGED <<phase, cur, m2d, seat, d2m, jobs>>
      BY <1>2 DEF StartTicket, mainVars, dediVars
    <2>5. WriterInv' BY <2>1, <2>2, <2>3, <2>4, <1>0 DEF WriterInv
    <2>6. Fresh(x) BY <2>1 DEF Fresh, Writing
    <2>7. ~ Fresh(x)'
      BY <2>1, <2>2, <2>3, <2>4, <1>0 DEF WriterInv, Fresh, Writing
    <2>8. \A t \in Tickets : t # x => ticket'[t] = ticket[t]
      BY <1>2, <1>0 DEF StartTicket, TypeOK
    <2>9. \A t \in Tickets : Fresh(t)' => Fresh(t) /\ t # x
      BY <2>2, <2>3, <2>4, <2>7 DEF Fresh, Writing
    <2>10. ~ Committing(x) /\ ~ Dispatched(x) /\ outcome[x] = "NONE"
      BY <2>1, <2>6, <1>0 DEF SafeInv, FreshInv
    <2>11. \A t \in Tickets : Committing(t)' = Committing(t) /\ Dispatched(t)' = Dispatched(t)
      BY <2>4 DEF Committing, Dispatched
    <2>12. FreshInv' BY <2>4, <2>8, <2>9, <2>11, <1>0 DEF SafeInv, FreshInv
    <2>13. CommitInv' BY <2>8, <2>10, <2>11, <1>0 DEF SafeInv, CommitInv
    <2>14. DispatchInv' BY <2>4, <2>8, <2>10, <2>11, <1>0 DEF SafeInv, DispatchInv
    <2>15. CancelWins' BY <2>4, <2>8, <2>10, <2>11, <1>0 DEF SafeInv, CancelWins
    <2> QED BY <2>5, <2>12, <2>13, <2>14, <2>15 DEF SafeInv
  <1>3. CASE StartUndo(r)
    <2>1. WriterInv' /\ \A t \in Tickets : Fresh(t)' => Fresh(t)
      BY <1>3, <1>0, <1>fail, WriterKeep DEF StartUndo, Goto
    <2> QED BY <2>1, <1>3, <1>0, Frame DEF StartUndo, mainVars, dediVars
  <1>4. CASE StartFail(r)
    <2>1. WriterInv' /\ \A t \in Tickets : Fresh(t)' => Fresh(t)
      BY <1>4, <1>0, AtType, WriterKeep DEF StartFail, Done
    <2> QED BY <2>1, <1>4, <1>0, Frame DEF StartFail, mainVars, dediVars
  <1>5. CASE StartSend(r)
    <2>1. WriterInv' /\ \A t \in Tickets : Fresh(t)' => Fresh(t)
      BY <1>5, <1>0, AtType, WriterKeep DEF StartSend, Done
    <2>2. req[r].pc = "SEND" /\ req[r].t \in Tickets BY <1>5, <1>0 DEF StartSend, ReqOK
    <2>3. ~ Fresh(req[r].t) BY <2>2, <1>0 DEF WriterInv, Fresh, Writing
    <2>4. \A t \in Tickets : \/ outcome'[t] = outcome[t]
                             \/ ~ Fresh(t) /\ outcome'[t] # "CANCELLED"
      BY <2>2, <2>3, <1>5, <1>0 DEF StartSend, TypeOK
    <2>5. ticket' = ticket /\ UNCHANGED <<phase, cur, m2d, seat, d2m, jobs>>
      BY <1>5 DEF StartSend, redisVars, mainVars, dediVars
    <2> QED BY <2>1, <2>4, <2>5, <1>0, Frame
  <1> QED BY <1>1, <1>2, <1>3, <1>4, <1>5 DEF StartStep

LEMMA CancelClient ==
  ASSUME CancelInv, ClientStep
  PROVE  WriterInv' /\ SafeInv'
  <1>0. TypeOK /\ WriterInv /\ SafeInv /\ ReqOK BY DEF CancelInv, SafeInv, TypeOK, ReqOK
  <1>w. \A t \in Tickets : ticket[t].status = "WAITING" => ~ Fresh(t)
    BY <1>0 DEF SafeInv, FreshInv
  <1>1. ASSUME NEW r \in Reqs, NEW u \in Users, StartBegin(r, u) PROVE WriterInv' /\ SafeInv'
    <2>1. PICK pc \in {"LOCK", "FAIL"} : req' = [req EXCEPT ![r] = At(pc, u, NoTicket)]
      BY <1>1 DEF StartBegin
    <2>2. At(pc, u, NoTicket) \in Requests /\ At(pc, u, NoTicket).pc = pc BY <2>1, AtType DEF PCs
    <2>3. UNCHANGED <<owner, ticket, outcome, phase, cur, m2d, seat, d2m, jobs>>
      BY <1>1 DEF StartBegin, redisVars, mainVars, dediVars
    <2>4. WriterInv' /\ \A t \in Tickets : Fresh(t)' => Fresh(t)
      BY <2>1, <2>2, <2>3, <1>0, WriterKeep
    <2> QED BY <2>3, <2>4, <1>0, Frame
  <1>2. ASSUME NEW r \in Reqs, NEW u \in Users, LoginTakeover(r, u) PROVE WriterInv' /\ SafeInv'
    <2> DEFINE x == lock[u].t
    <2>1. x \in Tickets BY <1>2, <1>0, LockTicket DEF LoginTakeover, TypeOK
    <2>2. UNCHANGED <<owner, phase, cur, m2d, seat, d2m, jobs>>
      BY <1>2 DEF LoginTakeover, mainVars, dediVars
    <2>3. CASE UNCHANGED <<ticket, outcome, req>>
      BY <2>2, <2>3, <1>0, WriterSame, Frame
    <2>4. CASE /\ ticket[x].status = "WAITING"
               /\ Remove(x)
               /\ outcome' = [outcome EXCEPT ![x] = "CANCELLED"]
               /\ req' = [req EXCEPT ![r] = At("LOGINSEND", u, x)]
      <3>1. At("LOGINSEND", u, x) \in Requests /\ At("LOGINSEND", u, x).pc = "LOGINSEND"
        BY <2>1, AtType DEF PCs
      <3>2. WriterInv' /\ \A t \in Tickets : Fresh(t)' => Fresh(t)
        BY <3>1, <2>2, <2>4, <1>0, WriterKeep
      <3>3. \A t \in Tickets : ticket'[t].status = IF t = x THEN "NONE" ELSE ticket[t].status
        BY <2>1, <2>4, <1>0, HashType DEF Remove, TypeOK
      <3>4. \A t \in Tickets : t # x => outcome'[t] = outcome[t] BY <2>4, <1>0 DEF TypeOK
      <3> QED BY <3>2, <3>3, <3>4, <2>2, <2>4, <1>0, Frame
    <2> QED BY <1>2, <2>3, <2>4 DEF LoginTakeover
  <1>3. ASSUME NEW r \in Reqs, NEW u \in Users, NEW x \in Tickets, CancelEval(r, u, x)
        PROVE  WriterInv' /\ SafeInv'
    <2>1. PICK pc \in {"DEL", "EXPIREDDEL"} : req' = [req EXCEPT ![r] = At(pc, u, x)]
      BY <1>3 DEF CancelEval
    <2>2. At(pc, u, x) \in Requests /\ At(pc, u, x).pc = pc BY <2>1, AtType DEF PCs
    <2>3. UNCHANGED <<owner, phase, cur, m2d, seat, d2m, jobs>>
      BY <1>3 DEF CancelEval, mainVars, dediVars
    <2>4. WriterInv' /\ \A t \in Tickets : Fresh(t)' => Fresh(t)
      BY <2>1, <2>2, <2>3, <1>0, WriterKeep
    <2>5. CASE CancelResult(u, x) = 1
      <3>1. ticket[x].status = "WAITING"
        BY <2>5, <1>0 DEF CancelResult
      <3>2. \A t \in Tickets : ticket'[t].status = IF t = x THEN "NONE" ELSE ticket[t].status
        BY <1>3, <2>5, <1>0, HashType DEF CancelEval, Remove, TypeOK
      <3>3. \A t \in Tickets : t # x => outcome'[t] = outcome[t]
        BY <1>3, <1>0 DEF CancelEval, TypeOK
      <3> QED BY <3>1, <3>2, <3>3, <2>3, <2>4, <1>0, Frame
    <2>6. CASE CancelResult(u, x) = 2
      <3>1. ticket' = ticket BY <1>3, <2>6 DEF CancelEval
      <3>2. outcome' = [outcome EXCEPT ![x] = IF @ = "STARTED" THEN "EXPIRED" ELSE @]
        BY <1>3, <2>6 DEF CancelEval
      <3>3. outcome[x] = "STARTED" => ~ Fresh(x) BY <1>0 DEF SafeInv, FreshInv
      <3>4. \A t \in Tickets : \/ outcome'[t] = outcome[t]
                               \/ ~ Fresh(t) /\ outcome'[t] # "CANCELLED"
        BY <3>2, <3>3, <1>0 DEF TypeOK
      <3> QED BY <3>1, <3>4, <2>3, <2>4, <1>0, Frame
    <2> QED BY <1>3, <2>5, <2>6 DEF CancelEval
  <1>4. ASSUME NEW t \in Tickets, Connect(t) PROVE WriterInv' /\ SafeInv'
    <2>1. UNCHANGED <<req, owner, ticket, outcome, phase, cur, m2d, seat, d2m, jobs>>
      BY <1>4 DEF Connect, redisVars, nodeVars, mainVars, dediVars
    <2> QED BY <2>1, <1>0, WriterSame, Frame
  <1> QED BY <1>1, <1>2, <1>3, <1>4 DEF ClientStep

LEMMA CancelNode ==
  ASSUME CancelInv, NEW r \in Reqs, NodeStep(r)
  PROVE  WriterInv' /\ SafeInv'
  <1>0. TypeOK /\ WriterInv /\ SafeInv BY DEF CancelInv, SafeInv
  <1>1. CASE CancelDel(r) \/ LoginSend(r)
    <2>1. /\ Done(r)
          /\ UNCHANGED <<owner, ticket, outcome, phase, cur, m2d, seat, d2m, jobs>>
      BY <1>1 DEF CancelDel, LoginSend, redisVars, mainVars, dediVars
    <2>2. WriterInv' /\ \A t \in Tickets : Fresh(t)' => Fresh(t)
      BY <2>1, <1>0, AtType, WriterKeep DEF Done
    <2> QED BY <2>1, <2>2, <1>0, Frame
  <1> QED BY <1>1, CancelStart DEF NodeStep

LEMMA CancelHttp ==
  ASSUME CancelInv, HttpStep \/ Expiry
  PROVE  WriterInv' /\ SafeInv'
  <1>0. TypeOK /\ WriterInv /\ SafeInv BY DEF CancelInv, SafeInv
  <1>1. UNCHANGED <<req, owner, outcome, phase, cur, m2d, seat, d2m, jobs>>
    BY DEF HttpStep, HandleMatchMake, HandleCancel, HandleBind,
           Expiry, ExpireTicket, ExpireToken, ExpireLock, nodeVars, mainVars, dediVars
  <1>2. ticket' = ticket \/ \E x \in Tickets : Remove(x)
    <2>1. CASE HttpStep
      <3>1. CASE HandleBind
        <4>1. Head(h2m) \in HttpMsgs BY <3>1, <1>0, HeadTail DEF HandleBind, Received, TypeOK
        <4>2. Head(h2m).t \in Tickets BY <4>1 DEF HttpMsgs
        <4> QED BY <3>1, <4>2 DEF HandleBind
      <3> QED BY <2>1, <3>1 DEF HttpStep, HandleMatchMake, HandleCancel, redisVars
    <2>2. CASE Expiry
      BY <2>2 DEF Expiry, ExpireTicket, ExpireToken, ExpireLock
    <2> QED BY <2>1, <2>2
  <1>3. \A t \in Tickets : ticket'[t].status \in {ticket[t].status, "NONE"}
    BY <1>2, <1>0, HashType, SMTT(30) DEF Remove, TypeOK
  <1> QED BY <1>0, <1>1, <1>3, WriterSame, Frame

LEMMA CancelPass ==
  ASSUME CancelInv, PassStep \/ \E g \in SUBSET queue : MMPick(g)
  PROVE  WriterInv' /\ SafeInv'
  <1>0. TypeOK /\ WriterInv /\ SafeInv BY DEF CancelInv, SafeInv
  <1>1. UNCHANGED <<req, owner, outcome, seat, d2m, jobs>>
    BY DEF PassStep, MMVerify, MMDistribute, MMGiveBack, MMRecheck, MMPick, nodeVars, mainVars, dediVars
  <1>2. WriterInv' /\ \A t \in Tickets : Fresh(t)' = Fresh(t) BY <1>0, <1>1, WriterSame
  <1> USE DEF SafeInv, FreshInv, CommitInv, DispatchInv, CancelWins
  <1>3. CASE (\E t \in Tickets : MMRecheck(t)) \/ \E g \in SUBSET queue : MMPick(g)
    <2>1. UNCHANGED <<ticket, m2d>> /\ phase' # "DISTRIBUTE"
      BY <1>3 DEF MMRecheck, MMPick, redisVars, dediVars
    <2>2. \A t \in Tickets : ~ Committing(t)' /\ Dispatched(t)' = Dispatched(t)
      BY <1>1, <2>1 DEF Committing, Dispatched
    <2> QED BY <1>0, <1>1, <1>2, <2>1, <2>2
  <1>4. CASE MMVerify
    <2>1. UNCHANGED <<m2d, cur>> BY <1>4 DEF MMVerify, dediVars
    <2>2. \A t \in Tickets : Dispatched(t)' = Dispatched(t) BY <1>1, <2>1 DEF Dispatched
    <2>3. CASE ticket' = ticket /\ phase' = "RECHECK"
      <3>1. \A t \in Tickets : ~ Committing(t)' BY <2>3 DEF Committing
      <3> QED BY <1>0, <1>1, <1>2, <2>2, <2>3, <3>1
    <2>4. CASE /\ \A t \in cur : ticket[t].status = "WAITING"
               /\ SetStatus(cur, "INPROGRESS")
               /\ phase' = "DISTRIBUTE"
      <3>1. \A t \in Tickets :
                ticket'[t].status = IF t \in cur THEN "INPROGRESS" ELSE ticket[t].status
        BY <2>4, <1>0, SetStatusType DEF Statuses
      <3>2. \A t \in Tickets : Committing(t)' <=> t \in cur BY <2>1, <2>4 DEF Committing
      <3>3. \A t \in Tickets : t \in cur =>
                ~ Fresh(t) /\ ~ Dispatched(t) /\ outcome[t] # "CANCELLED"
        BY <2>4, <1>0
      <3> QED BY <1>0, <1>1, <1>2, <2>2, <3>1, <3>2, <3>3
    <2> QED BY <1>4, <2>3, <2>4 DEF MMVerify
  <1>5. CASE MMDistribute
    <2> DEFINE read == {t \in cur : ticket[t].status # "NONE"}
    <2>1. ticket' = ticket /\ phase = "DISTRIBUTE" BY <1>5 DEF MMDistribute, redisVars
    <2>2. CASE UNCHANGED <<phase, cur, m2d>>
      <3>1. \A t \in Tickets : Committing(t)' = Committing(t) /\ Dispatched(t)' = Dispatched(t)
        BY <1>1, <2>2 DEF Committing, Dispatched
      <3> QED BY <1>0, <1>1, <1>2, <2>1, <3>1
    <2>3. CASE m2d' = Append(m2d, read) /\ phase' = "IDLE"
      <3>1. \A t \in Tickets : ~ Committing(t)' BY <2>3 DEF Committing
      <3>2. m2d \in Seq(SUBSET Tickets) /\ read \in SUBSET Tickets BY <1>0 DEF TypeOK
      <3>3. \A t \in Tickets : Dispatched(t)' => Dispatched(t) \/ t \in read
        BY <3>2, <2>3, <1>1 DEF Dispatched
      <3>4. \A t \in Tickets : t \in read => Committing(t) BY <2>1 DEF Committing
      <3> QED BY <1>0, <1>1, <1>2, <2>1, <3>1, <3>3, <3>4
    <2> QED BY <1>5, <2>2, <2>3 DEF MMDistribute
  <1>6. CASE MMGiveBack
    <2>1. phase = "DISTRIBUTE" /\ phase' = "IDLE" /\ UNCHANGED m2d /\ SetStatus(cur, "WAITING")
      BY <1>6 DEF MMGiveBack, dediVars
    <2>2. \A t \in Tickets : ticket'[t].status = IF t \in cur THEN "WAITING" ELSE ticket[t].status
      BY <2>1, <1>0, SetStatusType DEF Statuses
    <2>3. \A t \in Tickets : ~ Committing(t)' /\ Dispatched(t)' = Dispatched(t)
      BY <1>1, <2>1 DEF Committing, Dispatched
    <2>4. \A t \in Tickets : t \in cur => Committing(t) BY <2>1 DEF Committing
    <2> QED BY <1>0, <1>1, <1>2, <2>2, <2>3, <2>4
  <1> QED BY <1>3, <1>4, <1>5, <1>6 DEF PassStep

LEMMA MsgTickets ==
  ASSUME NEW q \in Seq(DediMsgs), NEW i \in 1 .. Len(q)
  PROVE  q[i].ts \subseteq Tickets
  <1>1. q[i] \in DediMsgs OBVIOUS
  <1> QED BY <1>1 DEF DediMsgs

LEMMA CancelDedi ==
  ASSUME CancelInv, MakeRoom \/ HandleDedi \/ ExecuteJob \/ \E t \in Tickets : Leave(t)
  PROVE  WriterInv' /\ SafeInv'
  <1>0. TypeOK /\ WriterInv /\ SafeInv BY DEF CancelInv, SafeInv
  <1>1. UNCHANGED <<req, owner, outcome, phase, cur>>
    BY DEF MakeRoom, HandleDedi, ExecuteJob, Leave, nodeVars, mainVars
  <1>2. WriterInv' /\ \A t \in Tickets : Fresh(t)' = Fresh(t) BY <1>0, <1>1, WriterSame
  <1>3. \A t \in Tickets : Committing(t)' = Committing(t) BY <1>1 DEF Committing
  <1> USE DEF SafeInv, FreshInv, CommitInv, CancelWins
  <1>4. CASE MakeRoom
    <2>1. UNCHANGED <<ticket, jobs>> BY <1>4 DEF MakeRoom, redisVars, mainVars
    <2>2. m2d \in Seq(SUBSET Tickets) /\ m2d # <<>> /\ m2d' = Tail(m2d) BY <1>4, <1>0 DEF MakeRoom, TypeOK
    <2>3. \A t \in Tickets : seat'[t] = IF t \in Head(m2d) THEN "SEATED" ELSE seat[t]
      BY <1>4 DEF MakeRoom
    <2>4. \A t \in Tickets : t \in Head(m2d) => \E i \in 1 .. Len(m2d) : t \in m2d[i]
      BY <2>2
    <2>5. \A t \in Tickets : (\E i \in 1 .. Len(m2d') : t \in m2d'[i]) => \E i \in 1 .. Len(m2d) : t \in m2d[i]
      BY <2>2
    <2>6. \A t \in Tickets : Dispatched(t)' => Dispatched(t)
      BY <2>3, <2>4, <2>5 DEF Dispatched
    <2>7. d2m \in Seq(DediMsgs) /\ Head(m2d) \in SUBSET Tickets BY <1>0, <2>2 DEF TypeOK
    <2>8. \A i \in 1 .. Len(d2m) : d2m[i].ts \subseteq Tickets BY <2>7, MsgTickets
    <2>9. \A i \in 1 .. Len(jobs) : jobs[i].ts \subseteq Tickets BY <1>0, MsgTickets DEF TypeOK
    <2>10. \A i \in 1 .. Len(d2m') : \A t \in d2m'[i].ts : seat'[t] # "NONE"
      <3> DEFINE m == [type |-> "TOKEN", ts |-> Head(m2d)]
      <3>1. d2m' = Append(d2m, m) /\ m.ts = Head(m2d) BY <1>4 DEF MakeRoom
      <3>2. \A i \in 1 .. Len(d2m') : (i \in 1 .. Len(d2m) /\ d2m'[i] = d2m[i]) \/ d2m'[i] = m
        BY <3>1, <2>7
      <3> QED BY <3>1, <3>2, <2>3, <2>7, <2>8, <1>0 DEF DispatchInv
    <2>11. DispatchInv' BY <2>1, <2>3, <2>6, <2>9, <2>10, <1>0 DEF DispatchInv
    <2> QED BY <1>0, <1>1, <1>2, <1>3, <2>1, <2>6, <2>11
  <1>5. ASSUME NEW x \in Tickets, Leave(x) PROVE WriterInv' /\ SafeInv'
    <2>1. UNCHANGED <<ticket, jobs, m2d>> /\ seat[x] = "SEATED" BY <1>5 DEF Leave, redisVars, mainVars
    <2>2. \A t \in Tickets : seat'[t] = IF t = x THEN "LEFT" ELSE seat[t]
      BY <1>5, <1>0 DEF Leave, TypeOK
    <2>3. \A t \in Tickets : Dispatched(t)' = Dispatched(t) BY <2>1, <2>2 DEF Dispatched
    <2>4. d2m \in Seq(DediMsgs) BY <1>0 DEF TypeOK
    <2>5. \A i \in 1 .. Len(d2m) : d2m[i].ts \subseteq Tickets BY <2>4, MsgTickets
    <2>6. \A i \in 1 .. Len(jobs) : jobs[i].ts \subseteq Tickets BY <1>0, MsgTickets DEF TypeOK
    <2>7. \A i \in 1 .. Len(d2m') : \A t \in d2m'[i].ts : seat'[t] # "NONE"
      <3> DEFINE m == [type |-> "LEFT", ts |-> {x}]
      <3>1. d2m' = Append(d2m, m) /\ m.ts = {x} BY <1>5 DEF Leave
      <3>2. \A i \in 1 .. Len(d2m') : (i \in 1 .. Len(d2m) /\ d2m'[i] = d2m[i]) \/ d2m'[i] = m
        BY <3>1, <2>4
      <3> QED BY <3>1, <3>2, <2>2, <2>5, <1>0 DEF DispatchInv
    <2>8. DispatchInv' BY <2>1, <2>2, <2>3, <2>6, <2>7, <1>0 DEF DispatchInv
    <2> QED BY <1>0, <1>1, <1>2, <1>3, <2>1, <2>3, <2>8
  <1>6. CASE HandleDedi
    <2>1. UNCHANGED <<ticket, m2d, seat>> BY <1>6 DEF HandleDedi, redisVars
    <2>2. \A t \in Tickets : Dispatched(t)' = Dispatched(t) BY <2>1 DEF Dispatched
    <2>3. d2m \in Seq(DediMsgs) /\ jobs \in Seq(DediMsgs) /\ d2m # <<>> BY <1>6, <1>0 DEF HandleDedi, TypeOK
    <2>4. d2m' = Tail(d2m) /\ jobs' = Append(jobs, Head(d2m)) BY <1>6 DEF HandleDedi
    <2>5. \A i \in 1 .. Len(d2m') : d2m'[i] = d2m[i + 1] /\ i + 1 \in 1 .. Len(d2m) BY <2>3, <2>4
    <2>6. \A i \in 1 .. Len(jobs') : (i \in 1 .. Len(jobs) /\ jobs'[i] = jobs[i]) \/ jobs'[i] = d2m[1]
      BY <2>3, <2>4
    <2>7. 1 \in 1 .. Len(d2m) BY <2>3
    <2>8. DispatchInv' BY <2>1, <2>2, <2>5, <2>6, <2>7, <1>0 DEF DispatchInv
    <2> QED BY <1>0, <1>1, <1>2, <1>3, <2>1, <2>2, <2>8
  <1>7. CASE ExecuteJob
    <2>1. UNCHANGED <<m2d, seat, d2m>> BY <1>7 DEF ExecuteJob, dediVars
    <2>2. \A t \in Tickets : Dispatched(t)' = Dispatched(t) BY <2>1 DEF Dispatched
    <2>3. jobs \in Seq(DediMsgs) /\ jobs # <<>> /\ jobs' = Tail(jobs) BY <1>7, <1>0 DEF ExecuteJob, TypeOK
    <2>4. \A i \in 1 .. Len(jobs') : jobs'[i] = jobs[i + 1] /\ i + 1 \in 1 .. Len(jobs) BY <2>3
    <2>5. Head(jobs) = jobs[1] /\ 1 \in 1 .. Len(jobs) BY <2>3
    <2> DEFINE ts == Head(jobs).ts
    <2>6. \A t \in Tickets : t \in ts => Dispatched(t)
      BY <2>5, <1>0 DEF DispatchInv, Dispatched
    <2>e. ExecuteToken(ts) \/ ExecuteLeft(ts) BY <1>7 DEF ExecuteJob
    <2> HIDE DEF ts
    <2>7. \A t \in Tickets : \/ ticket'[t].status = ticket[t].status
                             \/ t \in ts /\ ticket'[t].status = "SUCCESS"
      <3>1. CASE ExecuteToken(ts)
        <4>1. SetStatus(ts, "SUCCESS") /\ "SUCCESS" \in Statuses
          BY <3>1 DEF ExecuteToken, Statuses
        <4> QED BY <4>1, <1>0, SetStatusType
      <3>2. CASE ExecuteLeft(ts)
        BY <3>2 DEF ExecuteLeft
      <3> QED BY <2>e, <3>1, <3>2
    <2>8. DispatchInv' BY <2>1, <2>2, <2>4, <2>7, <1>0 DEF DispatchInv
    <2> QED BY <1>0, <1>1, <1>2, <1>3, <2>2, <2>6, <2>7, <2>8
  <1> QED BY <1>4, <1>5, <1>6, <1>7

LEMMA CancelNext == CancelInv /\ [Next]_vars => CancelInv'
  <1> SUFFICES ASSUME CancelInv, [Next]_vars PROVE CancelInv' OBVIOUS
  <1>1. TypeOK' BY TypeNext DEF CancelInv
  <1>2. WriterInv' /\ SafeInv'
    <2>1. CASE UNCHANGED vars
      <3>1. UNCHANGED <<req, owner, ticket, outcome, phase, cur, m2d, seat, d2m, jobs>>
        BY <2>1 DEF vars, redisVars, nodeVars, mainVars, dediVars
      <3> QED BY <3>1, WriterSame, Frame DEF CancelInv, SafeInv
    <2>2. CASE Next
      BY <2>2, CancelClient, CancelNode, CancelHttp, CancelPass, CancelDedi DEF Next
    <2> QED BY <2>1, <2>2
  <1> QED BY <1>1, <1>2 DEF CancelInv, SafeInv

(***************************************************************************)
(* A cancel the server granted wins for good, whatever faults, expiries    *)
(* and overlapping requests occur: Main never makes a seat for the ticket. *)
(***************************************************************************)
THEOREM CancelIsFinal == Spec => []CancelWins
  <1>1. CancelInv => CancelWins BY DEF CancelInv
  <1> QED BY CancelInit, CancelNext, <1>1, PTL DEF Spec
-----------------------------------------------------------------------------
(* One request of an account at a time and no faults: the lock of an       *)
(* account is the ticket that is alive.                                    *)

\* What the Dedicate process has reported and the proxy has not executed, in
\* the order in which it will be.
Pending == jobs \o d2m

LeftMsg(t) == [type |-> "LEFT", ts |-> {t}]

TokenPending(t) == \E i \in 1 .. Len(Pending) : Pending[i].type = "TOKEN" /\ t \in Pending[i].ts
LeftPending(t)  == \E i \in 1 .. Len(Pending) : Pending[i] = LeftMsg(t)

\* The ticket keeps its account from starting another one.
Holding(t) ==
    \/ \E r \in Reqs : Writing(r, t)
    \/ seat[t] = "NONE" /\ ticket[t].status \in {"WAITING", "INPROGRESS"}
    \/ seat[t] = "SEATED"
    \/ seat[t] = "LEFT" /\ LeftPending(t)

\* The clients of match_play.
CalmClients == SerialClients = TRUE /\ TicketTTL = FALSE /\ MySqlFault = FALSE /\ RedisFault = FALSE

\* An account has one request in flight, which is about its own ticket; the
\* DEL of a cancel finds the lock it is about, or none.
SerialInv ==
    /\ \A r \in Reqs : req[r].pc \notin {"UNDO", "FAIL"}
    /\ \A r, s \in Reqs : Active(r) /\ Active(s) /\ req[r].u = req[s].u => r = s
    /\ \A r \in Reqs : req[r].pc \in {"TICKET", "SEND", "DEL"} => owner[req[r].t] = req[r].u
    /\ \A r \in Reqs : req[r].pc = "DEL" =>
          lock[req[r].u].t = req[r].t /\ outcome[req[r].t] = "CANCELLED"
    /\ \A r \in Reqs : req[r].pc = "EXPIREDDEL" => lock[req[r].u] = NoLock

\* Ids are minted in order, and a client is told the one it got.
MintInv ==
    /\ \A s, t \in Tickets : owner[s] # NoUser /\ owner[t] = NoUser => s < t
    /\ \A t \in Tickets : owner[t] # NoUser /\ outcome[t] = "NONE" =>
          \E r \in Reqs : req[r].pc \in {"TICKET", "SEND"} /\ req[r].t = t

\* A hash has the uid of its ticket; what is committed stays INPROGRESS until
\* its token is written, and the token lives as long as the hash.
HashInv ==
    /\ \A t \in Tickets : ticket[t].status # "NONE" => owner[t] \in Users /\ ticket[t].uid = owner[t]
    /\ \A t \in Tickets : ticket[t].status = "NONE" => ticket[t].uid = NoUser
    /\ \A t \in Tickets : Committing(t) => ticket[t].status = "INPROGRESS"
    /\ \A t \in Tickets : TokenPending(t) => ticket[t].status = "INPROGRESS"
    /\ \A t \in Tickets : token[t] => ticket[t].status = "SUCCESS"
    /\ \A t \in Tickets : ticket[t].status = "SUCCESS" => seat[t] # "NONE"

\* A ticket is in one group on the socket to the Dedicate process.
GroupInv ==
    /\ \A i \in 1 .. Len(m2d) : \A t \in m2d[i] : seat[t] = "NONE" /\ ticket[t].status = "INPROGRESS"
    /\ \A i, j \in 1 .. Len(m2d) : \A t \in m2d[i] : t \in m2d[j] => i = j

\* The token of a ticket is reported once, its departure once and later.
ReportInv ==
    /\ \A i, j \in 1 .. Len(Pending) : \A t \in Tickets :
          /\ t \in Pending[i].ts /\ t \in Pending[j].ts
          /\ Pending[i].type = Pending[j].type
          => i = j
    /\ \A i, j \in 1 .. Len(Pending) : \A t \in Tickets :
          /\ t \in Pending[i].ts /\ Pending[i].type = "TOKEN"
          /\ t \in Pending[j].ts /\ Pending[j].type = "LEFT"
          => i < j
    /\ \A i \in 1 .. Len(Pending) : Pending[i].type = "LEFT" =>
          \E t \in Tickets : Pending[i] = LeftMsg(t) /\ seat[t] = "LEFT"
    /\ \A t \in Tickets : TokenPending(t) /\ seat[t] = "LEFT" => LeftPending(t)

\* The lock is set exactly as long as a ticket of the account needs it, names
\* that ticket, the newest of the account, and says INGAME from the token on.
HoldInv ==
    /\ \A t \in Tickets : Holding(t) => owner[t] \in Users /\ lock[owner[t]].t = t
    /\ \A u \in Users, t \in Tickets : lock[u].t = t =>
          /\ owner[t] = u
          /\ Holding(t) \/ \E r \in Reqs : req[r].pc = "DEL" /\ req[r].u = u
          /\ \A s \in Tickets : owner[s] = u => s <= t
    /\ \A u \in Users, t \in Tickets :
          lock[u].t = t /\ lock[u].kind = "TICKET" /\ seat[t] # "NONE" => TokenPending(t)

PlayInv == CancelInv /\ SerialInv /\ MintInv /\ HashInv /\ GroupInv /\ ReportInv /\ HoldInv
-----------------------------------------------------------------------------
(* The pending reports as one queue.                                       *)

\* The fields of a report, and what is in the queue.
LEMMA PendingType ==
  ASSUME TypeOK
  PROVE  /\ Pending \in Seq(DediMsgs) /\ Len(Pending) \in Nat
         /\ \A i \in 1 .. Len(Pending) :
               Pending[i] \in DediMsgs /\ Pending[i].ts \subseteq Tickets /\ Pending[i].type \in {"TOKEN", "LEFT"}
         /\ Len(Pending) = Len(jobs) + Len(d2m)
         /\ \A i \in 1 .. Len(jobs) : Pending[i] = jobs[i]
         /\ \A i \in 1 .. Len(d2m) : Pending[Len(jobs) + i] = d2m[i]
  <1>1. jobs \in Seq(DediMsgs) /\ d2m \in Seq(DediMsgs) BY DEF TypeOK
  <1>2. Pending \in Seq(DediMsgs) /\ Len(Pending) \in Nat BY <1>1 DEF Pending
  <1>3. \A i \in 1 .. Len(Pending) : Pending[i] \in DediMsgs BY <1>2
  <1>4. \A m \in DediMsgs : m.ts \subseteq Tickets /\ m.type \in {"TOKEN", "LEFT"} BY DEF DediMsgs
  <1>5. /\ Len(Pending) = Len(jobs) + Len(d2m)
        /\ \A i \in 1 .. Len(jobs) : Pending[i] = jobs[i]
        /\ \A i \in 1 .. Len(d2m) : Pending[Len(jobs) + i] = d2m[i]
    BY <1>1 DEF Pending
  <1> QED BY <1>2, <1>3, <1>4, <1>5

\* Handle_D2M_... moves a report from the socket to the end of the jobs.
LEMMA PendingHandle ==
  ASSUME TypeOK, d2m # <<>>, jobs' = Append(jobs, Head(d2m)), d2m' = Tail(d2m)
  PROVE  Pending' = Pending
  <1>1. jobs \in Seq(DediMsgs) /\ d2m \in Seq(DediMsgs) BY DEF TypeOK
  <1> QED BY <1>1 DEF Pending

\* A report goes to the end of the queue.
LEMMA PendingAppend ==
  ASSUME TypeOK, NEW m \in DediMsgs, jobs' = jobs, d2m' = Append(d2m, m)
  PROVE  /\ Len(Pending') = Len(Pending) + 1
         /\ \A i \in 1 .. Len(Pending) : Pending'[i] = Pending[i]
         /\ Pending'[Len(Pending) + 1] = m
  <1>1. jobs \in Seq(DediMsgs) /\ d2m \in Seq(DediMsgs) BY DEF TypeOK
  <1> QED BY <1>1 DEF Pending

\* The proxy takes the first.
LEMMA PendingTail ==
  ASSUME TypeOK, jobs # <<>>, jobs' = Tail(jobs), d2m' = d2m
  PROVE  /\ Len(Pending) = Len(Pending') + 1 /\ Len(Pending') \in Nat
         /\ \A i \in 1 .. Len(Pending') : Pending'[i] = Pending[i + 1]
         /\ Pending[1] = Head(jobs)
  <1>1. jobs \in Seq(DediMsgs) /\ d2m \in Seq(DediMsgs) BY DEF TypeOK
  <1> QED BY <1>1 DEF Pending

LEMMA PendingSame ==
  ASSUME Pending' = Pending
  PROVE  \A t \in Tickets : TokenPending(t)' = TokenPending(t) /\ LeftPending(t)' = LeftPending(t)
  BY DEF TokenPending, LeftPending

LEMMA LeftMsgFields == \A t \in Tickets : LeftMsg(t) \in DediMsgs /\ LeftMsg(t).type = "LEFT" /\ LeftMsg(t).ts = {t}
  BY DEF LeftMsg, DediMsgs
-----------------------------------------------------------------------------
(* Steps that leave hashes, seats and reports alone.                       *)

RestInv == SerialInv /\ MintInv /\ HashInv /\ GroupInv /\ ReportInv /\ HoldInv

\* The types that the steps below need.
LEMMA PlayTypes ==
  ASSUME PlayInv
  PROVE  /\ TypeOK /\ ReqOK /\ WriterInv /\ SafeInv /\ RestInv
         /\ req \in [Reqs -> Requests]
         /\ lock \in [Users -> Locks] /\ ticket \in [Tickets -> Hashes] /\ owner \in [Tickets -> Users \cup {NoUser}]
         /\ \A u \in Users : lock[u] # NoLock => lock[u].t \in Tickets
         /\ NoLock.t = NoTicket /\ NoLock.kind = "NONE" /\ NoTicket \notin Tickets
  <1>1. TypeOK /\ WriterInv /\ SafeInv /\ RestInv BY DEF PlayInv, CancelInv, SafeInv, RestInv
  <1>2. \A l \in Locks : l # NoLock => l.t \in Tickets BY DEF Locks, Held, InGame
  <1>3. NoLock.t = NoTicket /\ NoLock.kind = "NONE" BY DEF NoLock
  <1>4. NoTicket \notin Tickets BY DEF NoTicket, Tickets
  <1>5. lock \in [Users -> Locks] BY <1>1 DEF TypeOK
  <1>6. \A u \in Users : lock[u] # NoLock => lock[u].t \in Tickets BY <1>2, <1>5
  <1>7. req \in [Reqs -> Requests] /\ ticket \in [Tickets -> Hashes] /\ owner \in [Tickets -> Users \cup {NoUser}]
    BY <1>1 DEF TypeOK
  <1>8. ReqOK BY <1>1 DEF TypeOK, ReqOK
  <1> QED BY <1>1, <1>3, <1>4, <1>5, <1>6, <1>7, <1>8

\* Hashes, groups and reports do not depend on the requests.
LEMMA DataSame ==
  ASSUME RestInv, UNCHANGED <<ticket, token, seat, m2d>>, Pending' = Pending,
         \A t \in Tickets : Committing(t)' => Committing(t),
         \A t \in Tickets : owner[t] # NoUser => owner'[t] = owner[t],
         NoUser \notin Users
  PROVE  HashInv' /\ GroupInv' /\ ReportInv'
  <1>1. \A t \in Tickets : TokenPending(t)' = TokenPending(t) /\ LeftPending(t)' = LeftPending(t)
    BY PendingSame
  <1>2. HashInv' BY <1>1 DEF RestInv, HashInv
  <1>3. GroupInv' BY DEF RestInv, GroupInv
  <1>4. ReportInv' BY <1>1 DEF RestInv, ReportInv
  <1> QED BY <1>2, <1>3, <1>4

\* No request moves, and nothing that counts.
LEMMA PlayQuiet ==
  ASSUME PlayInv, UNCHANGED <<req, owner, outcome, lock, ticket, token, seat, m2d>>, Pending' = Pending,
         \A t \in Tickets : Committing(t)' => Committing(t)
  PROVE  RestInv'
  <1>0. RestInv BY PlayTypes
  <1>1. HashInv' /\ GroupInv' /\ ReportInv' BY <1>0, DataSame, NoUserAssumption
  <1>2. SerialInv' BY <1>0 DEF RestInv, SerialInv, Active
  <1>3. MintInv' BY <1>0 DEF RestInv, MintInv
  <1>4. \A t \in Tickets : TokenPending(t)' = TokenPending(t) /\ LeftPending(t)' = LeftPending(t)
    BY PendingSame
  <1>5. \A t \in Tickets : Holding(t)' = Holding(t) BY <1>4 DEF Holding, Writing
  <1>6. HoldInv' BY <1>0, <1>4, <1>5 DEF RestInv, HoldInv
  <1> QED BY <1>1, <1>2, <1>3, <1>6 DEF RestInv

\* A request begins or ends that neither makes nor withdraws a ticket.
LEMMA PlayRequest ==
  ASSUME PlayInv, NEW r \in Reqs, NEW q \in Requests, req' = [req EXCEPT ![r] = q],
         req[r].pc \notin {"TICKET", "SEND", "DEL"},
         q.pc \notin {"TICKET", "SEND", "DEL", "UNDO", "FAIL"},
         q.pc # "IDLE" => \A s \in Reqs : s # r /\ Active(s) => req[s].u # q.u,
         q.pc = "EXPIREDDEL" => lock[q.u] = NoLock,
         UNCHANGED <<owner, lock, ticket, token, seat, m2d, phase, cur>>, Pending' = Pending,
         \A t \in Tickets : outcome'[t] = outcome[t] \/ (outcome[t] = "STARTED" /\ outcome'[t] = "EXPIRED")
  PROVE  RestInv'
  <1>0. RestInv /\ req \in [Reqs -> Requests] /\ ReqOK BY PlayTypes
  <1>c. \A t \in Tickets : Committing(t)' = Committing(t) BY DEF Committing
  <1>1. HashInv' /\ GroupInv' /\ ReportInv' BY <1>0, <1>c, DataSame, NoUserAssumption
  <1>r. req'[r] = q /\ \A s \in Reqs : s # r => req'[s] = req[s] BY <1>0
  <1>d. \A s \in Reqs : req[s].pc = "DEL" => req[s].t \in Tickets BY <1>0 DEF ReqOK
  <1>2. SerialInv'
    <2> USE DEF RestInv, SerialInv, Active
    <2>1. \A s \in Reqs : req'[s].pc \notin {"UNDO", "FAIL"} BY <1>0, <1>r
    <2>2. \A a, b \in Reqs : Active(a)' /\ Active(b)' /\ req'[a].u = req'[b].u => a = b BY <1>0, <1>r
    <2>3. \A s \in Reqs : req'[s].pc \in {"TICKET", "SEND", "DEL"} => owner'[req'[s].t] = req'[s].u
      BY <1>0, <1>r
    <2>4. \A s \in Reqs : req'[s].pc = "DEL" =>
             lock'[req'[s].u].t = req'[s].t /\ outcome'[req'[s].t] = "CANCELLED"
      BY <1>0, <1>r, <1>d
    <2>5. \A s \in Reqs : req'[s].pc = "EXPIREDDEL" => lock'[req'[s].u] = NoLock BY <1>0, <1>r
    <2> QED BY <2>1, <2>2, <2>3, <2>4, <2>5
  <1>3. MintInv' BY <1>0, <1>r DEF RestInv, MintInv
  <1>4. \A t \in Tickets : TokenPending(t)' = TokenPending(t) /\ LeftPending(t)' = LeftPending(t)
    BY PendingSame
  <1>5. \A t \in Tickets : Holding(t)' = Holding(t) BY <1>0, <1>r, <1>4 DEF Holding, Writing
  <1>6. HoldInv' BY <1>0, <1>r, <1>4, <1>5 DEF RestInv, HoldInv
  <1> QED BY <1>1, <1>2, <1>3, <1>6 DEF RestInv
-----------------------------------------------------------------------------
(* The routes.                                                             *)

\* SET NX: the new ticket is the newest, and the only one of its account.
LEMMA PlayMint ==
  ASSUME PlayInv, NEW r \in Reqs, NEW x \in Unminted, req[r].pc = "LOCK",
         lock[req[r].u] = NoLock,
         \A s \in Unminted : x <= s,
         owner' = [owner EXCEPT ![x] = req[r].u],
         lock' = [lock EXCEPT ![req[r].u] = Held(x)],
         req' = [req EXCEPT ![r] = At("TICKET", req[r].u, x)],
         UNCHANGED <<ticket, token, outcome, seat, m2d, phase, cur>>, Pending' = Pending
  PROVE  RestInv'
  <1>0. RestInv /\ ReqOK /\ SafeInv /\ WriterInv /\ req \in [Reqs -> Requests] BY PlayTypes
  <1>t. lock \in [Users -> Locks] /\ owner \in [Tickets -> Users \cup {NoUser}] BY PlayTypes
  <1>x. x \in Tickets /\ owner[x] = NoUser BY DEF Unminted, Minted
  <1>u. PICK u \in Users : u = req[r].u BY <1>0 DEF ReqOK
  <1>r. /\ req'[r].pc = "TICKET" /\ req'[r].u = u /\ req'[r].t = x
        /\ \A s \in Reqs : s # r => req'[s] = req[s]
    BY <1>0, <1>x, <1>u, AtType DEF PCs
  <1>o. owner'[x] = u /\ \A t \in Tickets : t # x => owner'[t] = owner[t] BY <1>x, <1>t, <1>u
  <1>l. lock'[u] = Held(x) /\ \A v \in Users : v # u => lock'[v] = lock[v] BY <1>u, <1>t
  <1>h. Held(x).t = x /\ Held(x).kind = "TICKET" BY DEF Held
  <1>c. \A t \in Tickets : Committing(t)' = Committing(t) BY DEF Committing
  <1>1. HashInv' /\ GroupInv' /\ ReportInv' BY <1>0, <1>c, <1>o, <1>x, DataSame, NoUserAssumption
  <1>s. \A s \in Reqs : req[s].pc \in {"TICKET", "SEND", "DEL"} => req[s].t \in Tickets /\ req[s].u \in Users
    BY <1>0 DEF ReqOK
  <1>a. \A s \in Reqs : s # r /\ Active(s) => req[s].u # u BY <1>0, <1>u DEF RestInv, SerialInv, Active
  <1>e. \A s \in Reqs : req[s].pc = "EXPIREDDEL" => req[s].u \in Users BY <1>0 DEF ReqOK
  <1>2. SerialInv'
    <2> USE DEF RestInv, SerialInv, Active
    <2>1. \A s \in Reqs : req'[s].pc \notin {"UNDO", "FAIL"} BY <1>0, <1>r
    <2>2. \A a, b \in Reqs : Active(a)' /\ Active(b)' /\ req'[a].u = req'[b].u => a = b BY <1>0, <1>r, <1>a
    <2>3. \A s \in Reqs : req'[s].pc \in {"TICKET", "SEND", "DEL"} => owner'[req'[s].t] = req'[s].u
      BY <1>0, <1>r, <1>o, <1>s, <1>x, NoUserAssumption
    <2>4. \A s \in Reqs : req'[s].pc = "DEL" =>
             lock'[req'[s].u].t = req'[s].t /\ outcome'[req'[s].t] = "CANCELLED"
      BY <1>0, <1>r, <1>a, <1>l, <1>s
    <2>5. \A s \in Reqs : req'[s].pc = "EXPIREDDEL" => lock'[req'[s].u] = NoLock
      BY <1>0, <1>r, <1>a, <1>l, <1>e
    <2> QED BY <2>1, <2>2, <2>3, <2>4, <2>5
  <1>n. \A t \in Tickets : owner[t] = NoUser => x <= t BY DEF Unminted, Minted
  <1>3. MintInv'
    <2>1. \A s, t \in Tickets : owner'[s] # NoUser /\ owner'[t] = NoUser => s < t
      <3>1. Tickets \subseteq Int BY DEF Tickets
      <3> QED BY <3>1, <1>0, <1>o, <1>n, <1>x, <1>u DEF RestInv, MintInv
    <2>2. \A t \in Tickets : owner'[t] # NoUser /\ outcome'[t] = "NONE" =>
             \E s \in Reqs : req'[s].pc \in {"TICKET", "SEND"} /\ req'[s].t = t
      BY <1>0, <1>o, <1>r DEF RestInv, MintInv
    <2> QED BY <2>1, <2>2 DEF MintInv
  <1>4. \A t \in Tickets : TokenPending(t)' = TokenPending(t) /\ LeftPending(t)' = LeftPending(t)
    BY PendingSame
  <1>5. \A t \in Tickets : t # x => Holding(t)' = Holding(t) BY <1>0, <1>r, <1>4 DEF Holding, Writing
  <1>6. Holding(x)' BY <1>r DEF Holding, Writing
  <1>7. seat[x] = "NONE" BY <1>0, <1>x DEF SafeInv, FreshInv, Fresh, Dispatched
  <1>8. \A t \in Tickets : lock[u].t # t BY <1>u, PlayTypes
  <1>9. HoldInv'
    <2> USE DEF RestInv, HoldInv
    <2>1. \A t \in Tickets : Holding(t)' => owner'[t] \in Users /\ lock'[owner'[t]].t = t
      BY <1>8, <1>0, <1>o, <1>l, <1>h, <1>5, <1>u
    <2>2. ASSUME NEW v \in Users, NEW t \in Tickets, lock'[v].t = t
          PROVE  /\ owner'[t] = v
                 /\ Holding(t)' \/ \E s \in Reqs : req'[s].pc = "DEL" /\ req'[s].u = v
                 /\ \A s \in Tickets : owner'[s] = v => s <= t
                 /\ lock'[v].kind = "TICKET" /\ seat'[t] # "NONE" => TokenPending(t)'
      <3>1. CASE v # u
        <4>1. lock[v].t = t /\ lock'[v] = lock[v] /\ owner[t] = v BY <3>1, <2>2, <1>l, <1>0
        <4>2. t # x BY <4>1, <1>x, NoUserAssumption
        <4>3. \A s \in Reqs : req[s].pc = "DEL" => req'[s] = req[s] BY <1>r
        <4>4. \A s \in Tickets : owner'[s] = v => owner[s] = v BY <3>1, <1>o
        <4> QED BY <3>1, <4>1, <4>2, <4>3, <4>4, <1>0, <1>4, <1>5, <1>o
      <3>2. CASE v = u
        <4>1. t = x BY <3>2, <2>2, <1>l, <1>h
        <4>2. \A s \in Tickets : s # x /\ owner'[s] = u => s < x
          BY <1>0, <1>x, <1>u, <1>o, NoUserAssumption DEF MintInv
        <4>3. Tickets \subseteq Int BY DEF Tickets
        <4>4. \A s \in Tickets : owner'[s] = u => s <= x BY <4>2, <4>3, <1>x
        <4> QED BY <3>2, <4>1, <4>4, <1>o, <1>6, <1>7
      <3> QED BY <3>1, <3>2
    <2> QED BY <2>1, <2>2
  <1> QED BY <1>1, <1>2, <1>3, <1>9 DEF RestInv

\* The hash of one ticket is written or removed that is not committed.
LEMMA DataMove ==
  ASSUME PlayInv, NEW x \in Tickets, NEW h \in Hashes,
         ticket' = [ticket EXCEPT ![x] = h], UNCHANGED <<owner, seat, m2d, phase, cur>>, Pending' = Pending,
         ~ Committing(x), ~ TokenPending(x), \A i \in 1 .. Len(m2d) : x \notin m2d[i],
         h = Absent \/ (h.status = "WAITING" /\ h.uid = owner[x] /\ owner[x] \in Users),
         \A t \in Tickets : token'[t] => token[t] /\ t # x
  PROVE  HashInv' /\ GroupInv' /\ ReportInv'
  <1>0. RestInv /\ ticket \in [Tickets -> Hashes] BY PlayTypes
  <1>1. \A t \in Tickets : TokenPending(t)' = TokenPending(t) /\ LeftPending(t)' = LeftPending(t)
    BY PendingSame
  <1>c. \A t \in Tickets : Committing(t)' = Committing(t) BY DEF Committing
  <1>t. ticket'[x] = h /\ \A t \in Tickets : t # x => ticket'[t] = ticket[t] BY <1>0
  <1>a. Absent.status = "NONE" /\ Absent.uid = NoUser BY HashType
  <1>2. HashInv'
    <2> USE DEF RestInv, HashInv
    <2>1. ASSUME NEW t \in Tickets, t # x
          PROVE  /\ ticket'[t].status # "NONE" => owner'[t] \in Users /\ ticket'[t].uid = owner'[t]
                 /\ ticket'[t].status = "NONE" => ticket'[t].uid = NoUser
                 /\ Committing(t)' => ticket'[t].status = "INPROGRESS"
                 /\ TokenPending(t)' => ticket'[t].status = "INPROGRESS"
                 /\ token'[t] => ticket'[t].status = "SUCCESS"
                 /\ ticket'[t].status = "SUCCESS" => seat'[t] # "NONE"
      BY <2>1, <1>0, <1>1, <1>c, <1>t
    <2>2. /\ ticket'[x].status # "NONE" => owner'[x] \in Users /\ ticket'[x].uid = owner'[x]
          /\ ticket'[x].status = "NONE" => ticket'[x].uid = NoUser
          /\ ~ Committing(x)' /\ ~ TokenPending(x)' /\ ~ token'[x] /\ ticket'[x].status # "SUCCESS"
      BY <1>1, <1>c, <1>t, <1>a
    <2> QED BY <2>1, <2>2
  <1>3. GroupInv'
    <2>1. \A i \in 1 .. Len(m2d) : \A t \in m2d[i] : t \in Tickets
      <3>1. m2d \in Seq(SUBSET Tickets) BY PlayTypes DEF TypeOK
      <3> QED BY <3>1
    <2> QED BY <1>0, <1>t, <2>1 DEF RestInv, GroupInv
  <1>4. ReportInv' BY <1>0, <1>1 DEF RestInv, ReportInv
  <1> QED BY <1>2, <1>3, <1>4

\* HSET of the ticket: from now on the hash shows that it is alive.
LEMMA PlayWrite ==
  ASSUME PlayInv, NEW r \in Reqs, req[r].pc = "TICKET",
         ticket' = [ticket EXCEPT ![req[r].t] = Hash("WAITING", req[r].u)],
         Goto(r, "SEND"), UNCHANGED <<lock, token, owner, outcome, seat, m2d, phase, cur>>, Pending' = Pending
  PROVE  RestInv'
  <1>0. RestInv /\ ReqOK /\ SafeInv /\ WriterInv /\ req \in [Reqs -> Requests] /\ ticket \in [Tickets -> Hashes]
    BY PlayTypes
  <1>x. PICK x \in Tickets : x = req[r].t BY <1>0 DEF ReqOK
  <1>u. PICK u \in Users : u = req[r].u BY <1>0 DEF ReqOK
  <1>o. owner[x] = u BY <1>0, <1>x, <1>u DEF RestInv, SerialInv
  <1>r. /\ req'[r].pc = "SEND" /\ req'[r].u = u /\ req'[r].t = x
        /\ \A s \in Reqs : s # r => req'[s] = req[s]
    BY <1>0, <1>x, <1>u, AtType DEF PCs, Goto
  <1>h. Hash("WAITING", u) \in Hashes /\ Hash("WAITING", u).status = "WAITING" /\ Hash("WAITING", u).uid = u
    BY HashType DEF Statuses
  <1>f. Fresh(x) BY <1>x DEF Fresh, Writing
  <1>s. ~ Committing(x) /\ ~ Dispatched(x) /\ outcome[x] = "NONE" /\ ticket[x].status = "NONE"
    BY <1>0, <1>f DEF SafeInv, FreshInv
  <1>p. seat[x] = "NONE" /\ \A i \in 1 .. Len(m2d) : x \notin m2d[i] BY <1>s DEF Dispatched
  <1>q. ~ TokenPending(x) BY <1>0, <1>s DEF RestInv, HashInv
  <1>k. \A t \in Tickets : token'[t] => token[t] /\ t # x BY <1>0, <1>s DEF RestInv, HashInv
  <1>1. HashInv' /\ GroupInv' /\ ReportInv'
    <2>1. ticket' = [ticket EXCEPT ![x] = Hash("WAITING", u)] BY <1>x, <1>u
    <2> QED BY <2>1, <1>o, <1>h, <1>s, <1>p, <1>q, <1>k, DataMove
  <1>2. SerialInv'
    <2> USE DEF RestInv, SerialInv, Active
    <2>1. \A s \in Reqs : req'[s].pc \notin {"UNDO", "FAIL"} BY <1>0, <1>r
    <2>2. \A a, b \in Reqs : Active(a)' /\ Active(b)' /\ req'[a].u = req'[b].u => a = b BY <1>0, <1>r, <1>u
    <2>3. \A s \in Reqs : req'[s].pc \in {"TICKET", "SEND", "DEL"} => owner'[req'[s].t] = req'[s].u
      BY <1>0, <1>r, <1>o
    <2>4. \A s \in Reqs : req'[s].pc = "DEL" =>
             lock'[req'[s].u].t = req'[s].t /\ outcome'[req'[s].t] = "CANCELLED"
      BY <1>0, <1>r
    <2>5. \A s \in Reqs : req'[s].pc = "EXPIREDDEL" => lock'[req'[s].u] = NoLock BY <1>0, <1>r
    <2> QED BY <2>1, <2>2, <2>3, <2>4, <2>5
  <1>3. MintInv' BY <1>0, <1>r, <1>x DEF RestInv, MintInv
  <1>4. \A t \in Tickets : TokenPending(t)' = TokenPending(t) /\ LeftPending(t)' = LeftPending(t)
    BY PendingSame
  <1>5. \A t \in Tickets : t # x => (Holding(t)' <=> Holding(t))
    BY <1>0, <1>r, <1>x, <1>4 DEF Holding, Writing
  <1>6. Holding(x)
    BY <1>x DEF Holding, Writing
  <1>7. Holding(x)'
    <2>1. ticket'[x].status = "WAITING" BY <1>0, <1>x, <1>u, <1>h
    <2> QED BY <2>1, <1>p DEF Holding
  <1>8. \A t \in Tickets : Holding(t)' <=> Holding(t) BY <1>5, <1>6, <1>7
  <1>9. \A s \in Reqs : req[s].pc = "DEL" => req'[s] = req[s] BY <1>r
  <1>10. HoldInv' BY <1>0, <1>4, <1>8, <1>9 DEF RestInv, HoldInv
  <1> QED BY <1>1, <1>2, <1>3, <1>10 DEF RestInv

\* The answer of /match/start.
LEMMA PlaySend ==
  ASSUME PlayInv, NEW r \in Reqs, req[r].pc = "SEND", Done(r),
         outcome' = [outcome EXCEPT ![req[r].t] = IF @ = "NONE" THEN "STARTED" ELSE @],
         UNCHANGED <<lock, ticket, token, owner, seat, m2d, phase, cur>>, Pending' = Pending
  PROVE  RestInv'
  <1>0. RestInv /\ ReqOK /\ TypeOK /\ req \in [Reqs -> Requests] BY PlayTypes
  <1>x. PICK x \in Tickets : x = req[r].t BY <1>0 DEF ReqOK
  <1>r. req'[r] = Idle /\ Idle.pc = "IDLE" /\ \A s \in Reqs : s # r => req'[s] = req[s] BY <1>0, AtType DEF Done
  <1>y. /\ outcome'[x] # "NONE" /\ (outcome[x] = "CANCELLED" => outcome'[x] = "CANCELLED")
        /\ \A t \in Tickets : t # x => outcome'[t] = outcome[t]
    BY <1>0, <1>x DEF TypeOK
  <1>c. \A t \in Tickets : Committing(t)' = Committing(t) BY DEF Committing
  <1>1. HashInv' /\ GroupInv' /\ ReportInv' BY <1>0, <1>c, DataSame, NoUserAssumption
  <1>d. \A s \in Reqs : req[s].pc = "DEL" => req[s].t \in Tickets BY <1>0 DEF ReqOK
  <1>2. SerialInv'
    <2> USE DEF RestInv, SerialInv, Active
    <2>1. \A s \in Reqs : req'[s].pc \notin {"UNDO", "FAIL"} BY <1>0, <1>r
    <2>2. \A a, b \in Reqs : Active(a)' /\ Active(b)' /\ req'[a].u = req'[b].u => a = b BY <1>0, <1>r
    <2>3. \A s \in Reqs : req'[s].pc \in {"TICKET", "SEND", "DEL"} => owner'[req'[s].t] = req'[s].u
      BY <1>0, <1>r
    <2>4. \A s \in Reqs : req'[s].pc = "DEL" =>
             lock'[req'[s].u].t = req'[s].t /\ outcome'[req'[s].t] = "CANCELLED"
      BY <1>0, <1>r, <1>y, <1>d
    <2>5. \A s \in Reqs : req'[s].pc = "EXPIREDDEL" => lock'[req'[s].u] = NoLock BY <1>0, <1>r
    <2> QED BY <2>1, <2>2, <2>3, <2>4, <2>5
  <1>3. MintInv'
    <2>1. \A t \in Tickets : owner'[t] # NoUser /\ outcome'[t] = "NONE" =>
             \E s \in Reqs : req'[s].pc \in {"TICKET", "SEND"} /\ req'[s].t = t
      BY <1>0, <1>r, <1>x, <1>y DEF RestInv, MintInv
    <2> QED BY <2>1, <1>0 DEF RestInv, MintInv
  <1>4. \A t \in Tickets : TokenPending(t)' = TokenPending(t) /\ LeftPending(t)' = LeftPending(t)
    BY PendingSame
  <1>5. \A t \in Tickets : Holding(t)' = Holding(t) BY <1>0, <1>r, <1>4 DEF Holding, Writing
  <1>6. \A s \in Reqs : req[s].pc = "DEL" => req'[s] = req[s] BY <1>r
  <1>7. HoldInv' BY <1>0, <1>4, <1>5, <1>6 DEF RestInv, HoldInv
  <1> QED BY <1>1, <1>2, <1>3, <1>7 DEF RestInv

\* What a ticket that waits is not.
LEMMA WaitingIdle ==
  ASSUME PlayInv, NEW x \in Tickets, ticket[x].status = "WAITING"
  PROVE  /\ ~ Fresh(x) /\ ~ Committing(x) /\ ~ Dispatched(x) /\ ~ TokenPending(x) /\ ~ token[x]
         /\ seat[x] = "NONE" /\ \A i \in 1 .. Len(m2d) : x \notin m2d[i]
         /\ Holding(x) /\ owner[x] \in Users /\ lock[owner[x]].t = x /\ outcome[x] # "CANCELLED"
  <1>0. SafeInv /\ RestInv BY PlayTypes
  <1>1. ~ Fresh(x) /\ ~ Committing(x) /\ ~ Dispatched(x) /\ outcome[x] # "CANCELLED"
    BY <1>0 DEF SafeInv, FreshInv, CommitInv, DispatchInv, CancelWins
  <1>2. seat[x] = "NONE" /\ \A i \in 1 .. Len(m2d) : x \notin m2d[i] BY <1>1 DEF Dispatched
  <1>3. ~ TokenPending(x) /\ ~ token[x] BY <1>0 DEF RestInv, HashInv
  <1>4. Holding(x) BY <1>2 DEF Holding
  <1> QED BY <1>1, <1>2, <1>3, <1>4, <1>0 DEF RestInv, HoldInv

\* matchCancel result 1, whose DEL comes later, and loginTakeover.
LEMMA PlayWithdraw ==
  ASSUME PlayInv, NEW r \in Reqs, NEW u \in Users, NEW x \in Tickets, NEW pc \in {"DEL", "LOGINSEND"},
         ~ Active(r), \A s \in Reqs : Active(s) => req[s].u # u,
         owner[x] = u, ticket[x].status = "WAITING",
         Remove(x), outcome' = [outcome EXCEPT ![x] = "CANCELLED"],
         req' = [req EXCEPT ![r] = At(pc, u, x)],
         pc = "DEL" => lock' = lock, pc = "LOGINSEND" => DelLock(u),
         UNCHANGED <<token, owner, seat, m2d, phase, cur>>, Pending' = Pending
  PROVE  RestInv'
  <1>0. RestInv /\ ReqOK /\ TypeOK /\ req \in [Reqs -> Requests] /\ ticket \in [Tickets -> Hashes] BY PlayTypes
  <1>w. /\ ~ Fresh(x) /\ ~ Committing(x) /\ ~ TokenPending(x) /\ ~ token[x]
        /\ seat[x] = "NONE" /\ \A i \in 1 .. Len(m2d) : x \notin m2d[i]
        /\ lock[u].t = x
    BY WaitingIdle
  <1>r. /\ req'[r].pc = pc /\ req'[r].u = u /\ req'[r].t = x
        /\ \A s \in Reqs : s # r => req'[s] = req[s]
    BY <1>0, AtType DEF PCs
  <1>i. req[r].pc = "IDLE" BY DEF Active
  <1>y. outcome'[x] = "CANCELLED" /\ \A t \in Tickets : t # x => outcome'[t] = outcome[t] BY <1>0 DEF TypeOK
  <1>l. /\ pc = "DEL" => lock'[u] = lock[u]
        /\ pc = "LOGINSEND" => lock'[u] = NoLock
        /\ \A v \in Users : v # u => lock'[v] = lock[v]
    BY PlayTypes DEF DelLock
  <1>n. \A t \in Tickets : NoLock.t # t BY PlayTypes
  <1>h. Absent \in Hashes /\ Absent.status = "NONE" BY HashType
  <1>k. \A t \in Tickets : token'[t] => token[t] /\ t # x BY <1>w
  <1>1. HashInv' /\ GroupInv' /\ ReportInv' BY <1>w, <1>h, <1>k, DataMove DEF Remove
  <1>d. \A s \in Reqs : req[s].pc \in {"DEL", "EXPIREDDEL"} => req[s].u \in Users BY <1>0 DEF ReqOK
  <1>e. \A s \in Reqs : req[s].pc = "DEL" => req[s].t \in Tickets BY <1>0 DEF ReqOK
  <1>2. SerialInv'
    <2> USE DEF RestInv, SerialInv, Active
    <2>1. \A s \in Reqs : req'[s].pc \notin {"UNDO", "FAIL"} BY <1>0, <1>r
    <2>2. \A a, b \in Reqs : Active(a)' /\ Active(b)' /\ req'[a].u = req'[b].u => a = b BY <1>0, <1>r
    <2>3. \A s \in Reqs : req'[s].pc \in {"TICKET", "SEND", "DEL"} => owner'[req'[s].t] = req'[s].u
      BY <1>0, <1>r
    <2>4. \A s \in Reqs : req'[s].pc = "DEL" =>
             lock'[req'[s].u].t = req'[s].t /\ outcome'[req'[s].t] = "CANCELLED"
      BY <1>0, <1>r, <1>y, <1>l, <1>w, <1>d, <1>e
    <2>5. \A s \in Reqs : req'[s].pc = "EXPIREDDEL" => lock'[req'[s].u] = NoLock
      BY <1>0, <1>r, <1>l, <1>d
    <2> QED BY <2>1, <2>2, <2>3, <2>4, <2>5
  <1>3. MintInv'
    <2>1. \A t \in Tickets : owner'[t] # NoUser /\ outcome'[t] = "NONE" =>
             \E s \in Reqs : req'[s].pc \in {"TICKET", "SEND"} /\ req'[s].t = t
      BY <1>0, <1>r, <1>i, <1>y DEF RestInv, MintInv
    <2> QED BY <2>1, <1>0 DEF RestInv, MintInv
  <1>4. \A t \in Tickets : TokenPending(t)' = TokenPending(t) /\ LeftPending(t)' = LeftPending(t)
    BY PendingSame
  <1>5. \A t \in Tickets : t # x => (Holding(t)' <=> Holding(t))
    <2>1. \A t \in Tickets : t # x => ticket'[t] = ticket[t] BY <1>0 DEF Remove
    <2>2. \A t \in Tickets : (\E s \in Reqs : Writing(s, t))' <=> \E s \in Reqs : Writing(s, t)
      BY <1>r, <1>i DEF Writing
    <2> QED BY <2>1, <2>2, <1>4 DEF Holding
  <1>6. ~ Holding(x)'
    <2>1. ticket'[x].status = "NONE" /\ seat'[x] = "NONE" BY <1>0, <1>h, <1>w DEF Remove
    <2>2. \A s \in Reqs : ~ Writing(s, x)' BY <1>r, <1>i, <1>w DEF Writing, Fresh
    <2> QED BY <2>1, <2>2 DEF Holding
  <1>7. HoldInv'
    <2> USE DEF RestInv, HoldInv
    <2>1. \A t \in Tickets : Holding(t)' => owner'[t] \in Users /\ lock'[owner'[t]].t = t
      BY <1>0, <1>5, <1>6, <1>l, <1>w
    <2>2. ASSUME NEW v \in Users, NEW t \in Tickets, lock'[v].t = t
          PROVE  /\ owner'[t] = v
                 /\ Holding(t)' \/ \E s \in Reqs : req'[s].pc = "DEL" /\ req'[s].u = v
                 /\ \A s \in Tickets : owner'[s] = v => s <= t
                 /\ lock'[v].kind = "TICKET" /\ seat'[t] # "NONE" => TokenPending(t)'
      <3>1. CASE v # u
        <4>1. lock[v].t = t /\ lock'[v] = lock[v] /\ owner[t] = v /\ t # x BY <3>1, <2>2, <1>l, <1>0
        <4>2. \A s \in Reqs : req[s].pc = "DEL" => req'[s] = req[s] BY <1>r, <1>i
        <4> QED BY <4>1, <4>2, <1>0, <1>4, <1>5
      <3>2. CASE v = u
        <4>1. pc = "DEL" /\ t = x BY <3>2, <2>2, <1>l, <1>n, <1>w
        <4>2. \A s \in Tickets : owner'[s] = u => s <= x BY <1>0, <1>w
        <4>3. req'[r].pc = "DEL" /\ req'[r].u = v BY <4>1, <3>2, <1>r
        <4> QED BY <3>2, <4>1, <4>2, <4>3, <1>w
      <3> QED BY <3>1, <3>2
    <2> QED BY <2>1, <2>2
  <1> QED BY <1>1, <1>2, <1>3, <1>7 DEF RestInv

\* The DEL of the lock after a granted cancel.
LEMMA PlayRelease ==
  ASSUME PlayInv, NEW r \in Reqs, req[r].pc = "DEL", DelLock(req[r].u), Done(r),
         UNCHANGED <<ticket, token, owner, outcome, seat, m2d, phase, cur>>, Pending' = Pending
  PROVE  RestInv'
  <1>0. RestInv /\ ReqOK /\ SafeInv /\ req \in [Reqs -> Requests] BY PlayTypes
  <1>x. PICK x \in Tickets : x = req[r].t BY <1>0 DEF ReqOK
  <1>u. PICK u \in Users : u = req[r].u BY <1>0 DEF ReqOK
  <1>o. owner[x] = u /\ lock[u].t = x /\ outcome[x] = "CANCELLED" BY <1>0, <1>x, <1>u DEF RestInv, SerialInv
  <1>r. req'[r] = Idle /\ Idle.pc = "IDLE" /\ \A s \in Reqs : s # r => req'[s] = req[s] BY <1>0, AtType DEF Done
  <1>l. lock'[u] = NoLock /\ \A v \in Users : v # u => lock'[v] = lock[v] BY <1>u, PlayTypes DEF DelLock
  <1>n. \A t \in Tickets : NoLock.t # t BY PlayTypes
  <1>c. \A t \in Tickets : Committing(t)' = Committing(t) BY DEF Committing
  <1>1. HashInv' /\ GroupInv' /\ ReportInv' BY <1>0, <1>c, DataSame, NoUserAssumption
  <1>d. \A s \in Reqs : req[s].pc \in {"DEL", "EXPIREDDEL"} => req[s].u \in Users BY <1>0 DEF ReqOK
  <1>2. SerialInv'
    <2> USE DEF RestInv, SerialInv, Active
    <2>a. \A s \in Reqs : s # r /\ Active(s) => req[s].u # u BY <1>0, <1>u
    <2>1. \A s \in Reqs : req'[s].pc \notin {"UNDO", "FAIL"} BY <1>0, <1>r
    <2>2. \A a, b \in Reqs : Active(a)' /\ Active(b)' /\ req'[a].u = req'[b].u => a = b BY <1>0, <1>r
    <2>3. \A s \in Reqs : req'[s].pc \in {"TICKET", "SEND", "DEL"} => owner'[req'[s].t] = req'[s].u
      BY <1>0, <1>r
    <2>4. \A s \in Reqs : req'[s].pc = "DEL" =>
             lock'[req'[s].u].t = req'[s].t /\ outcome'[req'[s].t] = "CANCELLED"
      BY <1>0, <1>r, <1>l, <1>d, <2>a
    <2>5. \A s \in Reqs : req'[s].pc = "EXPIREDDEL" => lock'[req'[s].u] = NoLock
      BY <1>0, <1>r, <1>l, <1>d, <2>a
    <2> QED BY <2>1, <2>2, <2>3, <2>4, <2>5
  <1>3. MintInv' BY <1>0, <1>r DEF RestInv, MintInv
  <1>4. \A t \in Tickets : TokenPending(t)' = TokenPending(t) /\ LeftPending(t)' = LeftPending(t)
    BY PendingSame
  <1>5. \A t \in Tickets : Holding(t)' <=> Holding(t) BY <1>0, <1>r, <1>4 DEF Holding, Writing
  <1>6. ~ Holding(x)
    <2>1. ticket[x].status = "NONE" /\ ~ Dispatched(x) /\ ~ Fresh(x)
      BY <1>0, <1>o DEF SafeInv, CancelWins, FreshInv
    <2> QED BY <2>1 DEF Holding, Dispatched, Fresh
  <1>7. HoldInv'
    <2> USE DEF RestInv, HoldInv
    <2>1. \A t \in Tickets : Holding(t)' => owner'[t] \in Users /\ lock'[owner'[t]].t = t
      BY <1>0, <1>5, <1>6, <1>l, <1>o
    <2>2. ASSUME NEW v \in Users, NEW t \in Tickets, lock'[v].t = t
          PROVE  /\ owner'[t] = v
                 /\ Holding(t)' \/ \E s \in Reqs : req'[s].pc = "DEL" /\ req'[s].u = v
                 /\ \A s \in Tickets : owner'[s] = v => s <= t
                 /\ lock'[v].kind = "TICKET" /\ seat'[t] # "NONE" => TokenPending(t)'
      <3>1. v # u BY <2>2, <1>l, <1>n
      <3>2. lock[v].t = t /\ lock'[v] = lock[v] BY <3>1, <2>2, <1>l
      <3>3. \A s \in Reqs : req[s].pc = "DEL" /\ req[s].u = v => req'[s] = req[s] BY <1>r, <1>u, <3>1
      <3> QED BY <3>2, <3>3, <1>0, <1>4, <1>5
    <2> QED BY <2>1, <2>2
  <1> QED BY <1>1, <1>2, <1>3, <1>7 DEF RestInv

\* Between two requests of an account, the ticket of a lock that does not say
\* INGAME has its hash: the client gets no wrong "expired" answer, and a login
\* finds the ticket it takes over.
LEMMA LockShowsTicket ==
  ASSUME PlayInv, NEW u \in Users, NEW y \in Tickets, lock[u].t = y, lock[u].kind = "TICKET",
         \A s \in Reqs : Active(s) => req[s].u # u
  PROVE  ticket[y].status # "NONE" /\ owner[y] = u /\ outcome[y] # "NONE"
  <1>0. RestInv /\ ReqOK BY PlayTypes
  <1>1. owner[y] = u BY <1>0 DEF RestInv, HoldInv
  <1>2. Holding(y) BY <1>0 DEF RestInv, HoldInv, Active
  <1>3. \A s \in Reqs : ~ (req[s].pc \in {"TICKET", "SEND"} /\ req[s].t = y)
    BY <1>0, <1>1 DEF RestInv, SerialInv, Active
  <1>4. outcome[y] # "NONE" BY <1>0, <1>1, <1>3, NoUserAssumption DEF RestInv, MintInv
  <1>5. CASE seat[y] # "NONE"
    <2>1. TokenPending(y) BY <1>5, <1>0 DEF RestInv, HoldInv
    <2> QED BY <2>1, <1>0, <1>1, <1>4 DEF RestInv, HashInv
  <1>6. CASE seat[y] = "NONE" BY <1>6, <1>1, <1>2, <1>3, <1>4 DEF Holding, Writing
  <1> QED BY <1>5, <1>6

LEMMA ExpiredIsFree ==
  ASSUME PlayInv, NEW u \in Users, NEW x \in Told(u), \A s \in Told(u) : s <= x,
         \A s \in Reqs : Active(s) => req[s].u # u,
         CancelResult(u, x) = 2
  PROVE  lock[u] = NoLock
  <1>0. RestInv BY PlayTypes
  <1>1. x \in Tickets /\ owner[x] = u BY DEF Told
  <1>2. ticket[x].uid = NoUser /\ lock[u].kind # "INGAME" BY DEF CancelResult
  <1> SUFFICES ASSUME lock[u] # NoLock PROVE FALSE OBVIOUS
  <1>3. PICK y \in Tickets : lock[u].t = y BY PlayTypes
  <1>4. lock[u].kind = "TICKET"
    <2>1. lock[u] \in Locks BY PlayTypes
    <2> QED BY <2>1, <1>2 DEF Locks, Held, InGame
  <1>5. ticket[y].status # "NONE" /\ owner[y] = u /\ outcome[y] # "NONE" BY <1>3, <1>4, LockShowsTicket
  <1>6. y <= x BY <1>5 DEF Told
  <1>7. x <= y BY <1>0, <1>1, <1>3 DEF RestInv, HoldInv
  <1>8. x = y
    <2>1. Tickets \subseteq Int BY DEF Tickets
    <2> QED BY <2>1, <1>1, <1>6, <1>7
  <1> QED BY <1>0, <1>2, <1>5, <1>8, NoUserAssumption DEF RestInv, HashInv

LEMMA PlayClient ==
  ASSUME CalmClients, PlayInv, ClientStep
  PROVE  RestInv'
  <1>0. req \in [Reqs -> Requests] /\ RestInv /\ TypeOK BY PlayTypes
  <1>1. ASSUME NEW r \in Reqs, NEW u \in Users, StartBegin(r, u) PROVE RestInv'
    <2>1. ~ Active(r) /\ \A s \in Reqs : Active(s) => req[s].u # u
      BY <1>1 DEF StartBegin, CanBegin, CalmClients
    <2>2. req' = [req EXCEPT ![r] = At("LOCK", u, NoTicket)] BY <1>1 DEF StartBegin, CalmClients
    <2>3. /\ At("LOCK", u, NoTicket) \in Requests
          /\ At("LOCK", u, NoTicket).pc = "LOCK" /\ At("LOCK", u, NoTicket).u = u
      BY AtType DEF PCs
    <2>4. UNCHANGED <<owner, lock, ticket, token, seat, m2d, phase, cur, outcome>> /\ Pending' = Pending
      BY <1>1 DEF StartBegin, redisVars, mainVars, dediVars, Pending
    <2>5. req[r].pc = "IDLE" BY <2>1 DEF Active
    <2> QED BY <2>1, <2>2, <2>3, <2>4, <2>5, PlayRequest
  <1>2. ASSUME NEW r \in Reqs, NEW u \in Users, LoginTakeover(r, u) PROVE RestInv'
    <2>1. ~ Active(r) /\ \A s \in Reqs : Active(s) => req[s].u # u
      BY <1>2 DEF LoginTakeover, CanBegin, CalmClients
    <2>2. lock[u].kind = "TICKET" /\ DelLock(u) BY <1>2 DEF LoginTakeover
    <2>3. PICK y \in Tickets : y = lock[u].t BY <2>2, PlayTypes
    <2>4. ticket[y].status # "NONE" /\ owner[y] = u BY <2>1, <2>2, <2>3, LockShowsTicket
    <2>5. /\ ticket[y].status = "WAITING" /\ Remove(y)
          /\ outcome' = [outcome EXCEPT ![y] = "CANCELLED"]
          /\ req' = [req EXCEPT ![r] = At("LOGINSEND", u, y)]
      BY <1>2, <2>3, <2>4 DEF LoginTakeover
    <2>6. UNCHANGED <<token, owner, seat, m2d, phase, cur>> /\ Pending' = Pending
      BY <1>2 DEF LoginTakeover, mainVars, dediVars, Pending
    <2> QED BY <2>1, <2>2, <2>4, <2>5, <2>6, PlayWithdraw
  <1>3. ASSUME NEW r \in Reqs, NEW u \in Users, NEW x \in Tickets, CancelEval(r, u, x) PROVE RestInv'
    <2>1. ~ Active(r) /\ \A s \in Reqs : Active(s) => req[s].u # u
      BY <1>3 DEF CancelEval, CanBegin, CalmClients
    <2>2. x \in Told(u) /\ owner[x] = u /\ \A s \in Told(u) : s <= x
      BY <1>3 DEF CancelEval, Told, CalmClients
    <2>3. UNCHANGED <<lock, token, owner, seat, m2d, phase, cur>> /\ Pending' = Pending
      BY <1>3 DEF CancelEval, mainVars, dediVars, Pending
    <2>4. CASE CancelResult(u, x) = 1
      <3>1. ticket[x].status = "WAITING" BY <2>4 DEF CancelResult
      <3>2. /\ Remove(x) /\ outcome' = [outcome EXCEPT ![x] = "CANCELLED"]
            /\ req' = [req EXCEPT ![r] = At("DEL", u, x)]
        BY <1>3, <2>4 DEF CancelEval
      <3> QED BY <2>1, <2>2, <2>3, <3>1, <3>2, PlayWithdraw
    <2>5. CASE CancelResult(u, x) = 2
      <3>1. lock[u] = NoLock BY <2>1, <2>2, <2>5, ExpiredIsFree
      <3>2. /\ ticket' = ticket /\ outcome' = [outcome EXCEPT ![x] = IF @ = "STARTED" THEN "EXPIRED" ELSE @]
            /\ req' = [req EXCEPT ![r] = At("EXPIREDDEL", u, x)]
        BY <1>3, <2>5 DEF CancelEval
      <3>3. /\ At("EXPIREDDEL", u, x) \in Requests
            /\ At("EXPIREDDEL", u, x).pc = "EXPIREDDEL" /\ At("EXPIREDDEL", u, x).u = u
        BY AtType DEF PCs
      <3>4. \A t \in Tickets : outcome'[t] = outcome[t] \/ (outcome[t] = "STARTED" /\ outcome'[t] = "EXPIRED")
        BY <3>2, <1>0 DEF TypeOK
      <3>5. req[r].pc = "IDLE" BY <2>1 DEF Active
      <3> QED BY <2>1, <2>3, <3>1, <3>2, <3>3, <3>4, <3>5, PlayRequest
    <2> QED BY <1>3, <2>4, <2>5 DEF CancelEval
  <1>4. ASSUME NEW t \in Tickets, Connect(t) PROVE RestInv'
    <2>1. UNCHANGED <<req, owner, outcome, lock, ticket, token, seat, m2d, phase, cur>> /\ Pending' = Pending
      BY <1>4 DEF Connect, redisVars, nodeVars, mainVars, dediVars, Pending
    <2>2. \A s \in Tickets : Committing(s)' = Committing(s) BY <2>1 DEF Committing
    <2> QED BY <2>1, <2>2, PlayQuiet
  <1> QED BY <1>1, <1>2, <1>3, <1>4 DEF ClientStep

LEMMA PlayNode ==
  ASSUME CalmClients, PlayInv, NEW r \in Reqs, NodeStep(r)
  PROVE  RestInv'
  <1>0. req \in [Reqs -> Requests] /\ RestInv /\ TypeOK /\ ReqOK BY PlayTypes
  <1>i. Idle \in Requests /\ Idle.pc = "IDLE" BY AtType
  <1>n. ~ RedisFault /\ ~ MySqlFault BY DEF CalmClients
  <1>1. CASE StartLock(r)
    <2>1. req[r].pc = "LOCK" /\ UNCHANGED <<ticket, token, outcome, seat, m2d, phase, cur>> /\ Pending' = Pending
      BY <1>1 DEF StartLock, mainVars, dediVars, Pending
    <2>2. CASE Done(r) /\ UNCHANGED <<lock, owner>>
      BY <2>1, <2>2, <1>i, PlayRequest DEF Done
    <2>3. ASSUME lock[req[r].u] = NoLock, NEW t \in Unminted,
                 \A s \in Unminted : t <= s,
                 owner' = [owner EXCEPT ![t] = req[r].u],
                 lock' = [lock EXCEPT ![req[r].u] = Held(t)],
                 req' = [req EXCEPT ![r] = At("TICKET", req[r].u, t)]
          PROVE  RestInv'
      BY <2>1, <2>3, PlayMint
    <2> QED BY <1>1, <1>n, <2>2, <2>3 DEF StartLock
  <1>2. CASE StartTicket(r)
    <2>1. /\ req[r].pc = "TICKET" /\ ticket' = [ticket EXCEPT ![req[r].t] = Hash("WAITING", req[r].u)]
          /\ Goto(r, "SEND")
      BY <1>2, <1>n DEF StartTicket
    <2>2. UNCHANGED <<lock, token, owner, outcome, seat, m2d, phase, cur>> /\ Pending' = Pending
      BY <1>2 DEF StartTicket, mainVars, dediVars, Pending
    <2> QED BY <2>1, <2>2, PlayWrite
  <1>3. CASE StartUndo(r) \/ StartFail(r)
    BY <1>3, <1>0 DEF StartUndo, StartFail, RestInv, SerialInv
  <1>4. CASE StartSend(r)
    <2>1. UNCHANGED <<lock, ticket, token, owner, seat, m2d, phase, cur>> /\ Pending' = Pending
      BY <1>4 DEF StartSend, redisVars, mainVars, dediVars, Pending
    <2> QED BY <2>1, <1>4, PlaySend DEF StartSend
  <1>5. CASE CancelDel(r)
    <2>1. UNCHANGED <<ticket, token, owner, outcome, seat, m2d, phase, cur>> /\ Pending' = Pending
      BY <1>5 DEF CancelDel, mainVars, dediVars, Pending
    <2>2. DelLock(req[r].u) /\ Done(r) BY <1>5, <1>n DEF CancelDel
    <2>3. CASE req[r].pc = "DEL" BY <2>1, <2>2, <2>3, PlayRelease
    <2>4. CASE req[r].pc = "EXPIREDDEL"
      <3>1. req[r].u \in Users /\ lock[req[r].u] = NoLock BY <2>4, <1>0 DEF ReqOK, RestInv, SerialInv
      <3>2. lock' = lock BY <3>1, <2>2, <1>0 DEF DelLock, TypeOK
      <3> QED BY <2>1, <2>2, <2>4, <3>2, <1>i, PlayRequest DEF Done
    <2> QED BY <1>5, <2>3, <2>4 DEF CancelDel
  <1>6. CASE LoginSend(r)
    <2>1. UNCHANGED <<lock, ticket, token, owner, outcome, seat, m2d, phase, cur>> /\ Pending' = Pending
      BY <1>6 DEF LoginSend, redisVars, mainVars, dediVars, Pending
    <2> QED BY <2>1, <1>6, <1>i, PlayRequest DEF LoginSend, Done
  <1> QED BY <1>1, <1>2, <1>3, <1>4, <1>5, <1>6 DEF NodeStep, StartStep
-----------------------------------------------------------------------------
(* Main.                                                                   *)

\* BindClientIpToSession uses the token up, and the hash with it.
LEMMA PlayBind ==
  ASSUME PlayInv, NEW x \in Tickets, token[x], Remove(x), token' = [token EXCEPT ![x] = FALSE],
         UNCHANGED <<lock, owner, outcome, req, seat, m2d, phase, cur>>, Pending' = Pending
  PROVE  RestInv'
  <1>0. RestInv /\ SafeInv /\ TypeOK /\ ticket \in [Tickets -> Hashes] BY PlayTypes
  <1>1. ticket[x].status = "SUCCESS" /\ seat[x] # "NONE" BY <1>0 DEF RestInv, HashInv
  <1>2. ~ Committing(x) /\ ~ TokenPending(x) BY <1>0, <1>1 DEF RestInv, HashInv
  <1>3. \A i \in 1 .. Len(m2d) : x \notin m2d[i] BY <1>0, <1>1 DEF RestInv, GroupInv
  <1>4. Absent \in Hashes BY HashType
  <1>5. \A t \in Tickets : token'[t] => token[t] /\ t # x BY <1>0 DEF TypeOK
  <1>6. HashInv' /\ GroupInv' /\ ReportInv' BY <1>2, <1>3, <1>4, <1>5, DataMove DEF Remove
  <1>7. SerialInv' BY <1>0 DEF RestInv, SerialInv, Active
  <1>8. MintInv' BY <1>0 DEF RestInv, MintInv
  <1>9. \A t \in Tickets : TokenPending(t)' = TokenPending(t) /\ LeftPending(t)' = LeftPending(t)
    BY PendingSame
  <1>10. \A t \in Tickets : t # x => ticket'[t] = ticket[t] BY <1>0 DEF Remove
  <1>11. \A t \in Tickets : Holding(t)' <=> Holding(t) BY <1>1, <1>9, <1>10 DEF Holding, Writing
  <1>12. HoldInv' BY <1>0, <1>9, <1>11 DEF RestInv, HoldInv
  <1> QED BY <1>6, <1>7, <1>8, <1>12 DEF RestInv

LEMMA PlayHttp ==
  ASSUME PlayInv, HttpStep
  PROVE  RestInv'
  <1>0. TypeOK BY PlayTypes
  <1>1. UNCHANGED <<lock, owner, outcome, req, seat, m2d, phase, cur>> /\ Pending' = Pending
    BY DEF HttpStep, HandleMatchMake, HandleCancel, HandleBind, redisVars, nodeVars, mainVars, dediVars, Pending
  <1>2. \A t \in Tickets : Committing(t)' = Committing(t) BY <1>1 DEF Committing
  <1>3. CASE UNCHANGED <<ticket, token>> BY <1>1, <1>2, <1>3, PlayQuiet
  <1>4. CASE HandleBind
    <2>1. Head(h2m) \in HttpMsgs BY <1>4, <1>0, HeadTail DEF HandleBind, Received, TypeOK
    <2>2. PICK x \in Tickets : x = Head(h2m).t BY <2>1 DEF HttpMsgs
    <2>3. token' = [token EXCEPT ![x] = FALSE] BY <1>4, <2>2 DEF HandleBind
    <2>4. CASE token[x]
      <3>1. Remove(x) BY <1>4, <2>2, <2>4 DEF HandleBind
      <3> QED BY <2>3, <2>4, <3>1, <1>1, PlayBind
    <2>5. CASE ~ token[x]
      <3>1. ticket' = ticket BY <1>4, <2>2, <2>5 DEF HandleBind
      <3>2. token' = token
        <4>1. token \in [Tickets -> BOOLEAN] BY <1>0 DEF TypeOK
        <4>2. token[x] = FALSE BY <4>1, <2>5
        <4> QED BY <4>1, <4>2, <2>3
      <3> QED BY <3>1, <3>2, <1>3
    <2> QED BY <2>4, <2>5
  <1>5. CASE HandleMatchMake \/ HandleCancel
    BY <1>5, <1>3 DEF HandleMatchMake, HandleCancel, redisVars
  <1> QED BY <1>4, <1>5 DEF HttpStep

\* A group changes between WAITING and INPROGRESS.
LEMMA PlayStatus ==
  ASSUME PlayInv, NEW g \in SUBSET Tickets, NEW st \in {"WAITING", "INPROGRESS"}, SetStatus(g, st),
         \A t \in g : ticket[t].status \in {"WAITING", "INPROGRESS"} /\ ~ Dispatched(t) /\ ~ TokenPending(t),
         \A t \in Tickets : Committing(t)' => t \in g /\ st = "INPROGRESS",
         UNCHANGED <<req, owner, outcome, lock, token, seat, m2d>>, Pending' = Pending
  PROVE  RestInv'
  <1>0. RestInv /\ TypeOK /\ ticket \in [Tickets -> Hashes] BY PlayTypes
  <1>1. \A t \in Tickets : ticket'[t].status = IF t \in g THEN st ELSE ticket[t].status
    BY <1>0, SetStatusType DEF Statuses
  <1>2. \A t \in Tickets : ticket'[t].uid = ticket[t].uid
    <2>1. \A t \in Tickets : ticket[t].uid \in Users \cup {NoUser} BY <1>0 DEF Hashes
    <2>2. \A t \in Tickets : Hash(st, ticket[t].uid).uid = ticket[t].uid BY <2>1, HashType DEF Statuses
    <2> QED BY <2>2 DEF SetStatus
  <1>3. \A t \in Tickets : TokenPending(t)' = TokenPending(t) /\ LeftPending(t)' = LeftPending(t)
    BY PendingSame
  <1>4. HashInv'
    <2> SUFFICES ASSUME NEW t \in Tickets
                 PROVE  /\ ticket'[t].status # "NONE" => owner'[t] \in Users /\ ticket'[t].uid = owner'[t]
                        /\ ticket'[t].status = "NONE" => ticket'[t].uid = NoUser
                        /\ Committing(t)' => ticket'[t].status = "INPROGRESS"
                        /\ TokenPending(t)' => ticket'[t].status = "INPROGRESS"
                        /\ token'[t] => ticket'[t].status = "SUCCESS"
                        /\ ticket'[t].status = "SUCCESS" => seat'[t] # "NONE"
      BY DEF HashInv
    <2>1. CASE t \in g BY <2>1, <1>0, <1>1, <1>2, <1>3 DEF RestInv, HashInv
    <2>2. CASE t \notin g BY <2>2, <1>0, <1>1, <1>2, <1>3 DEF RestInv, HashInv
    <2> QED BY <2>1, <2>2
  <1>5. GroupInv'
    <2>1. m2d \in Seq(SUBSET Tickets) BY <1>0 DEF TypeOK
    <2>2. \A i \in 1 .. Len(m2d) : \A t \in m2d[i] : t \in Tickets BY <2>1
    <2>3. \A i \in 1 .. Len(m2d) : \A t \in m2d[i] : t \notin g BY DEF Dispatched
    <2> QED BY <1>0, <1>1, <2>2, <2>3 DEF RestInv, GroupInv
  <1>6. ReportInv' BY <1>0, <1>3 DEF RestInv, ReportInv
  <1>7. SerialInv' BY <1>0 DEF RestInv, SerialInv, Active
  <1>8. MintInv' BY <1>0 DEF RestInv, MintInv
  <1>9. \A t \in Tickets : Holding(t)' <=> Holding(t)
    BY <1>1, <1>3 DEF Holding, Writing
  <1>10. HoldInv' BY <1>0, <1>3, <1>9 DEF RestInv, HoldInv
  <1> QED BY <1>4, <1>5, <1>6, <1>7, <1>8, <1>10 DEF RestInv

\* A report is about a seat.
LEMMA PendingSeated ==
  ASSUME PlayInv
  PROVE  /\ \A i \in 1 .. Len(Pending) : \A t \in Pending[i].ts : t \in Tickets /\ seat[t] # "NONE"
         /\ \A t \in Tickets : TokenPending(t) \/ LeftPending(t) => seat[t] # "NONE"
  <1>0. TypeOK /\ SafeInv BY PlayTypes
  <1>1. jobs \in Seq(DediMsgs) /\ d2m \in Seq(DediMsgs) BY <1>0 DEF TypeOK
  <1>2. \A i \in 1 .. Len(Pending) : \/ i \in 1 .. Len(jobs) /\ Pending[i] = jobs[i]
                                     \/ i - Len(jobs) \in 1 .. Len(d2m) /\ Pending[i] = d2m[i - Len(jobs)]
    BY <1>1 DEF Pending
  <1>3. \A i \in 1 .. Len(Pending) : \A t \in Pending[i].ts : seat[t] # "NONE"
    BY <1>0, <1>2 DEF SafeInv, DispatchInv
  <1>4. \A i \in 1 .. Len(Pending) : \A t \in Pending[i].ts : t \in Tickets BY <1>0, PendingType
  <1>5. \A t \in Tickets : t \in LeftMsg(t).ts BY LeftMsgFields
  <1> QED BY <1>3, <1>4, <1>5 DEF TokenPending, LeftPending

\* AllocatePlayers sends the whole group: its hashes are all there.
LEMMA PlayDispatch ==
  ASSUME PlayInv, \A t \in cur : Committing(t), m2d' = Append(m2d, cur), phase' = "IDLE",
         UNCHANGED <<req, owner, outcome, lock, ticket, token, seat>>, Pending' = Pending
  PROVE  RestInv'
  <1>0. RestInv /\ SafeInv /\ TypeOK BY PlayTypes
  <1>1. m2d \in Seq(SUBSET Tickets) /\ cur \in SUBSET Tickets BY <1>0 DEF TypeOK
  <1>2. \A t \in cur : ticket[t].status = "INPROGRESS" /\ ~ Dispatched(t)
    BY <1>0, <1>1 DEF RestInv, HashInv, SafeInv, CommitInv
  <1>3. \A t \in cur : seat[t] = "NONE" /\ \A i \in 1 .. Len(m2d) : t \notin m2d[i] BY <1>2 DEF Dispatched
  <1>4. /\ Len(m2d') = Len(m2d) + 1 /\ m2d'[Len(m2d) + 1] = cur
        /\ \A i \in 1 .. Len(m2d) : m2d'[i] = m2d[i]
        /\ Len(m2d) \in Nat
    BY <1>1
  <1>5. \A i \in 1 .. Len(m2d') : i \in 1 .. Len(m2d) \/ i = Len(m2d) + 1 BY <1>4
  <1>6. GroupInv'
    <2>1. \A i \in 1 .. Len(m2d') : \A t \in m2d'[i] : seat'[t] = "NONE" /\ ticket'[t].status = "INPROGRESS"
      BY <1>0, <1>2, <1>3, <1>4, <1>5 DEF RestInv, GroupInv
    <2>2. \A i, j \in 1 .. Len(m2d') : \A t \in m2d'[i] : t \in m2d'[j] => i = j
      <3> SUFFICES ASSUME NEW i \in 1 .. Len(m2d'), NEW j \in 1 .. Len(m2d'), NEW t \in m2d'[i], t \in m2d'[j]
                   PROVE  i = j
        OBVIOUS
      <3>1. CASE i \in 1 .. Len(m2d) /\ j \in 1 .. Len(m2d) BY <3>1, <1>0, <1>4 DEF RestInv, GroupInv
      <3>2. CASE i = Len(m2d) + 1 /\ j \in 1 .. Len(m2d) BY <3>2, <1>3, <1>4
      <3>3. CASE j = Len(m2d) + 1 /\ i \in 1 .. Len(m2d) BY <3>3, <1>3, <1>4
      <3> QED BY <3>1, <3>2, <3>3, <1>5
    <2> QED BY <2>1, <2>2 DEF GroupInv
  <1>7. \A t \in Tickets : TokenPending(t)' = TokenPending(t) /\ LeftPending(t)' = LeftPending(t)
    BY PendingSame
  <1>8. \A t \in Tickets : ~ Committing(t)' BY DEF Committing
  <1>9. HashInv' BY <1>0, <1>7, <1>8 DEF RestInv, HashInv
  <1>10. ReportInv' BY <1>0, <1>7 DEF RestInv, ReportInv
  <1>11. SerialInv' BY <1>0 DEF RestInv, SerialInv, Active
  <1>12. MintInv' BY <1>0 DEF RestInv, MintInv
  <1>13. \A t \in Tickets : Holding(t)' = Holding(t) BY <1>7 DEF Holding, Writing
  <1>14. HoldInv' BY <1>0, <1>7, <1>13 DEF RestInv, HoldInv
  <1> QED BY <1>6, <1>9, <1>10, <1>11, <1>12, <1>14 DEF RestInv

LEMMA PlayPass ==
  ASSUME PlayInv, PassStep \/ \E g \in SUBSET queue : MMPick(g)
  PROVE  RestInv'
  <1>0. RestInv /\ SafeInv /\ TypeOK BY PlayTypes
  <1>1. UNCHANGED <<req, owner, outcome, lock, token, seat>> /\ Pending' = Pending
    BY DEF PassStep, MMVerify, MMDistribute, MMGiveBack, MMRecheck, MMPick,
           redisVars, nodeVars, mainVars, dediVars, Pending
  <1>g. cur \in SUBSET Tickets BY <1>0 DEF TypeOK
  <1>2. CASE UNCHANGED <<ticket, m2d>> /\ phase' # "DISTRIBUTE"
    <2>1. \A t \in Tickets : ~ Committing(t)' BY <1>2 DEF Committing
    <2> QED BY <1>1, <1>2, <2>1, PlayQuiet
  <1>3. CASE (\E t \in Tickets : MMRecheck(t)) \/ \E g \in SUBSET queue : MMPick(g)
    BY <1>3, <1>2 DEF MMRecheck, MMPick, redisVars, dediVars
  <1>4. CASE MMVerify
    <2>1. CASE UNCHANGED ticket /\ phase' = "RECHECK" BY <2>1, <1>4, <1>2 DEF MMVerify, dediVars
    <2>2. CASE (\A t \in cur : ticket[t].status = "WAITING") /\ SetStatus(cur, "INPROGRESS")
      <3>1. UNCHANGED <<cur, m2d>> BY <1>4 DEF MMVerify, dediVars
      <3>2. \A t \in cur : ~ Dispatched(t) /\ ~ TokenPending(t) BY <2>2, <1>g, WaitingIdle
      <3>3. \A t \in Tickets : Committing(t)' => t \in cur BY <3>1 DEF Committing
      <3> QED BY <2>2, <3>1, <3>2, <3>3, <1>1, <1>g, PlayStatus
    <2> QED BY <1>4, <2>1, <2>2 DEF MMVerify
  <1>5. CASE MMDistribute
    <2>1. \A t \in cur : Committing(t) BY <1>5 DEF MMDistribute, Committing
    <2>2. \A t \in cur : ticket[t].status = "INPROGRESS" /\ ticket[t].uid # NoUser
      BY <2>1, <1>0, <1>g, NoUserAssumption DEF RestInv, HashInv
    <2>3. {t \in cur : ticket[t].status # "NONE"} = cur BY <2>2
    <2>4. m2d' = Append(m2d, cur) /\ phase' = "IDLE" /\ UNCHANGED ticket
      BY <1>5, <2>2, <2>3 DEF MMDistribute, redisVars
    <2> QED BY <2>1, <2>4, <1>1, PlayDispatch
  <1>6. CASE MMGiveBack
    <2>1. phase = "DISTRIBUTE" /\ phase' = "IDLE" /\ UNCHANGED m2d /\ SetStatus(cur, "WAITING")
      BY <1>6 DEF MMGiveBack, dediVars
    <2>2. \A t \in cur : Committing(t) BY <2>1 DEF Committing
    <2>3. \A t \in cur : ticket[t].status = "INPROGRESS" /\ ~ Dispatched(t)
      BY <2>2, <1>0, <1>g DEF RestInv, HashInv, SafeInv, CommitInv
    <2>4. \A t \in cur : ~ TokenPending(t) BY <2>3, <1>g, PendingSeated DEF Dispatched
    <2>5. \A t \in Tickets : ~ Committing(t)' BY <2>1 DEF Committing
    <2> QED BY <2>1, <2>3, <2>4, <2>5, <1>1, <1>g, PlayStatus
  <1> QED BY <1>3, <1>4, <1>5, <1>6 DEF PassStep
-----------------------------------------------------------------------------
(* The Dedicate process and the proxy.                                     *)

\* MakeRoomForThisGroup: the group is seated and its tokens are reported.
LEMMA PlaySeat ==
  ASSUME PlayInv, MakeRoom
  PROVE  RestInv'
  <1>0. RestInv /\ SafeInv /\ TypeOK BY PlayTypes
  <1>1. m2d \in Seq(SUBSET Tickets) /\ m2d # <<>> /\ m2d' = Tail(m2d) BY <1>0 DEF MakeRoom, TypeOK
  <1>2. PICK g \in SUBSET Tickets : g = Head(m2d) /\ g = m2d[1] BY <1>1
  <1>3. UNCHANGED <<req, owner, outcome, lock, ticket, token, phase, cur, jobs>>
    BY DEF MakeRoom, redisVars, nodeVars, mainVars
  <1>4. \A t \in Tickets : seat'[t] = IF t \in g THEN "SEATED" ELSE seat[t] BY <1>2 DEF MakeRoom
  <1>m. PICK m \in DediMsgs : m = [type |-> "TOKEN", ts |-> g] BY DEF DediMsgs
  <1>n. m.type = "TOKEN" /\ m.ts = g BY <1>m
  <1>p. /\ Len(Pending') = Len(Pending) + 1
        /\ \A i \in 1 .. Len(Pending) : Pending'[i] = Pending[i]
        /\ Pending'[Len(Pending) + 1] = m
    BY <1>0, <1>2, <1>3, <1>m, PendingAppend DEF MakeRoom
  <1>q. Len(Pending) \in Nat BY <1>0, PendingType
  <1>i. \A i \in 1 .. Len(Pending') : i \in 1 .. Len(Pending) \/ i = Len(Pending) + 1 BY <1>p, <1>q
  <1>j. Len(Pending) + 1 \in 1 .. Len(Pending') /\ \A i \in 1 .. Len(Pending) : i \in 1 .. Len(Pending')
    BY <1>p, <1>q
  <1>g. \A t \in g : seat[t] = "NONE" /\ ticket[t].status = "INPROGRESS"
    BY <1>0, <1>1, <1>2 DEF RestInv, GroupInv
  <1>s. \A i \in 1 .. Len(Pending) : \A t \in Pending[i].ts : t \in Tickets /\ seat[t] # "NONE" /\ t \notin g
    BY <1>g, PendingSeated
  <1>5. \A t \in Tickets : TokenPending(t)' <=> TokenPending(t) \/ t \in g
    BY <1>p, <1>i, <1>j, <1>n DEF TokenPending
  <1>6. \A t \in Tickets : LeftPending(t)' <=> LeftPending(t)
    <2>1. \A t \in Tickets : LeftMsg(t) # m BY <1>n, LeftMsgFields
    <2> QED BY <2>1, <1>p, <1>i, <1>j DEF LeftPending
  <1>c. \A t \in Tickets : Committing(t)' = Committing(t) BY <1>3 DEF Committing
  <1>7. HashInv'
    <2>1. \A t \in Tickets : seat[t] # "NONE" => seat'[t] # "NONE" BY <1>4
    <2> QED BY <2>1, <1>0, <1>3, <1>5, <1>g, <1>c DEF RestInv, HashInv
  <1>8. GroupInv'
    <2>1. \A i \in 1 .. Len(m2d') : m2d'[i] = m2d[i + 1] /\ i + 1 \in 1 .. Len(m2d) /\ i + 1 # 1 BY <1>1
    <2>2. 1 \in 1 .. Len(m2d) BY <1>1
    <2>3. \A i \in 1 .. Len(m2d') : \A t \in m2d'[i] : t \notin g /\ t \in Tickets
      BY <2>1, <2>2, <1>0, <1>1, <1>2 DEF RestInv, GroupInv
    <2>4. \A i \in 1 .. Len(m2d') : \A t \in m2d'[i] : seat'[t] = "NONE" /\ ticket'[t].status = "INPROGRESS"
      BY <2>1, <2>3, <1>0, <1>3, <1>4 DEF RestInv, GroupInv
    <2>5. \A i, j \in 1 .. Len(m2d') : \A t \in m2d'[i] : t \in m2d'[j] => i = j
      BY <2>1, <1>0 DEF RestInv, GroupInv
    <2> QED BY <2>4, <2>5 DEF GroupInv
  <1>9. ReportInv'
    <2> USE DEF RestInv, ReportInv
    <2>1. \A i, j \in 1 .. Len(Pending') : \A t \in Tickets :
             t \in Pending'[i].ts /\ t \in Pending'[j].ts /\ Pending'[i].type = Pending'[j].type => i = j
      BY <1>0, <1>p, <1>i, <1>n, <1>s
    <2>2. \A i, j \in 1 .. Len(Pending') : \A t \in Tickets :
             /\ t \in Pending'[i].ts /\ Pending'[i].type = "TOKEN"
             /\ t \in Pending'[j].ts /\ Pending'[j].type = "LEFT"
             => i < j
      BY <1>0, <1>p, <1>i, <1>n, <1>s
    <2>3. \A i \in 1 .. Len(Pending') : Pending'[i].type = "LEFT" =>
             \E t \in Tickets : Pending'[i] = LeftMsg(t) /\ seat'[t] = "LEFT"
      <3>1. \A t \in Tickets : seat[t] = "LEFT" => seat'[t] = "LEFT" BY <1>4, <1>g
      <3> QED BY <3>1, <1>0, <1>p, <1>i, <1>n
    <2>4. \A t \in Tickets : TokenPending(t)' /\ seat'[t] = "LEFT" => LeftPending(t)'
      BY <1>0, <1>4, <1>5, <1>6
    <2> QED BY <2>1, <2>2, <2>3, <2>4 DEF LeftMsg
  <1>10. SerialInv' BY <1>0, <1>3 DEF RestInv, SerialInv, Active
  <1>11. MintInv' BY <1>0, <1>3 DEF RestInv, MintInv
  <1>12. \A t \in Tickets : Holding(t)' <=> Holding(t)
    <2>1. ASSUME NEW t \in Tickets, t \in g PROVE Holding(t) /\ Holding(t)'
      BY <2>1, <1>g, <1>4 DEF Holding
    <2>2. ASSUME NEW t \in Tickets, t \notin g PROVE Holding(t)' <=> Holding(t)
      BY <2>2, <1>3, <1>4, <1>6 DEF Holding, Writing
    <2> QED BY <2>1, <2>2
  <1>13. HoldInv'
    <2>1. \A t \in Tickets : t \notin g => seat'[t] = seat[t] BY <1>4
    <2> QED BY <2>1, <1>0, <1>3, <1>5, <1>12 DEF RestInv, HoldInv
  <1> QED BY <1>7, <1>8, <1>9, <1>10, <1>11, <1>13 DEF RestInv

\* NotifyLeftOnce: the departure is reported behind the token.
LEMMA PlayLeave ==
  ASSUME PlayInv, NEW x \in Tickets, Leave(x)
  PROVE  RestInv'
  <1>0. RestInv /\ SafeInv /\ TypeOK BY PlayTypes
  <1>3. UNCHANGED <<req, owner, outcome, lock, ticket, token, phase, cur, jobs, m2d>>
    BY DEF Leave, redisVars, nodeVars, mainVars
  <1>4. seat[x] = "SEATED" /\ seat'[x] = "LEFT" /\ \A t \in Tickets : t # x => seat'[t] = seat[t]
    BY <1>0 DEF Leave, TypeOK
  <1>m. PICK m \in DediMsgs : m = LeftMsg(x) BY LeftMsgFields
  <1>n. m.type = "LEFT" /\ m.ts = {x} BY <1>m, LeftMsgFields
  <1>p. /\ Len(Pending') = Len(Pending) + 1
        /\ \A i \in 1 .. Len(Pending) : Pending'[i] = Pending[i]
        /\ Pending'[Len(Pending) + 1] = m
    BY <1>0, <1>3, <1>m, PendingAppend DEF Leave, LeftMsg
  <1>q. Len(Pending) \in Nat BY <1>0, PendingType
  <1>i. \A i \in 1 .. Len(Pending') : i \in 1 .. Len(Pending) \/ i = Len(Pending) + 1 BY <1>p, <1>q
  <1>j. Len(Pending) + 1 \in 1 .. Len(Pending') /\ \A i \in 1 .. Len(Pending) : i \in 1 .. Len(Pending')
    BY <1>p, <1>q
  <1>s. \A i \in 1 .. Len(Pending) : Pending[i].type = "LEFT" => x \notin Pending[i].ts
    BY <1>0, <1>4, LeftMsgFields DEF RestInv, ReportInv
  <1>5. \A t \in Tickets : TokenPending(t)' <=> TokenPending(t)
    BY <1>p, <1>i, <1>j, <1>n DEF TokenPending
  <1>6. \A t \in Tickets : LeftPending(t)' <=> LeftPending(t) \/ t = x
    <2>1. \A t \in Tickets : LeftMsg(t) = m <=> t = x BY <1>m, LeftMsgFields
    <2> QED BY <2>1, <1>p, <1>i, <1>j DEF LeftPending
  <1>c. \A t \in Tickets : Committing(t)' = Committing(t) BY <1>3 DEF Committing
  <1>7. HashInv'
    <2>1. \A t \in Tickets : seat[t] # "NONE" => seat'[t] # "NONE" BY <1>4
    <2> QED BY <2>1, <1>0, <1>3, <1>5, <1>c DEF RestInv, HashInv
  <1>8. GroupInv'
    <2>1. m2d \in Seq(SUBSET Tickets) BY <1>0 DEF TypeOK
    <2>2. \A i \in 1 .. Len(m2d) : \A t \in m2d[i] : t \in Tickets BY <2>1
    <2> QED BY <2>2, <1>0, <1>3, <1>4 DEF RestInv, GroupInv
  <1>9. ReportInv'
    <2> USE DEF RestInv, ReportInv
    <2>1. \A i, j \in 1 .. Len(Pending') : \A t \in Tickets :
             t \in Pending'[i].ts /\ t \in Pending'[j].ts /\ Pending'[i].type = Pending'[j].type => i = j
      BY <1>0, <1>p, <1>i, <1>n, <1>s
    <2>2. \A i, j \in 1 .. Len(Pending') : \A t \in Tickets :
             /\ t \in Pending'[i].ts /\ Pending'[i].type = "TOKEN"
             /\ t \in Pending'[j].ts /\ Pending'[j].type = "LEFT"
             => i < j
      BY <1>0, <1>p, <1>q, <1>i, <1>n
    <2>3. \A i \in 1 .. Len(Pending') : Pending'[i].type = "LEFT" =>
             \E t \in Tickets : Pending'[i] = LeftMsg(t) /\ seat'[t] = "LEFT"
      <3>1. \A t \in Tickets : seat[t] = "LEFT" => seat'[t] = "LEFT" BY <1>4
      <3> QED BY <3>1, <1>0, <1>p, <1>i, <1>m, <1>4
    <2>4. \A t \in Tickets : TokenPending(t)' /\ seat'[t] = "LEFT" => LeftPending(t)'
      BY <1>0, <1>4, <1>5, <1>6
    <2> QED BY <2>1, <2>2, <2>3, <2>4 DEF LeftMsg
  <1>10. SerialInv' BY <1>0, <1>3 DEF RestInv, SerialInv, Active
  <1>11. MintInv' BY <1>0, <1>3 DEF RestInv, MintInv
  <1>12. \A t \in Tickets : Holding(t)' <=> Holding(t)
    BY <1>3, <1>4, <1>6 DEF Holding, Writing
  <1>13. HoldInv' BY <1>0, <1>3, <1>4, <1>5, <1>12 DEF RestInv, HoldInv
  <1> QED BY <1>7, <1>8, <1>9, <1>10, <1>11, <1>13 DEF RestInv

\* What is pending once the proxy has executed the first report.
LEMMA PlayTake ==
  ASSUME PlayInv, jobs # <<>>, jobs' = Tail(jobs), UNCHANGED <<d2m, seat>>,
         NEW m, m = Head(jobs)
  PROVE  /\ m = Pending[1] /\ m \in DediMsgs /\ m.ts \subseteq Tickets
         /\ \A t \in Tickets : m.type = "TOKEN" =>
               /\ TokenPending(t)' <=> TokenPending(t) /\ t \notin m.ts
               /\ LeftPending(t)' <=> LeftPending(t)
         /\ \A t \in Tickets : m = LeftMsg(t) =>
               /\ \A s \in Tickets : TokenPending(s)' <=> TokenPending(s)
               /\ \A s \in Tickets : LeftPending(s)' <=> LeftPending(s) /\ s # t
               /\ ~ TokenPending(t)
         /\ \A t \in m.ts : m.type = "TOKEN" => TokenPending(t)
         /\ m.type = "LEFT" => \E t \in Tickets : m = LeftMsg(t) /\ seat[t] = "LEFT"
         /\ ReportInv'
  <1>0. RestInv /\ TypeOK BY PlayTypes
  <1>p. /\ Len(Pending) = Len(Pending') + 1 /\ Len(Pending') \in Nat
        /\ \A i \in 1 .. Len(Pending') : Pending'[i] = Pending[i + 1]
        /\ Pending[1] = m
    BY <1>0, PendingTail
  <1>i. 1 \in 1 .. Len(Pending) /\ \A i \in 1 .. Len(Pending') : i + 1 \in 1 .. Len(Pending) /\ i + 1 # 1
    BY <1>p
  <1>k. \A j \in 1 .. Len(Pending) : j = 1 \/ (j - 1 \in 1 .. Len(Pending') /\ Pending'[j - 1] = Pending[j])
    <2>1. \A j \in 1 .. Len(Pending) : j = 1 \/ (j - 1 \in 1 .. Len(Pending') /\ (j - 1) + 1 = j) BY <1>p
    <2> QED BY <2>1, <1>p
  <1>1. m \in DediMsgs /\ m.ts \subseteq Tickets BY <1>0, <1>i, <1>p, PendingType
  <1>2. \A t \in m.ts : m.type = "TOKEN" => TokenPending(t) BY <1>i, <1>p DEF TokenPending
  <1>3. m.type = "LEFT" => \E t \in Tickets : m = LeftMsg(t) /\ seat[t] = "LEFT"
    BY <1>0, <1>i, <1>p DEF RestInv, ReportInv
  <1>4. ASSUME m.type = "TOKEN", NEW t \in Tickets
        PROVE  /\ TokenPending(t)' <=> TokenPending(t) /\ t \notin m.ts
               /\ LeftPending(t)' <=> LeftPending(t)
    <2>1. TokenPending(t)' => TokenPending(t) BY <1>i, <1>p DEF TokenPending
    <2>2. t \in m.ts => ~ TokenPending(t)'
      BY <1>4, <1>0, <1>i, <1>p DEF TokenPending, RestInv, ReportInv
    <2>3. TokenPending(t) /\ t \notin m.ts => TokenPending(t)' BY <1>k, <1>p DEF TokenPending
    <2>4. LeftMsg(t) # m BY <1>4, LeftMsgFields
    <2>5. LeftPending(t)' => LeftPending(t) BY <1>i, <1>p DEF LeftPending
    <2>6. LeftPending(t) => LeftPending(t)' BY <2>4, <1>k, <1>p DEF LeftPending
    <2> QED BY <2>1, <2>2, <2>3, <2>5, <2>6
  <1>5. ASSUME NEW t \in Tickets, m = LeftMsg(t)
        PROVE  /\ \A s \in Tickets : TokenPending(s)' <=> TokenPending(s)
               /\ \A s \in Tickets : LeftPending(s)' <=> LeftPending(s) /\ s # t
               /\ ~ TokenPending(t)
    <2>0. m.type = "LEFT" /\ m.ts = {t} BY <1>5, LeftMsgFields
    <2>1. \A s \in Tickets : TokenPending(s)' => TokenPending(s) BY <1>i, <1>p DEF TokenPending
    <2>2. \A s \in Tickets : TokenPending(s) => TokenPending(s)' BY <2>0, <1>k, <1>p DEF TokenPending
    <2>3. ~ TokenPending(t)
      <3>1. ASSUME NEW i \in 1 .. Len(Pending), Pending[i].type = "TOKEN", t \in Pending[i].ts PROVE FALSE
        <4>1. i < 1 BY <3>1, <2>0, <1>0, <1>i, <1>p DEF RestInv, ReportInv
        <4> QED BY <4>1, <1>p
      <3> QED BY <3>1 DEF TokenPending
    <2>4. \A s \in Tickets : LeftPending(s)' => LeftPending(s) BY <1>i, <1>p DEF LeftPending
    <2>5. \A s \in Tickets : LeftPending(s) /\ s # t => LeftPending(s)'
      <3>1. \A s \in Tickets : s # t => LeftMsg(s) # m BY <2>0, LeftMsgFields
      <3> QED BY <3>1, <1>k, <1>p DEF LeftPending
    <2>6. ~ LeftPending(t)'
      <3>1. ASSUME NEW i \in 1 .. Len(Pending'), Pending'[i] = LeftMsg(t) PROVE FALSE
        <4>1. Pending[i + 1].type = m.type /\ t \in Pending[i + 1].ts /\ t \in m.ts
          BY <3>1, <2>0, <1>p, LeftMsgFields
        <4>2. i + 1 = 1 BY <4>1, <1>0, <1>i, <1>p DEF RestInv, ReportInv
        <4> QED BY <4>2, <1>i
      <3>2. LeftMsg(t)' = LeftMsg(t) BY DEF LeftMsg
      <3> QED BY <3>1, <3>2 DEF LeftPending
    <2> QED BY <2>1, <2>2, <2>3, <2>4, <2>5, <2>6
  <1>6. ReportInv'
    <2> USE DEF RestInv, ReportInv
    <2>1. ASSUME NEW i \in 1 .. Len(Pending'), NEW j \in 1 .. Len(Pending'), NEW t \in Tickets,
                 t \in Pending'[i].ts, t \in Pending'[j].ts, Pending'[i].type = Pending'[j].type
          PROVE  i = j
      <3>1. Pending'[i] = Pending[i + 1] /\ Pending'[j] = Pending[j + 1] BY <1>p
      <3>2. i + 1 \in 1 .. Len(Pending) /\ j + 1 \in 1 .. Len(Pending) BY <1>i
      <3>3. i + 1 = j + 1 BY <2>1, <3>1, <3>2, <1>0
      <3> QED BY <3>3
    <2>2. ASSUME NEW i \in 1 .. Len(Pending'), NEW j \in 1 .. Len(Pending'), NEW t \in Tickets,
                 t \in Pending'[i].ts, Pending'[i].type = "TOKEN",
                 t \in Pending'[j].ts, Pending'[j].type = "LEFT"
          PROVE  i < j
      <3>1. Pending'[i] = Pending[i + 1] /\ Pending'[j] = Pending[j + 1] BY <1>p
      <3>2. i + 1 \in 1 .. Len(Pending) /\ j + 1 \in 1 .. Len(Pending) BY <1>i
      <3>3. i + 1 < j + 1 BY <2>2, <3>1, <3>2, <1>0
      <3> QED BY <3>3
    <2>3. ASSUME NEW i \in 1 .. Len(Pending'), Pending'[i].type = "LEFT"
          PROVE  \E t \in Tickets : Pending'[i] = LeftMsg(t) /\ seat'[t] = "LEFT"
      <3>1. Pending'[i] = Pending[i + 1] BY <1>p
      <3>2. i + 1 \in 1 .. Len(Pending) BY <1>i
      <3> QED BY <2>3, <3>1, <3>2, <1>0
    <2>4. \A t \in Tickets : TokenPending(t)' /\ seat'[t] = "LEFT" => LeftPending(t)'
      <3>1. CASE m.type = "TOKEN" BY <3>1, <1>0, <1>4
      <3>2. CASE m.type = "LEFT"
        <4>1. PICK x \in Tickets : m = LeftMsg(x) BY <3>2, <1>3
        <4> QED BY <4>1, <1>0, <1>5
      <3> QED BY <3>1, <3>2, <1>1 DEF DediMsgs
    <2> QED BY <2>1, <2>2, <2>3, <2>4 DEF LeftMsg
  <1> QED BY <1>p, <1>1, <1>2, <1>3, <1>4, <1>5, <1>6

\* UpdateEntryTokenRequest: the lock of every member names its ticket already,
\* and says from now on that it plays.
LEMMA PlayToken ==
  ASSUME PlayInv, jobs # <<>>, jobs' = Tail(jobs), Head(jobs).type = "TOKEN", ExecuteToken(Head(jobs).ts),
         UNCHANGED <<req, owner, outcome, seat, m2d, d2m, phase, cur>>
  PROVE  RestInv' /\ \A u \in Users : lock'[u].t = lock[u].t
  <1>0. RestInv /\ SafeInv /\ TypeOK /\ ticket \in [Tickets -> Hashes] BY PlayTypes
  <1>m. PICK m : m = Head(jobs) OBVIOUS
  <1>g. PICK g \in SUBSET Tickets : g = m.ts BY <1>m, PlayTake
  <1>p. /\ \A t \in Tickets : TokenPending(t)' <=> TokenPending(t) /\ t \notin g
        /\ \A t \in Tickets : LeftPending(t)' <=> LeftPending(t)
        /\ \A t \in g : TokenPending(t)
        /\ ReportInv'
    BY <1>m, <1>g, PlayTake
  <1>e. ExecuteToken(g) BY <1>m, <1>g
  <1>1. \A t \in g : /\ ticket[t].status = "INPROGRESS" /\ owner[t] \in Users /\ ticket[t].uid = owner[t]
                     /\ seat[t] \in {"SEATED", "LEFT"} /\ (seat[t] = "LEFT" => LeftPending(t))
    <2>1. \A t \in g : ticket[t].status = "INPROGRESS" BY <1>0, <1>p DEF RestInv, HashInv
    <2>2. \A t \in g : owner[t] \in Users /\ ticket[t].uid = owner[t] BY <1>0, <2>1 DEF RestInv, HashInv
    <2>3. \A t \in g : seat[t] # "NONE" BY <1>p, PendingSeated
    <2>4. \A t \in g : seat[t] \in {"NONE", "SEATED", "LEFT"} BY <1>0 DEF TypeOK
    <2>5. \A t \in g : seat[t] = "LEFT" => LeftPending(t) BY <1>0, <1>p DEF RestInv, ReportInv
    <2> QED BY <2>1, <2>2, <2>3, <2>4, <2>5
  <1>2. \A t \in g : lock[owner[t]].t = t
    <2>1. \A t \in g : Holding(t) BY <1>1 DEF Holding
    <2> QED BY <2>1, <1>0 DEF RestInv, HoldInv
  <1>3. \A u \in Users : \A t \in g : LastOf(u, g, t) <=> owner[t] = u
    <2>1. \A t \in g : t <= t BY DEF Tickets
    <2>2. \A s, t \in g : owner[s] = owner[t] => s = t BY <1>2
    <2> QED BY <1>1, <2>1, <2>2 DEF LastOf
  <1>4. \A u \in Users : \A t \in g : owner[t] = u => lock'[u] = InGame(t)
    <2> SUFFICES ASSUME NEW u \in Users, NEW t \in g, owner[t] = u PROVE TokenLock(u, g) = InGame(t)
      BY <1>e DEF ExecuteToken
    <2>1. \A s \in g : LastOf(u, g, s) <=> s = t BY <1>2, <1>3
    <2>2. (CHOOSE s \in g : LastOf(u, g, s)) = t BY <2>1
    <2> QED BY <2>1, <2>2 DEF TokenLock
  <1>5. \A u \in Users : (\A t \in g : owner[t] # u) => lock'[u] = lock[u]
    BY <1>3, <1>e DEF ExecuteToken, TokenLock
  <1>k. \A t \in Tickets : InGame(t).t = t /\ InGame(t).kind = "INGAME" BY DEF InGame
  <1>6. \A u \in Users : lock'[u].t = lock[u].t BY <1>2, <1>4, <1>5, <1>k
  <1>7. \A t \in Tickets : ticket'[t].status = IF t \in g THEN "SUCCESS" ELSE ticket[t].status
    BY <1>0, <1>e, SetStatusType DEF ExecuteToken, Statuses
  <1>8. \A t \in Tickets : ticket'[t].uid = ticket[t].uid
    <2>1. \A t \in Tickets : ticket[t].uid \in Users \cup {NoUser} BY <1>0 DEF Hashes
    <2>2. \A t \in Tickets : Hash("SUCCESS", ticket[t].uid).uid = ticket[t].uid BY <2>1, HashType DEF Statuses
    <2> QED BY <2>2, <1>e DEF ExecuteToken, SetStatus
  <1>c. \A t \in Tickets : Committing(t)' = Committing(t) BY DEF Committing
  <1>d. \A t \in g : ~ Committing(t) BY <1>0, <1>1 DEF SafeInv, CommitInv, Dispatched
  <1>9. \A t \in Tickets : token'[t] => t \in g \/ token[t] BY <1>e DEF ExecuteToken
  <1>10. HashInv'
    <2> SUFFICES ASSUME NEW t \in Tickets
                 PROVE  /\ ticket'[t].status # "NONE" => owner'[t] \in Users /\ ticket'[t].uid = owner'[t]
                        /\ ticket'[t].status = "NONE" => ticket'[t].uid = NoUser
                        /\ Committing(t)' => ticket'[t].status = "INPROGRESS"
                        /\ TokenPending(t)' => ticket'[t].status = "INPROGRESS"
                        /\ token'[t] => ticket'[t].status = "SUCCESS"
                        /\ ticket'[t].status = "SUCCESS" => seat'[t] # "NONE"
      BY DEF HashInv
    <2>1. CASE t \in g BY <2>1, <1>1, <1>7, <1>8, <1>c, <1>d, <1>p
    <2>2. CASE t \notin g BY <2>2, <1>0, <1>7, <1>8, <1>9, <1>c, <1>p DEF RestInv, HashInv
    <2> QED BY <2>1, <2>2
  <1>11. GroupInv'
    <2>1. m2d \in Seq(SUBSET Tickets) BY <1>0 DEF TypeOK
    <2>2. \A i \in 1 .. Len(m2d) : \A t \in m2d[i] : t \in Tickets BY <2>1
    <2>3. \A i \in 1 .. Len(m2d) : \A t \in m2d[i] : t \notin g BY <1>0, <1>1 DEF RestInv, GroupInv
    <2> QED BY <1>0, <1>7, <2>2, <2>3 DEF RestInv, GroupInv
  <1>12. SerialInv'
    <2>0. \A s \in Reqs : Active(s) => req[s].u \in Users BY <1>0 DEF TypeOK, Active
    <2>1. \A s \in Reqs : req[s].pc \in {"DEL", "EXPIREDDEL"} => req[s].u \in Users BY <2>0 DEF Active
    <2>2. \A u \in Users : lock[u] = NoLock => lock'[u] = lock[u] BY <1>2, <1>5, PlayTypes
    <2> QED BY <2>1, <2>2, <1>0, <1>6 DEF RestInv, SerialInv, Active
  <1>13. MintInv' BY <1>0 DEF RestInv, MintInv
  <1>14. \A t \in Tickets : Holding(t)' <=> Holding(t)
    <2>1. ASSUME NEW t \in Tickets, t \in g PROVE Holding(t) /\ Holding(t)'
      BY <2>1, <1>1, <1>p DEF Holding
    <2>2. ASSUME NEW t \in Tickets, t \notin g PROVE Holding(t)' <=> Holding(t)
      BY <2>2, <1>7, <1>p DEF Holding, Writing
    <2> QED BY <2>1, <2>2
  <1>15. HoldInv'
    <2>1. ASSUME NEW u \in Users, NEW t \in Tickets, lock'[u].t = t, lock'[u].kind = "TICKET", seat[t] # "NONE"
          PROVE  TokenPending(t)'
      <3>1. \A s \in g : owner[s] # u BY <2>1, <1>4, <1>k
      <3>2. lock'[u] = lock[u] /\ owner[t] = u BY <3>1, <2>1, <1>0, <1>5, <1>6 DEF RestInv, HoldInv
      <3> QED BY <3>1, <3>2, <2>1, <1>0, <1>p DEF RestInv, HoldInv
    <2> QED BY <2>1, <1>0, <1>6, <1>14 DEF RestInv, HoldInv
  <1> QED BY <1>p, <1>6, <1>10, <1>11, <1>12, <1>13, <1>15 DEF RestInv

\* NotifyPlayerLeftRequest: the lock it deletes is that of the ticket that left.
LEMMA PlayLeft ==
  ASSUME PlayInv, jobs # <<>>, jobs' = Tail(jobs), Head(jobs).type = "LEFT", ExecuteLeft(Head(jobs).ts),
         UNCHANGED <<req, owner, outcome, seat, m2d, d2m, phase, cur>>
  PROVE  /\ RestInv'
         /\ \E x \in Tickets : /\ seat[x] = "LEFT" /\ owner[x] \in Users /\ lock[owner[x]].t = x
                               /\ lock' = [lock EXCEPT ![owner[x]] = NoLock]
  <1>0. RestInv /\ SafeInv /\ TypeOK /\ lock \in [Users -> Locks] BY PlayTypes
  <1>m. PICK m : m = Head(jobs) OBVIOUS
  <1>x. PICK x \in Tickets : m = LeftMsg(x) /\ seat[x] = "LEFT" BY <1>m, PlayTake
  <1>f. m.ts = {x} BY <1>x, LeftMsgFields
  <1>p. /\ \A t \in Tickets : TokenPending(t)' <=> TokenPending(t)
        /\ \A t \in Tickets : LeftPending(t)' <=> LeftPending(t) /\ t # x
        /\ ~ TokenPending(x)
        /\ ReportInv'
    BY <1>m, <1>x, PlayTake
  <1>1. Holding(x)
    <2>1. Pending[1] = LeftMsg(x) BY <1>m, <1>x, PlayTake
    <2>2. 1 \in 1 .. Len(Pending)
      <3>1. jobs \in Seq(DediMsgs) BY <1>0 DEF TypeOK
      <3>2. Len(jobs) \in Nat /\ Len(jobs) # 0 BY <3>1
      <3>3. Len(d2m) \in Nat BY <1>0 DEF TypeOK
      <3> QED BY <3>2, <3>3, <1>0, PendingType
    <2> QED BY <1>x, <2>1, <2>2 DEF Holding, LeftPending
  <1>u. PICK u \in Users : u = owner[x] BY <1>0, <1>1 DEF RestInv, HoldInv
  <1>2. lock[u].t = x BY <1>0, <1>1, <1>u DEF RestInv, HoldInv
  <1>e. lock' = [v \in Users |-> IF owner[x] = v THEN NoLock ELSE lock[v]] /\ UNCHANGED <<ticket, token>>
    BY <1>m, <1>f DEF ExecuteLeft
  <1>l. lock'[u] = NoLock /\ \A v \in Users : v # u => lock'[v] = lock[v] BY <1>e, <1>u
  <1>c. \A t \in Tickets : Committing(t)' = Committing(t) BY DEF Committing
  <1>3. HashInv' BY <1>0, <1>c, <1>e, <1>p DEF RestInv, HashInv
  <1>4. GroupInv' BY <1>0, <1>e DEF RestInv, GroupInv
  <1>5. \A s \in Reqs : req[s].pc = "DEL" => req[s].u \in Users /\ req[s].u # u
    <2> SUFFICES ASSUME NEW s \in Reqs, req[s].pc = "DEL" PROVE req[s].u \in Users /\ req[s].u # u
      OBVIOUS
    <2>1. req[s].u \in Users BY <1>0 DEF TypeOK
    <2>2. lock[req[s].u].t = req[s].t /\ outcome[req[s].t] = "CANCELLED" BY <1>0 DEF RestInv, SerialInv
    <2>3. outcome[x] # "CANCELLED" BY <1>0, <1>x DEF SafeInv, CancelWins, Dispatched
    <2> QED BY <2>1, <2>2, <2>3, <1>2
  <1>6. SerialInv'
    <2>1. \A s \in Reqs : req[s].pc = "EXPIREDDEL" => req[s].u \in Users BY <1>0 DEF TypeOK
    <2>2. \A v \in Users : lock[v] = NoLock => lock'[v] = NoLock BY <1>l
    <2> QED BY <1>0, <1>5, <1>l, <2>1, <2>2 DEF RestInv, SerialInv, Active
  <1>7. MintInv' BY <1>0 DEF RestInv, MintInv
  <1>8. \A t \in Tickets : t # x => (Holding(t)' <=> Holding(t))
    BY <1>e, <1>p DEF Holding, Writing
  <1>9. ~ Holding(x)'
    <2>1. \A s \in Reqs : ~ Writing(s, x)
      <3>1. ~ Fresh(x) BY <1>0, <1>x DEF SafeInv, FreshInv, Dispatched
      <3> QED BY <3>1 DEF Fresh
    <2> QED BY <2>1, <1>x, <1>p DEF Holding, Writing
  <1>10. HoldInv'
    <2>1. ASSUME NEW t \in Tickets, Holding(t)' PROVE owner[t] \in Users /\ lock'[owner[t]].t = t
      <3>1. t # x /\ Holding(t) BY <2>1, <1>8, <1>9
      <3>2. owner[t] \in Users /\ lock[owner[t]].t = t BY <3>1, <1>0 DEF RestInv, HoldInv
      <3>3. owner[t] # u BY <3>1, <3>2, <1>2
      <3> QED BY <3>2, <3>3, <1>l
    <2>2. ASSUME NEW v \in Users, NEW t \in Tickets, lock'[v].t = t
          PROVE  v # u /\ lock'[v] = lock[v] /\ t # x
      <3>1. v # u BY <2>2, <1>l, PlayTypes
      <3>2. owner[t] = v BY <3>1, <2>2, <1>l, <1>0 DEF RestInv, HoldInv
      <3> QED BY <3>1, <3>2, <1>l, <1>u
    <2> QED BY <2>1, <2>2, <1>0, <1>8, <1>p DEF RestInv, HoldInv
  <1>11. lock' = [lock EXCEPT ![owner[x]] = NoLock] BY <1>0, <1>e
  <1> QED BY <1>p, <1>x, <1>u, <1>2, <1>3, <1>4, <1>6, <1>7, <1>10, <1>11 DEF RestInv

\* A job of the proxy.
LEMMA PlayJob ==
  ASSUME PlayInv, ExecuteJob
  PROVE  RestInv'
  <1>1. jobs # <<>> /\ jobs' = Tail(jobs) /\ UNCHANGED <<req, owner, outcome, seat, m2d, d2m, phase, cur>>
    BY DEF ExecuteJob, nodeVars, dediVars
  <1>2. CASE Head(jobs).type = "TOKEN" /\ ExecuteToken(Head(jobs).ts) BY <1>1, <1>2, PlayToken
  <1>3. CASE Head(jobs).type = "LEFT" /\ ExecuteLeft(Head(jobs).ts) BY <1>1, <1>3, PlayLeft
  <1> QED BY <1>2, <1>3 DEF ExecuteJob
-----------------------------------------------------------------------------
(* The invariant.                                                          *)

LEMMA PlayInit == Init => PlayInv
  <1> SUFFICES ASSUME Init PROVE PlayInv OBVIOUS
  <1>1. CancelInv BY CancelInit
  <1>2. Pending = <<>> /\ Len(Pending) = 0 /\ Len(m2d) = 0 BY DEF Init, Pending
  <1>3. /\ \A r \in Reqs : req[r].pc = "IDLE"
        /\ \A t \in Tickets : ticket[t].status = "NONE" /\ ticket[t].uid = NoUser
        /\ \A t \in Tickets : seat[t] = "NONE" /\ owner[t] = NoUser /\ token[t] = FALSE
        /\ \A u \in Users : lock[u].t = NoTicket
        /\ phase = "IDLE"
    BY AtType, HashType DEF Init, NoLock
  <1>4. \A t \in Tickets : NoTicket # t BY DEF Tickets, NoTicket
  <1>5. SerialInv BY <1>3 DEF SerialInv, Active
  <1>6. MintInv BY <1>3 DEF MintInv
  <1>7. HashInv BY <1>2, <1>3 DEF HashInv, Committing, TokenPending
  <1>8. GroupInv BY <1>2 DEF GroupInv
  <1>9. ReportInv BY <1>2 DEF ReportInv, TokenPending
  <1>10. HoldInv BY <1>3, <1>4 DEF HoldInv, Holding, Writing
  <1> QED BY <1>1, <1>5, <1>6, <1>7, <1>8, <1>9, <1>10 DEF PlayInv

LEMMA PlayNext ==
  ASSUME CalmClients
  PROVE  PlayInv /\ [Next]_vars => PlayInv'
  <1> SUFFICES ASSUME PlayInv, [Next]_vars PROVE PlayInv' OBVIOUS
  <1>1. CancelInv' BY CancelNext DEF PlayInv
  <1>2. CASE UNCHANGED vars
    <2>1. UNCHANGED <<req, owner, outcome, lock, ticket, token, seat, m2d, phase, cur>> /\ Pending' = Pending
      BY <1>2 DEF vars, redisVars, nodeVars, mainVars, dediVars, Pending
    <2>2. \A t \in Tickets : Committing(t)' = Committing(t) BY <2>1 DEF Committing
    <2>3. RestInv' BY <2>1, <2>2, PlayQuiet
    <2> QED BY <1>1, <2>3 DEF PlayInv, RestInv
  <1>3. CASE HandleDedi
    <2>1. UNCHANGED <<req, owner, outcome, lock, ticket, token, seat, m2d, phase, cur>>
      BY <1>3 DEF HandleDedi, redisVars, nodeVars
    <2>2. Pending' = Pending BY <1>3, PlayTypes, PendingHandle DEF HandleDedi
    <2>3. \A t \in Tickets : Committing(t)' = Committing(t) BY <2>1 DEF Committing
    <2> QED BY <1>1, <2>1, <2>2, <2>3, PlayQuiet DEF PlayInv, RestInv
  <1>4. CASE Expiry BY <1>4 DEF Expiry, ExpireTicket, ExpireToken, ExpireLock, CalmClients
  <1>5. CASE ClientStep \/ (\E r \in Reqs : NodeStep(r))
    BY <1>1, <1>5, PlayClient, PlayNode DEF PlayInv, RestInv
  <1>6. CASE HttpStep \/ PassStep \/ (\E g \in SUBSET queue : MMPick(g))
    BY <1>1, <1>6, PlayHttp, PlayPass DEF PlayInv, RestInv
  <1>7. CASE MakeRoom \/ (\E t \in Tickets : Leave(t)) \/ ExecuteJob
    BY <1>1, <1>7, PlaySeat, PlayLeave, PlayJob DEF PlayInv, RestInv
  <1> QED BY <1>2, <1>3, <1>4, <1>5, <1>6, <1>7 DEF Next

(***************************************************************************)
(* With clients that wait for their answers and no faults, the lock        *)
(* active_match keeps an account out of two rooms: a seat holds the lock   *)
(* of its account until the departure is executed.                         *)
(***************************************************************************)
THEOREM OneSeat ==
  ASSUME CalmClients
  PROVE  Spec => []OneSeatPerUser
  <1>1. PlayInv => OneSeatPerUser
    <2> SUFFICES ASSUME PlayInv PROVE OneSeatPerUser OBVIOUS
    <2>1. HoldInv BY DEF PlayInv
    <2>2. \A t \in Tickets : seat[t] = "SEATED" => lock[owner[t]].t = t BY <2>1 DEF HoldInv, Holding
    <2> QED BY <2>2 DEF OneSeatPerUser
  <1> QED BY PlayInit, PlayNext, <1>1, PTL DEF Spec

(***************************************************************************)
(* Under the same conditions the lock of a player that has left is still   *)
(* set only while its NotifyPlayerLeft is on its way: UpdateEntryToken is  *)
(* executed before it and cannot set the lock again.                       *)
(***************************************************************************)
THEOREM FinishedUnlocks ==
  ASSUME CalmClients
  PROVE  Spec => []FinishedGameUnlocks
  <1>1. PlayInv => FinishedGameUnlocks
    <2> SUFFICES ASSUME PlayInv, NEW u \in Users, NEW t \in Tickets, lock[u].t = t, seat[t] = "LEFT"
                 PROVE  \/ \E i \in 1 .. Len(d2m) : d2m[i] = LeftMsg(t)
                        \/ \E i \in 1 .. Len(jobs) : jobs[i] = LeftMsg(t)
      BY DEF FinishedGameUnlocks, LeftMsg
    <2>0. RestInv /\ SafeInv /\ TypeOK BY PlayTypes
    <2>1. \A s \in Reqs : ~ Writing(s, t) /\ outcome[t] # "CANCELLED"
      BY <2>0 DEF SafeInv, FreshInv, CancelWins, Fresh, Dispatched
    <2>2. \A s \in Reqs : ~ (req[s].pc = "DEL" /\ req[s].u = u)
      BY <2>0, <2>1 DEF RestInv, SerialInv
    <2>3. Holding(t) BY <2>0, <2>2 DEF RestInv, HoldInv
    <2>4. LeftPending(t) BY <2>1, <2>3 DEF Holding
    <2>5. PICK i \in 1 .. Len(Pending) : Pending[i] = LeftMsg(t) BY <2>4 DEF LeftPending
    <2>6. jobs \in Seq(DediMsgs) /\ d2m \in Seq(DediMsgs) BY <2>0 DEF TypeOK
    <2>7. \/ i \in 1 .. Len(jobs) /\ Pending[i] = jobs[i]
          \/ i - Len(jobs) \in 1 .. Len(d2m) /\ Pending[i] = d2m[i - Len(jobs)]
      BY <2>6 DEF Pending
    <2> QED BY <2>5, <2>7
  <1> QED BY PlayInit, PlayNext, <1>1, PTL DEF Spec
-----------------------------------------------------------------------------
(* MatchTicket implements MatchLife.                                       *)

\* The cases of Stage exclude each other: one reads them in order.
StageOf(s, o, w, h) ==
    IF s = "LEFT" \/ o = "CANCELLED" THEN "OVER"
    ELSE IF s = "SEATED" THEN "SEATED"
    ELSE IF w = NoUser THEN "NEW"
    ELSE IF h = "INPROGRESS" THEN "COMMITTED" ELSE "OPEN"

LEMMA StageValue ==
  ASSUME PlayInv
  PROVE  \A t \in Tickets : Stage(t) = StageOf(seat[t], outcome[t], owner[t], ticket[t].status)
  <1> SUFFICES ASSUME NEW t \in Tickets
               PROVE  Stage(t) = StageOf(seat[t], outcome[t], owner[t], ticket[t].status)
    OBVIOUS
  <1>1. seat[t] \in {"NONE", "SEATED", "LEFT"} BY DEF PlayInv, CancelInv, TypeOK
  <1>2. outcome[t] = "CANCELLED" => seat[t] = "NONE" /\ ticket[t].status = "NONE"
    BY DEF PlayInv, CancelInv, CancelWins, Dispatched
  <1>3. owner[t] = NoUser => seat[t] = "NONE" /\ ticket[t].status = "NONE" /\ outcome[t] = "NONE"
    BY DEF PlayInv, CancelInv, FreshInv, Fresh, Dispatched
  <1> QED BY <1>1, <1>2, <1>3 DEF Stage, StageOf

LEMMA StageValueNext ==
  ASSUME PlayInv'
  PROVE  \A t \in Tickets : Stage(t)' = StageOf(seat'[t], outcome'[t], owner'[t], ticket'[t].status)
  <1> SUFFICES ASSUME NEW t \in Tickets
               PROVE  Stage(t)' = StageOf(seat'[t], outcome'[t], owner'[t], ticket'[t].status)
    OBVIOUS
  <1>1. seat'[t] \in {"NONE", "SEATED", "LEFT"} BY DEF PlayInv, CancelInv, TypeOK
  <1>2. outcome'[t] = "CANCELLED" => seat'[t] = "NONE" /\ ticket'[t].status = "NONE"
    BY DEF PlayInv, CancelInv, CancelWins, Dispatched
  <1>3. owner'[t] = NoUser => seat'[t] = "NONE" /\ ticket'[t].status = "NONE" /\ outcome'[t] = "NONE"
    BY DEF PlayInv, CancelInv, FreshInv, Fresh, Dispatched
  <1> QED BY <1>1, <1>2, <1>3 DEF Stage, StageOf

\* What MatchLife sees of a step: nothing, or a group that moves.
LEMMA RefineSame ==
  ASSUME UNCHANGED owner, \A u \in Users : lock'[u].t = lock[u].t, \A t \in Tickets : Stage(t)' = Stage(t)
  PROVE  UNCHANGED Promise!vars
  BY DEF Promise!vars

LEMMA RefineStutter ==
  ASSUME PlayInv, PlayInv', UNCHANGED <<owner, seat>>, \A u \in Users : lock'[u].t = lock[u].t,
         \A t \in Tickets : outcome'[t] = "CANCELLED" <=> outcome[t] = "CANCELLED",
         \A t \in Tickets : seat[t] = "NONE" =>
            (ticket'[t].status = "INPROGRESS" <=> ticket[t].status = "INPROGRESS")
  PROVE  UNCHANGED Promise!vars
  <1>1. \A t \in Tickets : seat[t] \in {"NONE", "SEATED", "LEFT"} BY DEF PlayInv, CancelInv, TypeOK
  <1>2. \A t \in Tickets : Stage(t)' = Stage(t) BY <1>1, StageValue, StageValueNext DEF StageOf
  <1> QED BY <1>2, RefineSame

LEMMA RefineMove ==
  ASSUME NEW g \in SUBSET Tickets, g # {}, NEW from, NEW to, \A t \in g : Stage(t) = from,
         \A t \in Tickets : Stage(t)' = IF t \in g THEN to ELSE Stage(t)
  PROVE  Promise!Move(g, from, to)
  BY DEF Promise!Move

\* The account of a settled ticket is freed: it is the only one that held it.
LEMMA RefineFreed ==
  ASSUME PlayInv, NEW x \in Tickets, NEW u \in Users, lock[u].t = x, lock' = [lock EXCEPT ![u] = NoLock]
  PROVE  [v \in Users |-> lock'[v].t] = Promise!Freed(x)
  <1>0. RestInv /\ lock \in [Users -> Locks] /\ NoLock.t = NoTicket BY PlayTypes
  <1>1. \A v \in Users : lock[v].t = x => v = u BY <1>0 DEF RestInv, HoldInv
  <1>2. \A v \in Users : lock'[v] = IF v = u THEN NoLock ELSE lock[v] BY <1>0
  <1>3. \A v \in Users : lock'[v].t = IF lock[v].t = x THEN NoTicket ELSE lock[v].t BY <1>0, <1>1, <1>2
  <1> QED BY <1>3 DEF Promise!Freed

\* DEL of the lock behind a cancel or a departure.
LEMMA RefineFree ==
  ASSUME PlayInv, PlayInv', NEW x \in Tickets, NEW u \in Users, lock[u].t = x,
         lock' = [lock EXCEPT ![u] = NoLock], Stage(x) = "OVER",
         UNCHANGED <<owner, outcome, ticket, seat>>
  PROVE  Promise!Next
  <1>1. \A t \in Tickets : Stage(t)' = Stage(t) BY StageValue, StageValueNext
  <1>2. [v \in Users |-> lock'[v].t] = Promise!Freed(x) BY RefineFreed
  <1>3. Promise!Free(x) BY <1>1, <1>2 DEF Promise!Free
  <1> QED BY <1>3 DEF Promise!Next

\* A granted cancel, before its DEL, and a takeover, which is one script.
LEMMA RefineWithdraw ==
  ASSUME PlayInv, PlayInv', NEW x \in Tickets, NEW u \in Users, ticket[x].status = "WAITING",
         outcome' = [outcome EXCEPT ![x] = "CANCELLED"], ticket' = [ticket EXCEPT ![x] = Absent],
         owner[x] = u, lock' = lock \/ lock' = [lock EXCEPT ![u] = NoLock], UNCHANGED <<owner, seat>>
  PROVE  Promise!Next
  <1>0. TypeOK /\ ticket \in [Tickets -> Hashes] BY PlayTypes
  <1>w. seat[x] = "NONE" /\ owner[x] \in Users /\ lock[owner[x]].t = x /\ outcome[x] # "CANCELLED"
    BY WaitingIdle
  <1>1. Stage(x) = "OPEN" BY <1>w, StageValue, NoUserAssumption DEF StageOf
  <1>2. outcome'[x] = "CANCELLED" /\ \A t \in Tickets : t # x => outcome'[t] = outcome[t] /\ ticket'[t] = ticket[t]
    BY <1>0 DEF TypeOK
  <1>3. Stage(x)' = "OVER" BY <1>2, StageValueNext DEF StageOf
  <1>4. \A t \in Tickets : t # x => Stage(t)' = Stage(t) BY <1>2, StageValue, StageValueNext
  <1>5. Promise!Move({x}, "OPEN", "OVER") BY <1>1, <1>3, <1>4, RefineMove
  <1>6. [v \in Users |-> lock'[v].t] \in {[v \in Users |-> lock[v].t], Promise!Freed(x)}
    BY <1>w, RefineFreed
  <1>7. Promise!Withdraw(x) BY <1>5, <1>6 DEF Promise!Withdraw
  <1> QED BY <1>7 DEF Promise!Next

LEMMA RefineMint ==
  ASSUME PlayInv, PlayInv', NEW x \in Tickets, NEW u \in Users, owner[x] = NoUser, lock[u] = NoLock,
         owner' = [owner EXCEPT ![x] = u], lock' = [lock EXCEPT ![u] = Held(x)],
         UNCHANGED <<outcome, ticket, seat>>
  PROVE  Promise!Next
  <1>0. SafeInv /\ lock \in [Users -> Locks] /\ owner \in [Tickets -> Users \cup {NoUser}] /\ NoLock.t = NoTicket
    BY PlayTypes
  <1>1. seat[x] = "NONE" /\ outcome[x] = "NONE" /\ ticket[x].status = "NONE"
    BY <1>0 DEF SafeInv, FreshInv, Fresh, Dispatched
  <1>2. owner'[x] = u /\ \A t \in Tickets : t # x => owner'[t] = owner[t] BY <1>0
  <1>3. Stage(x) = "NEW" BY <1>1, StageValue DEF StageOf
  <1>4. Stage(x)' = "OPEN" BY <1>1, <1>2, StageValueNext, NoUserAssumption DEF StageOf
  <1>5. \A t \in Tickets : t # x => Stage(t)' = Stage(t) BY <1>2, StageValue, StageValueNext
  <1>h. Held(x).t = x BY DEF Held
  <1>6. \A v \in Users : lock'[v].t = IF v = u THEN x ELSE lock[v].t BY <1>0, <1>h
  <1>7. Promise!Open(u, x)
    <2>1. [v \in Users |-> lock[v].t][u] = NoTicket BY <1>0
    <2>2. [t \in Tickets |-> Stage(t)][x] = "NEW" BY <1>3
    <2>3. [t \in Tickets |-> Stage(t)]' = [[t \in Tickets |-> Stage(t)] EXCEPT ![x] = "OPEN"] BY <1>4, <1>5
    <2>4. [v \in Users |-> lock[v].t]' = [[v \in Users |-> lock[v].t] EXCEPT ![u] = x] BY <1>6
    <2> QED BY <2>1, <2>2, <2>3, <2>4 DEF Promise!Open
  <1> QED BY <1>7 DEF Promise!Next

\* The verification of a group, and the HSET that gives it back.
LEMMA RefineStatus ==
  ASSUME PlayInv, PlayInv', NEW g \in SUBSET Tickets, g # {}, NEW st \in {"WAITING", "INPROGRESS"},
         SetStatus(g, st), \A t \in g : seat[t] = "NONE" /\ owner[t] # NoUser /\ outcome[t] # "CANCELLED",
         \A t \in g : ticket[t].status \in {"WAITING", "INPROGRESS"} \ {st},
         UNCHANGED <<owner, outcome, seat, lock>>
  PROVE  Promise!Next
  <1>0. TypeOK /\ ticket \in [Tickets -> Hashes] BY PlayTypes
  <1>1. \A t \in Tickets : ticket'[t].status = IF t \in g THEN st ELSE ticket[t].status
    BY <1>0, SetStatusType DEF Statuses
  <1>2. \A t \in Tickets : t \notin g => Stage(t)' = Stage(t) BY <1>1, StageValue, StageValueNext
  <1>3. CASE st = "INPROGRESS"
    <2>1. \A t \in g : Stage(t) = "OPEN" BY <1>3, StageValue DEF StageOf
    <2>2. \A t \in g : Stage(t)' = "COMMITTED" BY <1>1, <1>3, StageValueNext DEF StageOf
    <2>3. Promise!Move(g, "OPEN", "COMMITTED") BY <2>1, <2>2, <1>2, RefineMove
    <2>4. Promise!Commit(g) BY <2>3 DEF Promise!Commit
    <2> QED BY <2>4 DEF Promise!Next
  <1>4. CASE st = "WAITING"
    <2>1. \A t \in g : Stage(t) = "COMMITTED" BY <1>4, StageValue DEF StageOf
    <2>2. \A t \in g : Stage(t)' = "OPEN" BY <1>1, <1>4, StageValueNext DEF StageOf
    <2>3. Promise!Move(g, "COMMITTED", "OPEN") BY <2>1, <2>2, <1>2, RefineMove
    <2>4. Promise!GiveBack(g) BY <2>3 DEF Promise!GiveBack
    <2> QED BY <2>4 DEF Promise!Next
  <1> QED BY <1>3, <1>4

LEMMA RefineSeat ==
  ASSUME PlayInv, PlayInv', MakeRoom
  PROVE  Promise!Next \/ UNCHANGED Promise!vars
  <1>0. RestInv /\ SafeInv /\ TypeOK BY PlayTypes
  <1>1. m2d \in Seq(SUBSET Tickets) /\ m2d # <<>> BY <1>0 DEF MakeRoom, TypeOK
  <1>2. PICK g \in SUBSET Tickets : g = Head(m2d) /\ g = m2d[1] BY <1>1
  <1>3. UNCHANGED <<owner, outcome, lock, ticket>> BY DEF MakeRoom, redisVars, nodeVars
  <1>4. \A t \in Tickets : seat'[t] = IF t \in g THEN "SEATED" ELSE seat[t] BY <1>2 DEF MakeRoom
  <1>5. \A t \in g : seat[t] = "NONE" /\ ticket[t].status = "INPROGRESS"
    BY <1>0, <1>1, <1>2 DEF RestInv, GroupInv
  <1>6. \A t \in g : owner[t] # NoUser /\ outcome[t] # "CANCELLED"
    BY <1>0, <1>5, NoUserAssumption DEF RestInv, HashInv, SafeInv, CancelWins
  <1>7. \A t \in g : Stage(t) = "COMMITTED" BY <1>5, <1>6, StageValue DEF StageOf
  <1>8. \A t \in g : Stage(t)' = "SEATED" BY <1>3, <1>4, <1>6, StageValueNext DEF StageOf
  <1>9. \A t \in Tickets : t \notin g => Stage(t)' = Stage(t) BY <1>3, <1>4, StageValue, StageValueNext
  <1>10. CASE g = {} BY <1>3, <1>9, <1>10, RefineSame
  <1>11. CASE g # {}
    <2>1. Promise!Move(g, "COMMITTED", "SEATED") BY <1>7, <1>8, <1>9, <1>11, RefineMove
    <2>2. Promise!Seat(g) BY <2>1, <1>3 DEF Promise!Seat
    <2> QED BY <2>2 DEF Promise!Next
  <1> QED BY <1>10, <1>11

LEMMA RefineLeave ==
  ASSUME PlayInv, PlayInv', NEW x \in Tickets, Leave(x)
  PROVE  Promise!Next
  <1>0. TypeOK /\ SafeInv BY PlayTypes
  <1>1. UNCHANGED <<owner, outcome, lock, ticket>> BY DEF Leave, redisVars, nodeVars
  <1>2. seat[x] = "SEATED" /\ seat'[x] = "LEFT" /\ \A t \in Tickets : t # x => seat'[t] = seat[t]
    BY <1>0 DEF Leave, TypeOK
  <1>3. outcome[x] # "CANCELLED" BY <1>0, <1>2 DEF SafeInv, CancelWins, Dispatched
  <1>4. Stage(x) = "SEATED" BY <1>2, <1>3, StageValue DEF StageOf
  <1>5. Stage(x)' = "OVER" BY <1>2, StageValueNext DEF StageOf
  <1>6. \A t \in Tickets : t # x => Stage(t)' = Stage(t) BY <1>1, <1>2, StageValue, StageValueNext
  <1>7. Promise!Move({x}, "SEATED", "OVER") BY <1>4, <1>5, <1>6, RefineMove
  <1>8. Promise!Leave(x) BY <1>7, <1>1 DEF Promise!Leave
  <1> QED BY <1>8 DEF Promise!Next

LEMMA RefineClient ==
  ASSUME CalmClients, PlayInv, PlayInv', ClientStep
  PROVE  Promise!Next \/ UNCHANGED Promise!vars
  <1>0. TypeOK /\ ticket \in [Tickets -> Hashes] BY PlayTypes
  <1>1. CASE \E r \in Reqs, u \in Users : StartBegin(r, u)
    <2>1. UNCHANGED <<lock, ticket, owner, outcome, seat>> BY <1>1 DEF StartBegin, redisVars, dediVars
    <2> QED BY <2>1, RefineStutter
  <1>2. CASE \E t \in Tickets : Connect(t)
    <2>1. UNCHANGED <<lock, ticket, owner, outcome, seat>> BY <1>2 DEF Connect, redisVars, nodeVars, dediVars
    <2> QED BY <2>1, RefineStutter
  <1>3. ASSUME NEW r \in Reqs, NEW u \in Users, LoginTakeover(r, u) PROVE Promise!Next
    <2>1. \A s \in Reqs : Active(s) => req[s].u # u BY <1>3 DEF LoginTakeover, CanBegin, CalmClients
    <2>2. lock[u].kind = "TICKET" /\ lock' = [lock EXCEPT ![u] = NoLock] BY <1>3 DEF LoginTakeover, DelLock
    <2>3. PICK y \in Tickets : y = lock[u].t BY <2>2, PlayTypes
    <2>4. ticket[y].status # "NONE" /\ owner[y] = u BY <2>1, <2>2, <2>3, LockShowsTicket
    <2>5. /\ ticket[y].status = "WAITING" /\ ticket' = [ticket EXCEPT ![y] = Absent]
          /\ outcome' = [outcome EXCEPT ![y] = "CANCELLED"] /\ UNCHANGED <<owner, seat>>
      BY <1>3, <2>3, <2>4 DEF LoginTakeover, Remove, dediVars
    <2> QED BY <2>2, <2>4, <2>5, RefineWithdraw
  <1>4. ASSUME NEW r \in Reqs, NEW u \in Users, NEW x \in Tickets, CancelEval(r, u, x)
        PROVE  Promise!Next \/ UNCHANGED Promise!vars
    <2>1. owner[x] = u /\ UNCHANGED <<lock, owner, seat>> BY <1>4 DEF CancelEval, Told, dediVars
    <2>2. CASE CancelResult(u, x) = 1
      <3>1. ticket[x].status = "WAITING" BY <2>2 DEF CancelResult
      <3>2. ticket' = [ticket EXCEPT ![x] = Absent] /\ outcome' = [outcome EXCEPT ![x] = "CANCELLED"]
        BY <1>4, <2>2 DEF CancelEval, Remove
      <3> QED BY <2>1, <3>1, <3>2, RefineWithdraw
    <2>3. CASE CancelResult(u, x) = 2
      <3>1. ticket' = ticket /\ outcome' = [outcome EXCEPT ![x] = IF @ = "STARTED" THEN "EXPIRED" ELSE @]
        BY <1>4, <2>3 DEF CancelEval
      <3>2. \A t \in Tickets : outcome'[t] = "CANCELLED" <=> outcome[t] = "CANCELLED" BY <3>1, <1>0 DEF TypeOK
      <3> QED BY <2>1, <3>1, <3>2, RefineStutter
    <2> QED BY <1>4, <2>2, <2>3 DEF CancelEval
  <1> QED BY <1>1, <1>2, <1>3, <1>4 DEF ClientStep

LEMMA RefineNode ==
  ASSUME CalmClients, PlayInv, PlayInv', NEW r \in Reqs, NodeStep(r)
  PROVE  Promise!Next \/ UNCHANGED Promise!vars
  <1>0. TypeOK /\ RestInv /\ ReqOK /\ SafeInv /\ lock \in [Users -> Locks] /\ ticket \in [Tickets -> Hashes]
    BY PlayTypes
  <1>n. ~ RedisFault /\ ~ MySqlFault BY DEF CalmClients
  <1>1. CASE StartLock(r)
    <2>1. req[r].pc = "LOCK" /\ UNCHANGED <<ticket, outcome, seat>> BY <1>1 DEF StartLock, dediVars
    <2>2. req[r].u \in Users BY <2>1, <1>0 DEF ReqOK
    <2>3. CASE UNCHANGED <<lock, owner>> BY <2>1, <2>3, RefineStutter
    <2>4. ASSUME lock[req[r].u] = NoLock, NEW t \in Unminted,
                 owner' = [owner EXCEPT ![t] = req[r].u], lock' = [lock EXCEPT ![req[r].u] = Held(t)]
          PROVE  Promise!Next
      <3>1. t \in Tickets /\ owner[t] = NoUser BY DEF Unminted, Minted
      <3> QED BY <2>1, <2>2, <2>4, <3>1, RefineMint
    <2> QED BY <1>1, <2>3, <2>4 DEF StartLock
  <1>2. CASE StartTicket(r)
    <2>1. req[r].pc = "TICKET" /\ UNCHANGED <<lock, owner, outcome, seat>> BY <1>2 DEF StartTicket, dediVars
    <2>2. PICK x \in Tickets : x = req[r].t BY <2>1, <1>0 DEF ReqOK
    <2>3. PICK u \in Users : u = req[r].u BY <2>1, <1>0 DEF ReqOK
    <2>4. ticket[x].status = "NONE" BY <2>1, <2>2, <1>0 DEF SafeInv, FreshInv, Fresh, Writing
    <2>5. ticket' = [ticket EXCEPT ![x] = Hash("WAITING", u)] BY <1>2, <1>n, <2>2, <2>3 DEF StartTicket
    <2>6. Hash("WAITING", u).status = "WAITING" BY HashType DEF Statuses
    <2>7. \A t \in Tickets : ticket'[t].status = "INPROGRESS" <=> ticket[t].status = "INPROGRESS"
      BY <2>4, <2>5, <2>6, <1>0
    <2> QED BY <2>1, <2>7, RefineStutter
  <1>3. CASE StartUndo(r) \/ StartFail(r)
    BY <1>3, <1>0 DEF StartUndo, StartFail, RestInv, SerialInv
  <1>4. CASE StartSend(r)
    <2>1. UNCHANGED <<lock, ticket, owner, seat>> BY <1>4 DEF StartSend, redisVars, dediVars
    <2>2. outcome' = [outcome EXCEPT ![req[r].t] = IF @ = "NONE" THEN "STARTED" ELSE @] BY <1>4 DEF StartSend
    <2>3. \A t \in Tickets : outcome'[t] = "CANCELLED" <=> outcome[t] = "CANCELLED" BY <2>2, <1>0 DEF TypeOK
    <2> QED BY <2>1, <2>3, RefineStutter
  <1>5. CASE CancelDel(r)
    <2>1. UNCHANGED <<ticket, owner, outcome, seat>> BY <1>5 DEF CancelDel, dediVars
    <2>2. lock' = [lock EXCEPT ![req[r].u] = NoLock] BY <1>5, <1>n DEF CancelDel, DelLock
    <2>3. req[r].u \in Users BY <1>5, <1>0 DEF CancelDel, ReqOK
    <2>4. CASE req[r].pc = "DEL"
      <3>1. PICK x \in Tickets : x = req[r].t BY <2>4, <1>0 DEF ReqOK
      <3>2. lock[req[r].u].t = x /\ outcome[x] = "CANCELLED" BY <2>4, <3>1, <1>0 DEF RestInv, SerialInv
      <3>3. Stage(x) = "OVER" BY <3>2, StageValue DEF StageOf
      <3> QED BY <2>1, <2>2, <2>3, <3>2, <3>3, RefineFree
    <2>5. CASE req[r].pc = "EXPIREDDEL"
      <3>1. lock[req[r].u] = NoLock BY <2>5, <1>0 DEF RestInv, SerialInv
      <3>2. lock' = lock BY <3>1, <2>2, <2>3, <1>0
      <3> QED BY <2>1, <3>2, RefineStutter
    <2> QED BY <1>5, <2>4, <2>5 DEF CancelDel
  <1>6. CASE LoginSend(r)
    <2>1. UNCHANGED <<lock, ticket, owner, outcome, seat>> BY <1>6 DEF LoginSend, redisVars, dediVars
    <2> QED BY <2>1, RefineStutter
  <1> QED BY <1>1, <1>2, <1>3, <1>4, <1>5, <1>6 DEF NodeStep, StartStep

LEMMA RefineMain ==
  ASSUME PlayInv, PlayInv', HttpStep \/ PassStep \/ (\E g \in SUBSET queue : MMPick(g)) \/ HandleDedi
  PROVE  Promise!Next \/ UNCHANGED Promise!vars
  <1>0. TypeOK /\ RestInv /\ SafeInv /\ ticket \in [Tickets -> Hashes] /\ cur \in SUBSET Tickets
    BY PlayTypes DEF TypeOK
  <1>1. UNCHANGED <<lock, owner, outcome, seat>>
    BY DEF HttpStep, HandleMatchMake, HandleCancel, HandleBind, PassStep, MMVerify, MMDistribute, MMGiveBack,
           MMRecheck, MMPick, HandleDedi, redisVars, nodeVars, dediVars
  <1>2. CASE UNCHANGED ticket BY <1>1, <1>2, RefineStutter
  <1>3. CASE HandleBind
    <2>1. Head(h2m) \in HttpMsgs BY <1>3, <1>0, HeadTail DEF HandleBind, Received, TypeOK
    <2>2. PICK x \in Tickets : x = Head(h2m).t BY <2>1 DEF HttpMsgs
    <2>3. CASE token[x]
      <3>1. ticket' = [ticket EXCEPT ![x] = Absent] BY <1>3, <2>2, <2>3 DEF HandleBind, Remove
      <3>2. seat[x] # "NONE" BY <2>3, <1>0 DEF RestInv, HashInv
      <3>3. \A t \in Tickets : seat[t] = "NONE" => ticket'[t] = ticket[t] BY <3>1, <3>2, <1>0
      <3> QED BY <3>3, <1>1, RefineStutter
    <2>4. CASE ~ token[x] BY <1>2, <1>3, <2>2, <2>4 DEF HandleBind
    <2> QED BY <2>3, <2>4
  <1>4. CASE MMVerify
    <2>1. CASE (\A t \in cur : ticket[t].status = "WAITING") /\ SetStatus(cur, "INPROGRESS")
      <3>1. \A t \in cur : seat[t] = "NONE" /\ owner[t] # NoUser /\ outcome[t] # "CANCELLED"
        BY <2>1, <1>0, WaitingIdle, NoUserAssumption
      <3>2. CASE cur # {} BY <2>1, <3>1, <3>2, <1>0, <1>1, RefineStatus
      <3>3. CASE cur = {}
        <4>1. ticket' = ticket BY <2>1, <3>3, <1>0 DEF SetStatus
        <4> QED BY <4>1, <1>2
      <3> QED BY <3>2, <3>3
    <2> QED BY <1>2, <1>4, <2>1 DEF MMVerify
  <1>5. CASE MMGiveBack
    <2>1. SetStatus(cur, "WAITING") /\ \A t \in cur : Committing(t) BY <1>5 DEF MMGiveBack, Committing
    <2>2. \A t \in cur : ticket[t].status = "INPROGRESS" /\ seat[t] = "NONE" /\ outcome[t] # "CANCELLED"
      BY <2>1, <1>0 DEF RestInv, HashInv, SafeInv, CommitInv, CancelWins, Dispatched
    <2>3. \A t \in cur : owner[t] # NoUser BY <2>2, <1>0, NoUserAssumption DEF RestInv, HashInv
    <2>4. CASE cur # {} BY <2>1, <2>2, <2>3, <2>4, <1>0, <1>1, RefineStatus
    <2>5. CASE cur = {}
      <3>1. ticket' = ticket BY <2>1, <2>5, <1>0 DEF SetStatus
      <3> QED BY <3>1, <1>2
    <2> QED BY <2>4, <2>5
  <1>6. CASE HandleMatchMake \/ HandleCancel \/ MMDistribute \/ (\E t \in Tickets : MMRecheck(t))
             \/ (\E g \in SUBSET queue : MMPick(g)) \/ HandleDedi
    BY <1>2, <1>6 DEF HandleMatchMake, HandleCancel, MMDistribute, MMRecheck, MMPick, HandleDedi, redisVars
  <1> QED BY <1>3, <1>4, <1>5, <1>6 DEF HttpStep, PassStep

LEMMA RefineJob ==
  ASSUME PlayInv, PlayInv', ExecuteJob
  PROVE  Promise!Next \/ UNCHANGED Promise!vars
  <1>0. RestInv /\ TypeOK BY PlayTypes
  <1>1. jobs # <<>> /\ jobs' = Tail(jobs) /\ UNCHANGED <<req, owner, outcome, seat, m2d, d2m, phase, cur>>
    BY DEF ExecuteJob, nodeVars, dediVars
  <1>2. CASE Head(jobs).type = "TOKEN" /\ ExecuteToken(Head(jobs).ts)
    <2>1. \A u \in Users : lock'[u].t = lock[u].t BY <1>1, <1>2, PlayToken
    <2>2. PICK m : m = Head(jobs) OBVIOUS
    <2>3. m.ts \subseteq Tickets /\ \A t \in m.ts : TokenPending(t) BY <1>1, <1>2, <2>2, PlayTake
    <2>4. \A t \in m.ts : seat[t] # "NONE" BY <2>3, PendingSeated
    <2>5. \A t \in Tickets : t \notin m.ts => ticket'[t] = ticket[t] BY <1>2, <2>2 DEF ExecuteToken, SetStatus
    <2>6. \A t \in Tickets : seat[t] = "NONE" => ticket'[t] = ticket[t] BY <2>4, <2>5
    <2> QED BY <1>1, <2>1, <2>6, RefineStutter
  <1>3. CASE Head(jobs).type = "LEFT" /\ ExecuteLeft(Head(jobs).ts)
    <2>1. PICK x \in Tickets : /\ seat[x] = "LEFT" /\ owner[x] \in Users /\ lock[owner[x]].t = x
                               /\ lock' = [lock EXCEPT ![owner[x]] = NoLock]
      BY <1>1, <1>3, PlayLeft
    <2>2. Stage(x) = "OVER" BY <2>1, StageValue DEF StageOf
    <2>3. UNCHANGED ticket BY <1>3 DEF ExecuteLeft
    <2> QED BY <1>1, <2>1, <2>2, <2>3, RefineFree
  <1> QED BY <1>2, <1>3 DEF ExecuteJob

LEMMA RefineInit == Init => Promise!Init
  <1> SUFFICES ASSUME Init PROVE Promise!Init OBVIOUS
  <1>1. \A t \in Tickets : Stage(t) = StageOf(seat[t], outcome[t], owner[t], ticket[t].status)
    BY PlayInit, StageValue
  <1>2. \A t \in Tickets : Stage(t) = "NEW" BY <1>1 DEF Init, StageOf
  <1>3. \A u \in Users : lock[u].t = NoTicket BY DEF Init, NoLock
  <1>4. owner = [t \in Tickets |-> NoUser] BY DEF Init
  <1> QED BY <1>2, <1>3, <1>4 DEF Promise!Init

LEMMA RefineNext ==
  ASSUME CalmClients
  PROVE  PlayInv /\ PlayInv' /\ [Next]_vars => [Promise!Next]_(Promise!vars)
  <1> SUFFICES ASSUME PlayInv, PlayInv', [Next]_vars PROVE Promise!Next \/ UNCHANGED Promise!vars OBVIOUS
  <1>1. CASE UNCHANGED vars
    <2>1. UNCHANGED <<lock, ticket, owner, outcome, seat>> BY <1>1 DEF vars, redisVars, nodeVars, dediVars
    <2> QED BY <2>1, RefineStutter
  <1>2. CASE Expiry BY <1>2 DEF Expiry, ExpireTicket, ExpireToken, ExpireLock, CalmClients
  <1> QED BY <1>1, <1>2, RefineClient, RefineNode, RefineMain, RefineSeat, RefineLeave, RefineJob DEF Next

(***************************************************************************)
(* MatchTicket with calm clients implements MatchLife, for any number of   *)
(* accounts, requests and tickets: behind the routes, scripts, sockets and *)
(* the proxy, an account opens one ticket at a time, a group is committed  *)
(* and seated whole, and the account is free only when its ticket is over. *)
(***************************************************************************)
THEOREM ImplementsMatchLife ==
  ASSUME CalmClients
  PROVE  Spec => PromisesMatchLife
  <1> QED BY PlayInit, PlayNext, RefineInit, RefineNext, PTL DEF Spec, PromisesMatchLife, Promise!Spec
=============================================================================
