---------------------------- MODULE MatchTicket ----------------------------
(***************************************************************************)
(* The life of a match ticket, from POST /match/start to the game seat and *)
(* back to the lobby.  Three processes touch it: the Node HTTP server      *)
(* (routes/match.js, routes/auth.js), the C++ Main process (PacketHandler, *)
(* MatchMaker, DediManager, DBProxyService) and a Dedicate process.  They  *)
(* share Redis: the ticket hash, the per-user lock "active_match:<uid>"    *)
(* and the entry token; they talk over IPC sockets, FIFO each.             *)
(*                                                                         *)
(* A Node handler is split at its awaits: between two steps of one request *)
(* every other request and the Main process may run.  A Redis command, a   *)
(* Lua script and a pipeline are one step.  Main is single threaded: it    *)
(* takes no message while a matchmaking pass is under way.                 *)
(*                                                                         *)
(* Not here: which tickets FindMatchGroup groups (a group is any set of    *)
(* queued tickets), the capacity of a Dedicate process (DediPool), and the *)
(* inventory rows the handlers write in MySQL.                             *)
(***************************************************************************)
EXTENDS Integers, FiniteSets, Sequences

CONSTANTS
    Users,          \* accounts (db_id)
    Reqs,           \* HTTP requests that can be in flight at once
    MaxTickets,     \* bound: ticket ids ever minted
    MaxGroup,       \* players in a match group, 4 in the code
    MaxBind,        \* bound: messages in h2m when /connect adds one
    NoUser,         \* absent uid
    SerialClients,  \* TRUE: one request of an account in flight at a time
    TicketTTL,      \* TRUE: ticket, token and lock keys may expire
    MySqlFault,     \* TRUE: the transaction of /start may throw
    RedisFault,     \* TRUE: a Redis command of a Node handler may throw
    SpawnFault      \* TRUE: DistributePlayerGroup may return false

ASSUME NatAssumption == MaxTickets \in Nat /\ MaxGroup \in Nat /\ MaxBind \in Nat
ASSUME NoUserAssumption == NoUser \notin Users
ASSUME FlagAssumption ==
    {SerialClients, TicketTTL, MySqlFault, RedisFault, SpawnFault} \subseteq BOOLEAN

VARIABLES
    lock,     \* active_match:<uid>
    ticket,   \* ticket_<id>: the fields the protocol looks at
    token,    \* token_<id>: does the entry token of this ticket exist
    owner,    \* account a ticket id was minted for
    outcome,  \* the last answer a client got about a ticket
    req,      \* continuation of each Node request
    h2m,      \* IPC HTTP -> Main
    httpRecv, \* is a Recv armed on Main's HTTP socket
    queue,    \* tickets in the MatchMaker, unmatched
    phase,    \* what the MatchMaker is doing
    cur,      \* the group being committed, or still to be rechecked
    mainUp,   \* Main has not died of an uncaught exception
    m2d,      \* IPC Main -> Dedicate: MakeRoomForThisGroup
    seat,     \* the PlayerSession made for a ticket
    d2m,      \* IPC Dedicate -> Main
    jobs      \* DBProxyService::_requestQueue

redisVars == <<lock, ticket, token>>
nodeVars  == <<owner, outcome, req>>
mainVars  == <<queue, phase, cur, mainUp, jobs>>
dediVars  == <<m2d, seat, d2m>>
vars == <<redisVars, nodeVars, h2m, httpRecv, mainVars, dediVars>>
-----------------------------------------------------------------------------
Tickets  == 1 .. MaxTickets
NoTicket == 0

NoLock    == [kind |-> "NONE", t |-> NoTicket]
Held(t)   == [kind |-> "TICKET", t |-> t]
InGame(t) == [kind |-> "INGAME", t |-> t]
Locks     == {NoLock} \cup {Held(t) : t \in Tickets} \cup {InGame(t) : t \in Tickets}

\* A Redis hash: a ghost is a hash with a status but no uid, which HSET
\* leaves behind when the ticket expired before it.
Hash(status, uid) == [status |-> status, uid |-> uid]
Absent   == Hash("NONE", NoUser)
Statuses == {"NONE", "WAITING", "INPROGRESS", "SUCCESS"}
Hashes   == [status : Statuses, uid : Users \cup {NoUser}]

\* Where a request of u about t goes on.
At(pc, u, t) == [pc |-> pc, u |-> u, t |-> t]
Idle     == At("IDLE", NoUser, NoTicket)
PCs      == {"IDLE", "LOCK", "TICKET", "SEND", "UNDO", "FAIL", "DEL", "EXPIREDDEL", "LOGINSEND"}
Requests == [pc : PCs, u : Users \cup {NoUser}, t : Tickets \cup {NoTicket}]

HttpMsgs == [type : {"MATCH", "CANCEL", "BIND"}, t : Tickets]
DediMsgs == [type : {"TOKEN", "LEFT"}, ts : SUBSET Tickets]

\* The initial state follows ResetKeyspace: Main starts on an empty Redis.
Init ==
    /\ lock = [u \in Users |-> NoLock]
    /\ ticket = [t \in Tickets |-> Absent]
    /\ token = [t \in Tickets |-> FALSE]
    /\ owner = [t \in Tickets |-> NoUser]
    /\ outcome = [t \in Tickets |-> "NONE"]
    /\ req = [r \in Reqs |-> Idle]
    /\ h2m = <<>>
    /\ httpRecv = TRUE
    /\ queue = {} /\ phase = "IDLE" /\ cur = {} /\ mainUp = TRUE
    /\ m2d = <<>> /\ d2m = <<>> /\ jobs = <<>>
    /\ seat = [t \in Tickets |-> "NONE"]
-----------------------------------------------------------------------------
(* Node: POST /match/start.                                                *)

Active(r) == req[r].pc # "IDLE"

CanBegin(r, u) ==
    /\ ~ Active(r)
    /\ SerialClients => \A s \in Reqs : Active(s) => req[s].u # u

Minted   == {t \in Tickets : owner[t] # NoUser}
Unminted == Tickets \ Minted

Goto(r, pc) == req' = [req EXCEPT ![r] = At(pc, req[r].u, req[r].t)]
Done(r)     == req' = [req EXCEPT ![r] = Idle]

\* Validation and the MySQL transaction.  A rejected request changes nothing
\* here; an exception of the transaction goes to the outer catch.
StartBegin(r, u) ==
    /\ CanBegin(r, u)
    /\ Cardinality({s \in Reqs : req[s].pc = "LOCK"}) < Cardinality(Unminted)
    /\ \E pc \in {"LOCK"} \cup (IF MySqlFault THEN {"FAIL"} ELSE {}) :
            req' = [req EXCEPT ![r] = At(pc, u, NoTicket)]
    /\ UNCHANGED <<redisVars, owner, outcome, h2m, httpRecv, mainVars, dediVars>>

\* Mutant: SET without NX.
StartLockNoNX(r) ==
    /\ req[r].pc = "LOCK"
    /\ \E t \in Unminted :
          /\ \A s \in Unminted : t <= s
          /\ owner' = [owner EXCEPT ![t] = req[r].u]
          /\ lock' = [lock EXCEPT ![req[r].u] = Held(t)]
          /\ req' = [req EXCEPT ![r] = At("TICKET", req[r].u, t)]
    /\ UNCHANGED <<ticket, token, outcome, h2m, httpRecv, mainVars, dediVars>>

\* Mutant: the lock is set before the ticket id is made.
StartLockNoId(r) ==
    /\ req[r].pc = "LOCK"
    /\ lock[req[r].u] = NoLock
    /\ lock' = [lock EXCEPT ![req[r].u] = Held(req[r].t)]
    /\ Done(r)
    /\ UNCHANGED <<ticket, token, owner, outcome, h2m, httpRecv, mainVars, dediVars>>

\* SET active_match:<uid> <ticketId> NX.
StartLock(r) ==
    /\ req[r].pc = "LOCK"
    /\ \/ /\ lock[req[r].u] = NoLock
          /\ \E t \in Unminted :
                /\ \A s \in Unminted : t <= s
                /\ owner' = [owner EXCEPT ![t] = req[r].u]
                /\ lock' = [lock EXCEPT ![req[r].u] = Held(t)]
                /\ req' = [req EXCEPT ![r] = At("TICKET", req[r].u, t)]
       \/ /\ lock[req[r].u] # NoLock
          /\ Done(r)
          /\ UNCHANGED <<lock, owner>>
       \/ /\ RedisFault
          /\ Goto(r, "FAIL")
          /\ UNCHANGED <<lock, owner>>
    /\ UNCHANGED <<ticket, token, outcome, h2m, httpRecv, mainVars, dediVars>>

\* HSET of the ticket and its EXPIRE; either may throw.
StartTicket(r) ==
    /\ req[r].pc = "TICKET"
    /\ LET t == req[r].t
           written == [ticket EXCEPT ![t] = Hash("WAITING", req[r].u)]
       IN \/ ticket' = written /\ Goto(r, "SEND")
          \/ RedisFault /\ ticket' \in {ticket, written} /\ Goto(r, "UNDO")
    /\ UNCHANGED <<lock, token, owner, outcome, h2m, httpRecv, mainVars, dediVars>>

DelLock(u) == lock' = [lock EXCEPT ![u] = NoLock]

\* The inner catch gives the lock back, then rethrows to the outer one; the
\* DEL itself may fail.
StartUndo(r) ==
    /\ req[r].pc = "UNDO"
    /\ \/ DelLock(req[r].u)
       \/ RedisFault /\ UNCHANGED lock
    /\ Goto(r, "FAIL")
    /\ UNCHANGED <<ticket, token, owner, outcome, h2m, httpRecv, mainVars, dediVars>>

\* The outer catch deletes the lock of the account, whoever set it.
StartFail(r) ==
    /\ req[r].pc = "FAIL"
    /\ \/ DelLock(req[r].u)
       \/ RedisFault /\ UNCHANGED lock
    /\ Done(r)
    /\ UNCHANGED <<ticket, token, owner, outcome, h2m, httpRecv, mainVars, dediVars>>

SendToMain(type, t) == h2m' = Append(h2m, [type |-> type, t |-> t])

\* sendHttpMatchMake and the 200 answer that carries the ticket id.
StartSend(r) ==
    /\ req[r].pc = "SEND"
    /\ SendToMain("MATCH", req[r].t)
    /\ outcome' = [outcome EXCEPT ![req[r].t] = IF @ = "NONE" THEN "STARTED" ELSE @]
    /\ Done(r)
    /\ UNCHANGED <<redisVars, owner, httpRecv, mainVars, dediVars>>
-----------------------------------------------------------------------------
(* Node: POST /match/cancel, POST /api/login, POST /match/connect.         *)

Told(u)    == {t \in Tickets : owner[t] = u /\ outcome[t] # "NONE"}
Remove(t)  == ticket' = [ticket EXCEPT ![t] = Absent]

\* Mutant: the script forgets to look at the status.
CancelResultNoStatus(u, t) ==
    CASE ticket[t].uid = NoUser /\ lock[u].kind = "INGAME" -> 3
      [] ticket[t].uid = NoUser /\ lock[u].kind # "INGAME" -> 2
      [] ticket[t].uid # NoUser                             -> 1

\* Lua result of matchCancel.  Clients name tickets of their own.
CancelResult(u, t) ==
    CASE ticket[t].uid = NoUser /\ lock[u].kind = "INGAME"         -> 3
      [] ticket[t].uid = NoUser /\ lock[u].kind # "INGAME"         -> 2
      [] ticket[t].uid # NoUser /\ ticket[t].status = "WAITING"    -> 1
      [] ticket[t].uid # NoUser /\ ticket[t].status # "WAITING"    -> 0

\* A client cancels the ticket it was told last; a delayed or repeated
\* request may name an older one.
CancelEval(r, u, t) ==
    /\ CanBegin(r, u)
    /\ t \in Told(u)
    /\ SerialClients => \A s \in Told(u) : s <= t
    /\ \/ /\ CancelResult(u, t) = 1
          /\ Remove(t)
          /\ outcome' = [outcome EXCEPT ![t] = "CANCELLED"]
          /\ req' = [req EXCEPT ![r] = At("DEL", u, t)]
       \/ /\ CancelResult(u, t) = 2
          /\ outcome' = [outcome EXCEPT ![t] = IF @ = "STARTED" THEN "EXPIRED" ELSE @]
          /\ req' = [req EXCEPT ![r] = At("EXPIREDDEL", u, t)]
          /\ UNCHANGED ticket
    /\ UNCHANGED <<lock, token, owner, h2m, httpRecv, mainVars, dediVars>>

\* After the await: DEL of the lock, and the cancel IPC after result 1 only.
\* A DEL that throws ends the request with neither.
CancelDel(r) ==
    /\ req[r].pc \in {"DEL", "EXPIREDDEL"}
    /\ \/ /\ DelLock(req[r].u)
          /\ \/ req[r].pc = "DEL" /\ SendToMain("CANCEL", req[r].t)
             \/ req[r].pc = "EXPIREDDEL" /\ UNCHANGED h2m
       \/ RedisFault /\ UNCHANGED <<lock, h2m>>
    /\ Done(r)
    /\ UNCHANGED <<ticket, token, owner, outcome, httpRecv, mainVars, dediVars>>

\* The loginTakeover script, on its granting paths.
LoginTakeover(r, u) ==
    /\ CanBegin(r, u)
    /\ lock[u].kind = "TICKET"
    /\ DelLock(u)
    /\ LET t == lock[u].t
       IN \/ /\ ticket[t].status = "WAITING"
             /\ Remove(t)
             /\ outcome' = [outcome EXCEPT ![t] = "CANCELLED"]
             /\ req' = [req EXCEPT ![r] = At("LOGINSEND", u, t)]
          \/ /\ ticket[t].status = "NONE"
             /\ UNCHANGED <<ticket, outcome, req>>
    /\ UNCHANGED <<token, owner, h2m, httpRecv, mainVars, dediVars>>

\* The script and the inventory SELECT are awaited together: if the SELECT
\* throws, the takeover stands and the cancel IPC is never sent.
LoginSend(r) ==
    /\ req[r].pc = "LOGINSEND"
    /\ SendToMain("CANCEL", req[r].t) \/ (MySqlFault /\ UNCHANGED h2m)
    /\ Done(r)
    /\ UNCHANGED <<redisVars, owner, outcome, httpRecv, mainVars, dediVars>>

\* HGETALL of the token finds it: the bind IPC goes out.
Connect(t) ==
    /\ token[t]
    /\ Len(h2m) < MaxBind
    /\ SendToMain("BIND", t)
    /\ UNCHANGED <<redisVars, nodeVars, httpRecv, mainVars, dediVars>>
-----------------------------------------------------------------------------
(* Main: the HTTP side of the IPC.                                         *)

MainTurn == mainUp /\ phase = "IDLE"

Received(type) ==
    /\ MainTurn /\ httpRecv
    /\ h2m # <<>> /\ Head(h2m).type = type
    /\ h2m' = Tail(h2m)

\* Handle_H2M_MatchMake.  An empty hash makes the handler return false, and
\* HttpIPCSession::OnReadComplete then returns without arming the next Recv.
HandleMatchMake ==
    /\ Received("MATCH")
    /\ LET t == Head(h2m).t
       IN \/ /\ ticket[t].status = "NONE"
             /\ httpRecv' = FALSE
             /\ UNCHANGED <<queue, mainUp>>
          \/ /\ ticket[t].status # "NONE"
             /\ mainUp' = (ticket[t].uid # NoUser)
             /\ queue' = IF ticket[t].uid # NoUser THEN queue \cup {t} ELSE queue
             /\ UNCHANGED httpRecv
    /\ UNCHANGED <<redisVars, nodeVars, phase, cur, jobs, dediVars>>

\* Handle_H2M_MatchMakeCancel only logs.
HandleCancel ==
    /\ Received("CANCEL")
    /\ UNCHANGED <<redisVars, nodeVars, httpRecv, mainVars, dediVars>>

\* DediManager::BindClientIpToSession: the token and its ticket are used up.
HandleBind ==
    /\ Received("BIND")
    /\ LET t == Head(h2m).t
       IN /\ token' = [token EXCEPT ![t] = FALSE]
          /\ IF token[t] THEN Remove(t) ELSE UNCHANGED ticket
    /\ UNCHANGED <<lock, nodeVars, httpRecv, mainVars, dediVars>>
-----------------------------------------------------------------------------
(* Main: a matchmaking pass, one group at a time.                          *)

\* FindMatchGroup marks a group.  ExecuteAll has run since the last message.
MMPick(g) ==
    /\ MainTurn
    /\ jobs = <<>>
    /\ g # {} /\ g \subseteq queue /\ Cardinality(g) <= MaxGroup
    /\ queue' = queue \ g
    /\ cur' = g
    /\ phase' = "VERIFY"
    /\ UNCHANGED <<redisVars, nodeVars, h2m, httpRecv, mainUp, jobs, dediVars>>

SetStatus(g, status) ==
    ticket' = [t \in Tickets |-> IF t \in g THEN Hash(status, ticket[t].uid) ELSE ticket[t]]

\* Mutant: only one member of the group is verified.
MMVerifyPivot ==
    /\ mainUp /\ phase = "VERIFY"
    /\ \/ /\ \E t \in cur : ticket[t].status = "WAITING"
          /\ SetStatus(cur, "INPROGRESS")
          /\ phase' = "DISTRIBUTE"
       \/ /\ \A t \in cur : ticket[t].status # "WAITING"
          /\ UNCHANGED ticket
          /\ phase' = "RECHECK"
    /\ UNCHANGED <<lock, token, nodeVars, h2m, httpRecv, queue, cur, mainUp, jobs, dediVars>>

\* VerifyAndSetMatchStatus: one Lua script over the whole group.
MMVerify ==
    /\ mainUp /\ phase = "VERIFY"
    /\ \/ /\ \A t \in cur : ticket[t].status = "WAITING"
          /\ SetStatus(cur, "INPROGRESS")
          /\ phase' = "DISTRIBUTE"
       \/ /\ \E t \in cur : ticket[t].status # "WAITING"
          /\ UNCHANGED ticket
          /\ phase' = "RECHECK"
    /\ UNCHANGED <<lock, token, nodeVars, h2m, httpRecv, queue, cur, mainUp, jobs, dediVars>>

\* After a failed verification each member is looked up again by itself.
MMRecheck(t) ==
    /\ mainUp /\ phase = "RECHECK"
    /\ t \in cur
    /\ queue' = IF ticket[t].status = "WAITING" THEN queue \cup {t} ELSE queue
    /\ cur' = cur \ {t}
    /\ phase' = IF cur = {t} THEN "IDLE" ELSE "RECHECK"
    /\ UNCHANGED <<redisVars, nodeVars, h2m, httpRecv, mainUp, jobs, dediVars>>

\* DistributePlayerGroup returns true: AllocatePlayers has put the hashes it
\* could read into MakeRoomForThisGroup.  A hash without uid throws.  The
\* process is taken to be bound; DediPool has the wait for one that is not.
MMDistribute ==
    /\ mainUp /\ phase = "DISTRIBUTE"
    /\ LET read == {t \in cur : ticket[t].status # "NONE"}
       IN IF \E t \in read : ticket[t].uid = NoUser
          THEN mainUp' = FALSE /\ UNCHANGED <<phase, cur, m2d>>
          ELSE /\ m2d' = Append(m2d, read)
               /\ phase' = "IDLE" /\ cur' = {}
               /\ UNCHANGED mainUp
    /\ UNCHANGED <<redisVars, nodeVars, h2m, httpRecv, queue, jobs, seat, d2m>>

\* Mutant: the status stays INPROGRESS when the group is given back.
MMGiveBackNoHset ==
    /\ SpawnFault
    /\ mainUp /\ phase = "DISTRIBUTE"
    /\ queue' = queue \cup cur
    /\ phase' = "IDLE" /\ cur' = {}
    /\ UNCHANGED <<redisVars, nodeVars, h2m, httpRecv, mainUp, jobs, dediVars>>

\* It returns false: HSET status WAITING, also on a key that expired since.
MMGiveBack ==
    /\ SpawnFault
    /\ mainUp /\ phase = "DISTRIBUTE"
    /\ SetStatus(cur, "WAITING")
    /\ queue' = queue \cup cur
    /\ phase' = "IDLE" /\ cur' = {}
    /\ UNCHANGED <<lock, token, nodeVars, h2m, httpRecv, mainUp, jobs, dediVars>>
-----------------------------------------------------------------------------
(* Dedicate, and Main's side of its socket.                                *)

\* DediServerService::MakeRoomForThisGroup.
MakeRoom ==
    /\ m2d # <<>>
    /\ m2d' = Tail(m2d)
    /\ seat' = [t \in Tickets |-> IF t \in Head(m2d) THEN "SEATED" ELSE seat[t]]
    /\ d2m' = Append(d2m, [type |-> "TOKEN", ts |-> Head(m2d)])
    /\ UNCHANGED <<redisVars, nodeVars, h2m, httpRecv, mainVars>>

\* A player is detached from its room: NotifyLeftOnce.
Leave(t) ==
    /\ seat[t] = "SEATED"
    /\ seat' = [seat EXCEPT ![t] = "LEFT"]
    /\ d2m' = Append(d2m, [type |-> "LEFT", ts |-> {t}])
    /\ UNCHANGED <<redisVars, nodeVars, h2m, httpRecv, mainVars, m2d>>

\* Handle_D2M_UpdateEntryToken and Handle_D2M_NotifyPlayerLeft register work.
HandleDedi ==
    /\ MainTurn
    /\ d2m # <<>>
    /\ jobs' = Append(jobs, Head(d2m))
    /\ d2m' = Tail(d2m)
    /\ UNCHANGED <<redisVars, nodeVars, h2m, httpRecv, queue, phase, cur, mainUp, m2d, seat>>

\* The last SET of the pipeline wins: a group is in order of arrival.
LastOf(u, ts, t) == ticket[t].uid = u /\ \A s \in ts : ticket[s].uid = u => s <= t

TokenLock(u, ts) ==
    IF \E t \in ts : LastOf(u, ts, t)
    THEN InGame(CHOOSE t \in ts : LastOf(u, ts, t))
    ELSE lock[u]

\* UpdateEntryTokenRequest::Execute.
ExecuteToken(ts) ==
    /\ lock' = [u \in Users |-> TokenLock(u, ts)]
    /\ SetStatus(ts, "SUCCESS")
    /\ token' = [t \in Tickets |-> t \in ts \/ token[t]]

\* NotifyPlayerLeftRequest::Execute, after the inventory: DEL by uid.
ExecuteLeft(ts) ==
    /\ lock' = [u \in Users |-> IF \E t \in ts : owner[t] = u THEN NoLock ELSE lock[u]]
    /\ UNCHANGED <<ticket, token>>

\* Mutant: the proxy takes the newest request first.
ExecuteJobNewest ==
    /\ MainTurn
    /\ jobs # <<>>
    /\ LET job == jobs[Len(jobs)]
       IN \/ job.type = "TOKEN" /\ ExecuteToken(job.ts)
          \/ job.type = "LEFT" /\ ExecuteLeft(job.ts)
    /\ jobs' = SubSeq(jobs, 1, Len(jobs) - 1)
    /\ UNCHANGED <<nodeVars, h2m, httpRecv, queue, phase, cur, mainUp, dediVars>>

\* DBProxyService::ExecuteAll, one request, in order.
ExecuteJob ==
    /\ MainTurn
    /\ jobs # <<>>
    /\ \/ Head(jobs).type = "TOKEN" /\ ExecuteToken(Head(jobs).ts)
       \/ Head(jobs).type = "LEFT" /\ ExecuteLeft(Head(jobs).ts)
    /\ jobs' = Tail(jobs)
    /\ UNCHANGED <<nodeVars, h2m, httpRecv, queue, phase, cur, mainUp, dediVars>>
-----------------------------------------------------------------------------
(* Redis: key expiry.                                                      *)

\* TTL 300 s, set once by /start; a ghost has none.
ExpireTicket(t) ==
    /\ TicketTTL
    /\ ticket[t].uid # NoUser
    /\ Remove(t)
    /\ UNCHANGED <<lock, token, nodeVars, h2m, httpRecv, mainVars, dediVars>>

ExpireToken(t) ==
    /\ TicketTTL
    /\ token[t]
    /\ token' = [token EXCEPT ![t] = FALSE]
    /\ UNCHANGED <<lock, ticket, nodeVars, h2m, httpRecv, mainVars, dediVars>>

\* TTL 900 s, armed before the ticket's 300 s, renewed when the game begins;
\* a game is shorter, so only a lock whose ticket is gone can expire.
ExpireLock(u) ==
    /\ TicketTTL
    /\ lock[u].kind = "TICKET"
    /\ ticket[lock[u].t].status = "NONE"
    /\ \A r \in Reqs : req[r].pc = "TICKET" => req[r].t # lock[u].t
    /\ DelLock(u)
    /\ UNCHANGED <<ticket, token, nodeVars, h2m, httpRecv, mainVars, dediVars>>
-----------------------------------------------------------------------------
StartStep(r) ==
    \/ StartLock(r)
    \/ StartTicket(r)
    \/ StartUndo(r)
    \/ StartFail(r)
    \/ StartSend(r)

NodeStep(r) == StartStep(r) \/ CancelDel(r) \/ LoginSend(r)

ClientStep ==
    \/ \E r \in Reqs, u \in Users : StartBegin(r, u) \/ LoginTakeover(r, u)
    \/ \E r \in Reqs, u \in Users, t \in Tickets : CancelEval(r, u, t)
    \/ \E t \in Tickets : Connect(t)

HttpStep == HandleMatchMake \/ HandleCancel \/ HandleBind

PassStep ==
    \/ MMVerify
    \/ MMDistribute
    \/ MMGiveBack
    \/ \E t \in Tickets : MMRecheck(t)

Expiry ==
    \/ \E t \in Tickets : ExpireTicket(t) \/ ExpireToken(t)
    \/ \E u \in Users : ExpireLock(u)

Next ==
    \/ ClientStep
    \/ \E r \in Reqs : NodeStep(r)
    \/ HttpStep
    \/ \E g \in SUBSET queue : MMPick(g)
    \/ PassStep
    \/ MakeRoom
    \/ \E t \in Tickets : Leave(t)
    \/ HandleDedi
    \/ ExecuteJob
    \/ Expiry

Spec == Init /\ [][Next]_vars

\* Main's loop runs MatchMake, ExecuteCQTask and ExecuteAll over and over: a
\* pass always ends, and a message or a job that keeps being there between
\* passes is taken.  A Dedicate process that is up reads its socket.
FairSpec ==
    /\ Spec
    /\ WF_vars(PassStep)
    /\ SF_vars(HandleDedi)
    /\ SF_vars(ExecuteJob)
    /\ WF_vars(MakeRoom)
-----------------------------------------------------------------------------
(* Properties.                                                             *)

TypeOK ==
    /\ lock \in [Users -> Locks]
    /\ ticket \in [Tickets -> Hashes]
    /\ token \in [Tickets -> BOOLEAN]
    /\ owner \in [Tickets -> Users \cup {NoUser}]
    /\ outcome \in [Tickets -> {"NONE", "STARTED", "CANCELLED", "EXPIRED"}]
    /\ req \in [Reqs -> Requests]
    /\ \A r \in Reqs : req[r].pc # "IDLE" => req[r].u \in Users
    /\ \A r \in Reqs : req[r].pc \in {"TICKET", "SEND", "DEL", "LOGINSEND"} => req[r].t \in Tickets
    /\ h2m \in Seq(HttpMsgs)
    /\ httpRecv \in BOOLEAN
    /\ queue \in SUBSET Tickets
    /\ phase \in {"IDLE", "VERIFY", "DISTRIBUTE", "RECHECK"}
    /\ cur \in SUBSET Tickets
    /\ mainUp \in BOOLEAN
    /\ m2d \in Seq(SUBSET Tickets)
    /\ seat \in [Tickets -> {"NONE", "SEATED", "LEFT"}]
    /\ d2m \in Seq(DediMsgs)
    /\ jobs \in Seq(DediMsgs)

\* Main has told a Dedicate process to make a seat for t.
Dispatched(t) == seat[t] # "NONE" \/ \E i \in 1 .. Len(m2d) : t \in m2d[i]

\* Main is past the point of no return for t.
Committing(t) == phase = "DISTRIBUTE" /\ t \in cur

\* A cancel the server granted (matchCancel result 1, loginTakeover result 2)
\* wins for good: the ticket is gone from Redis, whatever Main still holds of
\* it in its queue, and no seat is ever made for it.
CancelWins ==
    \A t \in Tickets : outcome[t] = "CANCELLED" =>
        /\ ticket[t].status = "NONE"
        /\ ~ Committing(t)
        /\ ~ Dispatched(t)

\* An account is never in two rooms: what active_match is for
\* (SET NX in /start, released by the departure).
OneSeatPerUser ==
    \A s, t \in Tickets :
        seat[s] = "SEATED" /\ seat[t] = "SEATED" /\ owner[s] = owner[t] => s = t

\* The departure of a player releases the lock it held, behind the token
\* update of the same room: no lock of a finished game stays without a
\* NotifyPlayerLeft still on its way.
FinishedGameUnlocks ==
    \A u \in Users, t \in Tickets :
        lock[u].t = t /\ seat[t] = "LEFT" =>
            \/ \E i \in 1 .. Len(d2m) : d2m[i] = [type |-> "LEFT", ts |-> {t}]
            \/ \E i \in 1 .. Len(jobs) : jobs[i] = [type |-> "LEFT", ts |-> {t}]

\* INPROGRESS refuses both /cancel and /login, so a player must not be left
\* in it: a committed ticket gets its token or goes back to WAITING.  (This is
\* for a bound process; DediPool!GroupStarts is about one that initialises.)
InProgressResolves ==
    \A t \in Tickets : ticket[t].status = "INPROGRESS" ~> ticket[t].status # "INPROGRESS"

\* Where a ticket is in the life MatchLife gives it.
Stage(t) ==
    CASE seat[t] = "LEFT" \/ outcome[t] = "CANCELLED"    -> "OVER"
      [] seat[t] = "SEATED"                               -> "SEATED"
      [] owner[t] = NoUser                                -> "NEW"
      [] seat[t] = "NONE" /\ ticket[t].status = "INPROGRESS" -> "COMMITTED"
      [] OTHER                                            -> "OPEN"

Promise == INSTANCE MatchLife WITH
    life  <- [t \in Tickets |-> Stage(t)],
    of    <- owner,
    holds <- [u \in Users |-> lock[u].t]

\* Behind the awaits of the routes, the two Lua scripts, the IPC queues and the
\* proxy, an account sees the life of a ticket that MatchLife describes: one
\* at a time, groups committed and seated whole, nothing withdrawn once
\* committed, and no new ticket before the old one is over.
PromisesMatchLife == Promise!Spec
=============================================================================
