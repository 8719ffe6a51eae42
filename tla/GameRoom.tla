------------------------------ MODULE GameRoom ------------------------------
(***************************************************************************)
(* One room of a dedicated process, from MakeRoomForThisGroup to           *)
(* DestroyRoom: the sessions of its players, what they may do there, the   *)
(* ways to leave it (recall, death, disconnect, the end of the room's      *)
(* life) and what becomes of their items.                                  *)
(*                                                                         *)
(* Everything here runs on the one thread of DedicateMain, so an action is *)
(* one packet handler, one timer callback or one ProcessLeaves; packets,   *)
(* callbacks and room updates interleave in every order.                   *)
(*                                                                         *)
(* The player objects of session s are the pairs <<s, k>>, k counting its  *)
(* RequestSpawnMe; the loot container a player leaves has the name of his  *)
(* object.  Items are individuals: a slot's quantity moves as a whole.     *)
(* Real time is left out except for recall; the other timeouts may expire  *)
(* at any moment.                                                          *)
(***************************************************************************)
EXTENDS Integers, FiniteSets

CONSTANTS
    Sessions,   \* the sessions of the room, one per account
    Chests,     \* containers of the map
    Items,      \* items brought along or lying in chests
    Npcs,       \* hostile NPCs
    Places,     \* positions the model tells apart
    RecallZone, \* the place from which a player may recall
    ChestPlace, \* the place of the chests
    NoOne,      \* NO_INTERACTING_PLAYER, NO_TARGET, no object, no container
    MaxAggro,   \* DEFAULT_MAX_AGGRO, 8 in the code
    RequiredPasses, \* RECALL_REQUIRED_PASS_COUNT, 5 in the code
    Interval,   \* RECALL_TICK_INTERVAL_MS, in units of the clock
    Spawns,     \* workload: RequestSpawnMe packets a client sends
    Recalls,    \* workload: recalls a client begins
    MaxTime     \* bound on the clock

ASSUME PlaceAssumption == RecallZone \in Places /\ ChestPlace \in Places
ASSUME CountAssumption ==
    /\ MaxAggro \in Nat \ {0} /\ RequiredPasses \in Nat \ {0} /\ Interval \in Nat \ {0}
    /\ Spawns \in Nat /\ Recalls \in Nat /\ MaxTime \in Nat
\* The object ids of a room are numbers of one generator.
ASSUME NameAssumption ==
    /\ NoOne \notin Chests \cup (Sessions \X (1 .. Spawns))
    /\ Chests \cap (Sessions \X (1 .. Spawns)) = {}
    /\ Chests \cap Sessions = {}

VARIABLES
    state,      \* _sessionState
    leave,      \* _leaveState
    reason,     \* _leaveReason
    notify,     \* the packet _leaveNotifyRSeq names: none, queued, acked
    told,       \* how often NotifyPlayerLeftToMain was called
    spawned,    \* RequestSpawnMe handled so far
    objectId,   \* the session's current player object
    objs,       \* _playerObjects
    dead,       \* the ones with _deathPending
    pos,        \* their positions
    recall,     \* _isRecalling, _recallGeneration, _recallPassCount
    began,      \* clock when the running recall began
    timers,     \* recall ticks in the heap of TimerExecuter
    now,        \* clock
    open,       \* _interactingContainerId
    holder,     \* _interactingPlayerId of the containers
    loot,       \* loot containers in the room
    bag,        \* items a player carries: PlayerInventory
    box,        \* items in a container
    joined,     \* /match/connect succeeded
    rows,       \* raid slots of user_inventory in MySQL
    left,       \* D2MNotifyPlayerLeft messages on their way
    settled,    \* accounts whose message was applied to MySQL
    npcs,       \* NPCs in the room
    target,     \* _targetId of an NPC
    aggro,      \* _aggro of an NPC
    inbox,      \* victims of D2CNotifyPlayerKilled in _pendingReliable
    late,       \* the finalize timeout or death grace of s has passed
    age,        \* young, old: life expired, killed: AllKill was called
    fate        \* open, reserved: ReserveRoomDestroy was called, gone

lifeVars   == <<state, leave, reason, notify, told, late>>
objVars    == <<spawned, objectId, objs, dead, pos>>
recallVars == <<recall, began, timers, now>>
holdVars   == <<open, holder, loot>>
itemVars   == <<bag, box, joined, rows, left, settled>>
npcVars    == <<npcs, target, aggro>>
roomVars   == <<inbox, age, fate>>
vars == <<lifeVars, objVars, recallVars, holdVars, itemVars, npcVars, roomVars>>
-----------------------------------------------------------------------------
Objects == Sessions \X (1 .. Spawns)
Boxes   == Chests \cup Objects

States   == {"INIT", "CONNECTED", "INPLAY", "SPECTATING", "LEFT"}
Leaves   == {"NONE", "PENDING", "DETACHED", "FINALIZED"}
Reasons  == {"NONE", "RECALLED", "DEAD", "DISCONNECTED"}

IsActiveState(s) == state[s] \in {"CONNECTED", "INPLAY"}
IsLeaving(s)     == leave[s] # "NONE"

\* The session exists: GetPlayerSession finds it.
Alive == fate # "gone"

\* FindSessionByObjectId.
SessionsOf(o) == {s \in Sessions : objectId[s] = o}

PlaceOf(b) == IF b \in Chests THEN ChestPlace ELSE pos[b]

\* IsPlayerNearContainer.
Near(o, b) ==
    /\ o \in objs
    /\ b \in Chests \cup loot
    /\ pos[o] = PlaceOf(b)

\* A session that has its player object in the room.
InRoom(s) == objectId[s] \in objs
-----------------------------------------------------------------------------
\* MakeRoomForThisGroup.  A player brings what the ticket names; his rows are
\* still in MySQL.  Whatever else there is lies in the chests.
Init ==
    /\ state = [s \in Sessions |-> "INIT"]
    /\ leave = [s \in Sessions |-> "NONE"]
    /\ reason = [s \in Sessions |-> "NONE"]
    /\ notify = [s \in Sessions |-> "none"]
    /\ told = [s \in Sessions |-> 0]
    /\ late = [s \in Sessions |-> FALSE]
    /\ spawned = [s \in Sessions |-> 0]
    /\ objectId = [s \in Sessions |-> NoOne]
    /\ objs = {} /\ dead = {}
    /\ pos = [o \in Objects |-> ChestPlace]
    /\ recall = [s \in Sessions |-> [on |-> FALSE, gen |-> 0, pass |-> 0]]
    /\ began = [s \in Sessions |-> 0]
    /\ timers = {} /\ now = 0
    /\ open = [s \in Sessions |-> NoOne]
    /\ holder = [b \in Boxes |-> NoOne]
    /\ loot = {}
    /\ \E f \in [Items -> Chests \cup Sessions] :
         /\ bag = [s \in Sessions |-> {i \in Items : f[i] = s}]
         /\ box = [b \in Boxes |-> {i \in Items : f[i] = b}]
    /\ joined = {} /\ rows = bag /\ left = {} /\ settled = {}
    /\ npcs = Npcs
    /\ target = [n \in Npcs |-> NoOne] /\ aggro = [n \in Npcs |-> 1]
    /\ inbox = [s \in Sessions |-> {}]
    /\ age = "young" /\ fate = "open"
-----------------------------------------------------------------------------
(* Entering.                                                               *)

\* POST /match/connect takes the items out of MySQL and gives the client the
\* key without which no datagram of his passes.  The entry token lives 300
\* seconds, half as long as the room.
Connect(s) ==
    /\ age = "young" /\ s \notin joined
    /\ joined' = joined \cup {s}
    /\ rows' = [rows EXCEPT ![s] = {}]
    /\ UNCHANGED <<lifeVars, objVars, recallVars, holdVars, npcVars, roomVars,
                   bag, box, left, settled>>

ChannelOpen(s) ==
    /\ Alive /\ s \in joined
    /\ state[s] = "INIT"
    /\ state' = [state EXCEPT ![s] = "CONNECTED"]
    /\ UNCHANGED <<leave, reason, notify, told, late, objVars, recallVars,
                   holdVars, itemVars, npcVars, roomVars>>

RequestSpawnMe(s) ==
    /\ Alive /\ IsActiveState(s)
    /\ spawned[s] < Spawns
    /\ LET o == <<s, spawned[s] + 1>> IN
         /\ objs' = objs \cup {o}
         /\ objectId' = [objectId EXCEPT ![s] = o]
         /\ \E p \in Places : pos' = [pos EXCEPT ![o] = p]
    /\ spawned' = [spawned EXCEPT ![s] = @ + 1]
    /\ UNCHANGED <<dead, lifeVars, recallVars, holdVars, itemVars, npcVars, roomVars>>

NotifyLoadingComplete(s) ==
    /\ Alive
    /\ state[s] = "CONNECTED"
    /\ state' = [state EXCEPT ![s] = "INPLAY"]
    /\ UNCHANGED <<leave, reason, notify, told, late, objVars, recallVars,
                   holdVars, itemVars, npcVars, roomVars>>

\* UpdatePlayerState; the position is the client's word.
UpdatePlayerState(s, p) ==
    /\ Alive /\ IsActiveState(s) /\ InRoom(s)
    /\ pos' = [pos EXCEPT ![objectId[s]] = p]
    /\ UNCHANGED <<spawned, objectId, objs, dead, lifeVars, recallVars, holdVars,
                   itemVars, npcVars, roomVars>>
-----------------------------------------------------------------------------
(* Containers.                                                             *)

\* ReleaseInteractingContainer for the sessions S, on open and on holder.
Closed(S) == [s \in Sessions |-> IF s \in S THEN NoOne ELSE open[s]]
Released(S) ==
    [b \in Boxes |-> IF \E s \in S : open[s] = b /\ holder[b] = objectId[s]
                     THEN NoOne ELSE holder[b]]

\* Mutant: the player who is pushed out keeps his interacting container.
OpenContainerKeepHolder(s, b) ==
    /\ Alive /\ IsActiveState(s) /\ InRoom(s)
    /\ Near(objectId[s], b)
    /\ holder[b] \in {NoOne, objectId[s]} \/ ~ Near(holder[b], b)
    /\ open' = [open EXCEPT ![s] = b]
    /\ holder' = [Released({s}) EXCEPT ![b] = objectId[s]]
    /\ UNCHANGED <<loot, lifeVars, objVars, recallVars, itemVars, npcVars, roomVars>>

\* RequestOpenContainer; a holder that went out of range loses the container.
OpenContainer(s, b) ==
    /\ Alive /\ IsActiveState(s) /\ InRoom(s)
    /\ Near(objectId[s], b)
    /\ holder[b] \in {NoOne, objectId[s]} \/ ~ Near(holder[b], b)
    /\ open' = [t \in Sessions |->
                  IF t = s THEN b
                  ELSE IF holder[b] # NoOne /\ objectId[t] = holder[b] THEN NoOne
                  ELSE open[t]]
    /\ holder' = [Released({s}) EXCEPT ![b] = objectId[s]]
    /\ UNCHANGED <<loot, lifeVars, objVars, recallVars, itemVars, npcVars, roomVars>>

CloseContainer(s) ==
    /\ Alive /\ IsActiveState(s)
    /\ open[s] # NoOne
    /\ open' = Closed({s})
    /\ holder' = Released({s})
    /\ UNCHANGED <<loot, lifeVars, objVars, recallVars, itemVars, npcVars, roomVars>>

\* RequestInteractContainerObject with the container's and the inventory's
\* current version: the items give go into the container, the items take
\* come out of it (get and merge move one way, swap moves both ways).
InteractContainerObject(s, give, take) ==
    /\ Alive /\ IsActiveState(s)
    /\ open[s] # NoOne /\ Near(objectId[s], open[s])
    /\ give \subseteq bag[s] /\ take \subseteq box[open[s]]
    /\ Cardinality(give) <= 1 /\ Cardinality(take) <= 1
    /\ give \cup take # {}
    /\ bag' = [bag EXCEPT ![s] = (@ \ give) \cup take]
    /\ box' = [box EXCEPT ![open[s]] = (@ \ take) \cup give]
    /\ UNCHANGED <<joined, rows, left, settled, lifeVars, objVars, recallVars,
                   holdVars, npcVars, roomVars>>
-----------------------------------------------------------------------------
(* Combat.  Whether a hit kills is the choice of the model: health, shield *)
(* and ammunition are left out.                                            *)

\* TakeDamage that ends in OnDeath for player object o, and the health notice
\* to the sessions S, which their leave will keep queued.
KillPlayer(o, S) ==
    /\ o \in objs \ dead
    /\ dead' = dead \cup {o}
    /\ notify' = [s \in Sessions |-> IF s \in S THEN "queued" ELSE notify[s]]
    /\ UNCHANGED <<spawned, objectId, objs, pos, state, leave, reason, told, late>>

\* SetAggroInternal for all NPCs of N.
SetAggro(N, a, o) ==
    LET free == a = 1 \/ o = NoOne IN
    /\ target' = [n \in Npcs |-> IF n \in N THEN (IF free THEN NoOne ELSE o) ELSE target[n]]
    /\ aggro' = [n \in Npcs |-> IF n \in N THEN (IF free THEN 1 ELSE a) ELSE aggro[n]]

\* RequestWeaponFire that hits a player and kills him.
FireAtPlayer(s, o) ==
    /\ Alive /\ IsActiveState(s) /\ InRoom(s)
    /\ KillPlayer(o, {t \in SessionsOf(o) : state[t] = "INPLAY"})
    /\ UNCHANGED <<recallVars, holdVars, itemVars, npcVars, roomVars>>

\* RequestWeaponFire at an NPC: DestroyDeadObject, or ApplyDamageAuthority.
FireAtNpc(s, n) ==
    /\ Alive /\ IsActiveState(s) /\ InRoom(s)
    /\ n \in npcs
    /\ \/ /\ npcs' = npcs \ {n}
          /\ UNCHANGED <<target, aggro>>
       \/ /\ MaxAggro > aggro[n]
          /\ SetAggro({n}, MaxAggro, objectId[s])
          /\ UNCHANGED npcs
    /\ UNCHANGED <<lifeVars, objVars, recallVars, holdVars, itemVars, roomVars>>

\* RequestNpcAggro and RequestNpcAuthority, the aggro clamped.
RequestNpc(s, n, a) ==
    /\ Alive /\ IsActiveState(s) /\ objectId[s] # NoOne
    /\ n \in npcs
    /\ target[n] = objectId[s] \/ a > aggro[n]
    /\ SetAggro({n}, a, objectId[s])
    /\ UNCHANGED <<npcs, lifeVars, objVars, recallVars, holdVars, itemVars, roomVars>>

\* ReportNpcAttack that kills: the client that drives the NPC reports a hit
\* on its own player.
ReportNpcAttack(s, n) ==
    /\ Alive /\ IsActiveState(s) /\ objectId[s] # NoOne
    /\ n \in npcs /\ target[n] = objectId[s]
    /\ KillPlayer(objectId[s], {s})
    /\ UNCHANGED <<recallVars, holdVars, itemVars, npcVars, roomVars>>
-----------------------------------------------------------------------------
(* Recall.                                                                 *)

EndRecall(s) == [recall[s] EXCEPT !.on = FALSE, !.gen = @ + 1]

InZone(s) == InRoom(s) /\ pos[objectId[s]] = RecallZone

\* Mutant: a request during a recall schedules a tick as well.
RequestRecallTwice(s) ==
    /\ Alive /\ IsActiveState(s) /\ ~ IsLeaving(s) /\ InZone(s)
    /\ recall[s].gen < 2 * Recalls
    /\ recall' = IF recall[s].on THEN recall
                 ELSE [recall EXCEPT ![s] = [on |-> TRUE, gen |-> @.gen + 1, pass |-> 0]]
    /\ began' = IF recall[s].on THEN began ELSE [began EXCEPT ![s] = now]
    /\ timers' = timers \cup {[s |-> s, gen |-> recall'[s].gen, due |-> now + Interval]}
    /\ UNCHANGED <<now, lifeVars, objVars, holdVars, itemVars, npcVars, roomVars>>

\* RequestRecall that is granted: BeginRecall and ScheduleRecallTick.
RequestRecall(s) ==
    /\ Alive /\ IsActiveState(s) /\ ~ IsLeaving(s) /\ InZone(s)
    /\ ~ recall[s].on
    /\ recall[s].gen < 2 * Recalls
    /\ recall' = [recall EXCEPT ![s] = [on |-> TRUE, gen |-> @.gen + 1, pass |-> 0]]
    /\ began' = [began EXCEPT ![s] = now]
    /\ timers' = timers \cup {[s |-> s, gen |-> recall'[s].gen, due |-> now + Interval]}
    /\ UNCHANGED <<now, lifeVars, objVars, holdVars, itemVars, npcVars, roomVars>>

\* The conditions under which RecallTick goes on.
MayRecall(s) ==
    /\ state[s] = "INPLAY" /\ ~ IsLeaving(s)
    /\ InZone(s) /\ objectId[s] \notin dead

\* RecallTick on a session that is gone or has another generation.
StaleTick(t) ==
    /\ t \in timers /\ t.due <= now
    /\ ~ Alive \/ ~ recall[t.s].on \/ recall[t.s].gen # t.gen
    /\ timers' = timers \ {t}
    /\ UNCHANGED <<recall, began, now, lifeVars, objVars, holdVars, itemVars, npcVars, roomVars>>

\* RecallTick that cancels, counts a pass, or makes the recall succeed: then
\* the result is sent and MarkLeaving(RECALLED) waits for its packet.
RecallTick(t) ==
    LET s == t.s IN
    /\ t \in timers /\ t.due <= now
    /\ Alive /\ recall[s].on /\ recall[s].gen = t.gen
    /\ \/ /\ ~ MayRecall(s)
          /\ recall' = [recall EXCEPT ![s] = EndRecall(s)]
          /\ timers' = timers \ {t}
          /\ UNCHANGED lifeVars
       \/ /\ MayRecall(s) /\ recall[s].pass + 1 < RequiredPasses
          /\ recall' = [recall EXCEPT ![s].pass = @ + 1]
          /\ timers' = (timers \ {t}) \cup {[t EXCEPT !.due = now + Interval]}
          /\ UNCHANGED lifeVars
       \/ /\ MayRecall(s) /\ recall[s].pass + 1 >= RequiredPasses
          /\ recall' = [recall EXCEPT ![s] = [EndRecall(s) EXCEPT !.pass = @ + 1]]
          /\ timers' = timers \ {t}
          /\ leave' = [leave EXCEPT ![s] = "PENDING"]
          /\ reason' = [reason EXCEPT ![s] = "RECALLED"]
          /\ notify' = [notify EXCEPT ![s] = "queued"]
          /\ state' = [state EXCEPT ![s] = "LEFT"]
          /\ UNCHANGED <<told, late>>
    /\ UNCHANGED <<began, now, objVars, holdVars, itemVars, npcVars, roomVars>>

\* The clock.
Tick ==
    /\ now < MaxTime
    /\ now' = now + 1
    /\ UNCHANGED <<recall, began, timers, lifeVars, objVars, holdVars, itemVars, npcVars, roomVars>>
-----------------------------------------------------------------------------
(* Leaving: ProcessLeaves, every 100 ms.                                   *)

\* Mutant: a recall that succeeded is overwritten by a death before the next
\* ProcessLeaves.
MarksAlways(s) == leave[s] \in {"NONE", "PENDING"}

\* MarkLeaving(DEAD) takes effect: a fixed reason is not overwritten.
Marks(s) ==
    \/ leave[s] = "NONE"
    \/ leave[s] = "PENDING" /\ reason[s] = "DISCONNECTED"

\* AllKill at the end of the room's life, and the sessions whose player died.
Dying == {s \in Sessions : Marks(s) /\ (age = "old" \/ objectId[s] \in dead)}

\* DetectDisconnectedSessions may find these.
CanBeLost == {s \in Sessions : state[s] = "INPLAY" /\ leave[s] = "NONE"} \ Dying

Pending == {s \in Sessions : leave[s] = "PENDING"}

\* The reasons after the marking, when the sessions in lost are found silent.
Why(lost) == [s \in Sessions |-> IF s \in Dying THEN "DEAD"
                                 ELSE IF s \in lost THEN "DISCONNECTED"
                                 ELSE reason[s]]

\* Mutant: a recalled player waits for his acknowledgement for ever.
IsFinalizeReadyPatient(s, why) ==
    IF why = "DEAD" THEN late[s] ELSE notify[s] # "queued"

\* IsFinalizeReady.
IsFinalizeReady(s, why) ==
    IF why = "DEAD" THEN late[s] ELSE notify[s] # "queued" \/ late[s]

\* Mutant: every player leaves a loot container.
LeavesLootAlways(going, why) == {s \in going : InRoom(s)}

\* DetachPlayer: the players who leave a loot container.
LeavesLoot(going, why) == {s \in going : InRoom(s) /\ why[s] = "DEAD"}

\* DetachPlayer: the players whose inventory is cleared.
Cleared(going, why) == {s \in going : InRoom(s) /\ why[s] \in {"DEAD", "DISCONNECTED"}}

\* Mutant: the inventory is reported whatever the reason.
LeftMessageAll(s, why) == [s |-> s, items |-> bag[s]]

\* NotifyPlayerLeftToMain: only a recall brings items back.
LeftMessage(s, why) == [s |-> s, items |-> IF why = "RECALLED" THEN bag[s] ELSE {}]

\* Mutant: the NPCs of a player who goes keep him as their target.
ReleaseNpcAuthorityNot(S) == UNCHANGED <<target, aggro>>

\* ReleaseNpcAuthority for the players S.
ReleaseNpcAuthority(S) ==
    SetAggro({n \in npcs : \E s \in S : objectId[s] = target[n] /\ target[n] # NoOne}, 1, NoOne)

\* Mutant: the queue is cleared in the loop that detaches, after the others'
\* broadcasts.
InboxInLoop(going, gone, killed) ==
    [t \in Sessions |->
       IF t \in gone THEN {}
       ELSE (IF t \in going THEN {} ELSE inbox[t])
            \cup (IF t \in going THEN killed \cap {objectId[t]}
                  ELSE IF state'[t] \in {"INPLAY", "SPECTATING"} THEN killed ELSE {})]

\* ClearPendingReliableExcept for everybody who goes, then the broadcasts of
\* DetachPlayer, then FinalizeLeave.
Inbox(going, gone, killed) ==
    [t \in Sessions |->
       IF t \in gone THEN {}
       ELSE (IF t \in going THEN {} ELSE inbox[t])
            \cup (IF state'[t] \in {"INPLAY", "SPECTATING"} THEN killed ELSE {})]

\* Mutant: FinalizeLeave tells Main again.
NotifyAgain(going, gone) == going \cup gone

\* NotifyLeftOnce, in DetachPlayer and again in FinalizeLeave.
NotifyLeftOnce(going, gone) == {s \in going \cup gone : told[s] = 0}

ProcessLeaves(lost) ==
    LET going == Dying \cup lost \cup Pending
        why   == Why(lost)
        gone  == {s \in Sessions : /\ s \in going \/ leave[s] = "DETACHED"
                                   /\ IsFinalizeReady(s, why[s])}
        dropped == {objectId[s] : s \in going}
        looted  == LeavesLoot(going, why)
        telling == NotifyLeftOnce(going, gone)
    IN
    /\ Alive
    /\ age' = IF age = "old" THEN "killed" ELSE age
    /\ reason' = why
    /\ leave' = [s \in Sessions |-> IF s \in gone THEN "FINALIZED"
                                     ELSE IF s \in going THEN "DETACHED" ELSE leave[s]]
    /\ state' = [s \in Sessions |->
                   IF s \in gone THEN "LEFT"
                   ELSE IF s \notin going THEN state[s]
                   ELSE IF why[s] = "DEAD" THEN "SPECTATING" ELSE "LEFT"]
    /\ recall' = [s \in Sessions |-> IF s \in going THEN EndRecall(s) ELSE recall[s]]
    /\ open' = Closed(going) /\ holder' = Released(going)
    /\ ReleaseNpcAuthority(going)
    /\ loot' = loot \cup {objectId[s] : s \in looted}
    /\ box' = [b \in Boxes |-> IF \E s \in looted : objectId[s] = b
                               THEN UNION {bag[s] : s \in {t \in looted : objectId[t] = b}}
                               ELSE box[b]]
    /\ bag' = [s \in Sessions |-> IF s \in Cleared(going, why) THEN {} ELSE bag[s]]
    /\ objs' = objs \ dropped /\ dead' = dead \ dropped
    /\ objectId' = [s \in Sessions |-> IF s \in going THEN NoOne ELSE objectId[s]]
    /\ told' = [s \in Sessions |-> IF s \in telling THEN told[s] + 1 ELSE told[s]]
    /\ left' = left \cup {LeftMessage(s, why[s]) : s \in telling}
    /\ inbox' = Inbox(going, gone, {objectId[s] : s \in looted})
    /\ notify' = [s \in Sessions |-> IF s \in gone /\ notify[s] = "queued"
                                      THEN "acked" ELSE notify[s]]
    /\ fate' = IF fate = "open" /\ \A s \in Sessions : leave'[s] = "FINALIZED"
               THEN "reserved" ELSE fate
    /\ UNCHANGED <<late, spawned, pos, began, timers, now, joined, rows, settled, npcs>>

\* ROOM_LIFETIME_MS passes.
LifetimeEnds ==
    /\ age = "young" /\ Alive
    /\ age' = "old"
    /\ UNCHANGED <<inbox, fate, lifeVars, objVars, recallVars, holdVars, itemVars, npcVars>>

\* DEATH_GRACE_MS or LEAVE_FINALIZE_TIMEOUT_MS passes.
GraceEnds(s) ==
    /\ leave[s] = "DETACHED" /\ ~ late[s]
    /\ late' = [late EXCEPT ![s] = TRUE]
    /\ UNCHANGED <<state, leave, reason, notify, told, objVars, recallVars, holdVars,
                   itemVars, npcVars, roomVars>>

\* The client acknowledges what is queued for it.
ClientAck(s) ==
    /\ Alive /\ s \in joined
    /\ notify[s] = "queued" \/ inbox[s] # {}
    /\ notify' = [notify EXCEPT ![s] = IF @ = "queued" THEN "acked" ELSE @]
    /\ inbox' = [inbox EXCEPT ![s] = {}]
    /\ UNCHANGED <<state, leave, reason, told, late, objVars, recallVars, holdVars,
                   itemVars, npcVars, age, fate>>

\* DestroyPendingRooms.
DestroyRoom ==
    /\ fate = "reserved"
    /\ fate' = "gone"
    /\ UNCHANGED <<inbox, age, lifeVars, objVars, recallVars, holdVars, itemVars, npcVars>>

\* Main: Handle_D2M_NotifyPlayerLeft and ApplyInventoryToDb, for an account
\* that is not a guest and a MySQL that answers within DB_RETRY_COUNT tries.
ApplyInventoryToDb(m) ==
    /\ m \in left
    /\ left' = left \ {m}
    /\ rows' = [rows EXCEPT ![m.s] = m.items]
    /\ settled' = settled \cup {m.s}
    /\ UNCHANGED <<bag, box, joined, lifeVars, objVars, recallVars, holdVars, npcVars, roomVars>>
-----------------------------------------------------------------------------
SessionStep(s) ==
    \/ Connect(s) \/ ChannelOpen(s) \/ RequestSpawnMe(s) \/ NotifyLoadingComplete(s)
    \/ \E p \in Places : UpdatePlayerState(s, p)
    \/ \E b \in Boxes : OpenContainer(s, b)
    \/ CloseContainer(s)
    \/ \E give, take \in SUBSET Items : InteractContainerObject(s, give, take)
    \/ \E o \in Objects : FireAtPlayer(s, o)
    \/ \E n \in Npcs : FireAtNpc(s, n) \/ ReportNpcAttack(s, n)
    \/ \E n \in Npcs, a \in 1 .. MaxAggro : RequestNpc(s, n, a)
    \/ RequestRecall(s)
    \/ ClientAck(s)

ServerStep ==
    \/ \E lost \in SUBSET CanBeLost : ProcessLeaves(lost)
    \/ DestroyRoom
    \/ \E t \in timers : StaleTick(t) \/ RecallTick(t)
    \/ \E m \in left : ApplyInventoryToDb(m)

TimeStep ==
    \/ Tick
    \/ LifetimeEnds
    \/ \E s \in Sessions : GraceEnds(s)

Next == (\E s \in Sessions : SessionStep(s)) \/ ServerStep \/ TimeStep

Spec == Init /\ [][Next]_vars

\* The loop of DedicateMain updates every room, destroys the reserved ones
\* and sends what Main then applies; time passes.  Nothing is asked of the
\* clients.
FairSpec ==
    /\ Spec
    /\ WF_vars(\E lost \in SUBSET CanBeLost : ProcessLeaves(lost))
    /\ WF_vars(DestroyRoom)
    /\ WF_vars(LifetimeEnds)
    /\ \A s \in Sessions : WF_vars(GraceEnds(s))
    /\ WF_vars(\E m \in left : ApplyInventoryToDb(m))
-----------------------------------------------------------------------------
(* Properties.                                                             *)

TypeOK ==
    /\ state \in [Sessions -> States]
    /\ leave \in [Sessions -> Leaves]
    /\ reason \in [Sessions -> Reasons]
    /\ notify \in [Sessions -> {"none", "queued", "acked"}]
    /\ told \in [Sessions -> {0, 1}]
    /\ late \in [Sessions -> BOOLEAN]
    /\ spawned \in [Sessions -> 0 .. Spawns]
    /\ objectId \in [Sessions -> Objects \cup {NoOne}]
    /\ objs \subseteq Objects /\ dead \subseteq objs
    /\ pos \in [Objects -> Places]
    /\ recall \in [Sessions -> [on : BOOLEAN, gen : Nat, pass : Nat]]
    /\ began \in [Sessions -> Nat]
    /\ timers \subseteq [s : Sessions, gen : Nat, due : Nat]
    /\ now \in Nat
    /\ open \in [Sessions -> Boxes \cup {NoOne}]
    /\ holder \in [Boxes -> Objects \cup {NoOne}]
    /\ loot \subseteq Objects
    /\ bag \in [Sessions -> SUBSET Items]
    /\ box \in [Boxes -> SUBSET Items]
    /\ joined \subseteq Sessions /\ settled \subseteq Sessions
    /\ rows \in [Sessions -> SUBSET Items]
    /\ left \subseteq [s : Sessions, items : SUBSET Items]
    /\ npcs \subseteq Npcs
    /\ target \in [Npcs -> Objects \cup {NoOne}]
    /\ aggro \in [Npcs -> 1 .. MaxAggro]
    /\ inbox \in [Sessions -> SUBSET Objects]
    /\ age \in {"young", "old", "killed"}
    /\ fate \in {"open", "reserved", "gone"}

\* Everywhere an item can still be used from.
Homes(i) ==
    {<<"bag", s>> : s \in {t \in Sessions : told[t] = 0 /\ i \in bag[t]}}
    \cup {<<"box", b>> : b \in {c \in Chests \cup loot : i \in box[c]}}
    \cup {<<"left", m.s>> : m \in {x \in left : i \in x.items}}
    \cup {<<"rows", s>> : s \in {t \in joined \cup settled : i \in rows[t]}}

\* No item is ever in two places, whoever loots, dies, recalls or is cut off
\* in whatever order: not in two inventories or containers, and not in a
\* container of the room while it is on its way back to MySQL (DetachPlayer,
\* NotifyPlayerLeftToMain, InteractContainerObject).
ItemsOnce == \A i \in Items : Cardinality(Homes(i)) <= 1

\* A container is worked on by the one session whose player holds it: what
\* RequestInteractContainerObject relies on, which looks at the session's
\* side only.
ContainerHeldByOne ==
    /\ \A s \in Sessions : open[s] # NoOne => holder[open[s]] = objectId[s]
    /\ \A b \in Boxes : holder[b] # NoOne =>
         \E s \in Sessions : objectId[s] = holder[b] /\ open[s] = b

\* An NPC is driven by a player who is in the room, and is free for everybody
\* (aggro at its minimum) exactly when nobody drives it (SetAggroInternal).
NpcDrivenFromRoom ==
    \A n \in npcs :
      /\ target[n] = NoOne <=> aggro[n] = 1
      /\ target[n] # NoOne => \E s \in Sessions : InRoom(s) /\ objectId[s] = target[n]

\* A recall takes its full time: RequiredPasses ticks, each an interval after
\* the one before, however often it is requested (BeginRecall, RecallTick).
FullRecall ==
    \A s \in Sessions :
      reason[s] = "RECALLED" => now >= began[s] + RequiredPasses * Interval

\* Everybody who is still playing or watching has the notice of a death in
\* his queue, the players who leave in the same ProcessLeaves included.
KillHeard ==
    [][\A v \in loot' \ loot : \A t \in Sessions :
         state'[t] \in {"INPLAY", "SPECTATING"} => v \in inbox'[t]]_vars

\* What a player carries when his recall succeeds gets into MySQL, whatever
\* happens to him and to the room before ProcessLeaves runs (MarkLeaving does
\* not overwrite RECALLED, DetachPlayer does not clear the inventory).
ExtractionPays ==
    \A s \in Sessions, i \in Items :
      (reason[s] = "RECALLED" /\ i \in bag[s]) ~> i \in rows[s]

\* Every room is destroyed in the end, and its capacity with it, whatever the
\* clients do or stop doing.
RoomEnds == <>(fate = "gone")
=============================================================================
