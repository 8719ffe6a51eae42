--------------------------- MODULE GameRoomProofs ---------------------------
(***************************************************************************)
(* The room for every number of sessions, containers, items and NPCs: its  *)
(* types, who holds a container, who drives an NPC, how long a recall      *)
(* takes, who hears of a death, and that no item is in two places.         *)
(*                                                                         *)
(* What depends on the player objects is proved for clients that send one  *)
(* RequestSpawnMe (Spawns = 1): a second one leaves the first object of    *)
(* the session in the room.                                                *)
(***************************************************************************)
EXTENDS GameRoom, FiniteSetTheorems, TLAPS

(* TypeOK by the groups of variables that an action leaves alone.          *)

LifeType ==
    /\ state \in [Sessions -> States]
    /\ leave \in [Sessions -> Leaves]
    /\ reason \in [Sessions -> Reasons]
    /\ notify \in [Sessions -> {"none", "queued", "acked"}]
    /\ told \in [Sessions -> {0, 1}]
    /\ late \in [Sessions -> BOOLEAN]
ObjType ==
    /\ spawned \in [Sessions -> 0 .. Spawns]
    /\ objectId \in [Sessions -> Objects \cup {NoOne}]
    /\ objs \subseteq Objects /\ dead \subseteq objs
    /\ pos \in [Objects -> Places]
RecallType ==
    /\ recall \in [Sessions -> [on : BOOLEAN, gen : Nat, pass : Nat]]
    /\ began \in [Sessions -> Nat]
    /\ timers \subseteq [s : Sessions, gen : Nat, due : Nat]
    /\ now \in Nat
HoldType ==
    /\ open \in [Sessions -> Boxes \cup {NoOne}]
    /\ holder \in [Boxes -> Objects \cup {NoOne}]
    /\ loot \subseteq Objects
ItemType ==
    /\ bag \in [Sessions -> SUBSET Items]
    /\ box \in [Boxes -> SUBSET Items]
    /\ joined \subseteq Sessions /\ settled \subseteq Sessions
    /\ rows \in [Sessions -> SUBSET Items]
    /\ left \subseteq [s : Sessions, items : SUBSET Items]
NpcType ==
    /\ npcs \subseteq Npcs
    /\ target \in [Npcs -> Objects \cup {NoOne}]
    /\ aggro \in [Npcs -> 1 .. MaxAggro]
RoomType ==
    /\ inbox \in [Sessions -> SUBSET Objects]
    /\ age \in {"young", "old", "killed"}
    /\ fate \in {"open", "reserved", "gone"}

LEMMA TypeParts ==
  TypeOK <=> /\ LifeType /\ ObjType /\ RecallType /\ HoldType /\ ItemType /\ NpcType /\ RoomType
  BY DEF TypeOK, LifeType, ObjType, RecallType, HoldType, ItemType, NpcType, RoomType

LEMMA TypePartsNext ==
  TypeOK' <=> /\ LifeType' /\ ObjType' /\ RecallType' /\ HoldType' /\ ItemType' /\ NpcType' /\ RoomType'
  BY DEF TypeOK, LifeType, ObjType, RecallType, HoldType, ItemType, NpcType, RoomType

LEMMA TypeSame ==
  ASSUME TypeOK
  PROVE  /\ UNCHANGED lifeVars => LifeType'
         /\ UNCHANGED objVars => ObjType'
         /\ UNCHANGED recallVars => RecallType'
         /\ UNCHANGED holdVars => HoldType'
         /\ UNCHANGED itemVars => ItemType'
         /\ UNCHANGED npcVars => NpcType'
         /\ UNCHANGED roomVars => RoomType'
  <1>1. UNCHANGED lifeVars => LifeType' BY TypeParts DEF lifeVars, LifeType
  <1>2. UNCHANGED objVars => ObjType' BY TypeParts DEF objVars, ObjType
  <1>3. UNCHANGED recallVars => RecallType' BY TypeParts DEF recallVars, RecallType
  <1>4. UNCHANGED holdVars => HoldType' BY TypeParts DEF holdVars, HoldType
  <1>5. UNCHANGED itemVars => ItemType' BY TypeParts DEF itemVars, ItemType
  <1>6. UNCHANGED npcVars => NpcType' BY TypeParts DEF npcVars, NpcType
  <1>7. UNCHANGED roomVars => RoomType' BY TypeParts DEF roomVars, RoomType
  <1> QED BY <1>1, <1>2, <1>3, <1>4, <1>5, <1>6, <1>7

LEMMA TypeInit == Init => TypeOK
  <1> SUFFICES ASSUME Init PROVE TypeOK OBVIOUS
  <1>1. LifeType BY DEF Init, LifeType, States, Leaves, Reasons
  <1>2. ObjType BY CountAssumption, PlaceAssumption DEF Init, ObjType
  <1>3. RecallType BY DEF Init, RecallType
  <1>4. HoldType BY DEF Init, HoldType
  <1>5. ItemType BY DEF Init, ItemType
  <1>6. NpcType BY CountAssumption DEF Init, NpcType
  <1>7. RoomType BY DEF Init, RoomType
  <1> QED BY <1>1, <1>2, <1>3, <1>4, <1>5, <1>6, <1>7, TypeParts

\* The pieces that several actions use keep their types.
LEMMA ClosedType ==
  ASSUME TypeOK, NEW S \in SUBSET Sessions
  PROVE  /\ Closed(S) \in [Sessions -> Boxes \cup {NoOne}]
         /\ Released(S) \in [Boxes -> Objects \cup {NoOne}]
  BY TypeParts DEF HoldType, Closed, Released

LEMMA AggroType ==
  ASSUME TypeOK, NEW N, NEW a \in 1 .. MaxAggro, NEW o \in Objects \cup {NoOne}, SetAggro(N, a, o)
  PROVE  target' \in [Npcs -> Objects \cup {NoOne}] /\ aggro' \in [Npcs -> 1 .. MaxAggro]
  BY TypeParts, CountAssumption DEF NpcType, SetAggro

LEMMA KillType ==
  ASSUME TypeOK, NEW o, NEW S, KillPlayer(o, S)
  PROVE  LifeType' /\ ObjType'
  <1>1. LifeType' BY TypeParts DEF KillPlayer, LifeType
  <1>2. ObjType' BY TypeParts DEF KillPlayer, ObjType
  <1> QED BY <1>1, <1>2

LEMMA EndRecallType ==
  ASSUME TypeOK, NEW s \in Sessions
  PROVE  /\ EndRecall(s) \in [on : BOOLEAN, gen : Nat, pass : Nat]
         /\ EndRecall(s).on = FALSE /\ EndRecall(s).gen = recall[s].gen + 1
         /\ [EndRecall(s) EXCEPT !.pass = @ + 1] \in [on : BOOLEAN, gen : Nat, pass : Nat]
         /\ [EndRecall(s) EXCEPT !.pass = @ + 1].on = FALSE
         /\ [EndRecall(s) EXCEPT !.pass = @ + 1].gen = recall[s].gen + 1
  <1>1. recall[s] \in [on : BOOLEAN, gen : Nat, pass : Nat] BY TypeParts DEF RecallType
  <1> DEFINE e == EndRecall(s)
             r == recall[s]
             f == [r EXCEPT !.on = FALSE]
  <1>r. r \in [on : BOOLEAN, gen : Nat, pass : Nat] /\ e = [f EXCEPT !.gen = r.gen + 1]
    BY <1>1 DEF EndRecall
  <1> HIDE DEF r
  <1>f. f \in [on : BOOLEAN, gen : Nat, pass : Nat] /\ f.on = FALSE /\ r.gen \in Nat BY <1>r
  <1> HIDE DEF e, f
  <1>2. e \in [on : BOOLEAN, gen : Nat, pass : Nat] /\ e.on = FALSE /\ e.gen = r.gen + 1
    BY <1>r, <1>f
  <1>3. /\ [e EXCEPT !.pass = @ + 1] \in [on : BOOLEAN, gen : Nat, pass : Nat]
        /\ [e EXCEPT !.pass = @ + 1].on = FALSE
        /\ [e EXCEPT !.pass = @ + 1].gen = r.gen + 1
    BY <1>2
  <1> QED BY <1>2, <1>3 DEF e, r

LEMMA SessionType ==
  ASSUME TypeOK, NEW s \in Sessions, SessionStep(s)
  PROVE  TypeOK'
  <1> USE TypeParts, TypePartsNext, TypeSame
  <1>1. CASE Connect(s)
    <2>1. ItemType' BY <1>1 DEF Connect, ItemType
    <2> QED BY <1>1, <2>1 DEF Connect
  <1>2. CASE ChannelOpen(s)
    <2>1. LifeType' BY <1>2 DEF ChannelOpen, LifeType, States
    <2> QED BY <1>2, <2>1 DEF ChannelOpen
  <1>3. CASE RequestSpawnMe(s)
    <2>1. ObjType'
      <3>1. spawned[s] \in 0 .. Spawns /\ spawned[s] < Spawns BY <1>3 DEF RequestSpawnMe, ObjType
      <3>2. <<s, spawned[s] + 1>> \in Objects BY <3>1, CountAssumption DEF Objects
      <3>3. spawned[s] + 1 \in 0 .. Spawns BY <3>1, CountAssumption
      <3>4. PICK p \in Places : pos' = [pos EXCEPT ![<<s, spawned[s] + 1>>] = p] BY <1>3 DEF RequestSpawnMe
      <3> QED BY <1>3, <3>2, <3>3, <3>4 DEF RequestSpawnMe, ObjType
    <2> QED BY <1>3, <2>1 DEF RequestSpawnMe
  <1>4. CASE NotifyLoadingComplete(s)
    <2>1. LifeType' BY <1>4 DEF NotifyLoadingComplete, LifeType, States
    <2> QED BY <1>4, <2>1 DEF NotifyLoadingComplete
  <1>5. ASSUME NEW p \in Places, UpdatePlayerState(s, p) PROVE TypeOK'
    <2>1. ObjType' BY <1>5 DEF UpdatePlayerState, ObjType
    <2> QED BY <1>5, <2>1 DEF UpdatePlayerState
  <1>6. ASSUME NEW b \in Boxes, OpenContainer(s, b) PROVE TypeOK'
    <2>1. objectId[s] \in Objects \cup {NoOne} BY DEF ObjType
    <2>2. Released({s}) \in [Boxes -> Objects \cup {NoOne}] BY ClosedType
    <2>3. HoldType' BY <1>6, <2>1, <2>2 DEF OpenContainer, HoldType
    <2> QED BY <1>6, <2>3 DEF OpenContainer
  <1>7. CASE CloseContainer(s)
    <2>1. HoldType' BY <1>7, ClosedType DEF CloseContainer, HoldType
    <2> QED BY <1>7, <2>1 DEF CloseContainer
  <1>8. ASSUME NEW give \in SUBSET Items, NEW take \in SUBSET Items, InteractContainerObject(s, give, take)
        PROVE  TypeOK'
    <2>1. open[s] \in Boxes BY <1>8 DEF InteractContainerObject, HoldType
    <2>2. ItemType' BY <1>8, <2>1 DEF InteractContainerObject, ItemType
    <2> QED BY <1>8, <2>2 DEF InteractContainerObject
  <1>9. ASSUME NEW o \in Objects, FireAtPlayer(s, o) PROVE TypeOK'
    <2>1. LifeType' /\ ObjType' BY <1>9, KillType DEF FireAtPlayer
    <2> QED BY <1>9, <2>1 DEF FireAtPlayer
  <1>10. ASSUME NEW n \in Npcs, FireAtNpc(s, n) PROVE TypeOK'
    <2>1. CASE npcs' = npcs \ {n} /\ UNCHANGED <<target, aggro>>
      <3>1. NpcType' BY <2>1 DEF NpcType
      <3> QED BY <1>10, <3>1 DEF FireAtNpc
    <2>2. CASE SetAggro({n}, MaxAggro, objectId[s]) /\ UNCHANGED npcs
      <3>1. MaxAggro \in 1 .. MaxAggro /\ objectId[s] \in Objects \cup {NoOne} BY CountAssumption DEF ObjType
      <3>2. NpcType' BY <2>2, <3>1, AggroType DEF NpcType
      <3> QED BY <1>10, <3>2 DEF FireAtNpc
    <2> QED BY <1>10, <2>1, <2>2 DEF FireAtNpc
  <1>11. ASSUME NEW n \in Npcs, ReportNpcAttack(s, n) PROVE TypeOK'
    <2>1. LifeType' /\ ObjType' BY <1>11, KillType DEF ReportNpcAttack
    <2> QED BY <1>11, <2>1 DEF ReportNpcAttack
  <1>12. ASSUME NEW n \in Npcs, NEW a \in 1 .. MaxAggro, RequestNpc(s, n, a) PROVE TypeOK'
    <2>1. objectId[s] \in Objects \cup {NoOne} BY DEF ObjType
    <2>2. NpcType' BY <1>12, <2>1, AggroType DEF RequestNpc, NpcType
    <2> QED BY <1>12, <2>2 DEF RequestNpc
  <1>13. CASE RequestRecall(s)
    <2>1. recall[s] \in [on : BOOLEAN, gen : Nat, pass : Nat] BY DEF RecallType
    <2>2. recall' = [recall EXCEPT ![s] = [on |-> TRUE, gen |-> recall[s].gen + 1, pass |-> 0]]
      BY <1>13 DEF RequestRecall
    <2>3. recall' \in [Sessions -> [on : BOOLEAN, gen : Nat, pass : Nat]] BY <2>1, <2>2 DEF RecallType
    <2>4. [s |-> s, gen |-> recall'[s].gen, due |-> now + Interval] \in [s : Sessions, gen : Nat, due : Nat]
      BY <2>3, CountAssumption DEF RecallType
    <2>5. RecallType' BY <1>13, <2>3, <2>4 DEF RequestRecall, RecallType
    <2> QED BY <1>13, <2>5 DEF RequestRecall
  <1>14. CASE ClientAck(s)
    <2>1. LifeType' BY <1>14 DEF ClientAck, LifeType
    <2>2. RoomType' BY <1>14 DEF ClientAck, RoomType
    <2> QED BY <1>14, <2>1, <2>2 DEF ClientAck
  <1> QED BY <1>1, <1>2, <1>3, <1>4, <1>5, <1>6, <1>7, <1>8, <1>9, <1>10, <1>11, <1>12, <1>13, <1>14
          DEF SessionStep

\* ProcessLeaves by its parts: who goes, who is finalized, who leaves loot,
\* whose departure is reported.
Going(lost)   == Dying \cup lost \cup Pending
Gone(lost)    == {s \in Sessions : /\ s \in Going(lost) \/ leave[s] = "DETACHED"
                                   /\ IsFinalizeReady(s, Why(lost)[s])}
Looted(lost)  == LeavesLoot(Going(lost), Why(lost))
Telling(lost) == NotifyLeftOnce(Going(lost), Gone(lost))

LEMMA LeavesWho ==
  ASSUME NEW lost \in SUBSET CanBeLost
  PROVE  Going(lost) \subseteq Sessions /\ Looted(lost) \subseteq Going(lost) /\ Telling(lost) \subseteq Sessions
  BY DEF Going, Dying, Pending, CanBeLost, Looted, LeavesLoot, Telling, NotifyLeftOnce, Gone

LEMMA LeavesLife ==
  ASSUME NEW lost, ProcessLeaves(lost)
  PROVE  /\ reason' = Why(lost)
         /\ leave' = [s \in Sessions |-> IF s \in Gone(lost) THEN "FINALIZED"
                                          ELSE IF s \in Going(lost) THEN "DETACHED" ELSE leave[s]]
         /\ state' = [s \in Sessions |->
                        IF s \in Gone(lost) THEN "LEFT"
                        ELSE IF s \notin Going(lost) THEN state[s]
                        ELSE IF Why(lost)[s] = "DEAD" THEN "SPECTATING" ELSE "LEFT"]
         /\ told' = [s \in Sessions |-> IF s \in Telling(lost) THEN told[s] + 1 ELSE told[s]]
         /\ notify' = [s \in Sessions |-> IF s \in Gone(lost) /\ notify[s] = "queued"
                                           THEN "acked" ELSE notify[s]]
         /\ UNCHANGED late
  BY Zenon DEF ProcessLeaves, Going, Gone, Telling

LEMMA LeavesObjects ==
  ASSUME NEW lost, ProcessLeaves(lost)
  PROVE  /\ objs' = objs \ {objectId[s] : s \in Going(lost)}
         /\ dead' = dead \ {objectId[s] : s \in Going(lost)}
         /\ objectId' = [s \in Sessions |-> IF s \in Going(lost) THEN NoOne ELSE objectId[s]]
         /\ UNCHANGED <<spawned, pos>>
  BY Zenon DEF ProcessLeaves, Going

LEMMA LeavesRecall ==
  ASSUME NEW lost, ProcessLeaves(lost)
  PROVE  /\ recall' = [s \in Sessions |-> IF s \in Going(lost) THEN EndRecall(s) ELSE recall[s]]
         /\ UNCHANGED <<began, timers, now>>
  BY Zenon DEF ProcessLeaves, Going

LEMMA LeavesHold ==
  ASSUME NEW lost, ProcessLeaves(lost)
  PROVE  /\ open' = Closed(Going(lost)) /\ holder' = Released(Going(lost))
         /\ loot' = loot \cup {objectId[s] : s \in Looted(lost)}
  BY Zenon DEF ProcessLeaves, Going, Looted

LEMMA LeavesItems ==
  ASSUME NEW lost, ProcessLeaves(lost)
  PROVE  /\ box' = [b \in Boxes |-> IF \E s \in Looted(lost) : objectId[s] = b
                                    THEN UNION {bag[s] : s \in {t \in Looted(lost) : objectId[t] = b}}
                                    ELSE box[b]]
         /\ bag' = [s \in Sessions |-> IF s \in Cleared(Going(lost), Why(lost)) THEN {} ELSE bag[s]]
         /\ left' = left \cup {LeftMessage(s, Why(lost)[s]) : s \in Telling(lost)}
         /\ UNCHANGED <<joined, rows, settled>>
  BY Zenon DEF ProcessLeaves, Going, Looted, Gone, Telling

LEMMA LeavesNpcs ==
  ASSUME NEW lost, ProcessLeaves(lost)
  PROVE  /\ SetAggro({n \in npcs : \E s \in Going(lost) : objectId[s] = target[n] /\ target[n] # NoOne}, 1, NoOne)
         /\ UNCHANGED npcs
  BY Zenon DEF ProcessLeaves, Going, ReleaseNpcAuthority

LEMMA LeavesRoom ==
  ASSUME NEW lost, ProcessLeaves(lost)
  PROVE  /\ inbox' = Inbox(Going(lost), Gone(lost), {objectId[s] : s \in Looted(lost)})
         /\ age' = IF age = "old" THEN "killed" ELSE age
         /\ fate' = fate \/ fate' = "reserved"
  BY Zenon DEF ProcessLeaves, Going, Looted, Gone

LEMMA LeavesType ==
  ASSUME TypeOK, NEW lost \in SUBSET CanBeLost, ProcessLeaves(lost)
  PROVE  TypeOK'
  <1> DEFINE going == Going(lost)
             gone == Gone(lost)
             why == Why(lost)
             looted == Looted(lost)
             telling == Telling(lost)
  <1>p. going \subseteq Sessions /\ looted \subseteq going /\ telling \subseteq Sessions BY LeavesWho
  <1>w. why \in [Sessions -> Reasons] BY TypeParts DEF Why, LifeType, Reasons
  <1>l. \A s \in looted : objectId[s] \in Objects
    BY TypeParts DEF Looted, LeavesLoot, InRoom, ObjType
  <1>1. LifeType'
    <2>t. LifeType BY TypeParts
    <2>1. state' \in [Sessions -> States] BY <2>t, LeavesLife DEF LifeType, States
    <2>2. leave' \in [Sessions -> Leaves] BY <2>t, LeavesLife DEF LifeType, Leaves
    <2>3. reason' \in [Sessions -> Reasons] BY <1>w, LeavesLife
    <2>4. notify' \in [Sessions -> {"none", "queued", "acked"}] BY <2>t, LeavesLife DEF LifeType
    <2>5. told' \in [Sessions -> {0, 1}]
      <3>1. \A s \in telling : told[s] = 0 BY DEF Telling, NotifyLeftOnce
      <3>2. told' = [s \in Sessions |-> IF s \in telling THEN told[s] + 1 ELSE told[s]] BY LeavesLife
      <3> HIDE DEF telling
      <3> QED BY <2>t, <3>1, <3>2 DEF LifeType
    <2>6. late' \in [Sessions -> BOOLEAN] BY <2>t, LeavesLife DEF LifeType
    <2> QED BY <2>1, <2>2, <2>3, <2>4, <2>5, <2>6 DEF LifeType
  <1>2. ObjType'
    <2>t. ObjType BY TypeParts
    <2>1. objectId' \in [Sessions -> Objects \cup {NoOne}] BY <2>t, LeavesObjects DEF ObjType
    <2>2. objs' \subseteq Objects /\ dead' \subseteq objs' BY <2>t, LeavesObjects DEF ObjType
    <2> QED BY <2>t, LeavesObjects, <2>1, <2>2 DEF ObjType
  <1>3. RecallType'
    <2>t. RecallType BY TypeParts
    <2>1. \A s \in Sessions : EndRecall(s) \in [on : BOOLEAN, gen : Nat, pass : Nat] BY EndRecallType
    <2>2. recall' \in [Sessions -> [on : BOOLEAN, gen : Nat, pass : Nat]]
      BY <2>t, <2>1, LeavesRecall DEF RecallType
    <2> QED BY <2>t, <2>2, LeavesRecall DEF RecallType
  <1>4. HoldType'
    <2>1. open' \in [Sessions -> Boxes \cup {NoOne}] /\ holder' \in [Boxes -> Objects \cup {NoOne}]
      BY <1>p, LeavesHold, ClosedType
    <2>2. loot' \subseteq Objects BY LeavesHold, TypeParts, <1>l DEF HoldType
    <2> QED BY <2>1, <2>2 DEF HoldType
  <1>5. ItemType'
    <2>t. ItemType BY TypeParts
    <2>1. bag' \in [Sessions -> SUBSET Items] BY <2>t, LeavesItems DEF ItemType
    <2>2. box' \in [Boxes -> SUBSET Items]
      <3>1. \A b : UNION {bag[s] : s \in {t \in looted : objectId[t] = b}} \subseteq Items
        BY <1>p, <2>t DEF ItemType
      <3>2. box' = [b \in Boxes |-> IF \E s \in looted : objectId[s] = b
                                    THEN UNION {bag[s] : s \in {t \in looted : objectId[t] = b}}
                                    ELSE box[b]]
        BY LeavesItems
      <3> HIDE DEF looted
      <3> QED BY <2>t, <3>1, <3>2 DEF ItemType
    <2>3. left' \subseteq [s : Sessions, items : SUBSET Items]
      <3>1. \A s \in Sessions : LeftMessage(s, why[s]) \in [s : Sessions, items : SUBSET Items]
        BY <2>t DEF LeftMessage, ItemType
      <3>2. left' = left \cup {LeftMessage(s, why[s]) : s \in telling} BY LeavesItems
      <3> HIDE DEF telling
      <3> QED BY <2>t, <1>p, <3>1, <3>2 DEF ItemType
    <2> QED BY <2>t, LeavesItems, <2>1, <2>2, <2>3 DEF ItemType
  <1>6. NpcType'
    <2>1. 1 \in 1 .. MaxAggro BY CountAssumption
    <2>2. target' \in [Npcs -> Objects \cup {NoOne}] /\ aggro' \in [Npcs -> 1 .. MaxAggro]
      BY <2>1, LeavesNpcs, AggroType
    <2> QED BY LeavesNpcs, TypeParts, <2>2 DEF NpcType
  <1>7. RoomType'
    <2>t. RoomType BY TypeParts
    <2>1. {objectId[s] : s \in looted} \subseteq Objects BY <1>l
    <2>2. inbox' \in [Sessions -> SUBSET Objects]
      <3> DEFINE killed == {objectId[s] : s \in looted}
      <3>1. inbox' = Inbox(going, gone, killed) BY LeavesRoom
      <3>2. killed \subseteq Objects BY <2>1
      <3> HIDE DEF killed, going, gone
      <3> QED BY <2>t, <3>1, <3>2 DEF Inbox, RoomType
    <2> QED BY <2>t, LeavesRoom, <2>2 DEF RoomType
  <1> QED BY <1>1, <1>2, <1>3, <1>4, <1>5, <1>6, <1>7, TypePartsNext

LEMMA ServerType ==
  ASSUME TypeOK, ServerStep
  PROVE  TypeOK'
  <1> USE TypeParts, TypePartsNext, TypeSame
  <1>1. ASSUME NEW lost \in SUBSET CanBeLost, ProcessLeaves(lost) PROVE TypeOK' BY <1>1, LeavesType
  <1>2. CASE DestroyRoom
    <2>1. RoomType' BY <1>2 DEF DestroyRoom, RoomType
    <2> QED BY <1>2, <2>1 DEF DestroyRoom
  <1>3. ASSUME NEW t \in timers, StaleTick(t) PROVE TypeOK'
    <2>1. RecallType' BY <1>3 DEF StaleTick, RecallType
    <2> QED BY <1>3, <2>1 DEF StaleTick
  <1>4. ASSUME NEW t \in timers, RecallTick(t) PROVE TypeOK'
    <2>1. /\ t \in [s : Sessions, gen : Nat, due : Nat] /\ t.s \in Sessions
          /\ recall[t.s] \in [on : BOOLEAN, gen : Nat, pass : Nat]
      BY DEF RecallType
    <2>2. LifeType' /\ recall' \in [Sessions -> [on : BOOLEAN, gen : Nat, pass : Nat]]
          /\ timers' \subseteq [s : Sessions, gen : Nat, due : Nat]
      <3>1. CASE recall' = [recall EXCEPT ![t.s] = EndRecall(t.s)] /\ timers' = timers \ {t} /\ UNCHANGED lifeVars
        BY <2>1, <3>1, EndRecallType DEF RecallType
      <3>2. CASE /\ recall' = [recall EXCEPT ![t.s].pass = @ + 1] /\ UNCHANGED lifeVars
                 /\ timers' = (timers \ {t}) \cup {[t EXCEPT !.due = now + Interval]}
        <4>1. recall' \in [Sessions -> [on : BOOLEAN, gen : Nat, pass : Nat]] BY <2>1, <3>2 DEF RecallType
        <4>2. now + Interval \in Nat BY CountAssumption DEF RecallType
        <4>3. [t EXCEPT !.due = now + Interval] \in [s : Sessions, gen : Nat, due : Nat] BY <2>1, <4>2
        <4> QED BY <3>2, <4>1, <4>3 DEF RecallType
      <3>3. CASE /\ recall' = [recall EXCEPT ![t.s] = [EndRecall(t.s) EXCEPT !.pass = @ + 1]]
                 /\ timers' = timers \ {t}
                 /\ leave' = [leave EXCEPT ![t.s] = "PENDING"]
                 /\ reason' = [reason EXCEPT ![t.s] = "RECALLED"]
                 /\ notify' = [notify EXCEPT ![t.s] = "queued"]
                 /\ state' = [state EXCEPT ![t.s] = "LEFT"]
                 /\ UNCHANGED <<told, late>>
        <4>1. LifeType' BY <2>1, <3>3 DEF LifeType, Leaves, Reasons, States
        <4> QED BY <2>1, <3>3, <4>1, EndRecallType DEF RecallType
      <3> QED BY <1>4, <3>1, <3>2, <3>3 DEF RecallTick
    <2>3. RecallType' BY <1>4, <2>2 DEF RecallTick, RecallType
    <2> QED BY <1>4, <2>2, <2>3 DEF RecallTick
  <1>5. ASSUME NEW m \in left, ApplyInventoryToDb(m) PROVE TypeOK'
    <2>1. m.s \in Sessions /\ m.items \in SUBSET Items BY DEF ItemType
    <2>2. ItemType' BY <1>5, <2>1 DEF ApplyInventoryToDb, ItemType
    <2> QED BY <1>5, <2>2 DEF ApplyInventoryToDb
  <1> QED BY <1>1, <1>2, <1>3, <1>4, <1>5 DEF ServerStep

LEMMA TimeType ==
  ASSUME TypeOK, TimeStep
  PROVE  TypeOK'
  <1> USE TypeParts, TypePartsNext, TypeSame
  <1>1. CASE Tick
    <2>1. RecallType' BY <1>1 DEF Tick, RecallType
    <2> QED BY <1>1, <2>1 DEF Tick
  <1>2. CASE LifetimeEnds
    <2>1. RoomType' BY <1>2 DEF LifetimeEnds, RoomType
    <2> QED BY <1>2, <2>1 DEF LifetimeEnds
  <1>3. ASSUME NEW s \in Sessions, GraceEnds(s) PROVE TypeOK'
    <2>1. LifeType' BY <1>3 DEF GraceEnds, LifeType
    <2> QED BY <1>3, <2>1 DEF GraceEnds
  <1> QED BY <1>1, <1>2, <1>3 DEF TimeStep

LEMMA TypeStep == TypeOK /\ [Next]_vars => TypeOK'
  <1> SUFFICES ASSUME TypeOK, [Next]_vars PROVE TypeOK' OBVIOUS
  <1>1. CASE UNCHANGED vars BY <1>1, TypePartsNext, TypeSame DEF vars
  <1>2. CASE Next BY <1>2, SessionType, ServerType, TimeType DEF Next
  <1> QED BY <1>1, <1>2

\* Types of the sessions, objects, timers, containers, items and NPCs; among
\* them: a departure is reported to Main at most once (NotifyLeftOnce).
THEOREM RoomTypeOK == Spec => []TypeOK
  BY TypeInit, TypeStep, PTL DEF Spec
-----------------------------------------------------------------------------
(* Objects, containers and NPCs.                                           *)

\* A session's player object is its own and is in the room.
ObjectInv ==
    \A s \in Sessions : objectId[s] # NoOne =>
      objectId[s] \in objs /\ objectId[s][1] = s /\ spawned[s] # 0

\* Only who has a player object works on a container.
OpenInv == \A s \in Sessions : open[s] # NoOne => objectId[s] # NoOne

HoldInv == TypeOK /\ ObjectInv /\ OpenInv /\ ContainerHeldByOne

NpcInv == TypeOK /\ ObjectInv /\ NpcDrivenFromRoom

\* The steps that concern objects and containers.
LEMMA HoldSteps ==
  ASSUME [Next]_vars
  PROVE  \/ UNCHANGED <<spawned, objectId, objs, open, holder>>
         \/ \E s \in Sessions : RequestSpawnMe(s) \/ CloseContainer(s) \/ \E b \in Boxes : OpenContainer(s, b)
         \/ \E lost \in SUBSET CanBeLost : ProcessLeaves(lost)
  <1> DEFINE Same == UNCHANGED <<spawned, objectId, objs, open, holder>>
  <1> USE DEF objVars, holdVars
  <1>1. CASE UNCHANGED vars BY <1>1 DEF vars
  <1>2. ASSUME NEW s \in Sessions, SessionStep(s)
        PROVE  Same \/ RequestSpawnMe(s) \/ CloseContainer(s) \/ \E b \in Boxes : OpenContainer(s, b)
    BY <1>2 DEF SessionStep, Connect, ChannelOpen, NotifyLoadingComplete, UpdatePlayerState,
                InteractContainerObject, FireAtPlayer, KillPlayer, FireAtNpc, ReportNpcAttack, RequestNpc,
                RequestRecall, ClientAck
  <1>3. CASE ServerStep
    BY <1>3 DEF ServerStep, DestroyRoom, StaleTick, RecallTick, ApplyInventoryToDb
  <1>4. CASE TimeStep BY <1>4 DEF TimeStep, Tick, LifetimeEnds, GraceEnds
  <1> QED BY <1>1, <1>2, <1>3, <1>4 DEF Next

LEMMA ObjectStep ==
  ASSUME Spawns = 1, TypeOK, ObjectInv, [Next]_vars
  PROVE  ObjectInv'
  <1>t. ObjType BY TypeParts
  <1>n. NoOne \notin Objects BY NameAssumption DEF Objects
  <1>1. CASE UNCHANGED <<spawned, objectId, objs, open, holder>> BY <1>1 DEF ObjectInv
  <1>2. ASSUME NEW s \in Sessions, RequestSpawnMe(s) PROVE ObjectInv'
    <2>1. spawned[s] = 0 BY <1>2, <1>t DEF RequestSpawnMe, ObjType
    <2>2. /\ spawned' = [spawned EXCEPT ![s] = 1] /\ objectId' = [objectId EXCEPT ![s] = <<s, 1>>]
          /\ objs' = objs \cup {<<s, 1>>}
      BY <1>2, <2>1 DEF RequestSpawnMe
    <2> QED BY <1>t, <2>2 DEF ObjectInv, ObjType
  <1>3. ASSUME NEW s \in Sessions, CloseContainer(s) \/ \E b \in Boxes : OpenContainer(s, b) PROVE ObjectInv'
    BY <1>3 DEF CloseContainer, OpenContainer, objVars, ObjectInv
  <1>4. ASSUME NEW lost \in SUBSET CanBeLost, ProcessLeaves(lost) PROVE ObjectInv'
    <2>1. /\ objs' = objs \ {objectId[s] : s \in Going(lost)}
          /\ objectId' = [s \in Sessions |-> IF s \in Going(lost) THEN NoOne ELSE objectId[s]]
          /\ spawned' = spawned
      BY <1>4, LeavesObjects
    <2>2. Going(lost) \subseteq Sessions BY LeavesWho
    <2> SUFFICES ASSUME NEW s \in Sessions, objectId'[s] # NoOne
                 PROVE  objectId'[s] \in objs' /\ objectId'[s][1] = s /\ spawned'[s] # 0
      BY DEF ObjectInv
    <2>3. s \notin Going(lost) /\ objectId'[s] = objectId[s] BY <2>1
    <2>4. objectId[s] \in objs /\ objectId[s][1] = s /\ spawned[s] # 0 BY <2>3 DEF ObjectInv
    <2>5. ASSUME NEW t \in Going(lost) PROVE objectId[t] # objectId[s]
      BY <2>2, <2>3, <2>4 DEF ObjectInv
    <2> QED BY <2>1, <2>3, <2>4, <2>5
  <1> QED BY <1>1, <1>2, <1>3, <1>4, HoldSteps

LEMMA ContainerStep ==
  ASSUME Spawns = 1, HoldInv, [Next]_vars
  PROVE  HoldInv'
  <1> USE DEF HoldInv
  <1>t. ObjType /\ HoldType BY TypeParts
  <1>n. NoOne \notin Objects BY NameAssumption DEF Objects
  <1>o. TypeOK' /\ ObjectInv' BY TypeStep, ObjectStep
  <1>i. \A s, u \in Sessions : objectId[s] = objectId[u] /\ objectId[s] # NoOne => s = u BY DEF ObjectInv
  <1>1. CASE UNCHANGED <<spawned, objectId, objs, open, holder>>
    BY <1>1, <1>o DEF OpenInv, ContainerHeldByOne
  <1>2. ASSUME NEW s \in Sessions, RequestSpawnMe(s) PROVE HoldInv'
    <2>1. spawned[s] = 0 BY <1>2, <1>t DEF RequestSpawnMe, ObjType
    <2>2. objectId[s] = NoOne /\ open[s] = NoOne BY <2>1 DEF ObjectInv, OpenInv
    <2>3. objectId' = [objectId EXCEPT ![s] = <<s, 1>>] /\ UNCHANGED <<open, holder>>
      BY <1>2, <2>1 DEF RequestSpawnMe, holdVars
    <2>4. \A u \in Sessions \ {s} : objectId'[u] = objectId[u] BY <2>3, <1>t DEF ObjType
    <2>5. OpenInv' BY <2>2, <2>3, <2>4 DEF OpenInv
    <2>6. ContainerHeldByOne' BY <2>2, <2>3, <2>4 DEF ContainerHeldByOne
    <2> QED BY <1>o, <2>5, <2>6
  <1>3. ASSUME NEW s \in Sessions, NEW b \in Boxes, OpenContainer(s, b) PROVE HoldInv'
    <2>1. objectId[s] \in objs /\ objectId[s] # NoOne BY <1>3, <1>n, <1>t DEF OpenContainer, InRoom, ObjType
    <2>2. /\ objectId' = objectId
          /\ open' = [t \in Sessions |->
                  IF t = s THEN b
                  ELSE IF holder[b] # NoOne /\ objectId[t] = holder[b] THEN NoOne
                  ELSE open[t]]
          /\ holder' = [Released({s}) EXCEPT ![b] = objectId[s]]
      BY <1>3 DEF OpenContainer, objVars
    <2>3. \A c \in Boxes : holder'[c] = IF c = b THEN objectId[s]
                                        ELSE IF open[s] = c /\ holder[c] = objectId[s] THEN NoOne ELSE holder[c]
      BY <2>2 DEF Released
    <2>4. OpenInv' BY <2>1, <2>2 DEF OpenInv
    <2>5. ASSUME NEW t \in Sessions, open'[t] # NoOne PROVE holder'[open'[t]] = objectId[t]
      <3>1. CASE t = s BY <3>1, <2>2, <2>3
      <3>2. CASE t # s
        <4>1. open'[t] = open[t] /\ (holder[b] # NoOne => objectId[t] # holder[b]) BY <3>2, <2>2, <2>5
        <4>2. open[t] \in Boxes /\ holder[open[t]] = objectId[t] /\ objectId[t] # NoOne
          BY <4>1, <2>5, <1>t DEF ContainerHeldByOne, OpenInv, HoldType
        <4>3. open[t] # b BY <4>1, <4>2
        <4>4. objectId[t] # objectId[s] BY <3>2, <4>2, <1>i
        <4> QED BY <4>1, <4>2, <4>3, <4>4, <2>3
      <3> QED BY <3>1, <3>2
    <2>6. ASSUME NEW c \in Boxes, holder'[c] # NoOne
          PROVE  \E t \in Sessions : objectId[t] = holder'[c] /\ open'[t] = c
      <3>1. CASE c = b BY <3>1, <2>2, <2>3
      <3>2. CASE c # b
        <4>1. holder'[c] = holder[c] /\ holder[c] # NoOne /\ ~ (open[s] = c /\ holder[c] = objectId[s])
          BY <3>2, <2>3, <2>6
        <4>2. PICK t \in Sessions : objectId[t] = holder[c] /\ open[t] = c BY <4>1 DEF ContainerHeldByOne
        <4>3. t # s BY <4>1, <4>2
        <4>4. ~ (holder[b] # NoOne /\ objectId[t] = holder[b])
          <5> SUFFICES ASSUME holder[b] # NoOne, objectId[t] = holder[b] PROVE FALSE OBVIOUS
          <5>1. PICK u \in Sessions : objectId[u] = holder[b] /\ open[u] = b BY DEF ContainerHeldByOne
          <5>2. u = t BY <5>1, <1>i
          <5> QED BY <5>1, <5>2, <4>2, <3>2
        <4> QED BY <4>1, <4>2, <4>3, <4>4, <2>2
      <3> QED BY <3>1, <3>2
    <2>7. ContainerHeldByOne' BY <2>2, <2>5, <2>6, SMTT(30) DEF ContainerHeldByOne
    <2> QED BY <1>o, <2>4, <2>7
  <1>4. ASSUME NEW S \in SUBSET Sessions, open' = Closed(S), holder' = Released(S),
               \A s \in Sessions \ S : objectId'[s] = objectId[s]
        PROVE  HoldInv'
    <2>1. \A t \in Sessions : open'[t] = IF t \in S THEN NoOne ELSE open[t] BY <1>4 DEF Closed
    <2>2. \A c \in Boxes : holder'[c] = IF \E s \in S : open[s] = c /\ holder[c] = objectId[s]
                                        THEN NoOne ELSE holder[c]
      BY <1>4 DEF Released
    <2>3. OpenInv' BY <1>4, <2>1 DEF OpenInv
    <2>4. ASSUME NEW t \in Sessions, open'[t] # NoOne PROVE holder'[open'[t]] = objectId'[t]
      <3>1. t \notin S /\ open'[t] = open[t] /\ objectId'[t] = objectId[t] BY <1>4, <2>1, <2>4
      <3>2. open[t] \in Boxes /\ holder[open[t]] = objectId[t] /\ objectId[t] # NoOne
        BY <3>1, <2>4, <1>t DEF ContainerHeldByOne, OpenInv, HoldType
      <3>3. \A s \in S : objectId[s] # objectId[t] BY <3>1, <3>2, <1>i
      <3> QED BY <3>1, <3>2, <3>3, <2>2
    <2>5. ASSUME NEW c \in Boxes, holder'[c] # NoOne
          PROVE  \E t \in Sessions : objectId'[t] = holder'[c] /\ open'[t] = c
      <3>1. holder'[c] = holder[c] /\ ~ \E s \in S : open[s] = c /\ holder[c] = objectId[s] BY <2>2, <2>5
      <3>2. PICK t \in Sessions : objectId[t] = holder[c] /\ open[t] = c BY <3>1, <2>5 DEF ContainerHeldByOne
      <3>3. t \notin S BY <3>1, <3>2
      <3> QED BY <1>4, <2>1, <3>1, <3>2, <3>3
    <2>6. ContainerHeldByOne' BY <2>4, <2>5 DEF ContainerHeldByOne
    <2> QED BY <1>o, <2>3, <2>6
  <1>5. ASSUME NEW s \in Sessions, CloseContainer(s) PROVE HoldInv'
    <2>1. open' = Closed({s}) /\ holder' = Released({s}) /\ objectId' = objectId
      BY <1>5 DEF CloseContainer, objVars
    <2> QED BY <2>1, <1>4
  <1>6. ASSUME NEW lost \in SUBSET CanBeLost, ProcessLeaves(lost) PROVE HoldInv'
    <2>1. open' = Closed(Going(lost)) /\ holder' = Released(Going(lost)) BY <1>6, LeavesHold
    <2>2. \A s \in Sessions \ Going(lost) : objectId'[s] = objectId[s] BY <1>6, LeavesObjects
    <2>3. Going(lost) \subseteq Sessions BY LeavesWho
    <2> QED BY <2>1, <2>2, <2>3, <1>4
  <1> QED BY <1>1, <1>2, <1>3, <1>5, <1>6, HoldSteps

\* RequestOpenContainer, CloseContainer and the departures: a container is
\* worked on by the session that holds it, and held by a session that works
\* on it, for clients that spawn once.
THEOREM RoomContainers ==
  ASSUME Spawns = 1
  PROVE  Spec => []ContainerHeldByOne
  <1>1. Init => HoldInv
    <2> SUFFICES ASSUME Init PROVE HoldInv OBVIOUS
    <2>1. TypeOK BY TypeInit
    <2>2. ObjectInv /\ OpenInv /\ ContainerHeldByOne BY DEF Init, ObjectInv, OpenInv, ContainerHeldByOne
    <2> QED BY <2>1, <2>2 DEF HoldInv
  <1>2. HoldInv /\ [Next]_vars => HoldInv' BY ContainerStep
  <1>3. HoldInv => ContainerHeldByOne BY DEF HoldInv
  <1> QED BY <1>1, <1>2, <1>3, PTL DEF Spec

\* The steps that concern NPCs.
LEMMA NpcSteps ==
  ASSUME [Next]_vars
  PROVE  \/ UNCHANGED <<objectId, objs, npcs, target, aggro>>
         \/ \E s \in Sessions : \/ RequestSpawnMe(s)
                                \/ \E n \in Npcs : FireAtNpc(s, n)
                                \/ \E n \in Npcs, a \in 1 .. MaxAggro : RequestNpc(s, n, a)
         \/ \E lost \in SUBSET CanBeLost : ProcessLeaves(lost)
  <1> DEFINE Same == UNCHANGED <<objectId, objs, npcs, target, aggro>>
  <1> USE DEF objVars, npcVars
  <1>1. CASE UNCHANGED vars BY <1>1 DEF vars
  <1>2. ASSUME NEW s \in Sessions, SessionStep(s)
        PROVE  \/ Same \/ RequestSpawnMe(s)
               \/ \E n \in Npcs : FireAtNpc(s, n)
               \/ \E n \in Npcs, a \in 1 .. MaxAggro : RequestNpc(s, n, a)
    BY <1>2 DEF SessionStep, Connect, ChannelOpen, NotifyLoadingComplete, UpdatePlayerState,
                InteractContainerObject, FireAtPlayer, KillPlayer, ReportNpcAttack, OpenContainer,
                CloseContainer, RequestRecall, ClientAck
  <1>3. CASE ServerStep
    BY <1>3 DEF ServerStep, DestroyRoom, StaleTick, RecallTick, ApplyInventoryToDb
  <1>4. CASE TimeStep BY <1>4 DEF TimeStep, Tick, LifetimeEnds, GraceEnds
  <1> QED BY <1>1, <1>2, <1>3, <1>4 DEF Next

LEMMA DrivenStep ==
  ASSUME Spawns = 1, NpcInv, [Next]_vars
  PROVE  NpcInv'
  <1> USE DEF NpcInv
  <1>t. ObjType /\ NpcType BY TypeParts
  <1>n. NoOne \notin Objects BY NameAssumption DEF Objects
  <1>o. TypeOK' /\ ObjectInv' BY TypeStep, ObjectStep
  <1>r. \A s \in Sessions : objectId[s] # NoOne <=> InRoom(s)
    BY <1>t, <1>n DEF ObjectInv, InRoom, ObjType
  <1>1. CASE UNCHANGED <<objectId, objs, npcs, target, aggro>>
    BY <1>1, <1>o DEF NpcDrivenFromRoom, InRoom
  <1>2. ASSUME NEW s \in Sessions, RequestSpawnMe(s) PROVE NpcInv'
    <2>1. spawned[s] = 0 BY <1>2, <1>t DEF RequestSpawnMe, ObjType
    <2>2. objectId[s] = NoOne BY <2>1 DEF ObjectInv
    <2>3. /\ objectId' = [objectId EXCEPT ![s] = <<s, 1>>] /\ objs' = objs \cup {<<s, 1>>}
          /\ UNCHANGED <<npcs, target, aggro>>
      BY <1>2, <2>1 DEF RequestSpawnMe, npcVars
    <2>4. \A u \in Sessions \ {s} : objectId'[u] = objectId[u] BY <2>3, <1>t DEF ObjType
    <2> QED BY <1>o, <1>r, <2>2, <2>3, <2>4 DEF NpcDrivenFromRoom, InRoom
  <1>3. ASSUME NEW s \in Sessions, NEW n \in npcs, NEW a \in 1 .. MaxAggro, SetAggro({n}, a, objectId[s]),
               objectId[s] # NoOne, UNCHANGED <<objectId, objs, npcs>>
        PROVE  NpcInv'
    <2>1. n \in Npcs /\ npcs \subseteq Npcs BY <1>t DEF NpcType
    <2>2. /\ \A k \in Npcs \ {n} : target'[k] = target[k] /\ aggro'[k] = aggro[k]
          /\ target'[n] = (IF a = 1 THEN NoOne ELSE objectId[s]) /\ aggro'[n] = a
      BY <1>3, <2>1 DEF SetAggro
    <2>3. NpcDrivenFromRoom'
      <3> SUFFICES ASSUME NEW k \in npcs
                   PROVE  /\ target'[k] = NoOne <=> aggro'[k] = 1
                          /\ target'[k] # NoOne => \E u \in Sessions : InRoom(u) /\ objectId[u] = target'[k]
        BY <1>3 DEF NpcDrivenFromRoom, InRoom
      <3>1. CASE k = n BY <3>1, <1>3, <1>r, <2>2
      <3>2. CASE k # n BY <3>2, <2>1, <2>2 DEF NpcDrivenFromRoom
      <3> QED BY <3>1, <3>2
    <2> QED BY <1>o, <2>3
  <1>4. ASSUME NEW s \in Sessions, NEW n \in Npcs, FireAtNpc(s, n) PROVE NpcInv'
    <2>1. n \in npcs /\ InRoom(s) /\ UNCHANGED <<objectId, objs>> BY <1>4 DEF FireAtNpc, objVars
    <2>2. CASE npcs' = npcs \ {n} /\ UNCHANGED <<target, aggro>>
      BY <1>o, <2>1, <2>2 DEF NpcDrivenFromRoom, InRoom
    <2>3. CASE SetAggro({n}, MaxAggro, objectId[s]) /\ UNCHANGED npcs
      <3>1. MaxAggro \in 1 .. MaxAggro BY CountAssumption
      <3> QED BY <1>3, <1>r, <2>1, <2>3, <3>1
    <2> QED BY <1>4, <2>2, <2>3 DEF FireAtNpc
  <1>5. ASSUME NEW s \in Sessions, NEW n \in Npcs, NEW a \in 1 .. MaxAggro, RequestNpc(s, n, a) PROVE NpcInv'
    BY <1>3, <1>5 DEF RequestNpc, objVars
  <1>6. ASSUME NEW lost \in SUBSET CanBeLost, ProcessLeaves(lost) PROVE NpcInv'
    <2> DEFINE going == Going(lost)
               N == {n \in npcs : \E s \in going : objectId[s] = target[n] /\ target[n] # NoOne}
    <2>1. SetAggro(N, 1, NoOne) /\ npcs' = npcs BY <1>6, LeavesNpcs
    <2>2. npcs \subseteq Npcs BY <1>t DEF NpcType
    <2>3. \A n \in Npcs : /\ target'[n] = IF n \in N THEN NoOne ELSE target[n]
                          /\ aggro'[n] = IF n \in N THEN 1 ELSE aggro[n]
      <3> HIDE DEF N
      <3> QED BY <2>1 DEF SetAggro
    <2>4. objectId' = [s \in Sessions |-> IF s \in going THEN NoOne ELSE objectId[s]] BY <1>6, LeavesObjects
    <2>5. NpcDrivenFromRoom'
      <3> SUFFICES ASSUME NEW n \in npcs
                   PROVE  /\ target'[n] = NoOne <=> aggro'[n] = 1
                          /\ target'[n] # NoOne => \E u \in Sessions : InRoom(u)' /\ objectId'[u] = target'[n]
        BY <2>1 DEF NpcDrivenFromRoom
      <3>1. target'[n] = NoOne <=> aggro'[n] = 1
        <4>1. target[n] = NoOne <=> aggro[n] = 1 BY DEF NpcDrivenFromRoom
        <4> HIDE DEF N
        <4> QED BY <2>2, <2>3, <4>1
      <3>2. ASSUME target'[n] # NoOne PROVE \E u \in Sessions : InRoom(u)' /\ objectId'[u] = target'[n]
        <4>1. n \notin N /\ target'[n] = target[n] BY <2>2, <2>3, <3>2
        <4>2. PICK u \in Sessions : InRoom(u) /\ objectId[u] = target[n] BY <3>2, <4>1 DEF NpcDrivenFromRoom
        <4>3. u \notin going BY <3>2, <4>1, <4>2
        <4>4. objectId'[u] = target'[n] /\ objectId'[u] # NoOne BY <2>4, <3>2, <4>1, <4>2, <4>3
        <4>5. InRoom(u)' BY <1>o, <4>4 DEF ObjectInv, InRoom
        <4> QED BY <4>4, <4>5
      <3> QED BY <3>1, <3>2
    <2> QED BY <1>o, <2>5
  <1> QED BY <1>1, <1>2, <1>4, <1>5, <1>6, NpcSteps

\* SetAggroInternal and ReleaseNpcAuthority: an NPC is driven by a player who
\* is in the room, for clients that spawn once.
THEOREM RoomNpcs ==
  ASSUME Spawns = 1
  PROVE  Spec => []NpcDrivenFromRoom
  <1>1. Init => NpcInv
    <2> SUFFICES ASSUME Init PROVE NpcInv OBVIOUS
    <2>1. TypeOK BY TypeInit
    <2>2. ObjectInv /\ NpcDrivenFromRoom BY DEF Init, ObjectInv, NpcDrivenFromRoom
    <2> QED BY <2>1, <2>2 DEF NpcInv
  <1>2. NpcInv /\ [Next]_vars => NpcInv' BY DrivenStep
  <1>3. NpcInv => NpcDrivenFromRoom BY DEF NpcInv
  <1> QED BY <1>1, <1>2, <1>3, PTL DEF Spec
-----------------------------------------------------------------------------
(* Recall.                                                                 *)

\* A recall has at most one tick of its generation, and the tick is not due
\* before the passes that are still missing have had their interval.
TimerInv ==
    /\ \A t \in timers : t.gen <= recall[t.s].gen
    /\ \A t, u \in timers : t.s = u.s /\ t.gen = u.gen => t = u
    /\ \A t \in timers : recall[t.s].on /\ t.gen = recall[t.s].gen =>
         t.due >= began[t.s] + (recall[t.s].pass + 1) * Interval

\* A reason to leave is fixed when the leave begins.
ReasonInv == \A s \in Sessions : reason[s] # "NONE" => leave[s] # "NONE"

RecallInv == TypeOK /\ TimerInv /\ ReasonInv /\ FullRecall

\* The steps that concern recalls and reasons to leave.
LEMMA RecallSteps ==
  ASSUME [Next]_vars
  PROVE  \/ UNCHANGED <<recallVars, reason, leave>>
         \/ Tick
         \/ \E s \in Sessions : RequestRecall(s)
         \/ \E t \in timers : StaleTick(t) \/ RecallTick(t)
         \/ \E lost \in SUBSET CanBeLost : ProcessLeaves(lost)
  <1> DEFINE Same == UNCHANGED <<recallVars, reason, leave>>
  <1> USE DEF lifeVars
  <1>1. CASE UNCHANGED vars BY <1>1 DEF vars
  <1>2. ASSUME NEW s \in Sessions, SessionStep(s) PROVE Same \/ RequestRecall(s)
    BY <1>2 DEF SessionStep, Connect, ChannelOpen, NotifyLoadingComplete, UpdatePlayerState, RequestSpawnMe,
                InteractContainerObject, FireAtPlayer, KillPlayer, FireAtNpc, ReportNpcAttack, RequestNpc,
                OpenContainer, CloseContainer, ClientAck
  <1>3. CASE ServerStep BY <1>3 DEF ServerStep, DestroyRoom, ApplyInventoryToDb
  <1>4. CASE TimeStep BY <1>4 DEF TimeStep, LifetimeEnds, GraceEnds
  <1> QED BY <1>1, <1>2, <1>3, <1>4 DEF Next

\* What RecallTick does to its session.
LEMMA TickParts ==
  ASSUME TypeOK, NEW t \in timers, RecallTick(t)
  PROVE  LET s == t.s IN
         /\ s \in Sessions /\ t.due <= now /\ recall[s].on /\ recall[s].gen = t.gen
         /\ UNCHANGED <<began, now>>
         /\ \A u \in Sessions \ {s} : recall'[u] = recall[u]
         /\ \/ /\ timers' = timers \ {t} /\ recall'[s].on = FALSE /\ recall'[s].gen = recall[s].gen + 1
               /\ UNCHANGED <<reason, leave>>
            \/ /\ timers' = (timers \ {t}) \cup {[t EXCEPT !.due = now + Interval]}
               /\ recall'[s].gen = recall[s].gen /\ recall'[s].pass = recall[s].pass + 1
               /\ UNCHANGED <<reason, leave>>
            \/ /\ timers' = timers \ {t} /\ recall'[s].on = FALSE /\ recall'[s].gen = recall[s].gen + 1
               /\ recall[s].pass + 1 >= RequiredPasses
               /\ leave' = [leave EXCEPT ![s] = "PENDING"] /\ reason' = [reason EXCEPT ![s] = "RECALLED"]
  <1> DEFINE s == t.s
  <1>1. RecallType BY TypeParts
  <1>2. s \in Sessions /\ recall \in [Sessions -> [on : BOOLEAN, gen : Nat, pass : Nat]] BY <1>1 DEF RecallType
  <1>3. t.due <= now /\ recall[s].on /\ recall[s].gen = t.gen /\ UNCHANGED <<began, now>>
    BY DEF RecallTick
  <1>4. CASE /\ recall' = [recall EXCEPT ![s] = EndRecall(s)] /\ timers' = timers \ {t} /\ UNCHANGED lifeVars
    <2>1. recall'[s] = EndRecall(s) /\ \A u \in Sessions \ {s} : recall'[u] = recall[u] BY <1>2, <1>4
    <2>2. recall'[s].on = FALSE /\ recall'[s].gen = recall[s].gen + 1 BY <1>2, <2>1, EndRecallType
    <2> QED BY <1>2, <1>3, <1>4, <2>1, <2>2 DEF lifeVars
  <1>5. CASE /\ recall' = [recall EXCEPT ![s].pass = @ + 1] /\ UNCHANGED lifeVars
             /\ timers' = (timers \ {t}) \cup {[t EXCEPT !.due = now + Interval]}
    <2>1. recall'[s] = [recall[s] EXCEPT !.pass = @ + 1] /\ \A u \in Sessions \ {s} : recall'[u] = recall[u]
      BY <1>2, <1>5
    <2>2. recall'[s].gen = recall[s].gen /\ recall'[s].pass = recall[s].pass + 1
      <3>1. recall[s] \in [on : BOOLEAN, gen : Nat, pass : Nat] BY <1>2
      <3> QED BY <2>1, <3>1
    <2> QED BY <1>2, <1>3, <1>5, <2>1, <2>2 DEF lifeVars
  <1>6. CASE /\ recall' = [recall EXCEPT ![s] = [EndRecall(s) EXCEPT !.pass = @ + 1]]
             /\ recall[s].pass + 1 >= RequiredPasses
             /\ timers' = timers \ {t}
             /\ leave' = [leave EXCEPT ![s] = "PENDING"] /\ reason' = [reason EXCEPT ![s] = "RECALLED"]
    <2>1. /\ recall'[s] = [EndRecall(s) EXCEPT !.pass = @ + 1]
          /\ \A u \in Sessions \ {s} : recall'[u] = recall[u]
      BY <1>2, <1>6
    <2>2. recall'[s].on = FALSE /\ recall'[s].gen = recall[s].gen + 1 BY <1>2, <2>1, EndRecallType
    <2> QED BY <1>2, <1>3, <1>6, <2>1, <2>2
  <1> QED BY <1>4, <1>5, <1>6 DEF RecallTick

LEMMA RecallTickStep ==
  ASSUME RecallInv, NEW t \in timers, RecallTick(t), TypeOK'
  PROVE  RecallInv'
  <1> DEFINE s == t.s
  <1>t. RecallType /\ LifeType /\ RecallType' BY TypeParts, TypePartsNext DEF RecallInv
  <1>n. /\ s \in Sessions /\ t.due \in Nat /\ t.gen \in Nat /\ now \in Nat /\ began[s] \in Nat
        /\ recall[s].pass \in Nat /\ recall[s].gen \in Nat
        /\ Interval \in Nat \ {0} /\ RequiredPasses \in Nat \ {0}
    <2>1. t \in [s : Sessions, gen : Nat, due : Nat] BY <1>t DEF RecallType
    <2>2. recall[s] \in [on : BOOLEAN, gen : Nat, pass : Nat] BY <2>1, <1>t DEF RecallType
    <2> QED BY <1>t, <2>1, <2>2, CountAssumption DEF RecallType
  <1>p. TypeOK /\ TimerInv /\ ReasonInv /\ FullRecall BY DEF RecallInv
  <1>k. /\ t.due <= now /\ recall[s].on /\ recall[s].gen = t.gen /\ UNCHANGED <<began, now>>
        /\ \A u \in Sessions \ {s} : recall'[u] = recall[u]
    BY <1>p, TickParts
  <1>d. now >= began[s] + (recall[s].pass + 1) * Interval
    <2>1. t.due >= began[s] + (recall[s].pass + 1) * Interval BY <1>p, <1>k DEF TimerInv
    <2>2. (recall[s].pass + 1) * Interval \in Nat BY <1>n
    <2> HIDE DEF s
    <2> QED BY <2>1, <2>2, <1>k, <1>n
  <1>u. \A u \in timers : /\ u.s \in Sessions /\ u.gen \in Nat
                          /\ recall[u.s].gen \in Nat
                          /\ u # t /\ u.s = s => u.gen # t.gen
    BY <1>t, <1>p DEF RecallType, TimerInv
  <1>1. CASE /\ timers' = timers \ {t} /\ recall'[s].on = FALSE /\ recall'[s].gen = recall[s].gen + 1
    <2>1. TimerInv'
      <3>1. \A u \in timers : u.gen <= recall'[u.s].gen
        <4> SUFFICES ASSUME NEW u \in timers PROVE u.gen <= recall'[u.s].gen OBVIOUS
        <4>1. u.gen <= recall[u.s].gen BY <1>p DEF TimerInv
        <4>2. CASE u.s = s BY <4>1, <4>2, <1>1, <1>n, <1>u
        <4>3. CASE u.s # s BY <4>1, <4>3, <1>k, <1>u
        <4> QED BY <4>2, <4>3
      <3>2. \A u \in timers' : recall'[u.s].on /\ u.gen = recall'[u.s].gen =>
              u.due >= began[u.s] + (recall'[u.s].pass + 1) * Interval
        <4> SUFFICES ASSUME NEW u \in timers', recall'[u.s].on, u.gen = recall'[u.s].gen
                     PROVE  u.due >= began[u.s] + (recall'[u.s].pass + 1) * Interval
          OBVIOUS
        <4>1. u \in timers /\ u.s \in Sessions /\ u.s # s BY <1>1, <1>u
        <4>2. recall'[u.s] = recall[u.s] BY <4>1, <1>k
        <4> QED BY <4>1, <4>2, <1>p DEF TimerInv
      <3> QED BY <3>1, <3>2, <1>1, <1>k, <1>p DEF TimerInv
    <2>2. CASE UNCHANGED <<reason, leave>> BY <2>1, <2>2, <1>k, <1>p DEF RecallInv, ReasonInv, FullRecall
    <2>3. CASE /\ recall[s].pass + 1 >= RequiredPasses
               /\ leave' = [leave EXCEPT ![s] = "PENDING"] /\ reason' = [reason EXCEPT ![s] = "RECALLED"]
      <3>1. \A u \in Sessions : /\ reason'[u] = IF u = s THEN "RECALLED" ELSE reason[u]
                                /\ leave'[u] = IF u = s THEN "PENDING" ELSE leave[u]
        BY <2>3, <1>t DEF LifeType
      <3>2. now >= began[s] + RequiredPasses * Interval
        <4> DEFINE k == recall[s].pass + 1
        <4>1. k \in Nat /\ k >= RequiredPasses BY <2>3, <1>n
        <4>2. now >= began[s] + k * Interval BY <1>d
        <4> HIDE DEF k, s
        <4>3. RequiredPasses * Interval <= k * Interval /\ RequiredPasses * Interval \in Nat /\ k * Interval \in Nat
          BY <4>1, <1>n
        <4> QED BY <4>2, <4>3, <1>n
      <3>3. ReasonInv' BY <3>1, <1>p DEF ReasonInv
      <3>4. FullRecall' BY <3>1, <3>2, <1>k, <1>p DEF FullRecall
      <3> QED BY <2>1, <3>3, <3>4 DEF RecallInv
    <2> QED BY <1>1, <1>p, <2>2, <2>3, TickParts, CountAssumption
  <1>2. CASE /\ timers' = (timers \ {t}) \cup {[t EXCEPT !.due = now + Interval]}
             /\ recall'[s].gen = recall[s].gen /\ recall'[s].pass = recall[s].pass + 1
             /\ UNCHANGED <<reason, leave>>
    <2> DEFINE w == [t EXCEPT !.due = now + Interval]
    <2>1. w.s = s /\ w.gen = t.gen /\ w.due = now + Interval BY <1>t DEF RecallType
    <2>2. timers' = (timers \ {t}) \cup {w} BY <1>2
    <2> HIDE DEF w
    <2>3. \A u \in timers' : u.gen <= recall'[u.s].gen
      <3> SUFFICES ASSUME NEW u \in timers' PROVE u.gen <= recall'[u.s].gen OBVIOUS
      <3>1. CASE u = w BY <3>1, <2>1, <1>2, <1>k, <1>n
      <3>2. CASE u # w
        <4>1. u \in timers /\ u.gen <= recall[u.s].gen BY <3>2, <2>2, <1>p DEF TimerInv
        <4> QED BY <4>1, <1>2, <1>k, <1>u
      <3> QED BY <3>1, <3>2
    <2>4. \A u, v \in timers' : u.s = v.s /\ u.gen = v.gen => u = v
      BY <2>1, <2>2, <1>u, <1>p DEF TimerInv
    <2>5. \A u \in timers' : recall'[u.s].on /\ u.gen = recall'[u.s].gen =>
            u.due >= began[u.s] + (recall'[u.s].pass + 1) * Interval
      <3> SUFFICES ASSUME NEW u \in timers', recall'[u.s].on, u.gen = recall'[u.s].gen
                   PROVE  u.due >= began[u.s] + (recall'[u.s].pass + 1) * Interval
        OBVIOUS
      <3>1. CASE u = w
        <4> DEFINE k == recall[s].pass + 1
        <4>1. k \in Nat /\ recall'[s].pass = k /\ now >= began[s] + k * Interval BY <1>2, <1>n, <1>d
        <4>2. u.due = now + Interval /\ u.s = s BY <3>1, <2>1
        <4> HIDE DEF k, s
        <4>3. (k + 1) * Interval = k * Interval + Interval /\ k * Interval \in Nat BY <4>1, <1>n
        <4> QED BY <4>1, <4>2, <4>3, <1>n
      <3>2. CASE u # w
        <4>1. u \in timers /\ u # t BY <3>2, <2>2
        <4>2. u.s # s BY <4>1, <1>2, <1>k, <1>u
        <4>3. recall'[u.s] = recall[u.s] BY <4>1, <4>2, <1>k, <1>u
        <4> QED BY <4>1, <4>3, <1>k, <1>p DEF TimerInv
      <3> QED BY <3>1, <3>2
    <2>6. TimerInv' BY <2>3, <2>4, <2>5, <1>k DEF TimerInv
    <2> QED BY <2>6, <1>2, <1>k, <1>p DEF RecallInv, ReasonInv, FullRecall
  <1> QED BY <1>1, <1>2, <1>p, TickParts

LEMMA RecallStep ==
  ASSUME RecallInv, [Next]_vars
  PROVE  RecallInv'
  <1>p. TypeOK /\ TimerInv /\ ReasonInv /\ FullRecall BY DEF RecallInv
  <1>o. TypeOK' BY <1>p, TypeStep
  <1>t. RecallType /\ LifeType BY <1>p, TypeParts
  <1>u. \A u \in timers : u.s \in Sessions /\ u.gen \in Nat /\ recall[u.s].gen \in Nat BY <1>t DEF RecallType
  <1>m. RequiredPasses * Interval \in Nat BY CountAssumption
  <1>1. CASE UNCHANGED <<recallVars, reason, leave>>
    BY <1>1, <1>o, <1>p DEF recallVars, RecallInv, TimerInv, ReasonInv, FullRecall
  <1>2. CASE Tick
    <2>1. UNCHANGED <<recall, began, timers, reason, leave>> /\ now' = now + 1 BY <1>2 DEF Tick, lifeVars
    <2>2. TimerInv' /\ ReasonInv' BY <2>1, <1>p DEF TimerInv, ReasonInv
    <2>3. FullRecall'
      <3>1. \A s \in Sessions : began[s] \in Nat /\ now \in Nat BY <1>t DEF RecallType
      <3> QED BY <2>1, <3>1, <1>m, <1>p DEF FullRecall
    <2> QED BY <1>o, <2>2, <2>3 DEF RecallInv
  <1>3. ASSUME NEW s \in Sessions, RequestRecall(s) PROVE RecallInv'
    <2> DEFINE w == [s |-> s, gen |-> recall'[s].gen, due |-> now + Interval]
    <2>0. recall \in [Sessions -> [on : BOOLEAN, gen : Nat, pass : Nat]] /\ began \in [Sessions -> Nat]
      BY <1>t DEF RecallType
    <2>1. /\ leave[s] = "NONE"
          /\ recall' = [recall EXCEPT ![s] = [on |-> TRUE, gen |-> recall[s].gen + 1, pass |-> 0]]
          /\ began' = [began EXCEPT ![s] = now]
          /\ timers' = timers \cup {w}
          /\ UNCHANGED <<now, reason, leave>>
      BY <1>3 DEF RequestRecall, lifeVars, IsLeaving
    <2>2. /\ recall'[s].gen = recall[s].gen + 1 /\ recall'[s].pass = 0 /\ began'[s] = now
          /\ \A u \in Sessions \ {s} : recall'[u] = recall[u] /\ began'[u] = began[u]
      BY <2>0, <2>1
    <2>3. w.s = s /\ w.gen = recall[s].gen + 1 /\ w.due = now + Interval BY <2>2
    <2> HIDE DEF w
    <2>4. recall[s].gen \in Nat /\ now \in Nat /\ Interval \in Nat BY <2>0, <1>t, CountAssumption DEF RecallType
    <2>5. \A u \in timers : u.s = s => u.gen < w.gen BY <1>p, <1>u, <2>3, <2>4 DEF TimerInv
    <2>6. \A u \in timers' : u.gen <= recall'[u.s].gen
      <3> SUFFICES ASSUME NEW u \in timers' PROVE u.gen <= recall'[u.s].gen OBVIOUS
      <3>1. CASE u = w BY <3>1, <2>2, <2>3, <2>4
      <3>2. CASE u \in timers /\ u.s = s BY <3>2, <2>2, <2>3, <2>4, <2>5, <1>u
      <3>3. CASE u \in timers /\ u.s # s BY <3>3, <2>2, <1>u, <1>p DEF TimerInv
      <3> QED BY <3>1, <3>2, <3>3, <2>1
    <2>7. \A u, v \in timers' : u.s = v.s /\ u.gen = v.gen => u = v
      <3>1. \A u \in timers : u.s = s => u.gen # w.gen BY <2>5, <2>3, <2>4, <1>u
      <3> QED BY <2>1, <2>3, <3>1, <1>p DEF TimerInv
    <2>8. \A u \in timers' : recall'[u.s].on /\ u.gen = recall'[u.s].gen =>
            u.due >= began'[u.s] + (recall'[u.s].pass + 1) * Interval
      <3> SUFFICES ASSUME NEW u \in timers', recall'[u.s].on, u.gen = recall'[u.s].gen
                   PROVE  u.due >= began'[u.s] + (recall'[u.s].pass + 1) * Interval
        OBVIOUS
      <3>1. CASE u = w
        <4>1. (0 + 1) * Interval = Interval BY <2>4
        <4> QED BY <3>1, <4>1, <2>2, <2>3, <2>4
      <3>2. CASE u \in timers /\ u.s = s
        <4>1. u.gen < w.gen /\ u.gen = w.gen BY <3>2, <2>2, <2>3, <2>5
        <4> QED BY <3>2, <4>1, <2>3, <2>4, <1>u
      <3>3. CASE u \in timers /\ u.s # s
        <4>1. recall'[u.s] = recall[u.s] /\ began'[u.s] = began[u.s] BY <3>3, <2>2, <1>u
        <4> QED BY <3>3, <4>1, <1>p DEF TimerInv
      <3> QED BY <3>1, <3>2, <3>3, <2>1
    <2>9. TimerInv' BY <2>6, <2>7, <2>8 DEF TimerInv
    <2>10. ReasonInv' BY <2>1, <1>p DEF ReasonInv
    <2>11. FullRecall' BY <2>1, <2>2, <1>p DEF FullRecall, ReasonInv
    <2> QED BY <1>o, <2>9, <2>10, <2>11 DEF RecallInv
  <1>4. ASSUME NEW t \in timers, StaleTick(t) PROVE RecallInv'
    <2>1. timers' \subseteq timers /\ UNCHANGED <<recall, began, now, reason, leave>>
      BY <1>4 DEF StaleTick, lifeVars
    <2>2. TimerInv' BY <2>1, <1>p DEF TimerInv
    <2>3. ReasonInv' /\ FullRecall' BY <2>1, <1>p DEF ReasonInv, FullRecall
    <2> QED BY <1>o, <2>2, <2>3 DEF RecallInv
  <1>5. ASSUME NEW t \in timers, RecallTick(t) PROVE RecallInv' BY <1>5, <1>o, RecallTickStep
  <1>6. ASSUME NEW lost \in SUBSET CanBeLost, ProcessLeaves(lost) PROVE RecallInv'
    <2>1. /\ recall' = [s \in Sessions |-> IF s \in Going(lost) THEN EndRecall(s) ELSE recall[s]]
          /\ UNCHANGED <<began, timers, now>>
      BY <1>6, LeavesRecall
    <2>2. \A s \in Sessions : \/ recall'[s] = recall[s]
                              \/ recall'[s].on = FALSE /\ recall'[s].gen = recall[s].gen + 1
      BY <2>1, <1>p, EndRecallType
    <2>3. TimerInv'
      <3>1. \A u \in timers : u.gen <= recall'[u.s].gen BY <1>u, <2>2, <1>p DEF TimerInv
      <3>2. \A u \in timers : recall'[u.s].on /\ u.gen = recall'[u.s].gen =>
              u.due >= began[u.s] + (recall'[u.s].pass + 1) * Interval
        BY <1>u, <2>2, <1>p DEF TimerInv
      <3> QED BY <3>1, <3>2, <2>1, <1>p DEF TimerInv
    <2>4. /\ reason' = Why(lost)
          /\ leave' = [s \in Sessions |-> IF s \in Gone(lost) THEN "FINALIZED"
                                          ELSE IF s \in Going(lost) THEN "DETACHED" ELSE leave[s]]
      BY <1>6, LeavesLife
    <2>5. \A s \in Sessions : \/ s \in Going(lost) /\ reason'[s] \in {"DEAD", "DISCONNECTED"}
                              \/ reason'[s] = reason[s]
      BY <2>4 DEF Why, Going
    <2>6. ReasonInv' BY <2>4, <2>5, <1>p DEF ReasonInv
    <2>7. FullRecall' BY <2>1, <2>5, <1>p DEF FullRecall
    <2> QED BY <1>o, <2>3, <2>6, <2>7 DEF RecallInv
  <1> QED BY <1>1, <1>2, <1>3, <1>4, <1>5, <1>6, RecallSteps

\* BeginRecall, CancelRecall and RecallTick: a recall takes its full time,
\* however often it is requested, cancelled and begun again.
THEOREM RoomFullRecall == Spec => []FullRecall
  <1>1. Init => RecallInv
    <2> SUFFICES ASSUME Init PROVE RecallInv OBVIOUS
    <2>1. TypeOK BY TypeInit
    <2>2. TimerInv /\ ReasonInv /\ FullRecall BY DEF Init, TimerInv, ReasonInv, FullRecall
    <2> QED BY <2>1, <2>2 DEF RecallInv
  <1>2. RecallInv /\ [Next]_vars => RecallInv' BY RecallStep
  <1>3. RecallInv => FullRecall BY DEF RecallInv
  <1> QED BY <1>1, <1>2, <1>3, PTL DEF Spec
-----------------------------------------------------------------------------
(* Items.                                                                  *)

\* Where an item can be used from.
InBag(i, s)  == told[s] = 0 /\ i \in bag[s]
InBox(i, b)  == b \in Chests \cup loot /\ i \in box[b]
OnWay(i, m)  == m \in left /\ i \in m.items
InRows(i, s) == s \in joined \cup settled /\ i \in rows[s]

\* One of these places at most.
OnceInv ==
    \A i \in Items :
      /\ \A s, t \in Sessions : InBag(i, s) /\ InBag(i, t) => s = t
      /\ \A b, c \in Boxes : InBox(i, b) /\ InBox(i, c) => b = c
      /\ \A m, n \in left : OnWay(i, m) /\ OnWay(i, n) => m = n
      /\ \A s, t \in Sessions : InRows(i, s) /\ InRows(i, t) => s = t
      /\ \A s \in Sessions, b \in Boxes : ~ (InBag(i, s) /\ InBox(i, b))
      /\ \A s \in Sessions, m \in left : ~ (InBag(i, s) /\ OnWay(i, m))
      /\ \A s, t \in Sessions : ~ (InBag(i, s) /\ InRows(i, t))
      /\ \A b \in Boxes, m \in left : ~ (InBox(i, b) /\ OnWay(i, m))
      /\ \A b \in Boxes, s \in Sessions : ~ (InBox(i, b) /\ InRows(i, s))
      /\ \A m \in left, s \in Sessions : ~ (OnWay(i, m) /\ InRows(i, s))

\* Main has been told of exactly the sessions that were detached; nobody plays
\* while he leaves.
LeaveInv ==
    \A s \in Sessions :
      /\ told[s] = 0 <=> leave[s] \in {"NONE", "PENDING"}
      /\ state[s] \in {"INIT", "CONNECTED", "INPLAY"} => leave[s] = "NONE"

\* The report of a departure is sent once, and nothing is in MySQL between
\* /match/connect and its arrival.
ReportInv ==
    /\ \A m \in left : told[m.s] = 1 /\ m.s \notin settled
    /\ \A m, n \in left : m.s = n.s => m = n
    /\ \A s \in settled : told[s] = 1
    /\ \A s \in joined \ settled : rows[s] = {}

ItemInv == TypeOK /\ ObjectInv /\ LeaveInv /\ ReportInv /\ OnceInv

\* The steps that concern items and who may use them.
LEMMA ItemSteps ==
  ASSUME [Next]_vars
  PROVE  \/ UNCHANGED <<state, leave, told, loot, itemVars>>
         \/ \E s \in Sessions : \/ Connect(s) \/ ChannelOpen(s) \/ NotifyLoadingComplete(s)
                                \/ \E give, take \in SUBSET Items : InteractContainerObject(s, give, take)
         \/ \E t \in timers : RecallTick(t)
         \/ \E m \in left : ApplyInventoryToDb(m)
         \/ \E lost \in SUBSET CanBeLost : ProcessLeaves(lost)
  <1> DEFINE Same == UNCHANGED <<state, leave, told, loot, itemVars>>
  <1> USE DEF lifeVars, holdVars
  <1>1. CASE UNCHANGED vars BY <1>1 DEF vars
  <1>2. ASSUME NEW s \in Sessions, SessionStep(s)
        PROVE  \/ Same \/ Connect(s) \/ ChannelOpen(s) \/ NotifyLoadingComplete(s)
               \/ \E give, take \in SUBSET Items : InteractContainerObject(s, give, take)
    BY <1>2 DEF SessionStep, UpdatePlayerState, RequestSpawnMe, FireAtPlayer, KillPlayer, FireAtNpc,
                ReportNpcAttack, RequestNpc, OpenContainer, CloseContainer, ClientAck, RequestRecall
  <1>3. CASE ServerStep BY <1>3 DEF ServerStep, DestroyRoom, StaleTick
  <1>4. CASE TimeStep BY <1>4 DEF TimeStep, Tick, LifetimeEnds, GraceEnds
  <1> QED BY <1>1, <1>2, <1>3, <1>4 DEF Next

LEMMA ConnectStep ==
  ASSUME ItemInv, NEW s \in Sessions, Connect(s)
  PROVE  LeaveInv' /\ ReportInv' /\ OnceInv'
  <1>p. ItemType /\ LeaveInv /\ ReportInv /\ OnceInv BY TypeParts DEF ItemInv
  <1>1. /\ joined' = joined \cup {s} /\ rows' = [rows EXCEPT ![s] = {}]
        /\ UNCHANGED <<state, leave, told, loot, bag, box, left, settled>>
    BY DEF Connect, lifeVars, holdVars
  <1>2. \A t \in Sessions : rows'[t] = IF t = s THEN {} ELSE rows[t] BY <1>1, <1>p DEF ItemType
  <1>3. joined \subseteq Sessions BY <1>p DEF ItemType
  <1>4. LeaveInv' BY <1>1, <1>p DEF LeaveInv
  <1>5. ReportInv' BY <1>1, <1>2, <1>3, <1>p DEF ReportInv
  <1>6. OnceInv'
    <2>1. \A i \in Items, t \in Sessions : InRows(i, t)' => InRows(i, t) BY <1>1, <1>2 DEF InRows
    <2>2. \A i \in Items : /\ \A t \in Sessions : InBag(i, t)' = InBag(i, t)
                           /\ \A b \in Boxes : InBox(i, b)' = InBox(i, b)
                           /\ \A m \in left : OnWay(i, m)' = OnWay(i, m)
      BY <1>1 DEF InBag, InBox, OnWay
    <2> QED BY <2>1, <2>2, <1>1, <1>p DEF OnceInv
  <1> QED BY <1>4, <1>5, <1>6

\* An item moves between the inventory of a session and its open container.
LEMMA InteractStep ==
  ASSUME ItemInv, NEW s \in Sessions, NEW give \in SUBSET Items, NEW take \in SUBSET Items,
         InteractContainerObject(s, give, take)
  PROVE  LeaveInv' /\ ReportInv' /\ OnceInv'
  <1>p. ItemType /\ HoldType /\ LeaveInv /\ ReportInv /\ OnceInv BY TypeParts DEF ItemInv
  <1>b. PICK b : b = open[s] OBVIOUS
  <1>1. /\ give \subseteq bag[s] /\ take \subseteq box[b]
        /\ bag' = [bag EXCEPT ![s] = (@ \ give) \cup take]
        /\ box' = [box EXCEPT ![b] = (@ \ take) \cup give]
        /\ UNCHANGED <<state, leave, told, loot, joined, rows, left, settled>>
    BY <1>b DEF InteractContainerObject, lifeVars, holdVars
  <1>2. told[s] = 0 BY <1>p DEF InteractContainerObject, IsActiveState, LeaveInv
  <1>3. b \in Boxes /\ b \in Chests \cup loot BY <1>b, <1>p DEF InteractContainerObject, Near, HoldType
  <1>4. \A t \in Sessions : bag'[t] = IF t = s THEN (bag[s] \ give) \cup take ELSE bag[t]
    BY <1>1, <1>p DEF ItemType
  <1>5. \A c \in Boxes : box'[c] = IF c = b THEN (box[b] \ take) \cup give ELSE box[c]
    BY <1>1, <1>3, <1>p DEF ItemType
  <1>6. LeaveInv' BY <1>1, <1>p DEF LeaveInv
  <1>7. ReportInv' BY <1>1, <1>p DEF ReportInv
  <1>8. ASSUME NEW i \in Items
        PROVE  /\ \A t \in Sessions : InBag(i, t)' => InBag(i, t) \/ (t = s /\ i \in take)
               /\ \A c \in Boxes : InBox(i, c)' => InBox(i, c) \/ (c = b /\ i \in give)
               /\ i \in take => InBox(i, b) /\ (i \notin give => ~ InBox(i, b)')
               /\ i \in give => InBag(i, s) /\ (i \notin take => ~ InBag(i, s)')
               /\ \A m \in left : OnWay(i, m)' = OnWay(i, m)
               /\ \A t \in Sessions : InRows(i, t)' = InRows(i, t)
    <2>1. \A t \in Sessions : InBag(i, t)' => InBag(i, t) \/ (t = s /\ i \in take)
      BY <1>1, <1>4 DEF InBag
    <2>2. \A c \in Boxes : InBox(i, c)' => InBox(i, c) \/ (c = b /\ i \in give)
      BY <1>1, <1>5 DEF InBox
    <2>3. i \in take => InBox(i, b) BY <1>1, <1>3 DEF InBox
    <2>4. i \in take /\ i \notin give => ~ InBox(i, b)'
      <3>1. box'[b] = (box[b] \ take) \cup give BY <1>3, <1>5
      <3> QED BY <3>1 DEF InBox
    <2>5. i \in give => InBag(i, s) BY <1>1, <1>2 DEF InBag
    <2>6. i \in give /\ i \notin take => ~ InBag(i, s)'
      <3>1. bag'[s] = (bag[s] \ give) \cup take BY <1>4
      <3> QED BY <3>1 DEF InBag
    <2>7. \A m \in left : OnWay(i, m)' = OnWay(i, m) BY <1>1 DEF OnWay
    <2>8. \A t \in Sessions : InRows(i, t)' = InRows(i, t) BY <1>1 DEF InRows
    <2> QED BY <2>1, <2>2, <2>3, <2>4, <2>5, <2>6, <2>7, <2>8
  <1>9. OnceInv'
    <2> SUFFICES ASSUME NEW i \in Items
                 PROVE  /\ \A t, u \in Sessions : InBag(i, t)' /\ InBag(i, u)' => t = u
                        /\ \A c, d \in Boxes : InBox(i, c)' /\ InBox(i, d)' => c = d
                        /\ \A m, n \in left : OnWay(i, m)' /\ OnWay(i, n)' => m = n
                        /\ \A t, u \in Sessions : InRows(i, t)' /\ InRows(i, u)' => t = u
                        /\ \A t \in Sessions, c \in Boxes : ~ (InBag(i, t)' /\ InBox(i, c)')
                        /\ \A t \in Sessions, m \in left : ~ (InBag(i, t)' /\ OnWay(i, m)')
                        /\ \A t, u \in Sessions : ~ (InBag(i, t)' /\ InRows(i, u)')
                        /\ \A c \in Boxes, m \in left : ~ (InBox(i, c)' /\ OnWay(i, m)')
                        /\ \A c \in Boxes, t \in Sessions : ~ (InBox(i, c)' /\ InRows(i, t)')
                        /\ \A m \in left, t \in Sessions : ~ (OnWay(i, m)' /\ InRows(i, t)')
      BY <1>1 DEF OnceInv
    <2>1. ~ (i \in give /\ i \in take) BY <1>3, <1>8, <1>p DEF OnceInv
    <2>2. CASE i \notin give /\ i \notin take BY <2>2, <1>8, <1>p DEF OnceInv
    <2>3. CASE i \in give
      <3>1. \A t \in Sessions : ~ InBag(i, t)' BY <2>1, <2>3, <1>8, <1>p DEF OnceInv
      <3>2. \A c \in Boxes : InBox(i, c)' => c = b BY <2>3, <1>8, <1>p DEF OnceInv
      <3> QED BY <2>3, <3>1, <3>2, <1>8, <1>p DEF OnceInv
    <2>4. CASE i \in take
      <3>1. ASSUME NEW c \in Boxes PROVE ~ InBox(i, c)'
        <4>1. i \notin give /\ InBox(i, b) /\ ~ InBox(i, b)' BY <2>1, <2>4, <1>8
        <4>2. CASE c = b BY <4>1, <4>2
        <4>3. CASE c # b
          <5>1. InBox(i, c)' => InBox(i, c) BY <4>1, <1>8
          <5>2. ~ InBox(i, c) BY <4>1, <4>3, <1>3, <1>p DEF OnceInv
          <5> QED BY <5>1, <5>2
        <4> QED BY <4>2, <4>3
      <3>2. \A t \in Sessions : InBag(i, t)' => t = s BY <2>4, <1>3, <1>8, <1>p DEF OnceInv
      <3> QED BY <2>4, <3>1, <3>2, <1>3, <1>8, <1>p DEF OnceInv
    <2> QED BY <2>2, <2>3, <2>4
  <1> QED BY <1>6, <1>7, <1>9

\* The report of a departure arrives.
LEMMA ApplyStep ==
  ASSUME ItemInv, NEW m \in left, ApplyInventoryToDb(m)
  PROVE  LeaveInv' /\ ReportInv' /\ OnceInv'
  <1>p. ItemType /\ LeaveInv /\ ReportInv /\ OnceInv BY TypeParts DEF ItemInv
  <1>1. /\ left' = left \ {m} /\ rows' = [rows EXCEPT ![m.s] = m.items] /\ settled' = settled \cup {m.s}
        /\ UNCHANGED <<state, leave, told, loot, bag, box, joined>>
    BY DEF ApplyInventoryToDb, lifeVars, holdVars
  <1>2. m.s \in Sessions BY <1>p DEF ItemType
  <1>3. \A t \in Sessions : rows'[t] = IF t = m.s THEN m.items ELSE rows[t] BY <1>1, <1>2, <1>p DEF ItemType
  <1>4. LeaveInv' BY <1>1, <1>p DEF LeaveInv
  <1>5. ReportInv'
    <2>1. joined \subseteq Sessions BY <1>p DEF ItemType
    <2>2. \A n \in left' : told[n.s] = 1 /\ n.s \notin settled' BY <1>1, <1>p DEF ReportInv
    <2>3. \A t \in settled' : told[t] = 1 BY <1>1, <1>p DEF ReportInv
    <2>4. \A t \in joined \ settled' : rows'[t] = {} BY <1>1, <1>3, <2>1, <1>p DEF ReportInv
    <2> QED BY <1>1, <2>2, <2>3, <2>4, <1>p DEF ReportInv
  <1>6. ASSUME NEW i \in Items
        PROVE  /\ \A t \in Sessions : InBag(i, t)' = InBag(i, t)
               /\ \A b \in Boxes : InBox(i, b)' = InBox(i, b)
               /\ \A n \in left' : OnWay(i, n)' => OnWay(i, n) /\ n # m
               /\ \A t \in Sessions : InRows(i, t)' => InRows(i, t) \/ (t = m.s /\ OnWay(i, m))
               /\ InRows(i, m.s)' => OnWay(i, m)
    BY <1>1, <1>2, <1>3 DEF InBag, InBox, OnWay, InRows
  <1>7. OnceInv'
    <2> SUFFICES ASSUME NEW i \in Items
                 PROVE  /\ \A t, u \in Sessions : InBag(i, t)' /\ InBag(i, u)' => t = u
                        /\ \A c, d \in Boxes : InBox(i, c)' /\ InBox(i, d)' => c = d
                        /\ \A k, n \in left' : OnWay(i, k)' /\ OnWay(i, n)' => k = n
                        /\ \A t, u \in Sessions : InRows(i, t)' /\ InRows(i, u)' => t = u
                        /\ \A t \in Sessions, c \in Boxes : ~ (InBag(i, t)' /\ InBox(i, c)')
                        /\ \A t \in Sessions, n \in left' : ~ (InBag(i, t)' /\ OnWay(i, n)')
                        /\ \A t, u \in Sessions : ~ (InBag(i, t)' /\ InRows(i, u)')
                        /\ \A c \in Boxes, n \in left' : ~ (InBox(i, c)' /\ OnWay(i, n)')
                        /\ \A c \in Boxes, t \in Sessions : ~ (InBox(i, c)' /\ InRows(i, t)')
                        /\ \A n \in left', t \in Sessions : ~ (OnWay(i, n)' /\ InRows(i, t)')
      BY DEF OnceInv
    <2>1. left' \subseteq left BY <1>1
    <2>2. CASE OnWay(i, m) BY <2>1, <2>2, <1>2, <1>6, <1>p DEF OnceInv
    <2>3. CASE ~ OnWay(i, m) BY <2>1, <2>3, <1>6, <1>p DEF OnceInv
    <2> QED BY <2>2, <2>3
  <1> QED BY <1>4, <1>5, <1>7

\* Who leaves takes his items to one place: home when he was recalled, into
\* his loot container when he died, nowhere else.
LEMMA LeavesStep ==
  ASSUME ItemInv, NEW lost \in SUBSET CanBeLost, ProcessLeaves(lost)
  PROVE  LeaveInv' /\ ReportInv' /\ OnceInv'
  <1> DEFINE going == Going(lost)
             gone == Gone(lost)
             why == Why(lost)
             looted == Looted(lost)
             telling == Telling(lost)
  <1>p. ItemType /\ LifeType /\ ObjType /\ ObjectInv /\ LeaveInv /\ ReportInv /\ OnceInv
    BY TypeParts DEF ItemInv
  <1>g. going \subseteq Sessions /\ looted \subseteq going BY LeavesWho
  <1>a. \A s \in going : leave[s] \in {"NONE", "PENDING"} /\ told[s] = 0
    BY <1>g, <1>p DEF Going, Dying, Marks, CanBeLost, Pending, LeaveInv
  <1>b. telling = going
    <2>1. \A s \in gone : s \notin going => told[s] # 0 BY <1>p DEF Gone, LeaveInv
    <2> QED BY <1>a, <2>1 DEF Telling, NotifyLeftOnce
  <1>w. \A s \in looted : InRoom(s) /\ why[s] = "DEAD" BY DEF Looted, LeavesLoot
  <1>x. \A s, t \in looted : objectId[s] = objectId[t] => s = t
    <2>1. \A s \in looted : objectId[s] # NoOne BY <1>w, <1>p, NameAssumption DEF InRoom, ObjType, Objects
    <2> QED BY <2>1, <1>g, <1>p DEF ObjectInv
  <1>1. /\ leave' = [s \in Sessions |-> IF s \in gone THEN "FINALIZED"
                                        ELSE IF s \in going THEN "DETACHED" ELSE leave[s]]
        /\ state' = [s \in Sessions |->
                        IF s \in gone THEN "LEFT"
                        ELSE IF s \notin going THEN state[s]
                        ELSE IF why[s] = "DEAD" THEN "SPECTATING" ELSE "LEFT"]
        /\ told' = [s \in Sessions |-> IF s \in telling THEN told[s] + 1 ELSE told[s]]
    BY LeavesLife
  <1>2. loot' = loot \cup {objectId[s] : s \in looted} BY LeavesHold
  <1>3. /\ box' = [b \in Boxes |-> IF \E s \in looted : objectId[s] = b
                                   THEN UNION {bag[s] : s \in {t \in looted : objectId[t] = b}}
                                   ELSE box[b]]
        /\ bag' = [s \in Sessions |-> IF s \in Cleared(going, why) THEN {} ELSE bag[s]]
        /\ left' = left \cup {LeftMessage(s, why[s]) : s \in telling}
        /\ UNCHANGED <<joined, rows, settled>>
    BY LeavesItems
  <1>d. \A s \in gone : s \in going \/ leave[s] = "DETACHED" BY DEF Gone
  <1>c. Cleared(going, why) \subseteq going BY DEF Cleared
  <1> HIDE DEF going, gone, why, looted, telling
  <1>e. \A s \in Sessions : told'[s] = IF s \in going THEN 1 ELSE told[s] BY <1>1, <1>a, <1>b
  <1>4. LeaveInv'
    <2> SUFFICES ASSUME NEW s \in Sessions
                 PROVE  /\ told'[s] = 0 <=> leave'[s] \in {"NONE", "PENDING"}
                        /\ state'[s] \in {"INIT", "CONNECTED", "INPLAY"} => leave'[s] = "NONE"
      BY DEF LeaveInv
    <2>1. CASE s \in going BY <2>1, <1>1, <1>e
    <2>2. CASE s \notin going /\ s \in gone BY <2>2, <1>1, <1>d, <1>e, <1>p DEF LeaveInv
    <2>3. CASE s \notin going /\ s \notin gone BY <2>3, <1>1, <1>e, <1>p DEF LeaveInv
    <2> QED BY <2>1, <2>2, <2>3
  <1>5. ReportInv'
    <2>1. left \subseteq [s : Sessions, items : SUBSET Items] BY <1>p DEF ItemType
    <2>s. settled \subseteq Sessions BY <1>p DEF ItemType
    <2>2. \A s \in going : LeftMessage(s, why[s]).s = s BY DEF LeftMessage
    <2>3. \A m \in left' : told'[m.s] = 1 /\ m.s \notin settled
      <3> SUFFICES ASSUME NEW m \in left' PROVE told'[m.s] = 1 /\ m.s \notin settled OBVIOUS
      <3>1. CASE m \in left
        <4>1. m.s \in Sessions BY <2>1, <3>1
        <4> QED BY <4>1, <3>1, <1>e, <1>p DEF ReportInv
      <3>2. CASE m \notin left
        <4>1. PICK s \in going : m = LeftMessage(s, why[s]) BY <3>2, <1>3, <1>b
        <4>2. m.s = s /\ told[s] = 0 /\ s \in Sessions BY <4>1, <2>2, <1>a, <1>g
        <4> QED BY <4>2, <1>e, <1>p DEF ReportInv
      <3> QED BY <3>1, <3>2
    <2>4. \A m, n \in left' : m.s = n.s => m = n
      <3> SUFFICES ASSUME NEW m \in left', NEW n \in left', m.s = n.s PROVE m = n OBVIOUS
      <3>1. \A k \in left' : (k \in left /\ told[k.s] = 1) \/ (k.s \in going /\ k = LeftMessage(k.s, why[k.s]))
        <4> SUFFICES ASSUME NEW k \in left'
                     PROVE  (k \in left /\ told[k.s] = 1) \/ (k.s \in going /\ k = LeftMessage(k.s, why[k.s]))
          OBVIOUS
        <4>1. CASE k \in left
          <5>1. \A q \in left : told[q.s] = 1 BY <1>p DEF ReportInv
          <5> QED BY <4>1, <5>1
        <4>2. CASE k \notin left
          <5>1. PICK t \in going : k = LeftMessage(t, why[t]) BY <4>2, <1>3, <1>b
          <5>2. k.s = t BY <5>1, <2>2
          <5> QED BY <5>1, <5>2
        <4> QED BY <4>1, <4>2
      <3> QED BY <3>1, <1>a, <1>p DEF ReportInv
    <2>5. \A s \in settled : told'[s] = 1 BY <1>e, <2>s, <1>p DEF ReportInv
    <2> QED BY <2>3, <2>4, <2>5, <1>3, <1>p DEF ReportInv
  <1>6. ASSUME NEW i \in Items
        PROVE  /\ \A t \in Sessions : InBag(i, t)' => InBag(i, t) /\ t \notin going
               /\ \A b \in Boxes : InBox(i, b)' =>
                    InBox(i, b) \/ \E s \in looted : InBag(i, s) /\ objectId[s] = b
               /\ \A m \in left' : OnWay(i, m)' =>
                    \/ m \in left /\ OnWay(i, m)
                    \/ \E s \in going : InBag(i, s) /\ why[s] = "RECALLED" /\ m = LeftMessage(s, why[s])
               /\ \A t \in Sessions : InRows(i, t)' = InRows(i, t)
    <2>1. \A t \in Sessions : InBag(i, t)' => InBag(i, t) /\ t \notin going
      BY <1>3, <1>c, <1>e DEF InBag
    <2>2. ASSUME NEW b \in Boxes, InBox(i, b)'
          PROVE  InBox(i, b) \/ \E s \in looted : InBag(i, s) /\ objectId[s] = b
      <3>1. b \in Chests \cup loot' /\ i \in box'[b] BY <2>2 DEF InBox
      <3>2. CASE \E s \in looted : objectId[s] = b
        <4>1. i \in UNION {bag[s] : s \in {t \in looted : objectId[t] = b}} BY <3>1, <3>2, <1>3
        <4>2. PICK s \in looted : objectId[s] = b /\ i \in bag[s] BY <4>1
        <4> QED BY <4>2, <1>a, <1>g DEF InBag, going, looted
      <3>3. CASE ~ \E s \in looted : objectId[s] = b BY <3>1, <3>3, <1>2, <1>3 DEF InBox
      <3> QED BY <3>2, <3>3
    <2>3. ASSUME NEW m \in left', OnWay(i, m)'
          PROVE  \/ m \in left /\ OnWay(i, m)
                 \/ \E s \in going : InBag(i, s) /\ why[s] = "RECALLED" /\ m = LeftMessage(s, why[s])
      <3>1. CASE m \in left BY <3>1, <2>3 DEF OnWay
      <3>2. CASE m \notin left
        <4>1. PICK s \in going : m = LeftMessage(s, why[s]) BY <3>2, <1>3, <1>b
        <4>2. i \in m.items BY <2>3 DEF OnWay
        <4>3. why[s] = "RECALLED" /\ i \in bag[s] BY <4>1, <4>2 DEF LeftMessage
        <4> QED BY <4>1, <4>3, <1>a DEF InBag
      <3> QED BY <3>1, <3>2
    <2>4. \A t \in Sessions : InRows(i, t)' = InRows(i, t) BY <1>3 DEF InRows
    <2> QED BY <2>1, <2>2, <2>3, <2>4
  <1>7. OnceInv'
    <2> SUFFICES ASSUME NEW i \in Items
                 PROVE  /\ \A t, u \in Sessions : InBag(i, t)' /\ InBag(i, u)' => t = u
                        /\ \A c, d \in Boxes : InBox(i, c)' /\ InBox(i, d)' => c = d
                        /\ \A m, n \in left' : OnWay(i, m)' /\ OnWay(i, n)' => m = n
                        /\ \A t, u \in Sessions : InRows(i, t)' /\ InRows(i, u)' => t = u
                        /\ \A t \in Sessions, c \in Boxes : ~ (InBag(i, t)' /\ InBox(i, c)')
                        /\ \A t \in Sessions, m \in left' : ~ (InBag(i, t)' /\ OnWay(i, m)')
                        /\ \A t, u \in Sessions : ~ (InBag(i, t)' /\ InRows(i, u)')
                        /\ \A c \in Boxes, m \in left' : ~ (InBox(i, c)' /\ OnWay(i, m)')
                        /\ \A c \in Boxes, t \in Sessions : ~ (InBox(i, c)' /\ InRows(i, t)')
                        /\ \A m \in left', t \in Sessions : ~ (OnWay(i, m)' /\ InRows(i, t)')
      BY DEF OnceInv
    <2> USE <1>6, <1>g
    <2>s. looted \subseteq Sessions /\ going \subseteq Sessions BY DEF going, looted
    <2>v. \A s \in looted : s \in going /\ why[s] # "RECALLED" BY <1>w DEF going, looted, why
    <2>o. /\ \A s, t \in Sessions : InBag(i, s) /\ InBag(i, t) => s = t
          /\ \A b, c \in Boxes : InBox(i, b) /\ InBox(i, c) => b = c
          /\ \A m, n \in left : OnWay(i, m) /\ OnWay(i, n) => m = n
          /\ \A s, t \in Sessions : InRows(i, s) /\ InRows(i, t) => s = t
          /\ \A s \in Sessions, b \in Boxes : ~ (InBag(i, s) /\ InBox(i, b))
          /\ \A s \in Sessions, m \in left : ~ (InBag(i, s) /\ OnWay(i, m))
          /\ \A s, t \in Sessions : ~ (InBag(i, s) /\ InRows(i, t))
          /\ \A b \in Boxes, m \in left : ~ (InBox(i, b) /\ OnWay(i, m))
          /\ \A b \in Boxes, s \in Sessions : ~ (InBox(i, b) /\ InRows(i, s))
          /\ \A m \in left, s \in Sessions : ~ (OnWay(i, m) /\ InRows(i, s))
      BY <1>p DEF OnceInv
    <2>1. \A t, u \in Sessions : InBag(i, t)' /\ InBag(i, u)' => t = u BY <2>o
    <2>2. \A c, d \in Boxes : InBox(i, c)' /\ InBox(i, d)' => c = d BY <2>o, <2>s
    <2>3. \A m, n \in left' : OnWay(i, m)' /\ OnWay(i, n)' => m = n BY <2>o, <2>s
    <2>4. \A t, u \in Sessions : InRows(i, t)' /\ InRows(i, u)' => t = u BY <2>o
    <2>5. \A t \in Sessions, c \in Boxes : ~ (InBag(i, t)' /\ InBox(i, c)') BY <2>o, <2>s, <2>v
    <2>6. \A t \in Sessions, m \in left' : ~ (InBag(i, t)' /\ OnWay(i, m)') BY <2>o, <2>s
    <2>7. \A t, u \in Sessions : ~ (InBag(i, t)' /\ InRows(i, u)') BY <2>o
    <2>8. \A c \in Boxes, m \in left' : ~ (InBox(i, c)' /\ OnWay(i, m)') BY <2>o, <2>s, <2>v
    <2>9. \A c \in Boxes, t \in Sessions : ~ (InBox(i, c)' /\ InRows(i, t)') BY <2>o, <2>s
    <2>10. \A m \in left', t \in Sessions : ~ (OnWay(i, m)' /\ InRows(i, t)') BY <2>o, <2>s
    <2> QED BY <2>1, <2>2, <2>3, <2>4, <2>5, <2>6, <2>7, <2>8, <2>9, <2>10
  <1> QED BY <1>4, <1>5, <1>7

LEMMA ItemStep ==
  ASSUME Spawns = 1, ItemInv, [Next]_vars
  PROVE  ItemInv'
  <1>o. TypeOK' /\ ObjectInv' BY TypeStep, ObjectStep DEF ItemInv
  <1>p. LifeType /\ LeaveInv /\ ReportInv /\ OnceInv BY TypeParts DEF ItemInv
  <1>q. ASSUME UNCHANGED <<told, loot, itemVars>> PROVE ReportInv' /\ OnceInv'
    <2>1. UNCHANGED <<told, loot, bag, box, joined, rows, left, settled>> BY <1>q DEF itemVars
    <2>2. ReportInv' BY <2>1, <1>p DEF ReportInv
    <2>3. OnceInv' BY <2>1, <1>p DEF OnceInv, InBag, InBox, OnWay, InRows
    <2> QED BY <2>2, <2>3
  <1>1. CASE UNCHANGED <<state, leave, told, loot, itemVars>>
    <2>1. LeaveInv' BY <1>1, <1>p DEF LeaveInv
    <2> QED BY <1>1, <1>o, <1>q, <2>1 DEF ItemInv
  <1>2. ASSUME NEW s \in Sessions, Connect(s) PROVE ItemInv' BY <1>2, <1>o, ConnectStep DEF ItemInv
  <1>3. ASSUME NEW s \in Sessions, ChannelOpen(s) \/ NotifyLoadingComplete(s) PROVE ItemInv'
    <2>1. /\ state[s] \in {"INIT", "CONNECTED"} /\ state' \in [Sessions -> States]
          /\ \A t \in Sessions \ {s} : state'[t] = state[t]
          /\ UNCHANGED <<leave, told, loot, itemVars>>
      BY <1>3, <1>o, <1>p DEF ChannelOpen, NotifyLoadingComplete, holdVars, TypeOK, LifeType
    <2>2. LeaveInv' BY <2>1, <1>p DEF LeaveInv
    <2> QED BY <1>o, <1>q, <2>1, <2>2 DEF ItemInv
  <1>4. ASSUME NEW s \in Sessions, NEW give \in SUBSET Items, NEW take \in SUBSET Items,
               InteractContainerObject(s, give, take)
        PROVE  ItemInv'
    BY <1>4, <1>o, InteractStep DEF ItemInv
  <1>5. ASSUME NEW t \in timers, RecallTick(t) PROVE ItemInv'
    <2>1. UNCHANGED <<told, loot, itemVars>> BY <1>5 DEF RecallTick, lifeVars, holdVars
    <2>2. t.s \in Sessions BY TypeParts DEF ItemInv, RecallType
    <2>3. \/ UNCHANGED <<state, leave>>
          \/ /\ leave[t.s] = "NONE" /\ leave' = [leave EXCEPT ![t.s] = "PENDING"]
             /\ state' = [state EXCEPT ![t.s] = "LEFT"]
      BY <1>5 DEF RecallTick, lifeVars, MayRecall, IsLeaving
    <2>4. LeaveInv'
      <3>1. CASE UNCHANGED <<state, leave>> BY <3>1, <2>1, <1>p DEF LeaveInv
      <3>2. CASE /\ leave[t.s] = "NONE" /\ leave' = [leave EXCEPT ![t.s] = "PENDING"]
                 /\ state' = [state EXCEPT ![t.s] = "LEFT"]
        <4>1. \A u \in Sessions : /\ leave'[u] = IF u = t.s THEN "PENDING" ELSE leave[u]
                                  /\ state'[u] = IF u = t.s THEN "LEFT" ELSE state[u]
          BY <3>2, <1>p DEF LifeType
        <4> QED BY <2>1, <3>2, <4>1, <1>p DEF LeaveInv
      <3> QED BY <2>3, <3>1, <3>2
    <2> QED BY <1>o, <1>q, <2>1, <2>4 DEF ItemInv
  <1>6. ASSUME NEW m \in left, ApplyInventoryToDb(m) PROVE ItemInv' BY <1>6, <1>o, ApplyStep DEF ItemInv
  <1>7. ASSUME NEW lost \in SUBSET CanBeLost, ProcessLeaves(lost) PROVE ItemInv'
    BY <1>7, <1>o, LeavesStep DEF ItemInv
  <1> QED BY <1>1, <1>2, <1>3, <1>4, <1>5, <1>6, <1>7, ItemSteps

LEMMA ItemInit == Init => ItemInv
  <1> SUFFICES ASSUME Init PROVE ItemInv OBVIOUS
  <1>1. TypeOK BY TypeInit
  <1>2. ObjectInv /\ LeaveInv BY DEF Init, ObjectInv, LeaveInv
  <1>3. ReportInv BY DEF Init, ReportInv
  <1>4. PICK f \in [Items -> Chests \cup Sessions] :
          /\ bag = [s \in Sessions |-> {i \in Items : f[i] = s}]
          /\ box = [b \in Boxes |-> {i \in Items : f[i] = b}]
    BY DEF Init
  <1>5. loot = {} /\ left = {} /\ joined = {} /\ settled = {} BY DEF Init
  <1>6. Chests \subseteq Boxes BY DEF Boxes
  <1>7. /\ \A i \in Items, s \in Sessions : InBag(i, s) => f[i] = s
        /\ \A i \in Items, b \in Boxes : InBox(i, b) => f[i] = b /\ b \in Chests
        /\ \A i \in Items, s \in Sessions : ~ InRows(i, s)
    BY <1>4, <1>5 DEF InBag, InBox, InRows
  <1>8. OnceInv BY <1>5, <1>7, NameAssumption DEF OnceInv
  <1> QED BY <1>1, <1>2, <1>3, <1>8 DEF ItemInv

LEMMA ItemOnce == ItemInv => ItemsOnce
  <1> SUFFICES ASSUME ItemInv, NEW i \in Items PROVE Cardinality(Homes(i)) <= 1 BY DEF ItemsOnce
  <1>p. ItemType /\ HoldType /\ OnceInv BY TypeParts DEF ItemInv
  <1>1. ASSUME NEW h \in Homes(i)
        PROVE  \/ \E s \in Sessions : InBag(i, s) /\ h = <<"bag", s>>
               \/ \E b \in Boxes : InBox(i, b) /\ h = <<"box", b>>
               \/ \E m \in left : OnWay(i, m) /\ h = <<"left", m.s>>
               \/ \E s \in Sessions : InRows(i, s) /\ h = <<"rows", s>>
    <2>1. Chests \cup loot \subseteq Boxes /\ joined \cup settled \subseteq Sessions
      BY <1>p DEF Boxes, HoldType, ItemType
    <2> QED BY <1>1, <2>1 DEF Homes, InBag, InBox, OnWay, InRows
  <1>2. ASSUME NEW h \in Homes(i), NEW k \in Homes(i) PROVE h = k
    <2>1. CASE \E s \in Sessions : InBag(i, s) /\ h = <<"bag", s>> BY <1>1, <1>p, <2>1 DEF OnceInv
    <2>2. CASE \E b \in Boxes : InBox(i, b) /\ h = <<"box", b>> BY <1>1, <1>p, <2>2 DEF OnceInv
    <2>3. CASE \E m \in left : OnWay(i, m) /\ h = <<"left", m.s>> BY <1>1, <1>p, <2>3 DEF OnceInv
    <2>4. CASE \E s \in Sessions : InRows(i, s) /\ h = <<"rows", s>> BY <1>1, <1>p, <2>4 DEF OnceInv
    <2> QED BY <1>1, <2>1, <2>2, <2>3, <2>4
  <1>3. CASE Homes(i) = {}
    <2>1. Cardinality({}) = 0 BY FS_EmptySet
    <2> QED BY <1>3, <2>1
  <1>4. CASE Homes(i) # {}
    <2>1. PICK h \in Homes(i) : TRUE BY <1>4
    <2>2. Homes(i) = {h} BY <2>1, <1>2
    <2>3. Cardinality({h}) = 1 BY FS_Singleton
    <2> QED BY <2>2, <2>3
  <1> QED BY <1>3, <1>4

\* InteractContainerObject, DetachPlayer, NotifyPlayerLeftToMain and
\* ApplyInventoryToDb: no item is in two places, however many players loot,
\* die, recall and are cut off, for clients that spawn once.
THEOREM RoomItemsOnce ==
  ASSUME Spawns = 1
  PROVE  Spec => []ItemsOnce
  <1>1. ItemInv /\ [Next]_vars => ItemInv' BY ItemStep
  <1> QED BY <1>1, ItemInit, ItemOnce, PTL DEF Spec

\* ClearPendingReliableExcept before the broadcasts of DetachPlayer: everybody
\* who still plays or watches gets the notice of a death.
THEOREM RoomKillHeard == Spec => KillHeard
  <1> DEFINE Heard == \A v \in loot' \ loot : \A t \in Sessions :
                        state'[t] \in {"INPLAY", "SPECTATING"} => v \in inbox'[t]
  <1>1. [Next]_vars => [Heard]_vars
    <2> SUFFICES ASSUME [Next]_vars PROVE Heard OBVIOUS
    <2>1. CASE loot' = loot BY <2>1
    <2>2. ASSUME NEW lost \in SUBSET CanBeLost, ProcessLeaves(lost) PROVE Heard
      <3>1. loot' = loot \cup {objectId[s] : s \in Looted(lost)} BY <2>2, LeavesHold
      <3>2. inbox' = Inbox(Going(lost), Gone(lost), {objectId[s] : s \in Looted(lost)}) BY <2>2, LeavesRoom
      <3>3. \A t \in Sessions : t \in Gone(lost) => state'[t] = "LEFT" BY <2>2, LeavesLife
      <3> DEFINE killed == {objectId[s] : s \in Looted(lost)}
      <3>4. loot' = loot \cup killed /\ inbox' = Inbox(Going(lost), Gone(lost), killed) BY <3>1, <3>2
      <3> HIDE DEF killed
      <3> QED BY <3>3, <3>4 DEF Inbox
    <2>3. loot' = loot \/ \E lost \in SUBSET CanBeLost : ProcessLeaves(lost)
      <3>1. CASE \E s \in Sessions : \/ Connect(s) \/ ChannelOpen(s) \/ NotifyLoadingComplete(s)
                                     \/ \E give, take \in SUBSET Items : InteractContainerObject(s, give, take)
        BY <3>1 DEF Connect, ChannelOpen, NotifyLoadingComplete, InteractContainerObject, holdVars
      <3>2. CASE \E t \in timers : RecallTick(t) BY <3>2 DEF RecallTick, holdVars
      <3>3. CASE \E m \in left : ApplyInventoryToDb(m) BY <3>3 DEF ApplyInventoryToDb, holdVars
      <3> QED BY <3>1, <3>2, <3>3, ItemSteps
    <2> QED BY <2>1, <2>2, <2>3
  <1> QED BY <1>1, PTL DEF Spec, KillHeard
=============================================================================
