----------------------------- MODULE Inventory -----------------------------
(***************************************************************************)
(* What the players of a room carry: bag, equipment and magazines of       *)
(* PlayerInventory, the slots of containers, and the packet handlers that  *)
(* move items between them, load and fire weapons, and take the inventory  *)
(* out of the room.                                                        *)
(*                                                                         *)
(* Handlers run one at a time on the thread of DedicateMain; requests of   *)
(* several players come in any order.  A request that names an old version *)
(* of the bag or of the container is refused and changes nothing, so the   *)
(* requests of the model carry the current one.  Who may open which        *)
(* container from where is the subject of GameRoom: here opening one takes *)
(* it from whoever had it.  instanceUid is left out; versions count modulo *)
(* VersionMod, 2^32 in the code.                                           *)
(***************************************************************************)
EXTENDS Integers, Sequences, FiniteSets, FiniteSetsExt

CONSTANTS
    Players,    \* players of the room
    Chests,     \* containers of the map
    Weapons, Armors, Ammo, \* blueprints, by ItemType
    NoBp,       \* blueprint 0: no item
    NoBox,      \* no interacting container
    AmmoType,   \* WeaponSpec.ammoType
    MaxAmmo,    \* WeaponSpec.maxAmmo
    BagSize,    \* INVENTORY_SLOT_COUNT, 25 in the code
    LootSize,   \* DEFAULT_CONTAINER_VOLUME, 30 in the code
    VersionMod, \* versions are 32 bit numbers
    Starts      \* how a room may begin: the bag and gear of its members, and
                \* the slots of the chests: [kit, stock]

Blueprints == Weapons \cup Armors \cup Ammo
Hands == {"primary", "secondary"}
Gear  == Hands \cup {"armor"}
Bag   == 1 .. BagSize

ASSUME SizeAssumption ==
    /\ BagSize \in Nat \ {0}
    /\ LootSize \in Nat /\ LootSize >= BagSize + 5   \* PlayerLootContainer.h
    /\ VersionMod \in Nat \ {0, 1}
ASSUME BlueprintAssumption ==
    /\ Weapons \cap Armors = {} /\ Weapons \cap Ammo = {} /\ Armors \cap Ammo = {}
    /\ NoBp \notin Blueprints
    /\ AmmoType \in [Weapons -> Ammo]
    /\ MaxAmmo \in [Weapons -> Nat]
ASSUME BoxAssumption ==
    /\ Chests \cap Players = {} /\ NoBox \notin Chests \cup Players
    /\ IsFiniteSet(Chests) /\ IsFiniteSet(Players)

VARIABLES
    status,     \* loading: no player object yet, in, dead, home: recalled, gone
    inv,        \* PlayerInventory
    obj,        \* _primaryWeaponId and _secondaryWeaponId of the player object
    hand,       \* _isUsingPrimary of the player object
    box,        \* containers; the loot container of a dead player has his name
    open,       \* _interactingContainerId
    home,       \* items a recalled player's D2MNotifyPlayerLeft carries
    owned       \* history: quantity of each blueprint when the room was made,
                \* less what went with players who were cut off

vars == <<status, inv, obj, hand, box, open, home, owned>>
-----------------------------------------------------------------------------
Empty == [bp |-> NoBp, qty |-> 0]
Slots == {Empty} \cup [bp : Blueprints, qty : Nat \ {0}]

IsEmpty(s) == s.qty <= 0 /\ s.bp = NoBp

\* What MakeRoomForThisGroup reads from the tickets and the map.
ASSUME StartAssumption ==
    \A s \in Starts :
      /\ DOMAIN s.kit \subseteq Players
      /\ \A p \in DOMAIN s.kit : s.kit[p].bag \in [Bag -> Slots] /\ s.kit[p].gear \in [Gear -> Slots]
      /\ s.stock \in Seq(Slots)

\* Sum of a function into Nat: the points under its graph.
SumOf(f) == Cardinality(UNION {{x} \X (1 .. f[x]) : x \in DOMAIN f})

\* Quantity of bp in a function whose values are slots.
CountIn(f, bp) == SumOf([x \in DOMAIN f |-> IF f[x].bp = bp THEN f[x].qty ELSE 0])

\* Mutant: a slot that ran out keeps its blueprint.
LessKeepsBp(s, n) == [bp |-> s.bp, qty |-> s.qty - n]

\* n pieces leave a slot, which is cleared when it ran out.
Less(s, n) == IF s.qty - n <= 0 THEN Empty ELSE [bp |-> s.bp, qty |-> s.qty - n]

Next1(n) == (n + 1) % VersionMod

\* UpdateFirstEmptySlotIndex; 0 stands for -1.
FirstEmpty(bag) ==
    LET free == {i \in Bag : IsEmpty(bag[i])}
    IN  IF free = {} THEN 0 ELSE Min(free)

\* Mutant: the cached index is left as it was.
RefreshedNot(v) == v

Refreshed(v) == [v EXCEPT !.first = FirstEmpty(v.bag)]
Bumped(v)    == [v EXCEPT !.ver = Next1(@)]

\* Rounds the magazine of weapon h still takes.
RoomOf(v, h) == MaxAmmo[v.gear[h].bp] - v.mag[h].qty

\* LoadMagazineFromInventory: rounds come from the lowest slots of the
\* weapon's ammunition; a weapon slot that holds no weapon is left alone.
Load(v, h) ==
    IF v.gear[h].bp \notin Weapons THEN v
    ELSE LET ammo == AmmoType[v.gear[h].bp]
             have(i)  == CountIn([j \in 1 .. i |-> v.bag[j]], ammo)
             taken(i) == Min({have(i), RoomOf(v, h)})
         IN  IF RoomOf(v, h) <= 0 \/ have(BagSize) = 0 THEN v
             ELSE Bumped(Refreshed(
                    [v EXCEPT
                       !.bag = [i \in Bag |-> IF v.bag[i].bp = ammo
                                              THEN Less(v.bag[i], taken(i) - taken(i - 1))
                                              ELSE v.bag[i]],
                       !.mag[h] = [bp  |-> IF IsEmpty(@) THEN ammo ELSE @.bp,
                                   qty |-> @.qty + taken(BagSize)]]))

\* Mutant: the magazine goes into the bag and stays in the weapon.
UnloadCopies(v, h) ==
    LET m    == v.mag[h]
        same == {i \in Bag : ~ IsEmpty(v.bag[i]) /\ v.bag[i].bp = m.bp}
    IN  IF IsEmpty(m) THEN v
        ELSE IF same # {} THEN [v EXCEPT !.bag[Min(same)].qty = @ + m.qty]
        ELSE IF v.first = 0 THEN v
        ELSE Refreshed([v EXCEPT !.bag[v.first] = m])

\* UnloadMagazineToInventory: onto the first slot of the same ammunition, or
\* into the slot the cached index names; with neither the rounds are lost.
Unload(v, h) ==
    LET m    == v.mag[h]
        same == {i \in Bag : ~ IsEmpty(v.bag[i]) /\ v.bag[i].bp = m.bp}
        off  == [v EXCEPT !.mag[h] = Empty]
    IN  IF IsEmpty(m) THEN v
        ELSE IF same # {} THEN [off EXCEPT !.bag[Min(same)].qty = @ + m.qty]
        ELSE IF v.first = 0 THEN off
        ELSE Refreshed([off EXCEPT !.bag[v.first] = m])

\* The constructor.
NewInventory(s) ==
    LET bare == [bag |-> s.bag, gear |-> s.gear,
                 mag |-> [h \in Hands |-> Empty], first |-> 0, ver |-> 0]
    IN  Refreshed(Load(Load(bare, "primary"), "secondary"))

\* Clear.
Nothing(v) ==
    Refreshed(Bumped([v EXCEPT !.bag = [i \in Bag |-> Empty],
                               !.gear = [g \in Gear |-> Empty],
                               !.mag = [h \in Hands |-> Empty]]))

NoSlots(n) == [i \in 1 .. n |-> Empty]

\* FillFrom: everything that is not empty, in this order, from slot 0 on.
LootOf(v) ==
    LET all    == <<v.gear["primary"], v.mag["primary"], v.gear["secondary"],
                    v.mag["secondary"], v.gear["armor"]>> \o [i \in Bag |-> v.bag[i]]
        full   == {k \in DOMAIN all : ~ IsEmpty(all[k])}
        nth(k) == Cardinality({j \in full : j <= k})
    IN  [i \in 1 .. LootSize |->
            IF \E k \in full : nth(k) = i THEN all[CHOOSE k \in full : nth(k) = i] ELSE Empty]
-----------------------------------------------------------------------------
IsActiveState(p) == status[p] \in {"loading", "in"}

\* Slots a request of p can name: GetSlotMutable of bag and open container.
Refs(p) ==
    ({"bag"} \X Bag)
    \cup (IF open[p] = NoBox THEN {} ELSE {"box"} \X DOMAIN box[open[p]].slots)

\* The content of slot r, for an inventory v of the player who has c open.
At(v, c, r) == IF r[1] = "bag" THEN v.bag[r[2]] ELSE box[c].slots[r[2]]

PutBag(v, r, s) == IF r[1] = "bag" THEN [v EXCEPT !.bag[r[2]] = s] ELSE v

PutBox(bs, c, r, s) == IF r[1] = "box" THEN [bs EXCEPT ![c].slots[r[2]] = s] ELSE bs

\* Mutant: the container keeps its version.
BumpBoxNot(bs, c, used) == bs

\* IncrementContainerVersion when the request named the container.
BumpBox(bs, c, used) == IF used THEN [bs EXCEPT ![c].ver = Next1(@)] ELSE bs

\* Mutant: the hand stays where it is.
SetWeaponsStays(h, ids) == h

\* PlayerObject::SetWeapons: the hand moves only when what it held is gone.
SetWeapons(h, ids) ==
    IF ids[h] # NoBp THEN h
    ELSE IF h = "primary" /\ ids["secondary"] # NoBp THEN "secondary"
    ELSE "primary"

WeaponIds(v) == [h \in Hands |-> v.gear[h].bp]

-----------------------------------------------------------------------------
Carried(v, bp) == CountIn(v.bag, bp) + CountIn(v.gear, bp) + CountIn(v.mag, bp)

\* What is still to be had of bp: in the inventories that can be used, in the
\* containers, and on its way to MySQL.
Total(bp) ==
    SumOf([p \in Players |->
        (IF IsActiveState(p) THEN Carried(inv[p], bp) ELSE 0)
        + CountIn(home[p].bag, bp) + CountIn(home[p].gear, bp)])
    + SumOf([b \in Chests \cup Players |-> CountIn(box[b].slots, bp)])

NoHome == [bag |-> NoSlots(BagSize), gear |-> [g \in Gear |-> Empty]]

\* MakeRoomForThisGroup: a player outside the group counts as gone.
Init ==
    /\ \E s \in Starts :
         /\ status = [p \in Players |-> IF p \in DOMAIN s.kit THEN "loading" ELSE "gone"]
         /\ inv = [p \in Players |->
                     NewInventory(IF p \in DOMAIN s.kit THEN s.kit[p] ELSE NoHome)]
         /\ box = [b \in Chests \cup Players |->
                     [slots |-> IF b \in Chests THEN s.stock ELSE <<>>, ver |-> 0]]
    /\ obj = [p \in Players |-> [h \in Hands |-> NoBp]]
    /\ hand = [p \in Players |-> "primary"]
    /\ open = [p \in Players |-> NoBox]
    /\ home = [p \in Players |-> NoHome]
    /\ owned = [bp \in Blueprints |-> Total(bp)]
-----------------------------------------------------------------------------
\* RequestSpawnMe, which a client may repeat: the new object holds the primary
\* weapon if there is one.
SpawnMe(p) ==
    /\ IsActiveState(p)
    /\ status' = [status EXCEPT ![p] = "in"]
    /\ obj' = [obj EXCEPT ![p] = WeaponIds(inv[p])]
    /\ hand' = [hand EXCEPT ![p] = SetWeapons("primary", WeaponIds(inv[p]))]
    /\ UNCHANGED <<inv, box, open, home, owned>>

\* RequestOpenContainer that is granted.
OpenContainer(p, b) ==
    /\ status[p] = "in"
    /\ b \in Chests \cup {q \in Players : status[q] = "dead"}
    /\ open' = [q \in Players |-> IF q = p THEN b ELSE IF open[q] = b THEN NoBox ELSE open[q]]
    /\ UNCHANGED <<status, inv, obj, hand, box, home, owned>>

\* The cases of RequestInteractContainerObject: what becomes of the slots a
\* and b when q pieces are got, swapped or merged.
Get(a, b, q)   == [ok |-> IsEmpty(b) /\ q \in 1 .. a.qty,
                   a |-> Less(a, q), b |-> [bp |-> a.bp, qty |-> q]]
Swap(a, b)     == [ok |-> ~ IsEmpty(b), a |-> b, b |-> a]
Merge(a, b, q) == [ok |-> /\ ~ IsEmpty(b) /\ a.bp = b.bp
                          /\ a.bp \notin Weapons \cup Armors
                          /\ q \in 1 .. a.qty,
                   a |-> Less(a, q), b |-> [bp |-> b.bp, qty |-> b.qty + q]]

Interact(p, from, to) ==
    LET c    == open[p]
        a    == At(inv[p], c, from)
        b    == At(inv[p], c, to)
        mine == "bag" \in {from[1], to[1]}
        its  == "box" \in {from[1], to[1]}
    IN
    /\ IsActiveState(p)
    /\ from # to /\ ~ IsEmpty(a)
    /\ its => status[p] = "in"
    /\ \E m \in {Swap(a, b)} \cup {Get(a, b, q) : q \in 1 .. a.qty}
                             \cup {Merge(a, b, q) : q \in 1 .. a.qty} :
         /\ m.ok
         /\ LET v == PutBag(PutBag(inv[p], from, m.a), to, m.b)
            IN  inv' = [inv EXCEPT ![p] = IF mine THEN Bumped(Refreshed(v)) ELSE v]
         /\ box' = BumpBox(PutBox(PutBox(box, c, from, m.a), c, to, m.b), c, its)
    /\ UNCHANGED <<status, obj, hand, open, home, owned>>

\* RequestEquipItem after the inventory became v and the containers bs: the
\* container's version, and the weapons of the player object.
Equipped(p, v, bs, r) ==
    /\ inv' = [inv EXCEPT ![p] = v]
    /\ box' = BumpBox(bs, open[p], r[1] = "box")
    /\ IF status[p] = "in"
       THEN /\ obj' = [obj EXCEPT ![p] = WeaponIds(v)]
            /\ hand' = [hand EXCEPT ![p] = SetWeapons(@, WeaponIds(v))]
       ELSE UNCHANGED <<obj, hand>>
    /\ UNCHANGED <<status, open, home, owned>>

\* EquipWeaponFromSlot: the magazine is unloaded first.
EquipWeapon(p, h, r) ==
    LET v == Unload(inv[p], h)
        s == At(v, open[p], r)
    IN
    /\ IsActiveState(p)
    /\ At(inv[p], open[p], r).bp \in Weapons
    /\ Equipped(p, Bumped(Refreshed(PutBag([v EXCEPT !.gear[h] = s], r, v.gear[h]))),
                PutBox(box, open[p], r, v.gear[h]), r)

\* Mutant: the magazine is unloaded before the weapon moved.
UnequipUnloadsFirst(p, h, r) ==
    LET v == Unload(inv[p], h)
        s == At(v, open[p], r)
        g == inv[p].gear[h]
    IN
    /\ IsActiveState(p) /\ ~ IsEmpty(g)
    /\ IF IsEmpty(At(inv[p], open[p], r)) THEN \E o \in Hands \ {h} : ~ IsEmpty(inv[p].gear[o])
       ELSE At(inv[p], open[p], r).bp \in Weapons
    /\ Equipped(p, Bumped(Refreshed(PutBag([v EXCEPT !.gear[h] = s], r, g))),
                PutBox(box, open[p], r, g), r)

\* UnequipWeaponToSlot: the weapon moves first, then the magazine; nobody puts
\* away the only weapon he has.
UnequipWeapon(p, h, r) ==
    LET g == inv[p].gear[h]
        s == At(inv[p], open[p], r)
    IN
    /\ IsActiveState(p) /\ ~ IsEmpty(g)
    /\ IF IsEmpty(s) THEN \E o \in Hands \ {h} : ~ IsEmpty(inv[p].gear[o])
       ELSE s.bp \in Weapons
    /\ Equipped(p, Bumped(Unload(Refreshed(PutBag([inv[p] EXCEPT !.gear[h] = s], r, g)), h)),
                PutBox(box, open[p], r, g), r)

\* EquipArmorFromSlot and UnequipArmorToSlot.
ChangeArmor(p, r) ==
    LET g == inv[p].gear["armor"]
        s == At(inv[p], open[p], r)
    IN
    /\ IsActiveState(p)
    /\ s.bp \in Armors \/ (IsEmpty(s) /\ ~ IsEmpty(g))
    /\ Equipped(p, Bumped(Refreshed(PutBag([inv[p] EXCEPT !.gear["armor"] = s], r, g))),
                PutBox(box, open[p], r, g), r)

\* RequestSwitchWeapon.
SwitchWeapon(p, h) ==
    /\ status[p] = "in"
    /\ obj[p][h] # NoBp
    /\ hand' = [hand EXCEPT ![p] = h]
    /\ UNCHANGED <<status, inv, obj, box, open, home, owned>>

\* RequestWeaponFire, the part that uses up a round.
WeaponFire(p) ==
    /\ status[p] = "in"
    /\ inv[p].mag[hand[p]].qty > 0
    /\ inv' = [inv EXCEPT ![p].mag[hand[p]] = Less(@, 1)]
    /\ UNCHANGED <<status, obj, hand, box, open, home, owned>>

\* RequestReload.
Reload(p) ==
    /\ status[p] = "in"
    /\ inv' = [inv EXCEPT ![p] = Load(@, hand[p])]
    /\ UNCHANGED <<status, obj, hand, box, open, home, owned>>
-----------------------------------------------------------------------------
(* DetachPlayer.                                                           *)

\* A player who dies leaves a loot container and an empty inventory.
Die(p) ==
    /\ status[p] = "in"
    /\ status' = [status EXCEPT ![p] = "dead"]
    /\ box' = [box EXCEPT ![p].slots = LootOf(inv[p])]
    /\ inv' = [inv EXCEPT ![p] = Nothing(@)]
    /\ open' = [open EXCEPT ![p] = NoBox]
    /\ UNCHANGED <<obj, hand, home, owned>>

\* A disconnect, or the end of the room before the player spawned.
Vanish(p) ==
    /\ IsActiveState(p)
    /\ status' = [status EXCEPT ![p] = "gone"]
    /\ inv' = [inv EXCEPT ![p] = IF status[p] = "in" THEN Nothing(@) ELSE @]
    /\ open' = [open EXCEPT ![p] = NoBox]
    /\ owned' = [bp \in Blueprints |-> owned[bp] - Carried(inv[p], bp)]
    /\ UNCHANGED <<obj, hand, box, home>>

\* Recall: SerializeInventoryForIPC sends bag and equipment, not the rounds
\* in the magazines.
GoHome(p) ==
    /\ status[p] = "in"
    /\ status' = [status EXCEPT ![p] = "home"]
    /\ home' = [home EXCEPT ![p] = [bag |-> inv[p].bag, gear |-> inv[p].gear]]
    /\ open' = [open EXCEPT ![p] = NoBox]
    /\ UNCHANGED <<inv, obj, hand, box, owned>>

Next ==
    \E p \in Players :
      \/ SpawnMe(p) \/ WeaponFire(p) \/ Reload(p)
      \/ Die(p) \/ Vanish(p) \/ GoHome(p)
      \/ \E b \in Chests \cup Players : OpenContainer(p, b)
      \/ \E from, to \in Refs(p) : Interact(p, from, to)
      \/ \E h \in Hands : SwitchWeapon(p, h)
      \/ \E h \in Hands, r \in Refs(p) : EquipWeapon(p, h, r) \/ UnequipWeapon(p, h, r)
      \/ \E r \in Refs(p) : ChangeArmor(p, r)

Spec == Init /\ [][Next]_vars
-----------------------------------------------------------------------------
(* Properties.                                                             *)

\* Types.  A slot without a quantity has no blueprint and the other way round:
\* IsEmpty asks for both, so a slot with one of the two would be neither empty
\* nor usable (split, merge, fire and reload take quantities away).
TypeOK ==
    /\ status \in [Players -> {"loading", "in", "dead", "home", "gone"}]
    /\ \A p \in Players :
         /\ inv[p].bag \in [Bag -> Slots]
         /\ inv[p].gear \in [Gear -> Slots]
         /\ inv[p].mag \in [Hands -> Slots]
         /\ inv[p].first \in 0 .. BagSize
         /\ inv[p].ver \in 0 .. VersionMod - 1
         /\ home[p].bag \in [Bag -> Slots]
         /\ home[p].gear \in [Gear -> Slots]
    /\ obj \in [Players -> [Hands -> Blueprints \cup {NoBp}]]
    /\ hand \in [Players -> Hands]
    /\ \A b \in Chests \cup Players :
         /\ box[b].slots \in Seq(Slots)
         /\ box[b].ver \in 0 .. VersionMod - 1
    /\ open \in [Players -> Chests \cup Players \cup {NoBox}]
    /\ owned \in [Blueprints -> Nat]

\* Whatever the players do, nothing multiplies, and weapons and armours get
\* lost only with a player who is cut off: splitting, merging, swapping,
\* equipping, looting and extracting keep the quantity of every blueprint.
Conserved ==
    /\ \A a \in Ammo : Total(a) <= owned[a]
    /\ \A bp \in Weapons \cup Armors : Total(bp) = owned[bp]

\* The step is a shot of p and nothing else.
Shot(p, ammo) ==
    /\ inv'[p] = [inv[p] EXCEPT !.mag = inv'[p].mag]
    /\ Total(ammo)' = Total(ammo) - 1

\* Ammunition disappears only by a shot, with a player who leaves, or because
\* a magazine was unloaded into a bag that has no place left for it: neither a
\* free slot nor one with the same ammunition (UnloadMagazineToInventory,
\* whose cached index must not be stale).
AmmoKept ==
    [][\A a \in Ammo : Total(a)' < Total(a) =>
         \E p \in Players :
           \/ status'[p] # status[p]
           \/ Shot(p, a)
           \/ \A i \in Bag : ~ IsEmpty(inv'[p].bag[i]) /\ inv'[p].bag[i].bp # a]_vars

\* Weapon slots hold weapons and the armour slot armour, as they did at first,
\* and a magazine that is not empty is in a weapon and holds that weapon's
\* ammunition, at most maxAmmo rounds of it, after any sequence of equipping,
\* unequipping, swapping, reloading and firing (UnequipWeaponToSlot moves the
\* weapon before it unloads, so that the two do not trade places).
GearFits ==
    \A p \in Players : inv[p].gear["armor"].bp \in Armors \cup {NoBp} /\ \A h \in Hands :
      LET m == inv[p].mag[h] IN
      /\ inv[p].gear[h].bp \in Weapons \cup {NoBp}
      /\ ~ IsEmpty(m) =>
        /\ inv[p].gear[h].bp \in Weapons
        /\ m.bp = AmmoType[inv[p].gear[h].bp]
        /\ m.qty \in 1 .. MaxAmmo[inv[p].gear[h].bp]

\* The object other players see has the weapons of the inventory, and a player
\* who has a weapon holds one: equipping, looting, switching and a repeated
\* spawn do not leave him with an empty hand he cannot shoot or reload with.
HandHoldsWeapon ==
    \A p \in Players : status[p] = "in" =>
      /\ obj[p] = WeaponIds(inv[p])
      /\ obj[p][hand[p]] = NoBp => \A h \in Hands : obj[p][h] = NoBp

\* The version of a bag and its equipment, and that of a container, change
\* with every change of the content: a request made from an older picture is
\* refused.
VersionsTell ==
    [][/\ \A p \in Players : (inv'[p].bag # inv[p].bag \/ inv'[p].gear # inv[p].gear)
                             => inv'[p].ver # inv[p].ver
       /\ \A b \in Chests \cup Players :
            (box'[b].slots # box[b].slots /\ box[b].slots # <<>>) => box'[b].ver # box[b].ver]_vars
=============================================================================
