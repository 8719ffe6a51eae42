------------------------------- MODULE Lobby -------------------------------
(***************************************************************************)
(* What an account owns outside and inside a match: the rows of            *)
(* user_inventory and the money of users (MySQL), the items its ticket     *)
(* carries into a game, the game itself and the way home.  The shop routes *)
(* (routes/items.js), /match/start and /match/connect (routes/match.js),   *)
(* the login sessions (routes/auth.js) and Main's NotifyPlayerLeftRequest  *)
(* all touch it.                                                           *)
(*                                                                         *)
(* One registered account.  A Node handler is split at its awaits, a MySQL *)
(* transaction that selects FOR UPDATE is one step, and so is a Lua        *)
(* script.  The races of the lock keys are the subject of MatchTicket: here*)
(* the lock and the ticket are one state, "stage".  What happens to items  *)
(* inside the room is the subject of Inventory: here a game only finds and *)
(* loses some.                                                             *)
(***************************************************************************)
EXTENDS Integers, FiniteSets

CONSTANTS
    Items, Weapons,   \* items.item_id, those of item_type WEAPON
    Equipment,        \* those of item_type WEAPON or ARMOR
    NoItem,           \* no row in a slot
    Price,            \* items.price, what the shop takes and pays
    Warehouse, Bag, Gear, \* slot_index 0-79, 80-104, 105-107
    WeaponSlots,      \* slot_index 105 and 106
    Preset,           \* FREE_LOADOUT_PRESETS: raid slots to entries
    Retries,          \* DB_RETRY_COUNT
    Orderly,          \* TRUE: the client trades and starts only when no match
                      \* of its account is open, and connects once per token
    MaxQty,           \* bound: quantity of a row
    MaxLogins,        \* bound: sessions ever made
    MaxMatches,       \* bound: tickets ever made
    MaxFinds          \* bound: items found in games

Raid  == Bag \cup Gear
Slots == Warehouse \cup Raid

\* A row of user_inventory, by its slot.
Entry(i, n) == [item |-> i, qty |-> n]
Empty   == Entry(NoItem, 0)
Entries == {Empty} \cup {Entry(i, n) : i \in Items, n \in 1 .. MaxQty}
Layouts == [Slots -> Entries]
RaidLayouts == [Raid -> Entries]
NoRaid  == [s \in Raid |-> Empty]

ASSUME SlotAssumption ==
    /\ Warehouse \cap Raid = {} /\ Bag \cap Gear = {} /\ WeaponSlots \subseteq Gear
    /\ Weapons \subseteq Equipment /\ Equipment \subseteq Items /\ NoItem \notin Items
ASSUME SizeAssumption ==
    /\ IsFiniteSet(Slots)
    /\ MaxQty \in Nat \ {0} /\ MaxLogins \in Nat \ {0} /\ Retries \in Nat \ {0}
    /\ MaxMatches \in Nat /\ MaxFinds \in Nat
ASSUME PresetAssumption == Preset \in RaidLayouts /\ Price \in [Items -> Nat]

VARIABLES
    rows,   \* user_inventory
    money,  \* users.money
    live,   \* sess_<uuid> hashes that exist
    named,  \* user_sess:<id>: the session it names, 0 when absent
    minted, \* sessions made so far; the newest is session number minted
    signup, \* POST /signup: NEW, HASHED (user_sess not yet set) or DONE
    req,    \* the request in flight, behind requireAuth
    match,  \* lock and ticket of the current match; taken: /connect gave its key
    token,  \* loadout_type of the last entry token, NONE when there is none
    game,   \* the seat in a Dedicate process and what it carries
    home,   \* the NotifyPlayerLeftRequest on its way
    found,  \* history: worth of what games gave to the account
    finds   \* history: items found, tickets made

vars == <<rows, money, live, named, minted, signup, req, match, token, game, home, found, finds>>
acctVars  == <<live, named, minted, signup>>
matchVars == <<match, token, game, home, found, finds>>
-----------------------------------------------------------------------------
RaidOf(rs) == [s \in Raid |-> rs[s]]
Join(rs, raid) == [s \in Slots |-> IF s \in Raid THEN raid[s] ELSE rs[s]]

EntryWorth(e) == IF e = Empty THEN 0 ELSE e.qty * Price[e.item]

\* The single items of the rows, each with the coins it is worth: a total is
\* the number of them.
Units(rs)  == {u \in (DOMAIN rs) \X (1 .. MaxQty) : u[2] <= rs[u[1]].qty}
Coins(rs)  == UNION {{u} \X (1 .. Price[rs[u[1]].item]) : u \in Units(rs)}
Worth(rs)  == Cardinality(Coins(rs))
Totals(rs) == [i \in Items |-> Cardinality({u \in Units(rs) : rs[u[1]].item = i})]

\* totalsMatch: a client may send any layout with the totals of the rows.
Arrangements == {<<Totals(l), l>> : l \in Layouts}
Snapshots    == LET t == Totals(rows) IN {a[2] : a \in {x \in Arrangements : x[1] = t}}

NoMatch == [stage |-> "NONE", loadout |-> "FREE", carry |-> NoRaid, taken |-> FALSE]
NoGame  == [state |-> "NONE", bag |-> NoRaid]
NoHome  == [state |-> "NONE", slots |-> NoRaid, tries |-> 0]
Request(pc, loadout, carry) == [pc |-> pc, loadout |-> loadout, carry |-> carry]
Idle    == Request("IDLE", "FREE", NoRaid)
At(pc)  == Request(pc, "FREE", NoRaid)

Init ==
    /\ rows = [s \in Slots |-> Empty] /\ money = 0
    /\ live = {} /\ named = 0 /\ minted = 0 /\ signup = "NEW"
    /\ req = Idle /\ match = NoMatch /\ token = "NONE" /\ game = NoGame /\ home = NoHome
    /\ found = 0 /\ finds = [items |-> 0, matches |-> 0]
-----------------------------------------------------------------------------
(* Sessions.                                                               *)

Fresh == minted + 1

\* POST /signup: the row of users and the session hash ...
Signup ==
    /\ signup = "NEW"
    /\ signup' = "HASHED" /\ minted' = Fresh /\ live' = live \cup {Fresh}
    /\ UNCHANGED <<rows, money, named, req, matchVars>>

\* ... and, an await later, user_sess:<id>.
SignupNames ==
    /\ signup = "HASHED"
    /\ signup' = "DONE" /\ named' = 1
    /\ UNCHANGED <<rows, money, live, minted, req, matchVars>>

\* The lock of a WAITING ticket goes with it, the lock of an expired one as well.
Released(m) == IF m.stage \in {"WAITING", "EXPIRED"} THEN NoMatch ELSE m

\* Mutant: the session of the other client is left alone.
LoginKeepsOld ==
    /\ signup \in (IF Orderly THEN {"DONE"} ELSE {"HASHED", "DONE"})
    /\ minted < MaxLogins
    /\ match.stage \notin {"MATCHED", "INGAME"}
    /\ match' = Released(match)
    /\ live' = live \cup {Fresh} /\ named' = Fresh /\ minted' = Fresh
    /\ UNCHANGED <<rows, money, signup, req, token, game, home, found, finds>>

\* POST /login, script loginTakeover: refused once a match is committed.
Login ==
    /\ signup \in (IF Orderly THEN {"DONE"} ELSE {"HASHED", "DONE"})
    /\ minted < MaxLogins
    /\ match.stage \notin {"MATCHED", "INGAME"}
    /\ match' = Released(match)
    /\ live' = (live \ {named}) \cup {Fresh} /\ named' = Fresh /\ minted' = Fresh
    /\ UNCHANGED <<rows, money, signup, req, token, game, home, found, finds>>

\* POST /logout, script logout.
Logout(s) ==
    /\ s \in live
    /\ live' = live \ {s} /\ named' = IF named = s THEN 0 ELSE named
    /\ UNCHANGED <<rows, money, minted, signup, req, matchVars>>

\* Every EXPIRE of a session comes with one of user_sess, which is not earlier.
SessionExpires(s) ==
    /\ s \in live
    /\ live' = live \ {s}
    /\ UNCHANGED <<rows, money, named, minted, signup, req, matchVars>>

NameExpires ==
    /\ named # 0 /\ named \notin live
    /\ named' = 0
    /\ UNCHANGED <<rows, money, live, minted, signup, req, matchVars>>
-----------------------------------------------------------------------------
(* Requests.  requireAuth finds the session; the body runs later, even if  *)
(* the session is taken over meanwhile.                                    *)

NothingOpen == match.stage = "NONE" /\ game = NoGame /\ home = NoHome

Auth(kind) ==
    /\ req = Idle /\ live # {}
    /\ Orderly /\ kind \in {"PURCHASE", "SELL", "START"} => NothingOpen
    /\ Orderly /\ kind = "CONNECT" => match.stage = "INGAME" /\ ~ match.taken
    /\ req' = At(kind)
    /\ UNCHANGED <<rows, money, acctVars, matchVars>>

\* Any 4xx answer, and any exception up to the last await that changes state.
Refuse ==
    /\ req # Idle
    /\ req' = Idle
    /\ UNCHANGED <<rows, money, acctVars, matchVars>>

\* Mutant: the balance is not looked at.
PurchaseOnCredit ==
    /\ req.pc = "PURCHASE"
    /\ \E l \in Snapshots, w \in Warehouse, i \in Items, n \in 1 .. MaxQty :
          /\ l[w] = Empty
          /\ i \in Equipment => n = 1
          /\ rows' = [l EXCEPT ![w] = Entry(i, n)]
          /\ money' = money - n * Price[i]
    /\ req' = Idle
    /\ UNCHANGED <<acctVars, matchVars>>

\* POST /items/purchase: the snapshot replaces the rows, the item comes on top.
Purchase ==
    /\ req.pc = "PURCHASE"
    /\ \E l \in Snapshots, w \in Warehouse, i \in Items, n \in 1 .. MaxQty :
          /\ l[w] = Empty
          /\ i \in Equipment => n = 1
          /\ n * Price[i] <= money
          /\ rows' = [l EXCEPT ![w] = Entry(i, n)]
          /\ money' = money - n * Price[i]
    /\ req' = Idle
    /\ UNCHANGED <<acctVars, matchVars>>

\* POST /items/sell: a whole slot of the snapshot.
Sell ==
    /\ req.pc = "SELL"
    /\ \E l \in Snapshots, s \in Slots :
          /\ l[s] # Empty
          /\ rows' = [l EXCEPT ![s] = Empty]
          /\ money' = money + EntryWorth(l[s])
    /\ req' = Idle
    /\ UNCHANGED <<acctVars, matchVars>>

\* What the ticket names: a stack in a gear slot enters the game as one item.
CarryOf(l) == [s \in Raid |-> IF s \in Gear /\ l[s] # Empty THEN Entry(l[s].item, 1) ELSE l[s]]

Armed(l) == \E s \in WeaponSlots : l[s].item \in Weapons

\* Mutant: the ticket takes its items from the snapshot, the rows stay as they were.
StartKeepsRows ==
    /\ req.pc = "START"
    /\ \E l \in Snapshots :
          \/ RaidOf(l) = NoRaid /\ req' = Request("LOCK", "FREE", Preset)
          \/ Armed(l) /\ req' = Request("LOCK", "CUSTOM", CarryOf(l))
    /\ UNCHANGED <<rows, money, acctVars, matchVars>>

\* POST /match/start: the transaction rewrites the rows as the snapshot has
\* them, before anything looks at the lock.
Start ==
    /\ req.pc = "START"
    /\ \E l \in Snapshots :
          /\ rows' = l
          /\ \/ RaidOf(l) = NoRaid /\ req' = Request("LOCK", "FREE", Preset)
             \/ Armed(l) /\ req' = Request("LOCK", "CUSTOM", CarryOf(l))
    /\ UNCHANGED <<money, acctVars, matchVars>>

\* SET NX of the lock and HSET of the ticket; Refuse is the answer of a lock
\* that is held.
StartLock ==
    /\ req.pc = "LOCK" /\ match.stage = "NONE" /\ finds.matches < MaxMatches
    /\ match' = [stage |-> "WAITING", loadout |-> req.loadout, carry |-> req.carry, taken |-> FALSE]
    /\ finds' = [finds EXCEPT !.matches = @ + 1]
    /\ req' = Idle
    /\ UNCHANGED <<rows, money, acctVars, token, game, home, found>>

\* POST /match/cancel.
Cancel ==
    /\ req.pc = "CANCEL" /\ match.stage \in {"WAITING", "EXPIRED"}
    /\ match' = Released(match) /\ req' = Idle
    /\ UNCHANGED <<rows, money, acctVars, token, game, home, found, finds>>

\* POST /match/connect reads the token ...
Connect ==
    /\ req.pc = "CONNECT" /\ token # "NONE"
    /\ req' = Request("TAKE", token, NoRaid)
    /\ UNCHANGED <<rows, money, acctVars, matchVars>>

\* Mutant: the carried items stay in the rows.
TakeNothing ==
    /\ req.pc = "TAKE"
    /\ match' = [match EXCEPT !.taken = (match.stage = "INGAME")] /\ req' = Idle
    /\ UNCHANGED <<rows, money, acctVars, token, game, home, found, finds>>

\* ... deletes the carried rows, then answers with the key of the seat.
Take ==
    /\ req.pc = "TAKE"
    /\ rows' = IF req.loadout = "CUSTOM" THEN Join(rows, NoRaid) ELSE rows
    /\ match' = [match EXCEPT !.taken = (match.stage = "INGAME")] /\ req' = Idle
    /\ UNCHANGED <<money, acctVars, token, game, home, found, finds>>
-----------------------------------------------------------------------------
(* The match: matchmaking, the game, the departure.                        *)

TicketExpires ==
    /\ match.stage = "WAITING"
    /\ match' = [match EXCEPT !.stage = "EXPIRED"]
    /\ UNCHANGED <<rows, money, acctVars, req, token, game, home, found, finds>>

\* The 900 seconds of the lock end; a game is over long before.
LockExpires ==
    /\ match.stage = "EXPIRED"
    /\ match' = NoMatch
    /\ UNCHANGED <<rows, money, acctVars, req, token, game, home, found, finds>>

Commit ==
    /\ match.stage = "WAITING"
    /\ match' = [match EXCEPT !.stage = "MATCHED"]
    /\ UNCHANGED <<rows, money, acctVars, req, token, game, home, found, finds>>

\* DistributePlayerGroup has no process for the group: WAITING again.
GiveBack ==
    /\ match.stage = "MATCHED"
    /\ match' = [match EXCEPT !.stage = "WAITING"]
    /\ UNCHANGED <<rows, money, acctVars, req, token, game, home, found, finds>>

\* Handle_M2D_MakeRoomForThisGroup makes the seat, UpdateEntryTokenRequest the
\* token and the INGAME mark of the lock.
Seat ==
    /\ match.stage = "MATCHED"
    /\ match' = [match EXCEPT !.stage = "INGAME"]
    /\ token' = match.loadout
    /\ game' = [state |-> "SEAT", bag |-> match.carry]
    /\ UNCHANGED <<rows, money, acctVars, req, home, found, finds>>

\* Main deletes the token when the bind message of a /match/connect reaches it;
\* else its TTL does, maybe after the game.
TokenGone ==
    /\ token # "NONE"
    /\ token' = "NONE"
    /\ UNCHANGED <<rows, money, acctVars, req, match, game, home, found, finds>>

\* The client uses the key that /match/connect gave it.
EnterGame ==
    /\ game.state = "SEAT" /\ match.taken
    /\ game' = [game EXCEPT !.state = "JOINED"]
    /\ found' = IF match.loadout = "FREE" THEN found + Worth(Preset) ELSE found
    /\ UNCHANGED <<rows, money, acctVars, req, match, token, home, finds>>

Find ==
    /\ game.state = "JOINED" /\ finds.items < MaxFinds
    /\ \E s \in Bag, i \in Items :
          /\ game.bag[s] = Empty
          /\ game' = [game EXCEPT !.bag[s] = Entry(i, 1)]
          /\ found' = found + Price[i]
    /\ finds' = [finds EXCEPT !.items = @ + 1]
    /\ UNCHANGED <<rows, money, acctVars, req, match, token, home>>

Lose(s) ==
    /\ game.state = "JOINED" /\ game.bag[s] # Empty
    /\ game' = [game EXCEPT !.bag[s] = Empty]
    /\ UNCHANGED <<rows, money, acctVars, req, match, token, home, found, finds>>

\* DetachPlayer: only who was recalled takes anything home.
Leave ==
    /\ game # NoGame
    /\ \E slots \in {NoRaid} \cup (IF game.state = "JOINED" THEN {game.bag} ELSE {}) :
          home' = [state |-> "APPLY", slots |-> slots, tries |-> 0]
    /\ game' = NoGame
    /\ UNCHANGED <<rows, money, acctVars, req, match, token, found, finds>>

\* Mutant: the DELETE has no lower bound on slot_index.
ApplyDeletesAll ==
    /\ home.state = "APPLY"
    /\ rows' = Join([s \in Slots |-> Empty], home.slots)
    /\ home' = [home EXCEPT !.state = "UNLOCK"]
    /\ UNCHANGED <<money, acctVars, req, match, token, game, found, finds>>

\* Mutant: the lock is released before MySQL has the inventory.
ApplyUnlocksFirst ==
    /\ home.state = "APPLY"
    /\ match' = NoMatch
    /\ \/ match # NoMatch /\ UNCHANGED <<rows, home>>
       \/ /\ match = NoMatch
          /\ rows' = Join(rows, home.slots) /\ home' = [home EXCEPT !.state = "UNLOCK"]
    /\ UNCHANGED <<money, acctVars, req, token, game, found, finds>>

\* NotifyPlayerLeftRequest::ApplyInventoryToDb, the commit ...
Apply ==
    /\ home.state = "APPLY"
    /\ rows' = Join(rows, home.slots)
    /\ home' = [home EXCEPT !.state = "UNLOCK"]
    /\ UNCHANGED <<money, acctVars, req, match, token, game, found, finds>>

\* ... or an exception: tried DB_RETRY_COUNT times, then given up.
ApplyFails ==
    /\ home.state = "APPLY"
    /\ home' = [home EXCEPT !.tries = @ + 1,
                            !.state = IF home.tries + 1 < Retries THEN "APPLY" ELSE "UNLOCK"]
    /\ UNCHANGED <<rows, money, acctVars, req, match, token, game, found, finds>>

\* NotifyPlayerLeftRequest::Execute deletes the lock after that.
Unlock ==
    /\ home.state = "UNLOCK"
    /\ home' = NoHome /\ match' = NoMatch
    /\ UNCHANGED <<rows, money, acctVars, req, token, game, found, finds>>

Next ==
    \/ Signup \/ SignupNames \/ Login \/ NameExpires
    \/ \E s \in live : Logout(s) \/ SessionExpires(s)
    \/ \E kind \in {"PURCHASE", "SELL", "START", "CANCEL", "CONNECT"} : Auth(kind)
    \/ Refuse \/ Purchase \/ Sell \/ Start \/ StartLock \/ Cancel \/ Connect \/ Take
    \/ TicketExpires \/ LockExpires \/ Commit \/ GiveBack \/ Seat \/ TokenGone \/ EnterGame \/ Find
    \/ \E s \in Raid : Lose(s)
    \/ Leave \/ Apply \/ ApplyFails \/ Unlock

Spec == Init /\ [][Next]_vars
-----------------------------------------------------------------------------
Stages == {"NONE", "WAITING", "EXPIRED", "MATCHED", "INGAME"}
Loadouts == {"FREE", "CUSTOM"}

\* Types of the rows, the balance (INT UNSIGNED: a purchase never overdraws it)
\* and the keys.
TypeOK ==
    /\ rows \in Layouts /\ money \in Nat
    /\ live \subseteq 1 .. MaxLogins /\ named \in 0 .. MaxLogins /\ minted \in 0 .. MaxLogins
    /\ signup \in {"NEW", "HASHED", "DONE"}
    /\ req \in [pc : {"IDLE", "PURCHASE", "SELL", "START", "LOCK", "CANCEL", "CONNECT", "TAKE"},
                loadout : Loadouts, carry : RaidLayouts]
    /\ match \in [stage : Stages, loadout : Loadouts, carry : RaidLayouts, taken : BOOLEAN]
    /\ token \in {"NONE"} \cup Loadouts
    /\ game \in [state : {"NONE", "SEAT", "JOINED"}, bag : RaidLayouts]
    /\ home \in [state : {"NONE", "APPLY", "UNLOCK"}, slots : RaidLayouts, tries : 0 .. Retries]
    /\ found \in Nat /\ finds \in [items : 0 .. MaxFinds, matches : 0 .. MaxMatches]

\* Nothing is made out of nothing: money, rows, the bag of the game and the
\* bag on its way home are together never worth more than what games gave, in
\* whatever order the shop, /match/connect and the departure handle them.
Conserved ==
    money + Worth(rows)
          + (IF game.state = "JOINED" THEN Worth(game.bag) ELSE 0)
          + (IF home.state = "APPLY" THEN Worth(home.slots) ELSE 0)
        <= found

\* Until /match/connect takes them, the rows hold the items the ticket of a
\* CUSTOM match carries, in the slots it names.
CarryBacked ==
    match.stage # "NONE" /\ match.loadout = "CUSTOM" /\ ~ match.taken /\ home = NoHome
        => CarryOf(rows) = match.carry

\* While a seat exists or an inventory is on its way to MySQL, the account is
\* locked: no /match/start can get a ticket for rows about to be replaced.
LockCoversReturn ==
    game # NoGame \/ home.state = "APPLY" => match.stage = "INGAME"

\* An account has one session: the one user_sess names, which the next login
\* will find and evict.
OneSession == signup = "DONE" => live \subseteq {named}

\* A match never touches the warehouse, from the lock to the departure.
WarehouseKept ==
    [][req.pc \notin {"PURCHASE", "SELL", "START"}
          => \A s \in Warehouse : rows'[s] = rows[s]]_vars
=============================================================================
