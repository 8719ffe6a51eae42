---------------------------- MODULE MCInventory ----------------------------
EXTENDS Inventory, TLC

CONSTANTS Rifle, Pistol, Vest, Slug, Round, p, q

MCAmmoType == [w \in Weapons |-> IF w = Rifle THEN Round ELSE Slug]
MCMaxAmmo  == [w \in Weapons |-> IF w = Rifle THEN 2 ELSE 1]

Of(bp, n) == [bp |-> bp, qty |-> n]

Kit(primary, secondary, armor, bag) ==
    [gear |-> [g \in Gear |-> CASE g = "primary" -> primary
                                [] g = "secondary" -> secondary
                                [] g = "armor" -> armor],
     bag |-> bag]

Bare  == Kit(Empty, Empty, Empty, <<Empty, Empty>>)
Armed == Kit(Of(Rifle, 1), Of(Pistol, 1), Empty, <<Of(Round, 3), Of(Slug, 1)>>)
Light == Kit(Of(Rifle, 1), Empty, Empty, <<Empty, Of(Round, 1)>>)

\* One player with two weapons who fills a bag of two slots at once, one with
\* nothing who finds it all in a chest, and two of whom one can loot the other.
MCStarts == {[kit |-> (p :> Armed), stock |-> <<Of(Vest, 1)>>],
             [kit |-> (p :> Bare), stock |-> <<Of(Rifle, 1), Of(Round, 3), Of(Rifle, 1)>>],
             [kit |-> (p :> Light @@ q :> Bare), stock |-> <<>>]}
=============================================================================
