SPECIFICATION Spec
CONSTANTS
    Players = {p, q}
    p = p
    q = q
    Chests = {chest}
    Rifle = Rifle
    Pistol = Pistol
    Vest = Vest
    Slug = Slug
    Round = Round
    Weapons = {Rifle, Pistol}
    Armors = {Vest}
    Ammo = {Round, Slug}
    NoBp = NoBp
    NoBox = NoBox
    AmmoType <- MCAmmoType
    MaxAmmo <- MCMaxAmmo
    BagSize = 2
    LootSize = 7
    VersionMod = 2
    Starts <- MCStarts
INVARIANTS TypeOK Conserved GearFits HandHoldsWeapon
PROPERTIES AmmoKept VersionsTell
CHECK_DEADLOCK FALSE
