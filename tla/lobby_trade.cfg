CONSTANTS
    Gun = Gun
    Kit = Kit
    b1 = b1
    g1 = g1
    Items = {Gun, Kit}
    Weapons = {Gun}
    Equipment = {Gun}
    NoItem = NoItem
    Price <- MCPrice
    Warehouse = {w1, w2}
    Bag = {b1}
    Gear = {g1}
    WeaponSlots = {g1}
    Preset <- MCPreset
    Retries = 2
    Orderly = FALSE
    MaxQty = 2
    MaxLogins = 2
    MaxMatches = 2
    MaxFinds = 1
SPECIFICATION Spec
INVARIANT CarryBacked
CHECK_DEADLOCK FALSE
