SPECIFICATION Spec
CONSTANTS
    dflt = dflt
    rifle = rifle
    shotgun = shotgun
    launcher = launcher
    plasma = plasma
    nullptr = nullptr
    DefaultWeapon = dflt
    Weapons <- TwoRifles
    WeaponType <- TwoRiflesType
    WeaponTable <- GrenadeTable
    StartingAmmoVal = 2
    FragileTarget = TRUE
CHECK_DEADLOCK FALSE
INVARIANTS TypeOK InventoryConsistent FireTimerArmed
PROPERTIES AmmoOnlyFromPickups
