SPECIFICATION Spec
CONSTANTS
    dflt = dflt
    rifle = rifle
    shotgun = shotgun
    launcher = launcher
    plasma = plasma
    nullptr = nullptr
    DefaultWeapon = nullptr
    Weapons <- Arsenal
    WeaponType <- ArsenalType
    WeaponTable <- Table
    StartingAmmoVal = 1
    FragileTarget = FALSE
CHECK_DEADLOCK FALSE
INVARIANTS CrashOnlyEmptyHanded
