SPECIFICATION FairSpec
CONSTANTS
    dflt = dflt
    rifle = rifle
    shotgun = shotgun
    launcher = launcher
    plasma = plasma
    nullptr = nullptr
    DefaultWeapon = dflt
    Weapons <- Arsenal
    WeaponType <- ArsenalType
    WeaponTable <- Table
    StartingAmmoVal = 2
    FragileTarget = FALSE
INVARIANTS NoCrash
PROPERTIES ImplementsArmory Recovers FullAutoDrains
