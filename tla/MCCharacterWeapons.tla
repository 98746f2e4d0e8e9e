------------------------- MODULE MCCharacterWeapons -------------------------
(***************************************************************************)
(* Levels on which CharacterWeapons is model-checked.                      *)
(***************************************************************************)
EXTENDS CharacterWeapons, TLC

CONSTANTS dflt, rifle, shotgun, launcher, plasma

(***************************************************************************)
(* One row per weapon type.  The rifle is the full-auto weapon, the        *)
(* shotgun fires bursts, the launcher is semi-automatic and uses the kind  *)
(* of ammunition AmmoMap starts without.                                   *)
(***************************************************************************)
Table ==
    [t \in WeaponTypes |->
        CASE t = "Rifle" ->
               [AmmoType |-> "Rifle", WeaponAmmo |-> 1, NumberOfShots |-> 1,
                FireMode |-> "FullAuto", AutoFireRate |-> 600, Hitscan |-> TRUE]
          [] t = "Shotgun" ->
               [AmmoType |-> "Shotgun", WeaponAmmo |-> 2, NumberOfShots |-> 3,
                FireMode |-> "Burst", AutoFireRate |-> 60, Hitscan |-> TRUE]
          [] t = "RocketLauncher" ->
               [AmmoType |-> "Grenade", WeaponAmmo |-> 1, NumberOfShots |-> 1,
                FireMode |-> "Semi", AutoFireRate |-> 30, Hitscan |-> FALSE]
          [] t = "PlasmaGun" ->
               [AmmoType |-> "Plasma", WeaponAmmo |-> 1, NumberOfShots |-> 1,
                FireMode |-> "Semi", AutoFireRate |-> 0, Hitscan |-> FALSE]]

(***************************************************************************)
(* A rifle that launches grenades, the kind AmmoMap starts without.        *)
(***************************************************************************)
GrenadeTable ==
    [Table EXCEPT !["Rifle"].AmmoType = "Grenade", !["Rifle"].WeaponAmmo = 2]

(***************************************************************************)
(* The character brings a rifle and the level holds a second one, and a    *)
(* plasma gun whose row has no rate of fire.                               *)
(***************************************************************************)
TwoRifles == {dflt, rifle, shotgun, plasma}
TwoRiflesType == (dflt :> "Rifle") @@ (rifle :> "Rifle") @@ (shotgun :> "Shotgun")
                 @@ (plasma :> "PlasmaGun")

(***************************************************************************)
(* Every weapon of the level has a type of its own.                        *)
(***************************************************************************)
Arsenal == {dflt, shotgun, launcher}
ArsenalType ==
    (dflt :> "Rifle") @@ (shotgun :> "Shotgun") @@ (launcher :> "RocketLauncher")
=============================================================================
