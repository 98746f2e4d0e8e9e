----------------------- MODULE CharacterWeaponsProofs -----------------------
(***************************************************************************)
(* What TLAPS proves of CharacterWeapons, for every set of weapons, every  *)
(* weapon table and every starting ammunition.                             *)
(***************************************************************************)
EXTENDS CharacterWeapons, TLAPS

(***************************************************************************)
(* The row of a weapon has the columns of the table.                       *)
(***************************************************************************)
LEMMA RowType ==
    \A w \in Weapons : /\ WeaponType[w] \in WeaponTypes
                       /\ Row(w) \in WeaponRows
                       /\ Row(w).AmmoType \in AmmoTypes
                       /\ Row(w).WeaponAmmo \in Nat
                       /\ Row(w).NumberOfShots \in Nat
                       /\ Row(w).AutoFireRate \in Nat
  BY WeaponsAssumption DEF Row, WeaponRows

(***************************************************************************)
(* A weapon that passes the tests of OnFire can pay for its volley.        *)
(***************************************************************************)
LEMMA VolleyIsPaid ==
    ASSUME NEW w \in Weapons, NEW start, NEW can, TypeOK, MayFire(w, start, can),
           DecrementInventoryValue(Row(w).AmmoType, Row(w).NumberOfShots)
    PROVE  /\ AmmoMap' \in [AmmoTypes -> Nat]
           /\ \A t \in AmmoTypes : AmmoMap'[t] <= AmmoMap[t]
           /\ AmmoMap[Row(w).AmmoType] > 0
           /\ Spent(Row(w).AmmoType, Row(w).NumberOfShots)
                 \in 0 .. AmmoMap[Row(w).AmmoType]
<1> DEFINE t == Row(w).AmmoType
           n == Row(w).NumberOfShots
<1>1. t \in AmmoTypes /\ n \in Nat
  BY RowType
<1>2. AmmoMap \in [AmmoTypes -> Nat] /\ AmmoMap[t] > 0
  BY <1>1 DEF TypeOK, MayFire, GetAmmo
<1>3. Spent(t, n) \in 0 .. AmmoMap[t]
  BY <1>1, <1>2 DEF Spent
<1>4. AmmoMap' = [AmmoMap EXCEPT ![t] = @ - Spent(t, n)]
  BY DEF DecrementInventoryValue
<1> HIDE DEF t, n
<1>5. /\ AmmoMap' \in [AmmoTypes -> Nat]
      /\ \A u \in AmmoTypes : AmmoMap'[u] <= AmmoMap[u]
  BY <1>1, <1>2, <1>3, <1>4
<1>6. QED
  BY <1>2, <1>3, <1>5 DEF t, n

(***************************************************************************)
(* A pickup leaves the ammunition well typed.                              *)
(***************************************************************************)
LEMMA PickupIsAmmo ==
    ASSUME NEW w \in Weapons, TypeOK,
           AddAmmoOfType(Row(w).AmmoType, Row(w).WeaponAmmo)
    PROVE  /\ AmmoMap' \in [AmmoTypes -> Nat]
           /\ ammoKeys' \subseteq AmmoTypes
<1>1. Row(w).AmmoType \in AmmoTypes /\ Row(w).WeaponAmmo \in Nat
  BY RowType
<1>2. GetAmmo(Row(w).AmmoType) \in Nat
  BY <1>1 DEF TypeOK, GetAmmo
<1>3. QED
  BY <1>1, <1>2 DEF TypeOK, AddAmmoOfType

(***************************************************************************)
(* What a callback that may fire does to the state: the outcomes of OnFire.*)
(***************************************************************************)
LEMMA OnFireOutcome ==
    ASSUME NEW w \in Weapons, TypeOK, NEW start \in SUBSET Weapons,
           NEW can \in SUBSET Weapons, NEW timers \in SUBSET Weapons,
           OnFire(w, start, can, timers)
    PROVE  /\ AmmoMap' \in [AmmoTypes -> Nat]
           /\ canFire' \in {can, can \ {w}}
           /\ fireTimer' \in {timers, timers \cup {w}, timers \ {w}}
           /\ crashed' \in BOOLEAN
<1>1. CASE MayFire(w, start, can) /\ Volley(w, can, timers)
  <2>1. CASE DecrementInventoryValue(Row(w).AmmoType, Row(w).NumberOfShots)
    BY <1>1, <2>1, VolleyIsPaid DEF Volley, Rearmed, TypeOK
  <2>2. CASE crashed' = TRUE /\ fireTimer' = timers /\ UNCHANGED AmmoMap
    BY <1>1, <2>2 DEF Volley, TypeOK
  <2>3. QED
    BY <1>1, <2>1, <2>2 DEF Volley
<1>2. CASE canFire' = can /\ fireTimer' = timers /\ UNCHANGED <<AmmoMap, crashed>>
  BY <1>2 DEF TypeOK
<1>3. QED
  BY <1>1, <1>2 DEF OnFire

-----------------------------------------------------------------------------
(***************************************************************************)
(* Type correctness: in particular AmmoMap never holds a negative count,   *)
(* although DecrementInventoryValue only tests for zero in a burst.        *)
(***************************************************************************)
LEMMA TypeInit == Init => TypeOK
<1> SUFFICES ASSUME Init PROVE TypeOK
  OBVIOUS
<1>1. AmmoMap \in [AmmoTypes -> Nat]
  BY WeaponsAssumption DEF Init
<1>2. /\ EquippedWeapon \in Weapons \cup {nullptr}
      /\ WeaponInventory \in [WeaponTypes -> Weapons \cup {nullptr}]
      /\ ammoKeys \subseteq AmmoTypes
  BY DEF Init
<1>3. /\ actor \in [Weapons -> {"unspawned", "placed", "playing", "destroyed"}]
      /\ ItemState \in [Weapons -> ItemStates]
  BY DEF Init, ItemStates
<1>4. QED
  BY <1>1, <1>2, <1>3 DEF Init, TypeOK

LEMMA TypeStep == TypeOK /\ [Next]_vars => TypeOK'
<1> SUFFICES ASSUME TypeOK, [Next]_vars PROVE TypeOK'
  OBVIOUS
<1> USE RowType
<1>1. CASE BeginPlayUnarmed
  BY <1>1 DEF BeginPlayUnarmed, TypeOK, item, firing
<1>2. ASSUME NEW overlapping \in BOOLEAN, BeginPlayArmed(overlapping) PROVE TypeOK'
  <2>1. DefaultWeapon \in Weapons
    BY <1>2, WeaponsAssumption DEF BeginPlayArmed
  <2>2. AmmoMap' \in [AmmoTypes -> Nat] /\ ammoKeys' \subseteq AmmoTypes
    BY <1>2, <2>1, PickupIsAmmo DEF BeginPlayArmed, TypeOK
  <2>3. WeaponInventory' \in [WeaponTypes -> Weapons \cup {nullptr}]
        /\ owned' \subseteq Weapons
    BY <1>2, <2>1 DEF BeginPlayArmed, AddWeaponToInventory, TypeOK
  <2>4. QED
    BY <1>2, <2>1, <2>2, <2>3
    DEF BeginPlayArmed, LeaveMap, TypeOK, firing, ItemStates
<1>3. CASE BeginPlayCrash
  BY <1>3 DEF BeginPlayCrash, Crash, TypeOK, character, item, firing
<1>4. ASSUME NEW w \in Weapons, WeaponBeginPlay(w) PROVE TypeOK'
  BY <1>4 DEF WeaponBeginPlay, TypeOK, character, firing
<1>5. ASSUME NEW w \in Weapons, WeaponBeginPlayAndTake(w) PROVE TypeOK'
  <2>1. AmmoMap' \in [AmmoTypes -> Nat] /\ ammoKeys' \subseteq AmmoTypes
    BY <1>5, PickupIsAmmo DEF WeaponBeginPlayAndTake
  <2>2. QED
    BY <1>5, <2>1
    DEF WeaponBeginPlayAndTake, AddWeaponToInventory, TypeOK, firing, ItemStates
<1>6. ASSUME NEW w \in Weapons, WeaponBeginPlayAndDestroy(w) PROVE TypeOK'
  <2>1. AmmoMap' \in [AmmoTypes -> Nat] /\ ammoKeys' \subseteq AmmoTypes
    BY <1>6, PickupIsAmmo DEF WeaponBeginPlayAndDestroy
  <2>2. QED
    BY <1>6, <2>1 DEF WeaponBeginPlayAndDestroy, TypeOK, firing
<1>7. ASSUME NEW w \in Weapons, TakeWeapon(w) PROVE TypeOK'
  <2>1. AmmoMap' \in [AmmoTypes -> Nat] /\ ammoKeys' \subseteq AmmoTypes
    BY <1>7, PickupIsAmmo DEF TakeWeapon
  <2>2. QED
    BY <1>7, <2>1
    DEF TakeWeapon, AddWeaponToInventory, LeaveMap, TypeOK, firing, ItemStates
<1>8. ASSUME NEW w \in Weapons, TakeAmmoOnly(w) PROVE TypeOK'
  <2>1. AmmoMap' \in [AmmoTypes -> Nat] /\ ammoKeys' \subseteq AmmoTypes
    BY <1>8, PickupIsAmmo DEF TakeAmmoOnly
  <2>2. QED
    BY <1>8, <2>1 DEF TakeAmmoOnly, TypeOK, firing
<1>9. ASSUME NEW w \in Weapons, OscillateCallback(w) PROVE TypeOK'
  BY <1>9 DEF OscillateCallback, TypeOK, character, firing
<1>10. ASSUME NEW w \in Weapons, AutoFireReset(w) PROVE TypeOK'
  <2>1. /\ AmmoMap' \in [AmmoTypes -> Nat]
        /\ canFire' \subseteq Weapons
        /\ fireTimer' \subseteq Weapons
        /\ crashed' \in BOOLEAN
    <3>1. CASE OnFire(w, startFiring, canFire \cup {w}, fireTimer \ {w})
      <4>1. /\ canFire \cup {w} \in SUBSET Weapons
            /\ fireTimer \ {w} \in SUBSET Weapons
            /\ startFiring \in SUBSET Weapons
        BY DEF TypeOK
      <4>2. /\ AmmoMap' \in [AmmoTypes -> Nat]
            /\ canFire' \in {canFire \cup {w}, (canFire \cup {w}) \ {w}}
            /\ fireTimer' \in {fireTimer \ {w}, (fireTimer \ {w}) \cup {w},
                               (fireTimer \ {w}) \ {w}}
            /\ crashed' \in BOOLEAN
        BY <3>1, <4>1, OnFireOutcome, Zenon
      <4>3. QED
        BY <4>1, <4>2
    <3>2. CASE /\ canFire' = canFire \cup {w}
               /\ fireTimer' = fireTimer \ {w}
               /\ UNCHANGED <<AmmoMap, crashed>>
      BY <3>2 DEF TypeOK
    <3>3. QED
      BY <1>10, <3>1, <3>2 DEF AutoFireReset
  <2>2. QED
    BY <1>10, <2>1 DEF AutoFireReset, TypeOK, item
<1>11. ASSUME NEW t \in WeaponTypes, EquipFirst(t) PROVE TypeOK'
  BY <1>11 DEF EquipFirst, AlreadyHasWeapon, LeaveMap, TypeOK, firing, ItemStates
<1>12. ASSUME NEW t \in WeaponTypes, EquipFirstCrash(t) PROVE TypeOK'
  BY <1>12 DEF EquipFirstCrash, Crash, TypeOK, character, item, firing
<1>13. ASSUME NEW t \in WeaponTypes, SwapWeapons(t) PROVE TypeOK'
  BY <1>13 DEF SwapWeapons, Swapping, AlreadyHasWeapon, LeaveMap, TypeOK, firing, ItemStates
<1>14. CASE PrimaryFireButtonPressed
  <2>1. CASE UNCHANGED <<firing, AmmoMap, crashed>>
    BY <1>14, <2>1 DEF PrimaryFireButtonPressed, TypeOK, item, firing
  <2>2. CASE /\ EquippedWeapon # nullptr
             /\ startFiring' = startFiring \cup {EquippedWeapon}
             /\ OnFire(EquippedWeapon, startFiring \cup {EquippedWeapon},
                       canFire, fireTimer)
    <3>1. EquippedWeapon \in Weapons
      BY <2>2 DEF TypeOK
    <3>2. /\ startFiring \cup {EquippedWeapon} \in SUBSET Weapons
          /\ canFire \in SUBSET Weapons
          /\ fireTimer \in SUBSET Weapons
      BY <3>1 DEF TypeOK
    <3>3. /\ AmmoMap' \in [AmmoTypes -> Nat]
          /\ canFire' \subseteq Weapons
          /\ fireTimer' \subseteq Weapons
          /\ crashed' \in BOOLEAN
      BY <2>2, <3>1, <3>2, OnFireOutcome
    <3>4. QED
      BY <1>14, <2>2, <3>1, <3>2, <3>3 DEF PrimaryFireButtonPressed, TypeOK, item
  <2>3. QED
    BY <1>14, <2>1, <2>2 DEF PrimaryFireButtonPressed
<1>15. CASE PressedCrash
  BY <1>15 DEF PressedCrash, Crash, TypeOK, character, item, firing
<1>16. CASE PrimaryFireButtonReleased
  BY <1>16 DEF PrimaryFireButtonReleased, TypeOK, item
<1>17. CASE ReleasedCrash
  BY <1>17 DEF ReleasedCrash, Crash, TypeOK, character, item, firing
<1>18. CASE UNCHANGED vars
  BY <1>18 DEF vars, TypeOK
<1>19. QED
  BY <1>1, <1>2, <1>3, <1>4, <1>5, <1>6, <1>7, <1>8, <1>9, <1>10, <1>11, <1>12,
     <1>13, <1>14, <1>15, <1>16, <1>17, <1>18 DEF Next

(***************************************************************************)
(* Every variable keeps its type, for every level and weapon table.        *)
(***************************************************************************)
THEOREM TypeCorrect == Spec => []TypeOK
<1>1. QED
  BY TypeInit, TypeStep, PTL DEF Spec

-----------------------------------------------------------------------------
(***************************************************************************)
(* The inductive invariant.  A step that moves no weapon and touches       *)
(* neither hand nor inventory preserves it.                                *)
(***************************************************************************)
handsAndItems == <<begun, EquippedWeapon, WeaponInventory, actor, ItemState,
                   owned, areaSphere>>

LEMMA HandsOff == IInv /\ TypeOK' /\ UNCHANGED handsAndItems => IInv'
  BY DEF IInv, handsAndItems, EquippedIsUnique, SlotsHoldOwned, OwnedAreCarried,
         AlreadyHasWeapon, SphereOnlyOnMap, EmptyHanded, FreshWeapons

LEMMA InvInit == Init => IInv
<1> SUFFICES ASSUME Init PROVE IInv
  OBVIOUS
<1>1. EquippedIsUnique /\ FreshWeapons
  BY WeaponsAssumption DEF Init, EquippedIsUnique, FreshWeapons
<1>2. SlotsHoldOwned /\ OwnedAreCarried
  BY DEF Init, SlotsHoldOwned, OwnedAreCarried, AlreadyHasWeapon
<1>3. SphereOnlyOnMap
  BY DEF Init, SphereOnlyOnMap
<1>4. EmptyHanded
  BY WeaponsAssumption DEF Init, EmptyHanded
<1>5. QED
  BY <1>1, <1>2, <1>3, <1>4, TypeInit DEF IInv

(***************************************************************************)
(* Taking the weapon w into the inventory, from the map or as it begins    *)
(* play.                                                                   *)
(***************************************************************************)
LEMMA TakeKeepsInv ==
    ASSUME NEW w \in Weapons, IInv, TypeOK',
           w \in areaSphere \/ actor[w] = "placed",
           ~AlreadyHasWeapon(WeaponType[w]),
           AddWeaponToInventory(w),
           actor' = [actor EXCEPT ![w] = "playing"],
           ItemState' = [ItemState EXCEPT ![w] = "PickedUp"],
           areaSphere' = areaSphere \ {w},
           UNCHANGED <<begun, EquippedWeapon>>
    PROVE  IInv'
<1> USE DEF IInv, TypeOK, ItemStates
<1>1. WeaponType[w] \in WeaponTypes
  BY RowType
<1>2. ItemState[w] = "Pickup" /\ w # EquippedWeapon
  BY DEF SphereOnlyOnMap, FreshWeapons, EquippedIsUnique
<1>3. EquippedIsUnique'
  BY <1>2 DEF EquippedIsUnique
<1>4. SlotsHoldOwned'
  <2>1. SUFFICES ASSUME NEW t \in WeaponTypes, WeaponInventory'[t] # nullptr
                 PROVE  /\ WeaponType[WeaponInventory'[t]] = t
                        /\ WeaponInventory'[t] \in owned'
    BY DEF SlotsHoldOwned, AlreadyHasWeapon
  <2>2. CASE t = WeaponType[w]
    BY <1>1, <2>2 DEF AddWeaponToInventory
  <2>3. CASE t # WeaponType[w]
    <3>1. WeaponInventory'[t] = WeaponInventory[t]
      BY <1>1, <2>3 DEF AddWeaponToInventory
    <3>2. QED
      BY <2>1, <3>1 DEF AddWeaponToInventory, SlotsHoldOwned, AlreadyHasWeapon
  <2>4. QED
    BY <2>2, <2>3
<1>5. OwnedAreCarried'
  <2>1. SUFFICES ASSUME NEW v \in owned \cup {w}
                 PROVE  /\ WeaponInventory'[WeaponType[v]] = v
                        /\ actor'[v] = "playing"
                        /\ ItemState'[v] # "Pickup"
    BY DEF OwnedAreCarried, AddWeaponToInventory
  <2>2. CASE v = w
    BY <1>1, <2>2 DEF AddWeaponToInventory
  <2>3. CASE v # w
    <3>1. v \in owned /\ v \in Weapons /\ WeaponType[v] \in WeaponTypes
      BY <2>1, <2>3, RowType
    <3>2. WeaponInventory[WeaponType[v]] = v /\ v # nullptr
      BY <3>1, WeaponsAssumption DEF OwnedAreCarried
    <3>3. WeaponType[v] # WeaponType[w]
      BY <3>2 DEF AlreadyHasWeapon
    <3>4. QED
      BY <1>1, <2>3, <3>1, <3>2, <3>3 DEF AddWeaponToInventory, OwnedAreCarried
  <2>4. QED
    BY <2>2, <2>3
<1>6. SphereOnlyOnMap'
  BY DEF SphereOnlyOnMap
<1>7. EmptyHanded'
  BY DEF EmptyHanded, SphereOnlyOnMap
<1>8. FreshWeapons'
  BY DEF FreshWeapons
<1>9. QED
  BY <1>3, <1>4, <1>5, <1>6, <1>7, <1>8

(***************************************************************************)
(* Destroying the weapon w, which is on the map or begins play on it.      *)
(***************************************************************************)
LEMMA DestroyKeepsInv ==
    ASSUME NEW w \in Weapons, IInv, TypeOK',
           w \in areaSphere \/ actor[w] = "placed",
           actor' = [actor EXCEPT ![w] = "destroyed"],
           areaSphere' = areaSphere \ {w},
           UNCHANGED <<begun, EquippedWeapon, WeaponInventory, ItemState, owned>>
    PROVE  IInv'
<1> USE DEF IInv, TypeOK, ItemStates
<1>1. w \notin owned
  BY DEF SphereOnlyOnMap, OwnedAreCarried
<1>2. EquippedIsUnique' /\ SlotsHoldOwned' /\ FreshWeapons'
  BY DEF EquippedIsUnique, SlotsHoldOwned, AlreadyHasWeapon, FreshWeapons
<1>3. OwnedAreCarried'
  BY <1>1 DEF OwnedAreCarried
<1>4. SphereOnlyOnMap'
  BY DEF SphereOnlyOnMap
<1>5. EmptyHanded'
  BY DEF EmptyHanded, SphereOnlyOnMap
<1>6. QED
  BY <1>2, <1>3, <1>4, <1>5

LEMMA InvStep == IInv /\ [Next]_vars => IInv'
<1> SUFFICES ASSUME IInv, [Next]_vars PROVE IInv'
  OBVIOUS
<1>0. TypeOK /\ TypeOK'
  BY TypeStep DEF IInv
<1>1. CASE BeginPlayUnarmed
  <2>1. EmptyHanded'
    BY <1>1 DEF BeginPlayUnarmed, EmptyHanded
  <2>2. QED
    BY <1>0, <1>1, <2>1
    DEF BeginPlayUnarmed, item, IInv, EquippedIsUnique, SlotsHoldOwned,
        OwnedAreCarried, AlreadyHasWeapon, SphereOnlyOnMap, FreshWeapons
<1>2. ASSUME NEW overlapping \in BOOLEAN, BeginPlayArmed(overlapping) PROVE IInv'
  <2> DEFINE d == DefaultWeapon
  <2>1. d \in Weapons /\ WeaponType[d] \in WeaponTypes
    BY <1>2, WeaponsAssumption, RowType DEF BeginPlayArmed
  <2>2. actor[d] = "unspawned" /\ EquippedWeapon = nullptr /\ d \notin owned
    BY <1>2, <2>1 DEF BeginPlayArmed, IInv, EmptyHanded, OwnedAreCarried
  <2>3. /\ EquippedWeapon' = d
        /\ actor' = [actor EXCEPT ![d] = "playing"]
        /\ ItemState' = [ItemState EXCEPT ![d] = "Equipped"]
        /\ areaSphere' = areaSphere \ {d}
        /\ begun' = TRUE
    BY <1>2 DEF BeginPlayArmed, LeaveMap
  <2>4. \/ UNCHANGED <<WeaponInventory, owned>>
        \/ ~AlreadyHasWeapon(WeaponType[d]) /\ AddWeaponToInventory(d)
    BY <1>2 DEF BeginPlayArmed
  <2> HIDE DEF d
  <2> USE <1>0 DEF IInv, TypeOK, ItemStates
  <2>5. EquippedIsUnique'
    BY <2>1, <2>2, <2>3, WeaponsAssumption DEF EquippedIsUnique
  <2>6. SlotsHoldOwned' /\ OwnedAreCarried'
    <3>1. CASE UNCHANGED <<WeaponInventory, owned>>
      BY <3>1, <2>1, <2>2, <2>3
      DEF SlotsHoldOwned, OwnedAreCarried, AlreadyHasWeapon
    <3>2. CASE ~AlreadyHasWeapon(WeaponType[d]) /\ AddWeaponToInventory(d)
      <4>1. ASSUME NEW t \in WeaponTypes, t # WeaponType[d]
            PROVE  WeaponInventory'[t] = WeaponInventory[t]
        BY <3>2, <4>1, <2>1 DEF AddWeaponToInventory
      <4>2. WeaponInventory'[WeaponType[d]] = d /\ owned' = owned \cup {d}
        BY <3>2, <2>1 DEF AddWeaponToInventory
      <4>3. SlotsHoldOwned'
        BY <4>1, <4>2 DEF SlotsHoldOwned, AlreadyHasWeapon
      <4>4. ASSUME NEW v \in owned
            PROVE  /\ WeaponInventory'[WeaponType[v]] = v
                   /\ actor'[v] = "playing"
                   /\ ItemState'[v] # "Pickup"
        <5>1. v \in Weapons /\ WeaponType[v] \in WeaponTypes /\ v # d
          BY <2>2, RowType
        <5>2. WeaponInventory[WeaponType[v]] = v /\ v # nullptr
          BY <5>1, WeaponsAssumption DEF OwnedAreCarried
        <5>3. WeaponType[v] # WeaponType[d]
          BY <3>2, <5>2 DEF AlreadyHasWeapon
        <5>4. QED
          BY <2>3, <4>1, <5>1, <5>2, <5>3 DEF OwnedAreCarried
      <4>5. QED
        BY <2>1, <2>3, <4>2, <4>3, <4>4 DEF OwnedAreCarried
    <3>3. QED
      BY <2>4, <3>1, <3>2
  <2>7. SphereOnlyOnMap'
    BY <2>1, <2>2, <2>3 DEF SphereOnlyOnMap
  <2>8. EmptyHanded' /\ FreshWeapons'
    BY <2>1, <2>2, <2>3 DEF EmptyHanded, FreshWeapons
  <2>9. QED
    BY <2>5, <2>6, <2>7, <2>8
<1>3. CASE BeginPlayCrash
  BY <1>0, <1>3, HandsOff
  DEF BeginPlayCrash, Crash, character, item, handsAndItems
<1>4. ASSUME NEW w \in Weapons, WeaponBeginPlay(w) PROVE IInv'
  <2> USE <1>0, <1>4 DEF WeaponBeginPlay, character, IInv, TypeOK
  <2>1. EquippedIsUnique' /\ SlotsHoldOwned' /\ FreshWeapons'
    BY DEF EquippedIsUnique, SlotsHoldOwned, AlreadyHasWeapon, FreshWeapons
  <2>2. OwnedAreCarried' /\ EmptyHanded'
    BY DEF OwnedAreCarried, EmptyHanded
  <2>3. SphereOnlyOnMap'
    BY DEF SphereOnlyOnMap, FreshWeapons
  <2>4. QED
    BY <2>1, <2>2, <2>3
<1>5. ASSUME NEW w \in Weapons, WeaponBeginPlayAndTake(w) PROVE IInv'
  <2>1. areaSphere' = areaSphere \ {w}
    BY <1>5 DEF WeaponBeginPlayAndTake, IInv, SphereOnlyOnMap
  <2>2. QED
    BY <1>0, <1>5, <2>1, TakeKeepsInv DEF WeaponBeginPlayAndTake
<1>6. ASSUME NEW w \in Weapons, WeaponBeginPlayAndDestroy(w) PROVE IInv'
  <2>1. areaSphere' = areaSphere \ {w}
    BY <1>6 DEF WeaponBeginPlayAndDestroy, IInv, SphereOnlyOnMap
  <2>2. QED
    BY <1>0, <1>6, <2>1, DestroyKeepsInv DEF WeaponBeginPlayAndDestroy
<1>7. ASSUME NEW w \in Weapons, TakeWeapon(w) PROVE IInv'
  <2>1. actor' = [actor EXCEPT ![w] = "playing"]
    BY <1>7 DEF TakeWeapon, IInv, TypeOK, SphereOnlyOnMap
  <2>2. QED
    BY <1>0, <1>7, <2>1, TakeKeepsInv DEF TakeWeapon, LeaveMap
<1>8. ASSUME NEW w \in Weapons, TakeAmmoOnly(w) PROVE IInv'
  BY <1>0, <1>8, DestroyKeepsInv DEF TakeAmmoOnly
<1>9. ASSUME NEW w \in Weapons, OscillateCallback(w) PROVE IInv'
  BY <1>0, <1>9, HandsOff DEF OscillateCallback, character, handsAndItems
<1>10. ASSUME NEW w \in Weapons, AutoFireReset(w) PROVE IInv'
  BY <1>0, <1>10, HandsOff DEF AutoFireReset, item, handsAndItems
<1>11. ASSUME NEW t \in WeaponTypes, EquipFirst(t) PROVE IInv'
  <2> DEFINE n == WeaponInventory[t]
  <2>1. n \in Weapons /\ n \in owned /\ actor[n] = "playing" /\ begun
    BY <1>0, <1>11 DEF EquipFirst, AlreadyHasWeapon, IInv, TypeOK,
                       SlotsHoldOwned, OwnedAreCarried
  <2>2. /\ EquippedWeapon = nullptr
        /\ EquippedWeapon' = n
        /\ ItemState' = [ItemState EXCEPT ![n] = "Equipped"]
        /\ areaSphere' = areaSphere \ {n}
        /\ UNCHANGED <<begun, WeaponInventory, owned, actor>>
    BY <1>11 DEF EquipFirst, LeaveMap
  <2> HIDE DEF n
  <2> USE <1>0, <2>1, <2>2 DEF IInv, TypeOK, ItemStates
  <2>3. EquippedIsUnique'
    BY WeaponsAssumption DEF EquippedIsUnique
  <2>4. SlotsHoldOwned' /\ OwnedAreCarried'
    BY DEF SlotsHoldOwned, OwnedAreCarried, AlreadyHasWeapon
  <2>5. SphereOnlyOnMap' /\ EmptyHanded' /\ FreshWeapons'
    BY DEF SphereOnlyOnMap, EmptyHanded, FreshWeapons
  <2>6. QED
    BY <2>3, <2>4, <2>5
<1>12. ASSUME NEW t \in WeaponTypes, EquipFirstCrash(t) PROVE IInv'
  BY <1>0, <1>12, HandsOff
  DEF EquipFirstCrash, Crash, character, item, handsAndItems
<1>13. ASSUME NEW t \in WeaponTypes, SwapWeapons(t) PROVE IInv'
  <2> DEFINE n == WeaponInventory[t]
             o == EquippedWeapon
  <2>1. n \in Weapons /\ n \in owned /\ actor[n] = "playing" /\ WeaponType[n] = t
    BY <1>0, <1>13 DEF SwapWeapons, Swapping, AlreadyHasWeapon, IInv, TypeOK,
                       SlotsHoldOwned, OwnedAreCarried
  <2>2. begun /\ o \in Weapons /\ o # n /\ ItemState[o] = "Equipped"
    BY <1>0, <1>13, <2>1 DEF SwapWeapons, Swapping, IInv, TypeOK, EquippedIsUnique
  <2>3. /\ EquippedWeapon' = n
        /\ ItemState' = [ItemState EXCEPT ![o] = "PickedUp", ![n] = "Equipped"]
        /\ areaSphere' = areaSphere \ {o, n}
        /\ UNCHANGED <<begun, WeaponInventory, owned, actor>>
    BY <1>13 DEF SwapWeapons, Swapping, LeaveMap
  <2>4. /\ ItemState'[o] = "PickedUp" /\ ItemState'[n] = "Equipped"
        /\ \A v \in Weapons \ {o, n} : ItemState'[v] = ItemState[v]
    BY <1>0, <2>1, <2>2, <2>3 DEF TypeOK
  <2>5. actor[o] \notin {"unspawned", "placed"}
    BY <2>2 DEF IInv, FreshWeapons
  <2>6. EquippedIsUnique'
    BY <2>2, <2>3, <2>4 DEF IInv, EquippedIsUnique
  <2> HIDE DEF n, o
  <2> USE <1>0, <2>1, <2>2, <2>3, <2>4, <2>5 DEF IInv, TypeOK
  <2>7. SlotsHoldOwned' /\ OwnedAreCarried'
    BY DEF SlotsHoldOwned, OwnedAreCarried, AlreadyHasWeapon
  <2>8. SphereOnlyOnMap'
    BY DEF SphereOnlyOnMap
  <2>9. EmptyHanded' /\ FreshWeapons'
    BY DEF EmptyHanded, FreshWeapons
  <2>10. QED
    BY <2>6, <2>7, <2>8, <2>9
<1>14. CASE PrimaryFireButtonPressed
  BY <1>0, <1>14, HandsOff DEF PrimaryFireButtonPressed, item, handsAndItems
<1>15. CASE PressedCrash
  BY <1>0, <1>15, HandsOff DEF PressedCrash, Crash, character, item, handsAndItems
<1>16. CASE PrimaryFireButtonReleased
  BY <1>0, <1>16, HandsOff DEF PrimaryFireButtonReleased, item, handsAndItems
<1>17. CASE ReleasedCrash
  BY <1>0, <1>17, HandsOff DEF ReleasedCrash, Crash, character, item, handsAndItems
<1>18. CASE UNCHANGED vars
  BY <1>0, <1>18, HandsOff DEF vars, handsAndItems
<1>19. QED
  BY <1>1, <1>2, <1>3, <1>4, <1>5, <1>6, <1>7, <1>8, <1>9, <1>10, <1>11, <1>12,
     <1>13, <1>14, <1>15, <1>16, <1>17, <1>18 DEF Next

LEMMA InvCorrect == Spec => []IInv
<1>1. QED
  BY InvInit, InvStep, PTL DEF Spec

(***************************************************************************)
(* Exactly the weapon in hand is in state Equipped, at every moment.       *)
(***************************************************************************)
THEOREM OneWeaponEquipped == Spec => []EquippedIsUnique
<1>1. IInv => EquippedIsUnique
  BY DEF IInv
<1>2. QED
  BY <1>1, InvCorrect, PTL

(***************************************************************************)
(* Inventory slots, Player pointers and spheres always agree.              *)
(***************************************************************************)
THEOREM InventoryIsConsistent == Spec => [](InventoryConsistent /\ SphereOnlyOnMap)
<1>1. IInv => InventoryConsistent /\ SphereOnlyOnMap
  BY DEF IInv, InventoryConsistent
<1>2. QED
  BY <1>1, InvCorrect, PTL

-----------------------------------------------------------------------------
(***************************************************************************)
(* No weapon with a rate of fire wedges.  Only the steps that may fire     *)
(* touch the two sets.                                                     *)
(***************************************************************************)
LEMMA FireKeepsTimer ==
    ASSUME NEW w \in Weapons, NEW start, NEW can, NEW timers, FireTimerArmed,
           ~crashed, OnFire(w, start, can, timers),
           \A v \in Weapons : Row(v).AutoFireRate > 0 =>
               (v \notin can <=> v \in timers)
    PROVE  FireTimerArmed'
<1>1. CASE canFire' = can /\ fireTimer' = timers
  BY <1>1 DEF FireTimerArmed, Row
<1>2. CASE canFire' = can \ {w} /\ fireTimer' = Rearmed(w, timers)
  BY <1>2 DEF FireTimerArmed, Rearmed, Row
<1>3. CASE crashed'
  BY <1>3 DEF FireTimerArmed
<1>4. QED
  BY <1>1, <1>2, <1>3 DEF OnFire, Volley

LEMMA TimerStep == FireTimerArmed /\ TypeOK /\ [Next]_vars => FireTimerArmed'
<1> SUFFICES ASSUME FireTimerArmed, TypeOK, [Next]_vars PROVE FireTimerArmed'
  OBVIOUS
<1>1. CASE UNCHANGED firing /\ (crashed => crashed')
  BY <1>1 DEF FireTimerArmed, firing, Row
<1>2. CASE crashed'
  BY <1>2 DEF FireTimerArmed
<1>3. ASSUME NEW w \in Weapons, AutoFireReset(w) PROVE FireTimerArmed'
  <2>1. ~crashed /\ w \in fireTimer
    BY <1>3 DEF AutoFireReset
  <2> DEFINE can == canFire \cup {w}
             timers == fireTimer \ {w}
  <2>2. \A v \in Weapons : Row(v).AutoFireRate > 0 =>
            (v \notin can <=> v \in timers)
    BY <2>1 DEF FireTimerArmed
  <2>3. CASE OnFire(w, startFiring, can, timers)
    <3> HIDE DEF can, timers
    <3>1. QED
      BY <2>1, <2>2, <2>3, FireKeepsTimer
  <2>4. CASE canFire' = can /\ fireTimer' = timers
    BY <2>2, <2>4 DEF FireTimerArmed, Row
  <2>5. QED
    BY <1>3, <2>3, <2>4 DEF AutoFireReset
<1>4. CASE PrimaryFireButtonPressed
  <2>1. CASE UNCHANGED <<firing, AmmoMap, crashed>>
    BY <1>1, <2>1
  <2>2. CASE /\ EquippedWeapon # nullptr
             /\ OnFire(EquippedWeapon, startFiring \cup {EquippedWeapon},
                       canFire, fireTimer)
    <3> DEFINE start == startFiring \cup {EquippedWeapon}
    <3>1. EquippedWeapon \in Weapons /\ ~crashed
      BY <1>4, <2>2 DEF TypeOK, PrimaryFireButtonPressed
    <3>2. \A v \in Weapons : Row(v).AutoFireRate > 0 =>
              (v \notin canFire <=> v \in fireTimer)
      BY <3>1 DEF FireTimerArmed
    <3>3. OnFire(EquippedWeapon, start, canFire, fireTimer)
      BY <2>2
    <3> HIDE DEF start
    <3>4. QED
      BY <3>1, <3>2, <3>3, FireKeepsTimer
  <2>3. QED
    BY <1>4, <2>1, <2>2 DEF PrimaryFireButtonPressed
<1>5. CASE PrimaryFireButtonReleased
  BY <1>5 DEF PrimaryFireButtonReleased, FireTimerArmed, Row
<1>6. CASE BeginPlayUnarmed
  BY <1>1, <1>6 DEF BeginPlayUnarmed
<1>7. ASSUME NEW overlapping \in BOOLEAN, BeginPlayArmed(overlapping)
      PROVE  FireTimerArmed'
  BY <1>1, <1>7 DEF BeginPlayArmed
<1>8. CASE BeginPlayCrash \/ PressedCrash \/ ReleasedCrash
           \/ \E t \in WeaponTypes : EquipFirstCrash(t)
  BY <1>2, <1>8 DEF BeginPlayCrash, PressedCrash, ReleasedCrash, EquipFirstCrash, Crash
<1>9. ASSUME NEW w \in Weapons,
             \/ WeaponBeginPlay(w) \/ WeaponBeginPlayAndTake(w)
             \/ WeaponBeginPlayAndDestroy(w) \/ TakeWeapon(w)
             \/ TakeAmmoOnly(w) \/ OscillateCallback(w)
      PROVE  FireTimerArmed'
  BY <1>1, <1>9 DEF WeaponBeginPlay, WeaponBeginPlayAndTake, TakeWeapon,
                    WeaponBeginPlayAndDestroy, TakeAmmoOnly, OscillateCallback
<1>10. ASSUME NEW t \in WeaponTypes, EquipFirst(t) \/ SwapWeapons(t)
       PROVE  FireTimerArmed'
  BY <1>1, <1>10 DEF EquipFirst, SwapWeapons, Swapping
<1>11. CASE UNCHANGED vars
  BY <1>1, <1>11 DEF vars, firing
<1>12. QED
  BY <1>3, <1>4, <1>5, <1>6, <1>7, <1>8, <1>9, <1>10, <1>11 DEF Next

(***************************************************************************)
(* A weapon with a rate of fire that may not fire has a pending timer.     *)
(***************************************************************************)
THEOREM NoWeaponWedges == Spec => []FireTimerArmed
<1>1. Init => FireTimerArmed
  BY DEF Init, FireTimerArmed
<1>2. QED
  BY <1>1, TimerStep, TypeCorrect, PTL DEF Spec

-----------------------------------------------------------------------------
(***************************************************************************)
(* A weapon that has left the map never comes back to it.                  *)
(***************************************************************************)
LEMMA GoneStep ==
    ASSUME IInv, [Next]_vars, NEW w \in Weapons, ItemState[w] # "Pickup"
    PROVE  ItemState'[w] # "Pickup" /\ w \notin areaSphere'
<1>1. IInv'
  BY InvStep
<1>2. ItemState'[w] # "Pickup"
  BY DEF IInv, TypeOK, ItemStates, Next, BeginPlayUnarmed, BeginPlayArmed, Crash,
     BeginPlayCrash, WeaponBeginPlay, WeaponBeginPlayAndTake,
     WeaponBeginPlayAndDestroy, TakeWeapon, TakeAmmoOnly, OscillateCallback,
     AutoFireReset, EquipFirst, EquipFirstCrash, SwapWeapons, Swapping,
     PrimaryFireButtonPressed, PressedCrash, PrimaryFireButtonReleased,
     ReleasedCrash, item, vars
<1>3. QED
  BY <1>1, <1>2 DEF IInv, SphereOnlyOnMap

THEOREM PickupIsForever == Spec => NeverBackOnMap
<1>1. IInv /\ [Next]_vars =>
        [\A w \in Weapons : ItemState[w] # "Pickup" =>
            ItemState'[w] # "Pickup" /\ w \notin areaSphere']_vars
  BY GoneStep
<1>2. QED
  BY <1>1, InvCorrect, PTL DEF Spec, NeverBackOnMap

(***************************************************************************)
(* Mashing the button does not beat the fire timer.                        *)
(***************************************************************************)
THEOREM NoCheese == Spec => NoScrollWheelShooting
<1>1. [Next]_vars =>
        [held' # held /\ AmmoMap' # AmmoMap => EquippedWeapon \in canFire]_vars
  BY DEF Next, BeginPlayUnarmed, BeginPlayArmed, Crash, BeginPlayCrash,
     WeaponBeginPlay, WeaponBeginPlayAndTake, WeaponBeginPlayAndDestroy,
     TakeWeapon, TakeAmmoOnly, OscillateCallback, AutoFireReset, EquipFirst,
     EquipFirstCrash, SwapWeapons, Swapping, PrimaryFireButtonPressed, PressedCrash,
     PrimaryFireButtonReleased, ReleasedCrash, character, vars, OnFire, MayFire
<1>2. QED
  BY <1>1, PTL DEF Spec, NoScrollWheelShooting

-----------------------------------------------------------------------------
(***************************************************************************)
(* On a safe level nothing crashes.  Until the character begins play only  *)
(* the default weapon could fill its slot; afterwards the hand is never    *)
(* empty and what it holds has its kind of ammunition in AmmoMap.          *)
(***************************************************************************)
SafeInv ==
    /\ ~crashed
    /\ ~begun => WeaponInventory[WeaponType[DefaultWeapon]] = nullptr
    /\ begun => EquippedWeapon \in owned
    /\ held => begun
    /\ Row(DefaultWeapon).AmmoType \in ammoKeys
    /\ \A w \in owned : Row(w).AmmoType \in ammoKeys

LEMMA SafeStep == SafeLevel /\ IInv /\ SafeInv /\ [Next]_vars => SafeInv'
<1> SUFFICES ASSUME SafeLevel, IInv, SafeInv, [Next]_vars PROVE SafeInv'
  OBVIOUS
<1>0. /\ DefaultWeapon \in Weapons
      /\ WeaponType[DefaultWeapon] \in WeaponTypes
      /\ TypeOK
  BY WeaponsAssumption, RowType DEF SafeLevel, IInv
<1>1. CASE UNCHANGED <<crashed, begun, WeaponInventory, EquippedWeapon, owned,
                       held, ammoKeys>>
  BY <1>1 DEF SafeInv, Row
<1>2. CASE BeginPlayUnarmed \/ BeginPlayCrash
  BY <1>0, <1>2 DEF BeginPlayUnarmed, BeginPlayCrash, SafeLevel, SafeInv, AlreadyHasWeapon
<1>3. ASSUME NEW overlapping \in BOOLEAN, BeginPlayArmed(overlapping) PROVE SafeInv'
  <2>1. owned' = owned \cup {DefaultWeapon}
    BY <1>3 DEF BeginPlayArmed, SafeInv, AlreadyHasWeapon, AddWeaponToInventory
  <2>2. ammoKeys \subseteq ammoKeys'
    BY <1>3 DEF BeginPlayArmed, AddAmmoOfType
  <2>3. QED
    BY <1>3, <2>1, <2>2 DEF BeginPlayArmed, SafeInv, Row
<1>4. ASSUME NEW w \in Weapons, WeaponBeginPlay(w) \/ OscillateCallback(w)
      PROVE  SafeInv'
  BY <1>1, <1>4 DEF WeaponBeginPlay, OscillateCallback, character
<1>5. ASSUME NEW w \in Weapons, WeaponBeginPlayAndTake(w) \/ TakeWeapon(w)
      PROVE  SafeInv'
  <2>1. /\ AddWeaponToInventory(w)
        /\ ammoKeys' = ammoKeys \cup {Row(w).AmmoType}
        /\ actor[w] = "placed" \/ w \in areaSphere
        /\ UNCHANGED <<begun, EquippedWeapon, held, crashed>>
    BY <1>5 DEF WeaponBeginPlayAndTake, TakeWeapon, AddAmmoOfType
  <2>2. begun \/ WeaponType[w] # WeaponType[DefaultWeapon]
    BY <2>1, <1>0 DEF SafeLevel, IInv, EmptyHanded, SphereOnlyOnMap
  <2>3. ~begun => WeaponInventory'[WeaponType[DefaultWeapon]] = nullptr
    BY <1>0, <2>1, <2>2, RowType DEF AddWeaponToInventory, SafeInv, TypeOK
  <2>4. QED
    BY <2>1, <2>3 DEF AddWeaponToInventory, SafeInv, Row
<1>6. ASSUME NEW w \in Weapons, WeaponBeginPlayAndDestroy(w) \/ TakeAmmoOnly(w)
      PROVE  SafeInv'
  BY <1>6 DEF WeaponBeginPlayAndDestroy, TakeAmmoOnly, AddAmmoOfType, SafeInv, Row
<1>7. ASSUME NEW w \in Weapons, AutoFireReset(w) PROVE SafeInv'
  <2>1. crashed' = crashed
    BY <1>7 DEF AutoFireReset, OnFire, Volley, SafeLevel
  <2>2. QED
    BY <1>1, <1>7, <2>1 DEF AutoFireReset, item
<1>8. ASSUME NEW t \in WeaponTypes,
             EquipFirst(t) \/ EquipFirstCrash(t) \/ SwapWeapons(t)
      PROVE  SafeInv'
  <2>1. EquippedWeapon # nullptr
    BY <1>0, <1>8, WeaponsAssumption
    DEF EquipFirst, EquipFirstCrash, SwapWeapons, Swapping, SafeInv, TypeOK
  <2>2. SwapWeapons(t)
    BY <1>8, <2>1 DEF EquipFirst, EquipFirstCrash
  <2>3. WeaponInventory[t] \in owned
    BY <2>2 DEF SwapWeapons, Swapping, IInv, SlotsHoldOwned
  <2>4. QED
    BY <2>2, <2>3 DEF SwapWeapons, Swapping, SafeInv, Row
<1>9. CASE PrimaryFireButtonPressed
  <2>1. crashed' = crashed
    BY <1>9 DEF PrimaryFireButtonPressed, OnFire, Volley, SafeLevel
  <2>2. QED
    BY <1>9, <2>1 DEF PrimaryFireButtonPressed, item, SafeInv, Row
<1>10. CASE PrimaryFireButtonReleased
  BY <1>10 DEF PrimaryFireButtonReleased, item, SafeInv, Row
<1>11. CASE PressedCrash \/ ReleasedCrash
  BY <1>0, <1>11, WeaponsAssumption DEF PressedCrash, ReleasedCrash, SafeInv, TypeOK
<1>12. CASE UNCHANGED vars
  BY <1>1, <1>12 DEF vars
<1>13. QED
  BY <1>2, <1>3, <1>4, <1>5, <1>6, <1>7, <1>8, <1>9, <1>10, <1>11, <1>12 DEF Next

THEOREM SafeLevelsNeverCrash ==
    ASSUME SafeLevel
    PROVE  Spec => []NoCrash
<1>1. Init => SafeInv
  <2> SUFFICES ASSUME Init PROVE SafeInv
    OBVIOUS
  <2>1. DefaultWeapon \in Weapons
    BY WeaponsAssumption DEF SafeLevel
  <2>2. WeaponType[DefaultWeapon] \in WeaponTypes /\ Row(DefaultWeapon).AmmoType \in AmmoTypes
    BY <2>1, RowType
  <2>3. QED
    BY <2>2 DEF Init, SafeInv, SafeLevel
<1>2. SafeInv => NoCrash
  BY DEF SafeInv, NoCrash
<1>3. IInv /\ SafeInv /\ [Next]_vars => SafeInv'
  BY SafeStep
<1>4. QED
  BY <1>1, <1>2, <1>3, InvCorrect, PTL DEF Spec

-----------------------------------------------------------------------------
(***************************************************************************)
(* The oscillation: only a callback of an item that may not oscillate any  *)
(* more lets the timer go, and every spawn arms it.                        *)
(***************************************************************************)
LEMMA OscStep == TypeOK /\ OscTimerRuns /\ [Next]_vars => OscTimerRuns'
<1> SUFFICES ASSUME TypeOK, OscTimerRuns, [Next]_vars PROVE OscTimerRuns'
  OBVIOUS
<1>1. CASE UNCHANGED <<oscillating, actor, oscTimer>>
  BY <1>1 DEF OscTimerRuns
<1>2. ASSUME NEW overlapping \in BOOLEAN, BeginPlayArmed(overlapping) PROVE OscTimerRuns'
  BY <1>2 DEF BeginPlayArmed, LeaveMap, OscTimerRuns, TypeOK
<1>3. ASSUME NEW w \in Weapons, WeaponBeginPlay(w) \/ WeaponBeginPlayAndTake(w)
      PROVE  OscTimerRuns'
  BY <1>3 DEF WeaponBeginPlay, WeaponBeginPlayAndTake, OscTimerRuns, TypeOK
<1>4. ASSUME NEW w \in Weapons,
             WeaponBeginPlayAndDestroy(w) \/ TakeWeapon(w) \/ TakeAmmoOnly(w)
      PROVE  OscTimerRuns'
  BY <1>4 DEF WeaponBeginPlayAndDestroy, TakeWeapon, TakeAmmoOnly, LeaveMap, OscTimerRuns,
              TypeOK
<1>5. ASSUME NEW w \in Weapons, OscillateCallback(w) PROVE OscTimerRuns'
  BY <1>5 DEF OscillateCallback, OscTimerRuns
<1>6. ASSUME NEW w \in Weapons, AutoFireReset(w) PROVE OscTimerRuns'
  BY <1>1, <1>6 DEF AutoFireReset, item
<1>7. ASSUME NEW t \in WeaponTypes, EquipFirst(t) \/ SwapWeapons(t) PROVE OscTimerRuns'
  BY <1>7 DEF EquipFirst, SwapWeapons, Swapping, LeaveMap, OscTimerRuns
<1>8. CASE \/ BeginPlayUnarmed \/ BeginPlayCrash \/ PressedCrash \/ ReleasedCrash
           \/ PrimaryFireButtonPressed \/ PrimaryFireButtonReleased
           \/ \E t \in WeaponTypes : EquipFirstCrash(t)
  BY <1>1, <1>8 DEF BeginPlayUnarmed, BeginPlayCrash, PressedCrash, ReleasedCrash,
     PrimaryFireButtonPressed, PrimaryFireButtonReleased, EquipFirstCrash, Crash, item
<1>9. CASE UNCHANGED vars
  BY <1>1, <1>9 DEF vars
<1>10. QED
  BY <1>2, <1>3, <1>4, <1>5, <1>6, <1>7, <1>8, <1>9 DEF Next

(***************************************************************************)
(* An item that oscillates has its timer running (OscillateInPlace reads   *)
(* the timer's elapsed time).                                              *)
(***************************************************************************)
THEOREM OscillationIsTimed == Spec => []OscTimerRuns
<1>1. Init => OscTimerRuns
  BY DEF Init, OscTimerRuns
<1>2. QED
  BY <1>1, OscStep, TypeCorrect, PTL DEF Spec

-----------------------------------------------------------------------------
(***************************************************************************)
(* Without a default weapon: what is in hand came from the inventory, and  *)
(* with every weapon there its kind of ammunition came into AmmoMap.       *)
(***************************************************************************)
PickedInv ==
    /\ CrashOnlyEmptyHanded
    /\ EquippedWeapon # nullptr => EquippedWeapon \in owned
    /\ \A w \in owned : Row(w).AmmoType \in ammoKeys

LEMMA PickedStep ==
    ASSUME DefaultWeapon = nullptr, ~FragileTarget
    PROVE  IInv /\ PickedInv /\ [Next]_vars => PickedInv'
<1> SUFFICES ASSUME IInv, PickedInv, [Next]_vars PROVE PickedInv'
  OBVIOUS
<1> USE DEF PickedInv, CrashOnlyEmptyHanded, Row
<1>1. CASE UNCHANGED <<crashed, EquippedWeapon, owned, ammoKeys>>
  BY <1>1
<1>2. ASSUME NEW w \in Weapons, WeaponBeginPlayAndTake(w) \/ TakeWeapon(w)
      PROVE  PickedInv'
  BY <1>2 DEF WeaponBeginPlayAndTake, TakeWeapon, AddWeaponToInventory, AddAmmoOfType
<1>3. ASSUME NEW w \in Weapons, WeaponBeginPlayAndDestroy(w) \/ TakeAmmoOnly(w)
      PROVE  PickedInv'
  BY <1>3 DEF WeaponBeginPlayAndDestroy, TakeAmmoOnly, AddAmmoOfType
<1>4. ASSUME NEW w \in Weapons,
             WeaponBeginPlay(w) \/ OscillateCallback(w) \/ AutoFireReset(w)
      PROVE  PickedInv'
  <2>1. crashed' = crashed
    BY <1>4 DEF WeaponBeginPlay, OscillateCallback, AutoFireReset, OnFire, Volley
  <2>2. QED
    BY <1>1, <1>4, <2>1 DEF WeaponBeginPlay, OscillateCallback, AutoFireReset, character, item
<1>5. ASSUME NEW t \in WeaponTypes, EquipFirst(t) \/ SwapWeapons(t) PROVE PickedInv'
  <2>1. WeaponInventory[t] \in owned
    BY <1>5 DEF EquipFirst, SwapWeapons, Swapping, IInv, SlotsHoldOwned
  <2>2. QED
    BY <1>5, <2>1 DEF EquipFirst, SwapWeapons, Swapping
<1>6. ASSUME NEW t \in WeaponTypes, EquipFirstCrash(t) PROVE PickedInv'
  BY <1>6 DEF EquipFirstCrash, Crash, character, item
<1>7. CASE PrimaryFireButtonPressed
  <2>1. crashed' = crashed
    BY <1>7 DEF PrimaryFireButtonPressed, OnFire, Volley
  <2>2. QED
    BY <1>1, <1>7, <2>1 DEF PrimaryFireButtonPressed, item
<1>8. CASE PressedCrash
  BY <1>8 DEF PressedCrash
<1>9. CASE ReleasedCrash
  BY <1>9 DEF ReleasedCrash, Crash, character, item
<1>10. CASE BeginPlayUnarmed \/ PrimaryFireButtonReleased \/ UNCHANGED vars
  BY <1>1, <1>10 DEF BeginPlayUnarmed, PrimaryFireButtonReleased, item, vars
<1>11. CASE BeginPlayCrash \/ \E overlapping \in BOOLEAN : BeginPlayArmed(overlapping)
  BY <1>11 DEF BeginPlayCrash, BeginPlayArmed
<1>12. QED
  BY <1>2, <1>3, <1>4, <1>5, <1>6, <1>7, <1>8, <1>9, <1>10, <1>11 DEF Next

(***************************************************************************)
(* A character without a default weapon crashes with empty hands only,     *)
(* whatever it picks up in which order.                                    *)
(***************************************************************************)
THEOREM ArmedIsSafe ==
    ASSUME DefaultWeapon = nullptr, ~FragileTarget
    PROVE  Spec => []CrashOnlyEmptyHanded
<1>1. Init => PickedInv
  BY DEF Init, PickedInv, CrashOnlyEmptyHanded
<1>2. IInv /\ PickedInv /\ [Next]_vars => PickedInv'
  BY PickedStep
<1>3. PickedInv => CrashOnlyEmptyHanded
  BY DEF PickedInv
<1>4. QED
  BY <1>1, <1>2, <1>3, InvCorrect, PTL DEF Spec

-----------------------------------------------------------------------------
(***************************************************************************)
(* Ammunition.  A kind is gained by a step that offers a weapon of the     *)
(* kind and takes it off the map.                                          *)
(***************************************************************************)
Gained ==
    \A t \in AmmoTypes : AmmoMap'[t] > AmmoMap[t] =>
        \E w \in Weapons : /\ Row(w).AmmoType = t
                          /\ ~Gone(w)
                          /\ Gone(w)'
                          /\ AmmoMap'[t] = AmmoMap[t] + Row(w).WeaponAmmo

LEMMA GainedStep == IInv /\ [Next]_vars => [Gained]_vars
<1> SUFFICES ASSUME IInv, [Next]_vars PROVE Gained
  OBVIOUS
<1>0. TypeOK /\ AmmoMap \in [AmmoTypes -> Nat]
  BY DEF IInv, TypeOK
<1>1. CASE UNCHANGED AmmoMap
  BY <1>0, <1>1 DEF Gained
<1>2. ASSUME NEW w \in Weapons, AddAmmoOfType(Row(w).AmmoType, Row(w).WeaponAmmo),
             ~Gone(w), Gone(w)'
      PROVE  Gained
  BY <1>0, <1>2, RowType DEF Gained, AddAmmoOfType
<1>3. ASSUME NEW w \in Weapons, actor[w] \in {"unspawned", "placed"} \/ w \in areaSphere
      PROVE  ~Gone(w)
  BY <1>3 DEF Gone, IInv, SphereOnlyOnMap, FreshWeapons
<1>4. ASSUME NEW overlapping \in BOOLEAN, BeginPlayArmed(overlapping) PROVE Gained
  <2>1. CASE overlapping
    <3>1. DefaultWeapon \in Weapons /\ actor[DefaultWeapon] = "unspawned"
      BY <1>4, WeaponsAssumption DEF BeginPlayArmed, IInv, EmptyHanded
    <3>2. Gone(DefaultWeapon)'
      BY <1>0, <1>4, <3>1 DEF BeginPlayArmed, Gone, TypeOK
    <3>3. AddAmmoOfType(Row(DefaultWeapon).AmmoType, Row(DefaultWeapon).WeaponAmmo)
      BY <1>4, <2>1 DEF BeginPlayArmed
    <3>4. QED
      BY <1>2, <1>3, <3>1, <3>2, <3>3
  <2>2. CASE ~overlapping
    BY <1>1, <1>4, <2>2 DEF BeginPlayArmed
  <2>3. QED
    BY <2>1, <2>2
<1>5. ASSUME NEW w \in Weapons,
             \/ WeaponBeginPlayAndTake(w) \/ WeaponBeginPlayAndDestroy(w)
             \/ TakeWeapon(w) \/ TakeAmmoOnly(w)
      PROVE  Gained
  <2>1. /\ actor[w] \in {"unspawned", "placed"} \/ w \in areaSphere
        /\ AddAmmoOfType(Row(w).AmmoType, Row(w).WeaponAmmo)
    BY <1>5 DEF WeaponBeginPlayAndTake, WeaponBeginPlayAndDestroy, TakeWeapon, TakeAmmoOnly
  <2>2. Gone(w)'
    BY <1>0, <1>5 DEF WeaponBeginPlayAndTake, WeaponBeginPlayAndDestroy, TakeWeapon,
                      TakeAmmoOnly, Gone, TypeOK
  <2>3. QED
    BY <1>2, <1>3, <2>1, <2>2
<1>6. ASSUME NEW w \in Weapons, NEW start, NEW can, NEW timers, OnFire(w, start, can, timers)
      PROVE  Gained
  <2>1. CASE UNCHANGED AmmoMap
    BY <1>1, <2>1
  <2>2. CASE /\ MayFire(w, start, can)
             /\ DecrementInventoryValue(Row(w).AmmoType, Row(w).NumberOfShots)
    <3>1. AmmoMap' \in [AmmoTypes -> Nat] /\ \A t \in AmmoTypes : AmmoMap'[t] <= AmmoMap[t]
      BY <1>0, <2>2, VolleyIsPaid
    <3>2. QED
      BY <1>0, <3>1 DEF Gained
  <2>3. QED
    BY <1>6, <2>1, <2>2 DEF OnFire, Volley
<1>7. ASSUME NEW w \in Weapons, AutoFireReset(w) PROVE Gained
  BY <1>1, <1>6, <1>7 DEF AutoFireReset
<1>8. CASE PrimaryFireButtonPressed
  BY <1>0, <1>1, <1>6, <1>8 DEF PrimaryFireButtonPressed, TypeOK
<1>9. ASSUME NEW w \in Weapons, WeaponBeginPlay(w) \/ OscillateCallback(w) PROVE Gained
  BY <1>1, <1>9 DEF WeaponBeginPlay, OscillateCallback, character
<1>10. ASSUME NEW t \in WeaponTypes, EquipFirst(t) \/ EquipFirstCrash(t) \/ SwapWeapons(t)
       PROVE  Gained
  BY <1>1, <1>10 DEF EquipFirst, EquipFirstCrash, Crash, SwapWeapons, Swapping, character
<1>11. CASE \/ BeginPlayUnarmed \/ BeginPlayCrash \/ PressedCrash \/ ReleasedCrash
            \/ PrimaryFireButtonReleased \/ UNCHANGED vars
  BY <1>1, <1>11 DEF BeginPlayUnarmed, BeginPlayCrash, PressedCrash, ReleasedCrash,
                     PrimaryFireButtonReleased, Crash, character, vars
<1>12. QED
  BY <1>4, <1>5, <1>7, <1>8, <1>9, <1>10, <1>11 DEF Next

(***************************************************************************)
(* No step of the game gives ammunition but one that takes a weapon of the *)
(* kind off the map, by what that weapon holds: a pickup pays once.        *)
(***************************************************************************)
THEOREM PickupsPayOnce == Spec => AmmoOnlyFromPickups
<1>1. IInv /\ [Next]_vars =>
        [\A t \in AmmoTypes : AmmoMap'[t] > AmmoMap[t] =>
           \E w \in Weapons : /\ Row(w).AmmoType = t
                             /\ ~Gone(w)
                             /\ Gone(w)'
                             /\ AmmoMap'[t] = AmmoMap[t] + Row(w).WeaponAmmo]_vars
  BY GainedStep DEF Gained
<1>2. QED
  BY <1>1, InvCorrect, PTL DEF Spec, AmmoOnlyFromPickups

-----------------------------------------------------------------------------
(***************************************************************************)
(* The refinement.  A volley of OnFire pays like a discharge of the        *)
(* armory, and a pickup, a draw or both at once are its Supply.            *)
(***************************************************************************)
LEMMA VolleyPays ==
    ASSUME SoundTable, IInv, NEW w \in Weapons, NEW start, NEW can, NEW timers,
           MayFire(w, start, can), Volley(w, can, timers)
    PROVE  w = EquippedWeapon /\ Arm!Pay(w)
<1>1. TypeOK /\ w = EquippedWeapon
  BY DEF IInv, EquippedIsUnique, MayFire
<1>2. DecrementInventoryValue(Row(w).AmmoType, Row(w).NumberOfShots)
  BY DEF Volley, SoundTable
<1> DEFINE cost == Spent(Row(w).AmmoType, Row(w).NumberOfShots)
<1>3. /\ cost \in 0 .. AmmoMap[Row(w).AmmoType]
      /\ AmmoMap[Row(w).AmmoType] > 0
      /\ AmmoMap[Row(w).AmmoType] \in Nat
      /\ Row(w).NumberOfShots \in Nat \ {0}
  BY <1>1, <1>2, VolleyIsPaid, RowType DEF SoundTable, TypeOK
<1>4. cost \in 1 .. MaxCost[w] /\ Caliber[w] = Row(w).AmmoType
  BY <1>1, <1>3 DEF Spent, MaxCost, Caliber
<1>5. AmmoMap' = [AmmoMap EXCEPT ![Row(w).AmmoType] = @ - cost]
  BY <1>2 DEF DecrementInventoryValue
<1> HIDE DEF cost
<1>6. /\ cost \in 1 .. MaxCost[w]
      /\ cost <= AmmoMap[Caliber[w]]
      /\ AmmoMap' = [AmmoMap EXCEPT ![Caliber[w]] = @ - cost]
  BY <1>3, <1>4, <1>5
<1>7. QED
  BY <1>1, <1>6 DEF Arm!Pay

LEMMA RestockIsSupply ==
    ASSUME NEW w \in Weapons, TypeOK,
           AddAmmoOfType(Row(w).AmmoType, Row(w).WeaponAmmo)
    PROVE  /\ AmmoMap' \in [AmmoTypes -> Nat]
           /\ \A t \in AmmoTypes : AmmoMap'[t] >= AmmoMap[t]
  BY RowType DEF TypeOK, AddAmmoOfType

LEMMA RefinementStep ==
    SoundTable /\ IInv /\ [Next]_vars => [Arm!Next]_(Arm!vars)
<1> SUFFICES ASSUME SoundTable, IInv, [Next]_vars PROVE [Arm!Next]_(Arm!vars)
  OBVIOUS
<1>0. TypeOK /\ TypeOK' /\ IInv'
  BY TypeStep, InvStep DEF IInv
<1>1. CASE UNCHANGED <<EquippedWeapon, canFire, AmmoMap>>
  BY <1>1 DEF Arm!vars
<1>2. ASSUME /\ EquippedWeapon' \in Weapons \cup {EquippedWeapon}
             /\ AmmoMap' \in [AmmoTypes -> Nat]
             /\ \A t \in AmmoTypes : AmmoMap'[t] >= AmmoMap[t]
             /\ UNCHANGED canFire
      PROVE  Arm!Next
  BY <1>2 DEF Arm!Next, Arm!Supply
<1>3. CASE BeginPlayUnarmed \/ BeginPlayCrash \/ PressedCrash \/ ReleasedCrash
           \/ PrimaryFireButtonReleased
           \/ \E t \in WeaponTypes : EquipFirstCrash(t)
  BY <1>1, <1>3 DEF BeginPlayUnarmed, BeginPlayCrash, PressedCrash, ReleasedCrash,
     PrimaryFireButtonReleased, EquipFirstCrash, Crash, character, firing
<1>4. ASSUME NEW overlapping \in BOOLEAN, BeginPlayArmed(overlapping) PROVE Arm!Next
  <2>1. DefaultWeapon \in Weapons
    BY <1>4, WeaponsAssumption DEF BeginPlayArmed
  <2>2. AmmoMap' \in [AmmoTypes -> Nat] /\ \A t \in AmmoTypes : AmmoMap'[t] >= AmmoMap[t]
    <3>1. CASE UNCHANGED AmmoMap
      BY <1>0, <3>1 DEF TypeOK
    <3>2. QED
      BY <1>0, <1>4, <2>1, <3>1, RestockIsSupply DEF BeginPlayArmed
  <2>3. QED
    BY <1>2, <1>4, <2>1, <2>2 DEF BeginPlayArmed, firing
<1>5. ASSUME NEW w \in Weapons,
             \/ WeaponBeginPlayAndTake(w) \/ WeaponBeginPlayAndDestroy(w)
             \/ TakeWeapon(w) \/ TakeAmmoOnly(w)
      PROVE  Arm!Next
  BY <1>0, <1>2, <1>5, RestockIsSupply
  DEF WeaponBeginPlayAndTake, WeaponBeginPlayAndDestroy, TakeWeapon,
      TakeAmmoOnly, firing
<1>6. ASSUME NEW t \in WeaponTypes, EquipFirst(t) \/ SwapWeapons(t) PROVE Arm!Next
  <2>1. EquippedWeapon' \in Weapons /\ UNCHANGED <<AmmoMap, canFire>>
    BY <1>0, <1>6 DEF EquipFirst, SwapWeapons, Swapping, AlreadyHasWeapon, TypeOK, firing
  <2>2. QED
    BY <1>0, <1>2, <2>1 DEF TypeOK
<1>7. ASSUME NEW w \in Weapons, AutoFireReset(w) PROVE [Arm!Next]_(Arm!vars)
  <2> DEFINE can == canFire \cup {w}
             timers == fireTimer \ {w}
  <2>1. UNCHANGED EquippedWeapon
    BY <1>7 DEF AutoFireReset
  <2>2. CASE canFire' = can /\ UNCHANGED AmmoMap
    BY <1>1, <2>1, <2>2 DEF Arm!Next, Arm!Recover
  <2>3. CASE MayFire(w, startFiring, can) /\ Volley(w, can, timers)
    <3>1. canFire' = can \ {w}
      BY <2>3 DEF Volley
    <3> HIDE DEF can, timers
    <3>2. w = EquippedWeapon /\ Arm!Pay(w)
      BY <2>3, VolleyPays
    <3>3. CASE w \in canFire
      BY <2>1, <3>1, <3>2, <3>3 DEF can, Arm!Next, Arm!Shoot
    <3>4. CASE w \notin canFire
      BY <2>1, <3>1, <3>2, <3>4 DEF can, Arm!Next, Arm!ShootAgain
    <3>5. QED
      BY <3>3, <3>4
  <2>4. QED
    BY <1>7, <2>2, <2>3 DEF AutoFireReset, OnFire
<1>8. CASE PrimaryFireButtonPressed
  <2>1. UNCHANGED EquippedWeapon
    BY <1>8 DEF PrimaryFireButtonPressed
  <2>2. CASE UNCHANGED <<canFire, AmmoMap>>
    BY <1>1, <2>1, <2>2
  <2>3. CASE /\ EquippedWeapon # nullptr
             /\ MayFire(EquippedWeapon, startFiring \cup {EquippedWeapon}, canFire)
             /\ Volley(EquippedWeapon, canFire, fireTimer)
    <3> DEFINE start == startFiring \cup {EquippedWeapon}
    <3>1. EquippedWeapon \in Weapons /\ EquippedWeapon \in canFire
          /\ canFire' = canFire \ {EquippedWeapon}
      BY <1>0, <2>3 DEF TypeOK, MayFire, Volley
    <3>2. MayFire(EquippedWeapon, start, canFire)
      BY <2>3
    <3> HIDE DEF start
    <3>3. Arm!Pay(EquippedWeapon)
      BY <2>3, <3>1, <3>2, VolleyPays
    <3>4. QED
      BY <2>1, <3>1, <3>3 DEF Arm!Next, Arm!Shoot
  <2>4. QED
    BY <1>8, <2>2, <2>3 DEF PrimaryFireButtonPressed, OnFire, firing
<1>9. CASE UNCHANGED vars
  BY <1>1, <1>9 DEF vars
<1> DEFINE Goal == [Arm!Next]_(Arm!vars)
<1>10. Arm!Next => Goal
  OBVIOUS
<1> HIDE DEF Goal
<1>11. ASSUME NEW w \in Weapons,
              \/ WeaponBeginPlay(w) \/ WeaponBeginPlayAndTake(w)
              \/ WeaponBeginPlayAndDestroy(w) \/ TakeWeapon(w)
              \/ TakeAmmoOnly(w) \/ OscillateCallback(w) \/ AutoFireReset(w)
       PROVE  Goal
  <2>1. CASE WeaponBeginPlay(w) \/ OscillateCallback(w)
    BY <1>1, <2>1 DEF Goal, WeaponBeginPlay, OscillateCallback, character, firing
  <2>2. CASE \/ WeaponBeginPlayAndTake(w) \/ WeaponBeginPlayAndDestroy(w)
             \/ TakeWeapon(w) \/ TakeAmmoOnly(w)
    BY <1>5, <1>10, <2>2
  <2>3. CASE AutoFireReset(w)
    BY <1>7, <2>3 DEF Goal
  <2>4. QED
    BY <1>11, <2>1, <2>2, <2>3
<1>12. ASSUME NEW t \in WeaponTypes,
              EquipFirst(t) \/ EquipFirstCrash(t) \/ SwapWeapons(t)
       PROVE  Goal
  BY <1>3, <1>6, <1>10, <1>12 DEF Goal
<1>13. CASE \/ BeginPlayUnarmed \/ BeginPlayCrash \/ PressedCrash
            \/ ReleasedCrash \/ PrimaryFireButtonReleased
            \/ PrimaryFireButtonPressed \/ UNCHANGED vars
            \/ \E overlapping \in BOOLEAN : BeginPlayArmed(overlapping)
  <2>1. Goal
    BY <1>3, <1>4, <1>8, <1>9, <1>10, <1>13 DEF Goal
  <2>2. QED
    BY <2>1 DEF Goal
<1>14. Goal
  BY <1>11, <1>12, <1>13 DEF Next, Goal
<1>15. QED
  BY <1>14 DEF Goal

(***************************************************************************)
(* With a sound table the character's weapons implement the armory.        *)
(***************************************************************************)
THEOREM CharacterImplementsArmory ==
    ASSUME SoundTable
    PROVE  Spec => ImplementsArmory
<1>1. Init => Arm!Init
  BY TypeInit DEF Init, TypeOK, Arm!Init
<1>2. IInv /\ [Next]_vars => [Arm!Next]_(Arm!vars)
  BY RefinementStep
<1>3. QED
  BY <1>1, <1>2, InvCorrect, PTL DEF Spec, ImplementsArmory, Arm!Spec
=============================================================================
