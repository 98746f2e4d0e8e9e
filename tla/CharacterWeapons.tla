-------------------------- MODULE CharacterWeapons --------------------------
(***************************************************************************)
(* The player character's inventory (CrawlingChaosCharacter.{h,cpp}) and   *)
(* the weapons it carries (Weapon.{h,cpp}, Item.{h,cpp}): spawning,        *)
(* pickup by overlap, equipping and swapping, the fire button, the fire    *)
(* timer and the ammunition.  Unreal runs all of it on the game thread, so *)
(* an action is one callback: a BeginPlay, an overlap event, an input      *)
(* event or a timer that pops.  They come in any order the engine allows.  *)
(***************************************************************************)
EXTENDS Integers

CONSTANTS
    Weapons,          \* the AWeapon actors that exist during a level
    nullptr,          \* the null pointer
    DefaultWeapon,    \* the actor spawned from DefaultWeaponClass, or nullptr
    WeaponType,       \* WeaponType[w]: the type of w, which picks its table row
    WeaponTable,      \* WeaponTable[t]: the row of WeaponDataTable for type t
    StartingAmmoVal,  \* rounds of every initial kind (120 in the code)
    FragileTarget     \* can a trace hit a movable actor without a mesh root?

WeaponTypes == {"Shotgun", "RocketLauncher", "Rifle", "PlasmaGun"}
AmmoTypes   == {"Pistol", "Rifle", "Shotgun", "Plasma", "Rocket", "Grenade"}
FireModes   == {"Semi", "Burst", "FullAuto"}
ItemStates  == {"Pickup", "PickedUp", "Equipped"}

(***************************************************************************)
(* A row of the weapon table: the columns that decide how a weapon fires.  *)
(* AutoFireRate is in rounds per minute.                                   *)
(***************************************************************************)
WeaponRows == [AmmoType : AmmoTypes, WeaponAmmo : Nat, NumberOfShots : Nat,
               FireMode : FireModes, AutoFireRate : Nat, Hitscan : BOOLEAN]

ASSUME WeaponsAssumption ==
    /\ nullptr \notin Weapons
    /\ DefaultWeapon \in Weapons \cup {nullptr}
    /\ WeaponType \in [Weapons -> WeaponTypes]
    /\ WeaponTable \in [WeaponTypes -> WeaponRows]
    /\ StartingAmmoVal \in Nat
    /\ FragileTarget \in BOOLEAN

Row(w) == WeaponTable[WeaponType[w]]

VARIABLES
    \* the character
    begun,            \* its BeginPlay has run
    EquippedWeapon,   \* the weapon in hand, or nullptr
    WeaponInventory,  \* WeaponInventory[t]: the weapon of type t, or nullptr
    ammoKeys,         \* the keys of AmmoMap
    AmmoMap,          \* AmmoMap[t]: rounds of kind t, 0 for a t that is no key
    held,             \* the fire button is down
    crashed,          \* a null dereference or a failed TMap check ended the game
    \* the weapons
    actor,            \* actor[w]: "unspawned", "placed", "playing", "destroyed"
    ItemState,        \* ItemState[w]
    owned,            \* the weapons whose Player is the character
    canFire,          \* the weapons with bCanFire
    startFiring,      \* the weapons with bStartFiring
    fireTimer,        \* the weapons whose WeaponFireTimer is pending
    areaSphere,       \* the weapons whose AreaSphere reports overlaps
    oscillating,      \* the weapons with bCanOscillate
    oscTimer          \* the weapons whose OscTimer is pending

character == <<begun, EquippedWeapon, WeaponInventory, ammoKeys, AmmoMap, held>>
firing    == <<canFire, startFiring, fireTimer>>
item      == <<actor, ItemState, owned, areaSphere, oscillating, oscTimer>>
vars      == <<begun, EquippedWeapon, WeaponInventory, ammoKeys, AmmoMap, held,
               crashed, actor, ItemState, owned, canFire, startFiring,
               fireTimer, areaSphere, oscillating, oscTimer>>

Init ==
    /\ begun = FALSE
    /\ EquippedWeapon = nullptr
    /\ WeaponInventory = [t \in WeaponTypes |-> nullptr]
    /\ ammoKeys = AmmoTypes \ {"Grenade"}
    /\ AmmoMap = [t \in AmmoTypes |-> IF t \in ammoKeys THEN StartingAmmoVal ELSE 0]
    /\ held = FALSE
    /\ crashed = FALSE
    /\ actor = [w \in Weapons |-> IF w = DefaultWeapon THEN "unspawned" ELSE "placed"]
    /\ ItemState = [w \in Weapons |-> "Pickup"]
    /\ owned = {}
    /\ canFire = Weapons
    /\ startFiring = {}
    /\ fireTimer = {}
    /\ areaSphere = {}
    /\ oscillating = Weapons
    /\ oscTimer = {}

-----------------------------------------------------------------------------
(***************************************************************************)
(* Ammunition.  A kind that is no key of AmmoMap stands at zero, so that   *)
(* adding to the map and adding a new key to it are the same update.       *)
(***************************************************************************)
GetAmmo(t) == IF t \in ammoKeys THEN AmmoMap[t] ELSE 0

(* Mutant: ammunition of a kind that is no key is dropped. *)
AddAmmoOfKnownType(t, amount) ==
    /\ AmmoMap' = IF t \in ammoKeys THEN [AmmoMap EXCEPT ![t] = @ + amount] ELSE AmmoMap
    /\ UNCHANGED ammoKeys

AddAmmoOfType(t, amount) ==
    /\ ammoKeys' = ammoKeys \cup {t}
    /\ AmmoMap' = [AmmoMap EXCEPT ![t] = @ + amount]

(* Mutant: a volley takes its rounds even when there are fewer. *)
SpentUnclamped(t, amount) ==
    IF Row(EquippedWeapon).FireMode # "Burst" THEN 1 ELSE amount

(***************************************************************************)
(* DecrementInventoryValue looks at the fire mode of the weapon in hand: a *)
(* burst takes one round per shot but stops at zero, anything else takes   *)
(* exactly one round.                                                      *)
(***************************************************************************)
Spent(t, amount) ==
    IF Row(EquippedWeapon).FireMode # "Burst" THEN 1
    ELSE IF amount < AmmoMap[t] THEN amount ELSE AmmoMap[t]

DecrementInventoryValue(t, amount) ==
    AmmoMap' = [AmmoMap EXCEPT ![t] = @ - Spent(t, amount)]

-----------------------------------------------------------------------------
(***************************************************************************)
(* Items.  SetItemState(w, s) for s other than "Pickup" also turns off the *)
(* sphere and the oscillation of w (SetItemProperties).                    *)
(***************************************************************************)
AlreadyHasWeapon(t) == WeaponInventory[t] # nullptr

LeaveMap(S) ==
    /\ areaSphere' = areaSphere \ S
    /\ oscillating' = oscillating \ S

AddWeaponToInventory(w) ==
    /\ WeaponInventory' = [WeaponInventory EXCEPT ![WeaponType[w]] = w]
    /\ owned' = owned \cup {w}

(***************************************************************************)
(* The BeginPlay of a weapon placed in the level: Item's arms the timer of *)
(* the oscillation, Weapon's sets the properties of a pickup.  Turning the *)
(* sphere on makes the engine report the character at once if it already   *)
(* stands there, so OnSphereOverlap can run in the middle of the handler,  *)
(* and bCanOscillate := TRUE comes after it.                               *)
(***************************************************************************)
WeaponBeginPlay(w) ==
    /\ ~crashed
    /\ actor[w] = "placed"
    /\ actor' = [actor EXCEPT ![w] = "playing"]
    /\ oscTimer' = oscTimer \cup {w}
    /\ areaSphere' = areaSphere \cup {w}
    /\ oscillating' = oscillating \cup {w}
    /\ UNCHANGED <<character, firing, crashed, ItemState, owned>>

WeaponBeginPlayAndTake(w) ==
    /\ ~crashed
    /\ actor[w] = "placed"
    /\ ~AlreadyHasWeapon(WeaponType[w])
    /\ actor' = [actor EXCEPT ![w] = "playing"]
    /\ oscTimer' = oscTimer \cup {w}
    /\ AddAmmoOfType(Row(w).AmmoType, Row(w).WeaponAmmo)
    /\ AddWeaponToInventory(w)
    /\ ItemState' = [ItemState EXCEPT ![w] = "PickedUp"]
    /\ oscillating' = oscillating \cup {w}
    /\ UNCHANGED <<begun, EquippedWeapon, held, crashed, firing, areaSphere>>

WeaponBeginPlayAndDestroy(w) ==
    /\ ~crashed
    /\ actor[w] = "placed"
    /\ AlreadyHasWeapon(WeaponType[w])
    /\ AddAmmoOfType(Row(w).AmmoType, Row(w).WeaponAmmo)
    /\ actor' = [actor EXCEPT ![w] = "destroyed"]
    /\ UNCHANGED <<begun, EquippedWeapon, WeaponInventory, held, crashed, firing,
                   ItemState, owned, areaSphere, oscillating, oscTimer>>

(***************************************************************************)
(* OnSphereOverlap: the character walks into a weapon.  A weapon of a type *)
(* it already carries only leaves its ammunition and is destroyed.         *)
(***************************************************************************)
TakeWeapon(w) ==
    /\ ~crashed
    /\ w \in areaSphere
    /\ ~AlreadyHasWeapon(WeaponType[w])
    /\ AddAmmoOfType(Row(w).AmmoType, Row(w).WeaponAmmo)
    /\ AddWeaponToInventory(w)
    /\ ItemState' = [ItemState EXCEPT ![w] = "PickedUp"]
    /\ LeaveMap({w})
    /\ UNCHANGED <<begun, EquippedWeapon, held, crashed, firing, actor, oscTimer>>

(* Mutant: a weapon the character already has is not destroyed. *)
TakeAmmoAndLeave(w) ==
    /\ ~crashed
    /\ w \in areaSphere
    /\ AlreadyHasWeapon(WeaponType[w])
    /\ AmmoMap[Row(w).AmmoType] < 2 * StartingAmmoVal
    /\ AddAmmoOfType(Row(w).AmmoType, Row(w).WeaponAmmo)
    /\ UNCHANGED <<begun, EquippedWeapon, WeaponInventory, held, crashed, firing, item>>

TakeAmmoOnly(w) ==
    /\ ~crashed
    /\ w \in areaSphere
    /\ AlreadyHasWeapon(WeaponType[w])
    /\ AddAmmoOfType(Row(w).AmmoType, Row(w).WeaponAmmo)
    /\ actor' = [actor EXCEPT ![w] = "destroyed"]
    /\ areaSphere' = areaSphere \ {w}
    /\ oscTimer' = oscTimer \ {w}
    /\ UNCHANGED <<begun, EquippedWeapon, WeaponInventory, held, crashed, firing,
                   ItemState, owned, oscillating>>

(***************************************************************************)
(* The timer of the oscillation pops and is armed again while the item     *)
(* may still oscillate.                                                    *)
(***************************************************************************)
OscillateCallback(w) ==
    /\ ~crashed
    /\ w \in oscTimer
    /\ oscTimer' = IF w \in oscillating THEN oscTimer ELSE oscTimer \ {w}
    /\ UNCHANGED <<character, firing, crashed, actor, ItemState, owned,
                   areaSphere, oscillating>>

-----------------------------------------------------------------------------
(***************************************************************************)
(* The character's BeginPlay.  SpawnActor runs the BeginPlay of the        *)
(* default weapon, which may overlap the character like any other; if that *)
(* destroys the new weapon, SpawnActor returns null and                    *)
(* AddWeaponToInventory(nullptr) crashes.  AddWeaponToInventory keeps the  *)
(* weapon that came first, EquipWeapon equips the new one in any case.     *)
(***************************************************************************)
BeginPlayUnarmed ==
    /\ ~crashed
    /\ ~begun
    /\ DefaultWeapon = nullptr
    /\ begun' = TRUE
    /\ UNCHANGED <<EquippedWeapon, WeaponInventory, ammoKeys, AmmoMap, held,
                   crashed, item, firing>>

(* Mutant: BeginPlay spawns the default weapon and never equips it. *)
BeginPlayUnequipped(overlapping) ==
    /\ ~crashed
    /\ ~begun
    /\ DefaultWeapon # nullptr
    /\ begun' = TRUE
    /\ UNCHANGED <<EquippedWeapon, WeaponInventory, ammoKeys, AmmoMap, held,
                   crashed, item, firing>>

BeginPlayArmed(overlapping) ==
    /\ ~crashed
    /\ ~begun
    /\ DefaultWeapon # nullptr
    /\ ~(overlapping /\ AlreadyHasWeapon(WeaponType[DefaultWeapon]))
    /\ begun' = TRUE
    /\ EquippedWeapon' = DefaultWeapon
    /\ actor' = [actor EXCEPT ![DefaultWeapon] = "playing"]
    /\ ItemState' = [ItemState EXCEPT ![DefaultWeapon] = "Equipped"]
    /\ LeaveMap({DefaultWeapon})
    /\ oscTimer' = oscTimer \cup {DefaultWeapon}
    /\ IF AlreadyHasWeapon(WeaponType[DefaultWeapon])
       THEN UNCHANGED <<WeaponInventory, owned>>
       ELSE AddWeaponToInventory(DefaultWeapon)
    /\ IF overlapping
       THEN AddAmmoOfType(Row(DefaultWeapon).AmmoType, Row(DefaultWeapon).WeaponAmmo)
       ELSE UNCHANGED <<ammoKeys, AmmoMap>>
    /\ UNCHANGED <<held, crashed, firing>>

Crash == crashed' = TRUE /\ UNCHANGED <<character, firing, item>>

BeginPlayCrash ==
    /\ ~crashed
    /\ ~begun
    /\ DefaultWeapon # nullptr
    /\ AlreadyHasWeapon(WeaponType[DefaultWeapon])
    /\ Crash

-----------------------------------------------------------------------------
(***************************************************************************)
(* SwapWeapons(t), bound to the keys Weapon1 .. Weapon4.                   *)
(***************************************************************************)
EquipFirst(t) ==
    /\ ~crashed
    /\ begun
    /\ EquippedWeapon = nullptr
    /\ AlreadyHasWeapon(t)
    /\ EquippedWeapon' = WeaponInventory[t]
    /\ ItemState' = [ItemState EXCEPT ![WeaponInventory[t]] = "Equipped"]
    /\ LeaveMap({WeaponInventory[t]})
    /\ UNCHANGED <<begun, WeaponInventory, ammoKeys, AmmoMap, held, crashed,
                   firing, actor, owned, oscTimer>>

EquipFirstCrash(t) ==
    /\ ~crashed
    /\ begun
    /\ EquippedWeapon = nullptr
    /\ ~AlreadyHasWeapon(t)
    /\ Crash

(* The condition and the frame SwapWeapons shares with its mutants. *)
Swapping(t) ==
    /\ ~crashed
    /\ begun
    /\ EquippedWeapon # nullptr
    /\ AlreadyHasWeapon(t)
    /\ t # WeaponType[EquippedWeapon]
    /\ EquippedWeapon' = WeaponInventory[t]
    /\ LeaveMap({EquippedWeapon, WeaponInventory[t]})
    /\ UNCHANGED <<begun, WeaponInventory, ammoKeys, AmmoMap, held, crashed,
                   firing, actor, owned, oscTimer>>

(* Mutant: the old weapon is not put away. *)
SwapKeepsOld(t) ==
    /\ Swapping(t)
    /\ ItemState' = [ItemState EXCEPT ![WeaponInventory[t]] = "Equipped"]

SwapWeapons(t) ==
    /\ Swapping(t)
    /\ ItemState' = [ItemState EXCEPT ![EquippedWeapon] = "PickedUp",
                                      ![WeaponInventory[t]] = "Equipped"]

-----------------------------------------------------------------------------
(***************************************************************************)
(* Firing.  MayFire(w, start, can) is what survives the early returns of   *)
(* OnFire, start and can being the two flags as OnFire finds them.  A      *)
(* volley clears bCanFire, traces its shots, pays for them and arms the    *)
(* timer that will set bCanFire again; SetTimer with a rate of zero, which *)
(* is what GetRateOfFire makes of AutoFireRate = 0, arms nothing.  A trace *)
(* that hits a movable actor whose root is no static mesh dereferences the *)
(* null result of a Cast.                                                  *)
(***************************************************************************)
(* Mutant: OnFire without its sanity check of ItemState. *)
MayFireAnywhere(w, start, can) ==
    /\ w \in start
    /\ w \in can
    /\ w \in owned
    /\ GetAmmo(Row(w).AmmoType) > 0

MayFire(w, start, can) ==
    /\ w \in start
    /\ w \in can
    /\ ItemState[w] = "Equipped"
    /\ w \in owned
    /\ GetAmmo(Row(w).AmmoType) > 0

(* Mutant: only full-auto weapons arm the timer. *)
RearmedFullAuto(w, timers) ==
    IF Row(w).FireMode = "FullAuto" THEN timers \cup {w} ELSE timers \ {w}

Rearmed(w, timers) ==
    IF Row(w).AutoFireRate > 0 THEN timers \cup {w} ELSE timers \ {w}

Volley(w, can, timers) ==
    /\ canFire' = can \ {w}
    /\ \/ /\ DecrementInventoryValue(Row(w).AmmoType, Row(w).NumberOfShots)
          /\ fireTimer' = Rearmed(w, timers)
          /\ UNCHANGED crashed
       \/ /\ FragileTarget
          /\ Row(w).Hitscan
          /\ crashed' = TRUE
          /\ fireTimer' = timers
          /\ UNCHANGED AmmoMap

OnFire(w, start, can, timers) ==
    \/ /\ MayFire(w, start, can)
       /\ Volley(w, can, timers)
    \/ /\ ~MayFire(w, start, can)
       /\ canFire' = can
       /\ fireTimer' = timers
       /\ UNCHANGED <<AmmoMap, crashed>>

(* Mutant: the timer only resets bCanFire. *)
ResetWithoutFire(w) ==
    /\ ~crashed
    /\ w \in fireTimer
    /\ canFire' = canFire \cup {w}
    /\ fireTimer' = fireTimer \ {w}
    /\ UNCHANGED <<character, crashed, startFiring, item>>

(***************************************************************************)
(* The timer of w pops.  A full-auto weapon whose trigger is still down    *)
(* fires again in the same callback.                                       *)
(***************************************************************************)
AutoFireReset(w) ==
    /\ ~crashed
    /\ w \in fireTimer
    /\ \/ /\ w \in startFiring
          /\ Row(w).FireMode = "FullAuto"
          /\ GetAmmo(Row(w).AmmoType) > 0
          /\ OnFire(w, startFiring, canFire \cup {w}, fireTimer \ {w})
       \/ /\ ~ /\ w \in startFiring
               /\ Row(w).FireMode = "FullAuto"
               /\ GetAmmo(Row(w).AmmoType) > 0
          /\ canFire' = canFire \cup {w}
          /\ fireTimer' = fireTimer \ {w}
          /\ UNCHANGED <<AmmoMap, crashed>>
    /\ UNCHANGED <<begun, EquippedWeapon, WeaponInventory, ammoKeys, held,
                   startFiring, item>>

(***************************************************************************)
(* The fire button: the engine pairs the two bindings, so a press and a    *)
(* release alternate.  AmmoMap[t] on a missing key fails the check of TMap,*)
(* and PrimaryFireButtonReleased dereferences EquippedWeapon unguarded.    *)
(***************************************************************************)
PrimaryFireButtonPressed ==
    /\ ~crashed
    /\ begun
    /\ ~held
    /\ held' = TRUE
    /\ IF /\ EquippedWeapon # nullptr
          /\ AmmoMap[Row(EquippedWeapon).AmmoType] # 0
       THEN /\ startFiring' = startFiring \cup {EquippedWeapon}
            /\ OnFire(EquippedWeapon, startFiring \cup {EquippedWeapon},
                      canFire, fireTimer)
       ELSE UNCHANGED <<firing, AmmoMap, crashed>>
    /\ EquippedWeapon # nullptr => Row(EquippedWeapon).AmmoType \in ammoKeys
    /\ UNCHANGED <<begun, EquippedWeapon, WeaponInventory, ammoKeys, item>>

PressedCrash ==
    /\ ~crashed
    /\ begun
    /\ ~held
    /\ EquippedWeapon # nullptr
    /\ Row(EquippedWeapon).AmmoType \notin ammoKeys
    /\ Crash

PrimaryFireButtonReleased ==
    /\ ~crashed
    /\ held
    /\ EquippedWeapon # nullptr
    /\ held' = FALSE
    /\ startFiring' = startFiring \ {EquippedWeapon}
    /\ UNCHANGED <<begun, EquippedWeapon, WeaponInventory, ammoKeys, AmmoMap,
                   crashed, item, canFire, fireTimer>>

ReleasedCrash ==
    /\ ~crashed
    /\ held
    /\ EquippedWeapon = nullptr
    /\ Crash

-----------------------------------------------------------------------------
Next ==
    \/ BeginPlayUnarmed
    \/ \E overlapping \in BOOLEAN : BeginPlayArmed(overlapping)
    \/ BeginPlayCrash
    \/ \E w \in Weapons : \/ WeaponBeginPlay(w)
                          \/ WeaponBeginPlayAndTake(w)
                          \/ WeaponBeginPlayAndDestroy(w)
                          \/ TakeWeapon(w)
                          \/ TakeAmmoOnly(w)
                          \/ OscillateCallback(w)
                          \/ AutoFireReset(w)
    \/ \E t \in WeaponTypes : EquipFirst(t) \/ EquipFirstCrash(t) \/ SwapWeapons(t)
    \/ PrimaryFireButtonPressed \/ PressedCrash
    \/ PrimaryFireButtonReleased \/ ReleasedCrash

Spec == Init /\ [][Next]_vars

(***************************************************************************)
(* The timer manager ticks every frame, so a pending timer pops.  Nothing  *)
(* is assumed of the player.                                               *)
(***************************************************************************)
TimersPop == \A w \in Weapons : WF_vars(AutoFireReset(w))

FairSpec == Spec /\ TimersPop

-----------------------------------------------------------------------------
(***************************************************************************)
(* Every variable stays in its range; in particular no ammunition count is *)
(* ever negative (DecrementInventoryValue relies on OnFire's test).        *)
(***************************************************************************)
TypeOK ==
    /\ begun \in BOOLEAN
    /\ EquippedWeapon \in Weapons \cup {nullptr}
    /\ WeaponInventory \in [WeaponTypes -> Weapons \cup {nullptr}]
    /\ ammoKeys \subseteq AmmoTypes
    /\ AmmoMap \in [AmmoTypes -> Nat]
    /\ held \in BOOLEAN
    /\ crashed \in BOOLEAN
    /\ actor \in [Weapons -> {"unspawned", "placed", "playing", "destroyed"}]
    /\ ItemState \in [Weapons -> ItemStates]
    /\ owned \subseteq Weapons
    /\ canFire \subseteq Weapons
    /\ startFiring \subseteq Weapons
    /\ fireTimer \subseteq Weapons
    /\ areaSphere \subseteq Weapons
    /\ oscillating \subseteq Weapons
    /\ oscTimer \subseteq Weapons

(***************************************************************************)
(* The weapon in hand is the only one in state Equipped: through spawns,   *)
(* early pickups and swaps OnFire's "sanity check" and EquippedWeapon      *)
(* never disagree.                                                         *)
(***************************************************************************)
EquippedIsUnique ==
    \A w \in Weapons : ItemState[w] = "Equipped" <=> w = EquippedWeapon

(***************************************************************************)
(* The inventory, the states and the Player pointers agree: the weapon in  *)
(* hand is the only one in state Equipped, the slot of a type holds a      *)
(* live weapon of that type owned by the character and off the map, and    *)
(* every owned weapon sits in its slot.                                    *)
(***************************************************************************)
SlotsHoldOwned ==
    \A t \in WeaponTypes : AlreadyHasWeapon(t) =>
        /\ WeaponType[WeaponInventory[t]] = t
        /\ WeaponInventory[t] \in owned

OwnedAreCarried ==
    \A w \in owned : /\ WeaponInventory[WeaponType[w]] = w
                     /\ actor[w] = "playing"
                     /\ ItemState[w] # "Pickup"

InventoryConsistent == EquippedIsUnique /\ SlotsHoldOwned /\ OwnedAreCarried

(***************************************************************************)
(* A weapon's sphere reports overlaps exactly while it lies on the map, so *)
(* nothing in the inventory can be picked up, or destroyed, again.         *)
(***************************************************************************)
SphereOnlyOnMap ==
    areaSphere = {w \in Weapons : actor[w] = "playing" /\ ItemState[w] = "Pickup"}

(***************************************************************************)
(* The inductive invariant behind the invariants above: before its         *)
(* BeginPlay the character has nothing in hand and its default weapon does *)
(* not exist, and a weapon that has not begun play is in its first state.  *)
(***************************************************************************)
EmptyHanded ==
    ~begun => /\ EquippedWeapon = nullptr
              /\ DefaultWeapon # nullptr => actor[DefaultWeapon] = "unspawned"

FreshWeapons ==
    \A w \in Weapons : actor[w] \in {"unspawned", "placed"} => ItemState[w] = "Pickup"

IInv ==
    /\ TypeOK
    /\ EquippedIsUnique
    /\ SlotsHoldOwned
    /\ OwnedAreCarried
    /\ SphereOnlyOnMap
    /\ EmptyHanded
    /\ FreshWeapons

(***************************************************************************)
(* No weapon with a rate of fire wedges: whatever happens between a shot   *)
(* and the timer, a weapon that may not fire has a timer that will let it. *)
(***************************************************************************)
FireTimerArmed ==
    \A w \in Weapons : Row(w).AutoFireRate > 0 /\ ~crashed =>
        (w \notin canFire <=> w \in fireTimer)

(***************************************************************************)
(* An item that oscillates has its timer running, from whose elapsed time  *)
(* OscillateInPlace computes the height.                                   *)
(***************************************************************************)
OscTimerRuns ==
    \A w \in oscillating : actor[w] = "playing" => w \in oscTimer

(***************************************************************************)
(* "Once the item is picked up, we don't have to worry about it going      *)
(* /back/ to the pickup state" (Weapon.h:149), nor about its type being    *)
(* offered to the player again.                                            *)
(***************************************************************************)
NeverBackOnMap ==
    [][\A w \in Weapons : ItemState[w] # "Pickup" =>
           ItemState'[w] # "Pickup" /\ w \notin areaSphere']_vars

(***************************************************************************)
(* Ammunition is gained only from a weapon that leaves the map in the same *)
(* step, once per weapon and by its WeaponAmmo.                            *)
(***************************************************************************)
Gone(w) == actor[w] = "destroyed" \/ ItemState[w] # "Pickup"

AmmoOnlyFromPickups ==
    [][\A t \in AmmoTypes : AmmoMap'[t] > AmmoMap[t] =>
           \E w \in Weapons : /\ Row(w).AmmoType = t
                             /\ ~Gone(w)
                             /\ Gone(w)'
                             /\ AmmoMap'[t] = AmmoMap[t] + Row(w).WeaponAmmo]_vars

(***************************************************************************)
(* "Prevents the player from doing annoying cheese like scroll-wheel       *)
(* shooting" (Weapon.cpp:263): a press of the button never fires a weapon  *)
(* whose timer has not popped since its last volley.                       *)
(***************************************************************************)
NoScrollWheelShooting ==
    [][held' # held /\ AmmoMap' # AmmoMap => EquippedWeapon \in canFire]_vars

(***************************************************************************)
(* The code implements the abstract armory: only the wielded weapon        *)
(* discharges, only when recovered or on the pop of its timer, and every   *)
(* volley takes between one and MaxCost rounds the player has.             *)
(***************************************************************************)
Caliber == [w \in Weapons |-> Row(w).AmmoType]

MaxCost ==
    [w \in Weapons |-> IF Row(w).FireMode = "Burst" THEN Row(w).NumberOfShots ELSE 1]

Arm == INSTANCE Armory WITH
    nobody  <- nullptr,
    wielded <- EquippedWeapon,
    ready   <- canFire,
    ammo    <- AmmoMap

ImplementsArmory == Arm!Spec

(***************************************************************************)
(* What the implementation asks of the data: a row fires at least one shot *)
(* per trigger pull, and no trace cuts a volley short.                     *)
(***************************************************************************)
SoundTable ==
    /\ \A w \in Weapons : Row(w).NumberOfShots > 0
    /\ ~FragileTarget

(***************************************************************************)
(* No handler dereferences null or indexes a map with a missing key.       *)
(***************************************************************************)
NoCrash == ~crashed

(***************************************************************************)
(* What a level must provide for that: a default weapon whose type nothing *)
(* on the map shares and whose ammunition the character starts with, and   *)
(* no movable target that a trace must not hit.                            *)
(***************************************************************************)
SafeLevel ==
    /\ DefaultWeapon # nullptr
    /\ \A w \in Weapons : WeaponType[w] = WeaponType[DefaultWeapon] => w = DefaultWeapon
    /\ Row(DefaultWeapon).AmmoType # "Grenade"
    /\ ~FragileTarget

(***************************************************************************)
(* A character without a default weapon crashes with empty hands only:     *)
(* once it has equipped something from its inventory it is safe, because   *)
(* every pickup brings the key of its ammunition into AmmoMap.             *)
(***************************************************************************)
CrashOnlyEmptyHanded == crashed => EquippedWeapon = nullptr

(***************************************************************************)
(* Every weapon that has a rate of fire recovers from every volley.        *)
(***************************************************************************)
Recovers ==
    \A w \in Weapons : Row(w).AutoFireRate > 0 =>
        ((w \notin canFire) ~> (w \in canFire \/ crashed))

(***************************************************************************)
(* A full-auto weapon that is firing goes on, from timer to timer, until   *)
(* its ammunition is gone or the player lets go of it.                     *)
(***************************************************************************)
TriggerOn(w) == w \in startFiring /\ w = EquippedWeapon /\ w \in owned

FullAutoDrains ==
    \A w \in Weapons : Row(w).FireMode = "FullAuto" /\ Row(w).AutoFireRate > 0 =>
        ((w \notin canFire /\ TriggerOn(w))
            ~> (GetAmmo(Row(w).AmmoType) = 0 \/ ~TriggerOn(w) \/ crashed))

-----------------------------------------------------------------------------
(* "Inventory of weapons the character is currently holding"
   (CrawlingChaosCharacter.h:84): the weapon in hand is in the inventory.
   Without a default weapon it is true; with one, a pickup of its type before
   BeginPlay breaks it.                                                       *)
=============================================================================
