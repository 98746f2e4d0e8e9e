------------------------------- MODULE Armory -------------------------------
(***************************************************************************)
(* What the weapon code promises a designer, without timers, item states,  *)
(* inventories or input events: one weapon at a time is wielded, a weapon  *)
(* is ready or recovering, only the wielded ready weapon is discharged,    *)
(* every discharge is paid for with rounds the player really has, and      *)
(* rounds are otherwise only gained.  CharacterWeapons implements it.      *)
(***************************************************************************)
EXTENDS Integers

CONSTANTS
    Weapons,      \* the weapon actors of a level
    nobody,       \* the value of wielded before a weapon is drawn
    AmmoTypes,    \* the kinds of rounds
    Caliber,      \* Caliber[w]: the kind of round weapon w uses
    MaxCost       \* MaxCost[w]: the rounds one discharge of w may cost at most

VARIABLES
    wielded,      \* the weapon in the player's hands
    ready,        \* the weapons that have recovered from their last discharge
    ammo          \* ammo[t]: the rounds of kind t in the player's pockets

vars == <<wielded, ready, ammo>>

Init ==
    /\ wielded = nobody
    /\ ready = Weapons
    /\ ammo \in [AmmoTypes -> Nat]

(***************************************************************************)
(* The player walks over a pickup, draws a weapon, or both.                *)
(***************************************************************************)
Supply ==
    /\ wielded' \in Weapons \cup {wielded}
    /\ ammo' \in [AmmoTypes -> Nat]
    /\ \A t \in AmmoTypes : ammo'[t] >= ammo[t]
    /\ UNCHANGED ready

(***************************************************************************)
(* A discharge of w takes at least one round and never more than there are.*)
(***************************************************************************)
Pay(w) ==
    \E cost \in 1 .. MaxCost[w] :
        /\ cost <= ammo[Caliber[w]]
        /\ ammo' = [ammo EXCEPT ![Caliber[w]] = @ - cost]

Shoot(w) ==
    /\ w = wielded
    /\ w \in ready
    /\ Pay(w)
    /\ ready' = ready \ {w}
    /\ UNCHANGED wielded

Recover(w) ==
    /\ w \notin ready
    /\ ready' = ready \cup {w}
    /\ UNCHANGED <<wielded, ammo>>

(***************************************************************************)
(* Automatic fire: the recovery of w is at once spent on the next shot.    *)
(***************************************************************************)
ShootAgain(w) ==
    /\ w = wielded
    /\ w \notin ready
    /\ Pay(w)
    /\ UNCHANGED <<wielded, ready>>

Next ==
    \/ Supply
    \/ \E w \in Weapons : Shoot(w) \/ Recover(w) \/ ShootAgain(w)

Spec == Init /\ [][Next]_vars
=============================================================================
