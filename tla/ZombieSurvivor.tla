---------------------------- MODULE ZombieSurvivor ---------------------------
(***************************************************************************)
(* Game and Survivor of zombie-survivor. A Survivor is an object of its    *)
(* own: the game takes any, a member or not, wounded or experienced, and   *)
(* callers wound him, let him kill zombies, equip him, discard what he has *)
(* and unlock his skills behind its back. Game.equip_survivor and          *)
(* Survivor.equip do the same to him.                                      *)
(*                                                                         *)
(* Equipment is counted by slot, since nothing depends on the names of the *)
(* items. A call that raises or returns at once is a step that is not      *)
(* enabled. Left out: the history's texts and times, a second survivor of  *)
(* one name, whom add_survivor refuses, skills without effect, and a       *)
(* PlusOneAction that the caller unlocks himself.                          *)
(***************************************************************************)
EXTENDS Integers, FiniteSetsExt

CONSTANTS
    Survivors,
    MaxWounds,
    BaseActions,
    BaseCapacity,
    MaxInHand,
    YellowAt, OrangeAt, RedAt,  \* experience the levels begin with
    MaxExperience,              \* bound: zombies killed by one survivor
    MaxHoards                   \* bound: hoard skills unlocked by one survivor

ASSUME ZombieAssumption ==
    /\ MaxWounds \in Nat \ {0} /\ BaseActions \in Nat
    /\ BaseCapacity \in Nat /\ BaseCapacity >= MaxWounds /\ MaxInHand \in Nat
    /\ YellowAt \in Nat \ {0} /\ OrangeAt \in Nat /\ RedAt \in Nat
    /\ YellowAt < OrangeAt /\ OrangeAt < RedAt
    /\ MaxExperience \in Nat /\ MaxHoards \in Nat

VARIABLES
    survivor,   \* the survivors there are
    members,    \* those added to the game
    gameLevel,
    ended,
    above,      \* history: since the game looked at levels, a member rose above
                \* its level or joined above it
    below,      \* history: since the game looked at levels, a member died
    unaided,    \* history: those who left Blue by a kill the game was not told of
    fell,       \* history: a death in the game while it had members
    unnoticed   \* history: a member died unknown to the game since it last
                \* looked for its end

zombieVars == <<survivor, members, gameLevel, ended, above, below, unaided, fell, unnoticed>>

Blue == 0
Yellow == 1
Orange == 2
Red == 3
Levels == Blue..Red

LevelFor(xp) ==
    IF xp >= RedAt THEN Red
    ELSE IF xp >= OrangeAt THEN Orange
    ELSE IF xp >= YellowAt THEN Yellow ELSE Blue

Level(s) == LevelFor(survivor[s].experience)
IsAlive(s) == survivor[s].wounds < MaxWounds
Carried(s) == survivor[s].inHand + survivor[s].inReserve
ActionsPerTurn(s) == BaseActions + survivor[s].plusOnes
EquipmentCapacity(s) == BaseCapacity - survivor[s].wounds + survivor[s].hoards

\* Variant: one item more than fits.
CanEquipOneMore(s) == Carried(s) <= EquipmentCapacity(s)

CanEquip(s) == Carried(s) < EquipmentCapacity(s)

\* Variant: what is picked up goes into a hand while there is room at all.
GoesInHandAlways(s) == TRUE

GoesInHand(s) == survivor[s].inHand < MaxInHand

\* The level whose skill nobody chooses.
UnlocksPlusOne(level) == level = Yellow

\* Variant: the dead count for the level of the game.
LivingAll(who) == members

\* The members still alive, after who took his wound or killed his zombie.
Living(who) == {s \in members : who[s].wounds < MaxWounds}

Highest(who) == Max({LevelFor(who[s].experience) : s \in Living(who)} \cup {Blue})

\* Variant: the members are looked at as they were before the wound.
EndsUnwounded(who) == members # {} /\ \A s \in members : ~IsAlive(s)

\* Nobody who is in the game is left alive.
Ends(who) == members # {} /\ \A s \in members : who[s].wounds >= MaxWounds

-----------------------------------------------------------------------------
ZombieInit ==
    /\ survivor = [s \in Survivors |-> [wounds |-> 0, experience |-> 0, inHand |-> 0,
                                        inReserve |-> 0, plusOnes |-> 0, hoards |-> 0]]
    /\ members = {}
    /\ gameLevel = Blue
    /\ ended = FALSE
    /\ above = FALSE /\ below = FALSE
    /\ unaided = {}
    /\ fell = FALSE /\ unnoticed = FALSE

AddSurvivor(s) ==
    /\ s \notin members
    /\ members' = members \cup {s}
    /\ above' = (above \/ (IsAlive(s) /\ Level(s) > gameLevel))
    /\ UNCHANGED <<survivor, gameLevel, ended, below, unaided, fell, unnoticed>>

\* A wound that leaves the survivor alive, and one that does not.
WoundSurvivor(s) ==
    /\ IsAlive(s)
    /\ survivor' = [survivor EXCEPT ![s].wounds = @ + 1]
    /\ \/ /\ survivor[s].wounds + 1 < MaxWounds
          /\ UNCHANGED <<ended, below, fell, unnoticed>>
       \/ /\ survivor[s].wounds + 1 >= MaxWounds
          /\ ended' = (ended \/ Ends(survivor'))
          /\ below' = (below \/ s \in members)
          /\ fell' = (fell \/ members # {})
          /\ unnoticed' = FALSE
    /\ UNCHANGED <<members, gameLevel, above, unaided>>

\* Survivor.receive_wound, called by somebody else than the game.
ReceiveWound(s) ==
    /\ IsAlive(s)
    /\ survivor' = [survivor EXCEPT ![s].wounds = @ + 1]
    /\ LET dies == s \in members /\ survivor[s].wounds + 1 >= MaxWounds
       IN  below' = (below \/ dies) /\ unnoticed' = (unnoticed \/ dies)
    /\ UNCHANGED <<members, gameLevel, ended, above, unaided, fell>>

EquipSurvivor(s) ==
    /\ CanEquip(s)
    /\ survivor' = IF GoesInHand(s) THEN [survivor EXCEPT ![s].inHand = @ + 1]
                                    ELSE [survivor EXCEPT ![s].inReserve = @ + 1]
    /\ UNCHANGED <<members, gameLevel, ended, above, below, unaided, fell, unnoticed>>

\* Survivor.discard, of something in a hand and of something in reserve.
Discard(s) ==
    /\ \/ survivor[s].inHand > 0 /\ survivor' = [survivor EXCEPT ![s].inHand = @ - 1]
       \/ survivor[s].inReserve > 0 /\ survivor' = [survivor EXCEPT ![s].inReserve = @ - 1]
    /\ UNCHANGED <<members, gameLevel, ended, above, below, unaided, fell, unnoticed>>

\* The dead may kill, and so may those who are not in the game.
KillZombie(s) ==
    LET experience == survivor[s].experience + 1
        level == LevelFor(experience)
    IN  /\ experience <= MaxExperience
        /\ \/ /\ level = Level(s)
              /\ survivor' = [survivor EXCEPT ![s].experience = experience]
              /\ UNCHANGED <<gameLevel, above, below>>
           \/ /\ level # Level(s)
              /\ survivor' = [survivor EXCEPT ![s].experience = experience,
                    ![s].plusOnes = IF UnlocksPlusOne(level) THEN @ + 1 ELSE @]
              /\ gameLevel' = Highest(survivor')
              /\ above' = FALSE /\ below' = FALSE
        /\ UNCHANGED <<members, ended, unaided, fell, unnoticed>>

\* Survivor.kill_zombie, called by somebody else than the game: no level-up is
\* looked for.
KillZombieAlone(s) ==
    LET level == LevelFor(survivor[s].experience + 1)
    IN  /\ survivor[s].experience + 1 <= MaxExperience
        /\ survivor' = [survivor EXCEPT ![s].experience = @ + 1]
        /\ above' = (above \/ (s \in members /\ IsAlive(s) /\ level > gameLevel))
        /\ unaided' = IF Level(s) = Blue /\ level # Blue THEN unaided \cup {s} ELSE unaided
        /\ UNCHANGED <<members, gameLevel, ended, below, fell, unnoticed>>

\* Survivor.unlock_skill: the choice at the higher levels is the caller's.
UnlockHoard(s) ==
    /\ survivor[s].hoards < MaxHoards
    /\ survivor' = [survivor EXCEPT ![s].hoards = @ + 1]
    /\ UNCHANGED <<members, gameLevel, ended, above, below, unaided, fell, unnoticed>>

ZombieNext ==
    \E s \in Survivors :
        \/ AddSurvivor(s) \/ WoundSurvivor(s) \/ EquipSurvivor(s) \/ KillZombie(s)
        \/ ReceiveWound(s) \/ KillZombieAlone(s) \/ Discard(s) \/ UnlockHoard(s)

ZombieSpec == ZombieInit /\ [][ZombieNext]_zombieVars

-----------------------------------------------------------------------------
ZombieTypeOK ==
    /\ survivor \in [Survivors ->
           [wounds : 0..MaxWounds, experience : 0..MaxExperience,
            inHand : 0..MaxInHand, inReserve : Nat,
            plusOnes : Nat, hoards : 0..MaxHoards]]
    /\ members \in SUBSET Survivors
    /\ gameLevel \in Levels
    /\ ended \in BOOLEAN /\ fell \in BOOLEAN
    /\ above \in BOOLEAN /\ below \in BOOLEAN /\ unnoticed \in BOOLEAN
    /\ unaided \in SUBSET Survivors

\* The game never has a level that none of its members reached. It is the level
\* of the best living member but for what the game does not look at: it is too
\* high only after a death, and too low only after a member rose or joined
\* above it unknown to the game (game.py:34-40, 56-73, survivor.py:90-91).
LevelIsHighest ==
    LET best == Highest(survivor)
    IN  /\ gameLevel <= Max({Level(s) : s \in members} \cup {Blue})
        /\ ~below => gameLevel <= best
        /\ ~above => gameLevel >= best

\* A survivor never carries more than he could without his wounds: a wound is
\* the only way to be overloaded, and no item is picked up while he is. And
\* past Blue he has won exactly one more action, dead or alive, in the game or
\* not, unless he left Blue by a kill the game was not told of: then he never
\* wins it (game.py:56-64, survivor.py:40-48, 66-100).
WithinMeans ==
    \A s \in Survivors :
        /\ Carried(s) <= EquipmentCapacity(s) + survivor[s].wounds
        /\ ActionsPerTurn(s) = BaseActions + IF Level(s) = Blue \/ s \in unaided THEN 0 ELSE 1

\* Once someone has died in it, a game that has not ended has a living member,
\* whoever joined since, the dead included, or a member died of a wound the
\* game was not told of after it last looked; and a game that has ended has a
\* dead member, whatever came after (game.py:42-50, 75-78, survivor.py:66-70).
GoesOnWithLiving ==
    /\ fell /\ ~ended /\ ~unnoticed => \E s \in members : IsAlive(s)
    /\ ended => \E s \in members : ~IsAlive(s)
=============================================================================
