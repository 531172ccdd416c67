----------------------------- MODULE JellyTower -----------------------------
(***************************************************************************)
(* Rounds of towers shooting at jellies: every tower hits the first jelly  *)
(* that is alive when its turn comes, for a damage drawn from the table.   *)
(***************************************************************************)
EXTENDS Integers, SequencesExt

CONSTANT Arenas    \* [towers: sequence of [color, level], jellies: of [color, health]]
VARIABLES arena, health

Towers == arena.towers
Jellies == arena.jellies

Colors == {"Blue", "Red", "BlueRed"}

TowerKinds == [color : Colors, level : 1..4]
JellyKinds == [color : Colors, health : Nat \ {0}]

ASSUME ArenaAssumption ==
    \A a \in Arenas : a.towers \in Seq(TowerKinds) /\ a.jellies \in Seq(JellyKinds)

\* The damage of a tower by its level: on its own color, on the other one, and
\* for a tower of both colors.
OwnColor == <<2..5, 5..9, 9..12, 12..15>>
OtherColor == <<0..0, 1..1, 2..2, 3..3>>
BothColors == <<2..2, 2..4, 4..6, 6..8>>

DamageRange(tower, color) ==
    CASE tower.color = "BlueRed" -> BothColors[tower.level]
      [] tower.color = color -> OwnColor[tower.level]
      [] OTHER -> OtherColor[tower.level]

\* A jelly of both colors takes the worse of a blue and a red draw.
Damages(tower, color) ==
    IF color = "BlueRed"
    THEN {Max({b, r}) : b \in DamageRange(tower, "Blue"), r \in DamageRange(tower, "Red")}
    ELSE DamageRange(tower, color)

JellyIsAlive(h, j) == h[j] > 0
TakeDamage(h, j, damage) == [h EXCEPT ![j] = Max({0, @ - damage})]

\* What one shot can make of the healths, and what a round can.
Shot(tower, h) ==
    LET alive == {j \in DOMAIN Jellies : JellyIsAlive(h, j)}
    IN  IF alive = {} THEN {h}
        ELSE {TakeDamage(h, Min(alive), damage) : damage \in Damages(tower, Jellies[Min(alive)].color)}

RoundOutcomes ==
    FoldLeft(LAMBDA outcomes, tower : UNION {Shot(tower, h) : h \in outcomes}, {health}, Towers)

-----------------------------------------------------------------------------
ArenaInit ==
    /\ arena \in Arenas
    /\ health = [j \in DOMAIN Jellies |-> Jellies[j].health]

ExecuteRound == health' \in RoundOutcomes /\ UNCHANGED arena

ArenaNext == ExecuteRound

arenaVars == <<arena, health>>

ArenaSpec == ArenaInit /\ [][ArenaNext]_arenaVars

-----------------------------------------------------------------------------
ArenaTypeOK == arena \in Arenas /\ health \in [DOMAIN Jellies -> Nat]

Fresh(j) == health[j] = Jellies[j].health

\* The front falls first, over all rounds: a jelly is hurt only once every one
\* before it is dead; and a round leaves the front as it is only if every tower
\* may miss it (arena.py:25-37, jelly.py:27-34).
FrontFallsFirst ==
    /\ \A i, j \in DOMAIN Jellies : i < j /\ ~Fresh(j) => ~JellyIsAlive(health, i)
    /\ \A front \in DOMAIN Jellies :
          /\ JellyIsAlive(health, front) /\ \A i \in 1..(front - 1) : ~JellyIsAlive(health, i)
          /\ \E t \in DOMAIN Towers : 0 \notin Damages(Towers[t], Jellies[front].color)
          => \A h \in RoundOutcomes : h[front] < health[front]
=============================================================================
