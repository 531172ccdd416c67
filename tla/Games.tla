-------------------------------- MODULE Games -------------------------------
(***************************************************************************)
(* The games of the katas side by side: survivors, a snake, a board of     *)
(* marks, a tennis match and an arena of jellies. And devices that are     *)
(* told what to do and asked what came of it: a mock, a calculator and a   *)
(* rover. They share nothing, and each moves or waits in every step.       *)
(***************************************************************************)
EXTENDS SnakeGame, ZombieSurvivor, TicTacToe, TennisMatch, JellyTower, MockFramework, Calculator, MarsRover

GamesSpec == ZombieSpec /\ SnakeSpec /\ BoardSpec /\ MatchSpec /\ ArenaSpec

DevicesSpec == MockSpec /\ CalcSpec /\ RoverSpec

\* A game ends when it is decided and not before, and for whom it was decided:
\* survivors (game.py:42-50, 75-78), snakes (game.py:44-69), lines of marks
\* (board.py:77-112), tennis (match.py:44-127) and jellies (arena.py:25-37).
GamesEndRightly ==
    GoesOnWithLiving /\ ScoreIsGrowth /\ LastMoveWins /\ WinsAreTaken /\ FrontFallsFirst

\* What an object was told, and what it told, it keeps to over later calls: the
\* answers of a mock (mock.py:25-109), the mode of a calculator
\* (calculator.py:50-152), the way back of a rover (rover.py:41-154).
ToldIsKept == AnswersStand /\ FlagsAreOneMode /\ DrivesAreUndone
=============================================================================
