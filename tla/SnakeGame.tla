------------------------------ MODULE SnakeGame ------------------------------
(***************************************************************************)
(* Game and Snake of snake-game: a board, the snake's cells from its head  *)
(* on, one piece of food and the state of play. The player may turn any    *)
(* number of times between two ticks; the injected spawner picks any empty *)
(* cell. A call after the end returns at once and is not a step.           *)
(***************************************************************************)
EXTENDS Integers, SequencesExt

CONSTANTS Width, Height

ASSUME BoardAssumption ==
    /\ Width \in Nat \ {0} /\ Height \in Nat \ {0}
    /\ Width * Height > 1       \* else there is nowhere to put the first food

VARIABLES
    body,       \* the snake's cells, head first
    direction,
    food,
    score,
    play        \* the state of the game

snakeVars == <<body, direction, food, score, play>>

Cells == (0..(Width - 1)) \X (0..(Height - 1))
Directions == {"Up", "Down", "Left", "Right"}
Opposites == [Up |-> "Down", Down |-> "Up", Left |-> "Right", Right |-> "Left"]

Moved(p, d) ==
    CASE d = "Up" -> <<p[1], p[2] - 1>>
      [] d = "Down" -> <<p[1], p[2] + 1>>
      [] d = "Left" -> <<p[1] - 1, p[2]>>
      [] d = "Right" -> <<p[1] + 1, p[2]>>

NewHead == Moved(body[1], direction)
OnSnake(p, snake) == \E i \in DOMAIN snake : snake[i] = p

\* Variant: only the wall stops the snake.
CollidesWall(p) == p \notin Cells

Collides(p) == p \notin Cells \/ OnSnake(p, body)

\* Variant: food may come up wherever the head is not.
EmptyCellsHead(snake) == Cells \ {snake[1]}

EmptyCells(snake) == {p \in Cells : ~OnSnake(p, snake)}

FillsBoard(snake) == Len(snake) = Width * Height

-----------------------------------------------------------------------------
SnakeInit ==
    /\ body = <<<<0, 0>>>>
    /\ direction = "Right"
    /\ food \in EmptyCells(<<<<0, 0>>>>)
    /\ score = 0
    /\ play = "Playing"

ChangeDirection(d) ==
    /\ play = "Playing"
    /\ direction' = IF Opposites[direction] = d THEN direction ELSE d
    /\ UNCHANGED <<body, food, score, play>>

\* tick, into a wall or the snake.
TickCollides ==
    /\ play = "Playing" /\ Collides(NewHead)
    /\ play' = "GameOver"
    /\ UNCHANGED <<body, direction, food, score>>

TickMoves ==
    /\ play = "Playing" /\ ~Collides(NewHead) /\ NewHead # food
    /\ body' = <<NewHead>> \o Front(body)
    /\ UNCHANGED <<direction, food, score, play>>

TickEats ==
    LET longer == <<NewHead>> \o body
    IN  /\ play = "Playing" /\ ~Collides(NewHead) /\ NewHead = food
        /\ body' = longer
        /\ score' = score + 1
        /\ \/ FillsBoard(longer) /\ play' = "Won" /\ UNCHANGED food
           \/ ~FillsBoard(longer) /\ food' \in EmptyCells(longer) /\ UNCHANGED play
        /\ UNCHANGED direction

SnakeNext ==
    \/ \E d \in Directions : ChangeDirection(d)
    \/ TickCollides \/ TickMoves \/ TickEats

SnakeSpec == SnakeInit /\ [][SnakeNext]_snakeVars

-----------------------------------------------------------------------------
SnakeTypeOK ==
    /\ body \in Seq(Cells) /\ body # <<>>
    /\ direction \in Directions
    /\ food \in Cells
    /\ score \in Nat
    /\ play \in {"Playing", "GameOver", "Won"}

Adjacent(p, q) == \E d \in Directions : q = Moved(p, d)

\* Through any turns, moves and meals the snake stays one path of neighbouring
\* cells that never crosses itself (game.py:53-60, snake.py:33-40).
BodyIsPath ==
    /\ \A i, j \in DOMAIN body : i # j => body[i] # body[j]
    /\ \A i \in 1..(Len(body) - 1) : Adjacent(body[i + 1], body[i])

\* Until the board is full the food lies where the snake is not
\* (game.py:59-69, 82-89).
FoodIsFree == play # "Won" => ~OnSnake(food, body)

\* Every point is a cell of the snake, and the game is won exactly when the
\* snake is everywhere (game.py:62-67).
ScoreIsGrowth ==
    /\ Len(body) = score + 1
    /\ play = "Won" <=> EmptyCells(body) = {}
=============================================================================
