----------------------------- MODULE GameProofs ------------------------------
(***************************************************************************)
(* Proofs about the games: a snake on a board of any size, survivors with  *)
(* any thresholds of their levels, a board of marks, a tennis match and    *)
(* any arenas of jellies, and from them what the games promise together.   *)
(* Then about the devices: a calculator with entries of any length, a mock *)
(* of any methods and stubs, and a rover on any grid among any obstacles.  *)
(***************************************************************************)
EXTENDS Games, SequenceLemmas

SnakeInv == SnakeTypeOK /\ BodyIsPath /\ FoodIsFree

\* The cells of a snake that moved: a new head before all but the tail.
LEMMA Advanced ==
  ASSUME NEW S, NEW s \in Seq(S), s # <<>>, NEW h \in S
  PROVE  /\ <<h>> \o Front(s) \in Seq(S) /\ Len(<<h>> \o Front(s)) = Len(s)
         /\ (<<h>> \o Front(s))[1] = h
         /\ \A i \in 1..(Len(s) - 1) : (<<h>> \o Front(s))[i + 1] = s[i]
<1>1. Len(s) \in Nat /\ Len(s) >= 1 /\ \A i \in 1..Len(s) : s[i] \in S
  BY EmptySeq
<1>2. /\ SubSeq(s, 1, Len(s) - 1) \in Seq(S)
      /\ Len(SubSeq(s, 1, Len(s) - 1)) = Len(s) - 1
      /\ \A i \in 1..(Len(s) - 1) : SubSeq(s, 1, Len(s) - 1)[i] = s[i]
  <2>1. \A i \in 1..(Len(s) - 1) : s[i] \in S
    BY <1>1
  <2>2. /\ SubSeq(s, 1, Len(s) - 1) \in Seq(S)
        /\ Len(SubSeq(s, 1, Len(s) - 1)) = IF 1 <= Len(s) - 1 THEN Len(s) - 1 - 1 + 1 ELSE 0
        /\ \A i \in 1..(Len(s) - 1 - 1 + 1) : SubSeq(s, 1, Len(s) - 1)[i] = s[1 + i - 1]
    BY <1>1, <2>1, SubSeqProperties
  <2>3. \A i \in 1..(Len(s) - 1) : 1 + i - 1 = i /\ i \in 1..(Len(s) - 1 - 1 + 1)
    BY <1>1
  <2>4. Len(s) - 1 = IF 1 <= Len(s) - 1 THEN Len(s) - 1 - 1 + 1 ELSE 0
    <3>1. CASE 1 <= Len(s) - 1
      <4>1. Len(s) - 1 - 1 + 1 = Len(s) - 1
        BY <1>1
      <4> QED
        BY <3>1, <4>1, Zenon
    <3>2. CASE ~(1 <= Len(s) - 1)
      <4>1. PICK k : k = Len(s)
        OBVIOUS
      <4>2. k \in Nat /\ k >= 1 /\ ~(1 <= k - 1)
        BY <1>1, <3>2, <4>1, Zenon
      <4>3. k - 1 = 0
        BY <4>2
      <4> QED
        BY <3>2, <4>1, <4>3, Zenon
    <3> QED
      BY <3>1, <3>2, Zenon
  <2>5. ASSUME NEW i \in 1..(Len(s) - 1) PROVE SubSeq(s, 1, Len(s) - 1)[i] = s[i]
    <3>1. SubSeq(s, 1, Len(s) - 1)[i] = s[1 + i - 1] /\ 1 + i - 1 = i
      BY <2>2, <2>3
    <3> QED
      BY <3>1, Zenon
  <2>6. Len(SubSeq(s, 1, Len(s) - 1)) = Len(s) - 1
    <3>1. Len(SubSeq(s, 1, Len(s) - 1)) = IF 1 <= Len(s) - 1 THEN Len(s) - 1 - 1 + 1 ELSE 0
      BY <2>2, Zenon
    <3> QED
      BY <2>4, <3>1
  <2> QED
    BY <2>2, <2>5, <2>6, Zenon
<1>3. PICK f \in Seq(S) : f = Front(s)
  BY <1>2 DEF Front
<1>4. Len(f) = Len(s) - 1 /\ \A i \in 1..(Len(s) - 1) : f[i] = s[i]
  BY <1>2, <1>3 DEF Front
<1>5. /\ <<h>> \o f \in Seq(S) /\ Len(<<h>> \o f) = Len(s) /\ (<<h>> \o f)[1] = h
      /\ \A i \in 1..(Len(s) - 1) : (<<h>> \o f)[i + 1] = f[i]
  BY <1>1, <1>4
<1> QED
  BY <1>3, <1>4, <1>5

\* The cells of a snake that grew: a new head before them all.
LEMMA Grown ==
  ASSUME NEW S, NEW s \in Seq(S), NEW h \in S
  PROVE  /\ <<h>> \o s \in Seq(S) /\ Len(<<h>> \o s) = Len(s) + 1
         /\ (<<h>> \o s)[1] = h
         /\ \A i \in 1..Len(s) : (<<h>> \o s)[i + 1] = s[i]
  OBVIOUS

LEMMA SnakeStarts == SnakeInit => SnakeInv
<1> SUFFICES ASSUME SnakeInit PROVE SnakeInv
  OBVIOUS
<1>1. <<0, 0>> \in Cells
  BY BoardAssumption DEF Cells
<1>2. SnakeTypeOK
  BY <1>1 DEF SnakeInit, SnakeTypeOK, Directions, EmptyCells
<1>3. BodyIsPath
  BY DEF SnakeInit, BodyIsPath
<1>4. FoodIsFree
  BY DEF SnakeInit, FoodIsFree, EmptyCells
<1> QED
  BY <1>2, <1>3, <1>4 DEF SnakeInv

\* A longer or moved snake with its head on a free neighbouring cell is a path,
\* if the rest of it is the old snake's from its head on.
LEMMA PathKept ==
  ASSUME SnakeTypeOK, BodyIsPath, ~Collides(NewHead), NEW n \in Nat, n <= Len(body),
         body' \in Seq(Cells), Len(body') = n + 1, body'[1] = NewHead,
         \A i \in 1..n : body'[i + 1] = body[i]
  PROVE  BodyIsPath'
<1>1. /\ Len(body) \in Nat /\ DOMAIN body = 1..Len(body) /\ DOMAIN body' = 1..(n + 1)
      /\ Len(body') = n + 1 /\ direction \in Directions
  BY DEF SnakeTypeOK
<1>2. \A i \in 1..n : body[i] # NewHead
  BY <1>1 DEF Collides, OnSnake
<1>3. \A j \in 2..(n + 1) : j - 1 \in 1..n /\ body'[j] = body[j - 1] /\ j - 1 \in DOMAIN body
  <2>1. ASSUME NEW j \in 2..(n + 1)
        PROVE  j - 1 \in 1..n /\ body'[j] = body[j - 1] /\ j - 1 \in DOMAIN body
    <3>1. j - 1 \in 1..n /\ (j - 1) + 1 = j
      OBVIOUS
    <3> QED
      BY <1>1, <3>1
  <2> QED
    BY <2>1
<1>4. ASSUME NEW i \in DOMAIN body', NEW j \in DOMAIN body', i # j PROVE body'[i] # body'[j]
  <2>1. CASE i = 1
    BY <1>1, <1>2, <1>3, <1>4, <2>1
  <2>2. CASE j = 1
    BY <1>1, <1>2, <1>3, <1>4, <2>2
  <2>3. CASE i # 1 /\ j # 1
    <3>1. i \in 2..(n + 1) /\ j \in 2..(n + 1) /\ i - 1 # j - 1
      BY <1>1, <1>4, <2>3
    <3> QED
      BY <1>3, <3>1 DEF BodyIsPath
  <2> QED
    BY <2>1, <2>2, <2>3
<1>5. ASSUME NEW i \in 1..(Len(body') - 1) PROVE Adjacent(body'[i + 1], body'[i])
  <2>1. i \in 1..n /\ body'[i + 1] = body[i]
    BY <1>1
  <2>2. CASE i = 1
    BY <1>1, <2>1, <2>2 DEF Adjacent, NewHead
  <2>3. CASE i # 1
    <3>1. i \in 2..(n + 1) /\ i - 1 \in 1..(Len(body) - 1) /\ (i - 1) + 1 = i
      BY <1>1, <2>1, <2>3
    <3>2. body'[i] = body[i - 1]
      BY <1>3, <3>1
    <3>3. Adjacent(body[(i - 1) + 1], body[i - 1])
      BY <3>1 DEF BodyIsPath
    <3> QED
      BY <2>1, <3>1, <3>2, <3>3
  <2> QED
    BY <2>2, <2>3
<1> QED
  BY <1>4, <1>5 DEF BodyIsPath, Adjacent

LEMMA MovesKeep == SnakeInv /\ TickMoves => SnakeInv'
<1> SUFFICES ASSUME SnakeInv, TickMoves PROVE SnakeInv'
  OBVIOUS
<1>0. SnakeTypeOK /\ BodyIsPath /\ FoodIsFree /\ body \in Seq(Cells) /\ body # <<>>
  BY DEF SnakeInv, SnakeTypeOK
<1>1. /\ play = "Playing" /\ ~Collides(NewHead) /\ NewHead # food /\ NewHead \in Cells
      /\ body' = <<NewHead>> \o Front(body)
      /\ direction' = direction /\ food' = food /\ score' = score /\ play' = play
  BY DEF TickMoves, Collides
<1>2. /\ body' \in Seq(Cells) /\ Len(body') = Len(body) /\ body'[1] = NewHead
      /\ \A i \in 1..(Len(body) - 1) : body'[i + 1] = body[i]
  BY <1>0, <1>1, Advanced
<1>3. Len(body) \in Nat /\ Len(body) >= 1 /\ body' # <<>> /\ DOMAIN body' = 1..Len(body)
      /\ DOMAIN body = 1..Len(body)
  BY <1>0, <1>2, EmptySeq
<1>4. SnakeTypeOK'
  BY <1>0, <1>1, <1>2, <1>3 DEF SnakeTypeOK
<1>5. BodyIsPath'
  <2>1. Len(body) - 1 \in Nat
    BY <1>3
  <2>2. PICK n : n = Len(body) - 1
    OBVIOUS
  <2>3. n \in Nat /\ n <= Len(body) /\ Len(body') = n + 1
    BY <1>2, <1>3, <2>1, <2>2
  <2>4. \A i \in 1..n : body'[i + 1] = body[i]
    BY <1>2, <2>2, Zenon
  <2> QED
    BY <1>0, <1>1, <1>2, <2>3, <2>4, PathKept, Zenon
<1>6. ASSUME NEW i \in DOMAIN body' PROVE body'[i] # food
  <2>1. CASE i = 1
    BY <1>1, <1>2, <2>1
  <2>2. CASE i # 1
    <3>1. i - 1 \in 1..(Len(body) - 1) /\ (i - 1) + 1 = i /\ i - 1 \in DOMAIN body
      BY <1>3, <2>2
    <3>2. body'[i] = body[i - 1]
      BY <1>2, <3>1
    <3> QED
      BY <1>0, <1>1, <3>1, <3>2 DEF FoodIsFree, OnSnake
  <2> QED
    BY <2>1, <2>2
<1> QED
  BY <1>1, <1>4, <1>5, <1>6 DEF SnakeInv, FoodIsFree, OnSnake

LEMMA EatsKeeps == SnakeInv /\ TickEats => SnakeInv'
<1> SUFFICES ASSUME SnakeInv, TickEats PROVE SnakeInv'
  OBVIOUS
<1>0. SnakeTypeOK /\ BodyIsPath /\ FoodIsFree /\ body \in Seq(Cells) /\ body # <<>>
  BY DEF SnakeInv, SnakeTypeOK
<1>1. /\ play = "Playing" /\ ~Collides(NewHead) /\ NewHead \in Cells
      /\ body' = <<NewHead>> \o body
      /\ direction' = direction /\ score' = score + 1
      /\ \/ play' = "Won" /\ food' = food
         \/ food' \in EmptyCells(body') /\ play' = play
  BY DEF TickEats, Collides
<1>2. /\ body' \in Seq(Cells) /\ Len(body') = Len(body) + 1 /\ body'[1] = NewHead
      /\ \A i \in 1..Len(body) : body'[i + 1] = body[i]
  BY <1>0, <1>1, Grown
<1>3. Len(body) \in Nat /\ body' # <<>>
  BY <1>0, <1>2
<1>4. SnakeTypeOK'
  BY <1>0, <1>1, <1>2, <1>3 DEF SnakeTypeOK, EmptyCells
<1>5. BodyIsPath'
  BY <1>0, <1>1, <1>2, <1>3, PathKept
<1>6. FoodIsFree'
  BY <1>1 DEF FoodIsFree, EmptyCells
<1> QED
  BY <1>4, <1>5, <1>6 DEF SnakeInv

LEMMA SnakeMoves == SnakeInv /\ [SnakeNext]_snakeVars => SnakeInv'
<1> SUFFICES ASSUME SnakeInv, [SnakeNext]_snakeVars PROVE SnakeInv'
  OBVIOUS
<1>1. ASSUME NEW d \in Directions, ChangeDirection(d) PROVE SnakeInv'
  BY <1>1 DEF ChangeDirection, SnakeInv, SnakeTypeOK, BodyIsPath, FoodIsFree, OnSnake, Adjacent
<1>2. CASE TickCollides
  BY <1>2 DEF TickCollides, SnakeInv, SnakeTypeOK, BodyIsPath, FoodIsFree, OnSnake, Adjacent
<1>3. CASE TickMoves
  BY <1>3, MovesKeep
<1>4. CASE TickEats
  BY <1>4, EatsKeeps
<1>5. CASE UNCHANGED snakeVars
  BY <1>5 DEF snakeVars, SnakeInv, SnakeTypeOK, BodyIsPath, FoodIsFree, OnSnake, Adjacent
<1> QED
  BY <1>1, <1>2, <1>3, <1>4, <1>5 DEF SnakeNext

LEMMA SnakeInvariant == SnakeSpec => []SnakeInv
  BY SnakeStarts, SnakeMoves, PTL DEF SnakeSpec

\* On a board of any size the snake stays one path of neighbouring cells that
\* never crosses itself, whatever turns the player makes between two ticks
\* (game.py:53-60, snake.py:33-45).
THEOREM SnakeIsPath == SnakeSpec => []BodyIsPath
<1>1. SnakeInv => BodyIsPath
  BY DEF SnakeInv
<1> QED
  BY <1>1, SnakeInvariant, PTL

\* The food never lies under the snake before the game is won (game.py:59-69).
THEOREM FoodStaysFree == SnakeSpec => []FoodIsFree
<1>1. SnakeInv => FoodIsFree
  BY DEF SnakeInv
<1> QED
  BY <1>1, SnakeInvariant, PTL

-----------------------------------------------------------------------------
(***************************************************************************)
(* SnakeGame, its score: the points are the cells of the snake, and the    *)
(* board is full exactly when it has won.                                  *)
(***************************************************************************)

\* A snake that never crosses itself is everywhere when it is as long as the
\* board has cells.
LEMMA LongestCovers ==
  ASSUME NEW snake \in Seq(Cells),
         \A i, j \in DOMAIN snake : i # j => snake[i] # snake[j]
  PROVE  EmptyCells(snake) = {} <=> Len(snake) = Width * Height
<1> DEFINE Positions == 1..Len(snake)
<1>1. /\ Len(snake) \in Nat /\ DOMAIN snake = Positions
      /\ IsFiniteSet(Positions) /\ Cardinality(Positions) = Len(snake)
  <2>1. PICK n \in Nat : n = Len(snake)
    OBVIOUS
  <2>2. IsFiniteSet(1..n) /\ Cardinality(1..n) = IF 1 > n THEN 0 ELSE n - 1 + 1
    BY FS_Interval
  <2>3. Cardinality(1..n) = n
    BY <2>2
  <2> QED
    BY <2>1, <2>2, <2>3
<1>2. IsFiniteSet(Cells) /\ Cardinality(Cells) = Width * Height
  <2>1. /\ Width - 1 \in Int /\ Height - 1 \in Int
        /\ ~(0 > Width - 1) /\ ~(0 > Height - 1)
        /\ Width - 1 - 0 + 1 = Width /\ Height - 1 - 0 + 1 = Height
    BY BoardAssumption
  <2>2. /\ IsFiniteSet(0..(Width - 1)) /\ Cardinality(0..(Width - 1)) = Width
        /\ IsFiniteSet(0..(Height - 1)) /\ Cardinality(0..(Height - 1)) = Height
    BY <2>1, FS_Interval
  <2> QED
    BY <2>2, FS_Product DEF Cells
<1>3. snake \in Injection(Positions, Cells)
  BY <1>1 DEF Injection, IsInjective
<1>4. Len(snake) = Width * Height <=> snake \in Surjection(Positions, Cells)
  BY <1>1, <1>2, <1>3, FS_Injection
<1>5. snake \in Surjection(Positions, Cells)
        <=> \A p \in Cells : \E i \in DOMAIN snake : snake[i] = p
  BY <1>1, <1>3 DEF Injection, Surjection
<1> QED
  BY <1>4, <1>5 DEF EmptyCells, OnSnake

LEMMA GrowthStep == SnakeInv /\ ScoreIsGrowth /\ [SnakeNext]_snakeVars => ScoreIsGrowth'
<1> SUFFICES ASSUME SnakeInv, ScoreIsGrowth, [SnakeNext]_snakeVars PROVE ScoreIsGrowth'
  OBVIOUS
<1>1. /\ body \in Seq(Cells) /\ body # <<>> /\ score \in Nat /\ Len(body) = score + 1
      /\ play = "Won" <=> EmptyCells(body) = {}
      /\ EmptyCells(body) = {} <=> Len(body) = Width * Height
  BY LongestCovers DEF SnakeInv, SnakeTypeOK, BodyIsPath, ScoreIsGrowth
<1>2. body' \in Seq(Cells) /\ (EmptyCells(body') = {} <=> Len(body') = Width * Height)
  <2>1. body' \in Seq(Cells) /\ \A i, j \in DOMAIN body' : i # j => body'[i] # body'[j]
    BY SnakeMoves DEF SnakeInv, SnakeTypeOK, BodyIsPath
  <2> QED
    BY <2>1, LongestCovers
<1>3. SUFFICES Len(body') = score' + 1 /\ (play' = "Won" <=> EmptyCells(body') = {})
  BY DEF ScoreIsGrowth, EmptyCells, OnSnake
<1>4. ASSUME NEW d \in Directions, ChangeDirection(d)
      PROVE  Len(body') = score' + 1 /\ (play' = "Won" <=> EmptyCells(body') = {})
  BY <1>1, <1>4 DEF ChangeDirection
<1>5. CASE TickCollides
  BY <1>1, <1>5 DEF TickCollides
<1>6. CASE TickMoves
  <2>1. Len(body') = Len(body)
    <3>1. NewHead \in Cells
      BY <1>6 DEF TickMoves, Collides
    <3> QED
      BY <1>1, <1>6, <3>1, Advanced DEF TickMoves
  <2> QED
    BY <1>1, <1>2, <1>6, <2>1 DEF TickMoves
<1>7. CASE TickEats
  <2>1. Len(body') = Len(body) + 1
    <3>1. NewHead \in Cells
      BY <1>7 DEF TickEats, Collides
    <3> QED
      BY <1>1, <1>7, <3>1, Grown DEF TickEats
  <2>2. score' = score + 1 /\ play = "Playing"
    BY <1>7 DEF TickEats
  <2>3. play' = "Won" <=> Len(body') = Width * Height
    <3>1. \/ Len(body') = Width * Height /\ play' = "Won"
          \/ ~(Len(body') = Width * Height) /\ play' = play
      BY <1>7 DEF TickEats, FillsBoard
    <3> QED
      BY <2>2, <3>1
  <2>4. Len(body') = score' + 1
    BY <1>1, <2>1, <2>2
  <2> QED
    BY <1>2, <2>3, <2>4
<1>8. CASE UNCHANGED snakeVars
  BY <1>1, <1>8 DEF snakeVars
<1> QED
  BY <1>4, <1>5, <1>6, <1>7, <1>8 DEF SnakeNext

\* Every point is one cell more, and the game is won exactly when the snake is
\* everywhere, on a board of any size (game.py:62-67).
THEOREM SnakeWinsWhenFull == SnakeSpec => []ScoreIsGrowth
<1>1. SnakeInit => ScoreIsGrowth
  <2> SUFFICES ASSUME SnakeInit PROVE ScoreIsGrowth
    OBVIOUS
  <2>1. Len(body) = 1 /\ score = 0 /\ play = "Playing"
    BY DEF SnakeInit
  <2>2. body \in Seq(Cells) /\ \A i, j \in DOMAIN body : i # j => body[i] # body[j]
    BY SnakeStarts DEF SnakeInv, SnakeTypeOK, BodyIsPath
  <2>3. EmptyCells(body) # {}
    <3>1. EmptyCells(body) = {} <=> Len(body) = Width * Height
      BY <2>2, LongestCovers
    <3>2. Width * Height # 1
      BY BoardAssumption
    <3> QED
      BY <2>1, <3>1, <3>2
  <2> QED
    BY <2>1, <2>3 DEF ScoreIsGrowth
<1> QED
  BY <1>1, SnakeInvariant, GrowthStep, PTL DEF SnakeSpec

-----------------------------------------------------------------------------
(* ZombieSurvivor: the level of the game, what a survivor carries, the end. *)

\* Who left Blue unaided is past it, and nobody fell in a game without members.
HistoryOK ==
    /\ \A s \in unaided : Level(s) # Blue
    /\ fell => members # {}

ZombieInv == ZombieTypeOK /\ WithinMeans /\ LevelIsHighest /\ GoesOnWithLiving /\ HistoryOK

\* The experience a level needs puts the levels in order.
LEMMA LevelOrder ==
    /\ Levels = {Blue, Yellow, Orange, Red}
    /\ \A x \in Nat : LevelFor(x) \in Levels
    /\ LevelFor(0) = Blue
    /\ \A x \in Nat : LevelFor(x + 1) # LevelFor(x) =>
         /\ LevelFor(x + 1) # Blue
         /\ LevelFor(x) = Blue <=> LevelFor(x + 1) = Yellow
    /\ \A x \in Nat : LevelFor(x) <= LevelFor(x + 1)
  BY ZombieAssumption DEF Levels, LevelFor, Blue, Yellow, Orange, Red

\* A set of levels that is not empty has a highest one.
LEMMA HighestLevel ==
  ASSUME NEW ls \in SUBSET Levels, ls # {}
  PROVE  Max(ls) \in ls /\ \A l \in ls : Max(ls) >= l
<1>1. \E x \in ls : \A y \in ls : x >= y
  <2>1. \A x \in ls : x = 0 \/ x = 1 \/ x = 2 \/ x = 3
    BY DEF Levels, Blue, Red
  <2>2. CASE 3 \in ls
    BY <2>1, <2>2
  <2>3. CASE 3 \notin ls /\ 2 \in ls
    BY <2>1, <2>3
  <2>4. CASE 3 \notin ls /\ 2 \notin ls /\ 1 \in ls
    BY <2>1, <2>4
  <2>5. CASE 3 \notin ls /\ 2 \notin ls /\ 1 \notin ls
    BY <2>1, <2>5
  <2> QED
    BY <2>2, <2>3, <2>4, <2>5
<1> QED
  BY <1>1 DEF Max

\* A level against the highest of some.
LEMMA AgainstHighest ==
  ASSUME NEW ls \in SUBSET Levels, Blue \in ls, NEW g \in Levels
  PROVE  /\ g <= Max(ls) <=> g = Blue \/ \E l \in ls : g <= l
         /\ g >= Max(ls) <=> \A l \in ls : l <= g
<1>1. Max(ls) \in ls /\ \A l \in ls : Max(ls) >= l
  BY HighestLevel
<1>2. \A l \in Levels : l \in Int /\ l >= Blue /\ Blue \in Int
  BY DEF Levels, Blue, Red
<1>3. g \in Int /\ g >= Blue /\ Blue \in Int /\ \A l \in ls : l \in Int /\ l >= Blue
  BY <1>2
<1>4. Max(ls) \in Int /\ Max(ls) >= Blue
  BY <1>1, <1>3
<1>5. g <= Max(ls) => \E l \in ls : g <= l
  BY <1>1
<1>6. ASSUME NEW l \in ls, g <= l PROVE g <= Max(ls)
  BY <1>1, <1>3, <1>4, <1>6
<1>7. g = Blue => g <= Max(ls)
  BY <1>4
<1>8. ASSUME g >= Max(ls), NEW l \in ls PROVE l <= g
  BY <1>1, <1>3, <1>4, <1>8
<1>9. (\A l \in ls : l <= g) => g >= Max(ls)
  BY <1>1, <1>3, <1>4
<1> QED
  BY <1>5, <1>6, <1>7, <1>8, <1>9

\* LevelIsHighest, member by member.
ReachedBy(m) == gameLevel <= Level(m)
LevelByMember ==
    /\ gameLevel = Blue \/ \E m \in members : ReachedBy(m)
    /\ ~below => gameLevel = Blue \/ \E m \in members : IsAlive(m) /\ ReachedBy(m)
    /\ ~above => \A m \in members : IsAlive(m) => Level(m) <= gameLevel

LEMMA MemberByMember == ZombieTypeOK => (LevelIsHighest <=> LevelByMember)
<1> SUFFICES ASSUME ZombieTypeOK PROVE LevelIsHighest <=> LevelByMember
  OBVIOUS
<1> DEFINE reached == {Level(s) : s \in members} \cup {Blue}
           now == {LevelFor(survivor[s].experience) : s \in Living(survivor)} \cup {Blue}
<1>1. gameLevel \in Levels /\ members \subseteq Survivors /\ Blue \in Levels
  BY LevelOrder DEF ZombieTypeOK
<1>2. \A s \in Survivors : Level(s) \in Levels
  BY LevelOrder DEF ZombieTypeOK, Level
<1>3. reached \in SUBSET Levels /\ Blue \in reached
  BY <1>1, <1>2
<1>4. now \in SUBSET Levels /\ Blue \in now
  BY <1>1, <1>2 DEF Living, Level
<1>5. gameLevel >= Blue /\ \A l \in Levels : Blue <= l
  BY <1>1 DEF Levels, Blue, Red
<1>6. gameLevel <= Blue => gameLevel = Blue
  BY <1>1 DEF Levels, Blue, Red
<1>7. gameLevel <= Max(reached) <=> gameLevel = Blue \/ \E m \in members : ReachedBy(m)
  <2>1. gameLevel <= Max(reached) <=> gameLevel = Blue \/ \E l \in reached : gameLevel <= l
    BY <1>1, <1>3, AgainstHighest
  <2>2. (\E l \in reached : gameLevel <= l) <=> (\E m \in members : ReachedBy(m)) \/ gameLevel <= Blue
    BY DEF ReachedBy
  <2> QED
    BY <1>6, <2>1, <2>2
<1>8. \A m \in members : m \in Living(survivor) <=> IsAlive(m)
  BY DEF Living, IsAlive
<1>9. Living(survivor) \subseteq members
  BY DEF Living
<1>10. gameLevel <= Max(now)
         <=> gameLevel = Blue \/ \E m \in members : IsAlive(m) /\ ReachedBy(m)
  <2>1. gameLevel <= Max(now) <=> gameLevel = Blue \/ \E l \in now : gameLevel <= l
    BY <1>1, <1>4, AgainstHighest
  <2>2. (\E l \in now : gameLevel <= l)
          <=> (\E m \in members : IsAlive(m) /\ ReachedBy(m)) \/ gameLevel <= Blue
    BY <1>8, <1>9 DEF ReachedBy, Level
  <2> QED
    BY <1>6, <2>1, <2>2
<1>11. gameLevel >= Max(now) <=> \A m \in members : IsAlive(m) => Level(m) <= gameLevel
  <2>1. gameLevel >= Max(now) <=> \A l \in now : l <= gameLevel
    BY <1>1, <1>4, AgainstHighest
  <2>2. (\A l \in now : l <= gameLevel)
          <=> (\A m \in members : IsAlive(m) => Level(m) <= gameLevel) /\ Blue <= gameLevel
    BY <1>8, <1>9 DEF Level
  <2> QED
    BY <1>5, <1>1, <2>1, <2>2
<1>12. Highest(survivor) = Max(now)
  BY DEF Highest
<1> HIDE DEF reached, now
<1>13. LevelIsHighest <=> /\ gameLevel <= Max(reached)
                          /\ ~below => gameLevel <= Max(now)
                          /\ ~above => gameLevel >= Max(now)
  BY <1>12 DEF LevelIsHighest, reached
<1> QED
  BY <1>7, <1>10, <1>11, <1>13 DEF LevelByMember

LEMMA ZombieStart == ZombieInit => ZombieInv
<1> SUFFICES ASSUME ZombieInit PROVE ZombieInv
  OBVIOUS
<1>1. ZombieTypeOK /\ GoesOnWithLiving
  <2>1. /\ 0 \in 0..MaxWounds /\ 0 \in 0..MaxExperience /\ 0 \in 0..MaxInHand
        /\ 0 \in Nat /\ 0 \in 0..MaxHoards /\ Blue \in Levels
    BY ZombieAssumption DEF Levels, Blue, Red
  <2>2. survivor \in [Survivors ->
           [wounds : 0..MaxWounds, experience : 0..MaxExperience, inHand : 0..MaxInHand,
            inReserve : Nat, plusOnes : Nat, hoards : 0..MaxHoards]]
    BY <2>1 DEF ZombieInit
  <2> QED
    BY <2>1, <2>2 DEF ZombieInit, ZombieTypeOK, GoesOnWithLiving
<1>2. ASSUME NEW s \in Survivors
      PROVE  /\ Carried(s) <= EquipmentCapacity(s) + survivor[s].wounds
             /\ ActionsPerTurn(s) = BaseActions + IF Level(s) = Blue \/ s \in unaided THEN 0 ELSE 1
  <2>1. /\ survivor[s].wounds = 0 /\ survivor[s].experience = 0 /\ survivor[s].inHand = 0
        /\ survivor[s].inReserve = 0 /\ survivor[s].plusOnes = 0 /\ survivor[s].hoards = 0
    BY DEF ZombieInit
  <2>2. Level(s) = Blue
    BY <2>1, LevelOrder DEF Level
  <2> QED
    BY <2>1, <2>2, ZombieAssumption DEF Carried, EquipmentCapacity, ActionsPerTurn
<1>3. LevelByMember /\ HistoryOK
  BY DEF ZombieInit, LevelByMember, HistoryOK
<1> QED
  BY <1>1, <1>2, <1>3, MemberByMember DEF ZombieInv, WithinMeans

\* What a step does to the survivor it is about; the others stay as they are.
LEMMA ZombieTypeStep == ZombieInv /\ [ZombieNext]_zombieVars => ZombieTypeOK'
<1> SUFFICES ASSUME ZombieInv, [ZombieNext]_zombieVars PROVE ZombieTypeOK'
  OBVIOUS
<1>0. ZombieTypeOK
  BY DEF ZombieInv
<1>1. ASSUME NEW s \in Survivors, AddSurvivor(s) PROVE ZombieTypeOK'
  BY <1>0, <1>1 DEF ZombieTypeOK, AddSurvivor, IsAlive
<1>2. ASSUME NEW s \in Survivors, WoundSurvivor(s) PROVE ZombieTypeOK'
  <2>1. survivor[s].wounds + 1 \in 0..MaxWounds
    BY <1>0, <1>2, ZombieAssumption DEF ZombieTypeOK, WoundSurvivor, IsAlive
  <2>2. ended' \in BOOLEAN /\ below' \in BOOLEAN /\ fell' \in BOOLEAN /\ unnoticed' \in BOOLEAN
    BY <1>0, <1>2 DEF ZombieTypeOK, WoundSurvivor, Ends
  <2> QED
    BY <1>0, <1>2, <2>1, <2>2 DEF ZombieTypeOK, WoundSurvivor
<1>3. ASSUME NEW s \in Survivors, EquipSurvivor(s) PROVE ZombieTypeOK'
  <2>1. GoesInHand(s) => survivor[s].inHand + 1 \in 0..MaxInHand
    BY <1>0, ZombieAssumption DEF ZombieTypeOK, GoesInHand
  <2>2. survivor[s].inReserve + 1 \in Nat
    BY <1>0 DEF ZombieTypeOK
  <2> QED
    BY <1>0, <1>3, <2>1, <2>2 DEF ZombieTypeOK, EquipSurvivor
<1>4. ASSUME NEW s \in Survivors, Discard(s) PROVE ZombieTypeOK'
  <2>1. survivor[s].inHand > 0 => survivor[s].inHand - 1 \in 0..MaxInHand
    BY <1>0, ZombieAssumption DEF ZombieTypeOK
  <2>2. survivor[s].inReserve > 0 => survivor[s].inReserve - 1 \in Nat
    BY <1>0 DEF ZombieTypeOK
  <2> QED
    BY <1>0, <1>4, <2>1, <2>2 DEF ZombieTypeOK, Discard
<1>5. ASSUME NEW s \in Survivors, KillZombie(s) PROVE ZombieTypeOK'
  <2>1. survivor[s].experience + 1 \in 0..MaxExperience
    BY <1>0, <1>5, ZombieAssumption DEF ZombieTypeOK, KillZombie
  <2>2. survivor[s].plusOnes + 1 \in Nat /\ survivor[s].plusOnes \in Nat
    BY <1>0 DEF ZombieTypeOK
  <2>3. survivor' \in [Survivors ->
          [wounds : 0..MaxWounds, experience : 0..MaxExperience, inHand : 0..MaxInHand,
           inReserve : Nat, plusOnes : Nat, hoards : 0..MaxHoards]]
    BY <1>0, <1>5, <2>1, <2>2 DEF ZombieTypeOK, KillZombie
  <2>4. Highest(survivor') \in Levels
    <3>1. \A m \in members : LevelFor(survivor'[m].experience) \in Levels
      BY <1>0, <2>3, LevelOrder, ZombieAssumption DEF ZombieTypeOK
    <3> QED
      BY <3>1, HighestLevel, LevelOrder DEF Highest, Living
  <2>5. gameLevel' \in Levels /\ above' \in BOOLEAN /\ below' \in BOOLEAN
    BY <1>0, <1>5, <2>4 DEF ZombieTypeOK, KillZombie
  <2> QED
    BY <1>0, <1>5, <2>3, <2>5 DEF ZombieTypeOK, KillZombie
<1>6. ASSUME NEW s \in Survivors, UnlockHoard(s) PROVE ZombieTypeOK'
  <2>1. survivor[s].hoards + 1 \in 0..MaxHoards
    BY <1>0, <1>6, ZombieAssumption DEF ZombieTypeOK, UnlockHoard
  <2> QED
    BY <1>0, <1>6, <2>1 DEF ZombieTypeOK, UnlockHoard
<1>7. ASSUME NEW s \in Survivors, ReceiveWound(s) PROVE ZombieTypeOK'
  <2>1. survivor[s].wounds + 1 \in 0..MaxWounds
    BY <1>0, <1>7, ZombieAssumption DEF ZombieTypeOK, ReceiveWound, IsAlive
  <2>2. below' \in BOOLEAN /\ unnoticed' \in BOOLEAN
    BY <1>0, <1>7 DEF ZombieTypeOK, ReceiveWound
  <2> QED
    BY <1>0, <1>7, <2>1, <2>2 DEF ZombieTypeOK, ReceiveWound
<1>8. ASSUME NEW s \in Survivors, KillZombieAlone(s) PROVE ZombieTypeOK'
  <2>1. survivor[s].experience + 1 \in 0..MaxExperience
    BY <1>0, <1>8, ZombieAssumption DEF ZombieTypeOK, KillZombieAlone
  <2>2. above' \in BOOLEAN /\ unaided' \in SUBSET Survivors
    BY <1>0, <1>8 DEF ZombieTypeOK, KillZombieAlone
  <2> QED
    BY <1>0, <1>8, <2>1, <2>2 DEF ZombieTypeOK, KillZombieAlone
<1>9. CASE UNCHANGED zombieVars
  BY <1>0, <1>9 DEF zombieVars, ZombieTypeOK
<1> QED
  BY <1>1, <1>2, <1>3, <1>4, <1>5, <1>6, <1>7, <1>8, <1>9 DEF ZombieNext

\* Nobody carries more than he could unhurt, and the skill of Yellow comes once,
\* from a kill that the game was told of.
LEMMA MeansStep == ZombieInv /\ [ZombieNext]_zombieVars => WithinMeans'
<1> SUFFICES ASSUME ZombieInv, [ZombieNext]_zombieVars, NEW t \in Survivors
             PROVE  /\ Carried(t)' <= (EquipmentCapacity(t) + survivor[t].wounds)'
                    /\ (ActionsPerTurn(t) =
                          BaseActions + IF Level(t) = Blue \/ t \in unaided THEN 0 ELSE 1)'
  BY DEF WithinMeans
<1> DEFINE Means(r) == r.inHand + r.inReserve <= BaseCapacity + r.hoards
           Won(r, alone) == r.plusOnes = IF LevelFor(r.experience) = Blue \/ alone THEN 0 ELSE 1
<1>0. /\ survivor[t] \in [wounds : 0..MaxWounds, experience : 0..MaxExperience,
                          inHand : 0..MaxInHand, inReserve : Nat, plusOnes : Nat,
                          hoards : 0..MaxHoards]
      /\ survivor'[t] \in [wounds : 0..MaxWounds, experience : 0..MaxExperience,
                           inHand : 0..MaxInHand, inReserve : Nat, plusOnes : Nat,
                           hoards : 0..MaxHoards]
  BY ZombieTypeStep DEF ZombieInv, ZombieTypeOK
<1>1. Means(survivor[t]) /\ Won(survivor[t], t \in unaided)
  <2>1. survivor[t].inHand + survivor[t].inReserve
          <= BaseCapacity - survivor[t].wounds + survivor[t].hoards + survivor[t].wounds
    BY DEF ZombieInv, WithinMeans, Carried, EquipmentCapacity
  <2>2. BaseActions + survivor[t].plusOnes
          = BaseActions + IF LevelFor(survivor[t].experience) = Blue \/ t \in unaided THEN 0 ELSE 1
    BY DEF ZombieInv, WithinMeans, ActionsPerTurn, Level
  <2> QED
    BY <1>0, <2>1, <2>2, ZombieAssumption
<1>2. SUFFICES Means(survivor'[t]) /\ Won(survivor'[t], t \in unaided')
  BY <1>0, <1>2, ZombieAssumption DEF Carried, EquipmentCapacity, ActionsPerTurn, Level
<1>3. /\ DOMAIN survivor = Survivors
      /\ t \in unaided => LevelFor(survivor[t].experience) # Blue
  BY DEF ZombieInv, ZombieTypeOK, HistoryOK, Level
<1> DEFINE Goal == Means(survivor'[t]) /\ Won(survivor'[t], t \in unaided')
<1>a. ASSUME unaided' = unaided,
             survivor'[t].inHand = survivor[t].inHand,
             survivor'[t].inReserve = survivor[t].inReserve,
             survivor'[t].hoards = survivor[t].hoards,
             survivor'[t].plusOnes = survivor[t].plusOnes,
             survivor'[t].experience = survivor[t].experience
      PROVE  Goal
  BY <1>1, <1>a
<1>4. ASSUME NEW s \in Survivors, AddSurvivor(s) PROVE Goal
  BY <1>1, <1>4 DEF AddSurvivor
<1>5. ASSUME NEW s \in Survivors, WoundSurvivor(s) \/ ReceiveWound(s) PROVE Goal
  <2>1. unaided' = unaided /\ survivor' = [survivor EXCEPT ![s].wounds = survivor[s].wounds + 1]
    BY <1>5 DEF WoundSurvivor, ReceiveWound
  <2>2. /\ survivor'[t].inHand = survivor[t].inHand
        /\ survivor'[t].inReserve = survivor[t].inReserve
        /\ survivor'[t].hoards = survivor[t].hoards
        /\ survivor'[t].plusOnes = survivor[t].plusOnes
        /\ survivor'[t].experience = survivor[t].experience
    BY <1>0, <1>3, <2>1
  <2> QED
    BY <1>a, <2>1, <2>2
<1>6. ASSUME NEW s \in Survivors, EquipSurvivor(s) PROVE Goal
  <2>0. unaided' = unaided
    BY <1>6 DEF EquipSurvivor
  <2>1. CASE s # t
    <3>1. survivor'[t] = survivor[t]
      BY <1>3, <1>6, <2>1 DEF EquipSurvivor
    <3> QED
      BY <1>1, <2>0, <3>1
  <2>2. CASE s = t
    <3>1. survivor[t].inHand + survivor[t].inReserve + 1 <= BaseCapacity + survivor[t].hoards
      BY <1>0, <1>6, <2>2, ZombieAssumption
         DEF EquipSurvivor, CanEquip, Carried, EquipmentCapacity
    <3>2. /\ survivor'[t].hoards = survivor[t].hoards
          /\ survivor'[t].plusOnes = survivor[t].plusOnes
          /\ survivor'[t].experience = survivor[t].experience
          /\ survivor'[t].inHand + survivor'[t].inReserve
               = survivor[t].inHand + survivor[t].inReserve + 1
      BY <1>0, <1>3, <1>6, <2>2 DEF EquipSurvivor
    <3> QED
      BY <1>1, <2>0, <3>1, <3>2
  <2> QED
    BY <2>1, <2>2
<1>7. ASSUME NEW s \in Survivors, Discard(s) PROVE Goal
  <2>1. /\ survivor'[t].hoards = survivor[t].hoards
        /\ survivor'[t].plusOnes = survivor[t].plusOnes
        /\ survivor'[t].experience = survivor[t].experience
        /\ survivor'[t].inHand + survivor'[t].inReserve
             <= survivor[t].inHand + survivor[t].inReserve
    BY <1>0, <1>3, <1>7 DEF Discard
  <2>2. unaided' = unaided
    BY <1>7 DEF Discard
  <2>3. Means(survivor'[t])
    BY <1>0, <1>1, <2>1, ZombieAssumption
  <2> QED
    BY <1>1, <2>1, <2>2, <2>3
<1>8. ASSUME NEW s \in Survivors, KillZombie(s) PROVE Goal
  <2>0. unaided' = unaided
    BY <1>8 DEF KillZombie
  <2>1. CASE s # t
    <3>1. survivor'[t] = survivor[t]
      BY <1>3, <1>8, <2>1 DEF KillZombie
    <3> QED
      BY <1>1, <2>0, <3>1
  <2>2. CASE s = t
    <3>1. /\ survivor'[t].inHand = survivor[t].inHand
          /\ survivor'[t].inReserve = survivor[t].inReserve
          /\ survivor'[t].hoards = survivor[t].hoards
          /\ survivor'[t].experience = survivor[t].experience + 1
      BY <1>0, <1>3, <1>8, <2>2 DEF KillZombie
    <3>2. CASE LevelFor(survivor[t].experience + 1) = LevelFor(survivor[t].experience)
      <4>1. survivor'[t].plusOnes = survivor[t].plusOnes
        BY <1>0, <1>3, <1>8, <2>2, <3>2 DEF KillZombie, Level
      <4> QED
        BY <1>1, <2>0, <3>1, <3>2, <4>1
    <3>3. CASE LevelFor(survivor[t].experience + 1) # LevelFor(survivor[t].experience)
      <4>1. survivor'[t].plusOnes = IF LevelFor(survivor[t].experience + 1) = Yellow
                                    THEN survivor[t].plusOnes + 1 ELSE survivor[t].plusOnes
        BY <1>0, <1>3, <1>8, <2>2, <3>3 DEF KillZombie, Level, UnlocksPlusOne
      <4>2. /\ LevelFor(survivor[t].experience + 1) # Blue
            /\ LevelFor(survivor[t].experience) = Blue
                 <=> LevelFor(survivor[t].experience + 1) = Yellow
        BY <1>0, <3>3, LevelOrder
      <4>3. Means(survivor'[t])
        BY <1>1, <3>1
      <4>4. CASE LevelFor(survivor[t].experience) = Blue
        <5>1. survivor[t].plusOnes = 0 /\ t \notin unaided
          BY <1>1, <1>3, <4>4
        <5>2. survivor'[t].plusOnes = 1
          BY <4>1, <4>2, <4>4, <5>1
        <5> QED
          BY <2>0, <3>1, <4>2, <4>3, <5>1, <5>2
      <4>5. CASE LevelFor(survivor[t].experience) # Blue
        BY <1>1, <2>0, <3>1, <4>1, <4>2, <4>3, <4>5
      <4> QED
        BY <4>4, <4>5
    <3> QED
      BY <3>2, <3>3
  <2> QED
    BY <2>1, <2>2
<1>9. ASSUME NEW s \in Survivors, UnlockHoard(s) PROVE Goal
  <2>1. /\ survivor'[t].inHand = survivor[t].inHand
        /\ survivor'[t].inReserve = survivor[t].inReserve
        /\ survivor'[t].hoards >= survivor[t].hoards
        /\ survivor'[t].plusOnes = survivor[t].plusOnes
        /\ survivor'[t].experience = survivor[t].experience
    BY <1>0, <1>3, <1>9 DEF UnlockHoard
  <2>2. unaided' = unaided
    BY <1>9 DEF UnlockHoard
  <2>3. Means(survivor'[t])
    BY <1>0, <1>1, <2>1, ZombieAssumption
  <2> QED
    BY <1>1, <2>1, <2>2, <2>3
<1>10. ASSUME NEW s \in Survivors, KillZombieAlone(s) PROVE Goal
  <2>0. survivor' = [survivor EXCEPT ![s].experience = survivor[s].experience + 1]
    BY <1>10 DEF KillZombieAlone
  <2>1. /\ survivor'[t].inHand = survivor[t].inHand
        /\ survivor'[t].inReserve = survivor[t].inReserve
        /\ survivor'[t].hoards = survivor[t].hoards
        /\ survivor'[t].plusOnes = survivor[t].plusOnes
    BY <1>0, <1>3, <2>0
  <2>2. Means(survivor'[t])
    BY <1>1, <2>1
  <2>3. CASE s # t
    <3>1. survivor'[t].experience = survivor[t].experience
      BY <1>3, <2>0, <2>3
    <3>2. t \in unaided' <=> t \in unaided
      BY <1>10, <2>3 DEF KillZombieAlone
    <3> QED
      BY <1>1, <2>1, <2>2, <3>1, <3>2
  <2>4. CASE s = t
    <3> DEFINE before == LevelFor(survivor[t].experience)
               after == LevelFor(survivor[t].experience + 1)
    <3>1. survivor'[t].experience = survivor[t].experience + 1
      BY <1>0, <1>3, <2>0, <2>4
    <3>2. unaided' = IF before = Blue /\ after # Blue THEN unaided \cup {t} ELSE unaided
      BY <1>10, <2>4 DEF KillZombieAlone, Level
    <3>3. before # Blue => after # Blue
      BY <1>0, LevelOrder
    <3>4. Won(survivor[t], t \in unaided) <=>
            survivor[t].plusOnes = IF before = Blue \/ t \in unaided THEN 0 ELSE 1
      OBVIOUS
    <3>5. Won(survivor'[t], t \in unaided') <=>
            survivor[t].plusOnes = IF after = Blue \/ t \in unaided' THEN 0 ELSE 1
      BY <2>1, <3>1
    <3> HIDE DEF before, after
    <3> QED
      BY <1>1, <2>2, <3>2, <3>3, <3>4, <3>5
  <2> QED
    BY <2>3, <2>4
<1>11. CASE UNCHANGED zombieVars
  BY <1>1, <1>11 DEF zombieVars
<1> QED
  BY <1>4, <1>5, <1>6, <1>7, <1>8, <1>9, <1>10, <1>11 DEF ZombieNext

\* Experience never falls, and the members stay.
LEMMA HistoryStep == ZombieInv /\ [ZombieNext]_zombieVars => HistoryOK'
<1> SUFFICES ASSUME ZombieInv, [ZombieNext]_zombieVars PROVE HistoryOK'
  OBVIOUS
<1>0. /\ DOMAIN survivor = Survivors /\ unaided \subseteq Survivors
      /\ \A m \in Survivors :
           survivor[m] \in [wounds : 0..MaxWounds, experience : 0..MaxExperience,
                            inHand : 0..MaxInHand, inReserve : Nat, plusOnes : Nat,
                            hoards : 0..MaxHoards]
      /\ \A m \in unaided : LevelFor(survivor[m].experience) # Blue
      /\ fell => members # {}
  BY DEF ZombieInv, ZombieTypeOK, HistoryOK, Level
<1>1. ASSUME unaided' = unaided,
             \A m \in Survivors : \/ survivor'[m].experience = survivor[m].experience
                                  \/ survivor'[m].experience = survivor[m].experience + 1
      PROVE  \A m \in unaided' : LevelFor(survivor'[m].experience) # Blue
  BY <1>0, <1>1, LevelOrder
<1>2. (\A m \in unaided' : LevelFor(survivor'[m].experience) # Blue) /\ (fell' => members' # {})
      => HistoryOK'
  BY DEF HistoryOK, Level
<1>3. ASSUME NEW s \in Survivors, AddSurvivor(s) PROVE HistoryOK'
  BY <1>0, <1>1, <1>2, <1>3 DEF AddSurvivor
<1>4. ASSUME NEW s \in Survivors, WoundSurvivor(s) PROVE HistoryOK'
  <2>1. /\ unaided' = unaided /\ members' = members
        /\ survivor' = [survivor EXCEPT ![s].wounds = survivor[s].wounds + 1]
        /\ fell' = fell \/ fell' = (fell \/ members # {})
    BY <1>4 DEF WoundSurvivor
  <2>2. \A m \in Survivors : survivor'[m].experience = survivor[m].experience
    BY <1>0, <2>1
  <2>3. fell' => members' # {}
    BY <1>0, <2>1
  <2> QED
    BY <1>1, <1>2, <2>1, <2>2, <2>3
<1>5. ASSUME NEW s \in Survivors,
             EquipSurvivor(s) \/ Discard(s) \/ UnlockHoard(s) \/ ReceiveWound(s) \/ KillZombie(s)
      PROVE  HistoryOK'
  <2>1. unaided' = unaided /\ members' = members /\ fell' = fell
    BY <1>5 DEF EquipSurvivor, Discard, UnlockHoard, ReceiveWound, KillZombie
  <2>2. \A m \in Survivors : \/ survivor'[m].experience = survivor[m].experience
                             \/ survivor'[m].experience = survivor[m].experience + 1
    <3>1. CASE EquipSurvivor(s)
      BY <1>0, <3>1 DEF EquipSurvivor
    <3>2. CASE Discard(s)
      BY <1>0, <3>2 DEF Discard
    <3>3. CASE UnlockHoard(s)
      BY <1>0, <3>3 DEF UnlockHoard
    <3>4. CASE ReceiveWound(s)
      BY <1>0, <3>4 DEF ReceiveWound
    <3>5. CASE KillZombie(s)
      BY <1>0, <3>5 DEF KillZombie
    <3> QED
      BY <1>5, <3>1, <3>2, <3>3, <3>4, <3>5
  <2> QED
    BY <1>0, <1>1, <1>2, <2>1, <2>2
<1>6. ASSUME NEW s \in Survivors, KillZombieAlone(s) PROVE HistoryOK'
  <2>1. /\ members' = members /\ fell' = fell
        /\ survivor' = [survivor EXCEPT ![s].experience = survivor[s].experience + 1]
    BY <1>6 DEF KillZombieAlone
  <2>2. ASSUME NEW m \in unaided' PROVE LevelFor(survivor'[m].experience) # Blue
    <3>1. CASE m \in unaided
      <4>1. \/ survivor'[m].experience = survivor[m].experience
            \/ survivor'[m].experience = survivor[m].experience + 1
        BY <1>0, <2>1, <3>1
      <4> QED
        BY <1>0, <3>1, <4>1, LevelOrder
    <3>2. CASE m \notin unaided
      <4>1. m = s /\ LevelFor(survivor[s].experience + 1) # Blue
        BY <1>6, <2>2, <3>2 DEF KillZombieAlone
      <4>2. survivor'[s].experience = survivor[s].experience + 1
        BY <1>0, <2>1
      <4> QED
        BY <4>1, <4>2
    <3> QED
      BY <3>1, <3>2
  <2> QED
    BY <1>0, <1>2, <2>1, <2>2
<1>7. CASE UNCHANGED zombieVars
  BY <1>0, <1>2, <1>7 DEF zombieVars
<1> QED
  BY <1>3, <1>4, <1>5, <1>6, <1>7 DEF ZombieNext

\* The two kinds of a wound exclude each other.
LEMMA WoundKinds ==
  ASSUME ZombieTypeOK, NEW s \in Survivors, WoundSurvivor(s)
  PROVE  \/ /\ survivor[s].wounds + 1 < MaxWounds
            /\ UNCHANGED <<ended, below, fell, unnoticed>>
         \/ /\ ended' = (ended \/ Ends(survivor'))
            /\ below' = (below \/ s \in members)
            /\ fell' = (fell \/ members # {})
  BY DEF WoundSurvivor

\* What a step that is no death in the game does to its end: nothing.
LEMMA GoesOnAs ==
  ASSUME ZombieInv, members \subseteq members',
         fell' = fell, ended' = ended, ~unnoticed' => ~unnoticed,
         ~unnoticed' => \A m \in members : survivor[m].wounds < MaxWounds => survivor'[m].wounds < MaxWounds,
         \A m \in members : ~(survivor[m].wounds < MaxWounds) => ~(survivor'[m].wounds < MaxWounds)
  PROVE  GoesOnWithLiving'
<1>1. /\ fell /\ ~ended /\ ~unnoticed => \E m \in members : survivor[m].wounds < MaxWounds
      /\ ended => \E m \in members : ~(survivor[m].wounds < MaxWounds)
  BY DEF ZombieInv, GoesOnWithLiving, IsAlive
<1>2. fell' /\ ~ended' /\ ~unnoticed' => \E m \in members' : survivor'[m].wounds < MaxWounds
  BY <1>1
<1>3. ended' => \E m \in members' : ~(survivor'[m].wounds < MaxWounds)
  BY <1>1
<1> QED
  BY <1>2, <1>3 DEF GoesOnWithLiving, IsAlive

\* Whoever is in the game when it has not ended, one of them is alive, unless
\* one died unnoticed; and when it has, one of them is dead.
LEMMA GoesOnStep == ZombieInv /\ [ZombieNext]_zombieVars => GoesOnWithLiving'
<1> SUFFICES ASSUME ZombieInv, [ZombieNext]_zombieVars PROVE GoesOnWithLiving'
  OBVIOUS
<1>0. /\ DOMAIN survivor = Survivors /\ members \subseteq Survivors
      /\ \A m \in Survivors :
           survivor[m] \in [wounds : 0..MaxWounds, experience : 0..MaxExperience,
                            inHand : 0..MaxInHand, inReserve : Nat, plusOnes : Nat,
                            hoards : 0..MaxHoards]
      /\ fell => members # {}
      /\ ended => \E m \in members : ~(survivor[m].wounds < MaxWounds)
      /\ MaxWounds \in Nat
  BY ZombieAssumption DEF ZombieInv, ZombieTypeOK, HistoryOK, GoesOnWithLiving, IsAlive
<1>1. ASSUME NEW s \in Survivors, AddSurvivor(s) PROVE GoesOnWithLiving'
  <2>1. /\ members' = members \cup {s} /\ survivor' = survivor
        /\ fell' = fell /\ ended' = ended /\ unnoticed' = unnoticed
    BY <1>1 DEF AddSurvivor
  <2> QED
    BY <2>1, GoesOnAs
<1>2. ASSUME NEW s \in Survivors, WoundSurvivor(s) PROVE GoesOnWithLiving'
  <2>0. members' = members /\ survivor' = [survivor EXCEPT ![s].wounds = survivor[s].wounds + 1]
    BY <1>2 DEF WoundSurvivor
  <2>1. \A m \in Survivors : /\ survivor'[m].wounds \in Nat
                             /\ survivor'[m].wounds >= survivor[m].wounds
    BY <1>0, <2>0
  <2>2. \A m \in members : ~(survivor[m].wounds < MaxWounds) => ~(survivor'[m].wounds < MaxWounds)
    BY <1>0, <2>1
  <2>3. CASE survivor[s].wounds + 1 < MaxWounds /\ UNCHANGED <<ended, below, fell, unnoticed>>
    <3>1. \A m \in members : survivor[m].wounds < MaxWounds => survivor'[m].wounds < MaxWounds
      BY <1>0, <2>0, <2>3
    <3> QED
      BY <2>0, <2>2, <2>3, <3>1, GoesOnAs
  <2>4. CASE /\ ended' = (ended \/ Ends(survivor'))
             /\ below' = (below \/ s \in members)
             /\ fell' = (fell \/ members # {})
    <3>1. ASSUME fell', ~ended' PROVE \E m \in members' : survivor'[m].wounds < MaxWounds
      <4>1. ~Ends(survivor') /\ (fell \/ members # {})
        BY <2>4, <3>1, Zenon
      <4>2. members # {}
        BY <1>0, <4>1
      <4>3. PICK m \in members : ~(survivor'[m].wounds >= MaxWounds)
        BY <4>1, <4>2 DEF Ends
      <4> QED
        BY <1>0, <2>0, <2>1, <4>3
    <3>2. ASSUME ended' PROVE \E m \in members' : ~(survivor'[m].wounds < MaxWounds)
      <4>1. CASE ended
        BY <1>0, <2>0, <2>2, <4>1
      <4>2. CASE Ends(survivor')
        <5>1. PICK m \in members : survivor'[m].wounds >= MaxWounds
          BY <4>2 DEF Ends
        <5> QED
          BY <1>0, <2>0, <2>1, <5>1
      <4>3. ended \/ Ends(survivor')
        BY <2>4, <3>2, Zenon
      <4> QED
        BY <4>1, <4>2, <4>3
    <3> QED
      BY <3>1, <3>2 DEF GoesOnWithLiving, IsAlive
  <2> QED
    BY <1>2, <2>3, <2>4, WoundKinds DEF ZombieInv
<1>3. ASSUME NEW s \in Survivors, ReceiveWound(s) PROVE GoesOnWithLiving'
  <2>0. /\ members' = members /\ fell' = fell /\ ended' = ended
        /\ survivor' = [survivor EXCEPT ![s].wounds = survivor[s].wounds + 1]
    BY <1>3 DEF ReceiveWound
  <2>1. \A m \in members : ~(survivor[m].wounds < MaxWounds) => ~(survivor'[m].wounds < MaxWounds)
    BY <1>0, <2>0
  <2>2. ~unnoticed' => ~unnoticed /\ ~(s \in members /\ survivor[s].wounds + 1 >= MaxWounds)
    BY <1>3 DEF ReceiveWound
  <2>3. ASSUME ~unnoticed', NEW m \in members, survivor[m].wounds < MaxWounds
        PROVE  survivor'[m].wounds < MaxWounds
    <3>1. CASE m = s
      BY <1>0, <2>0, <2>2, <2>3, <3>1
    <3>2. CASE m # s
      BY <1>0, <2>0, <2>3, <3>2
    <3> QED
      BY <3>1, <3>2
  <2> QED
    BY <2>0, <2>1, <2>2, <2>3, GoesOnAs
<1>4. ASSUME NEW s \in Survivors,
             EquipSurvivor(s) \/ Discard(s) \/ KillZombie(s) \/ KillZombieAlone(s) \/ UnlockHoard(s)
      PROVE  GoesOnWithLiving'
  <2>1. members' = members /\ fell' = fell /\ ended' = ended /\ unnoticed' = unnoticed
    BY <1>4 DEF EquipSurvivor, Discard, KillZombie, KillZombieAlone, UnlockHoard
  <2>2. \A m \in Survivors : survivor'[m].wounds = survivor[m].wounds
    <3>1. CASE EquipSurvivor(s)
      BY <1>0, <3>1 DEF EquipSurvivor
    <3>2. CASE Discard(s)
      BY <1>0, <3>2 DEF Discard
    <3>3. CASE KillZombie(s)
      BY <1>0, <3>3 DEF KillZombie
    <3>4. CASE UnlockHoard(s)
      BY <1>0, <3>4 DEF UnlockHoard
    <3>5. CASE KillZombieAlone(s)
      BY <1>0, <3>5 DEF KillZombieAlone
    <3> QED
      BY <1>4, <3>1, <3>2, <3>3, <3>4, <3>5
  <2>3. \A m \in members : survivor'[m].wounds = survivor[m].wounds
    BY <1>0, <2>2
  <2> QED
    BY <2>1, <2>3, GoesOnAs
<1>5. CASE UNCHANGED zombieVars
  BY <1>5, GoesOnAs DEF zombieVars
<1> QED
  BY <1>1, <1>2, <1>3, <1>4, <1>5 DEF ZombieNext

\* What a step that leaves the level of the game alone must not do to it.
LEMMA LevelAs ==
  ASSUME LevelByMember, gameLevel' = gameLevel, gameLevel \in Int, members \subseteq members',
         \A m \in members : Level(m) \in Int /\ Level(m)' \in Int /\ Level(m)' >= Level(m),
         ~below' => ~below /\ \A m \in members : IsAlive(m) => IsAlive(m)',
         ~above' => /\ ~above
                    /\ \A m \in members' : IsAlive(m)' =>
                         \/ m \in members /\ IsAlive(m) /\ Level(m)' = Level(m)
                         \/ Level(m)' <= gameLevel
  PROVE  LevelByMember'
<1>1. \A m \in members : ReachedBy(m) => ReachedBy(m)'
  BY DEF ReachedBy
<1>2. (gameLevel = Blue \/ \E m \in members : ReachedBy(m))'
  BY <1>1 DEF LevelByMember
<1>3. ASSUME ~below' PROVE gameLevel' = Blue \/ \E m \in members' : IsAlive(m)' /\ ReachedBy(m)'
  BY <1>1, <1>3 DEF LevelByMember
<1>4. ASSUME ~above', NEW m \in members', IsAlive(m)' PROVE Level(m)' <= gameLevel'
  BY <1>4 DEF LevelByMember
<1> QED
  BY <1>2, <1>3, <1>4 DEF LevelByMember

\* As long as nothing has put it above or below, the level is that of the best.
LEMMA LevelStep == ZombieInv /\ [ZombieNext]_zombieVars => LevelIsHighest'
<1> SUFFICES ASSUME ZombieInv, [ZombieNext]_zombieVars PROVE LevelIsHighest'
  OBVIOUS
<1>0. /\ DOMAIN survivor = Survivors /\ members \subseteq Survivors
      /\ \A m \in Survivors :
           survivor[m] \in [wounds : 0..MaxWounds, experience : 0..MaxExperience,
                            inHand : 0..MaxInHand, inReserve : Nat, plusOnes : Nat,
                            hoards : 0..MaxHoards]
      /\ MaxWounds \in Nat
  BY ZombieAssumption DEF ZombieInv, ZombieTypeOK
<1>a. ZombieTypeOK' /\ LevelByMember
  BY ZombieTypeStep, MemberByMember DEF ZombieInv
<1>b. SUFFICES LevelByMember'
  <2>1. ZombieTypeOK' => (LevelIsHighest <=> LevelByMember)'
    BY MemberByMember, PTL
  <2> QED
    BY <1>a, <1>b, <2>1
<1>c. gameLevel \in Int /\ \A m \in Survivors : Level(m) \in Levels /\ Level(m) \in Int
  BY LevelOrder DEF ZombieInv, ZombieTypeOK, Level, Levels, Blue, Red
<1>d. members' \subseteq Survivors /\ \A m \in Survivors : Level(m)' \in Levels /\ Level(m)' \in Int
  BY <1>a, LevelOrder DEF ZombieTypeOK, Level, Levels, Blue, Red
<1>1. ASSUME NEW s \in Survivors, AddSurvivor(s) PROVE LevelByMember'
  <2>1. /\ members' = members \cup {s} /\ survivor' = survivor /\ gameLevel' = gameLevel
        /\ below' = below /\ above' = (above \/ (IsAlive(s) /\ Level(s) > gameLevel))
    BY <1>1 DEF AddSurvivor
  <2>2. \A m \in Survivors : Level(m)' = Level(m) /\ (IsAlive(m)' <=> IsAlive(m))
    BY <2>1 DEF Level, IsAlive
  <2>3. ASSUME ~above', NEW m \in members', IsAlive(m)'
        PROVE  \/ m \in members /\ IsAlive(m) /\ Level(m)' = Level(m)
               \/ Level(m)' <= gameLevel
    <3>1. CASE m \in members
      BY <1>d, <2>2, <2>3, <3>1
    <3>2. CASE m = s
      <4>1. ~(IsAlive(s) /\ Level(s) > gameLevel)
        BY <2>1, <2>3, Zenon
      <4>2. IsAlive(s) /\ Level(s)' = Level(s)
        BY <2>2, <2>3, <3>2
      <4> QED
        BY <1>c, <3>2, <4>1, <4>2
    <3> QED
      BY <2>1, <3>1, <3>2
  <2>4. \A m \in members : Level(m) \in Int /\ Level(m)' \in Int /\ Level(m)' >= Level(m)
    BY <1>0, <1>c, <1>d, <2>2
  <2>5. ~below' => ~below /\ \A m \in members : IsAlive(m) => IsAlive(m)'
    BY <1>0, <2>1, <2>2
  <2>6. ~above' => ~above
    BY <2>1, Zenon
  <2> QED
    BY <1>a, <1>c, <2>1, <2>3, <2>4, <2>5, <2>6, LevelAs
<1>2. ASSUME NEW s \in Survivors, WoundSurvivor(s) \/ ReceiveWound(s) PROVE LevelByMember'
  <2>1. /\ members' = members /\ gameLevel' = gameLevel /\ above' = above
        /\ survivor' = [survivor EXCEPT ![s].wounds = survivor[s].wounds + 1]
    BY <1>2 DEF WoundSurvivor, ReceiveWound
  <2>2. \A m \in Survivors : /\ survivor'[m].experience = survivor[m].experience
                             /\ survivor'[m].wounds >= survivor[m].wounds
                             /\ survivor'[m].wounds \in Nat
    BY <1>0, <2>1
  <2>3. \A m \in Survivors : Level(m)' = Level(m) /\ (IsAlive(m)' => IsAlive(m))
    BY <1>0, <2>2 DEF Level, IsAlive
  <2>4. ~below' => ~below /\ (s \in members => survivor[s].wounds + 1 < MaxWounds)
    <3>1. CASE WoundSurvivor(s)
      <4>1. CASE survivor[s].wounds + 1 < MaxWounds /\ UNCHANGED <<ended, below, fell, unnoticed>>
        BY <4>1
      <4>2. CASE below' = (below \/ s \in members)
        BY <4>2, Zenon
      <4> QED
        BY <3>1, <4>1, <4>2, WoundKinds DEF ZombieInv
    <3>2. CASE ReceiveWound(s)
      <4>1. below' = (below \/ (s \in members /\ survivor[s].wounds + 1 >= MaxWounds))
        BY <3>2 DEF ReceiveWound
      <4>2. ~below' => ~below /\ ~(s \in members /\ survivor[s].wounds + 1 >= MaxWounds)
        BY <4>1, Zenon
      <4> QED
        BY <1>0, <4>2
    <3> QED
      BY <1>2, <3>1, <3>2
  <2>5. ASSUME ~below', NEW m \in members, IsAlive(m) PROVE IsAlive(m)'
    <3>1. CASE m = s
      BY <1>0, <2>1, <2>4, <2>5, <3>1 DEF IsAlive
    <3>2. CASE m # s
      BY <1>0, <2>1, <2>5, <3>2 DEF IsAlive
    <3> QED
      BY <3>1, <3>2
  <2>6. \A m \in members : Level(m) \in Int /\ Level(m)' \in Int /\ Level(m)' >= Level(m)
    BY <1>0, <1>c, <2>3
  <2>7. \A m \in members' : IsAlive(m)' =>
          \/ m \in members /\ IsAlive(m) /\ Level(m)' = Level(m)
          \/ Level(m)' <= gameLevel
    BY <1>0, <2>1, <2>3
  <2> QED
    BY <1>a, <1>c, <2>1, <2>4, <2>5, <2>6, <2>7, LevelAs
<1>3. ASSUME NEW s \in Survivors, EquipSurvivor(s) \/ Discard(s) \/ UnlockHoard(s)
      PROVE  LevelByMember'
  <2>1. members' = members /\ gameLevel' = gameLevel /\ above' = above /\ below' = below
    BY <1>3 DEF EquipSurvivor, Discard, UnlockHoard
  <2>2. \A m \in Survivors : /\ survivor'[m].wounds = survivor[m].wounds
                             /\ survivor'[m].experience = survivor[m].experience
    BY <1>0, <1>3 DEF EquipSurvivor, Discard, UnlockHoard
  <2>3. \A m \in Survivors : Level(m)' = Level(m) /\ (IsAlive(m)' <=> IsAlive(m))
    BY <2>2 DEF Level, IsAlive
  <2>4. \A m \in members : Level(m) \in Int /\ Level(m)' \in Int /\ Level(m)' >= Level(m)
    BY <1>0, <1>c, <2>3
  <2>5. \A m \in members : IsAlive(m) => IsAlive(m)'
    BY <1>0, <2>3
  <2>6. \A m \in members' : IsAlive(m)' => m \in members /\ IsAlive(m) /\ Level(m)' = Level(m)
    BY <1>0, <2>1, <2>3
  <2> QED
    BY <1>a, <1>c, <2>1, <2>4, <2>5, <2>6, LevelAs
<1>4. ASSUME NEW s \in Survivors, KillZombie(s) PROVE LevelByMember'
  <2>1. members' = members
    BY <1>4 DEF KillZombie
  <2>2. CASE LevelFor(survivor[s].experience + 1) = Level(s)
    <3>1. /\ gameLevel' = gameLevel /\ above' = above /\ below' = below
          /\ survivor' = [survivor EXCEPT ![s].experience = survivor[s].experience + 1]
      BY <1>4, <2>2 DEF KillZombie
    <3>2. \A m \in Survivors : /\ survivor'[m].wounds = survivor[m].wounds
                               /\ LevelFor(survivor'[m].experience)
                                     = LevelFor(survivor[m].experience)
      BY <1>0, <2>2, <3>1 DEF Level
    <3>3. \A m \in Survivors : Level(m)' = Level(m) /\ (IsAlive(m)' <=> IsAlive(m))
      BY <3>2 DEF Level, IsAlive
    <3>4. \A m \in members : Level(m) \in Int /\ Level(m)' \in Int /\ Level(m)' >= Level(m)
      BY <1>0, <1>c, <3>3
    <3>5. \A m \in members : IsAlive(m) => IsAlive(m)'
      BY <1>0, <3>3
    <3>6. \A m \in members' : IsAlive(m)' => m \in members /\ IsAlive(m) /\ Level(m)' = Level(m)
      BY <1>0, <2>1, <3>3
    <3> QED
      BY <1>a, <1>c, <2>1, <3>1, <3>4, <3>5, <3>6, LevelAs
  <2>3. CASE LevelFor(survivor[s].experience + 1) # Level(s)
    <3> DEFINE now == {LevelFor(survivor'[m].experience) : m \in Living(survivor')} \cup {Blue}
    <3>1. gameLevel' = Max(now)
      BY <1>4, <2>3 DEF KillZombie, Highest
    <3>2. \A m \in Living(survivor') : m \in members' /\ IsAlive(m)'
      BY <2>1 DEF Living, IsAlive
    <3>3. \A m \in members' : IsAlive(m)' => m \in Living(survivor')
      BY <2>1 DEF Living, IsAlive
    <3>4. now \in SUBSET Levels /\ now # {}
      BY <1>d, <3>2, LevelOrder DEF Level
    <3>5. gameLevel' \in now /\ \A l \in now : gameLevel' >= l
      BY <3>1, <3>4, HighestLevel
    <3>6. gameLevel' \in Int /\ \A l \in now : l \in Int
      BY <3>4, <3>5 DEF Levels, Blue, Red
    <3>7. gameLevel' = Blue \/ \E m \in members' : IsAlive(m)' /\ gameLevel' <= Level(m)'
      BY <3>2, <3>5, <3>6 DEF Level
    <3>8. \A m \in members' : IsAlive(m)' => Level(m)' <= gameLevel'
      BY <3>3, <3>5, <3>6 DEF Level
    <3> QED
      BY <3>7, <3>8 DEF LevelByMember, ReachedBy
  <2> QED
    BY <2>2, <2>3
<1>5. ASSUME NEW s \in Survivors, KillZombieAlone(s) PROVE LevelByMember'
  <2>1. /\ members' = members /\ gameLevel' = gameLevel /\ below' = below
        /\ survivor' = [survivor EXCEPT ![s].experience = survivor[s].experience + 1]
        /\ above' = (above \/ (s \in members /\ IsAlive(s)
                                 /\ LevelFor(survivor[s].experience + 1) > gameLevel))
    BY <1>5 DEF KillZombieAlone
  <2>2. \A m \in Survivors : /\ survivor'[m].wounds = survivor[m].wounds
                             /\ m # s => survivor'[m].experience = survivor[m].experience
                             /\ m = s => survivor'[m].experience = survivor[m].experience + 1
    BY <1>0, <2>1
  <2>3. \A m \in Survivors : /\ IsAlive(m)' <=> IsAlive(m)
                             /\ m # s => Level(m)' = Level(m)
                             /\ m = s => Level(m)' = LevelFor(survivor[m].experience + 1)
    BY <2>2 DEF Level, IsAlive
  <2>4. \A m \in members : Level(m) \in Int /\ Level(m)' \in Int /\ Level(m)' >= Level(m)
    <3> SUFFICES ASSUME NEW m \in members PROVE Level(m)' >= Level(m)
      BY <1>0, <1>c, <1>d
    <3>1. CASE m # s
      BY <1>0, <1>c, <2>3, <3>1
    <3>2. CASE m = s
      <4>1. LevelFor(survivor[m].experience) <= LevelFor(survivor[m].experience + 1)
        BY <1>0, LevelOrder
      <4> QED
        BY <1>0, <1>c, <1>d, <2>3, <3>2, <4>1 DEF Level
    <3> QED
      BY <3>1, <3>2
  <2>5. \A m \in members : IsAlive(m) => IsAlive(m)'
    BY <1>0, <2>3
  <2>6. ~above' => ~above /\ ~(s \in members /\ IsAlive(s)
                                 /\ LevelFor(survivor[s].experience + 1) > gameLevel)
    BY <2>1, Zenon
  <2>7. ASSUME ~above', NEW m \in members', IsAlive(m)'
        PROVE  \/ m \in members /\ IsAlive(m) /\ Level(m)' = Level(m)
               \/ Level(m)' <= gameLevel
    <3>1. CASE m # s
      BY <1>0, <2>1, <2>3, <2>7, <3>1
    <3>2. CASE m = s
      <4>1. IsAlive(s) /\ s \in members /\ Level(s)' = LevelFor(survivor[s].experience + 1)
        BY <2>1, <2>3, <2>7, <3>2
      <4>2. Level(s)' \in Int /\ ~(Level(s)' > gameLevel)
        BY <1>d, <2>6, <2>7, <4>1
      <4> QED
        BY <1>c, <3>2, <4>2
    <3> QED
      BY <3>1, <3>2
  <2> QED
    BY <1>a, <1>c, <2>1, <2>4, <2>5, <2>6, <2>7, LevelAs
<1>6. CASE UNCHANGED zombieVars
  BY <1>a, <1>6 DEF zombieVars, LevelByMember, ReachedBy, IsAlive, Level
<1> QED
  BY <1>1, <1>2, <1>3, <1>4, <1>5, <1>6 DEF ZombieNext

\* What the game keeps: its types, its level, its end, and what survivors carry.
THEOREM ZombieInvariant == ZombieSpec => []ZombieInv
<1>1. ZombieInv /\ [ZombieNext]_zombieVars => ZombieInv'
  BY ZombieTypeStep, MeansStep, LevelStep, GoesOnStep, HistoryStep DEF ZombieInv
<1> QED
  BY ZombieStart, <1>1, PTL DEF ZombieSpec

\* The game never has a level none of its members reached; it is too high for
\* its living members only after a death, and too low only after a member rose
\* or joined above it while the game did not look, for it recomputes its level
\* at level-ups only that go through it (game.py:34-40, 56-73).
THEOREM GameLevelIsHighest == ZombieSpec => []LevelIsHighest
<1>1. ZombieInv => LevelIsHighest
  BY DEF ZombieInv
<1> QED
  BY ZombieInvariant, <1>1, PTL

\* Whatever the order of wounds, finds, discards and kills, through the game or
\* not, nobody carries more than he could unhurt, and everybody past Blue has
\* won the action of Yellow once, or never, when he left Blue by a kill of which
\* the game was not told (game.py:56-64, survivor.py:40-100).
THEOREM SurvivorsWithinMeans == ZombieSpec => []WithinMeans
<1>1. ZombieInv => WithinMeans
  BY DEF ZombieInv
<1> QED
  BY ZombieInvariant, <1>1, PTL

\* A game that goes on after a death has a living member, unless one has died
\* since of a wound the game was not told of; and one that has ended has a dead
\* one (game.py:42-50, 75-78, survivor.py:66-70).
THEOREM GameGoesOn == ZombieSpec => []GoesOnWithLiving
<1>1. ZombieInv => GoesOnWithLiving
  BY DEF ZombieInv
<1> QED
  BY ZombieInvariant, <1>1, PTL

-----------------------------------------------------------------------------
(***************************************************************************)
(* TicTacToe: a line appears with the move that fills its last square, so  *)
(* it is the mover's, and every line he has then goes through that square. *)
(***************************************************************************)
SharedSquare(m) ==
    HasLine(m) => \E s \in Squares : \A line \in Lines : (\A t \in line : board[t] = m) => s \in line

BoardInv ==
    /\ BoardTypeOK
    /\ CountOf("X") - CountOf("O") \in {0, 1}
    /\ HasLine("X") => CountOf("X") = CountOf("O") + 1
    /\ HasLine("O") => CountOf("X") = CountOf("O")
    /\ \A m \in Marks : SharedSquare(m)

LEMMA LineSquares ==
  /\ \A line \in Lines : line \subseteq Squares /\ line # {}
  /\ IsFiniteSet(Squares)
<1>1. /\ 0 \in Side /\ \A i \in Side : 2 - i \in Side
      /\ \A r, c \in Side : <<r, c>> \in Squares
  BY DEF Side, Squares
<1>2. ASSUME NEW line \in Lines PROVE line \subseteq Squares /\ line # {}
  <2>1. CASE line \in {{<<r, c>> : c \in Side} : r \in Side}
    <3>1. PICK r \in Side : line = {<<r, c>> : c \in Side}
      BY <2>1
    <3>2. \A x \in line : x \in Squares
      BY <1>1, <3>1
    <3>3. <<r, 0>> \in line
      BY <1>1, <3>1
    <3> QED
      BY <3>2, <3>3
  <2>2. CASE line \in {{<<r, c>> : r \in Side} : c \in Side}
    <3>1. PICK c \in Side : line = {<<r, c>> : r \in Side}
      BY <2>2
    <3>2. \A x \in line : x \in Squares
      BY <1>1, <3>1
    <3>3. <<0, c>> \in line
      BY <1>1, <3>1
    <3> QED
      BY <3>2, <3>3
  <2>3. CASE line = {<<i, i>> : i \in Side}
    BY <1>1, <2>3
  <2>4. CASE line = {<<i, 2 - i>> : i \in Side}
    BY <1>1, <2>4
  <2> QED
    BY <2>1, <2>2, <2>3, <2>4 DEF Lines
<1>3. IsFiniteSet(Squares)
  <2>1. 0 \in Int /\ 2 \in Int
    OBVIOUS
  <2>2. IsFiniteSet(0..2)
    BY <2>1, FS_Interval, Zenon
  <2> QED
    BY <2>2, FS_Product DEF Side, Squares
<1> QED
  BY <1>2, <1>3

LEMMA CountTypes ==
  ASSUME BoardTypeOK, NEW mark
  PROVE  CountOf(mark) \in Nat
<1>1. IsFiniteSet({s \in Squares : board[s] = mark})
  BY LineSquares, FS_Subset
<1> QED
  BY <1>1, FS_CardinalityType DEF CountOf

\* A move counts for the one who makes it.
LEMMA MoveCounts ==
  ASSUME BoardTypeOK, NEW s \in Squares, NEW m \in Marks, NEW o \in Marks, o # m,
         board[s] = Empty, board' = [board EXCEPT ![s] = m]
  PROVE  /\ BoardTypeOK'
         /\ CountOf(m)' = CountOf(m) + 1 /\ CountOf(o)' = CountOf(o)
         /\ \A t \in Squares : board'[t] = IF t = s THEN m ELSE board[t]
<1>1. \A t \in Squares : board'[t] = IF t = s THEN m ELSE board[t]
  BY DEF BoardTypeOK
<1>2. BoardTypeOK'
  BY DEF BoardTypeOK
<1>3. Empty # m /\ Empty # o
  BY DEF Marks, Empty
<1>4. CountOf(m)' = CountOf(m) + 1
  <2> DEFINE P == {t \in Squares : board[t] = m}
  <2>1. IsFiniteSet(P) /\ s \notin P
    BY <1>3, LineSquares, FS_Subset
  <2>2. {t \in Squares : board'[t] = m} = P \cup {s}
    BY <1>1
  <2> QED
    BY <2>1, <2>2, FS_AddElement DEF CountOf
<1>5. {t \in Squares : board'[t] = o} = {t \in Squares : board[t] = o}
  BY <1>1, <1>3
<1> QED
  BY <1>1, <1>2, <1>4, <1>5 DEF CountOf

LEMMA BoardStart ==
  BoardInit => BoardInv
<1> SUFFICES ASSUME BoardInit PROVE BoardInv
  OBVIOUS
<1>1. BoardTypeOK /\ \A s \in Squares : board[s] = Empty
  BY DEF BoardInit, BoardTypeOK
<1>2. "X" \in Marks /\ "O" \in Marks /\ \A m \in Marks : m # Empty
  BY DEF Marks, Empty
<1>3. ASSUME NEW m \in Marks PROVE CountOf(m) = 0 /\ ~HasLine(m)
  <2>1. {s \in Squares : board[s] = m} = {}
    BY <1>1, <1>2
  <2> QED
    BY <1>1, <1>2, <2>1, LineSquares, FS_EmptySet DEF CountOf, HasLine
<1> QED
  BY <1>1, <1>2, <1>3 DEF BoardInv, SharedSquare

LEMMA PlaceKeepsBoard ==
  ASSUME BoardInv, NEW s \in Squares, Place(s)
  PROVE  BoardInv'
<1>1. ~HasLine("X") /\ ~HasLine("O")
  BY DEF Place, Outcome
<1>2. PICK m \in Marks, o \in Marks :
         /\ o # m /\ Marks = {m, o} /\ m = CurrentTurn
         /\ m = "X" <=> CountOf("X") = CountOf("O")
         /\ (m = "X" /\ o = "O") \/ (m = "O" /\ o = "X")
  BY DEF CurrentTurn, Marks
<1>3. board[s] = Empty /\ board' = [board EXCEPT ![s] = m]
  BY <1>2 DEF Place
<1>4. CountOf("X") \in Nat /\ CountOf("O") \in Nat /\ CountOf("X") - CountOf("O") \in {0, 1}
  BY CountTypes DEF BoardInv
<1>5. /\ BoardTypeOK'
      /\ CountOf(m)' = CountOf(m) + 1 /\ CountOf(o)' = CountOf(o)
      /\ \A t \in Squares : board'[t] = IF t = s THEN m ELSE board[t]
  BY <1>2, <1>3, MoveCounts DEF BoardInv
<1>6. ~HasLine(o)'
  BY <1>1, <1>2, <1>5, LineSquares DEF HasLine
<1>7. ASSUME NEW line \in Lines, \A t \in line : board'[t] = m
      PROVE  s \in line
  BY <1>1, <1>2, <1>5, <1>7, LineSquares DEF HasLine
<1>8. SharedSquare(m)' /\ SharedSquare(o)'
  BY <1>6, <1>7 DEF SharedSquare
<1>9. CASE m = "X"
  <2>1. CountOf("X")' = CountOf("X") + 1 /\ CountOf("O")' = CountOf("O") /\ CountOf("X") = CountOf("O")
    BY <1>2, <1>5, <1>9
  <2>2. ~HasLine("O")'
    BY <1>2, <1>6, <1>9
  <2> QED
    BY <1>2, <1>4, <1>5, <1>8, <2>1, <2>2 DEF BoardInv
<1>10. CASE m = "O"
  <2>1. CountOf("X")' = CountOf("X") /\ CountOf("O")' = CountOf("O") + 1 /\ CountOf("X") = CountOf("O") + 1
    BY <1>2, <1>4, <1>5, <1>10
  <2>2. ~HasLine("X")'
    BY <1>2, <1>6, <1>10
  <2> QED
    BY <1>2, <1>4, <1>5, <1>8, <2>1, <2>2 DEF BoardInv
<1> QED
  BY <1>2, <1>9, <1>10

LEMMA BoardInvariant ==
  BoardSpec => []BoardInv
<1>1. BoardInv /\ [BoardNext]_board => BoardInv'
  <2>1. ASSUME BoardInv, UNCHANGED board PROVE BoardInv'
    BY <2>1 DEF BoardInv, BoardTypeOK, CountOf, HasLine, SharedSquare
  <2> QED
    BY <2>1, PlaceKeepsBoard DEF BoardNext
<1> QED
  BY <1>1, BoardStart, PTL DEF BoardSpec

LEMMA BoardHolds ==
  BoardInv => LastMoveWins
<1> SUFFICES ASSUME BoardInv PROVE LastMoveWins
  OBVIOUS
<1>1. CountOf("X") \in Nat /\ CountOf("O") \in Nat
  BY CountTypes DEF BoardInv
<1>2. /\ HasLine("X") => CountOf("X") = CountOf("O") + 1
      /\ HasLine("O") => CountOf("X") = CountOf("O")
  BY DEF BoardInv
<1>3. (Outcome = "XWins" => HasLine("X")) /\ (Outcome = "OWins" => HasLine("O"))
  BY DEF Outcome
<1>4. ~(HasLine("X") /\ HasLine("O"))
  BY <1>1, <1>2
<1> QED
  BY <1>2, <1>3, <1>4 DEF LastMoveWins, BoardInv, SharedSquare

-----------------------------------------------------------------------------
(***************************************************************************)
(* TennisMatch: a point changes the counters of the player who won it, so  *)
(* only that player can come to have won a game or a set, and whoever has  *)
(* is taken down to fresh counters in the same step.                       *)
(***************************************************************************)
\* With these counters nobody has a lead of two at or past the least to win.
NoLead(counts, least) ==
    \A p \in Players : counts[p] >= least => counts[p] - counts[Other(p)] < 2

Leads(counts, least, p) == counts[p] >= least /\ counts[p] - counts[Other(p)] >= 2

MatchInv ==
    /\ MatchTypeOK
    /\ NoLead(match.points, 4) /\ NoLead(match.games, 6)
    /\ \A p \in Players : match.sets[p] = 2 <=> match.winner = p
    /\ match.justGame # NoPlayer => match.points = Zeros /\ match.games[match.justGame] > 0
    /\ match.justSet # NoPlayer =>
          match.points = Zeros /\ match.games = Zeros /\ match.sets[match.justSet] = 1
    /\ match.winner # NoPlayer => match.points = Zeros /\ match.games = Zeros

LEMMA PlayerFacts ==
  /\ Players = {1, 2} /\ NoPlayer \notin Players /\ NoPlayer = 0
  /\ \A p \in Players : Other(p) \in Players /\ Other(p) # p /\ Other(Other(p)) = p
  /\ \A p, q \in Players : q # p => q = Other(p)
  BY DEF Players, NoPlayer, Other

LEMMA WinnerOf ==
  ASSUME NEW won \in SUBSET Players
  PROVE  /\ Winner(won) = NoPlayer <=> won = {}
         /\ Winner(won) # NoPlayer => Winner(won) \in won
         /\ Winner(won) \in 0..2
  BY DEF Winner, Players, NoPlayer

\* One more for a player can only give a lead to that player.
LEMMA LeadIsMovers ==
  ASSUME NEW counts \in [Players -> Nat], NEW least \in Nat, NoLead(counts, least),
         NEW player \in Players, NEW more \in [Players -> Nat],
         more[player] = counts[player] + 1, more[Other(player)] = counts[Other(player)]
  PROVE  /\ \A p \in Players : Leads(more, least, p) => p = player
         /\ (\A p \in Players : ~Leads(more, least, p)) => NoLead(more, least)
<1>1. /\ Other(player) \in Players /\ Other(Other(player)) = player
      /\ counts[player] \in Nat /\ counts[Other(player)] \in Nat
      /\ \A p \in Players : p # player => p = Other(player)
  BY PlayerFacts
<1>2. ~Leads(more, least, Other(player))
  BY <1>1 DEF Leads, NoLead
<1>3. \A p \in Players : more[p] \in Nat /\ more[Other(p)] \in Nat
  BY PlayerFacts
<1> QED
  BY <1>1, <1>2, <1>3 DEF Leads, NoLead

\* Words are not announcements, and the points of a game won are.
LEMMA StateOf ==
  ASSUME NEW points \in [Players -> Nat], NEW p \in Players
  PROVE  /\ ScoreState(points, p) = "Game" <=> Leads(points, 4, p)
         /\ ScoreState(points, p) = "Advantage" <=>
               /\ points[p] >= 3 /\ points[Other(p)] >= 3 /\ points[p] = points[Other(p)] + 1
         /\ ScoreState(points, p) = "Deuce" <=>
               points[p] >= 3 /\ points[Other(p)] >= 3 /\ points[p] = points[Other(p)]
         /\ ScoreState(points, p) \in Words \cup {"Game", "Advantage", "Deuce"}
<1> DEFINE a == points[p]
           b == points[Other(p)]
<1>1. a \in Nat /\ b \in Nat
  BY PlayerFacts
<1> HIDE DEF a, b
<1>2. PointsToScore(a) \in Words
  <2>1. \/ a = 0 /\ PointsToScore(a) = "Love"
        \/ a = 1 /\ PointsToScore(a) = "Fifteen"
        \/ a = 2 /\ PointsToScore(a) = "Thirty"
        \/ a >= 3 /\ PointsToScore(a) = "Forty"
    BY <1>1 DEF PointsToScore
  <2> QED
    BY <2>1 DEF Words
<1>3. /\ "Game" \notin Words /\ "Advantage" \notin Words /\ "Deuce" \notin Words
  BY DEF Words
<1>4. ScoreState(points, p) =
        CASE a >= 3 /\ b >= 3 /\ a = b -> "Deuce"
          [] a >= 3 /\ b >= 3 /\ a = b + 1 -> "Advantage"
          [] a >= 4 /\ a >= b + 2 -> "Game"
          [] OTHER -> PointsToScore(a)
  BY DEF ScoreState, a, b
<1>5. CASE a >= 3 /\ b >= 3 /\ a = b
  BY <1>1, <1>3, <1>4, <1>5 DEF Leads, a, b
<1>6. CASE a >= 3 /\ b >= 3 /\ a = b + 1
  <2>1. ScoreState(points, p) = "Advantage"
    BY <1>1, <1>4, <1>6
  <2> QED
    BY <1>1, <1>3, <1>6, <2>1 DEF Leads, a, b
<1>7. CASE a >= 4 /\ a >= b + 2
  <2>1. ScoreState(points, p) = "Game"
    BY <1>1, <1>4, <1>7
  <2> QED
    BY <1>1, <1>3, <1>7, <2>1 DEF Leads, a, b
<1>8. CASE /\ ~(a >= 3 /\ b >= 3 /\ a = b) /\ ~(a >= 3 /\ b >= 3 /\ a = b + 1)
           /\ ~(a >= 4 /\ a >= b + 2)
  <2>1. ScoreState(points, p) = PointsToScore(a)
    BY <1>4, <1>8
  <2> QED
    BY <1>1, <1>2, <1>3, <1>8, <2>1 DEF Leads, a, b
<1> QED
  BY <1>5, <1>6, <1>7, <1>8

LEMMA ZerosType ==
  /\ Zeros \in [Players -> Nat] /\ \A p \in Players : Zeros[p] = 0
  /\ \A least \in Nat : least > 0 => NoLead(Zeros, least)
  BY PlayerFacts DEF Zeros, NoLead

LEMMA MatchStart ==
  MatchInit => MatchInv
<1> SUFFICES ASSUME MatchInit PROVE MatchInv
  OBVIOUS
<1>1. match = [points |-> Zeros, games |-> Zeros, sets |-> Zeros,
               justGame |-> NoPlayer, justSet |-> NoPlayer, winner |-> NoPlayer]
  BY DEF MatchInit
<1>2. /\ NoPlayer \in 0..2 /\ \A n \in Nat : Zeros \in [Players -> 0..n]
  BY DEF Zeros, NoPlayer
<1>3. MatchTypeOK
  BY <1>1, <1>2, MatchAssumption DEF MatchTypeOK
<1>4. \A p \in Players : match.sets[p] = 0 /\ match.winner # p
  BY <1>1, ZerosType, PlayerFacts
<1> QED
  BY <1>1, <1>3, <1>4, ZerosType DEF MatchInv

LEMMA PointKeepsMatch ==
  ASSUME MatchInv, NEW player \in Players, PointWonBy(player)
  PROVE  MatchInv'
<1>1. /\ match.points \in [Players -> 0..MaxPoints] /\ match.games \in [Players -> 0..MaxGames]
      /\ match.sets \in [Players -> 0..2] /\ match.winner = NoPlayer
      /\ NoLead(match.points, 4) /\ NoLead(match.games, 6)
      /\ \A p \in Players : match.sets[p] \in {0, 1}
      /\ match.points \in [Players -> Nat] /\ match.games \in [Players -> Nat]
  <2>1. MatchTypeOK /\ match.winner = NoPlayer
    BY DEF MatchInv, PointWonBy
  <2>2. \A p \in Players : match.sets[p] \in 0..2 /\ match.sets[p] # 2
    BY <2>1, PlayerFacts DEF MatchInv, MatchTypeOK
  <2> QED
    BY <2>1, <2>2, MatchAssumption DEF MatchInv, MatchTypeOK
<1>2. PICK points \in [Players -> Nat] :
         /\ points = [match.points EXCEPT ![player] = @ + 1]
         /\ points[player] = match.points[player] + 1
         /\ points[Other(player)] = match.points[Other(player)]
  <2> DEFINE more == [match.points EXCEPT ![player] = @ + 1]
  <2>1. match.points[player] + 1 \in Nat
    BY <1>1
  <2>2. /\ more \in [Players -> Nat] /\ more[player] = match.points[player] + 1
        /\ more[Other(player)] = match.points[Other(player)]
    BY <1>1, <2>1, PlayerFacts
  <2> QED
    BY <2>2
<1>3. PICK game \in 0..2 :
         /\ game = Winner({p \in Players : ScoreState(points, p) = "Game"})
         /\ game # NoPlayer => game = player
         /\ game = NoPlayer => NoLead(points, 4)
  <2> DEFINE won == {p \in Players : ScoreState(points, p) = "Game"}
  <2>1. won = {p \in Players : Leads(points, 4, p)}
    BY <1>2, StateOf
  <2> HIDE DEF won
  <2>6. /\ \A p \in Players : Leads(points, 4, p) => p = player
        /\ (\A p \in Players : ~Leads(points, 4, p)) => NoLead(points, 4)
    <3>1. /\ points[player] = match.points[player] + 1 /\ NoLead(match.points, 4)
          /\ points[Other(player)] = match.points[Other(player)]
          /\ points \in [Players -> Nat] /\ match.points \in [Players -> Nat] /\ 4 \in Nat
      BY <1>1, <1>2
    <3> QED
      BY <3>1, LeadIsMovers
  <2>2. \A p \in won : p = player
    BY <2>1, <2>6
  <2>3. won = {} => NoLead(points, 4)
    BY <2>1, <2>6
  <2>4. won \in SUBSET Players
    BY DEF won
  <2>5. /\ Winner(won) \in 0..2
        /\ Winner(won) # NoPlayer => Winner(won) = player
        /\ Winner(won) = NoPlayer => NoLead(points, 4)
    BY <2>2, <2>3, <2>4, WinnerOf
  <2> QED
    BY <2>5 DEF won
<1>4. PICK games \in [Players -> Nat] :
         /\ games = [p \in Players |-> match.games[p] + IF game = p THEN 1 ELSE 0]
         /\ games[Other(player)] = match.games[Other(player)]
         /\ games[player] = IF game = player THEN match.games[player] + 1 ELSE match.games[player]
  <2> DEFINE g == [p \in Players |-> match.games[p] + IF game = p THEN 1 ELSE 0]
  <2>1. g \in [Players -> Nat]
    BY <1>1
  <2>2. /\ g[Other(player)] = match.games[Other(player)]
        /\ g[player] = IF game = player THEN match.games[player] + 1 ELSE match.games[player]
    BY <1>1, <1>3, PlayerFacts
  <2> QED
    BY <2>1, <2>2
<1>5. PICK set \in 0..2 :
         /\ set = Winner({p \in Players : WinsSet(games, p)})
         /\ set # NoPlayer => set = player
         /\ set = NoPlayer => NoLead(games, 6)
  <2> DEFINE won == {p \in Players : WinsSet(games, p)}
  <2>1. won = {p \in Players : Leads(games, 6, p)}
    BY DEF WinsSet, Leads
  <2>2. (\A p \in won : p = player) /\ (won = {} => NoLead(games, 6))
    <3>1. CASE game = player
      BY <1>1, <1>4, <2>1, <3>1, LeadIsMovers
    <3>2. CASE game # player
      <4>1. games = match.games
        BY <1>1, <1>4, <3>2, PlayerFacts
      <4>2. \A p \in Players : games[p] \in Nat /\ games[Other(p)] \in Nat
        BY PlayerFacts
      <4> QED
        BY <1>1, <2>1, <4>1, <4>2 DEF NoLead, Leads
    <3> QED
      BY <3>1, <3>2
  <2> HIDE DEF won
  <2>3. won \in SUBSET Players
    BY DEF won
  <2>4. /\ Winner(won) \in 0..2
        /\ Winner(won) # NoPlayer => Winner(won) = player
        /\ Winner(won) = NoPlayer => NoLead(games, 6)
    BY <2>2, <2>3, WinnerOf
  <2> QED
    BY <2>4 DEF won
<1>6. PICK sets \in [Players -> 0..2] :
         /\ sets = [p \in Players |-> match.sets[p] + IF set = p THEN 1 ELSE 0]
         /\ \A p \in Players : sets[p] = match.sets[p] + IF set = p THEN 1 ELSE 0
  <2> DEFINE s == [p \in Players |-> match.sets[p] + IF set = p THEN 1 ELSE 0]
  <2>1. \A p \in Players : match.sets[p] + (IF set = p THEN 1 ELSE 0) \in 0..2
    BY <1>1
  <2>2. /\ s \in [Players -> 0..2]
        /\ \A p \in Players : s[p] = match.sets[p] + IF set = p THEN 1 ELSE 0
    BY <2>1
  <2> QED
    BY <2>2
<1>7. PICK winner \in 0..2 :
         /\ winner = Winner({p \in Players : sets[p] >= 2})
         /\ winner # NoPlayer => set # NoPlayer
         /\ \A p \in Players : sets[p] = 2 <=> winner = p
  <2> DEFINE won == {p \in Players : sets[p] >= 2}
  <2>1. \A p \in Players : p \in won <=> sets[p] = 2
    BY <1>6
  <2>2. \A p \in won : p = set /\ set # NoPlayer
    BY <1>1, <1>6, PlayerFacts
  <2> HIDE DEF won
  <2>3. won \in SUBSET Players
    BY DEF won
  <2>4. /\ Winner(won) \in 0..2
        /\ Winner(won) = NoPlayer <=> won = {}
        /\ Winner(won) # NoPlayer => Winner(won) \in won
    BY <2>3, WinnerOf
  <2>5. \A p \in Players : p \in won <=> Winner(won) = p
    BY <2>2, <2>3, <2>4, PlayerFacts
  <2> QED
    BY <2>1, <2>2, <2>4, <2>5 DEF won
<1>8. /\ points[player] <= MaxPoints /\ games[player] <= MaxGames
      /\ match' = [points |-> IF game = NoPlayer THEN points ELSE Zeros,
                   games |-> IF set = NoPlayer THEN games ELSE Zeros,
                   sets |-> sets,
                   justGame |-> IF set = NoPlayer THEN game ELSE NoPlayer,
                   justSet |-> IF winner = NoPlayer THEN set ELSE NoPlayer,
                   winner |-> winner]
  BY <1>2, <1>3, <1>4, <1>5, <1>6, <1>7 DEF PointWonBy
<1>9. /\ points \in [Players -> 0..MaxPoints] /\ games \in [Players -> 0..MaxGames]
      /\ Zeros \in [Players -> 0..MaxPoints] /\ Zeros \in [Players -> 0..MaxGames]
  <2>1. \A p \in Players : points[p] \in 0..MaxPoints /\ games[p] \in 0..MaxGames
    <3>1. \A p \in Players : p = player \/ p = Other(player)
      BY PlayerFacts
    <3>2. /\ points[player] \in 0..MaxPoints /\ games[player] \in 0..MaxGames
          /\ points[Other(player)] \in 0..MaxPoints /\ games[Other(player)] \in 0..MaxGames
      BY <1>1, <1>2, <1>4, <1>8, PlayerFacts, MatchAssumption
    <3> QED
      BY <3>1, <3>2
  <2> QED
    BY <2>1, MatchAssumption DEF Zeros
<1>10. MatchTypeOK'
  <2>1. NoPlayer \in 0..2
    BY DEF NoPlayer
  <2> QED
    BY <1>8, <1>9, <2>1 DEF MatchTypeOK
<1>11. NoLead(match'.points, 4) /\ NoLead(match'.games, 6)
  BY <1>3, <1>5, <1>8, ZerosType
<1>12. match'.justGame # NoPlayer => match'.points = Zeros /\ match'.games[match'.justGame] > 0
  <2> SUFFICES ASSUME set = NoPlayer, game # NoPlayer
               PROVE  match'.points = Zeros /\ match'.games[game] > 0
    BY <1>8
  <2>1. game = player /\ games[player] = match.games[player] + 1 /\ match.games[player] \in Nat
    BY <1>1, <1>3, <1>4
  <2>2. match'.games = games /\ match'.points = Zeros
    BY <1>8
  <2> QED
    BY <2>1, <2>2
<1>13. set # NoPlayer => game # NoPlayer
  <2> SUFFICES ASSUME set # NoPlayer, game = NoPlayer PROVE FALSE
    OBVIOUS
  <2>1. games = match.games
    BY <1>1, <1>4, PlayerFacts
  <2>2. \A p \in Players : ~WinsSet(games, p)
    <3>1. \A p \in Players : games[p] \in Nat /\ games[Other(p)] \in Nat
      BY PlayerFacts
    <3> QED
      BY <1>1, <2>1, <3>1 DEF NoLead, WinsSet
  <2>3. {p \in Players : WinsSet(games, p)} = {}
    BY <2>2
  <2> QED
    BY <1>5, <2>3, WinnerOf
<1>14. match'.justSet # NoPlayer =>
          match'.points = Zeros /\ match'.games = Zeros /\ match'.sets[match'.justSet] = 1
  <2> SUFFICES ASSUME winner = NoPlayer, set # NoPlayer
               PROVE  match'.points = Zeros /\ match'.games = Zeros /\ sets[set] = 1
    BY <1>8
  <2>1. set = player /\ sets[player] = match.sets[player] + 1 /\ sets[player] # 2
    BY <1>5, <1>6, <1>7, PlayerFacts
  <2>2. match.sets[player] \in {0, 1}
    BY <1>1
  <2> QED
    BY <1>8, <1>13, <2>1, <2>2
<1>15. match'.winner # NoPlayer => match'.points = Zeros /\ match'.games = Zeros
  BY <1>7, <1>8, <1>13
<1>16. \A p \in Players : match'.sets[p] = 2 <=> match'.winner = p
  BY <1>7, <1>8
<1> QED
  BY <1>10, <1>11, <1>12, <1>14, <1>15, <1>16 DEF MatchInv

LEMMA MatchInvariant ==
  MatchSpec => []MatchInv
<1>1. MatchInv /\ [MatchNext]_match => MatchInv'
  <2>1. ASSUME MatchInv, UNCHANGED match PROVE MatchInv'
    BY <2>1 DEF MatchInv, MatchTypeOK
  <2> QED
    BY <2>1, PointKeepsMatch DEF MatchNext
<1> QED
  BY <1>1, MatchStart, PTL DEF MatchSpec

LEMMA MatchHolds ==
  MatchInv => WinsAreTaken
<1> SUFFICES ASSUME MatchInv PROVE WinsAreTaken
  OBVIOUS
<1>1. /\ match.points \in [Players -> Nat] /\ match.games \in [Players -> Nat]
      /\ match.sets \in [Players -> 0..2] /\ match.justGame \in 0..2 /\ match.justSet \in 0..2
      /\ match.winner \in 0..2
  BY MatchAssumption DEF MatchInv, MatchTypeOK
<1>2. \A p \in Players :
         /\ match.points[p] >= 4 => match.points[p] - match.points[Other(p)] < 2
         /\ match.games[p] >= 6 => match.games[p] - match.games[Other(p)] < 2
         /\ match.sets[p] = 2 <=> match.winner = p
  BY DEF MatchInv, NoLead
<1>3. match.sets[1] + match.sets[2] <= 3
  <2>1. 1 \in Players /\ 2 \in Players
    BY PlayerFacts
  <2>2. match.sets[1] \in 0..2 /\ match.sets[2] \in 0..2 /\ ~(match.sets[1] = 2 /\ match.sets[2] = 2)
    BY <1>1, <1>2, <2>1
  <2> QED
    BY <2>2
<1> DEFINE State(p) == ScoreState(match.points, p)
           ahead == Winner({p \in Players : State(p) = "Advantage"})
<1>4. /\ match.winner # NoPlayer => Score = <<"Match", match.winner>>
      /\ match.winner = NoPlayer /\ match.justSet # NoPlayer => Score = <<"Set", match.justSet>>
      /\ match.winner = NoPlayer /\ match.justSet = NoPlayer =>
            /\ match.justGame # NoPlayer => Score = <<"Game", match.justGame>>
            /\ match.justGame = NoPlayer =>
                  /\ ahead # NoPlayer => Score = <<"Advantage", ahead>>
                  /\ ahead = NoPlayer /\ State(1) = "Deuce" => Score = <<"Deuce">>
                  /\ ahead = NoPlayer /\ State(1) # "Deuce" => Score = <<State(1), State(2)>>
  BY DEF Score
<1>5. /\ State(1) = "Deuce" <=> State(2) = "Deuce"
      /\ \A p \in Players : /\ State(p) # "Game"
                            /\ State(p) \in Words \cup {"Game", "Advantage", "Deuce"}
  <2>1. 1 \in Players /\ 2 \in Players /\ Other(1) = 2 /\ Other(2) = 1
    BY DEF Players, Other
  <2>2. ASSUME NEW p \in Players PROVE ~Leads(match.points, 4, p)
    <3>1. match.points[p] \in Nat /\ match.points[Other(p)] \in Nat
      BY <1>1, PlayerFacts
    <3> QED
      BY <1>2, <3>1 DEF Leads
  <2> QED
    BY <1>1, <2>1, <2>2, StateOf
<1>6. ahead = NoPlayer => \A p \in Players : State(p) # "Advantage"
  BY WinnerOf
<1> HIDE DEF ahead, State
<1>7. /\ "Match" \notin Words /\ "Set" \notin Words /\ "Game" \notin Words
      /\ "Advantage" \notin Words /\ "Deuce" \notin Words
  BY DEF Words
<1>8. 1 \in Players /\ 2 \in Players
  BY PlayerFacts
<1>9. CASE match.winner # NoPlayer
  <2>1. Score[1] = "Match" /\ match.points = Zeros /\ match.games = Zeros
    <3>1. Score = <<"Match", match.winner>>
      BY <1>4, <1>9
    <3> QED
      BY <1>9, <3>1 DEF MatchInv
  <2> QED
    BY <1>2, <1>3, <1>7, <2>1 DEF WinsAreTaken
<1>10. CASE match.winner = NoPlayer /\ match.justSet # NoPlayer
  <2>1. /\ Score[1] = "Set" /\ Score[2] = match.justSet
        /\ match.points = Zeros /\ match.games = Zeros /\ match.sets[match.justSet] = 1
    <3>1. Score = <<"Set", match.justSet>>
      BY <1>4, <1>10
    <3> QED
      BY <1>10, <3>1 DEF MatchInv
  <2> QED
    BY <1>2, <1>3, <1>7, <2>1 DEF WinsAreTaken
<1>11. CASE match.winner = NoPlayer /\ match.justSet = NoPlayer /\ match.justGame # NoPlayer
  <2>1. /\ Score[1] = "Game" /\ Score[2] = match.justGame
        /\ match.points = Zeros /\ match.games[match.justGame] > 0
    <3>1. Score = <<"Game", match.justGame>>
      BY <1>4, <1>11
    <3> QED
      BY <1>11, <3>1 DEF MatchInv
  <2> QED
    BY <1>2, <1>3, <1>7, <2>1 DEF WinsAreTaken
<1>12. CASE match.winner = NoPlayer /\ match.justSet = NoPlayer /\ match.justGame = NoPlayer
  <2>1. CASE ahead # NoPlayer
    <3>1. Score[1] = "Advantage"
      <4>1. Score = <<"Advantage", ahead>>
        BY <1>4, <1>12, <2>1
      <4> QED
        BY <4>1
    <3> QED
      BY <1>2, <1>3, <1>7, <3>1 DEF WinsAreTaken
  <2>2. CASE ahead = NoPlayer /\ State(1) = "Deuce"
    <3>1. Score[1] = "Deuce"
      <4>1. Score = <<"Deuce">>
        BY <1>4, <1>12, <2>2
      <4> QED
        BY <4>1
    <3> QED
      BY <1>2, <1>3, <1>7, <3>1 DEF WinsAreTaken
  <2>3. CASE ahead = NoPlayer /\ State(1) # "Deuce"
    <3>1. Score[1] = State(1) /\ Score[2] = State(2)
      <4>1. Score = <<State(1), State(2)>>
        BY <1>4, <1>12, <2>3
      <4> QED
        BY <4>1
    <3>2. State(1) \in Words /\ State(2) \in Words
      BY <1>5, <1>6, <1>8, <2>3
    <3> QED
      BY <1>2, <1>3, <1>7, <3>1, <3>2 DEF WinsAreTaken
  <2> QED
    BY <2>1, <2>2, <2>3
<1> QED
  BY <1>9, <1>10, <1>11, <1>12

-----------------------------------------------------------------------------
(***************************************************************************)
(* JellyTower: a round is a fold over the towers of the sets of healths    *)
(* that the shots before can have left. What every one of them keeps is    *)
(* shown by induction over the towers.                                     *)
(***************************************************************************)
Healths == [DOMAIN Jellies -> Nat]

\* A jelly is hurt only once every one before it is dead.
InOrder(h) ==
    \A i, j \in DOMAIN Jellies : i < j /\ h[j] # Jellies[j].health => ~JellyIsAlive(h, i)

ArenaInv == ArenaTypeOK /\ InOrder(health)

\* What a shot makes of the healths: nothing if all are dead, else the first
\* jelly alive loses one of the damages of the tower.
Hits(tower, h, g, m) ==
    /\ m \in DOMAIN Jellies /\ JellyIsAlive(h, m) /\ \A i \in 1..(m - 1) : ~JellyIsAlive(h, i)
    /\ \A j \in DOMAIN Jellies : j # m => g[j] = h[j]
    /\ \E damage \in Damages(tower, Jellies[m].color) :
          g[m] = IF h[m] >= damage THEN h[m] - damage ELSE 0

LEMMA DamageTypes ==
  ASSUME NEW tower \in TowerKinds, NEW color \in Colors
  PROVE  Damages(tower, color) \in SUBSET Nat
<1>1. tower.level \in {1, 2, 3, 4} /\ tower.color \in Colors
  BY DEF TowerKinds
<1>2. \A l \in {1, 2, 3, 4} :
         /\ OwnColor[l] \in SUBSET Nat /\ OtherColor[l] \in SUBSET Nat /\ BothColors[l] \in SUBSET Nat
  BY DEF OwnColor, OtherColor, BothColors
<1>3. \A c \in Colors : DamageRange(tower, c) \in SUBSET Nat
  BY <1>1, <1>2 DEF DamageRange
<1>4. "Blue" \in Colors /\ "Red" \in Colors
  BY DEF Colors
<1>5. ASSUME NEW b \in DamageRange(tower, "Blue"), NEW r \in DamageRange(tower, "Red")
      PROVE  Max({b, r}) \in Nat
  <2>1. b \in Nat /\ r \in Nat
    BY <1>3, <1>4
  <2> QED
    BY <2>1, MaxOfTwo
<1>6. CASE color = "BlueRed"
  <2>1. \A d \in Damages(tower, color) :
           \E b \in DamageRange(tower, "Blue"), r \in DamageRange(tower, "Red") : d = Max({b, r})
    <3> DEFINE Worse(b, r) == Max({b, r})
    <3>1. Damages(tower, color)
            = {Worse(b, r) : b \in DamageRange(tower, "Blue"), r \in DamageRange(tower, "Red")}
      BY <1>6 DEF Damages
    <3> HIDE DEF Worse
    <3>2. \A d \in Damages(tower, color) :
             \E b \in DamageRange(tower, "Blue"), r \in DamageRange(tower, "Red") : d = Worse(b, r)
      BY <3>1
    <3> QED
      BY <3>2 DEF Worse
  <2> QED
    BY <1>5, <2>1
<1>7. CASE color # "BlueRed"
  BY <1>3, <1>7 DEF Damages
<1> QED
  BY <1>6, <1>7

LEMMA ElementTypes ==
  ASSUME NEW S, NEW seq \in Seq(S)
  PROVE  Len(seq) \in Nat /\ DOMAIN seq = 1..Len(seq) /\ \A i \in DOMAIN seq : seq[i] \in S
  OBVIOUS

LEMMA JellyTypes ==
  ASSUME arena \in Arenas
  PROVE  /\ Len(Jellies) \in Nat /\ DOMAIN Jellies = 1..Len(Jellies)
         /\ \A j \in DOMAIN Jellies : Jellies[j].color \in Colors /\ Jellies[j].health \in Nat \ {0}
<1>1. Jellies \in Seq([color : Colors, health : Nat \ {0}])
  BY ArenaAssumption DEF Jellies, JellyKinds
<1>2. /\ Len(Jellies) \in Nat /\ DOMAIN Jellies = 1..Len(Jellies)
      /\ \A j \in DOMAIN Jellies : Jellies[j] \in [color : Colors, health : Nat \ {0}]
  BY <1>1, ElementTypes
<1> QED
  BY <1>2

LEMMA ArenaTypes ==
  ASSUME ArenaTypeOK
  PROVE  /\ Towers \in Seq(TowerKinds) /\ health \in Healths
         /\ Len(Jellies) \in Nat /\ DOMAIN Jellies = 1..Len(Jellies)
         /\ \A j \in DOMAIN Jellies : Jellies[j].color \in Colors /\ Jellies[j].health \in Nat \ {0}
<1>1. Towers \in Seq(TowerKinds)
  BY ArenaAssumption DEF ArenaTypeOK, Towers, TowerKinds
<1> QED
  BY <1>1, JellyTypes DEF ArenaTypeOK, Healths

LEMMA ShotHits ==
  ASSUME ArenaTypeOK, NEW tower \in TowerKinds, NEW h \in Healths, NEW g \in Shot(tower, h)
  PROVE  /\ g \in Healths /\ \A j \in DOMAIN Jellies : g[j] <= h[j]
         /\ \/ g = h /\ \A j \in DOMAIN Jellies : ~JellyIsAlive(h, j)
            \/ \E m \in DOMAIN Jellies : Hits(tower, h, g, m)
<1> DEFINE alive == {j \in DOMAIN Jellies : JellyIsAlive(h, j)}
<1>1. \A j \in DOMAIN Jellies : h[j] \in Nat
  BY DEF Healths
<1>2. CASE alive = {}
  <2>1. g = h
    BY <1>2 DEF Shot
  <2> QED
    BY <1>1, <1>2, <2>1
<1>3. CASE alive # {}
  <2> DEFINE m == Min(alive)
  <2>1. /\ m \in DOMAIN Jellies /\ JellyIsAlive(h, m) /\ m \in Nat
        /\ \A j \in DOMAIN Jellies : JellyIsAlive(h, j) => m <= j
    <3>1. alive \in SUBSET Nat
      BY ArenaTypes
    <3> HIDE DEF alive
    <3>2. Min(alive) \in alive /\ \A c \in alive : Min(alive) <= c
      BY <1>3, <3>1, MinOf
    <3> QED
      BY <3>1, <3>2 DEF alive
  <2>2. PICK damage \in Damages(tower, Jellies[m].color) : g = TakeDamage(h, m, damage)
    BY <1>3 DEF Shot
  <2> HIDE DEF m
  <2>3. damage \in Nat /\ h[m] \in Nat
    BY <1>1, <2>1, DamageTypes, ArenaTypes
  <2>4. Max({0, h[m] - damage}) = IF h[m] >= damage THEN h[m] - damage ELSE 0
    <3>1. Max({0, h[m] - damage}) = IF 0 >= h[m] - damage THEN 0 ELSE h[m] - damage
      BY <2>3, MaxOfTwo
    <3> QED
      BY <2>3, <3>1
  <2>5. /\ g[m] = IF h[m] >= damage THEN h[m] - damage ELSE 0
        /\ \A j \in DOMAIN Jellies : j # m => g[j] = h[j]
        /\ g \in Healths
    <3>1. g = [h EXCEPT ![m] = IF h[m] >= damage THEN h[m] - damage ELSE 0]
      BY <2>2, <2>4 DEF TakeDamage
    <3>2. (IF h[m] >= damage THEN h[m] - damage ELSE 0) \in Nat
      BY <2>3
    <3> QED
      BY <2>1, <3>1, <3>2 DEF Healths
  <2>6. \A j \in DOMAIN Jellies : g[j] <= h[j]
    BY <1>1, <2>3, <2>5
  <2>7. Hits(tower, h, g, m)
    <3>1. \A i \in 1..(m - 1) : ~JellyIsAlive(h, i)
      <4>1. \A i \in 1..(m - 1) : i \in DOMAIN Jellies /\ ~(m <= i)
        BY <2>1, ArenaTypes
      <4> QED
        BY <2>1, <4>1
    <3> QED
      BY <2>1, <2>5, <3>1 DEF Hits
  <2> QED
    BY <2>1, <2>5, <2>6, <2>7
<1> QED
  BY <1>2, <1>3

\* The shots of a tower as an operator on sets of healths.
Fire == [p \in (SUBSET Healths) \X TowerKinds |-> UNION {Shot(p[2], h) : h \in p[1]}]

LEMMA FireType ==
  ASSUME ArenaTypeOK
  PROVE  /\ Fire \in Operators(SUBSET Healths, TowerKinds) /\ {health} \in SUBSET Healths
         /\ \A hs \in SUBSET Healths, tower \in TowerKinds :
               Fire[<<hs, tower>>] = UNION {Shot(tower, h) : h \in hs}
<1>1. ASSUME NEW p \in (SUBSET Healths) \X TowerKinds
      PROVE  UNION {Shot(p[2], h) : h \in p[1]} \in SUBSET Healths
  <2>1. p[1] \in SUBSET Healths /\ p[2] \in TowerKinds
    OBVIOUS
  <2>2. \A h \in p[1] : Shot(p[2], h) \in SUBSET Healths
    BY <2>1, ShotHits
  <2> QED
    BY <2>2
<1>2. {health} \in SUBSET Healths
  BY ArenaTypes
<1> QED
  BY <1>1, <1>2 DEF Fire, Operators

\* What the towers of a list can leave.
After(towers) == FoldOf(Fire, {health}, towers)

LEMMA RoundIsFold ==
  ASSUME ArenaTypeOK
  PROVE  RoundOutcomes = After(Towers)
<1> DEFINE Loop(f) == f = [s \in SUBSET (DOMAIN Towers) |->
                              IF s = {} THEN {health}
                              ELSE UNION {Shot(Towers[Max(s)], h) : h \in f[s \ {Max(s)}]}]
<1>1. RoundOutcomes = (CHOOSE f : Loop(f))[DOMAIN Towers]
  BY DEF RoundOutcomes, FoldLeft, MapThenFoldSet
<1>2. /\ DOMAIN Towers = Places(Towers) /\ Len(Towers) \in Nat /\ Towers \in Seq(TowerKinds)
      /\ \A i \in Places(Towers) : Towers[i] \in TowerKinds
  <2>1. Towers \in Seq(TowerKinds)
    BY ArenaTypes
  <2> QED
    BY <2>1 DEF Places
<1>3. ASSUME NEW s \in SUBSET Places(Towers), s # {}
      PROVE  Max(s) \in Places(Towers) /\ s \ {Max(s)} \in SUBSET Places(Towers)
  BY <1>2, <1>3, MaxOf DEF Places
<1>4. PICK g \in Tables(SUBSET Healths, Towers) :
         /\ IsTable(g, Fire, {health}, Towers)
         /\ After(Towers) = g[Places(Towers)]
  <2>1. ASSUME NEW A, Fire \in Operators(A, TowerKinds), {health} \in A
        PROVE  \E g \in Tables(A, Towers) :
                  /\ IsTable(g, Fire, {health}, Towers)
                  /\ FoldOf(Fire, {health}, Towers) = g[Places(Towers)]
    BY <1>2, <2>1, FoldTable
  <2> QED
    BY <2>1, FireType DEF After
<1>5. Loop(g)
  <2>1. ASSUME NEW s \in SUBSET Places(Towers), s # {}
        PROVE  Fire[<<g[s \ {Max(s)}], Towers[Max(s)]>>]
                 = UNION {Shot(Towers[Max(s)], h) : h \in g[s \ {Max(s)}]}
    <3>1. g[s \ {Max(s)}] \in SUBSET Healths /\ Towers[Max(s)] \in TowerKinds
      BY <1>2, <1>3, <1>4, <2>1 DEF Tables
    <3> QED
      BY <3>1, FireType
  <2> QED
    BY <1>2, <1>4, <2>1 DEF IsTable
<1>6. ASSUME NEW f, Loop(f)
      PROVE  f = g
  <2>1. /\ f = [s \in SUBSET Places(Towers) |-> f[s]]
        /\ \A s \in SUBSET Places(Towers) :
              f[s] = IF s = {} THEN {health}
                     ELSE UNION {Shot(Towers[Max(s)], h) : h \in f[s \ {Max(s)}]}
    BY <1>2, <1>6
  <2> HIDE DEF Loop
  <2>2. f[{}] = {health}
    BY <2>1
  <2>3. ASSUME NEW s \in SUBSET Places(Towers), s # {}, f[s \ {Max(s)}] \in SUBSET Healths
        PROVE  f[s] = Fire[<<f[s \ {Max(s)}], Towers[Max(s)]>>]
    <3>1. Towers[Max(s)] \in TowerKinds
      BY <1>2, <1>3, <2>3
    <3> QED
      BY <2>1, <2>3, <3>1, FireType
  <2>4. Follows(f, SUBSET Healths, Fire, {health}, Towers)
    BY <2>1, <2>2, <2>3 DEF Follows
  <2> QED
    BY <1>2, <1>4, <2>4, FireType, TableReached
<1> HIDE DEF Loop
<1>7. (CHOOSE f : Loop(f)) = g
  BY <1>5, <1>6
<1> QED
  BY <1>1, <1>2, <1>4, <1>7

\* The first jelly alive when the round begins.
IsFront(f) ==
    f \in DOMAIN Jellies /\ JellyIsAlive(health, f) /\ \A i \in 1..(f - 1) : ~JellyIsAlive(health, i)

MustHit(tower, f) == 0 \notin Damages(tower, Jellies[f].color)

\* What holds of all healths that some towers can leave.
StillStanding(towers) ==
    \A h \in After(towers) :
        /\ h \in Healths /\ InOrder(h)
        /\ \A j \in DOMAIN Jellies : h[j] <= health[j]
        /\ \A f \in DOMAIN Jellies :
              IsFront(f) /\ (\E t \in DOMAIN towers : MustHit(towers[t], f)) => h[f] < health[f]

\* A shot keeps the order of the jellies.
LEMMA ShotInOrder ==
  ASSUME ArenaTypeOK, NEW tower \in TowerKinds, NEW h \in Healths, NEW g \in Shot(tower, h), InOrder(h)
  PROVE  InOrder(g)
<1>1. CASE g = h
  BY <1>1
<1>2. CASE \E m \in DOMAIN Jellies : Hits(tower, h, g, m)
  <2>1. PICK m \in DOMAIN Jellies : Hits(tower, h, g, m)
    BY <1>2
  <2> SUFFICES ASSUME NEW i \in DOMAIN Jellies, NEW j \in DOMAIN Jellies, i < j,
                      g[j] # Jellies[j].health
               PROVE  ~JellyIsAlive(g, i)
    BY DEF InOrder
  <2>2. m \in Nat /\ i \in Nat /\ j \in Nat /\ i >= 1
    BY ArenaTypes
  <2>3. CASE j = m
    <3>1. i \in 1..(m - 1) /\ i # m
      BY <2>2, <2>3
    <3> QED
      BY <2>1, <3>1 DEF Hits, JellyIsAlive
  <2>4. CASE j # m
    <3>1. g[j] = h[j]
      BY <2>1, <2>4 DEF Hits
    <3>2. ~JellyIsAlive(h, i)
      BY <3>1 DEF InOrder
    <3>3. i # m
      BY <2>1, <3>2 DEF Hits
    <3> QED
      BY <2>1, <3>2, <3>3 DEF Hits, JellyIsAlive
  <2> QED
    BY <2>3, <2>4
<1> QED
  BY <1>1, <1>2, ShotHits

LEMMA OneMoreTower ==
  ASSUME ArenaTypeOK, NEW towers \in Seq(TowerKinds), NEW tower \in TowerKinds, StillStanding(towers),
         After(towers) \in SUBSET Healths,
         After(Append(towers, tower)) = UNION {Shot(tower, h) : h \in After(towers)}
  PROVE  StillStanding(Append(towers, tower))
<1> DEFINE more == Append(towers, tower)
<1>1. \A t \in DOMAIN more : (t \in DOMAIN towers /\ more[t] = towers[t]) \/ more[t] = tower
  OBVIOUS
<1> HIDE DEF more
<1> SUFFICES ASSUME NEW g \in After(Append(towers, tower))
             PROVE  /\ g \in Healths /\ InOrder(g)
                    /\ \A j \in DOMAIN Jellies : g[j] <= health[j]
                    /\ \A f \in DOMAIN Jellies :
                          IsFront(f) /\ (\E t \in DOMAIN more : MustHit(more[t], f))
                             => g[f] < health[f]
  BY DEF StillStanding, more
<1>2. PICK h \in After(towers) : g \in Shot(tower, h)
  OBVIOUS
<1>3. /\ h \in Healths /\ InOrder(h) /\ health \in Healths
      /\ \A j \in DOMAIN Jellies : h[j] <= health[j]
      /\ \A f \in DOMAIN Jellies :
            IsFront(f) /\ (\E t \in DOMAIN towers : MustHit(towers[t], f)) => h[f] < health[f]
  BY <1>2, ArenaTypes DEF StillStanding
<1>4. /\ g \in Healths /\ \A j \in DOMAIN Jellies : g[j] <= h[j]
      /\ \/ g = h /\ \A j \in DOMAIN Jellies : ~JellyIsAlive(h, j)
         \/ \E m \in DOMAIN Jellies : Hits(tower, h, g, m)
  BY <1>2, <1>3, ShotHits
<1>5. InOrder(g)
  BY <1>2, <1>3, ShotInOrder
<1>6. \A j \in DOMAIN Jellies : g[j] \in Nat /\ h[j] \in Nat /\ health[j] \in Nat
  BY <1>3, <1>4 DEF Healths
<1>7. \A j \in DOMAIN Jellies : g[j] <= health[j]
  BY <1>3, <1>4, <1>6
<1>8. ASSUME NEW f \in DOMAIN Jellies, IsFront(f), MustHit(tower, f)
      PROVE  g[f] < health[f]
  <2>1. health[f] > 0 /\ f \in Nat
    BY <1>8, ArenaTypes DEF IsFront, JellyIsAlive
  <2>2. CASE ~JellyIsAlive(h, f)
    BY <1>4, <1>6, <2>1, <2>2 DEF JellyIsAlive
  <2>3. CASE JellyIsAlive(h, f)
    <3>1. PICK m \in DOMAIN Jellies : Hits(tower, h, g, m)
      BY <1>4, <2>3
    <3>2. \A i \in DOMAIN Jellies : i < f => ~JellyIsAlive(h, i)
      <4>1. \A i \in DOMAIN Jellies : i < f => i \in 1..(f - 1)
        BY <2>1, ArenaTypes
      <4> QED
        BY <1>3, <1>6, <1>8, <4>1 DEF IsFront, JellyIsAlive
    <3>3. m = f
      <4>1. m \in Nat /\ m >= 1 /\ f >= 1
        BY ArenaTypes
      <4>2. ~(m < f)
        BY <3>1, <3>2 DEF Hits
      <4>3. ~(f < m)
        <5>1. f < m => f \in 1..(m - 1)
          BY <2>1, <4>1
        <5> QED
          BY <2>3, <3>1, <5>1 DEF Hits
      <4> QED
        BY <2>1, <4>1, <4>2, <4>3
    <3>4. PICK damage \in Damages(tower, Jellies[f].color) :
             g[f] = IF h[f] >= damage THEN h[f] - damage ELSE 0
      BY <3>1, <3>3 DEF Hits
    <3>5. damage \in Nat /\ damage # 0
      BY <1>8, <3>4, DamageTypes, ArenaTypes DEF MustHit
    <3>6. g[f] < h[f]
      BY <1>6, <2>3, <3>4, <3>5 DEF JellyIsAlive
    <3> QED
      BY <1>3, <1>6, <3>6
  <2> QED
    BY <2>2, <2>3
<1>9. ASSUME NEW f \in DOMAIN Jellies, IsFront(f), NEW t \in DOMAIN towers, MustHit(towers[t], f)
      PROVE  g[f] < health[f]
  <2>1. h[f] < health[f] /\ g[f] <= h[f]
    BY <1>3, <1>4, <1>9
  <2> QED
    BY <1>6, <2>1
<1> QED
  BY <1>1, <1>4, <1>5, <1>7, <1>8, <1>9

\* One tower more fires at everything that the ones before it can leave.
LEMMA AfterOneMore ==
  ASSUME ArenaTypeOK
  PROVE  /\ After(<<>>) = {health}
         /\ \A towers \in Seq(TowerKinds) : After(towers) \in SUBSET Healths
         /\ \A towers \in Seq(TowerKinds), tower \in TowerKinds :
               After(Append(towers, tower)) = UNION {Shot(tower, h) : h \in After(towers)}
<1>1. ASSUME NEW A, NEW op \in Operators(A, TowerKinds), NEW base \in A
      PROVE  /\ FoldOf(op, base, <<>>) = base
             /\ \A towers \in Seq(TowerKinds) : FoldOf(op, base, towers) \in A
             /\ \A towers \in Seq(TowerKinds), tower \in TowerKinds :
                   FoldOf(op, base, Append(towers, tower)) = op[<<FoldOf(op, base, towers), tower>>]
  BY FoldEmpty, FoldType, FoldAppend
<1>2. PICK fire, start : fire = Fire /\ start = {health}
  OBVIOUS
<1>3. PICK A : A = SUBSET Healths
  OBVIOUS
<1>4. fire \in Operators(A, TowerKinds) /\ start \in A
  BY <1>2, <1>3, FireType
<1>5. /\ FoldOf(fire, start, <<>>) = start
      /\ \A towers \in Seq(TowerKinds) : FoldOf(fire, start, towers) \in A
      /\ \A towers \in Seq(TowerKinds), tower \in TowerKinds :
            FoldOf(fire, start, Append(towers, tower)) = fire[<<FoldOf(fire, start, towers), tower>>]
  BY <1>1, <1>4
<1>6. /\ After(<<>>) = {health}
      /\ \A towers \in Seq(TowerKinds) : After(towers) \in SUBSET Healths
      /\ \A towers \in Seq(TowerKinds), tower \in TowerKinds :
            After(Append(towers, tower)) = Fire[<<After(towers), tower>>]
  BY <1>2, <1>3, <1>5 DEF After
<1> QED
  BY <1>6, FireType

\* Every round keeps the order, and the front with a tower that cannot miss it
\* loses.
LEMMA RoundLeft ==
  ASSUME ArenaInv
  PROVE  StillStanding(Towers) /\ RoundOutcomes = After(Towers)
<1>1. /\ ArenaTypeOK /\ InOrder(health) /\ Towers \in Seq(TowerKinds) /\ health \in Healths
      /\ RoundOutcomes = After(Towers)
  BY ArenaTypes, RoundIsFold DEF ArenaInv
<1> DEFINE S == {towers \in Seq(TowerKinds) : StillStanding(towers)}
<1>3. <<>> \in S
  <2>1. After(<<>>) = {health}
    BY <1>1, AfterOneMore
  <2>2. \A j \in DOMAIN Jellies : health[j] \in Nat
    BY <1>1 DEF Healths
  <2>3. StillStanding(<<>>)
    BY <1>1, <2>1, <2>2 DEF StillStanding
  <2> QED
    BY <2>3
<1>4. ASSUME NEW towers \in Seq(TowerKinds), NEW tower \in TowerKinds, towers \in S
      PROVE  Append(towers, tower) \in S
  <2>1. After(towers) \in SUBSET Healths
    BY <1>1, AfterOneMore
  <2>2. After(Append(towers, tower)) = UNION {Shot(tower, h) : h \in After(towers)}
    BY <1>1, AfterOneMore
  <2>3. StillStanding(Append(towers, tower))
    BY <1>1, <1>4, <2>1, <2>2, OneMoreTower
  <2>4. Append(towers, tower) \in Seq(TowerKinds)
    OBVIOUS
  <2> QED
    BY <2>3, <2>4
<1> HIDE DEF S
<1>5. \A towers \in Seq(TowerKinds) : towers \in S
  BY <1>3, <1>4, SequenceInduction
<1> QED
  BY <1>1, <1>5 DEF S

LEMMA ArenaInvariant ==
  ArenaSpec => []ArenaInv
<1>1. ArenaInit => ArenaInv
  <2> SUFFICES ASSUME ArenaInit PROVE ArenaInv
    OBVIOUS
  <2>1. arena \in Arenas
    BY DEF ArenaInit
  <2>2. \A j \in DOMAIN Jellies : Jellies[j].health \in Nat
    BY <2>1, JellyTypes
  <2> QED
    BY <2>1, <2>2 DEF ArenaInit, ArenaInv, ArenaTypeOK, InOrder
<1>2. ASSUME ArenaInv, ExecuteRound PROVE ArenaInv'
  <2>1. arena' = arena /\ health' \in RoundOutcomes
    BY <1>2 DEF ExecuteRound
  <2>2. health' \in Healths /\ InOrder(health')
    BY <1>2, <2>1, RoundLeft DEF StillStanding
  <2>3. Jellies' = Jellies
    BY <2>1 DEF Jellies
  <2> QED
    BY <1>2, <2>1, <2>2, <2>3 DEF ArenaInv, ArenaTypeOK, Healths, InOrder, JellyIsAlive
<1>3. ASSUME ArenaInv, UNCHANGED arenaVars PROVE ArenaInv'
  BY <1>3 DEF ArenaInv, ArenaTypeOK, InOrder, JellyIsAlive, Jellies, arenaVars
<1>4. ArenaInv /\ [ArenaNext]_arenaVars => ArenaInv'
  BY <1>2, <1>3 DEF ArenaNext
<1> QED
  BY <1>1, <1>4, PTL DEF ArenaSpec

LEMMA ArenaHolds ==
  ArenaInv => FrontFallsFirst
<1> SUFFICES ASSUME ArenaInv PROVE FrontFallsFirst
  OBVIOUS
<1>1. \A i, j \in DOMAIN Jellies : i < j /\ ~Fresh(j) => ~JellyIsAlive(health, i)
  BY DEF ArenaInv, InOrder, Fresh
<1>2. ASSUME NEW front \in DOMAIN Jellies,
             JellyIsAlive(health, front), \A i \in 1..(front - 1) : ~JellyIsAlive(health, i),
             NEW t \in DOMAIN Towers, 0 \notin Damages(Towers[t], Jellies[front].color),
             NEW h \in RoundOutcomes
      PROVE  h[front] < health[front]
  <2>1. IsFront(front) /\ MustHit(Towers[t], front)
    BY <1>2 DEF IsFront, MustHit
  <2> QED
    BY <2>1, RoundLeft DEF StillStanding
<1> QED
  BY <1>1, <1>2 DEF FrontFallsFirst


\* A line of marks is the last mover's, and the other player has none: no
\* sequence of moves gives both a line (board.py:57-112).
THEOREM BoardsStayFair == BoardSpec => []LastMoveWins
  BY BoardInvariant, BoardHolds, PTL

\* A lead that wins a game or a set is taken in the step that makes it and the
\* counters below start afresh; the match is over with somebody's second set,
\* and a score names a win only right after it (match.py:44-127).
THEOREM WinsStayTaken == MatchSpec => []WinsAreTaken
  BY MatchInvariant, MatchHolds, PTL

\* Whatever the towers draw, jellies are hurt in their order, and a tower that
\* cannot miss the front hurts it (arena.py:25-37, jelly.py:27-34).
THEOREM JelliesFallInOrder == ArenaSpec => []FrontFallsFirst
  BY ArenaInvariant, ArenaHolds, PTL

\* All the games keep their promise, played side by side in any interleaving.
THEOREM GamesStayRight == GamesSpec => []GamesEndRightly
<1>1. GamesSpec => /\ []GoesOnWithLiving /\ []ScoreIsGrowth /\ []LastMoveWins
                   /\ []WinsAreTaken /\ []FrontFallsFirst
  BY GameGoesOn, SnakeWinsWhenFull, BoardsStayFair, WinsStayTaken, JelliesFallInOrder DEF GamesSpec
<1>2. /\ GoesOnWithLiving /\ ScoreIsGrowth /\ LastMoveWins /\ WinsAreTaken /\ FrontFallsFirst
         => GamesEndRightly
  BY DEF GamesEndRightly
<1> QED
  BY <1>1, <1>2, PTL

-----------------------------------------------------------------------------
(***************************************************************************)
(* Calculator: every key takes one mode to one mode. What makes the modes  *)
(* exclude each other is in the flags; what each shows has to be kept.     *)
(***************************************************************************)
CalcInv ==
    /\ CalcTypeOK
    /\ calc.hasRemembered <=> calc.evaluated
    /\ calc.reads = "error" => calc.inError
    /\ ~calc.inError => AtStart(calc) \/ Operand(calc) \/ Operator(calc) \/ Evaluated(calc)

LEMMA QuotientIsInt ==
  ASSUME NEW a \in Int, NEW b \in Int, b # 0
  PROVE  TruncDiv(a, b) \in Int
<1>1. Abs(a) \in Nat /\ Abs(b) \in Nat \ {0}
  BY DEF Abs
<1>2. \A m \in Nat, n \in Nat \ {0} : m \div n \in Int
  OBVIOUS
<1>3. PICK q \in Int : q = Abs(a) \div Abs(b)
  BY <1>1, <1>2
<1>4. TruncDiv(a, b) = (IF (a < 0) = (b < 0) THEN 1 ELSE -1) * q
  BY <1>3 DEF TruncDiv
<1> QED
  BY <1>4

LEMMA ResultIsInt ==
  ASSUME NEW a \in Int, NEW op \in OperatorKeys, NEW b \in Int, ~DividesByZero(op, b)
  PROVE  Apply(a, op, b) \in Int
<1>1. CASE op = "/"
  BY <1>1, QuotientIsInt DEF DividesByZero, Apply
<1>2. CASE op # "/"
  BY <1>2 DEF Apply, OperatorKeys
<1> QED
  BY <1>1, <1>2

\* The record of a calculator, field by field.
LEMMA CalcFields ==
  ASSUME CalcTypeOK
  PROVE  /\ calc.display \in Int /\ calc.left \in Int /\ calc.remembered \in Int
         /\ calc.pending \in OperatorKeys \cup {NoOperator}
         /\ NoOperator \notin OperatorKeys
  BY DEF CalcTypeOK, NoOperator, OperatorKeys

LEMMA CalcStart == CalcInit => CalcInv
  BY DEF CalcInit, Cleared, CalcInv, CalcTypeOK, AtStart, NoOperator

LEMMA DigitKeeps ==
  ASSUME CalcInv, NEW d \in Digits, PressDigit(d)
  PROVE  CalcInv'
<1>1. d \in Int /\ d >= 0
  BY CalculatorAssumption
<1>2. CASE calc.evaluated
  <2>1. calc' = [calc EXCEPT !.left = 0, !.pending = NoOperator, !.hasRemembered = FALSE,
                             !.display = d, !.entering = TRUE, !.evaluated = FALSE]
    BY <1>2 DEF PressDigit
  <2>2. CalcTypeOK'
    <3>1. PICK zero \in Int : zero = 0
      OBVIOUS
    <3>2. calc' = [calc EXCEPT !.left = zero, !.pending = NoOperator, !.hasRemembered = FALSE,
                               !.display = d, !.entering = TRUE, !.evaluated = FALSE]
      BY <2>1, <3>1
    <3> QED
      BY <1>1, <3>2 DEF CalcInv, CalcTypeOK
  <2>3. Operand(calc')
    BY <1>1, <2>1 DEF CalcInv, CalcTypeOK, Operand
  <2>4. (calc'.hasRemembered <=> calc'.evaluated) /\ (calc'.reads = "error" => calc'.inError)
    BY <2>1 DEF CalcInv, CalcTypeOK
  <2> QED
    BY <2>2, <2>3, <2>4 DEF CalcInv
<1>3. CASE ~calc.evaluated
  <2>1. calc' = [calc EXCEPT !.display = IF calc.entering THEN 10 * @ + d ELSE d, !.entering = TRUE]
    BY <1>3 DEF PressDigit
  <2>2. calc.entering => calc.display >= 0
    BY DEF CalcInv, PressDigit, AtStart, Operand, Operator, Evaluated
  <2>3. CalcTypeOK'
    <3>1. (IF calc.entering THEN 10 * calc.display + d ELSE d) \in Int
      BY <1>1, CalcFields DEF CalcInv
    <3> QED
      BY <2>1, <3>1 DEF CalcInv, CalcTypeOK
  <2>4. Operand(calc')
    BY <1>1, <1>3, <2>1, <2>2 DEF CalcInv, CalcTypeOK, Operand
  <2>5. (calc'.hasRemembered <=> calc'.evaluated) /\ (calc'.reads = "error" => calc'.inError)
    BY <2>1 DEF CalcInv, CalcTypeOK
  <2> QED
    BY <2>3, <2>4, <2>5 DEF CalcInv
<1> QED
  BY <1>2, <1>3

\* Every flag but those of the error stays when it is entered.
LEMMA ErrorKeeps ==
  ASSUME CalcInv, calc' = EnterError(calc)
  PROVE  CalcInv'
<1>1. calc' = [calc EXCEPT !.inError = TRUE, !.reads = "error"]
  BY DEF EnterError
<1>2. CalcTypeOK' /\ calc'.inError
  BY <1>1 DEF CalcInv, CalcTypeOK
<1>3. calc'.hasRemembered <=> calc'.evaluated
  BY <1>1 DEF CalcInv, CalcTypeOK
<1> QED
  BY <1>2, <1>3 DEF CalcInv

LEMMA OperatorKeeps ==
  ASSUME CalcInv, NEW op \in OperatorKeys, PressOperator(op)
  PROVE  CalcInv'
<1> DEFINE folds == calc.pending # NoOperator /\ calc.entering
           fails == folds /\ DividesByZero(calc.pending, calc.display)
           left == IF folds /\ ~fails THEN Apply(calc.left, calc.pending, calc.display) ELSE calc.display
<1>1. CASE calc' = EnterError(calc)
  BY <1>1, ErrorKeeps
<1>2. CASE calc' = [EnterError(calc) EXCEPT !.left = 0, !.display = 0, !.reads = "number"]
  <2>1. calc' = [calc EXCEPT !.inError = TRUE, !.reads = "number", !.left = 0, !.display = 0]
    BY <1>2 DEF EnterError, CalcInv, CalcTypeOK
  <2>2. CalcTypeOK' /\ calc'.inError
    <3>1. PICK zero \in Int : zero = 0
      OBVIOUS
    <3>2. calc' = [calc EXCEPT !.inError = TRUE, !.reads = "number", !.left = zero, !.display = zero]
      BY <2>1, <3>1
    <3> QED
      BY <3>2 DEF CalcInv, CalcTypeOK
  <2>3. calc'.hasRemembered <=> calc'.evaluated
    BY <2>1 DEF CalcInv, CalcTypeOK
  <2> QED
    BY <2>2, <2>3 DEF CalcInv
<1>3. CASE /\ calc' = [calc EXCEPT !.left = left, !.display = left, !.pending = op, !.entering = FALSE,
                                   !.evaluated = FALSE, !.hasRemembered = FALSE]
  <2>1. left \in Int
    <3>1. CASE folds /\ ~fails
      <4>1. Apply(calc.left, calc.pending, calc.display) \in Int
        BY <3>1, CalcFields, ResultIsInt DEF CalcInv
      <4> QED
        BY <3>1, <4>1
    <3>2. CASE ~(folds /\ ~fails)
      BY <3>2, CalcFields DEF CalcInv
    <3> QED
      BY <3>1, <3>2
  <2> HIDE DEF left
  <2>2. CalcTypeOK'
    BY <1>3, <2>1 DEF CalcInv, CalcTypeOK
  <2>3. Operator(calc')
    BY <1>3, <2>1, CalcFields DEF CalcInv, CalcTypeOK, Operator
  <2>4. (calc'.hasRemembered <=> calc'.evaluated) /\ (calc'.reads = "error" => calc'.inError)
    BY <1>3 DEF CalcInv, CalcTypeOK
  <2> QED
    BY <2>2, <2>3, <2>4 DEF CalcInv
<1> QED
  BY <1>1, <1>2, <1>3 DEF PressOperator

LEMMA EqualsKeeps ==
  ASSUME CalcInv, PressEquals
  PROVE  CalcInv'
<1> DEFINE right == IF calc.hasRemembered /\ ~calc.entering THEN calc.remembered ELSE calc.display
<1>1. right \in Int /\ calc.pending \in OperatorKeys /\ calc.pending # NoOperator
  BY CalcFields DEF CalcInv, PressEquals
<1>2. CASE DividesByZero(calc.pending, right)
  <2>1. calc' = EnterError(calc)
    BY <1>2 DEF PressEquals
  <2> QED
    BY <2>1, ErrorKeeps
<1>3. CASE ~DividesByZero(calc.pending, right)
  <2> DEFINE result == Apply(calc.left, calc.pending, right)
  <2>1. result \in Int
    BY <1>1, <1>3, CalcFields, ResultIsInt DEF CalcInv
  <2>2. calc' = [calc EXCEPT !.remembered = right, !.hasRemembered = TRUE, !.left = result,
                             !.display = result, !.entering = FALSE, !.evaluated = TRUE]
    BY <1>3 DEF PressEquals
  <2> HIDE DEF result, right
  <2>3. CalcTypeOK'
    BY <1>1, <2>1, <2>2 DEF CalcInv, CalcTypeOK
  <2>4. Evaluated(calc')
    BY <1>1, <2>1, <2>2 DEF CalcInv, CalcTypeOK, Evaluated
  <2>5. (calc'.hasRemembered <=> calc'.evaluated) /\ (calc'.reads = "error" => calc'.inError)
    BY <2>2 DEF CalcInv, CalcTypeOK
  <2> QED
    BY <2>3, <2>4, <2>5 DEF CalcInv
<1> QED
  BY <1>2, <1>3

LEMMA CalcInvariant == CalcSpec => []CalcInv
<1>1. ASSUME CalcInv, CalcNext PROVE CalcInv'
  <2>1. CASE PressClear
    BY <2>1 DEF PressClear, Cleared, CalcInv, CalcTypeOK, AtStart, NoOperator
  <2> QED
    BY <1>1, <2>1, DigitKeeps, OperatorKeeps, EqualsKeeps DEF CalcNext
<1>2. CalcInv /\ UNCHANGED calc => CalcInv'
  BY DEF CalcInv, CalcTypeOK, AtStart, Operand, Operator, Evaluated
<1> QED
  BY CalcStart, <1>1, <1>2, PTL DEF CalcSpec

\* The flags exclude each other, so one mode is exactly one.
LEMMA CalcHolds == CalcInv => FlagsAreOneMode
<1> SUFFICES ASSUME CalcInv, ~calc.inError
             PROVE  Cardinality({m \in 1..4 :
                       <<AtStart(calc), Operand(calc), Operator(calc), Evaluated(calc)>>[m]}) = 1
  BY DEF CalcInv, FlagsAreOneMode
<1> DEFINE modes == <<AtStart(calc), Operand(calc), Operator(calc), Evaluated(calc)>>
           On == {m \in 1..4 : modes[m]}
<1>1. /\ modes[1] = AtStart(calc) /\ modes[2] = Operand(calc)
      /\ modes[3] = Operator(calc) /\ modes[4] = Evaluated(calc)
  OBVIOUS
<1> HIDE DEF modes
<1>2. \E m \in 1..4 : On = {m}
  <2>1. 1..4 = {1, 2, 3, 4}
    OBVIOUS
  <2>2. CASE AtStart(calc)
    <3>1. ~Operand(calc) /\ ~Operator(calc) /\ ~Evaluated(calc)
      BY <2>2 DEF AtStart, Operand, Operator, Evaluated
    <3>2. On = {1}
      BY <1>1, <2>1, <2>2, <3>1
    <3> QED
      BY <3>2
  <2>3. CASE Operand(calc)
    <3>1. ~AtStart(calc) /\ ~Operator(calc) /\ ~Evaluated(calc)
      BY <2>3 DEF AtStart, Operand, Operator, Evaluated
    <3>2. On = {2}
      BY <1>1, <2>1, <2>3, <3>1
    <3> QED
      BY <3>2
  <2>4. CASE Operator(calc)
    <3>1. ~AtStart(calc) /\ ~Operand(calc) /\ ~Evaluated(calc)
      BY <2>4 DEF AtStart, Operand, Operator, Evaluated
    <3>2. On = {3}
      BY <1>1, <2>1, <2>4, <3>1
    <3> QED
      BY <3>2
  <2>5. CASE Evaluated(calc)
    <3>1. ~AtStart(calc) /\ ~Operand(calc) /\ ~Operator(calc)
      BY <2>5 DEF AtStart, Operand, Operator, Evaluated
    <3>2. On = {4}
      BY <1>1, <2>1, <2>5, <3>1
    <3> QED
      BY <3>2
  <2> QED
    BY <2>2, <2>3, <2>4, <2>5 DEF CalcInv
<1>3. Cardinality(On) = 1
  BY <1>2, FS_Singleton
<1> QED
  BY <1>3 DEF modes

-----------------------------------------------------------------------------
(***************************************************************************)
(* MockFramework: what a call heard from the stubs there were stays what   *)
(* they said, since a stub set up later is known by its time.              *)
(***************************************************************************)
\* A call, the i-th, that got an answer from these stubs.
Heard(stubs, call, i, answer) ==
    \/ \E k \in DOMAIN stubs : stubs[k].args = call.args /\ stubs[k].since < i /\ stubs[k].result = answer
    \/ answer = NoResult /\ \A k \in DOMAIN stubs : stubs[k].args = call.args => ~(stubs[k].since < i)

MockInv ==
    /\ MockTypeOK
    /\ \A i \in DOMAIN answers : Heard(mock.stubs[mock.calls[i].method], mock.calls[i], i, answers[i])
    /\ \A m \in Methods : \A k \in DOMAIN mock.stubs[m] : mock.stubs[m][k].since <= Len(mock.calls)

LEMMA MockTypes ==
  ASSUME MockTypeOK
  PROVE  /\ mock.calls \in Seq(Calls) /\ answers \in Seq(Results \cup {NoResult})
         /\ Len(answers) \in Nat /\ DOMAIN answers = 1..Len(answers)
         /\ DOMAIN mock.calls = 1..Len(answers)
         /\ \A i \in DOMAIN answers : mock.calls[i] \in Calls /\ answers[i] \in Results \cup {NoResult}
         /\ \A m \in Methods : mock.stubs[m] \in Seq(Stubs)
<1>1. mock.calls \in Seq(Calls) /\ answers \in Seq(Results \cup {NoResult}) /\ Len(answers) = Len(mock.calls)
  BY DEF MockTypeOK
<1>2. /\ Len(answers) \in Nat /\ DOMAIN answers = 1..Len(answers)
      /\ DOMAIN mock.calls = 1..Len(mock.calls)
      /\ \A i \in DOMAIN answers : answers[i] \in Results \cup {NoResult}
      /\ \A i \in DOMAIN mock.calls : mock.calls[i] \in Calls
  BY <1>1
<1>3. \A m \in Methods : mock.stubs[m] \in Seq(Stubs)
  BY DEF MockTypeOK
<1> QED
  BY <1>1, <1>2, <1>3

\* An answer is that of a stub there is, or none when there is none.
LEMMA AnswerIsHeard ==
  ASSUME MockInv, NEW call \in Calls
  PROVE  /\ Answer(call) \in Results \cup {NoResult}
         /\ Heard(mock.stubs[call.method], call, Len(mock.calls) + 1, Answer(call))
<1>1. PICK stubs \in Seq(Stubs) : stubs = mock.stubs[call.method]
  BY MockTypes DEF MockInv, Calls
<1>2. DOMAIN stubs = 1..Len(stubs) /\ Len(stubs) \in Nat /\ \A k \in DOMAIN stubs : stubs[k] \in Stubs
  BY <1>1
<1>3. \A k \in DOMAIN stubs : stubs[k].since \in Nat /\ stubs[k].since < Len(mock.calls) + 1
  <2>1. \A k \in DOMAIN stubs : stubs[k].since <= Len(mock.calls)
    BY <1>1 DEF MockInv, Calls
  <2>2. Len(mock.calls) \in Nat
    BY DEF MockInv, MockTypeOK
  <2> QED
    BY <1>2, <2>1, <2>2 DEF Stubs
<1>4. PICK matching : matching = {k \in DOMAIN stubs : stubs[k].args = call.args}
  OBVIOUS
<1>5. Answer(call) = IF matching = {} THEN NoResult ELSE stubs[Min(matching)].result
  BY <1>1, <1>4 DEF Answer, Matching, StubsOf
<1>6. CASE matching = {}
  <2>1. Answer(call) = NoResult /\ \A k \in DOMAIN stubs : stubs[k].args # call.args
    BY <1>4, <1>5, <1>6
  <2> QED
    BY <1>1, <2>1 DEF Heard
<1>7. CASE matching # {}
  <2>1. matching \in SUBSET Nat
    BY <1>2, <1>4
  <2>2. PICK first \in matching : first = Min(matching)
    BY <1>7, <2>1, MinOf
  <2>3. Answer(call) = stubs[first].result /\ first \in DOMAIN stubs /\ stubs[first].args = call.args
    BY <1>4, <1>5, <1>7, <2>2
  <2>4. Answer(call) \in Results
    BY <1>2, <2>3 DEF Stubs
  <2> QED
    BY <1>1, <1>3, <2>3, <2>4 DEF Heard
<1> QED
  BY <1>6, <1>7

\* A stub set up later changes nothing that was heard.
LEMMA LaterStub ==
  ASSUME NEW stubs \in Seq(Stubs), NEW stub \in Stubs, NEW call, NEW answer, NEW i \in Nat,
         i <= stub.since, Heard(stubs, call, i, answer)
  PROVE  Heard(Append(stubs, stub), call, i, answer)
<1>1. PICK more : more = Append(stubs, stub)
  OBVIOUS
<1>2. /\ Len(stubs) \in Nat /\ DOMAIN stubs = 1..Len(stubs) /\ DOMAIN more = 1..(Len(stubs) + 1)
      /\ \A k \in DOMAIN stubs : more[k] = stubs[k]
      /\ more[Len(stubs) + 1] = stub
  BY <1>1
<1>3. stub.since \in Nat /\ ~(stub.since < i)
  BY DEF Stubs
<1>4. DOMAIN stubs \subseteq DOMAIN more /\ \A k \in DOMAIN more : k \in DOMAIN stubs \/ more[k] = stub
  BY <1>2
<1>5. ASSUME NEW k \in DOMAIN stubs,
             stubs[k].args = call.args /\ stubs[k].since < i /\ stubs[k].result = answer
      PROVE  Heard(more, call, i, answer)
  BY <1>2, <1>4, <1>5 DEF Heard
<1>6. ASSUME answer = NoResult, \A k \in DOMAIN stubs : stubs[k].args = call.args => ~(stubs[k].since < i)
      PROVE  Heard(more, call, i, answer)
  BY <1>2, <1>3, <1>4, <1>6 DEF Heard
<1> QED
  BY <1>1, <1>5, <1>6 DEF Heard

LEMMA CallKeeps ==
  ASSUME MockInv, NEW call \in Calls, MethodProxy(call)
  PROVE  MockInv'
<1>1. PICK n : n = Len(answers)
  OBVIOUS
<1>2. /\ mock' = [mock EXCEPT !.calls = Append(@, call)] /\ answers' = Append(answers, Answer(call))
      /\ mock \in [calls : Seq(Calls), stubs : [Methods -> Seq(Stubs)]]
      /\ Len(mock.calls) = n /\ n \in Nat /\ answers \in Seq(Results \cup {NoResult})
      /\ mock.calls \in Seq(Calls) /\ DOMAIN answers = 1..n /\ DOMAIN mock.calls = 1..n
  BY <1>1, MockTypes DEF MethodProxy, MockInv, MockTypeOK
<1>3. mock'.stubs = mock.stubs /\ mock'.calls = Append(mock.calls, call)
  BY <1>2
<1>4. PICK result \in Results \cup {NoResult} :
           result = Answer(call) /\ Heard(mock.stubs[call.method], call, n + 1, result)
  BY <1>2, AnswerIsHeard
<1>5. /\ answers' \in Seq(Results \cup {NoResult}) /\ Len(answers') = n + 1 /\ DOMAIN answers' = 1..(n + 1)
      /\ answers'[n + 1] = result /\ \A i \in 1..n : answers'[i] = answers[i]
  BY <1>1, <1>2, <1>4
<1>6. /\ mock'.calls \in Seq(Calls) /\ Len(mock'.calls) = n + 1
      /\ mock'.calls[n + 1] = call /\ \A i \in 1..n : mock'.calls[i] = mock.calls[i]
  BY <1>2, <1>3
<1>7. MockTypeOK'
  <2>1. mock' \in [calls : Seq(Calls), stubs : [Methods -> Seq(Stubs)]]
    <3>1. PICK longer \in Seq(Calls) : longer = Append(mock.calls, call)
      BY <1>3, <1>6
    <3>2. mock' = [mock EXCEPT !.calls = longer]
      BY <1>2, <3>1
    <3> QED
      BY <1>2, <3>2
  <2> QED
    BY <1>5, <1>6, <2>1 DEF MockTypeOK
<1>8. ASSUME NEW i \in DOMAIN answers'
      PROVE  Heard(mock'.stubs[mock'.calls[i].method], mock'.calls[i], i, answers'[i])
  <2>1. CASE i \in 1..n
    <3>1. Heard(mock.stubs[mock.calls[i].method], mock.calls[i], i, answers[i])
      BY <1>2, <2>1 DEF MockInv
    <3> QED
      BY <1>3, <1>5, <1>6, <2>1, <3>1
  <2>2. CASE i = n + 1
    BY <1>3, <1>4, <1>5, <1>6, <2>2
  <2> QED
    BY <1>2, <1>5, <2>1, <2>2
<1>9. ASSUME NEW m \in Methods, NEW k \in DOMAIN mock'.stubs[m]
      PROVE  mock'.stubs[m][k].since <= Len(mock'.calls)
  <2>1. mock.stubs[m] \in Seq(Stubs) /\ k \in DOMAIN mock.stubs[m]
    BY <1>2, <1>3, <1>9
  <2>2. mock.stubs[m][k].since \in Nat
    <3>1. mock.stubs[m][k] \in Stubs
      BY <2>1
    <3> QED
      BY <3>1 DEF Stubs
  <2>3. mock.stubs[m][k].since <= n
    BY <1>2, <2>1 DEF MockInv
  <2> QED
    BY <1>2, <1>3, <1>6, <2>2, <2>3
<1> QED
  BY <1>7, <1>8, <1>9 DEF MockInv

LEMMA StubKeeps ==
  ASSUME MockInv, NEW call \in Calls, NEW result \in Results, ThenReturn(call, result)
  PROVE  MockInv'
<1>1. PICK stub : stub = [args |-> call.args, result |-> result, since |-> Len(mock.calls)]
  OBVIOUS
<1>2. /\ call.method \in Methods /\ stub \in Stubs /\ stub.since = Len(mock.calls)
      /\ Len(mock.calls) \in Nat
  <2>1. Len(mock.calls) \in Nat
    BY DEF MockInv, MockTypeOK
  <2> QED
    BY <1>1, <2>1 DEF Calls, Stubs
<1>3. /\ mock \in [calls : Seq(Calls), stubs : [Methods -> Seq(Stubs)]]
      /\ mock' = [mock EXCEPT !.stubs[call.method] = Append(@, stub)] /\ answers' = answers
  BY <1>1 DEF ThenReturn, MockInv, MockTypeOK
<1>4. PICK longer \in Seq(Stubs) : longer = Append(mock.stubs[call.method], stub)
  <2>1. mock.stubs[call.method] \in Seq(Stubs)
    BY <1>2, <1>3
  <2>2. Append(mock.stubs[call.method], stub) \in Seq(Stubs)
    BY <1>2, <2>1
  <2> QED
    BY <2>2
<1>5. /\ mock'.calls = mock.calls
      /\ mock'.stubs = [mock.stubs EXCEPT ![call.method] = longer]
  BY <1>3, <1>4
<1>6. MockTypeOK'
  <2>1. mock' = [mock EXCEPT !.stubs = [mock.stubs EXCEPT ![call.method] = longer]]
    BY <1>3, <1>4
  <2>2. [mock.stubs EXCEPT ![call.method] = longer] \in [Methods -> Seq(Stubs)]
    BY <1>2, <1>3
  <2>3. mock' \in [calls : Seq(Calls), stubs : [Methods -> Seq(Stubs)]]
    BY <1>3, <2>1, <2>2
  <2> QED
    BY <1>3, <1>5, <2>3 DEF MockInv, MockTypeOK
<1>7. \A m \in Methods : mock'.stubs[m] = IF m = call.method THEN longer ELSE mock.stubs[m]
  BY <1>2, <1>3, <1>5
<1>8. ASSUME NEW i \in DOMAIN answers
      PROVE  Heard(mock'.stubs[mock.calls[i].method], mock.calls[i], i, answers[i])
  <2>1. mock.calls[i].method \in Methods /\ i \in Nat /\ i <= Len(mock.calls)
    BY MockTypes DEF MockInv, MockTypeOK, Calls
  <2>2. Heard(mock.stubs[mock.calls[i].method], mock.calls[i], i, answers[i])
    BY <1>8 DEF MockInv
  <2>3. CASE mock.calls[i].method = call.method
    <3>1. PICK stubs \in Seq(Stubs) : stubs = mock.stubs[call.method]
      BY <1>2, <1>3
    <3>2. Heard(Append(stubs, stub), mock.calls[i], i, answers[i])
      BY <1>2, <2>1, <2>2, <2>3, <3>1, LaterStub
    <3> QED
      BY <1>4, <1>7, <2>1, <2>3, <3>1, <3>2
  <2>4. CASE mock.calls[i].method # call.method
    BY <1>7, <2>1, <2>2, <2>4
  <2> QED
    BY <2>3, <2>4
<1>9. ASSUME NEW m \in Methods, NEW k \in DOMAIN mock'.stubs[m]
      PROVE  mock'.stubs[m][k].since <= Len(mock'.calls)
  <2>1. CASE m # call.method
    BY <1>5, <1>7, <1>9, <2>1 DEF MockInv
  <2>2. CASE m = call.method
    <3>1. PICK stubs \in Seq(Stubs) : stubs = mock.stubs[call.method]
      BY <1>2, <1>3
    <3>2. /\ longer = Append(stubs, stub) /\ mock'.stubs[m] = longer
          /\ k \in DOMAIN stubs \/ longer[k] = stub
          /\ k \in DOMAIN stubs => longer[k] = stubs[k]
      <4>1. longer = Append(stubs, stub) /\ mock'.stubs[m] = longer
        <5>1. longer = Append(stubs, stub)
          BY <1>4, <3>1
        <5>2. mock'.stubs[m] = longer
          BY <1>7, <2>2
        <5> QED
          BY <5>1, <5>2
      <4>2. \A j \in DOMAIN longer : /\ j \in DOMAIN stubs \/ longer[j] = stub
                                     /\ j \in DOMAIN stubs => longer[j] = stubs[j]
        BY <4>1
      <4> QED
        BY <1>9, <4>1, <4>2
    <3>3. k \in DOMAIN stubs => stubs[k].since <= Len(mock.calls)
      BY <1>2, <3>1 DEF MockInv
    <3> QED
      BY <1>2, <1>5, <3>2, <3>3
  <2> QED
    BY <2>1, <2>2
<1>10. \A i \in DOMAIN answers' :
          Heard(mock'.stubs[mock'.calls[i].method], mock'.calls[i], i, answers'[i])
  BY <1>3, <1>5, <1>8
<1> QED
  BY <1>6, <1>9, <1>10 DEF MockInv

LEMMA MockInvariant == MockSpec => []MockInv
<1>1. MockInit => MockInv
  BY DEF MockInit, MockInv, MockTypeOK
<1>2. ASSUME MockInv, MockNext PROVE MockInv'
  BY <1>2, CallKeeps, StubKeeps DEF MockNext
<1>3. MockInv /\ UNCHANGED mockVars => MockInv'
  BY DEF MockInv, MockTypeOK, mockVars
<1> QED
  BY <1>1, <1>2, <1>3, PTL DEF MockSpec

LEMMA MockHolds == MockInv => AnswersStand
<1>0. ASSUME MockInv, NEW i \in DOMAIN answers
      PROVE  \/ answers[i] \in ResultsFor(i)
             \/ answers[i] = NoResult /\ ResultsFor(i) = {}
  <2>1. PICK stubs, call : stubs = mock.stubs[mock.calls[i].method] /\ call = mock.calls[i]
    OBVIOUS
  <2>2. Heard(stubs, call, i, answers[i])
    BY <1>0, <2>1 DEF MockInv
  <2>3. ResultsFor(i) = {stubs[k].result :
            k \in {j \in DOMAIN stubs : stubs[j].args = call.args /\ stubs[j].since < i}}
    BY <2>1 DEF ResultsFor, StubsOf
  <2>4. CASE \E k \in DOMAIN stubs :
                stubs[k].args = call.args /\ stubs[k].since < i /\ stubs[k].result = answers[i]
    BY <2>3, <2>4
  <2>5. CASE /\ answers[i] = NoResult
             /\ \A k \in DOMAIN stubs : stubs[k].args = call.args => ~(stubs[k].since < i)
    BY <2>3, <2>5
  <2> QED
    BY <2>2, <2>4, <2>5 DEF Heard
<1> SUFFICES ASSUME MockInv, NEW m \in Methods
             PROVE  /\ WasCalled(m) <=> ~WasCalledTimes(m, 0)
                    /\ WasCalled(m) <=> \E args \in Arguments : WasCalledWith([method |-> m, args |-> args])
  BY <1>0 DEF AnswersStand
<1>1. /\ \A i \in DOMAIN mock.calls : mock.calls[i] \in Calls
      /\ IsFiniteSet(DOMAIN mock.calls)
  BY MockTypes, FS_Interval DEF MockInv
<1>2. CallsOf(m) \subseteq DOMAIN mock.calls /\ (WasCalled(m) <=> CallsOf(m) # {})
  BY DEF CallsOf, WasCalled
<1>3. WasCalled(m) <=> ~WasCalledTimes(m, 0)
  <2>1. IsFiniteSet(CallsOf(m))
    BY <1>1, <1>2, FS_Subset
  <2> QED
    BY <1>2, <2>1, FS_EmptySet DEF WasCalledTimes
<1>4. ASSUME CallsOf(m) # {}
      PROVE  \E args \in Arguments : WasCalledWith([method |-> m, args |-> args])
  <2>1. PICK i \in CallsOf(m) : TRUE
    BY <1>4
  <2>2. mock.calls[i].args \in Arguments
    BY <1>1, <1>2, <2>1 DEF Calls
  <2>3. WasCalledWith([method |-> m, args |-> mock.calls[i].args])
    BY <2>1 DEF WasCalledWith
  <2> QED
    BY <2>2, <2>3
<1>5. \A args \in Arguments : WasCalledWith([method |-> m, args |-> args]) => CallsOf(m) # {}
  BY DEF WasCalledWith
<1> QED
  BY <1>2, <1>3, <1>4, <1>5

-----------------------------------------------------------------------------
(***************************************************************************)
(* MarsRover: a move and its opposite cancel, because the cell a rover     *)
(* left is free; and a rover that was stopped stays so.                    *)
(***************************************************************************)
Asked == Commands \cup {"?"}
Rovers == [position : Grid, heading : Headings, status : {"Moving", "Blocked"},
           lastObstacle : {{}} \cup {{cell} : cell \in Grid}]

\* The rovers a command can make of one.
Facing(r, h) == [r EXCEPT !.heading = h]
At(r, cell) == [r EXCEPT !.position = cell]
Halted(r, cell) == [r EXCEPT !.status = "Blocked", !.lastObstacle = {cell}]

\* Obey, of a grid with these obstacles.
Obeyed(cells, r, command) ==
    IF r.status = "Blocked" THEN r
    ELSE CASE command = "L" -> [r EXCEPT !.heading = LeftOf[@]]
           [] command = "R" -> [r EXCEPT !.heading = RightOf[@]]
           [] OTHER ->
                LET next == Ahead(r, IF command = "F" THEN 1 ELSE -1)
                IN  IF next \in cells THEN [r EXCEPT !.status = "Blocked", !.lastObstacle = {next}]
                    ELSE [r EXCEPT !.position = next]

Moves(cells) == [p \in Rovers \X Asked |-> Obeyed(cells, p[1], p[2])]

Driven(cells, r, commands) == FoldOf(Moves(cells), r, commands)

\* Where a rover may be, and what it says of obstacles.
Sound(cells, r) ==
    /\ r.position \notin cells
    /\ r.status = "Blocked" <=> r.lastObstacle # {}
    /\ r.lastObstacle \subseteq cells \cap {Ahead(r, 1), Ahead(r, -1)}

LEMMA AheadType ==
  ASSUME NEW r \in Rovers, NEW sign \in {1, -1}
  PROVE  Ahead(r, sign) \in Grid
<1>1. /\ r.position[1] \in Int /\ r.position[2] \in Int /\ r.heading \in Headings
      /\ GridWidth \in Nat \ {0} /\ GridHeight \in Nat \ {0}
  BY RoverAssumption DEF Rovers, Grid
<1>2. \A h \in Headings : sign * StepOf[h][1] \in Int /\ sign * StepOf[h][2] \in Int
  BY DEF Headings, StepOf
<1>3. PICK a \in Int, b \in Int : a = sign * StepOf[r.heading][1] /\ b = sign * StepOf[r.heading][2]
  BY <1>1, <1>2
<1>4. /\ (r.position[1] + a) % GridWidth \in 0..(GridWidth - 1)
      /\ (r.position[2] + b) % GridHeight \in 0..(GridHeight - 1)
  BY <1>1
<1> QED
  BY <1>3, <1>4 DEF Ahead, Grid

LEMMA RoverFields ==
  ASSUME NEW r \in Rovers
  PROVE  /\ r.position \in Grid /\ r.heading \in Headings /\ r.status \in {"Moving", "Blocked"}
         /\ \A h \in Headings :
               /\ Facing(r, h) \in Rovers /\ Facing(r, h).heading = h
               /\ Facing(r, h).position = r.position /\ Facing(r, h).status = r.status
               /\ Facing(r, h).lastObstacle = r.lastObstacle
               /\ Facing(Facing(r, h), r.heading) = r
         /\ \A c \in Grid :
               /\ At(r, c) \in Rovers /\ At(r, c).position = c
               /\ At(r, c).heading = r.heading /\ At(r, c).status = r.status
               /\ At(r, c).lastObstacle = r.lastObstacle
               /\ At(At(r, c), r.position) = r
         /\ \A c \in Grid :
               /\ Halted(r, c) \in Rovers /\ Halted(r, c).status = "Blocked"
               /\ Halted(r, c).lastObstacle = {c}
               /\ Halted(r, c).position = r.position /\ Halted(r, c).heading = r.heading
<1>1. r.position \in Grid /\ r.heading \in Headings /\ r.status \in {"Moving", "Blocked"}
  BY DEF Rovers
<1>2. ASSUME NEW h \in Headings
      PROVE  /\ Facing(r, h) \in Rovers /\ Facing(r, h).heading = h
             /\ Facing(r, h).position = r.position /\ Facing(r, h).status = r.status
             /\ Facing(r, h).lastObstacle = r.lastObstacle
             /\ Facing(Facing(r, h), r.heading) = r
  BY DEF Rovers, Facing
<1>3. ASSUME NEW c \in Grid
      PROVE  /\ At(r, c) \in Rovers /\ At(r, c).position = c
             /\ At(r, c).heading = r.heading /\ At(r, c).status = r.status
             /\ At(r, c).lastObstacle = r.lastObstacle
             /\ At(At(r, c), r.position) = r
  BY DEF Rovers, At
<1>4. ASSUME NEW c \in Grid
      PROVE  /\ Halted(r, c) \in Rovers /\ Halted(r, c).status = "Blocked"
             /\ Halted(r, c).lastObstacle = {c}
             /\ Halted(r, c).position = r.position /\ Halted(r, c).heading = r.heading
  BY DEF Rovers, Halted
<1> QED
  BY <1>1, <1>2, <1>3, <1>4

LEMMA Turns ==
  \A h \in Headings : /\ LeftOf[h] \in Headings /\ RightOf[h] \in Headings
                      /\ LeftOf[RightOf[h]] = h /\ RightOf[LeftOf[h]] = h
BY DEF Headings, LeftOf, RightOf

\* One command: what kinds of step there are.
LEMMA MovedCases ==
  ASSUME NEW cells, NEW r \in Rovers, NEW command \in Asked, r.status # "Blocked"
  PROVE  /\ command = "L" => Obeyed(cells, r, command) = Facing(r, LeftOf[r.heading])
         /\ command = "R" => Obeyed(cells, r, command) = Facing(r, RightOf[r.heading])
         /\ command \notin {"L", "R"} =>
              \E sign \in {1, -1} :
                 /\ command = "F" => sign = 1
                 /\ command # "F" => sign = -1
                 /\ Obeyed(cells, r, command)
                      = IF Ahead(r, sign) \in cells
                        THEN Halted(r, Ahead(r, sign))
                        ELSE At(r, Ahead(r, sign))
<1>1. CASE command = "L"
  BY <1>1 DEF Obeyed, Facing, At, Halted
<1>2. CASE command = "R"
  BY <1>2 DEF Obeyed, Facing, At, Halted
<1>3. CASE command \notin {"L", "R"}
  <2>1. PICK sign : sign = IF command = "F" THEN 1 ELSE -1
    OBVIOUS
  <2>2. Obeyed(cells, r, command)
          = IF Ahead(r, sign) \in cells
            THEN Halted(r, Ahead(r, sign))
            ELSE At(r, Ahead(r, sign))
    BY <1>3, <2>1 DEF Obeyed, Facing, At, Halted
  <2>3. sign \in {1, -1} /\ (command = "F" => sign = 1) /\ (command # "F" => sign = -1)
    BY <2>1
  <2> QED
    BY <1>3, <2>2, <2>3
<1> QED
  BY <1>1, <1>2, <1>3

LEMMA MovedTurn ==
  ASSUME NEW cells, NEW r \in Rovers, NEW command \in {"L", "R"}, r.status # "Blocked"
  PROVE  \E h \in Headings :
            /\ Obeyed(cells, r, command) = Facing(r, h)
            /\ command = "L" => RightOf[h] = r.heading
            /\ command = "R" => LeftOf[h] = r.heading
<1>1. command \in Asked /\ r.heading \in Headings
  BY DEF Asked, Commands, Rovers
<1>2. CASE command = "L"
  <2>1. PICK h \in Headings : h = LeftOf[r.heading] /\ RightOf[h] = r.heading
    BY <1>1, Turns
  <2>2. Obeyed(cells, r, command) = Facing(r, h)
    BY <1>1, <1>2, <2>1, MovedCases
  <2> QED
    BY <1>2, <2>1, <2>2
<1>3. CASE command = "R"
  <2>1. PICK h \in Headings : h = RightOf[r.heading] /\ LeftOf[h] = r.heading
    BY <1>1, Turns
  <2>2. Obeyed(cells, r, command) = Facing(r, h)
    BY <1>1, <1>3, <2>1, MovedCases
  <2> QED
    BY <1>3, <2>1, <2>2
<1> QED
  BY <1>2, <1>3

LEMMA MovedType ==
  ASSUME NEW cells, NEW r \in Rovers, NEW command \in Asked
  PROVE  Obeyed(cells, r, command) \in Rovers
<1>1. CASE r.status = "Blocked"
  BY <1>1 DEF Obeyed
<1>2. CASE r.status # "Blocked"
  <2>1. CASE command \in {"L", "R"}
    BY <1>2, <2>1, MovedTurn, RoverFields
  <2>2. CASE command \notin {"L", "R"}
    <3>1. PICK sign \in {1, -1} :
             Obeyed(cells, r, command)
               = IF Ahead(r, sign) \in cells
                 THEN Halted(r, Ahead(r, sign))
                 ELSE At(r, Ahead(r, sign))
      BY <1>2, <2>2, MovedCases
    <3>2. PICK c \in Grid : c = Ahead(r, sign)
      BY AheadType
    <3> QED
      BY <3>1, <3>2, RoverFields
  <2> QED
    BY <2>1, <2>2
<1> QED
  BY <1>1, <1>2

LEMMA MovesType ==
  ASSUME NEW cells
  PROVE  /\ Moves(cells) \in Operators(Rovers, Asked)
         /\ \A r \in Rovers, c \in Asked : Moves(cells)[<<r, c>>] = Obeyed(cells, r, c)
<1>1. \A p \in Rovers \X Asked : p[1] \in Rovers /\ p[2] \in Asked
  OBVIOUS
<1>2. \A p \in Rovers \X Asked : Obeyed(cells, p[1], p[2]) \in Rovers
  BY <1>1, MovedType
<1> QED
  BY <1>2 DEF Moves, Operators

\* The rover faces the same way and, having seen a cell, is still beside it.
LEMMA MovedSound ==
  ASSUME NEW cells, NEW r \in Rovers, NEW command \in Asked, Sound(cells, r)
  PROVE  Sound(cells, Obeyed(cells, r, command))
<1>1. CASE r.status = "Blocked"
  BY <1>1 DEF Obeyed
<1>2. CASE r.status # "Blocked"
  <2>1. r.lastObstacle = {} /\ r.position \notin cells
    BY <1>2 DEF Sound
  <2>2. CASE command \in {"L", "R"}
    <3>1. PICK h \in Headings : Obeyed(cells, r, command) = Facing(r, h)
      BY <1>2, <2>2, MovedTurn
    <3> QED
      BY <1>2, <2>1, <3>1, RoverFields DEF Sound
  <2>3. CASE command \notin {"L", "R"}
    <3>1. PICK sign \in {1, -1} :
             Obeyed(cells, r, command)
               = IF Ahead(r, sign) \in cells
                 THEN Halted(r, Ahead(r, sign))
                 ELSE At(r, Ahead(r, sign))
      BY <1>2, <2>3, MovedCases
    <3>2. PICK c \in Grid : c = Ahead(r, sign)
      BY AheadType
    <3>3. CASE c \in cells
      <4>1. PICK s \in Rovers : s = Halted(r, c)
        BY RoverFields
      <4>2. /\ s.status = "Blocked" /\ s.lastObstacle = {c}
            /\ s.position = r.position /\ s.heading = r.heading
        BY <4>1, RoverFields
      <4>3. \A d : Ahead(s, d) = Ahead(r, d)
        BY <4>2 DEF Ahead
      <4> QED
        BY <2>1, <3>1, <3>2, <3>3, <4>1, <4>2, <4>3 DEF Sound
    <3>4. CASE c \notin cells
      BY <1>2, <2>1, <3>1, <3>2, <3>4, RoverFields DEF Sound
    <3> QED
      BY <3>3, <3>4
  <2> QED
    BY <2>2, <2>3
<1> QED
  BY <1>1, <1>2

\* What the next command does to a rover that was driven.
LEMMA DrivenOn ==
  ASSUME NEW cells, NEW r \in Rovers, NEW commands \in Seq(Asked), NEW c \in Asked
  PROVE  /\ Driven(cells, r, commands) \in Rovers
         /\ Driven(cells, r, <<>>) = r
         /\ Driven(cells, r, Append(commands, c)) = Obeyed(cells, Driven(cells, r, commands), c)
         /\ Driven(cells, r, <<c>> \o commands) = Driven(cells, Obeyed(cells, r, c), commands)
<1>1. Driven(cells, r, commands) \in Rovers
  BY MovesType, FoldType DEF Driven
<1>2. Driven(cells, r, <<>>) = r
  BY MovesType, FoldEmpty DEF Driven
<1>3. Driven(cells, r, Append(commands, c)) = Moves(cells)[<<Driven(cells, r, commands), c>>]
  BY MovesType, FoldAppend DEF Driven
<1>4. Driven(cells, r, <<c>> \o commands) = Driven(cells, Moves(cells)[<<r, c>>], commands)
  BY MovesType, FoldPrepend DEF Driven
<1> QED
  BY <1>1, <1>2, <1>3, <1>4, MovesType

LEMMA DrivenSound ==
  ASSUME NEW cells, NEW r \in Rovers, Sound(cells, r)
  PROVE  \A commands \in Seq(Asked) : Sound(cells, Driven(cells, r, commands))
<1> DEFINE S == {commands \in Seq(Asked) : Sound(cells, Driven(cells, r, commands))}
<1>1. <<>> \in Seq(Asked) /\ "F" \in Asked
  BY DEF Asked, Commands
<1>2. <<>> \in S
  BY <1>1, DrivenOn
<1>3. ASSUME NEW commands \in Seq(Asked), NEW c \in Asked, commands \in S
      PROVE  Append(commands, c) \in S
  <2>1. Append(commands, c) \in Seq(Asked)
    OBVIOUS
  <2>2. PICK s \in Rovers : s = Driven(cells, r, commands)
    BY DrivenOn
  <2>3. Driven(cells, r, Append(commands, c)) = Obeyed(cells, s, c)
    BY <2>2, DrivenOn
  <2>4. Sound(cells, Obeyed(cells, s, c))
    BY <1>3, <2>2, MovedSound
  <2> QED
    BY <2>1, <2>3, <2>4
<1> HIDE DEF S
<1>4. \A commands \in Seq(Asked) : commands \in S
  BY <1>2, <1>3, SequenceInduction
<1> QED
  BY <1>4 DEF S

\* There and back.
LEMMA Wraps ==
  ASSUME NEW m \in Nat \ {0}, NEW x \in 0..(m - 1), NEW a \in {-1, 0, 1}, NEW b \in Int, b = 0 - a
  PROVE  (((x + a) % m) + b) % m = x
<1>1. CASE x + a \in 0..(m - 1)
  <2>1. (x + a) % m = x + a
    BY <1>1
  <2>2. x + a + b = x
    OBVIOUS
  <2>3. x % m = x
    OBVIOUS
  <2> QED
    BY <2>1, <2>2, <2>3
<1>2. CASE x + a = m
  <2>1. (x + a) % m = 0 /\ a = 1 /\ b = -1 /\ x = m - 1
    BY <1>2
  <2>2. (-1) % m = m - 1
    OBVIOUS
  <2> QED
    BY <2>1, <2>2
<1>3. CASE x + a = -1
  <2>1. a = -1 /\ b = 1 /\ x = 0 /\ (-1) % m = m - 1
    BY <1>3
  <2>2. m % m = 0 /\ (m - 1) + 1 = m
    OBVIOUS
  <2> QED
    BY <1>3, <2>1, <2>2
<1> QED
  BY <1>1, <1>2, <1>3

LEMMA ThereAndBack ==
  ASSUME NEW r \in Rovers, NEW s \in Rovers, NEW sign \in {1, -1}, NEW back \in {1, -1}, back = 0 - sign,
         s.position = Ahead(r, sign), s.heading = r.heading
  PROVE  Ahead(s, back) = r.position
<1>1. /\ r.position \in Grid /\ r.heading \in Headings
      /\ GridWidth \in Nat \ {0} /\ GridHeight \in Nat \ {0}
  BY RoverAssumption DEF Rovers
<1>2. PICK x \in 0..(GridWidth - 1), y \in 0..(GridHeight - 1) : r.position = <<x, y>>
  BY <1>1 DEF Grid
<1>3. \A h \in Headings : /\ sign * StepOf[h][1] \in {-1, 0, 1} /\ sign * StepOf[h][2] \in {-1, 0, 1}
                          /\ back * StepOf[h][1] = 0 - (sign * StepOf[h][1])
                          /\ back * StepOf[h][2] = 0 - (sign * StepOf[h][2])
  BY DEF Headings, StepOf
<1>4. PICK a \in {-1, 0, 1}, b \in {-1, 0, 1} :
         /\ a = sign * StepOf[r.heading][1] /\ b = sign * StepOf[r.heading][2]
  BY <1>1, <1>3
<1>5. PICK c \in Int, d \in Int :
         /\ c = back * StepOf[r.heading][1] /\ d = back * StepOf[r.heading][2]
         /\ c = 0 - a /\ d = 0 - b
  BY <1>1, <1>3, <1>4
<1>6. s.position[1] = (x + a) % GridWidth /\ s.position[2] = (y + b) % GridHeight
  BY <1>2, <1>4 DEF Ahead
<1>7. Ahead(s, back) = <<(s.position[1] + c) % GridWidth, (s.position[2] + d) % GridHeight>>
  BY <1>5 DEF Ahead
<1>8. (((x + a) % GridWidth) + c) % GridWidth = x
  <2>1. PICK m \in Nat \ {0} : m = GridWidth
    BY <1>1
  <2>2. x \in 0..(m - 1) /\ a \in {-1, 0, 1} /\ c \in Int /\ c = 0 - a
    BY <1>2, <1>4, <1>5, <2>1
  <2>3. (((x + a) % m) + c) % m = x
    BY <2>2, Wraps, ZenonT(40)
  <2> QED
    BY <2>1, <2>3
<1>9. (((y + b) % GridHeight) + d) % GridHeight = y
  <2>1. PICK m \in Nat \ {0} : m = GridHeight
    BY <1>1
  <2>2. y \in 0..(m - 1) /\ b \in {-1, 0, 1} /\ d \in Int /\ d = 0 - b
    BY <1>2, <1>4, <1>5, <2>1
  <2>3. (((y + b) % m) + d) % m = y
    BY <2>2, Wraps, ZenonT(40)
  <2> QED
    BY <2>1, <2>3
<1> QED
  BY <1>2, <1>6, <1>7, <1>8, <1>9

LEMMA OneUndone ==
  ASSUME NEW cells, NEW r \in Rovers, Sound(cells, r), NEW c \in Commands,
         Obeyed(cells, r, c).status = "Moving"
  PROVE  Obeyed(cells, Obeyed(cells, r, c), Opposite[c]) = r /\ r.status = "Moving"
<1>1. r.status = "Moving" /\ r.position \notin cells /\ c \in Asked
  BY RoverFields DEF Obeyed, Sound, Asked
<1>2. r.status # "Blocked"
  BY <1>1
<1>3. PICK s \in Rovers : s = Obeyed(cells, r, c)
  BY <1>1, MovedType
<1>4. s.status # "Blocked"
  BY <1>3
<1>5. Opposite[c] \in Asked
  BY DEF Opposite, Commands, Asked
<1>6. CASE c = "L"
  <2>1. PICK h \in Headings : Obeyed(cells, r, c) = Facing(r, h) /\ RightOf[h] = r.heading
    BY <1>2, <1>6, MovedTurn
  <2>2. s = Facing(r, h) /\ s.heading = h
    BY <1>3, <2>1, RoverFields
  <2>3. Obeyed(cells, s, "R") = Facing(s, r.heading)
    BY <1>4, <2>1, <2>2, MovedCases DEF Asked, Commands
  <2>4. Facing(s, r.heading) = r
    BY <2>2, RoverFields
  <2> QED
    BY <1>1, <1>3, <1>6, <2>3, <2>4 DEF Opposite
<1>7. CASE c = "R"
  <2>1. PICK h \in Headings : Obeyed(cells, r, c) = Facing(r, h) /\ LeftOf[h] = r.heading
    BY <1>2, <1>7, MovedTurn
  <2>2. s = Facing(r, h) /\ s.heading = h
    BY <1>3, <2>1, RoverFields
  <2>3. Obeyed(cells, s, "L") = Facing(s, r.heading)
    BY <1>4, <2>1, <2>2, MovedCases DEF Asked, Commands
  <2>4. Facing(s, r.heading) = r
    BY <2>2, RoverFields
  <2> QED
    BY <1>1, <1>3, <1>7, <2>3, <2>4 DEF Opposite
<1>8. CASE c \in {"F", "B"}
  <2>1. PICK sign \in {1, -1} :
           /\ c = "F" => sign = 1
           /\ c # "F" => sign = -1
           /\ s = IF Ahead(r, sign) \in cells
                  THEN Halted(r, Ahead(r, sign))
                  ELSE At(r, Ahead(r, sign))
    BY <1>1, <1>2, <1>3, <1>8, MovedCases
  <2>2. PICK next \in Grid : next = Ahead(r, sign)
    BY AheadType
  <2>3. s = At(r, next) /\ s.position = next /\ s.heading = r.heading
    BY <1>4, <2>1, <2>2, RoverFields
  <2>4. PICK o \in {"F", "B"} : o = Opposite[c] /\ (c = "F" <=> o # "F")
    BY <1>8 DEF Opposite
  <2>5. PICK back \in {1, -1} :
           /\ o = "F" => back = 1
           /\ o # "F" => back = -1
           /\ Obeyed(cells, s, o)
                = IF Ahead(s, back) \in cells
                  THEN Halted(s, Ahead(s, back))
                  ELSE At(s, Ahead(s, back))
    BY <1>4, <1>5, <2>4, MovedCases
  <2>6. back = 0 - sign
    BY <2>1, <2>4, <2>5
  <2>7. Ahead(s, back) = r.position
    BY <2>2, <2>3, <2>6, ThereAndBack
  <2>8. Obeyed(cells, s, o) = At(s, r.position)
    BY <1>1, <2>5, <2>7
  <2>9. At(s, r.position) = r
    BY <2>3, RoverFields
  <2> QED
    BY <1>1, <1>3, <2>4, <2>8, <2>9
<1> QED
  BY <1>6, <1>7, <1>8 DEF Commands

\* A rover that was stopped on the way stays where it was stopped.
LEMMA BlockedStays ==
  ASSUME NEW cells, NEW r \in Rovers
  PROVE  \A commands \in Seq(Asked) : \A k \in 0..Len(commands) :
            Driven(cells, r, SubSeq(commands, 1, k)).status = "Blocked"
              => Driven(cells, r, commands).status = "Blocked"
<1> DEFINE Stays(commands) ==
              \A k \in 0..Len(commands) :
                 Driven(cells, r, SubSeq(commands, 1, k)).status = "Blocked"
                   => Driven(cells, r, commands).status = "Blocked"
           S == {commands \in Seq(Asked) : Stays(commands)}
<1>1. ASSUME NEW none \in Seq(Asked), Len(none) = 0 PROVE Stays(none)
  <2>1. ASSUME NEW k \in 0..Len(none) PROVE SubSeq(none, 1, k) = none
    <3>1. k = 0
      BY <1>1
    <3>2. SubSeq(none, 1, 0) = <<>> /\ none = <<>>
      BY <1>1
    <3> QED
      BY <3>1, <3>2
  <2> QED
    BY <2>1
<1>2. <<>> \in S
  <2>1. PICK none \in Seq(Asked) : none = <<>> /\ Len(none) = 0
    <3>1. <<>> \in Seq(Asked) /\ Len(<<>>) = 0
      OBVIOUS
    <3> QED
      BY <3>1
  <2>2. none \in S
    BY <1>1, <2>1
  <2> QED
    BY <2>1, <2>2
<1>3. ASSUME NEW commands \in Seq(Asked), NEW c \in Asked, commands \in S
      PROVE  Append(commands, c) \in S
  <2>1. PICK more \in Seq(Asked) : more = Append(commands, c)
    <3>1. Append(commands, c) \in Seq(Asked)
      OBVIOUS
    <3> QED
      BY <3>1
  <2>2. PICK n \in Nat : n = Len(commands) /\ n + 1 = Len(more)
    BY <2>1
  <2>3. Driven(cells, r, more) = Obeyed(cells, Driven(cells, r, commands), c)
    BY <2>1, DrivenOn
  <2>4. ASSUME NEW k \in 0..(n + 1), Driven(cells, r, SubSeq(more, 1, k)).status = "Blocked"
        PROVE  Driven(cells, r, more).status = "Blocked"
    <3>1. CASE k = n + 1
      <4>1. SubSeq(more, 1, k) = more
        BY <2>2, <3>1
      <4> QED
        BY <2>4, <4>1
    <3>2. CASE k \in 0..n
      <4>1. SubSeq(more, 1, k) = SubSeq(commands, 1, k)
        BY <2>1, <2>2, <3>2
      <4>2. Stays(commands)
        BY <1>3
      <4>3. Driven(cells, r, SubSeq(commands, 1, k)).status = "Blocked" /\ k \in 0..Len(commands)
        BY <2>2, <2>4, <3>2, <4>1
      <4>4. Driven(cells, r, commands).status = "Blocked"
        BY <4>2, <4>3
      <4> QED
        BY <2>3, <4>4 DEF Obeyed
    <3> QED
      BY <2>2, <3>1, <3>2
  <2> QED
    BY <2>1, <2>2, <2>4
<1> HIDE DEF S
<1>4. \A commands \in Seq(Asked) : commands \in S
  BY <1>2, <1>3, SequenceInduction
<1> QED
  BY <1>4 DEF S

\* What undoes one command more begins with the opposite of that one.
LEMMA UndoingMore ==
  ASSUME NEW commands \in Seq(Commands), NEW c \in Commands
  PROVE  /\ Undoing(commands) \in Seq(Asked) /\ Opposite[c] \in Asked
         /\ Undoing(Append(commands, c)) = <<Opposite[c]>> \o Undoing(commands)
<1>1. \A d \in Commands : Opposite[d] \in Asked
  BY DEF Opposite, Commands, Asked
<1>2. PICK n \in Nat : n = Len(commands)
  OBVIOUS
<1>3. /\ DOMAIN commands = 1..n /\ \A i \in 1..n : commands[i] \in Commands
      /\ \A i \in 1..n : n - i + 1 \in 1..n
  BY <1>2
<1>4. Undoing(commands) = [i \in 1..n |-> Opposite[commands[n - i + 1]]]
  BY <1>2, <1>3 DEF Undoing
<1>5. \A i \in 1..n : Opposite[commands[n - i + 1]] \in Asked
  BY <1>1, <1>3
<1>6. PICK undo \in Seq(Asked) :
         /\ undo = Undoing(commands) /\ Len(undo) = n
         /\ \A i \in 1..n : undo[i] = Opposite[commands[n - i + 1]]
  BY <1>2, <1>4, <1>5
<1>7. PICK more \in Seq(Commands) :
         /\ more = Append(commands, c) /\ Len(more) = n + 1 /\ DOMAIN more = 1..(n + 1)
         /\ more[n + 1] = c /\ \A i \in 1..n : more[i] = commands[i]
  <2>1. /\ Append(commands, c) \in Seq(Commands) /\ Len(Append(commands, c)) = n + 1
        /\ DOMAIN Append(commands, c) = 1..(n + 1) /\ Append(commands, c)[n + 1] = c
        /\ \A i \in 1..n : Append(commands, c)[i] = commands[i]
    BY <1>2
  <2> QED
    BY <2>1
<1>8. Undoing(more) = [i \in 1..(n + 1) |-> Opposite[more[(n + 1) - i + 1]]]
  BY <1>7 DEF Undoing
<1>9. ASSUME NEW i \in 1..(n + 1)
      PROVE  Opposite[more[(n + 1) - i + 1]] = (<<Opposite[c]>> \o undo)[i]
  <2>1. PICK o \in Asked : o = Opposite[c]
    BY <1>1
  <2>2. CASE i = 1
    <3>1. (n + 1) - i + 1 = n + 1 /\ (<<o>> \o undo)[i] = o
      BY <1>6, <2>2
    <3> QED
      BY <1>7, <2>1, <3>1
  <2>3. CASE i # 1
    <3>1. /\ (n + 1) - i + 1 \in 1..n /\ i - 1 \in 1..n
          /\ n - (i - 1) + 1 = (n + 1) - i + 1 /\ (<<o>> \o undo)[i] = undo[i - 1]
      BY <1>6, <2>3
    <3> QED
      BY <1>6, <1>7, <2>1, <3>1
  <2> QED
    BY <2>2, <2>3
<1>10. <<Opposite[c]>> \o undo = [i \in 1..(n + 1) |-> (<<Opposite[c]>> \o undo)[i]]
  <2>1. PICK o \in Asked : o = Opposite[c]
    BY <1>1
  <2>2. PICK first \in Seq(Asked) : first = <<o>> /\ Len(first) = 1
    <3>1. <<o>> \in Seq(Asked) /\ Len(<<o>>) = 1
      OBVIOUS
    <3> QED
      BY <3>1
  <2>3. first \o undo \in Seq(Asked) /\ Len(first \o undo) = n + 1
    BY <1>6, <2>2, Concatenated
  <2>4. PICK both \in Seq(Asked) : both = first \o undo /\ Len(both) = n + 1
    BY <2>3
  <2>5. both = [i \in 1..(n + 1) |-> both[i]]
    <3>1. both \in [1..(n + 1) -> Asked]
      BY <2>4, LenProperties
    <3> QED
      BY <3>1
  <2>6. <<Opposite[c]>> \o undo = both
    BY <2>1, <2>2, <2>4
  <2> QED
    BY <2>5, <2>6
<1>11. Undoing(more) = <<Opposite[c]>> \o undo
  BY <1>8, <1>9, <1>10
<1> QED
  BY <1>1, <1>6, <1>7, <1>11

LEMMA DriveUndone ==
  ASSUME NEW cells, NEW r \in Rovers, Sound(cells, r)
  PROVE  \A commands \in Seq(Commands) :
            Driven(cells, r, commands).status = "Moving"
              => Driven(cells, Driven(cells, r, commands), Undoing(commands)) = r
<1> DEFINE Undone(commands) ==
              Driven(cells, r, commands).status = "Moving"
                => Driven(cells, Driven(cells, r, commands), Undoing(commands)) = r
           S == {commands \in Seq(Commands) : Undone(commands)}
<1>1. \A commands \in Seq(Commands) : commands \in Seq(Asked)
  BY DEF Asked
<1>2. ASSUME NEW none \in Seq(Commands), Len(none) = 0 PROVE Undone(none)
  <2>1. none = <<>> /\ Undoing(none) = <<>>
    BY <1>2 DEF Undoing
  <2>2. Driven(cells, r, <<>>) = r
    BY <1>1, <1>2, <2>1, DrivenOn DEF Asked
  <2> QED
    BY <2>1, <2>2
<1>3. <<>> \in S
  <2>1. PICK none \in Seq(Commands) : none = <<>> /\ Len(none) = 0
    <3>1. <<>> \in Seq(Commands) /\ Len(<<>>) = 0
      OBVIOUS
    <3> QED
      BY <3>1
  <2>2. none \in S
    BY <1>2, <2>1
  <2> QED
    BY <2>1, <2>2
<1>4. ASSUME NEW commands \in Seq(Commands), NEW c \in Commands, commands \in S
      PROVE  Append(commands, c) \in S
  <2>1. PICK more \in Seq(Commands) : more = Append(commands, c)
    <3>1. Append(commands, c) \in Seq(Commands)
      OBVIOUS
    <3> QED
      BY <3>1
  <2>2. c \in Asked /\ commands \in Seq(Asked)
    BY <1>1 DEF Asked
  <2>3. PICK s \in Rovers : s = Driven(cells, r, commands) /\ Sound(cells, s)
    BY <2>2, DrivenOn, DrivenSound
  <2>4. PICK t \in Rovers : t = Driven(cells, r, more) /\ t = Obeyed(cells, s, c)
    BY <2>1, <2>2, <2>3, DrivenOn, MovedType
  <2>5. ASSUME t.status = "Moving" PROVE Driven(cells, t, Undoing(more)) = r
    <3>1. Obeyed(cells, t, Opposite[c]) = s /\ s.status = "Moving"
      BY <2>3, <2>4, <2>5, OneUndone
    <3>2. PICK undo \in Seq(Asked), o \in Asked :
             undo = Undoing(commands) /\ o = Opposite[c] /\ Undoing(more) = <<o>> \o undo
      BY <2>1, UndoingMore
    <3>3. Driven(cells, t, <<o>> \o undo) = Driven(cells, Obeyed(cells, t, o), undo)
      BY DrivenOn
    <3>4. Driven(cells, s, undo) = r
      BY <1>4, <2>3, <3>1, <3>2
    <3> QED
      BY <3>1, <3>2, <3>3, <3>4
  <2> QED
    BY <2>1, <2>4, <2>5
<1> HIDE DEF S
<1>5. \A commands \in Seq(Commands) : commands \in S
  BY <1>3, <1>4, SequenceInduction
<1> QED
  BY <1>5 DEF S

LEMMA ExecuteIsFold ==
  ASSUME NEW r \in Rovers, NEW commands \in Seq(Asked)
  PROVE  Execute(r, commands) = Driven(obstacles, r, commands)
<1> DEFINE Loop(f) == f = [s \in SUBSET (DOMAIN commands) |->
                              IF s = {} THEN r
                              ELSE Obeyed(obstacles, f[s \ {Max(s)}], commands[Max(s)])]
<1>1. Execute(r, commands) = (CHOOSE f : Loop(f))[DOMAIN commands]
  BY DEF Execute, FoldLeft, MapThenFoldSet, Obey, Obeyed
<1>2. /\ DOMAIN commands = Places(commands) /\ Len(commands) \in Nat
      /\ \A i \in Places(commands) : commands[i] \in Asked
  BY DEF Places
<1>3. ASSUME NEW s \in SUBSET Places(commands), s # {}
      PROVE  Max(s) \in Places(commands) /\ s \ {Max(s)} \in SUBSET Places(commands)
  BY <1>2, <1>3, MaxOf DEF Places
<1>4. PICK g \in Tables(Rovers, commands) :
         /\ IsTable(g, Moves(obstacles), r, commands)
         /\ FoldOf(Moves(obstacles), r, commands) = g[Places(commands)]
  BY MovesType, FoldTable
<1>5. Loop(g)
  <2>1. ASSUME NEW s \in SUBSET Places(commands), s # {}
        PROVE  Moves(obstacles)[<<g[s \ {Max(s)}], commands[Max(s)]>>]
                 = Obeyed(obstacles, g[s \ {Max(s)}], commands[Max(s)])
    <3>1. g[s \ {Max(s)}] \in Rovers /\ commands[Max(s)] \in Asked
      BY <1>2, <1>3, <1>4, <2>1 DEF Tables
    <3> QED
      BY <3>1, MovesType
  <2> QED
    BY <1>2, <1>4, <2>1 DEF IsTable
<1>6. ASSUME NEW f, Loop(f)
      PROVE  f = g
  <2>1. /\ f = [s \in SUBSET Places(commands) |-> f[s]]
        /\ \A s \in SUBSET Places(commands) :
              f[s] = IF s = {} THEN r ELSE Obeyed(obstacles, f[s \ {Max(s)}], commands[Max(s)])
    BY <1>2, <1>6
  <2> HIDE DEF Loop
  <2>2. f[{}] = r
    BY <2>1
  <2>3. ASSUME NEW s \in SUBSET Places(commands), s # {}, f[s \ {Max(s)}] \in Rovers
        PROVE  f[s] = Moves(obstacles)[<<f[s \ {Max(s)}], commands[Max(s)]>>]
    <3>1. commands[Max(s)] \in Asked
      BY <1>2, <1>3, <2>3
    <3> QED
      BY <2>1, <2>3, <3>1, MovesType
  <2>4. Follows(f, Rovers, Moves(obstacles), r, commands)
    BY <2>1, <2>2, <2>3 DEF Follows
  <2> QED
    BY <1>4, <2>4, MovesType, TableReached
<1>7. (CHOOSE f : Loop(f)) = g
  BY <1>5, <1>6
<1> QED
  BY <1>1, <1>2, <1>4, <1>7 DEF Driven

RoverInv ==
    /\ obstacles \in Fields
    /\ trip.from \in Rovers /\ Sound(obstacles, trip.from)
    /\ trip.commands \in Seq(Asked)
    /\ rover = Driven(obstacles, trip.from, trip.commands)
    /\ rover.status = "Moving" => trip.commands \in Seq(Commands)

LEMMA RoverHolds == RoverInv => RoverTypeOK /\ DrivesAreUndone
<1> SUFFICES ASSUME RoverInv PROVE RoverTypeOK /\ DrivesAreUndone
  OBVIOUS
<1>1. PICK from \in Rovers, commands \in Seq(Asked) :
         /\ from = trip.from /\ commands = trip.commands
         /\ Sound(obstacles, from) /\ rover = Driven(obstacles, from, commands)
         /\ rover.status = "Moving" => commands \in Seq(Commands)
  BY DEF RoverInv
<1>2. rover \in Rovers /\ Sound(obstacles, rover)
  BY <1>1, DrivenSound, MovesType, FoldType DEF Driven
<1>3. ASSUME rover.status = "Moving" PROVE Execute(rover, Undoing(commands)) = from
  <2>1. commands \in Seq(Commands) /\ "F" \in Commands
    BY <1>1, <1>3 DEF Commands
  <2>2. Undoing(commands) \in Seq(Asked)
    BY <2>1, UndoingMore
  <2>3. Execute(rover, Undoing(commands)) = Driven(obstacles, rover, Undoing(commands))
    BY <1>2, <2>2, ExecuteIsFold
  <2> QED
    BY <1>1, <1>3, <2>1, <2>3, DriveUndone
<1>4. RoverTypeOK
  BY <1>1, <1>2 DEF RoverInv, RoverTypeOK, Rovers, Asked
<1> QED
  BY <1>1, <1>2, <1>3, <1>4 DEF DrivesAreUndone, Sound

LEMMA RoverStarts == RoverInit => RoverInv
<1> SUFFICES ASSUME RoverInit PROVE RoverInv
  OBVIOUS
<1>1. /\ rover \in Rovers /\ rover.position \notin obstacles /\ rover.status = "Moving"
      /\ rover.lastObstacle = {} /\ obstacles \in Fields
      /\ trip.from = rover /\ trip.commands = <<>>
  BY DEF RoverInit, Rovers
<1>2. Sound(obstacles, rover)
  BY <1>1 DEF Sound
<1>3. "F" \in Asked /\ <<>> \in Seq(Asked) /\ <<>> \in Seq(Commands)
  BY DEF Asked, Commands
<1>4. Driven(obstacles, rover, <<>>) = rover
  BY <1>1, <1>3, DrivenOn
<1> QED
  BY <1>1, <1>2, <1>3, <1>4 DEF RoverInv

LEMMA RoverMoves == RoverInv /\ Drive => RoverInv'
<1> SUFFICES ASSUME RoverInv, Drive PROVE RoverInv'
  OBVIOUS
<1>1. PICK commands \in SeqOf(Asked, MaxCommands) :
         /\ Understood(rover, commands) /\ rover' = Execute(rover, commands)
         /\ trip' = [from |-> rover, commands |-> commands] /\ obstacles' = obstacles
  BY DEF Drive, Asked
<1>2. commands \in Seq(Asked)
  BY <1>1, RoverAssumption DEF SeqOf
<1>3. rover \in Rovers /\ Sound(obstacles, rover) /\ obstacles \in Fields
  BY DrivenSound, MovesType, FoldType DEF RoverInv, Driven
<1>4. rover' = Driven(obstacles, rover, commands) /\ trip'.from = rover /\ trip'.commands = commands
  BY <1>1, <1>2, <1>3, ExecuteIsFold
<1>5. ASSUME rover'.status = "Moving" PROVE commands \in Seq(Commands)
  <2>1. DOMAIN commands = 1..Len(commands) /\ Len(commands) \in Nat
    BY <1>2
  <2>2. ASSUME NEW i \in DOMAIN commands, commands[i] \notin Commands PROVE FALSE
    <3>1. /\ i > 1 /\ i - 2 \in 0..Len(commands)
          /\ Execute(rover, SubSeq(commands, 1, i - 2)).status = "Blocked"
      BY <1>1, <2>1, <2>2 DEF Understood
    <3>2. SubSeq(commands, 1, i - 2) \in Seq(Asked)
      <4>1. PICK k \in 0..Len(commands) : k = i - 2
        BY <3>1
      <4>2. SubSeq(commands, 1, k) \in Seq(Asked)
        <5>1. k \in Int /\ \A j \in 1..k : commands[j] \in Asked
          BY <1>2, <2>1, <4>1
        <5> QED
          BY <5>1, SubSeqProperties
      <4> QED
        BY <4>1, <4>2
    <3>3. Driven(obstacles, rover, SubSeq(commands, 1, i - 2)).status = "Blocked"
      BY <1>3, <3>1, <3>2, ExecuteIsFold
    <3>4. Driven(obstacles, rover, commands).status = "Blocked"
      BY <1>2, <1>3, <3>1, <3>3, BlockedStays
    <3> QED
      BY <1>4, <1>5, <3>4
  <2> QED
    BY <1>2, <2>1, <2>2
<1> QED
  BY <1>1, <1>2, <1>3, <1>4, <1>5 DEF RoverInv

LEMMA RoverInvariant == RoverSpec => []RoverInv
<1>1. RoverInv /\ UNCHANGED roverVars => RoverInv'
  BY DEF RoverInv, roverVars
<1> QED
  BY <1>1, RoverStarts, RoverMoves, PTL DEF RoverSpec, RoverNext

-----------------------------------------------------------------------------
\* A call is answered by a stub set up before it for its very arguments, or by
\* nothing when there is none, however calls and stubs alternate; and the ways
\* to verify agree about every call (mock.py:25-59, 86-109).
THEOREM AnswersStayGiven == MockSpec => []AnswersStand
  BY MockInvariant, MockHolds, PTL

\* A calculator is in one mode after any keys (calculator.py:50-152).
THEOREM FlagsStayOneMode == CalcSpec => []FlagsAreOneMode
  BY CalcInvariant, CalcHolds, PTL

\* On a grid of any size, edges that meet included, a rover that was not
\* stopped goes back the way it came (rover.py:41-60, 123-154).
THEOREM DrivesStayUndone == RoverSpec => []DrivesAreUndone
  BY RoverInvariant, RoverHolds, PTL

\* The three side by side.
THEOREM ToldStaysKept == DevicesSpec => []ToldIsKept
<1>1. AnswersStand /\ FlagsAreOneMode /\ DrivesAreUndone => ToldIsKept
  BY DEF ToldIsKept
<1> QED
  BY <1>1, AnswersStayGiven, FlagsStayOneMode, DrivesStayUndone, PTL DEF DevicesSpec
=============================================================================
