----------------------------- MODULE MazeWalker -----------------------------
(***************************************************************************)
(* The breadth-first search of a walker, one cell off the queue per step.  *)
(* A path that has been found, or given up, ends the search.               *)
(***************************************************************************)
EXTENDS Integers, SequencesExt, Sorting

CONSTANTS Rows, Cols, Mazes    \* Mazes: [walls, start, end]
VARIABLES walker, maze

MazeCells == (0..(Rows - 1)) \X (0..(Cols - 1))
ASSUME MazeAssumption ==
    /\ Rows \in Nat /\ Cols \in Nat
    /\ Mazes \subseteq [walls : SUBSET MazeCells, start : MazeCells, end : MazeCells]
    /\ \A m \in Mazes : {m.start, m.end} \subseteq MazeCells \ m.walls

\* Up, down, left, right.
CardinalNeighbors(c) ==
    <<<<c[1] - 1, c[2]>>, <<c[1] + 1, c[2]>>, <<c[1], c[2] - 1>>, <<c[1], c[2] + 1>>>>
IsWalkable(c) == c \in MazeCells \ maze.walls

\* Variant: cells that were visited are found again.
FoundAgain(current) == Filtered(CardinalNeighbors(current), {c \in MazeCells : IsWalkable(c)})

\* The cells a cell adds to the queue, in the order it finds them.
FoundFrom(current) == Filtered(CardinalNeighbors(current), {c \in MazeCells : IsWalkable(c)} \ walker.visited)

\* Back from the end along the cells each was reached from, up to the start.
Back[n \in Nat] ==
    IF n = 0 THEN maze.end
    ELSE IF Back[n - 1] = maze.start THEN maze.start ELSE walker.cameFrom[Back[n - 1]]
ReconstructPath ==
    LET steps == CHOOSE n \in 0..(Rows * Cols) : Back[n] = maze.start /\ \A i \in 0..(n - 1) : Back[i] # maze.start
    IN  [i \in 1..(steps + 1) |-> Back[steps + 1 - i]]

-----------------------------------------------------------------------------
MazeInit ==
    /\ maze \in Mazes
    /\ walker = [state |-> "idle", visited |-> {}, queue |-> <<>>, cameFrom |-> <<>>, path |-> <<>>]

FindPath ==
    /\ walker.state # "searching"
    /\ walker' = [state |-> "searching", visited |-> {maze.start}, queue |-> <<maze.start>>,
                  cameFrom |-> <<>>, path |-> <<>>]

Reach ==
    /\ walker.state = "searching" /\ walker.queue # <<>> /\ Head(walker.queue) = maze.end
    /\ walker' = [walker EXCEPT !.queue = Tail(@), !.path = ReconstructPath, !.state = "done"]

Explore ==
    /\ walker.state = "searching" /\ walker.queue # <<>> /\ Head(walker.queue) # maze.end
    /\ LET current == Head(walker.queue)    found == FoundFrom(current)
       IN  walker' = [walker EXCEPT !.visited = @ \cup ToSet(found), !.queue = Tail(@) \o found,
                                    !.cameFrom = [c \in DOMAIN @ \cup ToSet(found) |->
                                                    IF c \in ToSet(found) THEN current ELSE @[c]]]

GiveUp ==
    /\ walker.state = "searching" /\ walker.queue = <<>>
    /\ walker' = [walker EXCEPT !.state = "done"]

MazeNext == UNCHANGED maze /\ (FindPath \/ Reach \/ Explore \/ GiveUp)

mazeVars == <<walker, maze>>

MazeSpec == MazeInit /\ [][MazeNext]_mazeVars

-----------------------------------------------------------------------------
MazeTypeOK ==
    /\ maze \in Mazes
    /\ walker.visited \subseteq MazeCells /\ walker.queue \in Seq(MazeCells) /\ walker.path \in Seq(MazeCells)
    /\ walker.cameFrom \in [DOMAIN walker.cameFrom -> walker.visited] /\ walker.state \in {"idle", "searching", "done"}

\* The cells within n steps of the start.
Within[n \in Nat] ==
    IF n = 0 THEN {maze.start}
    ELSE {c \in MazeCells : IsWalkable(c) /\
            (c \in Within[n - 1] \/ ToSet(CardinalNeighbors(c)) \cap Within[n - 1] # {})}
Unreached == Rows * Cols
Distance(c) == Min({n \in 0..Unreached : c \in Within[n] \/ n = Unreached})

\* The queue holds cells of one distance and then of the next, and nothing nearer
\* is still to be found, so that the path returned is a shortest one, step by
\* step; there is none only when the end cannot be reached (walker.py:15-58).
ShortestFound ==
    /\ \A i, j \in DOMAIN walker.queue :
          LET d == Distance(walker.queue[i])    e == Distance(walker.queue[j])
          IN  i < j => d <= e /\ e <= d + 1
    /\ walker.state = "searching" /\ walker.queue # <<>> =>
          Within[Distance(Head(walker.queue))] \subseteq walker.visited
    /\ \A c \in DOMAIN walker.cameFrom : Distance(c) = Distance(walker.cameFrom[c]) + 1
    /\ walker.state = "done" =>
          IF maze.end \notin Within[Unreached] THEN walker.path = <<>>
          ELSE /\ Len(walker.path) = Distance(maze.end) + 1
               /\ walker.path[1] = maze.start /\ Last(walker.path) = maze.end
               /\ \A i \in 2..Len(walker.path) :
                     walker.path[i] \in ToSet(CardinalNeighbors(walker.path[i - 1]))
=============================================================================
