----------------------------- MODULE TicTacToe ------------------------------
(***************************************************************************)
(* Boards of the game, each made from the one before; turn and outcome are *)
(* read off the marks.                                                     *)
(***************************************************************************)
EXTENDS Integers, FiniteSets

VARIABLE board

Side == 0..2
Squares == Side \X Side
Marks == {"X", "O"}
Empty == "Empty"

Lines ==
    {{<<r, c>> : c \in Side} : r \in Side} \cup {{<<r, c>> : r \in Side} : c \in Side}
        \cup {{<<i, i>> : i \in Side}, {<<i, 2 - i>> : i \in Side}}

CountOf(mark) == Cardinality({s \in Squares : board[s] = mark})
CurrentTurn == IF CountOf("X") = CountOf("O") THEN "X" ELSE "O"

HasLine(mark) == \E line \in Lines : \A s \in line : board[s] = mark

\* The first line of equal marks decides; the code looks for rows first.
Outcome ==
    CASE HasLine("X") -> "XWins"
      [] HasLine("O") -> "OWins"
      [] ~HasLine("X") /\ ~HasLine("O") /\ CountOf(Empty) = 0 -> "Draw"
      [] OTHER -> "InProgress"

-----------------------------------------------------------------------------
BoardInit == board = [s \in Squares |-> Empty]

Place(s) ==
    /\ Outcome = "InProgress"
    /\ board[s] = Empty
    /\ board' = [board EXCEPT ![s] = CurrentTurn]

BoardNext == \E s \in Squares : Place(s)

BoardSpec == BoardInit /\ [][BoardNext]_board

-----------------------------------------------------------------------------
BoardTypeOK == board \in [Squares -> Marks \cup {Empty}]

\* However the game goes, at most one player has a line, so that it matters not
\* which line is found first; it is the one who moved last, all his lines share
\* the square of that move, and the turns alternate (board.py:77-112).
LastMoveWins ==
    /\ CountOf("X") - CountOf("O") \in {0, 1}
    /\ ~(HasLine("X") /\ HasLine("O"))
    /\ Outcome = "XWins" => CountOf("X") = CountOf("O") + 1
    /\ Outcome = "OWins" => CountOf("X") = CountOf("O")
    /\ \A m \in Marks : HasLine(m) =>
          \E s \in Squares : \A line \in Lines : (\A t \in line : board[t] = m) => s \in line
=============================================================================
