---------------------------- MODULE TennisMatch -----------------------------
(***************************************************************************)
(* Points, games and sets of a match, and the announcement that follows    *)
(* each point. 0 stands for nobody among the players 1 and 2.              *)
(***************************************************************************)
EXTENDS Integers

CONSTANTS MaxPoints, MaxGames    \* bounds: a deuce, and a set without tie-break, may go on
VARIABLE match

ASSUME MatchAssumption == MaxPoints \in Nat /\ MaxGames \in Nat

Players == {1, 2}
Other(p) == 3 - p
NoPlayer == 0
Zeros == [p \in Players |-> 0]

PointsToScore(n) == <<"Love", "Fifteen", "Thirty", "Forty">>[IF n < 3 THEN n + 1 ELSE 4]
Words == {"Love", "Fifteen", "Thirty", "Forty"}

\* What the points of a player are called, given those of the other.
ScoreState(points, p) ==
    LET a == points[p]    b == points[Other(p)]
    IN  CASE a >= 3 /\ b >= 3 /\ a = b -> "Deuce"
          [] a >= 3 /\ b >= 3 /\ a = b + 1 -> "Advantage"
          [] a >= 4 /\ a >= b + 2 -> "Game"
          [] OTHER -> PointsToScore(a)

WinsSet(games, p) == games[p] >= 6 /\ games[p] - games[Other(p)] >= 2

Winner(won) == IF 1 \in won THEN 1 ELSE IF 2 \in won THEN 2 ELSE NoPlayer

-----------------------------------------------------------------------------
MatchInit == match = [points |-> Zeros, games |-> Zeros, sets |-> Zeros,
                 justGame |-> NoPlayer, justSet |-> NoPlayer, winner |-> NoPlayer]

\* One point: it may win the game, that the set, and that the match.
PointWonBy(player) ==
    LET points == [match.points EXCEPT ![player] = @ + 1]
        game == Winner({p \in Players : ScoreState(points, p) = "Game"})
        games == [p \in Players |-> match.games[p] + IF game = p THEN 1 ELSE 0]
        set == Winner({p \in Players : WinsSet(games, p)})
        sets == [p \in Players |-> match.sets[p] + IF set = p THEN 1 ELSE 0]
        winner == Winner({p \in Players : sets[p] >= 2})
    IN  /\ match.winner = NoPlayer
        /\ points[player] <= MaxPoints /\ games[player] <= MaxGames    \* bounds
        /\ match' = [points |-> IF game = NoPlayer THEN points ELSE Zeros,
                     games |-> IF set = NoPlayer THEN games ELSE Zeros,
                     sets |-> sets,
                     justGame |-> IF set = NoPlayer THEN game ELSE NoPlayer,
                     justSet |-> IF winner = NoPlayer THEN set ELSE NoPlayer,
                     winner |-> winner]

MatchNext == \E player \in Players : PointWonBy(player)

MatchSpec == MatchInit /\ [][MatchNext]_match

\* What is announced: the greatest thing just won, or the points.
Score ==
    LET State(p) == ScoreState(match.points, p)
        ahead == Winner({p \in Players : State(p) = "Advantage"})
    IN  IF match.winner # NoPlayer THEN <<"Match", match.winner>>
        ELSE IF match.justSet # NoPlayer THEN <<"Set", match.justSet>>
        ELSE IF match.justGame # NoPlayer THEN <<"Game", match.justGame>>
        ELSE IF ahead # NoPlayer THEN <<"Advantage", ahead>>
        ELSE IF State(1) = "Deuce" THEN <<"Deuce">>
        ELSE <<State(1), State(2)>>

-----------------------------------------------------------------------------
MatchTypeOK ==
    match \in [points : [Players -> 0..MaxPoints], games : [Players -> 0..MaxGames], sets : [Players -> 0..2],
               justGame : 0..2, justSet : 0..2, winner : 0..2]

\* A game, a set and a match end the moment they are won, so that the points
\* always have words, and what was just won is announced over a fresh score
\* (match.py:44-127).
WinsAreTaken ==
    /\ \A p \in Players :
          /\ match.points[p] >= 4 => match.points[p] - match.points[Other(p)] < 2
          /\ match.games[p] >= 6 => match.games[p] - match.games[Other(p)] < 2
          /\ match.sets[p] = 2 <=> match.winner = p
    /\ match.sets[1] + match.sets[2] <= 3
    /\ Score[1] \in Words => Score[2] \in Words
    /\ Score[1] \in {"Game", "Set", "Match"} => match.points = Zeros
    /\ Score[1] \in {"Set", "Match"} => match.games = Zeros
    /\ Score[1] = "Game" => match.games[Score[2]] > 0
    /\ Score[1] = "Set" => match.sets[Score[2]] = 1
=============================================================================
