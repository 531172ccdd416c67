----------------------------- MODULE MarsRover ------------------------------
(***************************************************************************)
(* A rover on a grid whose edges meet, given strings of commands. execute  *)
(* returns a new rover: an unknown command leaves the caller with the old. *)
(* `trip` remembers the last call: the rover it began with, the commands.  *)
(***************************************************************************)
EXTENDS Integers, SequencesExt

CONSTANTS GridWidth, GridHeight, Fields,    \* the grid, and the sets of obstacles to try
          MaxCommands                       \* bound: commands of one call
VARIABLES rover, obstacles, trip

ASSUME RoverAssumption == {GridWidth, GridHeight} \subseteq Nat \ {0} /\ MaxCommands \in Nat

Grid == (0..(GridWidth - 1)) \X (0..(GridHeight - 1))
Headings == {"N", "E", "S", "W"}
Commands == {"F", "B", "L", "R"}

LeftOf == [N |-> "W", W |-> "S", S |-> "E", E |-> "N"]
RightOf == [N |-> "E", E |-> "S", S |-> "W", W |-> "N"]
StepOf == [N |-> <<0, -1>>, S |-> <<0, 1>>, E |-> <<1, 0>>, W |-> <<-1, 0>>]

Ahead(r, sign) ==
    <<(r.position[1] + sign * StepOf[r.heading][1]) % GridWidth,
      (r.position[2] + sign * StepOf[r.heading][2]) % GridHeight>>

\* One command: a move into an obstacle stops the rover for good.
Obey(r, command) ==
    IF r.status = "Blocked" THEN r
    ELSE CASE command = "L" -> [r EXCEPT !.heading = LeftOf[@]]
           [] command = "R" -> [r EXCEPT !.heading = RightOf[@]]
           [] OTHER ->
                LET next == Ahead(r, IF command = "F" THEN 1 ELSE -1)
                IN  IF next \in obstacles THEN [r EXCEPT !.status = "Blocked", !.lastObstacle = {next}]
                    ELSE [r EXCEPT !.position = next]

Execute(r, commands) == FoldLeft(Obey, r, commands)

\* The first command is always looked at, and every other one unless the rover
\* was stopped before the one in front of it; one that is not understood is
\* looked at by a stopped rover or by nobody.
Understood(r, commands) ==
    \A i \in DOMAIN commands :
        \/ commands[i] \in Commands
        \/ i > 1 /\ Execute(r, SubSeq(commands, 1, i - 2)).status = "Blocked"

-----------------------------------------------------------------------------
RoverInit ==
    /\ obstacles \in Fields
    /\ rover \in [position : Grid \ obstacles, heading : Headings,
                  status : {"Moving"}, lastObstacle : {{}}]
    /\ trip = [from |-> rover, commands |-> <<>>]

Drive ==
    /\ \E commands \in SeqOf(Commands \cup {"?"}, MaxCommands) :
          /\ Understood(rover, commands)
          /\ rover' = Execute(rover, commands)
          /\ trip' = [from |-> rover, commands |-> commands]
    /\ UNCHANGED obstacles

RoverNext == Drive

roverVars == <<rover, obstacles, trip>>

RoverSpec == RoverInit /\ [][RoverNext]_roverVars

-----------------------------------------------------------------------------
RoverTypeOK ==
    /\ obstacles \in Fields
    /\ rover \in [position : Grid, heading : Headings, status : {"Moving", "Blocked"},
                  lastObstacle : {{}} \cup {{cell} : cell \in Grid}]
    /\ trip.commands \in Seq(Commands \cup {"?"})

Opposite == [F |-> "B", B |-> "F", L |-> "R", R |-> "L"]
Undoing(commands) == [i \in DOMAIN commands |-> Opposite[commands[Len(commands) - i + 1]]]

\* The rover is never on an obstacle; it is stopped exactly when it names one,
\* which lies before or behind it, edges included; and a drive that was not
\* stopped is undone by its opposites in reverse (rover.py:41-60, 123-154).
DrivesAreUndone ==
    /\ rover.position \notin obstacles
    /\ rover.status = "Blocked" <=> rover.lastObstacle # {}
    /\ rover.lastObstacle \subseteq obstacles \cap {Ahead(rover, 1), Ahead(rover, -1)}
    /\ rover.status = "Moving" => Execute(rover, Undoing(trip.commands)) = trip.from
=============================================================================
