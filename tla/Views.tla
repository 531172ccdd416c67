-------------------------------- MODULE Views --------------------------------
(***************************************************************************)
(* What keeps data and looks at it in several ways, side by side: a blog,  *)
(* a query over a table, a list of nodes and a weather station; and what   *)
(* searches: a walker in a maze and a hand of cards. They share nothing,   *)
(* and each moves or waits in every step.                                  *)
(***************************************************************************)
EXTENDS Blog, CsvQuery, LinkedList, WeatherStation, MazeWalker, PokerHands

ViewsSpec == BlogSpec /\ QuerySpec /\ ListSpec /\ WeatherSpec

SearchesSpec == MazeSpec /\ PokerSpec

\* Two views of the same data agree: listings and posts (blog.py:26-105),
\* filtered rows and sorted ones (query.py:15-70), a chain of nodes and the
\* sequence built (linked_list.py:16-99), alerts and statistics
\* (station.py:46-101).
ViewsAgree == ListingsAgree /\ FiltersKeepOrder /\ ChainIsSequence /\ AlertsMatchStatistics

\* A path found is a shortest one (walker.py:15-58), and a hand ranks as its
\* cards do, in one order (hand.py:47-119).
SearchesAreExact == ShortestFound /\ HandsAreOrdered
=============================================================================
