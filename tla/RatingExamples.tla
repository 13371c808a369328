--------------------------- MODULE RatingExamples ---------------------------
(***************************************************************************)
(* The rating operators at the values of test/rating.cxx.  TLC evaluates    *)
(* the assumption in the run whose module this is.                          *)
(***************************************************************************)
EXTENDS MCPlayers

\* The values of test/rating.cxx: losers, winners and what becomes of them.
ASSUME TestValues ==
  LET r == (1 :> 1500) @@ (2 :> 2000) @@ (3 :> 1000) @@ (4 :> 1000) @@ (5 :> 1000)
             @@ (6 :> 2000) @@ (7 :> 2000) @@ (8 :> 1) @@ (9 :> 1)
      Game(losers, winners) ==
        LET new == LoserAndWinner(r, losers, winners, 0)
        IN  [a \in losers \cup winners |-> new[a]]
      Drawn(team) == LET new == Draw(r, team, 0) IN [a \in team |-> new[a]]
  IN  /\ Game({1}, {2}) = (1 :> 1499) @@ (2 :> 2001)
      /\ Game({2}, {3, 4, 5})
           = (2 :> 1980) @@ (3 :> 1007) @@ (4 :> 1007) @@ (5 :> 1007)
      /\ Drawn({1, 2}) = (1 :> 1509) @@ (2 :> 1991)
      /\ Drawn({1, 2, 6}) = (1 :> 1512) @@ (2 :> 1994) @@ (6 :> 1994)
      /\ Drawn({2, 3, 4, 5})
           = (2 :> 1990) @@ (3 :> 1003) @@ (4 :> 1003) @@ (5 :> 1003)
      /\ Drawn({2, 6, 7, 3})
           = (2 :> 1993) @@ (6 :> 1993) @@ (7 :> 1993) @@ (3 :> 1021)
      /\ Drawn({2, 6, 8, 9})
           = (2 :> 1990) @@ (6 :> 1990) @@ (8 :> 11) @@ (9 :> 11)
=============================================================================
