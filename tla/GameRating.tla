----------------------------- MODULE GameRating -----------------------------
(***************************************************************************)
(* logic/rating.cxx: averages, what a game is worth, and how a team shares  *)
(* it, as operators over r, a function from accounts to ratings, and teams, *)
(* which are sets of accounts.  Floating point is replaced by fractions;    *)
(* the results are the rounded integers the code works with.                *)
(***************************************************************************)
EXTENDS Integers, FiniteSets, Functions

\* std::rintl of n / d: to the nearest, a half to the even one.
RoundedQuotient(n, d) ==
  LET q == n \div d
      r == 2 * (n % d)
  IN  IF r > d \/ (r = d /\ q % 2 = 1) THEN q + 1 ELSE q

\* The average of nobody is 0 / 0; nan is what the conversion of NaN to size_t
\* yields.
AverageOf(r, team, nan) ==
  IF team = {} THEN nan
  ELSE RoundedQuotient(SumFunctionOnSet(r, team), Cardinality(team))

\* ratingChange for a victory is lrintl (20 - 20 / (1 + 10 ^ (-d / 400))), d
\* the lead in rating.  The k-th entry is the largest d that yields k points.
LargestLead ==
  <<636, 436, 338, 269, 214, 168, 126, 88, 52, 17,
    -18, -53, -89, -127, -169, -215, -270, -339, -437, -637>>

PointsForVictory(rating, other) ==
  Cardinality({k \in DOMAIN LargestLead : rating - other <= LargestLead[k]})

\* SCORE_DRAW is half a victory: ten of the RATING_CHANGE_FACTOR points less.
PointsForDraw(rating, other) == PointsForVictory(rating, other) - 10

\* In proportion to the rating.
ShareLosingTeam(r, team, a, points) ==
  RoundedQuotient(r[a] * points, SumFunctionOnSet(r, team))

ProductOfOthers(r, team, a) ==
  FoldFunctionOnSet(LAMBDA x, y : x * y, 1, r, team \ {a})

\* In proportion to the inverse of the rating; numerator and denominator are
\* multiplied with the ratings of the whole team.
ShareWinningTeam(r, team, a, points) ==
  RoundedQuotient(ProductOfOthers(r, team, a) * points,
    SumFunctionOnSet([b \in team |-> ProductOfOthers(r, team, b)], team))
=============================================================================
