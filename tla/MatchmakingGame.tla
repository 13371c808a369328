-------------------------- MODULE MatchmakingGame --------------------------
(***************************************************************************)
(* The messages of a game server on its own connection:                    *)
(* logic/matchmakingGame.cxx.  GameOver changes the ratings in the database *)
(* with calcRatingLoserAndWinner or calcRatingDraw and tells the users.     *)
(***************************************************************************)
EXTENDS Notifications, GameRating

CONSTANTS SizeModulus,   \* 2 ^ 64: ratings are size_t
          RatingBound    \* bound: a game ends only while ratings are in it

\* A game of accounts that are all rated 0 would divide by the sum 0.
ASSUME RatingBoundAssumption ==
  /\ SizeModulus \in Nat /\ SizeModulus > 1
  /\ RatingBound \subseteq 1 .. SizeModulus - 1
  /\ \A a \in Account : Rating[a] < SizeModulus
\* The queue compares with the rating at the start; new accounts have 1500.
ASSUME StartRatingAssumption ==
  \A a \in Registered \ InitialDatabase : Rating[a] = 1500

VARIABLE rating   \* Account::rating of the accounts in the database

RatingTypeOK == rating \in [Account -> 0 .. SizeModulus - 1]
RatingInit == rating = Rating

\* An average of nobody: numeric_cast of NaN.
NaN == {0, SizeModulus \div 2}

\* Mutants: a team loses the points of a game per member; a team wins in
\* proportion to the rating.
EveryLoserLosesAll(r, losers, a, points) ==
  LET new == (r[a] - points) % SizeModulus
  IN  IF new <= 0 THEN 1 ELSE new
HigherRatedWinMore(r, winners, a, points) ==
  (r[a] + ShareLosingTeam(r, winners, a, points)) % SizeModulus

\* size_t: a share above the rating wraps, and only zero becomes one.
RatingOfLoser(r, losers, a, points) ==
  LET new == (r[a] - ShareLosingTeam(r, losers, a, points)) % SizeModulus
  IN  IF new <= 0 THEN 1 ELSE new
RatingOfWinner(r, winners, a, points) ==
  (r[a] + ShareWinningTeam(r, winners, a, points)) % SizeModulus

NewRatings(r, losers, winners, points) ==
  [a \in DOMAIN r |->
     IF a \in losers THEN RatingOfLoser(r, losers, a, points)
     ELSE IF a \in winners THEN RatingOfWinner(r, winners, a, points)
     ELSE r[a]]

\* calcRatingLoserAndWinner
LoserAndWinner(r, losers, winners, nan) ==
  NewRatings(r, losers, winners,
    PointsForVictory(AverageOf(r, winners, nan), AverageOf(r, losers, nan)))

\* calcRatingDraw: whoever is rated above the others pays those who are not.
Draw(r, team, nan) ==
  LET change == [a \in team |->
        PointsForDraw(r[a], AverageOf(r, team \ {a}, nan))]
      losers == {a \in team : change[a] < 0}
  IN  NewRatings(r, losers, team \ losers, -SumFunctionOnSet(change, losers))

\* Mutant: the top rated players are sent before the ratings are stored.
SentBeforeStored == TopRatedPlayersSent(database, rating)
SentAfterStored == TopRatedPlayersSent(database, rating')

\* GameOver.  accountNamesToAccounts drops the names that are not in the
\* database: guests.
GameOver(losers, winners, draws, ratedGame) ==
  /\ Running
  /\ \A a \in database : rating[a] \in RatingBound
  /\ \/ ~ratedGame /\ UNCHANGED rating
     \/ /\ ratedGame /\ draws = {}
        /\ \E nan \in NaN :
             rating' = LoserAndWinner(rating, losers \cap database,
                                      winners \cap database, nan)
     \/ /\ ratedGame /\ draws # {}
        /\ \E nan \in NaN : rating' = Draw(rating, draws \cap database, nan)
  /\ UNCHANGED <<vars, players, channels>>
  /\ SentAfterStored

\* UserLeftGame.  For a user who is logged in the answer is an error, by the
\* guard isLoggedIn; for any other, cancelProxyToGame dereferences the end of
\* the list of sessions.
UserLeftGame(a) ==
  /\ Running
  /\ SessionsOf(a) = {}
  /\ UsesDestroyedObject
  /\ UNCHANGED rating
  /\ players' = NothingSent(players)
  /\ top' = NothingSent(top)
  /\ ChannelsKept

MatchmakingGameNext ==
  \/ \E losers \in SUBSET Account :
       \E winners \in SUBSET (Account \ losers) : GameOver(losers, winners, {}, TRUE)
  \/ \E draws \in (SUBSET Account) \ {{}} : GameOver({}, {}, draws, TRUE)
  \/ GameOver({}, {}, {}, FALSE)
  \/ \E a \in Account : UserLeftGame(a)
=============================================================================
