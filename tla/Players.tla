------------------------------ MODULE Players ------------------------------
(***************************************************************************)
(* The matchmaking server with what it tells its users: Matchmaking, the    *)
(* notifications every one of its steps causes, and the game server's       *)
(* reports of finished games.                                               *)
(***************************************************************************)
EXTENDS Matchmaking, MatchmakingGame

\* Matchmaking takes the rating of an account for constant where it compares
\* ratings, which it does in the ranked queue only.
ASSUME NoRankedQueue == Ranked \notin Offered

playersVars == <<vars, notifyVars, rating>>

PlayersInit == Init /\ NotificationInit /\ RatingInit

\* What a step of a session, a coroutine or a timer tells the subscribers.
\* The top rated players are sent for an account that was created.
Notified ==
  /\ LoggedInPlayersSent
  /\ IF database' # database
     THEN TopRatedPlayersSent(database', rating)
     ELSE top' = NothingSent(top)
  /\ ChannelsKept
  /\ UNCHANGED rating

PlayersNext ==
  \/ Next /\ Notified
  \/ NotificationNext /\ UNCHANGED rating
  \/ MatchmakingGameNext

PlayersSpec == PlayersInit /\ [][PlayersNext]_playersVars
FairPlayersSpec == PlayersSpec /\ Fairness

PlayersTypeOK == TypeOK /\ NotificationTypeOK /\ RatingTypeOK
----------------------------------------------------------------------------
\* Nobody who is logged in is missing from the last list a subscriber got:
\* every way to log in, to come back from a game, to log out and to disconnect
\* sends a new list, with the names after the step.  The list may still name
\* someone who has gone (cleanUp, and CreateAccount by a user who is logged in).
NoLoggedInPlayerMissing ==
  \A c \in Conn : players[c].sent => NamesIn(accountName) \subseteq players[c].list

\* The last list of top rated players a subscriber got is that of the database:
\* nobody outside it is rated higher than anyone in it, ratings are current, and
\* the rank is the one GetRatedPlayer answers, one more than the number of
\* accounts rated higher.
TopRatedIsCurrent ==
  \A c \in Conn : top[c].sent =>
    LET names == {p.name : p \in top[c].list}
    IN  /\ Cardinality(names) = Min({TopCount, Cardinality(database)})
        /\ \A a \in database \ names, p \in top[c].list : rating[a] <= p.rating
        /\ \A p \in top[c].list :
             /\ p.name \in database
             /\ p.rating = rating[p.name]
             /\ p.rank = 1 + Cardinality({a \in database : rating[a] > rating[p.name]})

\* A message to a channel reaches a session only if the account that uses the
\* session now joined the channel, or nobody had a name when it was joined: no
\* login inherits the channels of the account that used the connection before.
ChannelsOfTheAccount ==
  \A c \in Conn : state[c] = "LoggedIn" =>
    \A p \in channels[c] : p[2] \in {accountName[c], NoAccount}
----------------------------------------------------------------------------
(* Ratings after a game *)

Change(new, a) == new[a] - rating[a]

\* What the losers lose is what the winners win, up to rounding: half a point
\* for every player, in a game with accounts on both sides and in a draw of
\* several, whatever games came before.  Nobody plays against nobody here: the
\* conversion of NaN (the last argument, 0) is not used.
PointsConserved ==
  \A losers, winners \in SUBSET database :
    LET team == losers \cup winners
        Conserved(new) ==
          2 * SumFunctionOnSet([a \in team |-> Change(new, a)], team)
            \in -Cardinality(team) .. Cardinality(team)
    IN  /\ losers # {} /\ winners # {} /\ losers \cap winners = {}
             => Conserved(LoserAndWinner(rating, losers, winners, 0))
        /\ Cardinality(losers) > 1 /\ winners = {}
             => Conserved(Draw(rating, losers, 0))

\* "In the losing team the user with the most rating loses the most points",
\* "in the winning team the user with the most rating gets the least points".
SharesFollowRating ==
  \A losers \in SUBSET database : \A winners \in SUBSET (database \ losers) :
    \A nan \in NaN :
      LET new == LoserAndWinner(rating, losers, winners, nan)
      IN  \A side \in {losers, winners} : \A a, b \in side :
            rating[a] > rating[b] => Change(new, a) <= Change(new, b)

\* The comment of ratingShareLosingTeam: the members of the losing team lose
\* points, those with the most rating most.  Nobody's rating rises by a defeat.
LosersNeverGain ==
  [][\A losers \in SUBSET database : \A winners \in SUBSET (database \ losers) :
       winners # {} /\ GameOver(losers, winners, {}, TRUE)
         => \A a \in losers : Change(rating', a) <= 0
    ]_rating
=============================================================================
