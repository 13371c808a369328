-------------------------- MODULE MatchmakingQueue --------------------------
(***************************************************************************)
(* The ranked and the unranked queue: joinMatchMakingQueue with            *)
(* matchingLobby, and leaveMatchMakingQueue, of logic/matchmaking.cxx, and *)
(* averageRating of logic/rating.cxx.  A queue is nothing but the lobbies   *)
(* of its type: a user waits in the first one that fits.                   *)
(***************************************************************************)
EXTENDS MatchmakingState, GameRating, SequencesExt

SumOfRatings(s) == FoldLeft(LAMBDA sum, a : sum + Rating[a], 0, s)

AverageRating(s) == RoundedQuotient(SumOfRatings(s), Len(s))

\* Mutant: only ratings above the average are refused.
IsNotRatedHigher(rating, average) == rating < average + AllowedRatingDifference

IsInRatingRange(rating, average) ==
  /\ rating < average + AllowedRatingDifference
  /\ average < rating + AllowedRatingDifference

\* The rating is only compared with that of a ranked lobby with space, for a
\* user in the database.  averageRating calls abort () for a member who is not
\* in it; the average of an empty lobby is a conversion of NaN, any value.
Aborts(a, l, type) ==
  /\ type = Ranked /\ l.lobbyAdminType = Ranked
  /\ HasSpace(l)
  /\ a \in database
  /\ \E m \in Members(l) : m \notin database
InRange(a, l) == IsInRatingRange(Rating[a], AverageRating(l.accountNames))

\* matchingLobby returns true; it returns false.
Matches(a, l, type) ==
  /\ l.lobbyAdminType = type
  /\ HasSpace(l)
  /\ type = Ranked => a \in database /\ (l.accountNames # <<>> => InRange(a, l))
Mismatches(a, l, type) ==
  \/ l.lobbyAdminType # type
  \/ ~HasSpace(l)
  \/ type = Ranked /\ (a \in database /\ l.accountNames # <<>> => ~InRange(a, l))

\* The search stops at the first lobby that matches, or in abort ().
Passed(a, type, k) ==
  LET l == gameLobbies.lobby[gameLobbies.order[k]]
  IN  Mismatches(a, l, type) /\ ~Aborts(a, l, type)

LobbyToAddUser(a, type) ==
  {gameLobbies.order[k] : k \in {i \in DOMAIN gameLobbies.order :
     LET l == gameLobbies.lobby[gameLobbies.order[i]]
     IN  /\ Matches(a, l, type)
         /\ ~Aborts(a, l, type)
         /\ \A j \in 1 .. i - 1 : Passed(a, type, j)}}

\* The session c joins a queue.  The user who fills a lobby makes it ask; a
\* new lobby never asks, even where one user is enough.
EnterQueue(c, type) ==
  LET a == accountName[c]
  IN  /\ ~InSomeLobby(gameLobbies, a)
      /\ \/ \E id \in LobbyToAddUser(a, type) :
              LET R == SetLobby(gameLobbies, id, AddUser(gameLobbies.lobby[id], a))
              IN  \/ IsFull(R.lobby[id]) /\ \E t \in FreeTimer(R) :
                       gameLobbies' = AskUsersToJoinGame(R, id, t, c)
                  \/ ~IsFull(R.lobby[id]) /\ gameLobbies' = R
         \/ /\ \A k \in DOMAIN gameLobbies.order : Passed(a, type, k)
            /\ \E id \in NewLobby :
                 gameLobbies' = Emplace(gameLobbies, id,
                   AddUser([EmptyLobby EXCEPT !.lobbyAdminType = type,
                                              !.maxUserCount = UsersNeeded[type]], a))

\* The search for a lobby compares the rating of the session's account.
SearchAborts(c, type) ==
  /\ ~InSomeLobby(gameLobbies, accountName[c])
  /\ \E k \in DOMAIN gameLobbies.order :
       /\ Aborts(accountName[c], gameLobbies.lobby[gameLobbies.order[k]], type)
       /\ \A j \in 1 .. k - 1 : Passed(accountName[c], type, j)

JoinMatchMakingQueue(c, type) ==
  /\ In(c, "LoggedIn")
  /\ accountName[c] # NoAccount
  /\ \/ SearchAborts(c, type) /\ ProcessStops("abort")
     \/ /\ EnterQueue(c, type)
        /\ UNCHANGED <<sessionVars, database, jobs, starts, requeue, fault>>

LeaveQuickGameQueue(c) ==
  /\ In(c, "LoggedIn")
  /\ FirstQueueOf(gameLobbies, accountName[c]) # {}
  /\ gameLobbies' \in LeaveQueue(gameLobbies, accountName[c])
  /\ UNCHANGED <<sessionVars, database, jobs, starts,
                 requeue, fault>>

\* The loop at the end of a declined or expired invitation: the running
\* handler sends JoinMatchMakingQueue to the session of the next user.  It is
\* refused in any state but LoggedIn and for a user who is in a lobby.
Requeue ==
  LET a == Head(requeue.users)
      others == Tail(requeue.users)
      stays == \/ SessionsOf(a) = {}
               \/ InSomeLobby(gameLobbies, a)
               \/ \E c \in SessionsOf(a) : state[c] # "LoggedIn"
      joining == {c \in SessionsOf(a) : state[c] = "LoggedIn"}
  IN  /\ fault = "none"
      /\ requeue.users # <<>>
      /\ \/ \E c \in joining : SearchAborts(c, requeue.type) /\ ProcessStops("abort")
         \/ /\ \/ \E c \in joining : EnterQueue(c, requeue.type)
               \/ stays /\ UNCHANGED gameLobbies
            /\ requeue' = IF others = <<>> THEN NobodyToRequeue
                          ELSE [requeue EXCEPT !.users = others]
            /\ UNCHANGED <<sessionVars, database, jobs, starts, fault>>

MatchmakingQueueNext ==
  \/ \E c \in Conn :
       \/ \E type \in Offered : JoinMatchMakingQueue(c, type)
       \/ LeaveQuickGameQueue(c)
  \/ Requeue
=============================================================================
