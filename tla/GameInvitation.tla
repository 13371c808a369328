--------------------------- MODULE GameInvitation ---------------------------
(***************************************************************************)
(* Asking the users of a lobby to join a game: createGame, wantsToJoinGame *)
(* and the timer of the invitation (GameLobby::runTimer with the callback  *)
(* of askUsersToJoinGame).                                                 *)
(***************************************************************************)
EXTENDS MatchmakingState, SequencesExt

\* createGame.  A single user starts at once, without a handler for failures
\* and without marking the lobby, so that the request can be repeated.
CreateGame(c) ==
  /\ In(c, "LoggedIn")
  /\ \E id \in FirstLobbyOf(gameLobbies, accountName[c]) :
       LET l == gameLobbies.lobby[id]
       IN  /\ ~l.waiting
           /\ IsGameLobbyAdmin(l, accountName[c])
           /\ \/ /\ Len(l.accountNames) > 1
                 /\ Len(l.readyUsers) < MaxReady
                 /\ \E t \in FreeTimer(gameLobbies) :
                      gameLobbies' = AskUsersToJoinGame(gameLobbies, id, t, c)
                 /\ UNCHANGED starts
              \/ /\ Len(l.accountNames) = 1
                 /\ \E s \in FreeStart : SpawnStartGame(s, id, c, FALSE)
                 /\ UNCHANGED gameLobbies
  /\ UNCHANGED <<sessionVars, database, jobs, requeue, fault>>

\* Mutants: a user may answer twice; the last acceptance is not noticed.
HasNeverAccepted(l, a) == FALSE
IsReadyLate(l) == Len(l.readyUsers) > Len(l.accountNames)

HasAccepted(l, a) == a \in Ready(l)
AllAccepted(l) == Len(l.readyUsers) = Len(l.accountNames)
AcceptedBy(l, a) == [l EXCEPT !.readyUsers = Append(l.readyUsers, a)]

\* wantsToJoinGame, accepted.  The game starts when as many users are ready
\* as the lobby has; the invitation and its timer keep running.
AcceptGame(c) ==
  /\ In(c, "LoggedIn")
  /\ \E id \in FirstInvitationOf(gameLobbies, accountName[c]) :
       LET l == AcceptedBy(gameLobbies.lobby[id], accountName[c])
       IN  /\ ~HasAccepted(gameLobbies.lobby[id], accountName[c])
           /\ Len(l.readyUsers) <= MaxReady
           /\ gameLobbies' = SetLobby(gameLobbies, id, l)
           /\ \/ /\ AllAccepted(l)
                 /\ \E s \in FreeStart : SpawnStartGame(s, id, c, TRUE)
              \/ /\ ~AllAccepted(l)
                 /\ UNCHANGED starts
  /\ UNCHANGED <<sessionVars, database, jobs, requeue, fault>>

\* The bounds leave room for everybody who is put back: a timer and a lobby.
RoomFor(L, users) ==
  /\ Len(users) <= Cardinality({t \in TimerId : L.timer[t].phase = "idle"})
  /\ Len(users) <= Cardinality(LobbyId \ (Live(L) \cup Referred(L)
                                 \cup {starts[s].lobby : s \in StartId}))

\* A mutant of DissolveQueueLobby: the remaining users are not put back.
DissolveForgetsUsers(L, id, users) ==
  /\ RoomFor(Erase(L, id), users)
  /\ gameLobbies' = Erase(L, id)
  /\ requeue' = NobodyToRequeue

\* The lobby is erased and its remaining users go back to the queue, one by
\* one, before the handler ends (Requeue of MatchmakingQueue).
DissolveQueueLobby(L, id, users) ==
  /\ RoomFor(Erase(L, id), users)
  /\ gameLobbies' = Erase(L, id)
  /\ requeue' = IF users = <<>> THEN NobodyToRequeue
                ELSE [users |-> users, type |-> L.lobby[id].lobbyAdminType]

\* wantsToJoinGame, declined.
DeclineGame(c) ==
  /\ In(c, "LoggedIn")
  /\ \E id \in FirstInvitationOf(gameLobbies, accountName[c]) :
       \/ /\ gameLobbies.lobby[id].lobbyAdminType \in QueueType
          /\ DissolveQueueLobby(gameLobbies, id,
               RemoveUser(gameLobbies.lobby[id], accountName[c]).accountNames)
       \/ /\ gameLobbies.lobby[id].lobbyAdminType = Custom
          /\ gameLobbies' = CancelTimer(gameLobbies, id)
          /\ UNCHANGED requeue
  /\ UNCHANGED <<sessionVars, database, jobs, starts, fault>>

Expired == {t \in TimerId : gameLobbies.timer[t].phase = "expired"}

\* The time to accept is over: the completion of the wait is queued.
TimerExpires(t) ==
  /\ Running
  /\ Cardinality(Expired) < MaxExpired
  /\ gameLobbies.timer[t].phase = "armed"
  /\ gameLobbies' = SetTimer(gameLobbies, t,
                             [gameLobbies.timer[t] EXCEPT !.phase = "expired"])
  /\ UNCHANGED <<sessionVars, database, jobs, starts, requeue, fault>>

\* The users of a lobby who are ready, in the order of the lobby.
ReadyInOrder(l) ==
  {users \in SeqOf(Ready(l), Len(l.accountNames)) :
     /\ ToSet(users) = Ready(l) \cap Members(l)
     /\ \A i, j \in DOMAIN users : i < j =>
          \E m, n \in DOMAIN l.accountNames :
            m < n /\ l.accountNames[m] = users[i] /\ l.accountNames[n] = users[j]}

\* runTimer resumes, whatever has become of the lobby and of the session that
\* asked.  Users of a queue lobby who are not ready are out of the queue; in a
\* lobby of users the ready ones stay recorded.
TimerFires(t) ==
  LET x == gameLobbies.timer[t]
      L == SetTimer(gameLobbies, t, IdleTimer)
      l == L.lobby[x.lobby]
      R == SetLobby(L, x.lobby, InvitationExpired(l))
  IN  /\ Running
      /\ x.phase = "expired"
      /\ \/ /\ x.lobby \notin Live(gameLobbies) \/ x.owner = Gone
            /\ UsesDestroyedObject
         \/ /\ x.lobby \in Live(gameLobbies) /\ x.owner # Gone
            /\ \/ /\ l.lobbyAdminType \in QueueType
                  /\ \E users \in ReadyInOrder(l) :
                       DissolveQueueLobby(R, x.lobby, users)
               \/ /\ l.lobbyAdminType = Custom
                  /\ gameLobbies' = R
                  /\ UNCHANGED requeue
            /\ UNCHANGED <<sessionVars, database, jobs, starts, fault>>

GameInvitationNext ==
  \/ \E c \in Conn : CreateGame(c) \/ AcceptGame(c) \/ DeclineGame(c)
  \/ \E t \in TimerId : TimerExpires(t) \/ TimerFires(t)
=============================================================================
