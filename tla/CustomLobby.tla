---------------------------- MODULE CustomLobby ----------------------------
(***************************************************************************)
(* Lobbies that users create, join, resize and leave: createGameLobby,     *)
(* joinGameLobby, setMaxUserSizeInCreateGameLobby and leaveGameLobby of    *)
(* logic/matchmaking.cxx.  A request that is only answered with an error   *)
(* changes nothing and is not an action; a session without account name    *)
(* has every request fail.                                                 *)
(***************************************************************************)
EXTENDS MatchmakingState

HasAccount(c) == In(c, "LoggedIn") /\ accountName[c] # NoAccount

\* An unused name, by a user who is in no lobby at all.
CreateGameLobby(c, n) ==
  /\ HasAccount(c)
  /\ LobbiesNamed(gameLobbies, n) = {}
  /\ ~InSomeLobby(gameLobbies, accountName[c])
  /\ \E id \in NewLobby :
       gameLobbies' = Emplace(gameLobbies, id,
                        AddUser([EmptyLobby EXCEPT !.name = n], accountName[c]))
  /\ UNCHANGED <<sessionVars, database, jobs, starts, requeue, fault>>

\* Only the lobby that is joined is looked at: the user may be in another one,
\* and the invitation of this one may be running.
JoinGameLobby(c, n) ==
  /\ HasAccount(c)
  /\ \E id \in LobbiesNamed(gameLobbies, n) :
       /\ CanAddUser(gameLobbies.lobby[id], accountName[c])
       /\ gameLobbies' = SetLobby(gameLobbies, id,
                           AddUser(gameLobbies.lobby[id], accountName[c]))
  /\ UNCHANGED <<sessionVars, database, jobs, starts, requeue, fault>>

SetMaxUserSizeInCreateGameLobby(c, n) ==
  /\ HasAccount(c)
  /\ \E id \in FirstLobbyOf(gameLobbies, accountName[c]) :
       LET l == gameLobbies.lobby[id]
       IN  /\ ~l.waiting
           /\ IsGameLobbyAdmin(l, accountName[c])
           /\ CanSetMaxUserCount(l, n)
           /\ gameLobbies' = SetLobby(gameLobbies, id, [l EXCEPT !.maxUserCount = n])
  /\ UNCHANGED <<sessionVars, database, jobs, starts, requeue, fault>>

LeaveGameLobby(c) ==
  /\ HasAccount(c)
  /\ \E id \in FirstLobbyOf(gameLobbies, accountName[c]) :
       /\ gameLobbies.lobby[id].lobbyAdminType = Custom
       /\ gameLobbies' = LeaveLobby(gameLobbies, id, accountName[c])
  /\ UNCHANGED <<sessionVars, database, jobs, starts, requeue, fault>>

CustomLobbyNext ==
  \E c \in Conn :
    \/ \E n \in LobbyName : CreateGameLobby(c, n) \/ JoinGameLobby(c, n)
    \/ \E n \in MaxUserSize : SetMaxUserSizeInCreateGameLobby(c, n)
    \/ LeaveGameLobby(c)
=============================================================================
