-------------------------- MODULE QueueRefinement --------------------------
(***************************************************************************)
(* The lobbies of the unranked queue, with their timers, answers and        *)
(* coroutines, implement QueueService.  An empty lobby, which the list may  *)
(* keep, is no group, as is a node that is not in the list.                 *)
(***************************************************************************)
EXTENDS Matchmaking

IsGroup(id) == id \in Live(gameLobbies) /\ Lobby(id).lobbyAdminType = Unranked

GroupUsers == [id \in LobbyId |-> IF IsGroup(id) THEN Members(Lobby(id)) ELSE {}]
GroupsAsking == {id \in LobbyId : IsGroup(id) /\ Lobby(id).waiting}
GroupAccepted == [id \in LobbyId |-> IF IsGroup(id) THEN Ready(Lobby(id)) ELSE {}]
GroupLaunches ==
  {<<s, starts[s].lobby>> : s \in {r \in StartId : starts[r].phase # "idle"}}
GroupTimeouts ==
  {<<t, gameLobbies.timer[t].lobby>> :
     t \in {u \in TimerId : gameLobbies.timer[u].phase = "expired"}}

NamedSessions == {c \in Conn : accountName[c] # NoAccount}

Service == INSTANCE QueueService WITH
  Player <- Account, Group <- LobbyId, Session <- Conn, Size <- UsersNeeded[Unranked],
  Launch <- StartId, Timeout <- TimerId,
  users <- GroupUsers, asking <- GroupsAsking, accepted <- GroupAccepted,
  launches <- GroupLaunches, timeouts <- GroupTimeouts, returning <- ToSet(requeue.users),
  here <- NamedSessions, over <- fault # "none"

\* Every step of the server is a step of the queue service or none it sees:
\* whatever is cancelled, expires late, is put back or disconnects, users are
\* asked in full groups, a game is launched by the last acceptance and by
\* nothing else, and when an invitation ends everybody who accepted is put back.
ImplementsQueueService == Service!Spec
=============================================================================
