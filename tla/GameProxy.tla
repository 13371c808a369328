----------------------------- MODULE GameProxy -----------------------------
(***************************************************************************)
(* The connection of one user to the game server: connectToGame, and the   *)
(* states WaitForConnectToGame and ProxyToGame.  The connection holds the  *)
(* Matchmaking object, so that it can outlive the client.                  *)
(***************************************************************************)
EXTENDS MatchmakingState

\* The connection ends.  A session whose client has gone is destroyed then.
LinkEnds(c, next) ==
  /\ link' = [link EXCEPT ![c] = "none"]
  /\ \/ /\ c \in online
        /\ GoTo(c, next)
        /\ UNCHANGED <<gameLobbies, starts, jobs>>
     \/ /\ c \notin online
        /\ GoTo(c, "Closed")
        /\ gameLobbies' = ForgetOwner(gameLobbies, c)
        /\ starts' = ForgottenStarts(c)
        /\ jobs' = ForgottenJobs(c)
  /\ UNCHANGED <<accountName, online, database, requeue, fault>>

\* ConnectGameError: reported to the user, in the same state, which nothing
\* but ConnectToGameSuccess leaves.
ConnectGameError(c) ==
  /\ Running
  /\ link[c] = "connecting"
  /\ LinkEnds(c, state[c])

\* Handshake done and ConnectToGame sent.
GameConnected(c) ==
  /\ Running
  /\ link[c] = "connecting"
  /\ link' = [link EXCEPT ![c] = "first"]
  /\ UNCHANGED <<state, accountName, online, database, jobs, gameLobbies,
                 starts, requeue, fault>>

\* Only the first message is looked at for ConnectToGameSuccess.
FirstMessageFromGame(c, success) ==
  /\ Running
  /\ link[c] = "first"
  /\ link' = [link EXCEPT ![c] = "open"]
  /\ IF success THEN GoTo(c, "ProxyToGame") ELSE UNCHANGED state
  /\ UNCHANGED <<accountName, online, database, jobs, gameLobbies, starts,
                 requeue, fault>>

\* Mutant: the user is logged in again while the connection still closes.
LeaveGameAtOnce(c) ==
  /\ Running
  /\ link[c] = "open"
  /\ state[c] = "ProxyToGame"
  /\ link' = [link EXCEPT ![c] = "closing"]
  /\ GoTo(c, "LoggedIn")
  /\ UNCHANGED <<accountName, online, database, jobs, gameLobbies, starts,
                 requeue, fault>>

\* The game lets the user go: leaveGame closes the connection.
LeaveGameSuccess(c) ==
  /\ Running
  /\ link[c] = "open"
  /\ state[c] = "ProxyToGame"
  /\ link' = [link EXCEPT ![c] = "closing"]
  /\ UNCHANGED <<state, accountName, online, database, jobs, gameLobbies,
                 starts, requeue, fault>>

\* ConnectionToGameLost has a transition in ProxyToGame only.
ConnectionToGameLost(c) ==
  /\ Running
  /\ link[c] \in {"first", "open", "closing"}
  /\ LinkEnds(c, IF state[c] = "ProxyToGame" THEN "LoggedIn" ELSE state[c])

GameProxyNext ==
  \E c \in Conn :
    \/ ConnectGameError(c) \/ GameConnected(c)
    \/ \E success \in BOOLEAN : FirstMessageFromGame(c, success)
    \/ LeaveGameSuccess(c) \/ ConnectionToGameLost(c)
=============================================================================
