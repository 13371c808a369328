----------------------------- MODULE GameStart -----------------------------
(***************************************************************************)
(* The coroutine startGame: connect to the game server, send StartGame,    *)
(* wait for the answer, send the users of the lobby to the game and erase  *)
(* the lobby.  It keeps an iterator to the lobby and a reference to the     *)
(* data of the session that spawned it across every co_await.  The game    *)
(* server is outside the repository; it answers a StartGame at most once.  *)
(***************************************************************************)
EXTENDS MatchmakingState

\* What the coroutine captured is still there.
CapturesExist(s) ==
  starts[s].lobby \in Live(gameLobbies) /\ starts[s].owner # Gone

StartEnds(s) == starts' = [starts EXCEPT ![s] = IdleStart]

\* Connected and StartGame sent; it names the users of the lobby.
StartGameSent(s) ==
  /\ Running
  /\ starts[s].phase = "connecting"
  /\ \/ ~CapturesExist(s) /\ UsesDestroyedObject
     \/ /\ CapturesExist(s)
        /\ starts' = [starts EXCEPT ![s].phase = "asked", ![s].handler = FALSE]
        /\ UNCHANGED <<sessionVars, database, jobs, gameLobbies, requeue, fault>>

\* Resolving, connecting or the handshake throws.  Only a start that an
\* acceptance spawned has the handler that ends the invitation.
StartGameFails(s) ==
  LET id == starts[s].lobby
  IN  /\ Running
      /\ starts[s].phase = "connecting"
      /\ \/ starts[s].handler /\ ~CapturesExist(s) /\ UsesDestroyedObject
         \/ /\ starts[s].handler => CapturesExist(s)
            /\ StartEnds(s)
            /\ gameLobbies' = IF starts[s].handler
                              THEN Erase(CancelTimer(gameLobbies, id), id)
                              ELSE gameLobbies
            /\ UNCHANGED <<sessionVars, database, jobs, requeue, fault>>

\* The first session of every user of the lobby who has one.
FirstSessions(l) ==
  {D \in SUBSET {c \in Conn : accountName[c] \in Members(l)} :
     \A a \in Members(l) :
       /\ SessionsOf(a) # {} => D \cap SessionsOf(a) # {}
       /\ \A c, d \in D \cap SessionsOf(a) : c = d}

\* StartGameSuccess: those of the sessions that are LoggedIn connect to the
\* game, the others have no transition for ConnectToGame.
SendUsersToGame(l) ==
  \E D \in FirstSessions(l) :
    LET going == {c \in D : state[c] = "LoggedIn"}
    IN  /\ state' = [c \in Conn |-> IF c \in going THEN "WaitForConnectToGame"
                                    ELSE state[c]]
        /\ link' = [c \in Conn |-> IF c \in going THEN "connecting" ELSE link[c]]

\* The answer; after any answer the lobby is erased.
StartGameAnswered(s, success) ==
  LET id == starts[s].lobby
  IN  /\ Running
      /\ starts[s].phase = "asked"
      /\ \/ ~CapturesExist(s) /\ UsesDestroyedObject
         \/ /\ CapturesExist(s)
            /\ \/ success /\ SendUsersToGame(gameLobbies.lobby[id])
               \/ ~success /\ UNCHANGED <<state, link>>
            /\ gameLobbies' = Erase(gameLobbies, id)
            /\ StartEnds(s)
            /\ UNCHANGED <<accountName, online, database, jobs, requeue, fault>>

\* The connection ends without an answer: nothing is done about the lobby.
StartGameUnanswered(s) ==
  /\ Running
  /\ starts[s].phase = "asked"
  /\ StartEnds(s)
  /\ UNCHANGED <<sessionVars, database, jobs, gameLobbies, requeue, fault>>

GameStartNext ==
  \E s \in StartId :
    \/ StartGameSent(s) \/ StartGameFails(s) \/ StartGameUnanswered(s)
    \/ \E success \in GameAnswers : StartGameAnswered(s, success)
=============================================================================
