---------------------------- MODULE Matchmaking ----------------------------
(***************************************************************************)
(* The matchmaking server: every handler of the sessions, the timers, the  *)
(* coroutines and the connections to the game server, and what must hold.  *)
(***************************************************************************)
EXTENDS AccountLogin, CustomLobby, MatchmakingQueue, GameInvitation,
        GameStart, GameProxy

\* A process that used a destroyed object or aborted stays as it is.
Crashed == fault # "none" /\ UNCHANGED vars

Next ==
  \/ AccountLoginNext
  \/ CustomLobbyNext
  \/ MatchmakingQueueNext
  \/ GameInvitationNext
  \/ GameStartNext
  \/ GameProxyNext
  \/ Crashed

Spec == Init /\ [][Next]_vars

\* The io_context runs queued handlers in the order they were queued, so none
\* waits forever behind others; a running handler ends; timers run out; the
\* thread pool finishes a hash.  Nothing is assumed of clients, of Steam and
\* of the game server.
Fairness ==
  /\ WF_vars(Requeue)
  /\ \A t \in TimerId : SF_vars(TimerExpires(t)) /\ SF_vars(TimerFires(t))
  /\ \A j \in JobId :
       /\ WF_vars(\E ok \in BOOLEAN : PasswordJobDone(j, ok))
       /\ SF_vars(PasswordHashed(j) \/ PasswordChecked(j) \/ StaleResult(j))

FairSpec == Spec /\ Fairness

Lobby(id) == gameLobbies.lobby[id]
EveryoneReady(l) == Members(l) \subseteq Ready(l)
LiveQueues == Live(gameLobbies) \cap Queues(gameLobbies)
----------------------------------------------------------------------------
(* The invitation of a lobby *)

\* A lobby waits for answers exactly while the timer it names still has to
\* fire for it: no sequence of cancelling, erasing, asking again and late
\* expiry leaves a lobby that waits with nothing to end the wait.
WaitingHasTimer == WaitingLobbiesHaveTimers(gameLobbies)

\* joinMatchMakingQueue and the loops that put users back never bring an
\* account into two lobbies of the queues, or into one lobby twice.
OneQueueLobbyPerAccount ==
  /\ \A id \in LobbyId : \A i, j \in DOMAIN Lobby(id).accountNames :
       Lobby(id).accountNames[i] = Lobby(id).accountNames[j] => i = j
  /\ \A id1, id2 \in Queues(gameLobbies) :
       Members(Lobby(id1)) \cap Members(Lobby(id2)) # {} => id1 = id2

\* No lobby has more users than it may have: joining, the return to the
\* queue and a new maximum agree on the bound.
WithinMaxUserCount ==
  \A id \in LobbyId : Len(Lobby(id).accountNames) <= Lobby(id).maxUserCount

\* A queue lobby of several users asks exactly while it is full: the last user
\* who joins starts the invitation, whoever leaves ends it.
QueueLobbyAsksWhileFull ==
  \A id \in LiveQueues :
    Lobby(id).maxUserCount > 1 => (Lobby(id).waiting <=> IsFull(Lobby(id)))

\* In a queue nobody is recorded as ready who is not in the lobby, nobody twice,
\* and nobody before the lobby asks.
QueueReadyAreMembers ==
  \A id \in LiveQueues : Lobby(id).maxUserCount > 1 =>
    /\ Ready(Lobby(id)) \subseteq Members(Lobby(id))
    /\ \A i, j \in DOMAIN Lobby(id).readyUsers :
         Lobby(id).readyUsers[i] = Lobby(id).readyUsers[j] => i = j
    /\ Ready(Lobby(id)) # {} => Lobby(id).waiting

\* Two users who are alone in a ranked lobby are in range of each other,
\* however they came to be in it: joining, or put back after an invitation.
RankedPairsInRange ==
  \A id \in Live(gameLobbies) :
    LET users == Lobby(id).accountNames
    IN  Lobby(id).lobbyAdminType = Ranked /\ Len(users) = 2
          => IsInRatingRange(Rating[users[1]], Rating[users[2]])

\* The starts that an acceptance spawned in a step.
NewStarts == {s \in StartId : starts[s].phase = "idle"
                              /\ starts'[s].phase = "connecting"
                              /\ starts'[s].handler}

\* A game of a queue starts only when every user of the lobby has accepted.
QueueStartNeedsEveryone ==
  [][\A s \in NewStarts :
       starts'[s].lobby \in Queues(gameLobbies) =>
         EveryoneReady(gameLobbies'.lobby[starts'[s].lobby])]_vars

\* While all who have answered are users of a lobby of users still, its game
\* starts only when every user has accepted: the admin is counted for createGame
\* ("drop first user because he is the admin and started createGame",
\* matchmaking.cxx:431), once, and everybody else is asked.  What an answer is
\* worth when the one who gave it leaves is another question.
CustomAnswersCountOnce ==
  [][\A s \in NewStarts :
       LET lobby == gameLobbies'.lobby[starts'[s].lobby]
       IN  /\ starts'[s].lobby \notin Queues(gameLobbies)
           /\ Ready(lobby) \subseteq Members(lobby)
           => EveryoneReady(lobby)]_vars

\* When the last user of a lobby of a queue accepts, the game starts.
QueueAcceptanceStarts ==
  [][\A id \in LiveQueues :
       /\ Lobby(id)'.readyUsers # Lobby(id).readyUsers
       /\ Lobby(id).waiting /\ Lobby(id)'.waiting
       /\ EveryoneReady(Lobby(id)')
       => \E s \in NewStarts : starts'[s].lobby = id]_vars

\* Nobody joins a queue lobby that is asking: those who answer are those who
\* were asked.
AskedUsersAreFixed ==
  [][\A id \in LiveQueues :
       Lobby(id).waiting /\ Lobby(id)'.waiting /\ Lobby(id).maxUserCount > 1
         => Members(Lobby(id)') \subseteq Members(Lobby(id))]_vars

\* An invitation ends, whatever the users do.
InvitationEnds ==
  \A id \in LobbyId :
    Lobby(id).waiting ~> ~Lobby(id).waiting \/ fault # "none"

\* When everybody has accepted and the game server cannot be reached, the lobby
\* is cleared and the process goes on: the handler of the failed startGame still
\* finds the lobby and the session it captured.
FailedStartIsCleanedUp ==
  [][\A s \in StartId : StartGameFails(s) => fault' = "none"]_vars
----------------------------------------------------------------------------
(* Sessions *)

\* An account that does not log in through Steam is used by one session at a
\* time, and so is a guest's: between the checks of a password, of the
\* database and of the other sessions no second login slips through.
OneSessionPerAccount ==
  \A c, d \in Conn :
    accountName[c] = accountName[d] /\ accountName[c] # NoAccount
      => c = d \/ accountName[c] \in SteamAccount

\* Whoever has an account name is logged in or in a game: no logout, failed
\* login or disconnect leaves a name on a session, where it would still receive
\* the messages of that account and block its login.
AccountOnlyWhenLoggedIn ==
  \A c \in Conn : accountName[c] # NoAccount =>
    /\ c \in online
    /\ state[c] \in {"LoggedIn", "WaitForConnectToGame", "ProxyToGame"}

\* user.hxx: "has_value() == true means user is logged in".
LoggedInHasAccount ==
  \A c \in Conn : state[c] = "LoggedIn" => accountName[c] # NoAccount

\* A session talks to the game server exactly in the states for it; in
\* particular a session that is LoggedIn again has no old connection left, and
\* a destroyed one has neither connection nor login coroutine.
LinkMatchesState ==
  \A c \in Conn :
    /\ link[c] \in {"connecting", "first"} => state[c] = "WaitForConnectToGame"
    /\ link[c] \in {"open", "closing"} =>
         state[c] \in {"WaitForConnectToGame", "ProxyToGame"}
    /\ state[c] = "ProxyToGame" => link[c] \in {"open", "closing"}
    /\ state[c] = "Closed" => c \notin online /\ \A j \in JobId : jobs[j].conn # c

\* A password request that has its coroutine ends.
PasswordRequestEnds ==
  \A c \in Conn :
    /\ (state[c] = "WaitingForPasswordHashed"
         /\ \E j \in JobId : jobs[j].conn = c /\ jobs[j].kind = "hash")
         ~> (state[c] # "WaitingForPasswordHashed" \/ fault # "none")
    /\ (state[c] = "WaitingForPasswordCheck"
         /\ \E j \in JobId : jobs[j].conn = c /\ jobs[j].kind = "check")
         ~> (state[c] # "WaitingForPasswordCheck" \/ fault # "none")

\* rating.cxx: the process calls abort () where a user of a ranked lobby is not
\* in the database.
NoAbort == fault # "abort"
=============================================================================
