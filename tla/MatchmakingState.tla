-------------------------- MODULE MatchmakingState --------------------------
(***************************************************************************)
(* The state of the matchmaking server: one Matchmaking object with its    *)
(* state machine per client connection, the lobby list they share, the     *)
(* account database and the coroutines in flight.  The handlers are in     *)
(* AccountLogin, CustomLobby, MatchmakingQueue, GameInvitation, GameStart   *)
(* and GameProxy, which extend this module; Matchmaking composes them.      *)
(*                                                                         *)
(* The io_context runs on one thread: a handler runs without interruption   *)
(* up to its next co_await.  An action is such a piece of a handler.        *)
(***************************************************************************)
EXTENDS LobbyList

CONSTANTS NoAccount,       \* std::nullopt of User::accountName
          Guest,           \* the account names guests are given
          SteamAccount,    \* the account names that are Steam ids
          InitialDatabase, \* accounts in the database at the start
          Offered,         \* the queues clients join
          UsersNeeded,     \* MatchmakingOption, per queue
          MaxUserSize,     \* sizes clients ask for, lobbies of users
          Rating,          \* rating of an account in the database
          AllowedRatingDifference,
          GameAnswers,     \* to StartGame: TRUE is StartGameSuccess
          MaxStarts,       \* bound: coroutines startGame in flight
          MaxJobs          \* bound: login coroutines in flight

ASSUME AccountAssumption ==
  /\ NoAccount \notin Account
  /\ Guest \subseteq Account
  /\ SteamAccount \subseteq Account \ Guest
  /\ InitialDatabase \subseteq Account \ Guest
ASSUME QueueAssumption ==
  /\ Offered \subseteq QueueType
  /\ UsersNeeded \in [QueueType -> Nat \ {0}]
ASSUME SizeAssumption == MaxUserSize \subseteq Nat
ASSUME GameAssumption == GameAnswers \subseteq BOOLEAN
ASSUME RatingAssumption ==
  Rating \in [Account -> Nat] /\ AllowedRatingDifference \in Nat
ASSUME StateBounds == MaxStarts \in Nat /\ MaxJobs \in Nat

VARIABLES
  state,        \* the state of a connection's machine; "Closed": no object
  accountName,  \* User::accountName of a connection
  online,       \* the connections whose client is connected
  link,         \* the connection's own connection to the game server
  database,     \* the accounts that exist
  jobs,         \* doHashPassword, doCheckPassword, doCheckSteam in flight
  gameLobbies,  \* the shared list and its timers, see LobbyList
  starts,       \* startGame in flight
  requeue,      \* users the running handler has yet to put back in a queue
  fault         \* why the process has stopped

sessionVars == <<state, accountName, online, link>>
vars == <<state, accountName, online, link, database, jobs, gameLobbies,
          starts, requeue, fault>>

Registered == Account \ Guest
StartId == 1 .. MaxStarts
JobId == 1 .. MaxJobs

State == {"Closed", "NotLoggedIn", "WaitingForPasswordHashed",
          "WaitingForPasswordCheck", "WaitingForCheckSteam",
          "WaitingForUserWantsToRelogGameLobby", "LoggedIn",
          "WaitForConnectToGame", "ProxyToGame"}

\* "first": connected, no message of the game server handled yet.
Link == {"none", "connecting", "first", "open", "closing"}

\* ok: the password matches.  "done": the result is fixed and its handler is
\* queued, so that cancelAndResetTimer comes too late.
Jobs == [phase : {"idle", "running", "done"},
         kind : {"hash", "check", "steam"},
         conn : Owner, account : Account \cup {NoAccount}, ok : BOOLEAN]
IdleJob == [phase |-> "idle", kind |-> "hash", conn |-> Gone,
            account |-> NoAccount, ok |-> FALSE]

\* "asked": StartGame is sent, the answer is awaited.  handler: the coroutine
\* was spawned with the completion handler that cleans up after a failure.
Starts == [phase : {"idle", "connecting", "asked"},
           lobby : LobbyId \cup {NoLobby}, owner : Owner, handler : BOOLEAN]
IdleStart == [phase |-> "idle", lobby |-> NoLobby, owner |-> Gone,
              handler |-> FALSE]

NobodyToRequeue == [users |-> <<>>, type |-> Unranked]

TypeOK ==
  /\ state \in [Conn -> State]
  /\ accountName \in [Conn -> Account \cup {NoAccount}]
  /\ online \subseteq Conn
  /\ link \in [Conn -> Link]
  /\ database \subseteq Registered
  /\ jobs \in [JobId -> Jobs]
  /\ gameLobbies \in LobbyLists
  /\ starts \in [StartId -> Starts]
  /\ requeue \in [users : Seq(Account), type : QueueType]
  /\ fault \in {"none", "dangling", "abort"}

Init ==
  /\ state = [c \in Conn |-> "Closed"]
  /\ accountName = [c \in Conn |-> NoAccount]
  /\ online = {}
  /\ link = [c \in Conn |-> "none"]
  /\ database = InitialDatabase
  /\ jobs = [j \in JobId |-> IdleJob]
  /\ gameLobbies = NoLobbies
  /\ starts = [s \in StartId |-> IdleStart]
  /\ requeue = NobodyToRequeue
  /\ fault = "none"
----------------------------------------------------------------------------
\* The io_context picks the next handler.  A process that has used a destroyed
\* object or has called abort () is not followed any further.
Running == fault = "none" /\ requeue = NobodyToRequeue

\* The process is over, and with it everything but the database.
ProcessStops(why) ==
  /\ fault' = why
  /\ state' = [c \in Conn |-> "Closed"]
  /\ accountName' = [c \in Conn |-> NoAccount]
  /\ online' = {}
  /\ link' = [c \in Conn |-> "none"]
  /\ jobs' = [j \in JobId |-> IdleJob]
  /\ gameLobbies' = NoLobbies
  /\ starts' = [s \in StartId |-> IdleStart]
  /\ requeue' = NobodyToRequeue
  /\ UNCHANGED database

\* A handler uses a lobby that was erased or a session that was destroyed.
UsesDestroyedObject == ProcessStops("dangling")

In(c, s) == Running /\ c \in online /\ state[c] = s
GoTo(c, s) == state' = [state EXCEPT ![c] = s]

\* isLoggedInWithAccountName.  The list of sessions is in the order of
\* connection, which is not modelled: where two sessions share an account,
\* either may be the first.
SessionsOf(a) == {c \in Conn : accountName[c] = a}

FreeStart == Least({s \in StartId : starts[s].phase = "idle"})
FreeJob == Least({j \in JobId : jobs[j].phase = "idle"})
NewLobby ==
  FreeLobby(gameLobbies, {starts[s].lobby : s \in StartId})

\* co_spawn of startGame for the lobby id by the session c.
SpawnStartGame(s, id, c, handler) ==
  starts' = [starts EXCEPT ![s] = [phase |-> "connecting", lobby |-> id,
                                   owner |-> c, handler |-> handler]]

\* The object of c is destroyed: every coroutine that captured it keeps a
\* dangling reference.  The timer a password coroutine waits for is destroyed
\* too, which ends the coroutine, unless its result was first.
ForgottenStarts(c) ==
  [s \in StartId |-> IF starts[s].owner = c
                     THEN [starts[s] EXCEPT !.owner = Gone] ELSE starts[s]]
ForgottenJobs(c) ==
  [j \in JobId |->
     IF jobs[j].conn # c THEN jobs[j]
     ELSE IF jobs[j].phase = "running" /\ jobs[j].kind # "steam" THEN IdleJob
     ELSE [jobs[j] EXCEPT !.conn = Gone]]

\* askUsersToJoinGame.  The first user of a lobby the users run has asked for
\* the game and is ready.
AskUsersToJoinGame(L, id, t, c) ==
  LET A == StartTimer(L, id, t, c)
      l == A.lobby[id]
  IN  IF l.lobbyAdminType = Custom
      THEN SetLobby(A, id, [l EXCEPT !.readyUsers =
                              Append(l.readyUsers, l.accountNames[1])])
      ELSE A
=============================================================================
