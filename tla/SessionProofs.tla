--------------------------- MODULE SessionProofs ---------------------------
(***************************************************************************)
(* The sessions of the users, for every number of clients, accounts and    *)
(* login coroutines: no two sessions use one account, except through Steam *)
(* (SessionInv), and the states of a session, its account name, its client *)
(* and its connection to the game server fit together (LinkInv).           *)
(***************************************************************************)
EXTENDS MatchmakingProofs

\* alreadyLoggedIn keeps a second password login out, accountInDatabase a
\* second account of the same name.  The latter is about the database, the
\* property about sessions: it needs that the registered account of a session
\* is in the database, and so does the account of a password check.
AccountsOfSessionsExist ==
  \A c \in Conn : accountName[c] \in Registered => accountName[c] \in database
CheckedAccountsExist ==
  \A j \in JobId : jobs[j].phase # "idle" /\ jobs[j].kind = "check"
                     => jobs[j].account \in database

SessionInv ==
  OneSessionPerAccount /\ AccountsOfSessionsExist /\ CheckedAccountsExist

\* The login coroutines of a step go on, end, or are new ones that check the
\* password of an account in the database.
JobsGoOn ==
  \A j \in JobId : jobs'[j].phase # "idle" /\ jobs'[j].kind = "check"
    => jobs'[j].account \in database \/
       (/\ jobs[j].phase # "idle" /\ jobs[j].kind = "check"
        /\ jobs'[j].account = jobs[j].account)

\* A step in which sessions may only lose their accounts.
LEMMA NoLoginKeepsSessionInv ==
  ASSUME IInv, SessionInv, JobsGoOn, database \subseteq database',
         \A c \in Conn : accountName'[c] \in {accountName[c], NoAccount}
  PROVE  SessionInv'
<1>1. OneSessionPerAccount'
  BY DEF SessionInv, OneSessionPerAccount
<1>2. NoAccount \notin Registered
  BY AccountAssumption DEF Registered
<1>3. AccountsOfSessionsExist'
  BY <1>2 DEF SessionInv, AccountsOfSessionsExist
<1>4. CheckedAccountsExist'
  BY DEF SessionInv, CheckedAccountsExist, JobsGoOn
<1>5. QED
  BY <1>1, <1>3, <1>4 DEF SessionInv

\* A session logs in with an account no other session has, or with one of
\* Steam, that exists if it can.
LEMMA LoginKeepsSessionInv ==
  ASSUME IInv, SessionInv, JobsGoOn, database \subseteq database',
         NEW c \in Conn, NEW a \in Account,
         accountName' = [accountName EXCEPT ![c] = a],
         SessionsOf(a) = {} \/ a \in SteamAccount,
         a \in Registered => a \in database'
  PROVE  SessionInv'
<1>0. accountName \in [Conn -> Account \cup {NoAccount}]
  BY IInvParts DEF SessionsTyped
<1>1. accountName'[c] = a /\ \A d \in Conn \ {c} : accountName'[d] = accountName[d]
  BY <1>0
<1>2. \A d \in Conn : accountName[d] = a => a \in SteamAccount
  BY DEF SessionsOf
<1>3. OneSessionPerAccount'
  BY <1>1, <1>2 DEF SessionInv, OneSessionPerAccount
<1>4. AccountsOfSessionsExist'
  BY <1>1 DEF SessionInv, AccountsOfSessionsExist
<1>5. CheckedAccountsExist'
  BY DEF SessionInv, CheckedAccountsExist, JobsGoOn
<1>6. QED
  BY <1>3, <1>4, <1>5 DEF SessionInv

\* A process that stops has no sessions and no coroutines left.
LEMMA StopKeepsSessionInv ==
  ASSUME NEW why, IInv, SessionInv, ProcessStops(why)
  PROVE  SessionInv'
<1>1. JobsGoOn
  BY DEF ProcessStops, JobsGoOn, IdleJob
<1>2. \A c \in Conn : accountName'[c] = NoAccount
  BY DEF ProcessStops
<1>3. database' = database
  BY DEF ProcessStops
<1>4. QED
  BY <1>1, <1>2, <1>3, NoLoginKeepsSessionInv

\* A session that is destroyed takes its coroutines along.
LEMMA ForgottenJobsGoOn ==
  ASSUME IInv, NEW c \in Conn, jobs' = ForgottenJobs(c)
  PROVE  JobsGoOn
<1>1. \A j \in JobId : jobs[j] \in KnownJobs
  BY IInvParts DEF SessionsTyped
<1>2. ASSUME NEW j \in JobId
      PROVE  /\ jobs'[j].phase \in {"idle", jobs[j].phase}
             /\ jobs'[j].phase # "idle" => /\ jobs'[j].kind = jobs[j].kind
                                           /\ jobs'[j].account = jobs[j].account
  BY <1>1 DEF ForgottenJobs, IdleJob, KnownJobs, Jobs
<1>3. QED
  BY <1>2 DEF JobsGoOn

\* A coroutine that ends leaves the others alone.
LEMMA EndedJobGoesOn ==
  ASSUME IInv, NEW j \in JobId, jobs' = [jobs EXCEPT ![j] = IdleJob]
  PROVE  JobsGoOn
<1>1. jobs \in [JobId -> KnownJobs]
  BY IInvParts DEF SessionsTyped
<1>2. QED
  BY <1>1 DEF JobsGoOn, IdleJob

\* A new coroutine.
LEMMA StartedJobGoesOn ==
  ASSUME IInv, NEW c, NEW kind, NEW a, StartJob(c, kind, a),
         kind = "check" => a \in database
  PROVE  JobsGoOn
<1>1. jobs \in [JobId -> KnownJobs]
  BY IInvParts DEF SessionsTyped
<1>2. QED
  BY <1>1, FreeTypes DEF JobsGoOn, StartJob

\* A user who leaves the account.
LEMMA LeaveAccountOnlyLoses ==
  ASSUME IInv, NEW c \in Conn, LeaveAccount(c)
  PROVE  \A d \in Conn : accountName'[d] \in {accountName[d], NoAccount}
BY IInvParts DEF LeaveAccount, SessionsTyped

\* hashPassword and checkPassword give no session an account name.
LEMMA SpawnKeepsSessionInv ==
  ASSUME IInv, SessionInv, NEW c \in Conn, NEW kind, NEW a,
         SpawnPasswordJob(c, kind, a), kind = "check" => a \in database,
         UNCHANGED database
  PROVE  SessionInv'
<1>1. JobsGoOn
  <2>1. CASE StartJob(c, kind, a)
    BY <2>1, StartedJobGoesOn
  <2>2. CASE UNCHANGED jobs
    BY <2>2 DEF JobsGoOn
  <2>3. QED
    BY <2>1, <2>2 DEF SpawnPasswordJob
<1>2. \A d \in Conn : accountName'[d] \in {accountName[d], NoAccount}
  BY LeaveAccountOnlyLoses DEF SpawnPasswordJob
<1>3. QED
  BY <1>1, <1>2, NoLoginKeepsSessionInv
----------------------------------------------------------------------------
\* A step that has nothing to do with accounts.
LEMMA QuietKeepsSessionInv ==
  ASSUME IInv, SessionInv, UNCHANGED <<accountName, database, jobs>>
  PROVE  SessionInv'
BY DEF SessionInv, OneSessionPerAccount, AccountsOfSessionsExist, CheckedAccountsExist

\* What a client asks for, connects or ends keeps the invariant; a guest's name is
\* new.
LEMMA ClientLoginKeepsSessionInv ==
  ASSUME IInv, SessionInv, NEW c \in Conn,
         \/ Connect(c) \/ Disconnect(c)
         \/ CancelRequest(c) \/ RelogTo(c) \/ LogoutAccount(c)
         \/ \E g \in Guest : LoginAsGuest(c, g)
         \/ \E a \in Registered : CreateAccount(c, a) \/ LoginAccount(c, a)
         \/ \E a \in SteamAccount : LoginAccountSteam(c, a)
  PROVE  SessionInv'
<1>1. CASE Connect(c) \/ RelogTo(c)
  BY <1>1, QuietKeepsSessionInv DEF Connect, RelogTo
<1>2. CASE Disconnect(c)
  <2>1. JobsGoOn
    <3>1. CASE jobs' = ForgottenJobs(c)
      BY <3>1, ForgottenJobsGoOn
    <3>2. CASE UNCHANGED jobs
      BY <3>2 DEF JobsGoOn
    <3>3. QED
      BY <1>2, <3>1, <3>2 DEF Disconnect
  <2>2. \A d \in Conn : accountName'[d] \in {accountName[d], NoAccount}
    BY <1>2, IInvParts DEF Disconnect, SessionsTyped
  <2>3. QED
    BY <1>2, <2>1, <2>2, NoLoginKeepsSessionInv DEF Disconnect
<1>3. CASE CancelRequest(c)
  <2>1. JobsGoOn
    BY <1>3 DEF CancelRequest, JobsGoOn, IdleJob
  <2>2. QED
    BY <1>3, <2>1, NoLoginKeepsSessionInv DEF CancelRequest
<1>4. CASE LogoutAccount(c)
  <2>1. JobsGoOn
    BY <1>4 DEF LogoutAccount, JobsGoOn
  <2>2. QED
    BY <1>4, <2>1, LeaveAccountOnlyLoses, NoLoginKeepsSessionInv DEF LogoutAccount
<1>5. ASSUME NEW g \in Guest, LoginAsGuest(c, g) PROVE SessionInv'
  <2>1. JobsGoOn
    BY <1>5 DEF LoginAsGuest, JobsGoOn
  <2>2. SessionsOf(g) = {}
    BY <1>5 DEF LoginAsGuest, NameInUse
  <2>3. g \in Account /\ g \notin Registered
    BY AccountAssumption DEF Registered
  <2>4. QED
    BY <1>5, <2>1, <2>2, <2>3, LoginKeepsSessionInv DEF LoginAsGuest
<1>6. ASSUME NEW a \in Registered, CreateAccount(c, a) PROVE SessionInv'
  BY <1>6, SpawnKeepsSessionInv DEF CreateAccount
<1>7. ASSUME NEW a \in Registered, LoginAccount(c, a) PROVE SessionInv'
  BY <1>7, SpawnKeepsSessionInv DEF LoginAccount, AccountInDatabase
<1>8. ASSUME NEW a \in SteamAccount, LoginAccountSteam(c, a) PROVE SessionInv'
  <2>1. JobsGoOn
    BY <1>8, StartedJobGoesOn DEF LoginAccountSteam
  <2>2. QED
    BY <1>8, <2>1, NoLoginKeepsSessionInv DEF LoginAccountSteam
<1>9. QED
  BY <1>1, <1>2, <1>3, <1>4, <1>5, <1>6, <1>7, <1>8

\* The results of passwords and of Steam keep the invariant: a new account has no
\* session yet, a checked password logs in only where there is none.
LEMMA LoginJobKeepsSessionInv ==
  ASSUME IInv, SessionInv, NEW j \in JobId,
         \/ \E ok \in BOOLEAN : PasswordJobDone(j, ok)
         \/ PasswordHashed(j) \/ PasswordChecked(j) \/ StaleResult(j)
         \/ SteamLoginSuccess(j) \/ SteamLoginError(j) \/ SteamRequestFails(j)
         \/ ResumesAfterDisconnect(j)
  PROVE  SessionInv'
<1> DEFINE c == jobs[j].conn
           a == jobs[j].account
<1>0. jobs \in [JobId -> KnownJobs] /\ jobs[j] \in KnownJobs
  BY IInvParts DEF SessionsTyped
<1>1. ASSUME NEW kind, NEW phase, phase # "idle", Resumes(j, kind, phase)
      PROVE  /\ JobsGoOn
             /\ c \in Conn /\ a \in Registered /\ a \in Account
             /\ kind = "steam" => a \in SteamAccount
             /\ kind = "check" => a \in database
  BY <1>0, <1>1, EndedJobGoesOn
     DEF Resumes, KnownJobs, Registered, SessionInv, CheckedAccountsExist
<1>2. ASSUME NEW ok \in BOOLEAN, PasswordJobDone(j, ok) PROVE SessionInv'
  <2>1. JobsGoOn
    BY <1>0, <1>2 DEF PasswordJobDone, JobsGoOn, KnownJobs, Jobs
  <2>2. QED
    BY <1>2, <2>1, NoLoginKeepsSessionInv DEF PasswordJobDone, sessionVars
<1>3. CASE PasswordHashed(j)
  <2>1. Resumes(j, "hash", "done")
    BY <1>3 DEF PasswordHashed
  <2>2. CASE UNCHANGED <<accountName, database>>
    BY <1>1, <2>1, <2>2, NoLoginKeepsSessionInv
  <2>3. CASE a \notin database /\ LogIn(c, a) /\ database' = database \cup {a}
    <3>1. SessionsOf(a) = {}
      BY <1>1, <2>1, <2>3 DEF SessionsOf, SessionInv, AccountsOfSessionsExist
    <3>2. QED
      BY <1>1, <2>1, <2>3, <3>1, LoginKeepsSessionInv DEF LogIn
  <2>4. QED
    BY <1>3, <2>2, <2>3 DEF PasswordHashed, AccountInDatabase
<1>4. CASE PasswordChecked(j)
  <2>1. Resumes(j, "check", "done") /\ UNCHANGED database
    BY <1>4 DEF PasswordChecked
  <2>2. CASE UNCHANGED accountName
    BY <1>1, <2>1, <2>2, NoLoginKeepsSessionInv
  <2>3. CASE SessionsOf(a) = {} /\ LogIn(c, a)
    BY <1>1, <2>1, <2>3, LoginKeepsSessionInv DEF LogIn
  <2>4. QED
    BY <1>4, <2>2, <2>3 DEF PasswordChecked
<1>5. CASE StaleResult(j)
  <2>1. PICK kind : Resumes(j, kind, "done")
    BY <1>5 DEF StaleResult
  <2>2. QED
    BY <1>1, <1>5, <2>1, NoLoginKeepsSessionInv DEF StaleResult
<1>6. CASE SteamLoginSuccess(j)
  <2>1. Resumes(j, "steam", "running")
    BY <1>6 DEF SteamLoginSuccess
  <2>2. QED
    BY <1>1, <1>6, <2>1, LoginKeepsSessionInv DEF SteamLoginSuccess, LogIn
<1>7. CASE SteamLoginError(j)
  <2>1. Resumes(j, "steam", "running")
    BY <1>7 DEF SteamLoginError
  <2>2. QED
    BY <1>1, <1>7, <2>1, NoLoginKeepsSessionInv DEF SteamLoginError
<1>8. CASE SteamRequestFails(j)
  <2>1. JobsGoOn
    BY <1>8, EndedJobGoesOn DEF SteamRequestFails
  <2>2. QED
    BY <1>8, <2>1, NoLoginKeepsSessionInv DEF SteamRequestFails, sessionVars
<1>9. CASE ResumesAfterDisconnect(j)
  BY <1>9, StopKeepsSessionInv DEF ResumesAfterDisconnect, UsesDestroyedObject
<1>10. QED
  BY <1>2, <1>3, <1>4, <1>5, <1>6, <1>7, <1>8, <1>9

\* Lobbies, queues, invitations and the start of games leave accounts alone.
LEMMA LobbyStepsKeepSessionInv ==
  ASSUME IInv, SessionInv,
         CustomLobbyNext \/ MatchmakingQueueNext \/ GameInvitationNext \/ GameStartNext
  PROVE  SessionInv'
<1>1. CASE \E why : ProcessStops(why)
  BY <1>1, StopKeepsSessionInv
<1>2. CASE ~ \E why : ProcessStops(why)
  <2>1. CASE CustomLobbyNext
    BY <2>1, QuietKeepsSessionInv
       DEF CustomLobbyNext, CreateGameLobby, JoinGameLobby,
           SetMaxUserSizeInCreateGameLobby, LeaveGameLobby, sessionVars
  <2>2. CASE MatchmakingQueueNext
    BY <1>2, <2>2, QuietKeepsSessionInv
       DEF MatchmakingQueueNext, JoinMatchMakingQueue, LeaveQuickGameQueue, Requeue,
           sessionVars
  <2>3. CASE GameInvitationNext
    BY <1>2, <2>3, QuietKeepsSessionInv, ZenonT(30)
       DEF GameInvitationNext, CreateGame, AcceptGame, DeclineGame, TimerExpires,
           TimerFires, UsesDestroyedObject, sessionVars
  <2>4. CASE GameStartNext
    BY <1>2, <2>4, QuietKeepsSessionInv
       DEF GameStartNext, StartGameSent, StartGameFails, StartGameAnswered,
           StartGameUnanswered, UsesDestroyedObject, sessionVars
  <2>5. QED
    BY <2>1, <2>2, <2>3, <2>4
<1>3. QED
  BY <1>1, <1>2

\* The connection to the game server changes no account name.
LEMMA GameProxyKeepsSessionInv ==
  ASSUME IInv, SessionInv, GameProxyNext
  PROVE  SessionInv'
<1>1. ASSUME NEW c \in Conn, NEW next, LinkEnds(c, next) PROVE SessionInv'
  <2>1. CASE jobs' = ForgottenJobs(c)
    BY <1>1, <2>1, ForgottenJobsGoOn, NoLoginKeepsSessionInv DEF LinkEnds
  <2>2. CASE UNCHANGED jobs
    BY <1>1, <2>2, QuietKeepsSessionInv DEF LinkEnds
  <2>3. QED
    BY <1>1, <2>1, <2>2 DEF LinkEnds
<1>2. QED
  BY <1>1, QuietKeepsSessionInv
     DEF GameProxyNext, ConnectGameError, GameConnected, FirstMessageFromGame,
         LeaveGameSuccess, ConnectionToGameLost

\* Every step keeps the invariant of the sessions.
LEMMA NextKeepsSessionInv == IInv /\ SessionInv /\ [Next]_vars => SessionInv'
<1> SUFFICES ASSUME IInv, SessionInv, [Next]_vars PROVE SessionInv'
  OBVIOUS
<1>1. CASE AccountLoginNext
  BY <1>1, ClientLoginKeepsSessionInv, LoginJobKeepsSessionInv DEF AccountLoginNext
<1>2. CASE CustomLobbyNext \/ MatchmakingQueueNext \/ GameInvitationNext \/ GameStartNext
  BY <1>2, LobbyStepsKeepSessionInv
<1>3. CASE GameProxyNext
  BY <1>3, GameProxyKeepsSessionInv
<1>4. CASE UNCHANGED vars
  BY <1>4, QuietKeepsSessionInv DEF vars
<1>5. QED
  BY <1>1, <1>2, <1>3, <1>4 DEF Next, Crashed

\* At the start nobody has an account name.
LEMMA InitSessionInv == Init => SessionInv
BY AccountAssumption
   DEF Init, SessionInv, OneSessionPerAccount, AccountsOfSessionsExist,
       CheckedAccountsExist, IdleJob, Registered

\* An account that does not log in through Steam is used by one session at a
\* time, whatever the order in which passwords are hashed and checked, requests
\* are cancelled and clients disconnect.
THEOREM OneSession == Spec => []OneSessionPerAccount
<1>1. SessionInv => OneSessionPerAccount
  BY DEF SessionInv
<1>2. QED
  BY <1>1, Invariant, InitSessionInv, NextKeepsSessionInv, PTL DEF Spec
----------------------------------------------------------------------------
(* The state, the name and the connections of a session *)

\* What a state of the machine says of the account name a, of whether the client
\* is here, and of the connection k to the game server.
Fits(s, a, here, k) ==
  /\ k \in {"connecting", "first"} => s = "WaitForConnectToGame"
  /\ k \in {"open", "closing"} => s \in {"WaitForConnectToGame", "ProxyToGame"}
  /\ s = "ProxyToGame" => k \in {"open", "closing"}
  /\ s = "Closed" => ~here
  /\ ~here => s = "Closed" \/ k # "none"
  /\ a # NoAccount =>
       here /\ s \in {"LoggedIn", "WaitForConnectToGame", "ProxyToGame"}
SessionFits(c) == Fits(state[c], accountName[c], c \in online, link[c])
SessionsFit == \A c \in Conn : SessionFits(c)

\* The answer of Steam is the one result that is not guarded by the state of the
\* session.  It arrives in WaitingForCheckSteam all the same, and there is one.
JobFits(j) ==
  jobs[j].conn \in Conn =>
    /\ state[jobs[j].conn] # "Closed"
    /\ jobs[j].kind = "steam" => state[jobs[j].conn] = "WaitingForCheckSteam"
JobsFit == \A j \in JobId : JobFits(j)
SteamAskedOnce ==
  \A i, j \in JobId :
    /\ jobs[i].conn \in Conn /\ jobs[i].conn = jobs[j].conn
    /\ jobs[i].kind = "steam" /\ jobs[j].kind = "steam"
    => i = j

LinkInv == SessionsFit /\ JobsFit /\ SteamAskedOnce
----------------------------------------------------------------------------
(* What a step leaves alone *)

\* The sessions other than c, and which of the clients are here.
OthersStay(c) ==
  \A d \in Conn \ {c} :
    /\ state'[d] = state[d] /\ accountName'[d] = accountName[d]
    /\ link'[d] = link[d] /\ (d \in online' <=> d \in online)

\* Every coroutine of a session was there before.
NoNewJobs ==
  \A j \in JobId : jobs'[j].conn \in Conn =>
    jobs'[j].conn = jobs[j].conn /\ jobs'[j].kind = jobs[j].kind

\* The session d may have the coroutines it has.
JobsAllow(d) ==
  \/ state'[d] = state[d]
  \/ /\ state'[d] # "Closed"
     /\ \A j \in JobId : jobs'[j].conn = d => jobs'[j].kind # "steam"
  \/ \A j \in JobId : jobs'[j].conn # d

\* A step in which one session moves to a state that fits.
LEMMA OneSessionMoves ==
  ASSUME LinkInv, NEW c \in Conn, OthersStay(c), SessionFits(c)'
  PROVE  SessionsFit'
BY DEF LinkInv, SessionsFit, SessionFits, OthersStay

\* A step that starts no coroutine, in which every session may keep those it has.
LEMMA OldJobsFit ==
  ASSUME LinkInv, NoNewJobs, \A d \in Conn : JobsAllow(d)
  PROVE  JobsFit' /\ SteamAskedOnce'
<1>1. JobsFit'
  BY DEF LinkInv, JobsFit, JobFits, NoNewJobs, JobsAllow
<1>2. SteamAskedOnce'
  BY DEF LinkInv, SteamAskedOnce, NoNewJobs
<1>3. QED
  BY <1>1, <1>2

\* A session that does not wait for Steam has not asked Steam.
LEMMA NothingAskedOfSteam ==
  ASSUME LinkInv, NEW c \in Conn, state[c] # "WaitingForCheckSteam"
  PROVE  \A j \in JobId : jobs[j].conn = c => jobs[j].kind # "steam"
BY DEF LinkInv, JobsFit, JobFits

\* The parts of the type invariant a step of a session uses.
LEMMA Typed ==
  ASSUME IInv
  PROVE  /\ state \in [Conn -> State]
         /\ accountName \in [Conn -> Account \cup {NoAccount}]
         /\ link \in [Conn -> Link]
         /\ jobs \in [JobId -> KnownJobs]
         /\ \A j \in JobId : jobs[j] \in Jobs
BY IInvParts DEF SessionsTyped, KnownJobs

\* A step that has nothing to do with sessions.
LEMMA QuietKeepsLinkInv ==
  ASSUME LinkInv, UNCHANGED <<state, accountName, online, link, jobs>>
  PROVE  LinkInv'
BY DEF LinkInv, SessionsFit, SessionFits, JobsFit, JobFits, SteamAskedOnce

\* A process that stops leaves no sessions.
LEMMA StopKeepsLinkInv ==
  ASSUME NEW why, ProcessStops(why)
  PROVE  LinkInv'
<1>1. SessionsFit'
  BY DEF ProcessStops, SessionsFit, SessionFits, Fits
<1>2. \A j \in JobId : jobs'[j].conn \notin Conn
  BY GoneAssumption DEF ProcessStops, IdleJob
<1>3. JobsFit' /\ SteamAskedOnce'
  BY <1>2 DEF JobsFit, JobFits, SteamAskedOnce
<1>4. QED
  BY <1>1, <1>3 DEF LinkInv

\* A new coroutine of a session that has not asked Steam.
LEMMA StartedJobFits ==
  ASSUME IInv, LinkInv, NEW c \in Conn, NEW kind, NEW a, StartJob(c, kind, a),
         state[c] # "WaitingForCheckSteam", state'[c] # "Closed",
         kind = "steam" => state'[c] = "WaitingForCheckSteam",
         \A d \in Conn \ {c} : state'[d] = state[d]
  PROVE  JobsFit' /\ SteamAskedOnce'
<1>1. PICK j \in JobId :
        jobs' = [jobs EXCEPT ![j] = [phase |-> "running", kind |-> kind,
                                     conn |-> c, account |-> a, ok |-> FALSE]]
  BY FreeTypes DEF StartJob
<1>2. /\ jobs'[j].conn = c /\ jobs'[j].kind = kind
      /\ \A i \in JobId \ {j} : jobs'[i] = jobs[i]
  BY <1>1, Typed
<1>3. \A i \in JobId : jobs[i].conn = c => jobs[i].kind # "steam"
  BY NothingAskedOfSteam
<1>4. JobsFit'
  BY <1>2, <1>3 DEF LinkInv, JobsFit, JobFits
<1>5. SteamAskedOnce'
  BY <1>2, <1>3 DEF LinkInv, SteamAskedOnce
<1>6. QED
  BY <1>4, <1>5

\* A session that is destroyed has no coroutine left.
LEMMA ForgottenJobsFit ==
  ASSUME IInv, LinkInv, NEW c \in Conn, jobs' = ForgottenJobs(c),
         \A d \in Conn \ {c} : state'[d] = state[d]
  PROVE  JobsFit' /\ SteamAskedOnce'
<1>1. ASSUME NEW j \in JobId
      PROVE  \/ jobs'[j] = jobs[j] /\ jobs'[j].conn # c
             \/ jobs'[j].conn = Gone
  BY Typed, GoneAssumption DEF ForgottenJobs, IdleJob, Jobs
<1>2. NoNewJobs
  BY <1>1, GoneAssumption DEF NoNewJobs
<1>3. \A d \in Conn : JobsAllow(d)
  BY <1>1, GoneAssumption DEF JobsAllow
<1>4. QED
  BY <1>2, <1>3, OldJobsFit
----------------------------------------------------------------------------
(* Logging in and out *)

\* The states of a session that is not on its way to a game.
LoginState == State \ {"Closed", "WaitForConnectToGame", "ProxyToGame"}

\* A session goes from one of these states to another, and has an account name
\* only when it is logged in.
LEMMA LoginStateMoves ==
  ASSUME IInv, LinkInv, NEW c \in Conn, NEW s \in LoginState,
         state[c] \in LoginState, GoTo(c, s), UNCHANGED <<online, link>>,
         \A d \in Conn \ {c} : accountName'[d] = accountName[d],
         accountName'[c] # NoAccount => s = "LoggedIn"
  PROVE  /\ SessionsFit' /\ state'[c] = s /\ c \in online /\ link[c] = "none"
         /\ \A d \in Conn \ {c} : state'[d] = state[d]
<1>1. state'[c] = s /\ \A d \in Conn \ {c} : state'[d] = state[d]
  BY Typed DEF GoTo
<1>2. SessionFits(c)
  BY DEF LinkInv, SessionsFit
<1>3. link[c] = "none"
  BY <1>2, Typed DEF SessionFits, Fits, LoginState, Link
<1>4. c \in online
  BY <1>2, <1>3 DEF SessionFits, Fits, LoginState
<1>5. SessionFits(c)'
  BY <1>1, <1>3, <1>4 DEF SessionFits, Fits, LoginState
<1>6. OthersStay(c)
  BY <1>1 DEF OthersStay
<1>7. QED
  BY <1>1, <1>3, <1>4, <1>5, <1>6, OneSessionMoves

\* The same with the coroutines there were, where nothing is asked of Steam.
LEMMA LoginStateMovesKeepLinkInv ==
  ASSUME IInv, LinkInv, NEW c \in Conn, NEW s \in LoginState,
         state[c] \in LoginState, GoTo(c, s), UNCHANGED <<online, link>>,
         \A d \in Conn \ {c} : accountName'[d] = accountName[d],
         accountName'[c] # NoAccount => s = "LoggedIn",
         NoNewJobs, \A j \in JobId : jobs'[j].conn = c => jobs'[j].kind # "steam"
  PROVE  LinkInv'
<1>1. /\ SessionsFit' /\ state'[c] = s
      /\ \A d \in Conn \ {c} : state'[d] = state[d]
  BY LoginStateMoves
<1>2. \A d \in Conn : JobsAllow(d)
  BY <1>1 DEF JobsAllow, LoginState
<1>3. QED
  BY <1>1, <1>2, OldJobsFit DEF LinkInv

\* Whoever waits or is logged out has no account name.
LEMMA NoAccountYet ==
  ASSUME LinkInv, NEW c \in Conn,
         state[c] \in LoginState \ {"LoggedIn"}
  PROVE  accountName[c] = NoAccount
BY DEF LinkInv, SessionsFit, SessionFits, Fits, LoginState

\* hashPassword and checkPassword, with the logout that may come first.
LEMMA SpawnKeepsLinkInv ==
  ASSUME IInv, LinkInv, NEW c \in Conn, NEW kind \in {"hash", "check"}, NEW a,
         NEW s \in LoginState \ {"LoggedIn", "WaitingForCheckSteam"},
         SpawnPasswordJob(c, kind, a), GoTo(c, s), UNCHANGED <<online, link>>
  PROVE  LinkInv'
<1>1. state[c] \in {"NotLoggedIn", "LoggedIn"} /\ state[c] \in LoginState
  BY DEF SpawnPasswordJob, In, LoginState, State
<1>2. accountName'[c] = NoAccount /\ \A d \in Conn \ {c} : accountName'[d] = accountName[d]
  <2>1. CASE In(c, "NotLoggedIn") /\ UNCHANGED accountName
    BY <2>1, NoAccountYet DEF In, LoginState, State
  <2>2. CASE accountName' = [accountName EXCEPT ![c] = NoAccount]
    BY <2>2, Typed
  <2>3. CASE accountName[c] = NoAccount /\ UNCHANGED accountName
    BY <2>3
  <2>4. QED
    BY <2>1, <2>2, <2>3 DEF SpawnPasswordJob, LeaveAccount
<1>3. /\ SessionsFit' /\ state'[c] = s
      /\ \A d \in Conn \ {c} : state'[d] = state[d]
  BY <1>1, <1>2, LoginStateMoves
<1>4. CASE StartJob(c, kind, a)
  BY <1>1, <1>3, <1>4, StartedJobFits DEF LinkInv, LoginState
<1>5. CASE UNCHANGED jobs
  <2>1. NoNewJobs
    BY <1>5 DEF NoNewJobs
  <2>2. \A j \in JobId : jobs'[j].conn = c => jobs'[j].kind # "steam"
    BY <1>1, <1>5, NothingAskedOfSteam
  <2>3. QED
    BY <1>1, <1>2, <2>1, <2>2, LoginStateMovesKeepLinkInv
<1>6. QED
  BY <1>4, <1>5 DEF SpawnPasswordJob

\* What a client asks for, connects or ends.
LEMMA ClientLoginKeepsLinkInv ==
  ASSUME IInv, LinkInv, NEW c \in Conn,
         \/ Connect(c) \/ Disconnect(c)
         \/ CancelRequest(c) \/ RelogTo(c) \/ LogoutAccount(c)
         \/ \E g \in Guest : LoginAsGuest(c, g)
         \/ \E a \in Registered : CreateAccount(c, a) \/ LoginAccount(c, a)
         \/ \E a \in SteamAccount : LoginAccountSteam(c, a)
  PROVE  LinkInv'
<1>1. CASE Connect(c)
  <2>1. /\ state'[c] = "NotLoggedIn" /\ c \in online'
        /\ \A d \in Conn \ {c} : state'[d] = state[d] /\ (d \in online' <=> d \in online)
        /\ UNCHANGED <<accountName, link, jobs>>
    BY <1>1, Typed DEF Connect, GoTo
  <2>2. SessionFits(c) /\ state[c] = "Closed"
    BY <1>1 DEF LinkInv, SessionsFit, Connect
  <2>3. SessionFits(c)'
    BY <2>1, <2>2, Typed DEF SessionFits, Fits
  <2>4. NoNewJobs
    BY <2>1 DEF NoNewJobs
  <2>5. \A d \in Conn : JobsAllow(d)
    BY <2>1, <2>2, NothingAskedOfSteam DEF JobsAllow
  <2>6. OthersStay(c)
    BY <2>1 DEF OthersStay
  <2>7. QED
    BY <2>3, <2>4, <2>5, <2>6, OneSessionMoves, OldJobsFit DEF LinkInv
<1>2. CASE Disconnect(c)
  <2>0. /\ accountName'[c] = NoAccount /\ c \notin online'
        /\ \A d \in Conn \ {c} : /\ accountName'[d] = accountName[d]
                                 /\ (d \in online' <=> d \in online)
    BY <1>2, Typed DEF Disconnect
  <2>1. SessionFits(c)
    BY DEF LinkInv, SessionsFit
  <2>2. CASE link[c] = "none" /\ GoTo(c, "Closed") /\ jobs' = ForgottenJobs(c) /\ UNCHANGED link
    <3>1. state'[c] = "Closed" /\ \A d \in Conn \ {c} : state'[d] = state[d]
      BY <2>2, Typed DEF GoTo
    <3>2. SessionFits(c)'
      BY <2>0, <2>2, <3>1 DEF SessionFits, Fits
    <3>3. OthersStay(c)
      BY <2>0, <2>2, <3>1 DEF OthersStay
    <3>4. QED
      BY <2>2, <3>1, <3>2, <3>3, OneSessionMoves, ForgottenJobsFit DEF LinkInv
  <2>3. CASE /\ link[c] # "none"
             /\ link' = IF state[c] = "ProxyToGame"
                        THEN [link EXCEPT ![c] = "closing"] ELSE link
             /\ UNCHANGED <<state, jobs>>
    <3>1. /\ \A d \in Conn \ {c} : link'[d] = link[d]
          /\ link'[c] = IF state[c] = "ProxyToGame" THEN "closing" ELSE link[c]
      BY <2>3, Typed
    <3>2. SessionFits(c)'
      BY <2>0, <2>1, <2>3, <3>1, Typed DEF SessionFits, Fits, Link
    <3>3. OthersStay(c)
      BY <2>0, <2>3, <3>1 DEF OthersStay
    <3>4. JobsFit' /\ SteamAskedOnce'
      BY <2>3, OldJobsFit DEF NoNewJobs, JobsAllow
    <3>5. QED
      BY <3>2, <3>3, <3>4, OneSessionMoves DEF LinkInv
  <2>4. QED
    BY <1>2, <2>2, <2>3 DEF Disconnect
<1>3. CASE CancelRequest(c)
  <2>1. /\ state[c] \in LoginState \ {"LoggedIn", "WaitingForCheckSteam"}
        /\ UNCHANGED accountName
    BY <1>3 DEF CancelRequest, In, LoginState, State
  <2>2. NoNewJobs
    BY <1>3, GoneAssumption DEF CancelRequest, NoNewJobs, IdleJob
  <2>3. \A j \in JobId : jobs'[j].conn = c => jobs'[j].kind # "steam"
    BY <2>1, <2>2, NothingAskedOfSteam DEF NoNewJobs
  <2>4. "NotLoggedIn" \in LoginState
    BY DEF LoginState, State
  <2>5. QED
    BY <1>3, <2>1, <2>2, <2>3, <2>4, NoAccountYet, LoginStateMovesKeepLinkInv
       DEF CancelRequest
<1>4. CASE RelogTo(c)
  <2>1. state[c] \in LoginState \ {"LoggedIn", "WaitingForCheckSteam"}
    BY <1>4 DEF RelogTo, In, LoginState, State
  <2>2. NoNewJobs /\ \A j \in JobId : jobs'[j].conn = c => jobs'[j].kind # "steam"
    BY <1>4, <2>1, NothingAskedOfSteam DEF RelogTo, NoNewJobs
  <2>3. "LoggedIn" \in LoginState
    BY DEF LoginState, State
  <2>4. QED
    BY <1>4, <2>1, <2>2, <2>3, LoginStateMovesKeepLinkInv DEF RelogTo
<1>5. CASE LogoutAccount(c)
  <2>1. state[c] \in LoginState /\ state[c] # "WaitingForCheckSteam"
    BY <1>5 DEF LogoutAccount, In, LoginState, State
  <2>2. NoNewJobs /\ \A j \in JobId : jobs'[j].conn = c => jobs'[j].kind # "steam"
    BY <1>5, <2>1, NothingAskedOfSteam DEF LogoutAccount, NoNewJobs
  <2>3. /\ accountName'[c] = NoAccount
        /\ \A d \in Conn \ {c} : accountName'[d] = accountName[d]
    BY <1>5, Typed DEF LogoutAccount, LeaveAccount
  <2>4. "NotLoggedIn" \in LoginState
    BY DEF LoginState, State
  <2>5. QED
    BY <1>5, <2>1, <2>2, <2>3, <2>4, LoginStateMovesKeepLinkInv DEF LogoutAccount
<1>6. ASSUME NEW g \in Guest, LoginAsGuest(c, g) PROVE LinkInv'
  <2>1. state[c] \in LoginState /\ state[c] # "WaitingForCheckSteam"
    BY <1>6 DEF LoginAsGuest, In, LoginState, State
  <2>2. NoNewJobs /\ \A j \in JobId : jobs'[j].conn = c => jobs'[j].kind # "steam"
    BY <1>6, <2>1, NothingAskedOfSteam DEF LoginAsGuest, NoNewJobs
  <2>3. \A d \in Conn \ {c} : accountName'[d] = accountName[d]
    BY <1>6, Typed DEF LoginAsGuest
  <2>4. "LoggedIn" \in LoginState
    BY DEF LoginState, State
  <2>5. QED
    BY <1>6, <2>1, <2>2, <2>3, <2>4, LoginStateMovesKeepLinkInv DEF LoginAsGuest
<1>7. ASSUME NEW a \in Registered, CreateAccount(c, a) \/ LoginAccount(c, a)
      PROVE LinkInv'
  <2>1. {"WaitingForPasswordHashed", "WaitingForPasswordCheck"}
          \subseteq LoginState \ {"LoggedIn", "WaitingForCheckSteam"}
    BY DEF LoginState, State
  <2>2. QED
    BY <1>7, <2>1, SpawnKeepsLinkInv DEF CreateAccount, LoginAccount
<1>8. ASSUME NEW a \in SteamAccount, LoginAccountSteam(c, a) PROVE LinkInv'
  <2>1. state[c] \in LoginState \ {"LoggedIn", "WaitingForCheckSteam"}
    BY <1>8 DEF LoginAccountSteam, In, LoginState, State
  <2>2. "WaitingForCheckSteam" \in LoginState
    BY DEF LoginState, State
  <2>3. /\ SessionsFit' /\ state'[c] = "WaitingForCheckSteam"
        /\ \A d \in Conn \ {c} : state'[d] = state[d]
    BY <1>8, <2>1, <2>2, NoAccountYet, LoginStateMoves DEF LoginAccountSteam
  <2>4. QED
    BY <1>8, <2>1, <2>3, StartedJobFits DEF LoginAccountSteam, LinkInv
<1>9. QED
  BY <1>1, <1>2, <1>3, <1>4, <1>5, <1>6, <1>7, <1>8

\* A coroutine that ends.
LEMMA EndedJob ==
  ASSUME IInv, NEW j \in JobId, jobs' = [jobs EXCEPT ![j] = IdleJob]
  PROVE  /\ NoNewJobs
         /\ jobs'[j].conn \notin Conn
         /\ \A i \in JobId \ {j} : jobs'[i] = jobs[i]
BY Typed, GoneAssumption DEF NoNewJobs, IdleJob

\* A session that waits for a password gets its result, or Steam's answer arrives.
LEMMA AnswerKeepsLinkInv ==
  ASSUME IInv, LinkInv, NEW j \in JobId, NEW kind, NEW phase,
         Resumes(j, kind, phase),
         \/ kind = "steam"
         \/ state[jobs[j].conn] \in {"WaitingForPasswordHashed", "WaitingForPasswordCheck"},
         NEW s \in LoginState, GoTo(jobs[j].conn, s),
         \/ UNCHANGED accountName
         \/ /\ s = "LoggedIn"
            /\ \E a : accountName' = [accountName EXCEPT ![jobs[j].conn] = a]
  PROVE  LinkInv'
<1> DEFINE c == jobs[j].conn
<1>1. c \in Conn /\ jobs[j].kind = kind /\ UNCHANGED <<online, link>>
  BY DEF Resumes
<1>2. /\ NoNewJobs /\ jobs'[j].conn \notin Conn
      /\ \A i \in JobId \ {j} : jobs'[i] = jobs[i]
  BY EndedJob DEF Resumes
<1>3. state[c] \in LoginState \ {"LoggedIn"}
  <2>1. kind = "steam" => state[c] = "WaitingForCheckSteam"
    BY <1>1 DEF LinkInv, JobsFit, JobFits
  <2>2. QED
    BY <2>1 DEF LoginState, State
<1>4. \A i \in JobId : jobs'[i].conn = c => jobs'[i].kind # "steam"
  <2>1. CASE kind = "steam"
    BY <1>1, <1>2, <2>1 DEF LinkInv, SteamAskedOnce
  <2>2. CASE state[c] # "WaitingForCheckSteam"
    BY <1>1, <1>2, <2>2, NothingAskedOfSteam
  <2>3. QED
    BY <2>1, <2>2
<1>5. \A d \in Conn \ {c} : accountName'[d] = accountName[d]
  BY <1>1, Typed
<1>6. accountName'[c] # NoAccount => s = "LoggedIn"
  BY <1>1, <1>3, NoAccountYet
<1>7. QED
  BY <1>1, <1>2, <1>3, <1>4, <1>5, <1>6, LoginStateMovesKeepLinkInv

\* The coroutines of AccountLogin: one step per action.
LEMMA LoginJobKeepsLinkInv ==
  ASSUME IInv, LinkInv, NEW j \in JobId,
         \/ \E ok \in BOOLEAN : PasswordJobDone(j, ok)
         \/ PasswordHashed(j) \/ PasswordChecked(j) \/ StaleResult(j)
         \/ SteamLoginSuccess(j) \/ SteamLoginError(j) \/ SteamRequestFails(j)
         \/ ResumesAfterDisconnect(j)
  PROVE  LinkInv'
<1> DEFINE c == jobs[j].conn
           a == jobs[j].account
<1>0. {"NotLoggedIn", "LoggedIn", "WaitingForUserWantsToRelogGameLobby"}
        \subseteq LoginState
  BY DEF LoginState, State
<1>1. ASSUME NoNewJobs, UNCHANGED <<state, accountName, online, link>>
      PROVE LinkInv'
  <2>1. SessionsFit'
    BY <1>1 DEF LinkInv, SessionsFit, SessionFits
  <2>2. \A d \in Conn : JobsAllow(d)
    BY <1>1 DEF JobsAllow
  <2>3. QED
    BY <1>1, <2>1, <2>2, OldJobsFit DEF LinkInv
<1>2. ASSUME NEW ok \in BOOLEAN, PasswordJobDone(j, ok) PROVE LinkInv'
  <2>1. NoNewJobs
    BY <1>2, Typed DEF PasswordJobDone, NoNewJobs, Jobs
  <2>2. QED
    BY <1>1, <1>2, <2>1 DEF PasswordJobDone, sessionVars
<1>3. CASE PasswordHashed(j)
  <2>1. Resumes(j, "hash", "done") /\ state[c] = "WaitingForPasswordHashed"
    BY <1>3 DEF PasswordHashed
  <2>2. CASE GoTo(c, "NotLoggedIn") /\ UNCHANGED accountName
    BY <1>0, <2>1, <2>2, AnswerKeepsLinkInv
  <2>3. CASE LogIn(c, a)
    BY <1>0, <2>1, <2>3, AnswerKeepsLinkInv DEF LogIn
  <2>4. QED
    BY <1>3, <2>2, <2>3 DEF PasswordHashed
<1>4. CASE PasswordChecked(j)
  <2>1. Resumes(j, "check", "done") /\ state[c] = "WaitingForPasswordCheck"
    BY <1>4 DEF PasswordChecked
  <2>2. CASE GoTo(c, "NotLoggedIn") /\ UNCHANGED accountName
    BY <1>0, <2>1, <2>2, AnswerKeepsLinkInv
  <2>3. CASE GoTo(c, "WaitingForUserWantsToRelogGameLobby") /\ UNCHANGED accountName
    BY <1>0, <2>1, <2>3, AnswerKeepsLinkInv
  <2>4. CASE LogIn(c, a)
    BY <1>0, <2>1, <2>4, AnswerKeepsLinkInv DEF LogIn
  <2>5. QED
    BY <1>4, <2>2, <2>3, <2>4 DEF PasswordChecked
<1>5. CASE StaleResult(j)
  <2>1. PICK kind : Resumes(j, kind, "done")
    BY <1>5 DEF StaleResult
  <2>2. NoNewJobs
    BY <2>1, EndedJob DEF Resumes
  <2>3. QED
    BY <1>1, <1>5, <2>1, <2>2 DEF StaleResult, Resumes
<1>6. CASE SteamLoginSuccess(j)
  <2>1. Resumes(j, "steam", "running") /\ LogIn(c, a)
    BY <1>6 DEF SteamLoginSuccess
  <2>2. QED
    BY <1>0, <2>1, AnswerKeepsLinkInv DEF LogIn
<1>7. CASE SteamLoginError(j)
  <2>1. Resumes(j, "steam", "running") /\ GoTo(c, "NotLoggedIn") /\ UNCHANGED accountName
    BY <1>7 DEF SteamLoginError
  <2>2. QED
    BY <1>0, <2>1, AnswerKeepsLinkInv
<1>8. CASE SteamRequestFails(j)
  <2>1. NoNewJobs
    BY <1>8, EndedJob DEF SteamRequestFails
  <2>2. QED
    BY <1>1, <1>8, <2>1 DEF SteamRequestFails, sessionVars
<1>9. CASE ResumesAfterDisconnect(j)
  BY <1>9, StopKeepsLinkInv DEF ResumesAfterDisconnect, UsesDestroyedObject
<1>10. QED
  BY <1>2, <1>3, <1>4, <1>5, <1>6, <1>7, <1>8, <1>9
----------------------------------------------------------------------------
(* To a game and back *)

\* Only sessions that are logged in, without a connection, connect to the game.
LEMMA SendUsersKeepsLinkInv ==
  ASSUME IInv, LinkInv, NEW l, SendUsersToGame(l),
         UNCHANGED <<accountName, online, jobs>>
  PROVE  LinkInv'
<1>1. PICK D : /\ D \subseteq Conn
               /\ LET going == {c \in D : state[c] = "LoggedIn"}
                  IN  /\ state' = [c \in Conn |-> IF c \in going
                                     THEN "WaitForConnectToGame" ELSE state[c]]
                      /\ link' = [c \in Conn |-> IF c \in going THEN "connecting"
                                                 ELSE link[c]]
  BY DEF SendUsersToGame, FirstSessions
<1>2. ASSUME NEW c \in Conn
      PROVE  \/ state'[c] = state[c] /\ link'[c] = link[c]
             \/ /\ state[c] = "LoggedIn" /\ state'[c] = "WaitForConnectToGame"
                /\ link'[c] = "connecting"
  BY <1>1
<1>3. ASSUME NEW c \in Conn PROVE SessionFits(c)'
  <2>1. SessionFits(c)
    BY DEF LinkInv, SessionsFit
  <2>2. QED
    BY <1>2, <2>1, Typed DEF SessionFits, Fits, Link
<1>4. NoNewJobs
  BY DEF NoNewJobs
<1>5. \A c \in Conn : JobsAllow(c)
  BY <1>2, NothingAskedOfSteam DEF JobsAllow
<1>6. QED
  BY <1>3, <1>4, <1>5, OldJobsFit DEF LinkInv, SessionsFit

\* Lobbies, queues and invitations leave sessions alone.
LEMMA LobbyStepsKeepLinkInv ==
  ASSUME IInv, LinkInv,
         CustomLobbyNext \/ MatchmakingQueueNext \/ GameInvitationNext \/ GameStartNext
  PROVE  LinkInv'
<1>1. CASE \E why : ProcessStops(why)
  BY <1>1, StopKeepsLinkInv
<1>2. CASE ~ \E why : ProcessStops(why)
  <2>1. CASE CustomLobbyNext
    BY <2>1, QuietKeepsLinkInv
       DEF CustomLobbyNext, CreateGameLobby, JoinGameLobby,
           SetMaxUserSizeInCreateGameLobby, LeaveGameLobby, sessionVars
  <2>2. CASE MatchmakingQueueNext
    BY <1>2, <2>2, QuietKeepsLinkInv
       DEF MatchmakingQueueNext, JoinMatchMakingQueue, LeaveQuickGameQueue, Requeue,
           sessionVars
  <2>3. CASE GameInvitationNext
    BY <1>2, <2>3, QuietKeepsLinkInv, ZenonT(30)
       DEF GameInvitationNext, CreateGame, AcceptGame, DeclineGame, TimerExpires,
           TimerFires, UsesDestroyedObject, sessionVars
  <2>4. CASE GameStartNext
    BY <1>2, <2>4, QuietKeepsLinkInv, SendUsersKeepsLinkInv
       DEF GameStartNext, StartGameSent, StartGameFails, StartGameAnswered,
           StartGameUnanswered, UsesDestroyedObject, sessionVars
  <2>5. QED
    BY <2>1, <2>2, <2>3, <2>4
<1>3. QED
  BY <1>1, <1>2

\* The end of a connection: the session stays where it is, or comes back from the
\* game, or is destroyed.
LEMMA LinkEndsKeepsLinkInv ==
  ASSUME IInv, LinkInv, NEW c \in Conn, NEW s,
         link[c] \in {"connecting", "first", "open", "closing"},
         s = IF state[c] = "ProxyToGame" THEN "LoggedIn" ELSE state[c],
         LinkEnds(c, s)
  PROVE  LinkInv'
<1>1. SessionFits(c) /\ state[c] \in {"WaitForConnectToGame", "ProxyToGame"}
  BY DEF LinkInv, SessionsFit, SessionFits, Fits
<1>2. /\ link'[c] = "none" /\ \A d \in Conn \ {c} : link'[d] = link[d]
      /\ UNCHANGED <<accountName, online>>
  BY Typed DEF LinkEnds
<1>3. CASE c \in online /\ GoTo(c, s) /\ UNCHANGED jobs
  <2>1. state'[c] = s /\ \A d \in Conn \ {c} : state'[d] = state[d]
    BY <1>3, Typed DEF GoTo
  <2>2. SessionFits(c)'
    BY <1>1, <1>2, <1>3, <2>1 DEF SessionFits, Fits
  <2>3. OthersStay(c)
    BY <1>2, <2>1 DEF OthersStay
  <2>4. \A j \in JobId : jobs[j].conn = c => jobs[j].kind # "steam"
    BY <1>1, NothingAskedOfSteam
  <2>5. NoNewJobs /\ \A d \in Conn : JobsAllow(d)
    BY <1>1, <1>3, <2>1, <2>4 DEF NoNewJobs, JobsAllow
  <2>6. QED
    BY <2>2, <2>3, <2>5, OneSessionMoves, OldJobsFit DEF LinkInv
<1>4. CASE c \notin online /\ GoTo(c, "Closed") /\ jobs' = ForgottenJobs(c)
  <2>1. state'[c] = "Closed" /\ \A d \in Conn \ {c} : state'[d] = state[d]
    BY <1>4, Typed DEF GoTo
  <2>2. SessionFits(c)'
    BY <1>1, <1>2, <1>4, <2>1 DEF SessionFits, Fits
  <2>3. OthersStay(c)
    BY <1>2, <2>1 DEF OthersStay
  <2>4. QED
    BY <1>4, <2>1, <2>2, <2>3, OneSessionMoves, ForgottenJobsFit DEF LinkInv
<1>5. QED
  BY <1>3, <1>4 DEF LinkEnds

\* The steps of connectToGame.
LEMMA GameProxyKeepsLinkInv ==
  ASSUME IInv, LinkInv, GameProxyNext
  PROVE  LinkInv'
<1>1. PICK c \in Conn :
        \/ ConnectGameError(c) \/ GameConnected(c)
        \/ \E success \in BOOLEAN : FirstMessageFromGame(c, success)
        \/ LeaveGameSuccess(c) \/ ConnectionToGameLost(c)
  BY DEF GameProxyNext
<1>2. SessionFits(c)
  BY DEF LinkInv, SessionsFit
<1>3. CASE ConnectGameError(c)
  <2>1. state[c] # "ProxyToGame"
    BY <1>2, <1>3 DEF ConnectGameError, SessionFits, Fits
  <2>2. QED
    BY <1>3, <2>1, LinkEndsKeepsLinkInv DEF ConnectGameError
<1>4. CASE ConnectionToGameLost(c)
  BY <1>4, LinkEndsKeepsLinkInv DEF ConnectionToGameLost
<1>5. ASSUME NEW k \in {"first", "open", "closing"}, link' = [link EXCEPT ![c] = k],
             UNCHANGED <<accountName, online, jobs>>,
             \/ link[c] = "connecting" /\ k = "first" /\ UNCHANGED state
             \/ /\ link[c] = "first" /\ k = "open"
                /\ GoTo(c, "ProxyToGame") \/ UNCHANGED state
             \/ link[c] = "open" /\ k = "closing" /\ UNCHANGED state
      PROVE  LinkInv'
  <2>1. /\ link'[c] = k /\ \A d \in Conn \ {c} : link'[d] = link[d]
        /\ state'[c] \in {state[c], "ProxyToGame"}
        /\ state'[c] # state[c] => link[c] = "first"
        /\ \A d \in Conn \ {c} : state'[d] = state[d]
    BY <1>5, Typed DEF GoTo
  <2>2. SessionFits(c)'
    BY <1>2, <1>5, <2>1 DEF SessionFits, Fits
  <2>3. OthersStay(c)
    BY <1>5, <2>1 DEF OthersStay
  <2>4. state[c] # "WaitingForCheckSteam"
    BY <1>2, <1>5 DEF SessionFits, Fits
  <2>5. NoNewJobs /\ \A d \in Conn : JobsAllow(d)
    BY <1>5, <2>1, <2>4, NothingAskedOfSteam DEF NoNewJobs, JobsAllow
  <2>6. QED
    BY <2>2, <2>3, <2>5, OneSessionMoves, OldJobsFit DEF LinkInv
<1>6. CASE GameConnected(c)
  BY <1>5, <1>6 DEF GameConnected
<1>7. ASSUME NEW success \in BOOLEAN, FirstMessageFromGame(c, success) PROVE LinkInv'
  BY <1>5, <1>7 DEF FirstMessageFromGame
<1>8. CASE LeaveGameSuccess(c)
  BY <1>5, <1>8 DEF LeaveGameSuccess
<1>9. QED
  BY <1>1, <1>3, <1>4, <1>6, <1>7, <1>8
----------------------------------------------------------------------------
\* Every step keeps the invariant.
LEMMA NextKeepsLinkInv == IInv /\ LinkInv /\ [Next]_vars => LinkInv'
<1> SUFFICES ASSUME IInv, LinkInv, [Next]_vars PROVE LinkInv'
  OBVIOUS
<1>1. CASE AccountLoginNext
  BY <1>1, ClientLoginKeepsLinkInv, LoginJobKeepsLinkInv DEF AccountLoginNext
<1>2. CASE CustomLobbyNext \/ MatchmakingQueueNext \/ GameInvitationNext \/ GameStartNext
  BY <1>2, LobbyStepsKeepLinkInv
<1>3. CASE GameProxyNext
  BY <1>3, GameProxyKeepsLinkInv
<1>4. CASE UNCHANGED vars
  BY <1>4, QuietKeepsLinkInv DEF vars
<1>5. QED
  BY <1>1, <1>2, <1>3, <1>4 DEF Next, Crashed

\* At the start there is no session.
LEMMA InitLinkInv == Init => LinkInv
BY GoneAssumption
   DEF Init, LinkInv, SessionsFit, SessionFits, Fits, JobsFit, JobFits,
       SteamAskedOnce, IdleJob

\* Whoever has an account name is connected and logged in or in a game, in every
\* order of logins, results, logouts, games and disconnects.
THEOREM NamesOnlyWhenLoggedIn == Spec => []AccountOnlyWhenLoggedIn
<1>1. LinkInv => AccountOnlyWhenLoggedIn
  BY DEF LinkInv, SessionsFit, SessionFits, Fits, AccountOnlyWhenLoggedIn
<1>2. QED
  BY <1>1, Invariant, InitLinkInv, NextKeepsLinkInv, PTL DEF Spec

\* A session talks to the game server exactly in the states for it, and leaves
\* nothing behind when it is destroyed, in every order of starts, messages of the
\* game server, lost connections and disconnects.
THEOREM LinkMatchesStateAlways == Spec => []LinkMatchesState
<1>1. LinkInv => LinkMatchesState
  BY DEF LinkInv, SessionsFit, SessionFits, Fits, JobsFit, JobFits, LinkMatchesState
<1>2. QED
  BY <1>1, Invariant, InitLinkInv, NextKeepsLinkInv, PTL DEF Spec
=============================================================================
