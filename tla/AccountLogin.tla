---------------------------- MODULE AccountLogin ----------------------------
(***************************************************************************)
(* Connections and accounts: the states NotLoggedIn to LoggedIn of the     *)
(* state machine in logic/matchmaking.cxx, the coroutines that hash and    *)
(* check passwords and ask Steam, logout and disconnect.                   *)
(*                                                                         *)
(* boost::sml enters the target state before it runs the action, and an    *)
(* exception of the action does not take the transition back.              *)
(***************************************************************************)
EXTENDS MatchmakingState

\* An accepted client: a new Matchmaking object.
Connect(c) ==
  /\ Running
  /\ state[c] = "Closed"
  /\ GoTo(c, "NotLoggedIn")
  /\ online' = online \cup {c}
  /\ UNCHANGED <<accountName, link, database, jobs, gameLobbies, starts,
                 requeue, fault>>

\* The read or write loop of the client ends: cleanUp.  The object is
\* destroyed unless a connection to the game server still holds it.
Disconnect(c) ==
  /\ Running
  /\ c \in online
  /\ online' = online \ {c}
  /\ accountName' = [accountName EXCEPT ![c] = NoAccount]
  /\ \E L \in CleanUpLobbies(gameLobbies, accountName[c]) :
       \/ /\ link[c] = "none"
          /\ GoTo(c, "Closed")
          /\ gameLobbies' = ForgetOwner(L, c)
          /\ starts' = ForgottenStarts(c)
          /\ jobs' = ForgottenJobs(c)
          /\ UNCHANGED link
       \/ /\ link[c] # "none"
          /\ link' = IF state[c] = "ProxyToGame"
                     THEN [link EXCEPT ![c] = "closing"] ELSE link
          /\ gameLobbies' = L
          /\ UNCHANGED <<state, starts, jobs>>
  /\ UNCHANGED <<database, requeue, fault>>

\* The name of a guest is a fresh UUID.
NameInUse(a) ==
  \/ SessionsOf(a) # {}
  \/ \E id \in LobbyId : a \in Members(gameLobbies.lobby[id])
                               \cup Ready(gameLobbies.lobby[id])

LoginAsGuest(c, g) ==
  /\ In(c, "NotLoggedIn")
  /\ ~NameInUse(g)
  /\ GoTo(c, "LoggedIn")
  /\ accountName' = [accountName EXCEPT ![c] = g]
  /\ UNCHANGED <<online, link, database, jobs, gameLobbies, starts, requeue, fault>>

\* Mutants: the session keeps its account; it gets a name instead of none.
LeaveAccountKeepsName(c) ==
  /\ gameLobbies' \in LogoutLobbies(gameLobbies, accountName[c])
  /\ UNCHANGED accountName
LeaveAccountEmptyName(c) ==
  /\ gameLobbies' \in LogoutLobbies(gameLobbies, accountName[c])
  /\ accountName' = [accountName EXCEPT ![c] = NoName]

\* logoutAccount
LeaveAccount(c) ==
  /\ gameLobbies' \in LogoutLobbies(gameLobbies, accountName[c])
  /\ accountName' = [accountName EXCEPT ![c] = NoAccount]

StartJob(c, kind, a) ==
  \E j \in FreeJob :
    jobs' = [jobs EXCEPT ![j] = [phase |-> "running", kind |-> kind, conn |-> c,
                                 account |-> a, ok |-> FALSE]]

\* hashPassword or checkPassword; a user who is logged in is logged out
\* first.  Without an account name logoutAccount throws before anything is
\* spawned, in the new state.
SpawnPasswordJob(c, kind, a) ==
  \/ /\ In(c, "NotLoggedIn")
     /\ StartJob(c, kind, a)
     /\ UNCHANGED <<accountName, gameLobbies>>
  \/ /\ In(c, "LoggedIn")
     /\ accountName[c] # NoAccount
     /\ LeaveAccount(c)
     /\ StartJob(c, kind, a)
  \/ /\ In(c, "LoggedIn")
     /\ accountName[c] = NoAccount
     /\ UNCHANGED <<accountName, gameLobbies, jobs>>

CreateAccount(c, a) ==
  /\ SpawnPasswordJob(c, "hash", a)
  /\ GoTo(c, "WaitingForPasswordHashed")
  /\ UNCHANGED <<online, link, database, starts, requeue, fault>>

\* Mutant: only the accounts of the start are known.
AccountWasInDatabase(a) == a \in InitialDatabase
AccountInDatabase(a) == a \in database

LoginAccount(c, a) ==
  /\ AccountInDatabase(a)
  /\ SpawnPasswordJob(c, "check", a)
  /\ GoTo(c, "WaitingForPasswordCheck")
  /\ UNCHANGED <<online, link, database, starts, requeue, fault>>

LoginAccountSteam(c, a) ==
  /\ In(c, "NotLoggedIn")
  /\ StartJob(c, "steam", a)
  /\ GoTo(c, "WaitingForCheckSteam")
  /\ UNCHANGED <<accountName, online, link, database, gameLobbies, starts,
                 requeue, fault>>

\* CreateAccountCancel and LoginAccountCancel: cancelAndResetTimer ends every
\* password coroutine of the session that has no result yet.
CancelRequest(c) ==
  /\ In(c, "WaitingForPasswordHashed") \/ In(c, "WaitingForPasswordCheck")
  /\ GoTo(c, "NotLoggedIn")
  /\ jobs' = [j \in JobId |->
                IF jobs[j].conn = c /\ jobs[j].phase = "running"
                   /\ jobs[j].kind # "steam"
                THEN IdleJob ELSE jobs[j]]
  /\ UNCHANGED <<accountName, online, link, database, gameLobbies, starts,
                 requeue, fault>>

\* The thread pool posts a result, which is queued for the io_context.
PasswordJobDone(j, ok) ==
  /\ Running
  /\ jobs[j].phase = "running"
  /\ jobs[j].kind # "steam"
  /\ jobs' = [jobs EXCEPT ![j].phase = "done", ![j].ok = ok]
  /\ UNCHANGED <<sessionVars, database, gameLobbies,
                 starts, requeue, fault>>
----------------------------------------------------------------------------
\* A coroutine resumes with its result and sends it to its machine.
Resumes(j, kind, phase) ==
  /\ Running
  /\ jobs[j].phase = phase
  /\ jobs[j].kind = kind
  /\ jobs[j].conn \in Conn
  /\ jobs' = [jobs EXCEPT ![j] = IdleJob]
  /\ UNCHANGED <<online, link, gameLobbies, starts, requeue, fault>>

LogIn(c, a) ==
  GoTo(c, "LoggedIn") /\ accountName' = [accountName EXCEPT ![c] = a]

\* Mutant: no transition for a name that was taken meanwhile.
PasswordHashedForNewName(j) ==
  /\ Resumes(j, "hash", "done")
  /\ state[jobs[j].conn] = "WaitingForPasswordHashed"
  /\ jobs[j].account \notin database
  /\ LogIn(jobs[j].conn, jobs[j].account)
  /\ database' = database \cup {jobs[j].account}

\* PasswordHashed: the account is created unless the name was taken meanwhile.
PasswordHashed(j) ==
  LET c == jobs[j].conn
      a == jobs[j].account
  IN  /\ Resumes(j, "hash", "done")
      /\ state[c] = "WaitingForPasswordHashed"
      /\ \/ AccountInDatabase(a) /\ GoTo(c, "NotLoggedIn")
            /\ UNCHANGED <<accountName, database>>
         \/ ~AccountInDatabase(a) /\ LogIn(c, a) /\ database' = database \cup {a}

\* PasswordMatches and PasswordDoesNotMatch.  wantsToRelogToGameLobby only
\* asks: the account name of the session stays unset.
PasswordChecked(j) ==
  LET c == jobs[j].conn
      a == jobs[j].account
      refused == ~jobs[j].ok \/ SessionsOf(a) # {}
  IN  /\ Resumes(j, "check", "done")
      /\ state[c] = "WaitingForPasswordCheck"
      /\ \/ refused /\ GoTo(c, "NotLoggedIn") /\ UNCHANGED accountName
         \/ ~refused /\ InSomeLobby(gameLobbies, a)
            /\ GoTo(c, "WaitingForUserWantsToRelogGameLobby")
            /\ UNCHANGED accountName
         \/ ~refused /\ ~InSomeLobby(gameLobbies, a) /\ LogIn(c, a)
      /\ UNCHANGED database

\* A result whose machine is in a state without a transition for it.
StaleResult(j) ==
  /\ Resumes(j, "hash", "done") \/ Resumes(j, "check", "done")
  /\ state[jobs[j].conn] # IF jobs[j].kind = "hash" THEN "WaitingForPasswordHashed"
                           ELSE "WaitingForPasswordCheck"
  /\ UNCHANGED <<state, accountName, database>>

\* Steam's answer.  Nothing else leaves WaitingForCheckSteam, not even a
\* failed request, which ends the coroutine with an exception.
SteamLoginSuccess(j) ==
  LET c == jobs[j].conn
      a == jobs[j].account
  IN  /\ Resumes(j, "steam", "running")
      /\ LogIn(c, a)
      /\ database' = database \cup {a}

SteamLoginError(j) ==
  /\ Resumes(j, "steam", "running")
  /\ GoTo(jobs[j].conn, "NotLoggedIn")
  /\ UNCHANGED <<accountName, database>>

SteamRequestFails(j) ==
  /\ Running
  /\ jobs[j].phase = "running" /\ jobs[j].kind = "steam"
  /\ jobs' = [jobs EXCEPT ![j] = IdleJob]
  /\ UNCHANGED <<sessionVars, database, gameLobbies,
                 starts, requeue, fault>>

\* The session was destroyed while the coroutine had a result or asked Steam.
ResumesAfterDisconnect(j) ==
  /\ Running
  /\ jobs[j].phase # "idle"
  /\ jobs[j].conn = Gone
  /\ UsesDestroyedObject
----------------------------------------------------------------------------
\* RelogTo, either answer: both actions take the account name the session does
\* not have and throw, in the state LoggedIn.
RelogTo(c) ==
  /\ In(c, "WaitingForUserWantsToRelogGameLobby")
  /\ GoTo(c, "LoggedIn")
  /\ UNCHANGED <<accountName, online, link, database, jobs, gameLobbies,
                 starts, requeue, fault>>

LogoutAccount(c) ==
  /\ In(c, "LoggedIn")
  /\ LeaveAccount(c)
  /\ GoTo(c, "NotLoggedIn")
  /\ UNCHANGED <<online, link, database, jobs, starts, requeue, fault>>

AccountLoginNext ==
  \/ \E c \in Conn :
       \/ Connect(c) \/ Disconnect(c)
       \/ CancelRequest(c) \/ RelogTo(c) \/ LogoutAccount(c)
       \/ \E g \in Guest : LoginAsGuest(c, g)
       \/ \E a \in Registered : CreateAccount(c, a) \/ LoginAccount(c, a)
       \/ \E a \in SteamAccount : LoginAccountSteam(c, a)
  \/ \E j \in JobId :
       \/ \E ok \in BOOLEAN : PasswordJobDone(j, ok)
       \/ PasswordHashed(j) \/ PasswordChecked(j) \/ StaleResult(j)
       \/ SteamLoginSuccess(j) \/ SteamLoginError(j) \/ SteamRequestFails(j)
       \/ ResumesAfterDisconnect(j)
=============================================================================
