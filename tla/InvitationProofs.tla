-------------------------- MODULE InvitationProofs --------------------------
(***************************************************************************)
(* A lobby of a queue asks its users exactly while it is full, those who   *)
(* answer are those who were asked, the game starts when all of them have  *)
(* accepted and then at once, and two users who are alone in a ranked      *)
(* lobby are in range, for every number of clients and accounts.           *)
(***************************************************************************)
EXTENDS MembershipProofs, FiniteSetTheorems

\* A lobby of a queue whose games need more than one user.  The one user of a
\* smaller game fills a new lobby, which does not ask.
AsksWhileFull(l) == l.waiting <=> IsFull(l)
ReadyAreMembers(l) ==
  /\ Ready(l) \subseteq Members(l)
  /\ Distinct(l.readyUsers)
  /\ Ready(l) # {} => l.waiting
AskFits(l) ==
  l.lobbyAdminType \in QueueType /\ l.maxUserCount > 1
    => AsksWhileFull(l) /\ ReadyAreMembers(l)

\* Tidy lists: a user is in a lobby once, so that one who leaves makes space.
AskLists == {L \in TidyLists : \A id \in LobbyId : AskFits(L.lobby[id])}

\* The invariant.
Asking == gameLobbies \in AskLists
----------------------------------------------------------------------------
(* One lobby *)

\* A sequence without elements is empty.
LEMMA NoElements ==
  ASSUME NEW S, NEW s \in Seq(S), {s[i] : i \in DOMAIN s} = {}
  PROVE  s = <<>> /\ Len(s) = 0
<1>1. DOMAIN s = {}
  OBVIOUS
<1>2. DOMAIN s = 1 .. Len(s) /\ Len(s) \in Nat
  OBVIOUS
<1>3. Len(s) = 0
  BY <1>1, <1>2
<1>4. QED
  BY <1>3

\* Where nobody is ready, only the wait matters.
LEMMA NobodyReady ==
  ASSUME NEW l, l.readyUsers = <<>>
  PROVE  ReadyAreMembers(l)
BY DEF ReadyAreMembers, Ready, Distinct

\* A new lobby waits for its users.
LEMMA EmptyLobbyAskFits == AskFits(EmptyLobby)
BY EmptyLobbyTidy DEF AskFits

\* A lobby that lost a user and, had it asked, was told to stop asking.
LEMMA LeftAskFits ==
  ASSUME NEW l \in AnyLobby, TidyLobby(l), AskFits(l), NEW a \in Members(l)
  PROVE  /\ AskFits(StopWaiting(RemoveUser(l, a)))
         /\ Members(RemoveUser(l, a)) = {} => AskFits(RemoveUser(l, a))
<1> DEFINE s == l.accountNames
           m == RemoveUser(l, a)
<1>1. PositionOf(l, a) # {}
  BY DEF Members, PositionOf
<1>2. PICK i \in PositionOf(l, a) : i = CHOOSE k \in PositionOf(l, a) : TRUE
  BY <1>1
<1>3. s \in Seq(Account) /\ i \in 1 .. Len(s) /\ l.maxUserCount \in Nat
  BY DEF PositionOf, AnyLobby, Lobbies
<1>4. m = [l EXCEPT !.accountNames = Without(s, i)]
  BY <1>1, <1>2 DEF RemoveUser
<1>5. /\ m.accountNames = Without(s, i) /\ m.lobbyAdminType = l.lobbyAdminType
      /\ m.maxUserCount = l.maxUserCount /\ m.waiting = l.waiting
      /\ m.readyUsers = l.readyUsers /\ m \in AnyLobby
  BY <1>4, RemoveUserKeepsInvitation DEF AnyLobby, Lobbies, SameInvitation
<1>6. Len(m.accountNames) = Len(s) - 1 /\ Len(s) <= l.maxUserCount
  BY <1>3, <1>5, WithoutType DEF TidyLobby
<1>7. ~IsFull(m) /\ Len(s) \in Nat
  BY <1>3, <1>5, <1>6 DEF IsFull
<1> HIDE DEF m
<1>8. ASSUME l.lobbyAdminType \in QueueType, l.maxUserCount > 1
      PROVE  ~l.waiting => l.readyUsers = <<>>
  <2>1. l.readyUsers \in Seq(Account)
    BY DEF AnyLobby, Lobbies
  <2>2. ~l.waiting => Ready(l) = {}
    BY <1>8 DEF AskFits, ReadyAreMembers
  <2>3. Ready(l) = {} => l.readyUsers = <<>>
    BY <2>1, NoElements DEF Ready
  <2>4. QED
    BY <2>2, <2>3
<1>9. AskFits(StopWaiting(m))
  <2>1. /\ StopWaiting(m).lobbyAdminType = l.lobbyAdminType
        /\ StopWaiting(m).maxUserCount = l.maxUserCount
        /\ StopWaiting(m).accountNames = m.accountNames
        /\ ~StopWaiting(m).waiting
        /\ StopWaiting(m).readyUsers = IF l.waiting THEN <<>> ELSE l.readyUsers
    BY <1>5 DEF StopWaiting, AnyLobby, Lobbies
  <2>2. ~IsFull(StopWaiting(m))
    BY <1>5, <1>7, <2>1 DEF IsFull
  <2> HIDE DEF StopWaiting
  <2>3. QED
    BY <1>8, <2>1, <2>2, NobodyReady DEF AskFits, AsksWhileFull
<1>10. ASSUME Members(m) = {} PROVE AskFits(m)
  <2>1. ASSUME l.lobbyAdminType \in QueueType, l.maxUserCount > 1 PROVE ~l.waiting
    <3>1. m.accountNames \in Seq(Account)
      BY <1>5 DEF AnyLobby, Lobbies
    <3>2. Len(m.accountNames) = 0
      BY <1>10, <3>1, NoElements DEF Members
    <3>3. ~IsFull(l)
      BY <1>3, <1>6, <2>1, <3>2 DEF IsFull
    <3>4. QED
      BY <2>1, <3>3 DEF AskFits, AsksWhileFull
  <2>2. QED
    BY <1>5, <1>7, <1>8, <2>1, NobodyReady DEF AskFits, AsksWhileFull
<1>11. QED
  BY <1>9, <1>10 DEF m

\* tryToAddUser, for a lobby with space in which the user is not: a lobby with space
\* did not ask.
LEMMA JoinedAskFits ==
  ASSUME NEW l \in AnyLobby, AskFits(l), NEW a \in Account, HasSpace(l)
  PROVE  /\ ~IsFull(AddUser(l, a)) => AskFits(AddUser(l, a))
         /\ \A t : l.lobbyAdminType \in QueueType /\ IsFull(AddUser(l, a))
                     => AskFits(StartWaiting(AddUser(l, a), t))
<1> DEFINE m == AddUser(l, a)
<1>1. /\ m.lobbyAdminType = l.lobbyAdminType /\ m.maxUserCount = l.maxUserCount
      /\ m.waiting = l.waiting /\ m.readyUsers = l.readyUsers
      /\ m.accountNames = Append(l.accountNames, a) /\ m \in AnyLobby
  BY AddUserKeepsInvitation DEF AddUser, AnyLobby, Lobbies, SameInvitation
<1>2. ~IsFull(l)
  <2>1. l.accountNames \in Seq(Account) /\ l.maxUserCount \in Nat
    BY DEF AnyLobby, Lobbies
  <2>2. QED
    BY <2>1 DEF IsFull, HasSpace
<1>3. ASSUME l.lobbyAdminType \in QueueType, l.maxUserCount > 1
      PROVE  ~l.waiting /\ l.readyUsers = <<>>
  <2>1. ~l.waiting
    BY <1>2, <1>3 DEF AskFits, AsksWhileFull
  <2>2. Ready(l) = {} /\ l.readyUsers \in Seq(Account)
    BY <1>3, <2>1 DEF AskFits, ReadyAreMembers, AnyLobby, Lobbies
  <2>3. QED
    BY <2>1, <2>2, NoElements DEF Ready
<1> HIDE DEF m
<1>4. ~IsFull(m) => AskFits(m)
  BY <1>1, <1>3, NobodyReady DEF AskFits, AsksWhileFull
<1>5. ASSUME NEW t, IsFull(m) PROVE AskFits(StartWaiting(m, t))
  <2> DEFINE w == StartWaiting(m, t)
  <2>1. /\ w.lobbyAdminType = m.lobbyAdminType /\ w.maxUserCount = m.maxUserCount
        /\ w.accountNames = m.accountNames /\ w.readyUsers = m.readyUsers /\ w.waiting
    BY <1>1 DEF StartWaiting, AnyLobby, Lobbies
  <2>2. IsFull(w)
    BY <1>5, <2>1 DEF IsFull
  <2> HIDE DEF w
  <2>3. AskFits(w)
    BY <1>1, <1>3, <2>1, <2>2, NobodyReady DEF AskFits, AsksWhileFull
  <2>4. QED
    BY <2>3 DEF w
<1>6. QED
  BY <1>4, <1>5 DEF m

\* wantsToJoinGame, accepted by a user of the lobby who had not accepted.
LEMMA AcceptedAskFits ==
  ASSUME NEW l \in AnyLobby, AskFits(l), l.waiting, NEW a \in Members(l),
         ~HasAccepted(l, a)
  PROVE  AskFits(AcceptedBy(l, a))
<1> DEFINE m == AcceptedBy(l, a)
<1>1. /\ m.lobbyAdminType = l.lobbyAdminType /\ m.maxUserCount = l.maxUserCount
      /\ m.accountNames = l.accountNames /\ m.waiting = l.waiting
      /\ m.readyUsers = Append(l.readyUsers, a)
  BY DEF AcceptedBy, AnyLobby, Lobbies
<1> HIDE DEF m
<1>2. l.readyUsers \in Seq(Account) /\ l.accountNames \in Seq(Account)
  BY DEF AnyLobby, Lobbies
<1>3. a \in Account
  BY <1>2 DEF Members
<1>4. \A k \in DOMAIN l.readyUsers : l.readyUsers[k] # a
  BY DEF HasAccepted, Ready
<1>5. /\ Distinct(l.readyUsers) => Distinct(m.readyUsers)
      /\ Ready(m) \subseteq Ready(l) \cup {a}
  <2>1. /\ \A j \in DOMAIN m.readyUsers :
             m.readyUsers[j] = a \/ \E k \in DOMAIN l.readyUsers : m.readyUsers[j] = l.readyUsers[k]
        /\ Distinct(l.readyUsers) => Distinct(m.readyUsers)
    <3> DEFINE r == l.readyUsers
    <3>1. r \in Seq(Account) /\ m.readyUsers = Append(r, a)
      BY <1>1, <1>2
    <3> HIDE DEF r
    <3>2. /\ \A j \in DOMAIN Append(r, a) :
               Append(r, a)[j] = a \/ \E k \in DOMAIN r : Append(r, a)[j] = r[k]
          /\ Distinct(r) /\ (\A k \in DOMAIN r : r[k] # a) => Distinct(Append(r, a))
      BY <1>3, <3>1, AppendElements
    <3>3. QED
      BY <1>4, <3>1, <3>2 DEF r
  <2>2. QED
    BY <2>1 DEF Ready
<1>6. Members(m) = Members(l) /\ (IsFull(m) <=> IsFull(l))
  BY <1>1 DEF Members, IsFull
<1>7. AskFits(m)
  BY <1>1, <1>5, <1>6 DEF AskFits, AsksWhileFull, ReadyAreMembers
<1>8. QED
  BY <1>7 DEF m
----------------------------------------------------------------------------
(* Lists *)

\* A list of the invariant at the identity id.
LEMMA AskAt ==
  ASSUME NEW L \in AskLists
  PROVE  /\ L \in TidyLists /\ L \in SoundLists
         /\ \A id \in LobbyId : /\ L.lobby[id] \in AnyLobby /\ TidyLobby(L.lobby[id])
                                /\ AskFits(L.lobby[id])
BY TidyAt DEF AskLists

\* Only the lobby at id changes.
LEMMA OneLobbyAsks ==
  ASSUME NEW L \in AskLists, NEW R \in TidyLists, NEW id \in LobbyId, NEW m,
         R.lobby = [L.lobby EXCEPT ![id] = m], AskFits(m)
  PROVE  R \in AskLists
<1>1. \A o \in LobbyId : R.lobby[o] = IF o = id THEN m ELSE L.lobby[o]
  BY AskAt DEF SoundLists, LobbyLists
<1>2. QED
  BY <1>1, AskAt DEF AskLists

\* A list of the same lobbies.
LEMMA SameLobbiesAsk ==
  ASSUME NEW L \in AskLists, NEW R \in TidyLists, R.lobby = L.lobby
  PROVE  R \in AskLists
BY DEF AskLists

\* erase
LEMMA EraseAsks ==
  ASSUME NEW L \in AskLists, NEW id \in LobbyId
  PROVE  Erase(L, id) \in AskLists
<1>1. Erase(L, id) \in TidyLists
  BY AskAt, EraseTidy
<1>2. Erase(L, id).lobby = [L.lobby EXCEPT ![id] = EmptyLobby]
  BY DEF Erase
<1> HIDE DEF Erase
<1>3. QED
  BY <1>1, <1>2, EmptyLobbyAskFits, OneLobbyAsks

\* erase, after changes that left the other lobbies as they were.
LEMMA EraseChangedAsks ==
  ASSUME NEW L \in AskLists, NEW id \in LobbyId, NEW M \in TidyLists, NEW m,
         M.lobby = [L.lobby EXCEPT ![id] = m]
  PROVE  Erase(M, id) \in AskLists
<1>1. Erase(M, id) \in TidyLists
  BY EraseTidy
<1>2. Erase(M, id).lobby = [L.lobby EXCEPT ![id] = EmptyLobby]
  <2>1. Erase(M, id).lobby = [M.lobby EXCEPT ![id] = EmptyLobby]
    BY DEF Erase
  <2>2. L.lobby \in [LobbyId -> AnyLobby]
    BY AskAt DEF SoundLists, LobbyLists, AnyLobby
  <2>3. QED
    BY <2>1, <2>2
<1> HIDE DEF Erase
<1>3. QED
  BY <1>1, <1>2, EmptyLobbyAskFits, OneLobbyAsks

\* A user leaves a lobby that is told to stop asking.
LEMMA LeaveAndCancelAsks ==
  ASSUME NEW L \in AskLists, NEW id \in LobbyId, NEW a \in Members(L.lobby[id])
  PROVE  CancelTimer(RemoveFrom(L, id, a), id) \in AskLists
<1> DEFINE R == RemoveFrom(L, id, a)
           m == RemoveUser(L.lobby[id], a)
<1>1. R \in TidyLists /\ CancelTimer(R, id) \in TidyLists
  BY AskAt, RemoveFromTidy, CancelTimerTidy
<1>2. L.lobby \in [LobbyId -> AnyLobby]
  BY AskAt DEF SoundLists, LobbyLists, AnyLobby
<1>3. R.lobby = [L.lobby EXCEPT ![id] = m] /\ R.lobby[id] = m
  BY <1>2 DEF RemoveFrom, SetLobby
<1>4. CancelTimer(R, id).lobby = [R.lobby EXCEPT ![id] = StopWaiting(R.lobby[id])]
  BY DEF CancelTimer
<1> HIDE DEF R, m
<1>5. CancelTimer(R, id).lobby = [L.lobby EXCEPT ![id] = StopWaiting(m)]
  BY <1>2, <1>3, <1>4
<1>6. AskFits(StopWaiting(m))
  BY AskAt, LeftAskFits DEF m
<1>7. CancelTimer(R, id) \in AskLists
  BY <1>1, <1>5, <1>6, OneLobbyAsks
<1>8. QED
  BY <1>7 DEF R

\* The last user leaves, or the lobby is erased.
LEMMA LeaveAndEraseAsks ==
  ASSUME NEW L \in AskLists, NEW id \in LobbyId, NEW a \in Members(L.lobby[id])
  PROVE  /\ Erase(RemoveFrom(L, id, a), id) \in AskLists
         /\ Members(RemoveFrom(L, id, a).lobby[id]) = {} =>
              RemoveFrom(L, id, a) \in AskLists
<1> DEFINE R == RemoveFrom(L, id, a)
           m == RemoveUser(L.lobby[id], a)
<1>1. R \in TidyLists
  BY AskAt, RemoveFromTidy
<1>2. L.lobby \in [LobbyId -> AnyLobby]
  BY AskAt DEF SoundLists, LobbyLists, AnyLobby
<1>3. R.lobby = [L.lobby EXCEPT ![id] = m] /\ R.lobby[id] = m
  BY <1>2 DEF RemoveFrom, SetLobby
<1>4. Members(m) = {} => AskFits(m)
  BY AskAt, LeftAskFits
<1> HIDE DEF R, m
<1>5. Erase(R, id) \in AskLists
  BY <1>1, <1>3, EraseChangedAsks
<1>6. Members(R.lobby[id]) = {} => R \in AskLists
  BY <1>1, <1>3, <1>4, OneLobbyAsks
<1>7. QED
  BY <1>5, <1>6 DEF R

\* A user is in the lobbies a search for the user finds.
LEMMA FoundLobbies ==
  ASSUME NEW L, NEW a
  PROVE  /\ \A id \in FirstLobbyOf(L, a) : a \in Members(L.lobby[id])
         /\ \A id \in FirstQueueOf(L, a) : a \in Members(L.lobby[id])
         /\ \A id \in FirstInvitationOf(L, a) :
              a \in Members(L.lobby[id]) /\ L.lobby[id].waiting
BY DEF FirstLobbyOf, FirstQueueOf, FirstInvitationOf, FindIf, With, Waiting

\* leaveMatchMakingQueue
LEMMA LeaveQueueAsks ==
  ASSUME NEW L \in AskLists, NEW a
  PROVE  LeaveQueue(L, a) \subseteq AskLists
<1>1. ASSUME NEW id \in FirstQueueOf(L, a)
      PROVE  /\ Erase(RemoveFrom(L, id, a), id) \in AskLists
             /\ CancelTimer(RemoveFrom(L, id, a), id) \in AskLists
  BY AskAt, FirstLobbies, FoundLobbies, LeaveAndCancelAsks, LeaveAndEraseAsks
<1>2. QED
  BY <1>1 DEF LeaveQueue

\* logoutAccount: the one lobby it does not erase lost its last user, so that it was
\* not full and did not ask.
LEMMA LogoutLobbiesAsk ==
  ASSUME NEW L \in AskLists, NEW a
  PROVE  LogoutLobbies(L, a) \subseteq AskLists
<1>1. ASSUME NEW id \in FirstLobbyOf(L, a)
      PROVE  /\ Erase(RemoveFrom(L, id, a), id) \in AskLists
             /\ Members(RemoveFrom(L, id, a).lobby[id]) = {} =>
                  /\ RemoveFrom(L, id, a) \in AskLists
                  /\ LeaveQueue(RemoveFrom(L, id, a), a) \subseteq AskLists
  BY AskAt, FirstLobbies, FoundLobbies, LeaveAndEraseAsks, LeaveQueueAsks
<1>2. QED
  BY <1>1 DEF LogoutLobbies

\* cleanUp
LEMMA CleanUpLobbiesAsk ==
  ASSUME NEW L \in AskLists, NEW a
  PROVE  CleanUpLobbies(L, a) \subseteq AskLists
<1>1. ASSUME NEW id \in FirstLobbyOf(L, a)
      PROVE  /\ Erase(RemoveFrom(L, id, a), id) \in AskLists
             /\ CancelTimer(RemoveFrom(L, id, a), id) \in AskLists
  BY AskAt, FirstLobbies, FoundLobbies, LeaveAndCancelAsks, LeaveAndEraseAsks
<1>2. QED
  BY <1>1 DEF CleanUpLobbies

\* Lobbies that users run are not bound to ask while they are full.
LEMMA NotAQueueAsks ==
  ASSUME NEW L \in AskLists, NEW R \in TidyLists, NEW id \in LobbyId, NEW m,
         R.lobby = [L.lobby EXCEPT ![id] = m], m.lobbyAdminType \notin QueueType
  PROVE  R \in AskLists
<1>1. AskFits(m)
  BY DEF AskFits
<1>2. QED
  BY <1>1, OneLobbyAsks

\* The list of a fresh server.
LEMMA NoLobbiesAsk == NoLobbies \in AskLists
BY NoLobbiesTidy, EmptyLobbyAskFits DEF AskLists, NoLobbies
----------------------------------------------------------------------------
(* The steps *)

\* A process that stops leaves no lobbies.
LEMMA StopKeepsAsking ==
  ASSUME NEW why, ProcessStops(why)
  PROVE  Asking'
BY NoLobbiesAsk DEF ProcessStops, Asking

\* Requests about accounts and coroutines of logins: users only leave.
LEMMA AccountLoginKeepsAsking ==
  ASSUME Asking, Tidy', AccountLoginNext
  PROVE  Asking'
<1> USE DEF Asking, Tidy
<1>1. ASSUME NEW c \in Conn, Disconnect(c) PROVE Asking'
  <2>1. PICK L \in CleanUpLobbies(gameLobbies, accountName[c]) :
          gameLobbies' = ForgetOwner(L, c) \/ gameLobbies' = L
    BY <1>1 DEF Disconnect
  <2>2. L \in AskLists
    BY CleanUpLobbiesAsk
  <2>3. ForgetOwner(L, c).lobby = L.lobby
    BY DEF ForgetOwner
  <2> HIDE DEF ForgetOwner
  <2>4. QED
    BY <2>1, <2>2, <2>3, SameLobbiesAsk
<1>2. ASSUME NEW c \in Conn, LeaveAccount(c) PROVE Asking'
  BY <1>2, LogoutLobbiesAsk DEF LeaveAccount
<1>3. ASSUME NEW c \in Conn, NEW kind, NEW a, SpawnPasswordJob(c, kind, a) PROVE Asking'
  BY <1>2, <1>3 DEF SpawnPasswordJob
<1>4. ASSUME NEW c \in Conn,
             \/ Connect(c) \/ CancelRequest(c) \/ RelogTo(c) \/ LogoutAccount(c)
             \/ \E g \in Guest : LoginAsGuest(c, g)
             \/ \E a \in Registered : CreateAccount(c, a) \/ LoginAccount(c, a)
             \/ \E a \in SteamAccount : LoginAccountSteam(c, a)
      PROVE  Asking'
  BY <1>2, <1>3, <1>4 DEF Connect, CancelRequest, RelogTo, LogoutAccount, LoginAsGuest,
     CreateAccount, LoginAccount, LoginAccountSteam
<1>5. ASSUME NEW j \in JobId,
             \/ \E ok \in BOOLEAN : PasswordJobDone(j, ok)
             \/ PasswordHashed(j) \/ PasswordChecked(j) \/ StaleResult(j)
             \/ SteamLoginSuccess(j) \/ SteamLoginError(j) \/ SteamRequestFails(j)
             \/ ResumesAfterDisconnect(j)
      PROVE  Asking'
  BY <1>5, StopKeepsAsking DEF PasswordJobDone, PasswordHashed, PasswordChecked,
     StaleResult, SteamLoginSuccess, SteamLoginError, SteamRequestFails,
     ResumesAfterDisconnect, Resumes, UsesDestroyedObject
<1>6. QED
  BY <1>1, <1>4, <1>5 DEF AccountLoginNext

\* Lobbies of users.
LEMMA CustomLobbyKeepsAsking ==
  ASSUME IInv, Asking, Tidy', CustomLobbyNext
  PROVE  Asking'
<1> USE DEF Asking, Tidy
<1> DEFINE a(c) == accountName[c]
           l(id) == gameLobbies.lobby[id]
<1>0. SessionsTyped
  BY IInvParts
<1>1. ASSUME NEW id \in LobbyId, NEW m, m.lobbyAdminType \notin QueueType,
             gameLobbies'.lobby = [gameLobbies.lobby EXCEPT ![id] = m]
      PROVE  Asking'
  BY <1>1, NotAQueueAsks
<1>2. ASSUME NEW c \in Conn, NEW n \in LobbyName, CreateGameLobby(c, n) PROVE Asking'
  <2> DEFINE m == AddUser([EmptyLobby EXCEPT !.name = n], a(c))
  <2>1. m.lobbyAdminType \notin QueueType
    BY EmptyLobbyTidy DEF AddUser, EmptyLobby
  <2>2. PICK id \in NewLobby : gameLobbies' = Emplace(gameLobbies, id, m)
    BY <1>2 DEF CreateGameLobby
  <2>3. gameLobbies'.lobby = [gameLobbies.lobby EXCEPT ![id] = m]
    BY <2>2 DEF Emplace
  <2> HIDE DEF m
  <2>4. QED
    BY <1>1, <2>1, <2>3, NewLobbyFree
<1>3. ASSUME NEW c \in Conn, NEW n \in LobbyName, JoinGameLobby(c, n) PROVE Asking'
  <2>1. PICK id \in LobbiesNamed(gameLobbies, n) :
          gameLobbies' = SetLobby(gameLobbies, id, AddUser(l(id), a(c)))
    BY <1>3 DEF JoinGameLobby
  <2>2. id \in LobbyId /\ l(id) \in AnyLobby /\ TidyLobby(l(id)) /\ l(id).name = n
    BY AskAt, TidyAt DEF LobbiesNamed
  <2>3. AddUser(l(id), a(c)).lobbyAdminType \notin QueueType
    BY <2>2, NameAssumption DEF TidyLobby, AddUser, AnyLobby, Lobbies
  <2>4. gameLobbies'.lobby = [gameLobbies.lobby EXCEPT ![id] = AddUser(l(id), a(c))]
    BY <2>1 DEF SetLobby
  <2>5. QED
    BY <1>1, <2>2, <2>3, <2>4
<1>4. ASSUME NEW c \in Conn, NEW n \in MaxUserSize, SetMaxUserSizeInCreateGameLobby(c, n)
      PROVE  Asking'
  <2> DEFINE m(id) == [l(id) EXCEPT !.maxUserCount = n]
  <2>1. PICK id \in FirstLobbyOf(gameLobbies, a(c)) :
          /\ IsGameLobbyAdmin(l(id), a(c))
          /\ gameLobbies' = SetLobby(gameLobbies, id, m(id))
    BY <1>4 DEF SetMaxUserSizeInCreateGameLobby
  <2>2. id \in LobbyId /\ l(id) \in AnyLobby
    BY AskAt, FirstLobbies
  <2>3. m(id).lobbyAdminType \notin QueueType
    BY <2>1, <2>2 DEF IsGameLobbyAdmin, AnyLobby, Lobbies, Custom, QueueType, Ranked,
       Unranked
  <2>4. gameLobbies'.lobby = [gameLobbies.lobby EXCEPT ![id] = m(id)]
    BY <2>1 DEF SetLobby
  <2> HIDE DEF m, l
  <2>5. QED
    BY <1>1, <2>2, <2>3, <2>4
<1>5. ASSUME NEW c \in Conn, LeaveGameLobby(c) PROVE Asking'
  <2>1. PICK id \in FirstLobbyOf(gameLobbies, a(c)) :
          l(id).lobbyAdminType = Custom /\ gameLobbies' = LeaveLobby(gameLobbies, id, a(c))
    BY <1>5 DEF LeaveGameLobby
  <2>2. id \in LobbyId /\ l(id) \in AnyLobby /\ a(c) \in Members(l(id))
    BY AskAt, FirstLobbies, FoundLobbies
  <2>3. Erase(RemoveFrom(gameLobbies, id, a(c)), id) \in AskLists
    BY <2>2, LeaveAndEraseAsks
  <2>4. RemoveUser(l(id), a(c)).lobbyAdminType \notin QueueType
    BY <2>1, <2>2 DEF RemoveUser, AnyLobby, Lobbies, Custom, QueueType, Ranked, Unranked
  <2>5. CASE gameLobbies' = RemoveFrom(gameLobbies, id, a(c))
    BY <1>1, <2>2, <2>4, <2>5 DEF RemoveFrom, SetLobby
  <2>6. QED
    BY <2>1, <2>3, <2>5 DEF LeaveLobby
<1>6. QED
  BY <1>2, <1>3, <1>4, <1>5 DEF CustomLobbyNext

\* joinMatchMakingQueue and matchingLobby: the user who fills a lobby makes it ask.
LEMMA EnterQueueKeepsAsking ==
  ASSUME Asking, Tidy', NEW c \in Conn, accountName[c] \in Account,
         NEW type \in QueueType, EnterQueue(c, type)
  PROVE  Asking'
<1> USE DEF Asking, Tidy
<1> DEFINE a == accountName[c]
           l(id) == gameLobbies.lobby[id]
           m(id) == AddUser(l(id), a)
           Joined(id) == SetLobby(gameLobbies, id, m(id))
           o == [EmptyLobby EXCEPT !.lobbyAdminType = type,
                                   !.maxUserCount = UsersNeeded[type]]
<1>1. ASSUME NEW id \in LobbyToAddUser(a, type)
      PROVE  /\ id \in LobbyId /\ l(id).lobbyAdminType = type
             /\ Joined(id).lobby = [gameLobbies.lobby EXCEPT ![id] = m(id)]
             /\ Joined(id).lobby[id] = m(id)
             /\ m(id).lobbyAdminType = type
             /\ ~IsFull(m(id)) => AskFits(m(id))
             /\ \A t : IsFull(m(id)) => AskFits(StartWaiting(m(id), t))
  <2>1. id \in Live(gameLobbies) /\ HasSpace(l(id)) /\ l(id).lobbyAdminType = type
    BY DEF LobbyToAddUser, Matches, Live
  <2>2. id \in LobbyId /\ l(id) \in AnyLobby /\ AskFits(l(id))
    BY <2>1, TidyAt, AskAt
  <2>3. /\ Joined(id).lobby = [gameLobbies.lobby EXCEPT ![id] = m(id)]
        /\ Joined(id).lobby[id] = m(id)
    BY <2>2, AskAt DEF SetLobby, SoundLists, LobbyLists
  <2>4. m(id).lobbyAdminType = type
    BY <2>1, <2>2 DEF AddUser, AnyLobby, Lobbies
  <2>5. QED
    BY <2>1, <2>2, <2>3, <2>4, JoinedAskFits
<1>2. ASSUME NEW id \in LobbyToAddUser(a, type), ~IsFull(Joined(id).lobby[id]),
             gameLobbies' = Joined(id)
      PROVE  Asking'
  <2> HIDE DEF Joined, m
  <2>1. QED
    BY <1>1, <1>2, OneLobbyAsks
<1>3. ASSUME NEW id \in LobbyToAddUser(a, type), IsFull(Joined(id).lobby[id]), NEW t,
             gameLobbies' = AskUsersToJoinGame(Joined(id), id, t, c)
      PROVE  Asking'
  <2> DEFINE A == StartTimer(Joined(id), id, t, c)
             w == StartWaiting(m(id), t)
  <2>1. gameLobbies.lobby \in [LobbyId -> AnyLobby]
    BY AskAt DEF SoundLists, LobbyLists, AnyLobby
  <2>2. A.lobby = [Joined(id).lobby EXCEPT ![id] = StartWaiting(Joined(id).lobby[id], t)]
    BY DEF StartTimer
  <2> HIDE DEF A, Joined
  <2>3. A.lobby = [gameLobbies.lobby EXCEPT ![id] = w] /\ A.lobby[id] = w
    BY <1>1, <2>1, <2>2
  <2>4. w.lobbyAdminType = type
    <3>1. m(id) \in AnyLobby
      BY <1>1, AskAt, AddUserKeepsInvitation DEF SameInvitation
    <3> HIDE DEF m
    <3>2. QED
      BY <1>1, <3>1 DEF StartWaiting, AnyLobby, Lobbies
  <2>5. gameLobbies' = A
    BY <1>3, <2>3, <2>4 DEF AskUsersToJoinGame, A, QueueType, Custom, Ranked, Unranked
  <2>6. AskFits(w)
    BY <1>1, <1>3
  <2> HIDE DEF w
  <2>7. QED
    BY <1>1, <2>3, <2>5, <2>6, OneLobbyAsks
<1>4. ASSUME NEW id \in NewLobby, gameLobbies' = Emplace(gameLobbies, id, AddUser(o, a))
      PROVE  Asking'
  <2>1. /\ o \in AnyLobby /\ ~o.waiting /\ o.readyUsers = <<>> /\ o.accountNames = <<>>
        /\ o.maxUserCount \in Nat \ {0}
    BY EmptyLobbyType, QueueAssumption DEF EmptyLobby, AnyLobby, Lobbies, LobbyType
  <2> HIDE DEF o
  <2>2. HasSpace(o)
    BY <2>1 DEF HasSpace
  <2>3. /\ AddUser(o, a).accountNames = Append(o.accountNames, a)
        /\ AddUser(o, a).maxUserCount = o.maxUserCount
    BY <2>1 DEF AddUser, AnyLobby, Lobbies
  <2>4. AskFits(AddUser(o, a))
    <3>1. AskFits(o)
      BY <2>1, NobodyReady DEF AskFits, AsksWhileFull, IsFull
    <3>2. IsFull(AddUser(o, a)) => AddUser(o, a).maxUserCount = 1
      BY <2>1, <2>3 DEF IsFull
    <3>3. CASE IsFull(AddUser(o, a))
      BY <3>2, <3>3 DEF AskFits
    <3>4. QED
      BY <2>1, <2>2, <3>1, <3>3, JoinedAskFits
  <2>5. gameLobbies'.lobby = [gameLobbies.lobby EXCEPT ![id] = AddUser(o, a)]
    BY <1>4 DEF Emplace
  <2>6. QED
    BY <2>4, <2>5, NewLobbyFree, OneLobbyAsks
<1>5. QED
  BY <1>2, <1>3, <1>4 DEF EnterQueue

\* Joining, leaving and being put back in a queue.
LEMMA QueueKeepsAsking ==
  ASSUME IInv, Asking, Tidy', MatchmakingQueueNext
  PROVE  Asking'
<1>0. SessionsTyped /\ StartsTyped
  BY IInvParts
<1>1. ASSUME NEW c \in Conn, NEW type \in Offered, JoinMatchMakingQueue(c, type)
      PROVE  Asking'
  <2>1. accountName[c] \in Account /\ type \in QueueType
    BY <1>0, <1>1, QueueAssumption DEF JoinMatchMakingQueue, SessionsTyped
  <2>2. QED
    BY <1>1, <2>1, EnterQueueKeepsAsking, StopKeepsAsking DEF JoinMatchMakingQueue
<1>2. ASSUME NEW c \in Conn, LeaveQuickGameQueue(c) PROVE Asking'
  BY <1>2, LeaveQueueAsks DEF LeaveQuickGameQueue, Asking
<1>3. CASE Requeue
  <2> DEFINE a == Head(requeue.users)
  <2>1. requeue.users \in Seq(Account) /\ requeue.type \in QueueType /\ requeue.users # <<>>
    BY <1>0, <1>3 DEF Requeue, StartsTyped
  <2>2. a \in Account
    BY <2>1
  <2>3. \/ \E c \in SessionsOf(a) : EnterQueue(c, requeue.type)
        \/ UNCHANGED gameLobbies
        \/ ProcessStops("abort")
    BY <1>3 DEF Requeue
  <2>4. CASE UNCHANGED gameLobbies
    BY <2>4 DEF Asking
  <2>5. QED
    BY <2>1, <2>2, <2>3, <2>4, EnterQueueKeepsAsking, StopKeepsAsking DEF SessionsOf
<1>4. QED
  BY <1>1, <1>2, <1>3 DEF MatchmakingQueueNext

\* Invitations: an acceptance adds a user of the lobby, all else ends the wait.
LEMMA GameInvitationKeepsAsking ==
  ASSUME IInv, Asking, Tidy', GameInvitationNext
  PROVE  Asking'
<1> USE DEF Asking, Tidy
<1> DEFINE l(id) == gameLobbies.lobby[id]
           a(c) == accountName[c]
<1>0. gameLobbies.lobby \in [LobbyId -> AnyLobby]
  BY AskAt DEF SoundLists, LobbyLists, AnyLobby
<1>1. ASSUME NEW id \in LobbyId, NEW m, m.lobbyAdminType \notin QueueType,
             gameLobbies'.lobby = [gameLobbies.lobby EXCEPT ![id] = m]
      PROVE  Asking'
  BY <1>1, NotAQueueAsks
<1>2. ASSUME NEW c \in Conn, CreateGame(c) PROVE Asking'
  <2>1. CASE UNCHANGED gameLobbies
    BY <2>1
  <2>2. ASSUME NEW id \in FirstLobbyOf(gameLobbies, a(c)), IsGameLobbyAdmin(l(id), a(c)),
               NEW t, gameLobbies' = AskUsersToJoinGame(gameLobbies, id, t, c)
        PROVE  Asking'
    <3> DEFINE A == StartTimer(gameLobbies, id, t, c)
               w == A.lobby[id]
               m == [w EXCEPT !.readyUsers = Append(w.readyUsers, w.accountNames[1])]
    <3>1. id \in LobbyId /\ l(id) \in AnyLobby /\ l(id).lobbyAdminType = Custom
      BY <2>2, AskAt, FirstLobbies DEF IsGameLobbyAdmin
    <3>2. A.lobby = [gameLobbies.lobby EXCEPT ![id] = StartWaiting(l(id), t)]
      BY DEF StartTimer
    <3>3. w = StartWaiting(l(id), t)
      BY <1>0, <3>1, <3>2
    <3>4. w.lobbyAdminType = Custom /\ m.lobbyAdminType = Custom
      BY <3>1, <3>3 DEF StartWaiting, AnyLobby, Lobbies
    <3>5. gameLobbies' = SetLobby(A, id, m)
      BY <2>2, <3>4 DEF AskUsersToJoinGame
    <3>6. gameLobbies'.lobby = [A.lobby EXCEPT ![id] = m]
      BY <3>5 DEF SetLobby
    <3> HIDE DEF A, m
    <3>7. gameLobbies'.lobby = [gameLobbies.lobby EXCEPT ![id] = m]
      BY <1>0, <3>2, <3>6
    <3>8. QED
      BY <1>1, <3>1, <3>4, <3>7 DEF Custom, QueueType, Ranked, Unranked
  <2>3. QED
    BY <1>2, <2>1, <2>2 DEF CreateGame
<1>3. ASSUME NEW c \in Conn, AcceptGame(c) PROVE Asking'
  <2>1. PICK id \in FirstInvitationOf(gameLobbies, a(c)) :
          /\ ~HasAccepted(l(id), a(c))
          /\ gameLobbies' = SetLobby(gameLobbies, id, AcceptedBy(l(id), a(c)))
    BY <1>3 DEF AcceptGame
  <2>2. /\ id \in LobbyId /\ l(id) \in AnyLobby /\ AskFits(l(id))
        /\ a(c) \in Members(l(id)) /\ l(id).waiting
    BY AskAt, FirstLobbies, FoundLobbies
  <2>3. AskFits(AcceptedBy(l(id), a(c)))
    BY <2>1, <2>2, AcceptedAskFits
  <2>4. gameLobbies'.lobby = [gameLobbies.lobby EXCEPT ![id] = AcceptedBy(l(id), a(c))]
    BY <2>1 DEF SetLobby
  <2>5. QED
    BY <2>2, <2>3, <2>4, OneLobbyAsks
<1>4. ASSUME NEW c \in Conn, DeclineGame(c) PROVE Asking'
  <2>1. PICK id \in FirstInvitationOf(gameLobbies, a(c)) :
          \/ gameLobbies' = Erase(gameLobbies, id)
          \/ /\ l(id).lobbyAdminType = Custom
             /\ gameLobbies' = CancelTimer(gameLobbies, id)
    BY <1>4 DEF DeclineGame, DissolveQueueLobby
  <2>2. id \in LobbyId /\ l(id) \in AnyLobby
    BY AskAt, FirstLobbies
  <2>3. CASE l(id).lobbyAdminType = Custom /\ gameLobbies' = CancelTimer(gameLobbies, id)
    <3>1. gameLobbies'.lobby = [gameLobbies.lobby EXCEPT ![id] = StopWaiting(l(id))]
      BY <2>3 DEF CancelTimer
    <3>2. StopWaiting(l(id)).lobbyAdminType \notin QueueType
      BY <2>2, <2>3 DEF StopWaiting, AnyLobby, Lobbies, Custom, QueueType, Ranked, Unranked
    <3>3. QED
      BY <1>1, <2>2, <3>1, <3>2
  <2>4. QED
    BY <2>1, <2>2, <2>3, EraseAsks
<1>5. ASSUME NEW t \in TimerId, TimerExpires(t) PROVE Asking'
  BY <1>5, SameLobbiesAsk DEF TimerExpires, SetTimer
<1>6. ASSUME NEW t \in TimerId, TimerFires(t) PROVE Asking'
  <2> DEFINE id == TimerLobby(t)
             m == InvitationExpired(l(id))
             R == FiredList(t)
  <2>1. CASE UsesDestroyedObject
    BY <2>1, StopKeepsAsking DEF UsesDestroyedObject
  <2>2. CASE ~UsesDestroyedObject
    <3>1. id \in LobbyId
      BY <1>6, <2>2, TidyAt, AskAt, TimerHasFired
    <3>2. R.lobby = [gameLobbies.lobby EXCEPT ![id] = m]
      BY DEF FiredList, SetLobby, SetTimer, Lobby
    <3>3. R \in TidyLists
      BY <1>0, <3>1, AskAt, TimerEndsTidy DEF FiredList, TimerLobby, Lobby
    <3>4. \/ gameLobbies' = R /\ l(id).lobbyAdminType = Custom
          \/ gameLobbies' = Erase(R, id)
      BY <1>6, <2>2, TimerHasFired DEF DissolveQueueLobby, Lobby
    <3>5. CASE gameLobbies' = R /\ l(id).lobbyAdminType = Custom
      <4>1. m.lobbyAdminType \notin QueueType
        BY <1>0, <3>1, <3>5 DEF InvitationExpired, AnyLobby, Lobbies, Custom,
           QueueType, Ranked, Unranked
      <4>2. QED
        BY <1>1, <3>1, <3>2, <3>5, <4>1
    <3> HIDE DEF R
    <3>6. CASE gameLobbies' = Erase(R, id)
      BY <3>1, <3>2, <3>3, <3>6, EraseChangedAsks
    <3>7. QED
      BY <3>4, <3>5, <3>6
  <2>3. QED
    BY <2>1, <2>2
<1>7. QED
  BY <1>2, <1>3, <1>4, <1>5, <1>6 DEF GameInvitationNext

\* Games: the lobby of a start is erased, or nothing is done about it.
LEMMA GameKeepsAsking ==
  ASSUME Asking, Tidy', GameStartNext \/ GameProxyNext
  PROVE  Asking'
<1> USE DEF Asking, Tidy
<1>1. ASSUME NEW id \in LobbyId PROVE Erase(CancelTimer(gameLobbies, id), id) \in AskLists
  <2> DEFINE M == CancelTimer(gameLobbies, id)
  <2>1. M \in TidyLists
    BY AskAt, CancelTimerTidy
  <2>2. M.lobby = [gameLobbies.lobby EXCEPT ![id] = StopWaiting(gameLobbies.lobby[id])]
    BY DEF CancelTimer
  <2> HIDE DEF M
  <2>3. Erase(M, id) \in AskLists
    BY <2>1, <2>2, EraseChangedAsks
  <2>4. QED
    BY <2>3 DEF M
<1>2. ASSUME NEW s \in StartId, CapturesExist(s) PROVE starts[s].lobby \in LobbyId
  BY <1>2, TidyAt, AskAt DEF CapturesExist
<1>3. ASSUME NEW s \in StartId,
             \/ StartGameSent(s) \/ StartGameFails(s) \/ StartGameUnanswered(s)
             \/ \E success \in GameAnswers : StartGameAnswered(s, success)
      PROVE  Asking'
  BY <1>1, <1>2, <1>3, StopKeepsAsking, EraseAsks
     DEF StartGameSent, StartGameFails, StartGameUnanswered, StartGameAnswered,
         UsesDestroyedObject
<1>4. ASSUME NEW c \in Conn, NEW next, LinkEnds(c, next) PROVE Asking'
  <2>1. ForgetOwner(gameLobbies, c).lobby = gameLobbies.lobby
    BY DEF ForgetOwner
  <2>2. QED
    BY <1>4, <2>1, SameLobbiesAsk DEF LinkEnds
<1>5. CASE GameProxyNext
  BY <1>4, <1>5 DEF GameProxyNext, ConnectGameError, GameConnected, FirstMessageFromGame,
     LeaveGameSuccess, ConnectionToGameLost
<1>6. QED
  BY <1>3, <1>5 DEF GameStartNext

\* Every step keeps the invariant.
LEMMA NextKeepsAsking == IInv /\ Tidy /\ Asking /\ [Next]_vars => Asking'
<1> SUFFICES ASSUME IInv, Tidy, Asking, [Next]_vars PROVE Asking'
  OBVIOUS
<1>0. Tidy'
  BY NextKeepsTidy
<1>1. CASE AccountLoginNext
  BY <1>0, <1>1, AccountLoginKeepsAsking
<1>2. CASE CustomLobbyNext
  BY <1>0, <1>2, CustomLobbyKeepsAsking
<1>3. CASE MatchmakingQueueNext
  BY <1>0, <1>3, QueueKeepsAsking
<1>4. CASE GameInvitationNext
  BY <1>0, <1>4, GameInvitationKeepsAsking
<1>5. CASE GameStartNext \/ GameProxyNext
  BY <1>0, <1>5, GameKeepsAsking
<1>6. CASE UNCHANGED vars
  BY <1>6 DEF vars, Asking
<1>7. QED
  BY <1>1, <1>2, <1>3, <1>4, <1>5, <1>6 DEF Next, Crashed

\* At the start there is no lobby.
LEMMA InitAsking == Init => Asking
BY NoLobbiesAsk DEF Init, Asking

\* The invariant holds in every reachable state.
LEMMA AskingAlways == Spec => []Asking
BY Invariant, TidyAlways, InitAsking, NextKeepsAsking, PTL DEF Spec
----------------------------------------------------------------------------
(* The start of a game *)

\* What a sequence holds.
Elements(s) == {s[i] : i \in DOMAIN s}

\* As many users, all different and of the lobby, as the lobby has: all of them.
LEMMA AsManyAreAll ==
  ASSUME NEW S, NEW s \in Seq(S), NEW r \in Seq(S), Distinct(s), Distinct(r),
         Elements(r) \subseteq Elements(s), Len(r) = Len(s)
  PROVE  Elements(s) \subseteq Elements(r)
<1> USE DEF Elements
<1> DEFINE n == Len(s)
           M == {s[i] : i \in DOMAIN s}
<1>1. n \in Nat /\ DOMAIN s = 1 .. n /\ DOMAIN r = 1 .. n
  OBVIOUS
<1>2. s \in [1 .. n -> M] /\ r \in [1 .. n -> M]
  <2>1. s = [i \in 1 .. n |-> s[i]] /\ r = [i \in 1 .. n |-> r[i]]
    BY <1>1
  <2>2. \A i \in 1 .. n : s[i] \in M /\ r[i] \in M
    BY <1>1
  <2> HIDE DEF M, n
  <2>3. QED
    BY <2>1, <2>2
<1>3. /\ \A i, j \in 1 .. n : s[i] = s[j] => i = j
      /\ \A i, j \in 1 .. n : r[i] = r[j] => i = j
  BY <1>1 DEF Distinct
<1>4. \A m \in M : \E i \in 1 .. n : s[i] = m
  BY <1>1
<1> HIDE DEF M, n
<1>5. /\ s \in Surjection(1 .. n, M) /\ s \in Injection(1 .. n, M)
      /\ r \in Injection(1 .. n, M)
  BY <1>2, <1>3, <1>4 DEF Surjection, Injection, IsInjective
<1>6. IsFiniteSet(1 .. n)
  BY <1>1, FS_Interval
<1>7. IsFiniteSet(M) /\ Cardinality(M) = Cardinality(1 .. n)
  BY <1>5, <1>6, FS_Surjection
<1>8. r \in Surjection(1 .. n, M)
  BY <1>5, <1>7, FS_Injection
<1>9. \A m \in M : \E i \in 1 .. n : r[i] = m
  BY <1>8 DEF Surjection
<1>10. QED
  BY <1>1, <1>9 DEF M

\* The last acceptance is that of the last user.
LEMMA LastAcceptance ==
  ASSUME NEW l \in AnyLobby, TidyLobby(l), AskFits(l), l.lobbyAdminType \in QueueType,
         l.waiting, NEW a \in Members(l), ~HasAccepted(l, a), AllAccepted(AcceptedBy(l, a))
  PROVE  EveryoneReady(AcceptedBy(l, a))
<1> DEFINE m == AcceptedBy(l, a)
<1>1. /\ m.lobbyAdminType = l.lobbyAdminType /\ m.maxUserCount = l.maxUserCount
      /\ m.accountNames = l.accountNames /\ m.readyUsers = Append(l.readyUsers, a)
  BY DEF AcceptedBy, AnyLobby, Lobbies
<1>2. AskFits(m)
  BY AcceptedAskFits
<1>3. /\ l.readyUsers \in Seq(Account) /\ l.accountNames \in Seq(Account)
      /\ l.maxUserCount \in Nat
  BY DEF AnyLobby, Lobbies
<1>4. a \in Account
  BY <1>3 DEF Members
<1>5. m.readyUsers \in Seq(Account) /\ Len(m.readyUsers) = Len(l.readyUsers) + 1
  BY <1>1, <1>3, <1>4
<1>6. Len(m.readyUsers) = Len(m.accountNames)
  BY DEF AllAccepted
<1>7. m.readyUsers[Len(l.readyUsers) + 1] = a
  BY <1>1, <1>3
<1> HIDE DEF m
<1>8. ASSUME m.maxUserCount > 1 PROVE EveryoneReady(m)
  <2>1. Distinct(m.readyUsers) /\ Ready(m) \subseteq Members(m)
    BY <1>1, <1>2, <1>8 DEF AskFits, ReadyAreMembers
  <2>2. m.accountNames \in Seq(Account) /\ Distinct(m.accountNames)
    BY <1>1, <1>3 DEF TidyLobby
  <2>3. Members(m) = Elements(m.accountNames) /\ Ready(m) = Elements(m.readyUsers)
    BY DEF Members, Ready, Elements
  <2>4. Members(m) \subseteq Ready(m)
    BY <1>5, <1>6, <2>1, <2>2, <2>3, AsManyAreAll
  <2>5. QED
    BY <2>4 DEF EveryoneReady
<1>9. ASSUME ~(m.maxUserCount > 1) PROVE EveryoneReady(m)
  <2>1. Len(m.accountNames) <= 1 /\ Len(l.readyUsers) \in Nat
    BY <1>1, <1>3, <1>9 DEF TidyLobby
  <2>2. Len(m.accountNames) = 1 /\ Len(l.readyUsers) = 0
    <3>1. Len(m.accountNames) = Len(l.readyUsers) + 1
      BY <1>5, <1>6
    <3>2. ASSUME NEW n \in Nat, n + 1 <= 1 PROVE n = 0 /\ n + 1 = 1
      BY <3>2
    <3>3. QED
      BY <2>1, <3>1, <3>2
  <2>3. Ready(m) = {a}
    BY <1>5, <1>6, <1>7, <2>2 DEF Ready
  <2>4. Members(m) = Members(l) /\ Members(m) = {m.accountNames[1]}
    BY <1>1, <1>3, <2>2 DEF Members
  <2>5. QED
    BY <1>1, <2>3, <2>4 DEF EveryoneReady
<1>10. QED
  BY <1>8, <1>9 DEF m

\* Only an acceptance spawns a start with a handler.
LEMMA StartsAreAcceptances ==
  ASSUME IInv, [Next]_vars, NEW s \in NewStarts
  PROVE  \E c \in Conn : AcceptGame(c)
<1>0. /\ starts[s].phase = "idle" /\ starts'[s].phase = "connecting"
      /\ starts'[s].handler /\ s \in StartId
      /\ starts \in [StartId -> Starts]
  BY IInvParts DEF NewStarts, StartsTyped
<1>1. ASSUME starts' = [r \in StartId |-> IdleStart] PROVE FALSE
  BY <1>0, <1>1 DEF IdleStart
<1>2. ASSUME NEW why, ProcessStops(why) PROVE FALSE
  BY <1>1, <1>2 DEF ProcessStops
<1>3. ASSUME NEW c, starts' = ForgottenStarts(c) PROVE FALSE
  BY <1>0, <1>3 DEF ForgottenStarts, Starts
<1>4. CASE UNCHANGED starts
  BY <1>0, <1>4
<1>5. CASE AccountLoginNext
  BY <1>2, <1>3, <1>4, <1>5
     DEF AccountLoginNext, Connect, Disconnect, CancelRequest, RelogTo, LogoutAccount,
         LoginAsGuest, CreateAccount, LoginAccount, LoginAccountSteam, PasswordJobDone,
         PasswordHashed, PasswordChecked, StaleResult, SteamLoginSuccess,
         SteamLoginError, SteamRequestFails, ResumesAfterDisconnect, Resumes,
         UsesDestroyedObject
<1>6. CASE CustomLobbyNext
  BY <1>4, <1>6 DEF CustomLobbyNext, CreateGameLobby, JoinGameLobby,
     SetMaxUserSizeInCreateGameLobby, LeaveGameLobby
<1>7. CASE MatchmakingQueueNext
  BY <1>2, <1>4, <1>7 DEF MatchmakingQueueNext, JoinMatchMakingQueue,
     LeaveQuickGameQueue, Requeue
<1>8. CASE GameInvitationNext
  <2>1. ASSUME NEW c \in Conn, CreateGame(c) PROVE FALSE
    <3>1. ASSUME NEW r \in FreeStart, NEW id, SpawnStartGame(r, id, c, FALSE) PROVE FALSE
      BY <1>0, <3>1 DEF SpawnStartGame, Starts
    <3>2. QED
      BY <1>4, <2>1, <3>1, <1>0 DEF CreateGame
  <2>2. ASSUME NEW c \in Conn, DeclineGame(c) PROVE FALSE
    BY <1>0, <2>2 DEF DeclineGame
  <2>3. ASSUME NEW t \in TimerId, TimerExpires(t) PROVE FALSE
    BY <1>0, <2>3 DEF TimerExpires
  <2>4. ASSUME NEW t \in TimerId, TimerFires(t) PROVE FALSE
    BY <1>0, <1>2, <2>4, TimerHasFired DEF UsesDestroyedObject
  <2>5. QED
    BY <1>8, <2>1, <2>2, <2>3, <2>4 DEF GameInvitationNext
<1>9. CASE GameStartNext
  <2>1. ASSUME NEW r \in StartId, StartEnds(r) PROVE FALSE
    BY <1>0, <2>1 DEF StartEnds, IdleStart
  <2>2. ASSUME NEW r \in StartId, starts[r].phase = "connecting",
               starts' = [starts EXCEPT ![r].phase = "asked", ![r].handler = FALSE]
        PROVE  FALSE
    BY <1>0, <2>2 DEF Starts
  <2>3. QED
    BY <1>2, <1>9, <2>1, <2>2 DEF GameStartNext, StartGameSent, StartGameFails,
       StartGameUnanswered, StartGameAnswered, UsesDestroyedObject
<1>10. CASE GameProxyNext
  BY <1>3, <1>4, <1>10 DEF GameProxyNext, ConnectGameError, GameConnected,
     FirstMessageFromGame, LeaveGameSuccess, ConnectionToGameLost, LinkEnds
<1>11. QED
  BY <1>4, <1>5, <1>6, <1>7, <1>8, <1>9, <1>10 DEF Next, Crashed, vars

\* A step that starts a game of a queue.
LEMMA StartNeedsEveryone ==
  ASSUME IInv, Asking, [Next]_vars, NEW s \in NewStarts,
         starts'[s].lobby \in Queues(gameLobbies)
  PROVE  EveryoneReady(gameLobbies'.lobby[starts'[s].lobby])
<1> DEFINE l(id) == gameLobbies.lobby[id]
<1>0. /\ starts[s].phase = "idle" /\ starts'[s].phase = "connecting" /\ s \in StartId
      /\ starts \in [StartId -> Starts]
  BY IInvParts DEF NewStarts, StartsTyped
<1>1. PICK c \in Conn : AcceptGame(c)
  BY StartsAreAcceptances
<1> DEFINE a == accountName[c]
<1>2. PICK id \in FirstInvitationOf(gameLobbies, a) :
        /\ ~HasAccepted(l(id), a)
        /\ gameLobbies' = SetLobby(gameLobbies, id, AcceptedBy(l(id), a))
        /\ \/ /\ AllAccepted(AcceptedBy(l(id), a))
              /\ \E r \in FreeStart : SpawnStartGame(r, id, c, TRUE)
           \/ UNCHANGED starts
  BY <1>1 DEF AcceptGame
<1>3. /\ id \in LobbyId /\ l(id) \in AnyLobby /\ TidyLobby(l(id)) /\ AskFits(l(id))
      /\ a \in Members(l(id)) /\ l(id).waiting
  BY AskAt, FirstLobbies, FoundLobbies DEF Asking
<1>4. AllAccepted(AcceptedBy(l(id), a)) /\ starts'[s].lobby = id
  <2>1. PICK r \in FreeStart : /\ AllAccepted(AcceptedBy(l(id), a))
                               /\ SpawnStartGame(r, id, c, TRUE)
    BY <1>0, <1>2
  <2>2. r = s
    BY <1>0, <2>1 DEF SpawnStartGame
  <2>3. QED
    BY <1>0, <2>1, <2>2 DEF SpawnStartGame
<1>5. EveryoneReady(AcceptedBy(l(id), a))
  <2>1. l(id).lobbyAdminType \in QueueType
    BY <1>4 DEF Queues
  <2> HIDE DEF l, a
  <2>2. QED
    BY <1>2, <1>3, <1>4, <2>1, LastAcceptance
<1>6. gameLobbies'.lobby[id] = AcceptedBy(l(id), a)
  BY <1>2, <1>3, AskAt DEF SetLobby, Asking, SoundLists, LobbyLists
<1>7. QED
  BY <1>4, <1>5, <1>6
----------------------------------------------------------------------------
(* The theorems *)

\* A lobby of a queue of several users asks exactly while it is full: whoever joins
\* last starts the invitation, whoever leaves, logs out or disconnects ends it.
THEOREM QueueAsksWhileFull == Spec => []QueueLobbyAsksWhileFull
<1>1. IInv /\ Asking => QueueLobbyAsksWhileFull
  BY IInvParts, LiveLobbies
     DEF Asking, AskLists, AskFits, AsksWhileFull, QueueLobbyAsksWhileFull, LiveQueues,
         Queues, Lobby
<1>2. QED
  BY <1>1, Invariant, AskingAlways, PTL

\* In a queue those who are recorded as ready are users of the lobby, each once, and
\* none is before the lobby asks.
THEOREM QueueReadyMembers == Spec => []QueueReadyAreMembers
<1>1. IInv /\ Asking => QueueReadyAreMembers
  BY IInvParts, LiveLobbies
     DEF Asking, AskLists, AskFits, ReadyAreMembers, Distinct, QueueReadyAreMembers,
         LiveQueues, Queues, Lobby
<1>2. QED
  BY <1>1, Invariant, AskingAlways, PTL

\* A game of a queue starts only when every user of the lobby has accepted:
\* wantsToJoinGame counts answers, and the count is right because each user answers
\* once and nobody leaves a lobby that asks without ending the invitation.
THEOREM QueueStartsWithEveryone == Spec => QueueStartNeedsEveryone
<1>1. IInv /\ Asking /\ [Next]_vars
        => [\A s \in NewStarts : starts'[s].lobby \in Queues(gameLobbies) =>
              EveryoneReady(gameLobbies'.lobby[starts'[s].lobby])]_vars
  BY StartNeedsEveryone
<1>2. QED
  BY <1>1, Invariant, AskingAlways, PTL DEF Spec, QueueStartNeedsEveryone
----------------------------------------------------------------------------
(* What a step may do to a lobby of a queue *)

\* Users leave a lobby, and it may stop asking; nobody joins or answers.
UsersLeave(l, m) ==
  /\ Members(m) \subseteq Members(l)
  /\ m.waiting => l.waiting /\ m.readyUsers = l.readyUsers
  /\ m.lobbyAdminType \in QueueType =>
       /\ m.lobbyAdminType = l.lobbyAdminType
       /\ m.maxUserCount = l.maxUserCount
       /\ m.accountNames = l.accountNames \/ Len(m.accountNames) < Len(l.accountNames)
OnlyLeave(L, R) == \A id \in LobbyId : UsersLeave(L.lobby[id], R.lobby[id])

\* A lobby of a queue that goes on asking has no new users and no new answers.
SameAnswers(l, m) ==
  l.lobbyAdminType \in QueueType /\ l.maxUserCount > 1 /\ l.waiting /\ m.waiting
    => Members(m) \subseteq Members(l) /\ m.readyUsers = l.readyUsers

\* What becomes a lobby of a queue was one, and kept its users, lost some or got one
\* who matches it, or it is new and has one user.
KeepsUsers(l, m) ==
  /\ m.lobbyAdminType = l.lobbyAdminType
  /\ m.maxUserCount = l.maxUserCount
  /\ m.accountNames = l.accountNames \/ Len(m.accountNames) < Len(l.accountNames)
IsJoined(l, m) ==
  /\ m.lobbyAdminType = l.lobbyAdminType
  /\ m.maxUserCount = l.maxUserCount
  /\ \E a \in Account :
       /\ m.accountNames = Append(l.accountNames, a)
       /\ l.lobbyAdminType = Ranked /\ l.accountNames # <<>> => InRange(a, l)
IsOpened(m) ==
  m.maxUserCount = UsersNeeded[m.lobbyAdminType] /\ Len(m.accountNames) = 1
QueueStep(l, m) ==
  m.lobbyAdminType \in QueueType => KeepsUsers(l, m) \/ IsJoined(l, m) \/ IsOpened(m)

\* Every step but an acceptance.
NothingAnswered(L, R) ==
  \A id \in LobbyId : /\ SameAnswers(L.lobby[id], R.lobby[id])
                      /\ QueueStep(L.lobby[id], R.lobby[id])
----------------------------------------------------------------------------
(* The average of one user *)

\* SumOfRatings is a fold of the library: over one element, that element's value.
LEMMA SumOfOne ==
  ASSUME NEW b \in Account
  PROVE  SumOfRatings(<<b>>) = Rating[b]
<1> DEFINE s == <<b>>
           Sums(f) == [t \in SUBSET (DOMAIN s) |->
                         IF t = {} THEN 0 ELSE f[t \ {Max(t)}] + Rating[s[Max(t)]]]
           Iter == CHOOSE f : f = Sums(f)
           w == [t \in SUBSET (DOMAIN s) |-> IF t = {} THEN 0 ELSE Rating[b]]
<1>1. SumOfRatings(s) = Iter[DOMAIN s]
  BY DEF SumOfRatings, FoldLeft, MapThenFoldSet
<1>2. DOMAIN s = {1} /\ s[1] = b /\ Rating[b] \in Nat
  BY RatingAssumption
<1>3. ASSUME NEW t \in SUBSET {1}, t # {} PROVE t = {1} /\ t \ {Max(t)} = {} /\ Max(t) = 1
  <2>1. t = {1}
    BY <1>3
  <2>2. Max({1}) = 1
    BY DEF Max
  <2>3. QED
    BY <2>1, <2>2
<1>4. \A f : Sums(f) = [t \in SUBSET {1} |-> IF t = {} THEN 0 ELSE f[{}] + Rating[b]]
  BY <1>2, <1>3
<1>5. w = Sums(w)
  <2>1. w = [t \in SUBSET {1} |-> IF t = {} THEN 0 ELSE Rating[b]]
    BY <1>2
  <2>2. w[{}] = 0
    BY <2>1
  <2>3. QED
    BY <1>2, <1>4, <2>1, <2>2
<1>6. Iter = Sums(Iter)
  <2> HIDE DEF Sums, w
  <2>1. QED
    BY <1>5
<1>7. Iter = [t \in SUBSET {1} |-> IF t = {} THEN 0 ELSE Iter[{}] + Rating[b]]
  BY <1>4, <1>6
<1> HIDE DEF Iter, s
<1>8. Iter[{}] = 0
  BY <1>7
<1>9. Iter[{1}] = Rating[b]
  BY <1>2, <1>7, <1>8
<1>10. QED
  BY <1>1, <1>2, <1>9 DEF s

\* The average of a lobby of one user is the user's rating.
LEMMA AverageOfOne ==
  ASSUME NEW b \in Account
  PROVE  AverageRating(<<b>>) = Rating[b]
<1>1. Rating[b] \in Nat
  BY RatingAssumption
<1>2. \A n \in Nat : RoundedQuotient(n, 1) = n
  <2>1. \A n \in Nat : n \div 1 = n /\ n % 1 = 0
    OBVIOUS
  <2>2. QED
    BY <2>1 DEF RoundedQuotient
<1>3. QED
  BY <1>1, <1>2, SumOfOne DEF AverageRating
----------------------------------------------------------------------------
(* One lobby *)

\* removeUser, cancelTimer, the end of the time to accept, and erase.
LEMMA LeftLobbies ==
  ASSUME NEW l \in AnyLobby, TidyLobby(l)
  PROVE  /\ \A a : UsersLeave(l, RemoveUser(l, a))
         /\ UsersLeave(l, StopWaiting(l))
         /\ UsersLeave(l, InvitationExpired(l))
         /\ UsersLeave(l, EmptyLobby)
<1>1. ASSUME NEW a PROVE UsersLeave(l, RemoveUser(l, a))
  <2> DEFINE m == RemoveUser(l, a)
             s == l.accountNames
  <2>1. CASE PositionOf(l, a) = {}
    BY <2>1 DEF RemoveUser, UsersLeave
  <2>2. CASE PositionOf(l, a) # {}
    <3>1. PICK i \in PositionOf(l, a) : i = CHOOSE k \in PositionOf(l, a) : TRUE
      BY <2>2
    <3>2. s \in Seq(Account) /\ i \in 1 .. Len(s)
      BY DEF PositionOf, AnyLobby, Lobbies
    <3>3. m = [l EXCEPT !.accountNames = Without(s, i)]
      BY <2>2, <3>1 DEF RemoveUser
    <3>4. /\ m.accountNames = Without(s, i) /\ m.lobbyAdminType = l.lobbyAdminType
          /\ m.maxUserCount = l.maxUserCount /\ m.waiting = l.waiting
          /\ m.readyUsers = l.readyUsers
      BY <3>3 DEF AnyLobby, Lobbies
    <3>5. Len(m.accountNames) < Len(s)
      BY <3>2, <3>4, WithoutType
    <3>6. Members(m) \subseteq Members(l)
      BY RemoveUserFewer DEF FewerUsers
    <3> HIDE DEF m
    <3>7. UsersLeave(l, m)
      BY <3>4, <3>5, <3>6 DEF UsersLeave
    <3>8. QED
      BY <3>7 DEF m
  <2>3. QED
    BY <2>1, <2>2
<1>2. UsersLeave(l, StopWaiting(l)) /\ UsersLeave(l, InvitationExpired(l))
  BY WaitingSameUsers, StopWaitingType, InvitationExpiredType
     DEF UsersLeave, SameUsers, Members
<1>3. UsersLeave(l, EmptyLobby)
  BY EmptyLobbyTidy DEF UsersLeave, EmptyLobby
<1>4. QED
  BY <1>1, <1>2, <1>3
----------------------------------------------------------------------------
(* Lists *)

\* Only the lobby at id changes.
LEMMA OneLobbyAnswers ==
  ASSUME NEW L \in SoundLists, NEW R, NEW id \in LobbyId, NEW m,
         R.lobby = [L.lobby EXCEPT ![id] = m]
  PROVE  /\ SameAnswers(L.lobby[id], m) /\ QueueStep(L.lobby[id], m)
              => NothingAnswered(L, R)
         /\ UsersLeave(L.lobby[id], m) => OnlyLeave(L, R)
<1>1. \A o \in LobbyId : R.lobby[o] = IF o = id THEN m ELSE L.lobby[o]
  BY DEF SoundLists, LobbyLists
<1>2. \A l : SameAnswers(l, l) /\ QueueStep(l, l) /\ UsersLeave(l, l)
  BY DEF SameAnswers, QueueStep, KeepsUsers, UsersLeave
<1>3. QED
  BY <1>1, <1>2 DEF NothingAnswered, OnlyLeave

\* One change after the other.
LEMMA OnlyLeaveTwice ==
  ASSUME NEW L \in TidyLists, NEW M \in TidyLists, NEW R \in TidyLists,
         OnlyLeave(L, M), OnlyLeave(M, R)
  PROVE  OnlyLeave(L, R)
<1>1. ASSUME NEW l \in AnyLobby PROVE Len(l.accountNames) \in Nat
  BY DEF AnyLobby, Lobbies
<1>2. ASSUME NEW l \in AnyLobby, NEW m \in AnyLobby, NEW r \in AnyLobby,
             UsersLeave(l, m), UsersLeave(m, r)
      PROVE  UsersLeave(l, r)
  BY <1>1, <1>2 DEF UsersLeave
<1>3. QED
  BY <1>2, TidyAt DEF OnlyLeave

LEMMA OnlyLeaveAnswers ==
  ASSUME NEW L, NEW R, OnlyLeave(L, R)
  PROVE  NothingAnswered(L, R)
BY DEF OnlyLeave, UsersLeave, NothingAnswered, SameAnswers, QueueStep, KeepsUsers

\* removeUser, cancelTimer and erase.
LEMMA LeaveAnswers ==
  ASSUME NEW L \in TidyLists, NEW id \in LobbyId
  PROVE  /\ \A a : OnlyLeave(L, RemoveFrom(L, id, a))
         /\ OnlyLeave(L, CancelTimer(L, id))
         /\ OnlyLeave(L, Erase(L, id))
<1> DEFINE l == L.lobby[id]
<1>1. L \in SoundLists /\ l \in AnyLobby /\ TidyLobby(l)
  BY TidyAt
<1>2. ASSUME NEW a PROVE OnlyLeave(L, RemoveFrom(L, id, a))
  <2>1. RemoveFrom(L, id, a).lobby = [L.lobby EXCEPT ![id] = RemoveUser(l, a)]
    BY DEF RemoveFrom, SetLobby
  <2> HIDE DEF l
  <2>2. UsersLeave(l, RemoveUser(l, a))
    BY <1>1, LeftLobbies
  <2>3. QED
    BY <1>1, <2>1, <2>2, OneLobbyAnswers DEF l
<1>3. OnlyLeave(L, CancelTimer(L, id))
  <2>1. CancelTimer(L, id).lobby = [L.lobby EXCEPT ![id] = StopWaiting(l)]
    BY DEF CancelTimer
  <2> HIDE DEF l
  <2>2. UsersLeave(l, StopWaiting(l))
    BY <1>1, LeftLobbies
  <2>3. QED
    BY <1>1, <2>1, <2>2, OneLobbyAnswers DEF l
<1>4. OnlyLeave(L, Erase(L, id))
  <2>1. Erase(L, id).lobby = [L.lobby EXCEPT ![id] = EmptyLobby]
    BY DEF Erase
  <2>2. UsersLeave(l, EmptyLobby)
    BY <1>1, LeftLobbies
  <2> HIDE DEF l
  <2>3. QED
    BY <1>1, <2>1, <2>2, OneLobbyAnswers DEF l
<1>5. QED
  BY <1>2, <1>3, <1>4

\* A user who leaves a lobby, which is then erased, told to stop asking or kept.
LEMMA LeavesAnswers ==
  ASSUME NEW L \in TidyLists, NEW id \in LobbyId, NEW a
  PROVE  /\ RemoveFrom(L, id, a) \in TidyLists
         /\ OnlyLeave(L, RemoveFrom(L, id, a))
         /\ OnlyLeave(L, Erase(RemoveFrom(L, id, a), id))
         /\ OnlyLeave(L, CancelTimer(RemoveFrom(L, id, a), id))
<1> DEFINE R == RemoveFrom(L, id, a)
<1>1. R \in TidyLists /\ OnlyLeave(L, R)
  BY RemoveFromTidy, LeaveAnswers
<1> HIDE DEF R
<1>2. /\ Erase(R, id) \in TidyLists /\ CancelTimer(R, id) \in TidyLists
      /\ OnlyLeave(R, Erase(R, id)) /\ OnlyLeave(R, CancelTimer(R, id))
  BY <1>1, LeaveAnswers, EraseTidy, CancelTimerTidy
<1>3. OnlyLeave(L, Erase(R, id)) /\ OnlyLeave(L, CancelTimer(R, id))
  BY <1>1, <1>2, OnlyLeaveTwice
<1>4. QED
  BY <1>1, <1>3 DEF R

\* leaveMatchMakingQueue, logoutAccount, cleanUp and leaveGameLobby.
LEMMA LeavingAnswers ==
  ASSUME NEW L \in TidyLists, NEW a
  PROVE  /\ \A R \in LeaveQueue(L, a) : OnlyLeave(L, R)
         /\ \A R \in LogoutLobbies(L, a) : OnlyLeave(L, R)
         /\ \A R \in CleanUpLobbies(L, a) : OnlyLeave(L, R)
         /\ \A id \in LobbyId : OnlyLeave(L, LeaveLobby(L, id, a))
<1>1. OnlyLeave(L, L)
  BY DEF OnlyLeave, UsersLeave
<1>2. FirstLobbyOf(L, a) \subseteq LobbyId /\ FirstQueueOf(L, a) \subseteq LobbyId
  BY TidyAt, FirstLobbies
<1>3. ASSUME NEW M \in TidyLists, NEW R \in LeaveQueue(M, a) PROVE OnlyLeave(M, R)
  <2>1. OnlyLeave(M, M) /\ FirstQueueOf(M, a) \subseteq LobbyId
    BY TidyAt, FirstLobbies DEF OnlyLeave, UsersLeave
  <2>2. QED
    BY <1>3, <2>1, LeavesAnswers DEF LeaveQueue
<1>4. \A R \in CleanUpLobbies(L, a) : OnlyLeave(L, R)
  BY <1>1, <1>2, LeavesAnswers DEF CleanUpLobbies
<1>5. ASSUME NEW id \in LobbyId, NEW R \in LeaveQueue(RemoveFrom(L, id, a), a)
      PROVE  OnlyLeave(L, R)
  BY <1>3, <1>5, LeavesAnswers, LeaveQueueTidy, OnlyLeaveTwice
<1>6. ASSUME NEW R \in LogoutLobbies(L, a) PROVE OnlyLeave(L, R)
  BY <1>1, <1>2, <1>5, <1>6, LeavesAnswers DEF LogoutLobbies
<1>7. \A id \in LobbyId : OnlyLeave(L, LeaveLobby(L, id, a))
  BY LeavesAnswers DEF LeaveLobby
<1>8. QED
  BY <1>3, <1>4, <1>6, <1>7
----------------------------------------------------------------------------
\* A process that stops leaves no lobbies.
LEMMA StopAnswers ==
  ASSUME IInv, NEW why, ProcessStops(why)
  PROVE  NothingAnswered(gameLobbies, gameLobbies')
<1>1. \A id \in LobbyId : gameLobbies'.lobby[id] = EmptyLobby
  BY DEF ProcessStops, NoLobbies
<1>2. QED
  BY <1>1, EmptyLobbyTidy DEF NothingAnswered, SameAnswers, QueueStep, EmptyLobby

\* The same lobbies.
LEMMA SameLobbiesAnswers ==
  ASSUME NEW L, NEW R, R.lobby = L.lobby
  PROVE  OnlyLeave(L, R) /\ NothingAnswered(L, R)
BY DEF OnlyLeave, UsersLeave, NothingAnswered, SameAnswers, QueueStep, KeepsUsers

\* Requests about accounts and coroutines of logins: users only leave.
LEMMA AccountLoginAnswers ==
  ASSUME IInv, Tidy, AccountLoginNext
  PROVE  NothingAnswered(gameLobbies, gameLobbies')
<1> USE DEF Tidy
<1> DEFINE Same == NothingAnswered(gameLobbies, gameLobbies')
<1>0. UNCHANGED gameLobbies => Same
  BY SameLobbiesAnswers
<1>1. ASSUME NEW c \in Conn, Disconnect(c) PROVE Same
  <2>1. PICK L \in CleanUpLobbies(gameLobbies, accountName[c]) :
          gameLobbies' = ForgetOwner(L, c) \/ gameLobbies' = L
    BY <1>1 DEF Disconnect
  <2>2. OnlyLeave(gameLobbies, L)
    BY LeavingAnswers
  <2>3. ForgetOwner(L, c).lobby = L.lobby
    BY DEF ForgetOwner
  <2> HIDE DEF ForgetOwner
  <2>4. OnlyLeave(gameLobbies, gameLobbies')
    BY <2>1, <2>2, <2>3 DEF OnlyLeave
  <2>5. QED
    BY <2>4, OnlyLeaveAnswers
<1>2. ASSUME NEW c \in Conn, LeaveAccount(c) PROVE Same
  BY <1>2, LeavingAnswers, OnlyLeaveAnswers DEF LeaveAccount
<1> HIDE DEF Same
<1>3. ASSUME NEW c \in Conn, NEW kind, NEW a, SpawnPasswordJob(c, kind, a) PROVE Same
  BY <1>0, <1>2, <1>3 DEF SpawnPasswordJob
<1>4. ASSUME NEW c \in Conn,
             \/ Connect(c) \/ CancelRequest(c) \/ RelogTo(c) \/ LogoutAccount(c)
             \/ \E g \in Guest : LoginAsGuest(c, g)
             \/ \E a \in Registered : CreateAccount(c, a) \/ LoginAccount(c, a)
             \/ \E a \in SteamAccount : LoginAccountSteam(c, a)
      PROVE  Same
  BY <1>0, <1>2, <1>3, <1>4 DEF Connect, CancelRequest, RelogTo, LogoutAccount,
     LoginAsGuest, CreateAccount, LoginAccount, LoginAccountSteam
<1>5. ASSUME NEW j \in JobId,
             \/ \E ok \in BOOLEAN : PasswordJobDone(j, ok)
             \/ PasswordHashed(j) \/ PasswordChecked(j) \/ StaleResult(j)
             \/ SteamLoginSuccess(j) \/ SteamLoginError(j) \/ SteamRequestFails(j)
             \/ ResumesAfterDisconnect(j)
      PROVE  Same
  BY <1>0, <1>5, StopAnswers DEF PasswordJobDone, PasswordHashed, PasswordChecked,
     StaleResult, SteamLoginSuccess, SteamLoginError, SteamRequestFails,
     ResumesAfterDisconnect, Resumes, UsesDestroyedObject, Same
<1>6. QED
  BY <1>1, <1>4, <1>5 DEF AccountLoginNext, Same

\* Lobbies of users: no lobby of a queue can be joined by its name.
LEMMA CustomLobbyAnswers ==
  ASSUME IInv, Tidy, CustomLobbyNext
  PROVE  NothingAnswered(gameLobbies, gameLobbies')
<1> USE DEF Tidy
<1> DEFINE Same == NothingAnswered(gameLobbies, gameLobbies')
           a(c) == accountName[c]
           l(id) == gameLobbies.lobby[id]
<1>0. gameLobbies \in SoundLists /\ \A id \in LobbyId : l(id) \in AnyLobby /\ TidyLobby(l(id))
  BY TidyAt
<1>1. ASSUME NEW id \in LobbyId, NEW m, m.lobbyAdminType \notin QueueType,
             l(id).lobbyAdminType \notin QueueType \/ ~m.waiting,
             gameLobbies'.lobby = [gameLobbies.lobby EXCEPT ![id] = m]
      PROVE  Same
  BY <1>0, <1>1, OneLobbyAnswers DEF SameAnswers, QueueStep
<1>2. ASSUME NEW c \in Conn, NEW n \in LobbyName, CreateGameLobby(c, n) PROVE Same
  <2> DEFINE m == AddUser([EmptyLobby EXCEPT !.name = n], a(c))
  <2>1. ~m.waiting /\ m.lobbyAdminType \notin QueueType
    BY EmptyLobbyTidy DEF AddUser, EmptyLobby
  <2>2. PICK id \in NewLobby : gameLobbies' = Emplace(gameLobbies, id, m)
    BY <1>2 DEF CreateGameLobby
  <2>3. gameLobbies'.lobby = [gameLobbies.lobby EXCEPT ![id] = m]
    BY <2>2 DEF Emplace
  <2> HIDE DEF m
  <2>4. QED
    BY <1>1, <2>1, <2>3, NewLobbyFree
<1>3. ASSUME NEW c \in Conn, NEW n \in LobbyName, JoinGameLobby(c, n) PROVE Same
  <2>1. PICK id \in LobbiesNamed(gameLobbies, n) :
          gameLobbies' = SetLobby(gameLobbies, id, AddUser(l(id), a(c)))
    BY <1>3 DEF JoinGameLobby
  <2>2. id \in LobbyId /\ l(id).name = n
    BY TidyAt DEF LobbiesNamed
  <2>3. /\ l(id).lobbyAdminType \notin QueueType
        /\ AddUser(l(id), a(c)).lobbyAdminType = l(id).lobbyAdminType
    BY <1>0, <2>2, NameAssumption DEF TidyLobby, AddUser, AnyLobby, Lobbies
  <2>4. gameLobbies'.lobby = [gameLobbies.lobby EXCEPT ![id] = AddUser(l(id), a(c))]
    BY <2>1 DEF SetLobby
  <2>5. QED
    BY <1>1, <2>2, <2>3, <2>4
<1>4. ASSUME NEW c \in Conn, NEW n \in MaxUserSize, SetMaxUserSizeInCreateGameLobby(c, n)
      PROVE  Same
  <2> DEFINE m(id) == [l(id) EXCEPT !.maxUserCount = n]
  <2>1. PICK id \in FirstLobbyOf(gameLobbies, a(c)) :
          /\ IsGameLobbyAdmin(l(id), a(c))
          /\ gameLobbies' = SetLobby(gameLobbies, id, m(id))
    BY <1>4 DEF SetMaxUserSizeInCreateGameLobby
  <2>2. /\ id \in LobbyId /\ l(id).lobbyAdminType \notin QueueType
        /\ m(id).lobbyAdminType = l(id).lobbyAdminType
    BY <1>0, <2>1, FirstLobbies DEF IsGameLobbyAdmin, Custom, QueueType, Ranked, Unranked,
       AnyLobby, Lobbies
  <2>3. gameLobbies'.lobby = [gameLobbies.lobby EXCEPT ![id] = m(id)]
    BY <2>1 DEF SetLobby
  <2> HIDE DEF m, l
  <2>4. QED
    BY <1>1, <2>2, <2>3
<1>5. ASSUME NEW c \in Conn, LeaveGameLobby(c) PROVE Same
  BY <1>0, <1>5, FirstLobbies, LeavingAnswers, OnlyLeaveAnswers DEF LeaveGameLobby
<1>6. QED
  BY <1>2, <1>3, <1>4, <1>5 DEF CustomLobbyNext

\* joinMatchMakingQueue: a lobby with space does not ask.
LEMMA EnterQueueAnswers ==
  ASSUME Asking, NEW c \in Conn, accountName[c] \in Account,
         NEW type \in QueueType, EnterQueue(c, type)
  PROVE  NothingAnswered(gameLobbies, gameLobbies')
<1> USE DEF Asking
<1> DEFINE a == accountName[c]
           l(id) == gameLobbies.lobby[id]
           Joined(id) == SetLobby(gameLobbies, id, AddUser(l(id), a))
           n == [EmptyLobby EXCEPT !.lobbyAdminType = type,
                                   !.maxUserCount = UsersNeeded[type]]
           o == AddUser(n, a)
<1>0. gameLobbies.lobby \in [LobbyId -> AnyLobby] /\ gameLobbies \in SoundLists
  BY AskAt DEF SoundLists, LobbyLists, AnyLobby
<1>1. ASSUME NEW id \in LobbyToAddUser(a, type), NEW m,
             m.lobbyAdminType = l(id).lobbyAdminType, m.maxUserCount = l(id).maxUserCount,
             m.accountNames = Append(l(id).accountNames, a),
             gameLobbies'.lobby = [gameLobbies.lobby EXCEPT ![id] = m]
      PROVE  NothingAnswered(gameLobbies, gameLobbies')
  <2>1. /\ id \in Live(gameLobbies) /\ HasSpace(l(id)) /\ l(id).lobbyAdminType = type
        /\ type = Ranked /\ l(id).accountNames # <<>> => InRange(a, l(id))
    BY DEF LobbyToAddUser, Matches, Live
  <2>2. id \in LobbyId /\ l(id) \in AnyLobby /\ AskFits(l(id))
    BY <2>1, TidyAt, AskAt
  <2>3. ~IsFull(l(id))
    BY <2>1, <2>2 DEF IsFull, HasSpace, AnyLobby, Lobbies
  <2>4. l(id).maxUserCount > 1 => ~l(id).waiting
    BY <2>1, <2>2, <2>3 DEF AskFits, AsksWhileFull
  <2>5. SameAnswers(l(id), m) /\ QueueStep(l(id), m)
    BY <1>1, <2>1, <2>4 DEF SameAnswers, QueueStep, IsJoined
  <2> HIDE DEF l
  <2>6. QED
    BY <1>0, <1>1, <2>2, <2>5, OneLobbyAnswers DEF l
<1>2. ASSUME NEW id \in LobbyToAddUser(a, type)
      PROVE  /\ id \in LobbyId /\ l(id).lobbyAdminType = type /\ AddUser(l(id), a) \in AnyLobby
             /\ AddUser(l(id), a).lobbyAdminType = type
             /\ AddUser(l(id), a).maxUserCount = l(id).maxUserCount
             /\ AddUser(l(id), a).accountNames = Append(l(id).accountNames, a)
             /\ Joined(id).lobby = [gameLobbies.lobby EXCEPT ![id] = AddUser(l(id), a)]
  <2>1. id \in Live(gameLobbies) /\ l(id).lobbyAdminType = type
    BY DEF LobbyToAddUser, Matches, Live
  <2>2. id \in LobbyId /\ l(id) \in AnyLobby
    BY <2>1, TidyAt, AskAt
  <2>3. QED
    BY <2>1, <2>2, AddUserKeepsInvitation
       DEF SameInvitation, AddUser, AnyLobby, Lobbies, SetLobby
<1>3. ASSUME NEW id \in LobbyToAddUser(a, type), gameLobbies' = Joined(id)
      PROVE  NothingAnswered(gameLobbies, gameLobbies')
  <2>1. gameLobbies'.lobby = [gameLobbies.lobby EXCEPT ![id] = AddUser(l(id), a)]
    BY <1>2, <1>3
  <2> HIDE DEF Joined, l
  <2>2. QED
    BY <1>1, <1>2, <2>1
<1>4. ASSUME NEW id \in LobbyToAddUser(a, type), NEW t,
             gameLobbies' = AskUsersToJoinGame(Joined(id), id, t, c)
      PROVE  NothingAnswered(gameLobbies, gameLobbies')
  <2> DEFINE A == StartTimer(Joined(id), id, t, c)
             w == StartWaiting(AddUser(l(id), a), t)
  <2>1. A.lobby = [Joined(id).lobby EXCEPT ![id] = StartWaiting(Joined(id).lobby[id], t)]
    BY DEF StartTimer
  <2> HIDE DEF A, Joined
  <2>2. A.lobby = [gameLobbies.lobby EXCEPT ![id] = w] /\ A.lobby[id] = w
    BY <1>0, <1>2, <2>1
  <2>3. /\ w.lobbyAdminType = type /\ w.maxUserCount = l(id).maxUserCount
        /\ w.accountNames = Append(l(id).accountNames, a)
    BY <1>2 DEF StartWaiting, AnyLobby, Lobbies
  <2> HIDE DEF w, l
  <2>4. gameLobbies' = A
    BY <1>4, <2>2, <2>3 DEF AskUsersToJoinGame, A, QueueType, Custom, Ranked, Unranked
  <2>5. QED
    BY <1>1, <1>2, <2>2, <2>3, <2>4
<1>5. ASSUME NEW id \in NewLobby, gameLobbies' = Emplace(gameLobbies, id, o)
      PROVE  NothingAnswered(gameLobbies, gameLobbies')
  <2>1. /\ ~n.waiting /\ n.lobbyAdminType = type /\ n.accountNames = <<>>
        /\ n.maxUserCount = UsersNeeded[type] /\ n \in AnyLobby
    BY EmptyLobbyType, QueueAssumption DEF EmptyLobby, AnyLobby, Lobbies, LobbyType
  <2> HIDE DEF n
  <2>2. /\ ~o.waiting /\ o.lobbyAdminType = type /\ o.maxUserCount = UsersNeeded[type]
        /\ o.accountNames = Append(n.accountNames, a)
    BY <2>1 DEF AddUser, AnyLobby, Lobbies
  <2>3. Len(o.accountNames) = 1
    BY <2>1, <2>2
  <2>4. gameLobbies'.lobby = [gameLobbies.lobby EXCEPT ![id] = o]
    BY <1>5 DEF Emplace
  <2> HIDE DEF o
  <2>5. SameAnswers(l(id), o) /\ QueueStep(l(id), o)
    BY <2>2, <2>3 DEF SameAnswers, QueueStep, IsOpened
  <2>6. id \in LobbyId
    BY <1>5, NewLobbyFree
  <2>7. QED
    BY <1>0, <2>4, <2>5, <2>6, OneLobbyAnswers
<1>6. QED
  BY <1>3, <1>4, <1>5 DEF EnterQueue

\* Joining, leaving and being put back in a queue.
LEMMA QueueAnswers ==
  ASSUME IInv, Tidy, Asking, MatchmakingQueueNext
  PROVE  NothingAnswered(gameLobbies, gameLobbies')
<1>1. ASSUME NEW c \in Conn, NEW type \in Offered, JoinMatchMakingQueue(c, type)
      PROVE  NothingAnswered(gameLobbies, gameLobbies')
  <2>1. accountName[c] \in Account /\ type \in QueueType
    BY <1>1, IInvParts, QueueAssumption DEF JoinMatchMakingQueue, SessionsTyped
  <2>2. QED
    BY <1>1, <2>1, EnterQueueAnswers, StopAnswers DEF JoinMatchMakingQueue
<1>2. ASSUME NEW c \in Conn, LeaveQuickGameQueue(c)
      PROVE  NothingAnswered(gameLobbies, gameLobbies')
  BY <1>2, LeavingAnswers, OnlyLeaveAnswers DEF LeaveQuickGameQueue, Tidy
<1>3. CASE Requeue
  <2> DEFINE a == Head(requeue.users)
  <2>1. requeue.users \in Seq(Account) /\ requeue.type \in QueueType /\ requeue.users # <<>>
    BY <1>3, IInvParts DEF Requeue, StartsTyped
  <2>2. /\ a \in Account
        /\ \/ \E c \in Conn : accountName[c] = a /\ EnterQueue(c, requeue.type)
           \/ UNCHANGED gameLobbies
           \/ ProcessStops("abort")
    BY <1>3, <2>1 DEF Requeue, SessionsOf
  <2>3. QED
    BY <2>1, <2>2, EnterQueueAnswers, SameLobbiesAnswers, StopAnswers
<1>4. QED
  BY <1>1, <1>2, <1>3 DEF MatchmakingQueueNext

\* Invitations: only an acceptance is recorded.
LEMMA GameInvitationAnswers ==
  ASSUME IInv, Tidy, GameInvitationNext
  PROVE  NothingAnswered(gameLobbies, gameLobbies') \/ \E c \in Conn : AcceptGame(c)
<1> USE DEF Tidy
<1> DEFINE Same == NothingAnswered(gameLobbies, gameLobbies')
           l(id) == gameLobbies.lobby[id]
           a(c) == accountName[c]
<1>0. gameLobbies.lobby \in [LobbyId -> AnyLobby] /\ gameLobbies \in SoundLists
  BY TidyAt DEF SoundLists, LobbyLists, AnyLobby
<1>1. UNCHANGED gameLobbies => Same
  BY SameLobbiesAnswers
<1>2. ASSUME NEW c \in Conn, CreateGame(c) PROVE Same
  <2>1. ASSUME NEW id \in FirstLobbyOf(gameLobbies, a(c)), IsGameLobbyAdmin(l(id), a(c)),
               NEW t, gameLobbies' = AskUsersToJoinGame(gameLobbies, id, t, c)
        PROVE  Same
    <3> DEFINE A == StartTimer(gameLobbies, id, t, c)
               w == A.lobby[id]
               m == [w EXCEPT !.readyUsers = Append(w.readyUsers, w.accountNames[1])]
    <3>1. id \in LobbyId /\ l(id) \in AnyLobby /\ l(id).lobbyAdminType = Custom
      BY <1>0, <2>1, FirstLobbies DEF IsGameLobbyAdmin
    <3>2. A.lobby = [gameLobbies.lobby EXCEPT ![id] = StartWaiting(l(id), t)]
      BY DEF StartTimer
    <3>3. w = StartWaiting(l(id), t)
      BY <1>0, <3>1, <3>2
    <3>4. w.lobbyAdminType = Custom /\ m.lobbyAdminType = Custom
      BY <3>1, <3>3 DEF StartWaiting, AnyLobby, Lobbies
    <3>5. gameLobbies' = SetLobby(A, id, m)
      BY <2>1, <3>4 DEF AskUsersToJoinGame
    <3>6. gameLobbies'.lobby = [A.lobby EXCEPT ![id] = m]
      BY <3>5 DEF SetLobby
    <3> HIDE DEF A, m
    <3>7. gameLobbies'.lobby = [gameLobbies.lobby EXCEPT ![id] = m]
      BY <1>0, <3>2, <3>6
    <3>8. SameAnswers(l(id), m) /\ QueueStep(l(id), m)
      BY <3>1, <3>4 DEF SameAnswers, QueueStep, Custom, QueueType, Ranked, Unranked
    <3>9. QED
      BY <1>0, <3>1, <3>7, <3>8, OneLobbyAnswers
  <2>2. QED
    BY <1>1, <1>2, <2>1 DEF CreateGame
<1>3. ASSUME NEW c \in Conn, DeclineGame(c) PROVE Same
  <2>1. PICK id \in FirstInvitationOf(gameLobbies, a(c)) :
          gameLobbies' = Erase(gameLobbies, id) \/ gameLobbies' = CancelTimer(gameLobbies, id)
    BY <1>3 DEF DeclineGame, DissolveQueueLobby
  <2>2. id \in LobbyId
    BY <1>0, FirstLobbies
  <2>3. QED
    BY <2>1, <2>2, LeaveAnswers, OnlyLeaveAnswers
<1>4. ASSUME NEW t \in TimerId, TimerExpires(t) PROVE Same
  BY <1>4, SameLobbiesAnswers DEF TimerExpires, SetTimer
<1>5. ASSUME NEW t \in TimerId, TimerFires(t) PROVE Same
  <2> DEFINE id == TimerLobby(t)
             m == InvitationExpired(l(id))
             R == FiredList(t)
  <2>1. CASE UsesDestroyedObject
    BY <2>1, StopAnswers DEF UsesDestroyedObject
  <2>2. CASE ~UsesDestroyedObject
    <3>1. id \in LobbyId
      BY <1>5, <2>2, TidyAt, TimerHasFired
    <3>2. R.lobby = [gameLobbies.lobby EXCEPT ![id] = m] /\ R \in TidyLists
      <4>1. R.lobby = [gameLobbies.lobby EXCEPT ![id] = m]
        BY DEF FiredList, SetLobby, SetTimer, Lobby
      <4>2. R \in TidyLists
        BY <1>0, <3>1, TimerEndsTidy DEF FiredList, TimerLobby, Lobby
      <4>3. QED
        BY <4>1, <4>2
    <3>3. UsersLeave(l(id), m)
      BY <1>0, <3>1, TidyAt, LeftLobbies
    <3>4. gameLobbies' = R \/ gameLobbies' = Erase(R, id)
      BY <1>5, <2>2, TimerHasFired DEF DissolveQueueLobby
    <3> HIDE DEF R, m
    <3>5. OnlyLeave(gameLobbies, R)
      BY <1>0, <3>1, <3>2, <3>3, OneLobbyAnswers
    <3>6. OnlyLeave(R, Erase(R, id)) /\ Erase(R, id) \in TidyLists
      BY <3>1, <3>2, LeaveAnswers, EraseTidy
    <3>7. QED
      BY <3>2, <3>4, <3>5, <3>6, OnlyLeaveTwice, OnlyLeaveAnswers
  <2>3. QED
    BY <2>1, <2>2
<1>6. QED
  BY <1>2, <1>3, <1>4, <1>5 DEF GameInvitationNext

\* Games: the lobby of a start is erased, or nothing is done about it.
LEMMA GameStepsAnswers ==
  ASSUME IInv, Tidy, GameStartNext \/ GameProxyNext
  PROVE  NothingAnswered(gameLobbies, gameLobbies')
<1> USE DEF Tidy
<1> DEFINE Same == NothingAnswered(gameLobbies, gameLobbies')
<1>0. UNCHANGED gameLobbies => Same
  BY SameLobbiesAnswers
<1>1. ASSUME NEW id \in LobbyId
      PROVE  /\ OnlyLeave(gameLobbies, Erase(gameLobbies, id))
             /\ OnlyLeave(gameLobbies, Erase(CancelTimer(gameLobbies, id), id))
  <2> DEFINE M == CancelTimer(gameLobbies, id)
  <2>1. M \in TidyLists /\ OnlyLeave(gameLobbies, M)
    BY CancelTimerTidy, LeaveAnswers
  <2> HIDE DEF M
  <2>2. OnlyLeave(M, Erase(M, id)) /\ Erase(M, id) \in TidyLists
    BY <2>1, LeaveAnswers, EraseTidy
  <2>3. OnlyLeave(gameLobbies, Erase(M, id))
    BY <2>1, <2>2, OnlyLeaveTwice
  <2>4. QED
    BY <2>3, LeaveAnswers DEF M
<1>2. ASSUME NEW s \in StartId, CapturesExist(s) PROVE starts[s].lobby \in LobbyId
  BY <1>2, TidyAt DEF CapturesExist
<1>3. ASSUME NEW s \in StartId,
             \/ StartGameSent(s) \/ StartGameFails(s) \/ StartGameUnanswered(s)
             \/ \E success \in GameAnswers : StartGameAnswered(s, success)
      PROVE  Same
  <2>1. \/ UNCHANGED gameLobbies
        \/ UsesDestroyedObject
        \/ /\ CapturesExist(s)
           /\ \/ gameLobbies' = Erase(gameLobbies, starts[s].lobby)
              \/ gameLobbies' = Erase(CancelTimer(gameLobbies, starts[s].lobby), starts[s].lobby)
    BY <1>3 DEF StartGameSent, StartGameFails, StartGameUnanswered, StartGameAnswered
  <2>2. QED
    BY <1>0, <1>1, <1>2, <2>1, OnlyLeaveAnswers, StopAnswers DEF UsesDestroyedObject
<1>4. ASSUME NEW c \in Conn, NEW next, LinkEnds(c, next) PROVE Same
  <2>1. ForgetOwner(gameLobbies, c).lobby = gameLobbies.lobby
    BY DEF ForgetOwner
  <2>2. QED
    BY <1>4, <2>1, SameLobbiesAnswers DEF LinkEnds
<1>5. CASE GameProxyNext
  BY <1>0, <1>4, <1>5 DEF GameProxyNext, ConnectGameError, GameConnected,
     FirstMessageFromGame, LeaveGameSuccess, ConnectionToGameLost
<1>6. QED
  BY <1>3, <1>5 DEF GameStartNext

\* Every step.
LEMMA StepAnswers ==
  ASSUME IInv, Tidy, Asking, [Next]_vars
  PROVE  NothingAnswered(gameLobbies, gameLobbies') \/ \E c \in Conn : AcceptGame(c)
<1>1. CASE UNCHANGED vars
  BY <1>1, SameLobbiesAnswers DEF vars
<1>2. QED
  BY <1>1, AccountLoginAnswers, CustomLobbyAnswers, QueueAnswers, GameInvitationAnswers,
     GameStepsAnswers DEF Next, Crashed

\* wantsToJoinGame, accepted: one user's answer, in one lobby.
LEMMA AcceptanceStep ==
  ASSUME IInv, Asking, NEW c \in Conn, AcceptGame(c)
  PROVE  \E id \in LobbyId :
           LET l == gameLobbies.lobby[id]
               m == AcceptedBy(l, accountName[c])
           IN  /\ l \in AnyLobby /\ TidyLobby(l) /\ AskFits(l) /\ l.waiting
               /\ accountName[c] \in Members(l) /\ ~HasAccepted(l, accountName[c])
               /\ \A o \in LobbyId :
                    gameLobbies'.lobby[o] = IF o = id THEN m ELSE gameLobbies.lobby[o]
               /\ AllAccepted(m) =>
                    \E s \in FreeStart : SpawnStartGame(s, id, c, TRUE)
<1> USE DEF Asking
<1> DEFINE a == accountName[c]
           l(id) == gameLobbies.lobby[id]
<1>1. PICK id \in FirstInvitationOf(gameLobbies, a) :
        /\ ~HasAccepted(l(id), a)
        /\ gameLobbies' = SetLobby(gameLobbies, id, AcceptedBy(l(id), a))
        /\ AllAccepted(AcceptedBy(l(id), a)) =>
             \E s \in FreeStart : SpawnStartGame(s, id, c, TRUE)
  BY DEF AcceptGame
<1>2. /\ id \in LobbyId /\ l(id) \in AnyLobby /\ TidyLobby(l(id)) /\ AskFits(l(id))
      /\ a \in Members(l(id)) /\ l(id).waiting
  BY AskAt, FirstLobbies, FoundLobbies
<1>3. gameLobbies'.lobby = [gameLobbies.lobby EXCEPT ![id] = AcceptedBy(l(id), a)]
  BY <1>1 DEF SetLobby
<1>4. gameLobbies.lobby \in [LobbyId -> AnyLobby]
  BY AskAt DEF SoundLists, LobbyLists, AnyLobby
<1>5. \A o \in LobbyId : gameLobbies'.lobby[o] =
        IF o = id THEN AcceptedBy(l(id), a) ELSE gameLobbies.lobby[o]
  BY <1>2, <1>3, <1>4
<1>6. QED
  BY <1>1, <1>2, <1>5

\* An answer adds nobody to the lobby and leaves its kind.
LEMMA AcceptedKeepsUsers ==
  ASSUME NEW l \in AnyLobby, NEW a
  PROVE  /\ Members(AcceptedBy(l, a)) = Members(l)
         /\ QueueStep(l, AcceptedBy(l, a))
BY DEF AcceptedBy, AnyLobby, Lobbies, Members, QueueStep, KeepsUsers

\* A sequence without repetition is as long as it has elements.
LEMMA ElementsCounted ==
  ASSUME NEW S, NEW q \in Seq(S), Distinct(q)
  PROVE  IsFiniteSet(Elements(q)) /\ Cardinality(Elements(q)) = Len(q)
<1> DEFINE n == Len(q)
           M == Elements(q)
<1>1. n \in Nat /\ DOMAIN q = 1 .. n
  OBVIOUS
<1>2. q \in [1 .. n -> M]
  <2>1. q = [i \in 1 .. n |-> q[i]]
    BY <1>1
  <2>2. \A i \in 1 .. n : q[i] \in M
    BY <1>1 DEF Elements
  <2> HIDE DEF M, n
  <2>3. QED
    BY <2>1, <2>2
<1>3. \A i, j \in 1 .. n : q[i] = q[j] => i = j
  BY <1>1 DEF Distinct
<1>4. \A e \in M : \E i \in 1 .. n : q[i] = e
  BY <1>1 DEF Elements
<1> HIDE DEF M, n
<1>5. q \in Surjection(1 .. n, M) /\ q \in Injection(1 .. n, M)
  BY <1>2, <1>3, <1>4 DEF Surjection, Injection, IsInjective
<1>6. IsFiniteSet(1 .. n) /\ Cardinality(1 .. n) = n
  BY <1>1, FS_Interval
<1>7. IsFiniteSet(M) /\ Cardinality(M) = Cardinality(1 .. n)
  BY <1>5, <1>6, FS_Surjection
<1>8. QED
  BY <1>6, <1>7 DEF M, n

\* Two sequences of the same elements, without repetition, are equally long.
LEMMA SameElementsSameLength ==
  ASSUME NEW S, NEW s \in Seq(S), NEW r \in Seq(S), Distinct(s), Distinct(r),
         Elements(s) = Elements(r)
  PROVE  Len(s) = Len(r)
<1>1. Cardinality(Elements(s)) = Len(s) /\ Cardinality(Elements(r)) = Len(r)
  BY ElementsCounted
<1>2. QED
  BY <1>1

\* When every user of a lobby of a queue is ready, each is ready once.
LEMMA EveryoneIsCounted ==
  ASSUME NEW l \in AnyLobby, TidyLobby(l), AskFits(l), l.lobbyAdminType \in QueueType,
         l.maxUserCount > 1, l.waiting, NEW a \in Members(l), ~HasAccepted(l, a),
         EveryoneReady(AcceptedBy(l, a))
  PROVE  AllAccepted(AcceptedBy(l, a))
<1> DEFINE m == AcceptedBy(l, a)
           s == m.accountNames
           r == m.readyUsers
<1>1. /\ m.lobbyAdminType = l.lobbyAdminType /\ m.maxUserCount = l.maxUserCount
      /\ m.accountNames = l.accountNames /\ m.readyUsers = Append(l.readyUsers, a)
  BY DEF AcceptedBy, AnyLobby, Lobbies
<1>2. AskFits(m)
  BY AcceptedAskFits
<1>3. l.readyUsers \in Seq(Account) /\ l.accountNames \in Seq(Account)
  BY DEF AnyLobby, Lobbies
<1>4. a \in Account
  BY <1>3 DEF Members
<1> HIDE DEF m
<1>5. r \in Seq(Account) /\ s \in Seq(Account)
  BY <1>1, <1>3, <1>4
<1>6. Distinct(r) /\ Ready(m) \subseteq Members(m) /\ Distinct(s)
  BY <1>1, <1>2 DEF AskFits, ReadyAreMembers, TidyLobby
<1>7. Elements(r) = Elements(s)
  BY <1>6 DEF EveryoneReady, Ready, Members, Elements, m
<1>8. Len(r) = Len(s)
  BY <1>5, <1>6, <1>7, SameElementsSameLength
<1>9. QED
  BY <1>8 DEF AllAccepted, m

\* What every step does to a lobby of a queue.
LEMMA QueueSteps ==
  ASSUME IInv, Tidy, Asking, [Next]_vars, NEW id \in LobbyId
  PROVE  QueueStep(gameLobbies.lobby[id], gameLobbies'.lobby[id])
<1>1. CASE NothingAnswered(gameLobbies, gameLobbies')
  BY <1>1 DEF NothingAnswered
<1>2. ASSUME NEW c \in Conn, AcceptGame(c)
      PROVE  QueueStep(gameLobbies.lobby[id], gameLobbies'.lobby[id])
  <2>1. \A l : QueueStep(l, l)
    BY DEF QueueStep, KeepsUsers
  <2>2. QED
    BY <1>2, <2>1, AcceptanceStep, AcceptedKeepsUsers
<1>3. QED
  BY <1>1, <1>2, StepAnswers
----------------------------------------------------------------------------
(* Sizes and ratings *)

\* A lobby of a queue has the size of the queue's games: only lobbies that users
\* run are resized.
QueuesSized ==
  \A id \in LobbyId : Lobby(id).lobbyAdminType \in QueueType =>
    Lobby(id).maxUserCount = UsersNeeded[Lobby(id).lobbyAdminType]

LEMMA NextKeepsQueuesSized ==
  IInv /\ Tidy /\ Asking /\ QueuesSized /\ [Next]_vars => QueuesSized'
BY QueueSteps DEF QueuesSized, Lobby, QueueStep, KeepsUsers, IsJoined, IsOpened

LEMMA QueuesSizedAlways == Spec => []QueuesSized
<1>1. Init => QueuesSized
  BY EmptyLobbyTidy DEF Init, QueuesSized, Lobby, NoLobbies
<1>2. QED
  BY <1>1, NextKeepsQueuesSized, Invariant, TidyAlways, AskingAlways, PTL DEF Spec

\* Two users of a ranked lobby are in range.
PairInRange(l) ==
  l.lobbyAdminType = Ranked /\ Len(l.accountNames) = 2
    => IsInRatingRange(Rating[l.accountNames[1]], Rating[l.accountNames[2]])
PairsInRange == \A id \in LobbyId : PairInRange(Lobby(id))

LEMMA OneBeforeTwo ==
  ASSUME NEW S, NEW s \in Seq(S), NEW a \in S, Len(Append(s, a)) = 2
  PROVE  Len(s) = 1 /\ s # <<>>
<1>1. Len(s) \in Nat /\ Len(Append(s, a)) = Len(s) + 1
  OBVIOUS
<1> DEFINE n == Len(s)
           k == Len(Append(s, a))
<1>2. n \in Nat /\ k = n + 1 /\ k = 2
  BY <1>1
<1>3. n = 1
  <2> HIDE DEF n, k
  <2>1. QED
    BY <1>2
<1>4. QED
  BY <1>3

\* In a queue for games of two, the only way to become two is that one joins.
LEMMA QueueStepPair ==
  ASSUME UsersNeeded[Ranked] <= 2, NEW l \in AnyLobby, NEW m \in AnyLobby,
         Len(l.accountNames) <= l.maxUserCount,
         l.lobbyAdminType = Ranked => l.maxUserCount = UsersNeeded[Ranked],
         PairInRange(l), QueueStep(l, m)
  PROVE  PairInRange(m)
<1> DEFINE s == l.accountNames
<1> SUFFICES ASSUME m.lobbyAdminType = Ranked, Len(m.accountNames) = 2
             PROVE  IsInRatingRange(Rating[m.accountNames[1]], Rating[m.accountNames[2]])
  BY DEF PairInRange
<1>0. s \in Seq(Account) /\ Len(s) \in Nat /\ l.maxUserCount \in Nat
      /\ Len(m.accountNames) \in Nat
  BY DEF AnyLobby, Lobbies
<1>1. KeepsUsers(l, m) \/ IsJoined(l, m)
  BY DEF QueueStep, QueueType, IsOpened
<1>2. l.lobbyAdminType = Ranked /\ Len(s) <= 2
  <2>1. l.lobbyAdminType = Ranked /\ l.maxUserCount = UsersNeeded[Ranked]
    BY <1>1 DEF KeepsUsers, IsJoined
  <2>2. UsersNeeded[Ranked] \in Nat
    BY <1>0, <2>1
  <2>3. QED
    BY <1>0, <2>1, <2>2
<1>3. CASE KeepsUsers(l, m)
  <2>1. m.accountNames = l.accountNames
    BY <1>0, <1>2, <1>3 DEF KeepsUsers
  <2>2. QED
    BY <1>2, <2>1 DEF PairInRange
<1>4. CASE IsJoined(l, m)
  <2>1. PICK a \in Account : /\ m.accountNames = Append(s, a)
                             /\ s # <<>> => InRange(a, l)
    BY <1>2, <1>4 DEF IsJoined
  <2>2. Len(s) = 1 /\ s # <<>>
    BY <1>0, <2>1, OneBeforeTwo
  <2>3. s[1] \in Account /\ s = <<s[1]>>
    BY <1>0, <2>2
  <2>4. InRange(a, l) /\ m.accountNames[1] = s[1] /\ m.accountNames[2] = a
    BY <1>0, <2>1, <2>2
  <2>5. IsInRatingRange(Rating[a], Rating[s[1]])
    BY <2>3, <2>4, AverageOfOne DEF InRange
  <2>6. QED
    BY <2>4, <2>5 DEF IsInRatingRange
<1>5. QED
  BY <1>1, <1>3, <1>4

LEMMA NextKeepsPairs ==
  ASSUME UsersNeeded[Ranked] <= 2, IInv, Tidy, Tidy', Asking, QueuesSized, PairsInRange,
         [Next]_vars
  PROVE  PairsInRange'
<1> SUFFICES ASSUME NEW id \in LobbyId PROVE PairInRange(gameLobbies'.lobby[id])
  BY DEF PairsInRange, Lobby
<1> DEFINE l == gameLobbies.lobby[id]
           m == gameLobbies'.lobby[id]
<1>1. l \in AnyLobby /\ TidyLobby(l) /\ m \in AnyLobby
  BY TidyAt DEF Tidy
<1>2. /\ Len(l.accountNames) <= l.maxUserCount
      /\ l.lobbyAdminType = Ranked => l.maxUserCount = UsersNeeded[Ranked]
      /\ PairInRange(l)
  BY <1>1 DEF TidyLobby, QueuesSized, PairsInRange, Lobby, QueueType
<1>3. QueueStep(l, m)
  BY QueueSteps
<1> HIDE DEF l, m
<1>4. PairInRange(m)
  BY <1>1, <1>2, <1>3, QueueStepPair
<1>5. QED
  BY <1>4 DEF m
----------------------------------------------------------------------------
(* The theorems *)

\* Nobody joins a lobby of a queue that asks: the search passes by a full lobby,
\* and a lobby of a queue has no name to join it by.
THEOREM AskedUsersStay == Spec => AskedUsersAreFixed
<1>1. ASSUME IInv, Tidy, Asking, [Next]_vars, NEW id \in LiveQueues,
             Lobby(id).waiting, Lobby(id)'.waiting, Lobby(id).maxUserCount > 1
      PROVE  Members(Lobby(id)') \subseteq Members(Lobby(id))
  <2>1. id \in LobbyId /\ Lobby(id).lobbyAdminType \in QueueType
    BY DEF LiveQueues, Queues, Lobby
  <2>2. CASE NothingAnswered(gameLobbies, gameLobbies')
    BY <1>1, <2>1, <2>2 DEF NothingAnswered, SameAnswers, Lobby
  <2>3. ASSUME NEW c \in Conn, AcceptGame(c)
        PROVE  Members(Lobby(id)') \subseteq Members(Lobby(id))
    <3>1. PICK o \in LobbyId :
            LET l == gameLobbies.lobby[o]
                m == AcceptedBy(l, accountName[c])
            IN  /\ l \in AnyLobby
                /\ \A p \in LobbyId :
                     gameLobbies'.lobby[p] = IF p = o THEN m ELSE gameLobbies.lobby[p]
      BY <1>1, <2>3, AcceptanceStep
    <3> DEFINE l == gameLobbies.lobby[id]
               m == gameLobbies'.lobby[id]
    <3>2. m = l \/ (l \in AnyLobby /\ m = AcceptedBy(l, accountName[c]))
      BY <2>1, <3>1
    <3>3. Members(m) = Members(l)
      BY <3>2, AcceptedKeepsUsers
    <3>4. QED
      BY <3>3 DEF Lobby, Members
  <2>4. QED
    BY <1>1, <2>2, <2>3, StepAnswers
<1>2. IInv /\ Tidy /\ Asking /\ [Next]_vars
        => [\A id \in LiveQueues :
              Lobby(id).waiting /\ Lobby(id)'.waiting /\ Lobby(id).maxUserCount > 1
                => Members(Lobby(id)') \subseteq Members(Lobby(id))]_vars
  BY <1>1
<1>3. QED
  BY <1>2, Invariant, TidyAlways, AskingAlways, PTL DEF Spec, AskedUsersAreFixed

\* When the last user of a lobby of a queue accepts, the game starts: wantsToJoinGame
\* counts answers, and the count is never short of the users, whoever left in between.
\* Games of a queue have more than one user.
THEOREM LastAcceptanceStarts ==
  ASSUME \A q \in QueueType : UsersNeeded[q] > 1
  PROVE  Spec => QueueAcceptanceStarts
<1>1. ASSUME IInv, Tidy, Asking, QueuesSized, [Next]_vars, NEW id \in LiveQueues,
             Lobby(id)'.readyUsers # Lobby(id).readyUsers,
             Lobby(id).waiting, Lobby(id)'.waiting, EveryoneReady(Lobby(id)')
      PROVE  \E s \in NewStarts : starts'[s].lobby = id
  <2>1. /\ id \in LobbyId /\ Lobby(id).lobbyAdminType \in QueueType
        /\ Lobby(id).maxUserCount > 1
    BY <1>1 DEF LiveQueues, Queues, Lobby, QueuesSized
  <2>2. ~NothingAnswered(gameLobbies, gameLobbies')
    BY <1>1, <2>1 DEF NothingAnswered, SameAnswers, Lobby
  <2>3. PICK c \in Conn : AcceptGame(c)
    BY <1>1, <2>2, StepAnswers
  <2> DEFINE a == accountName[c]
             l == gameLobbies.lobby[id]
             m == AcceptedBy(l, a)
  <2>4. /\ l \in AnyLobby /\ TidyLobby(l) /\ AskFits(l) /\ l.waiting
        /\ a \in Members(l) /\ ~HasAccepted(l, a)
        /\ gameLobbies'.lobby[id] = m
        /\ AllAccepted(m) => \E s \in FreeStart : SpawnStartGame(s, id, c, TRUE)
    BY <1>1, <2>1, <2>3, AcceptanceStep DEF Lobby
  <2>5. AllAccepted(m)
    BY <1>1, <2>1, <2>4, EveryoneIsCounted DEF Lobby
  <2>6. PICK s \in FreeStart : SpawnStartGame(s, id, c, TRUE)
    BY <2>4, <2>5
  <2>7. starts \in [StartId -> Starts] /\ s \in StartId /\ starts[s].phase = "idle"
    BY <1>1, <2>6, IInvParts DEF StartsTyped, FreeStart, Least
  <2>8. starts'[s] = [phase |-> "connecting", lobby |-> id, owner |-> c, handler |-> TRUE]
    BY <2>6, <2>7 DEF SpawnStartGame
  <2>9. s \in NewStarts
    BY <2>7, <2>8 DEF NewStarts
  <2>10. QED
    BY <2>8, <2>9
<1>2. IInv /\ Tidy /\ Asking /\ QueuesSized /\ [Next]_vars
        => [\A id \in LiveQueues :
              /\ Lobby(id)'.readyUsers # Lobby(id).readyUsers
              /\ Lobby(id).waiting /\ Lobby(id)'.waiting
              /\ EveryoneReady(Lobby(id)')
              => \E s \in NewStarts : starts'[s].lobby = id]_vars
  BY <1>1
<1>3. QED
  BY <1>2, Invariant, TidyAlways, AskingAlways, QueuesSizedAlways, PTL
     DEF Spec, QueueAcceptanceStarts

\* Two users who are alone in a ranked lobby are in range of each other, however they
\* came to be in it, where ranked games have two users at most.  With three it does
\* not hold: the second of three in range may leave two who are not.
THEOREM RankedPairs ==
  ASSUME UsersNeeded[Ranked] <= 2
  PROVE  Spec => []RankedPairsInRange
<1>1. Init => PairsInRange
  BY EmptyLobbyTidy DEF Init, PairsInRange, PairInRange, Lobby, NoLobbies, EmptyLobby,
     Custom, Ranked
<1>2. IInv /\ Tidy /\ Tidy' /\ Asking /\ QueuesSized /\ PairsInRange /\ [Next]_vars
        => PairsInRange'
  BY NextKeepsPairs
<1>3. IInv /\ PairsInRange => RankedPairsInRange
  BY IInvParts, LiveLobbies DEF PairsInRange, PairInRange, RankedPairsInRange
<1>4. QED
  BY <1>1, <1>2, <1>3, Invariant, TidyAlways, AskingAlways, QueuesSizedAlways, PTL DEF Spec
=============================================================================
