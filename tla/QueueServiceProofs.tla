------------------------- MODULE QueueServiceProofs -------------------------
(***************************************************************************)
(* The lobbies of the unranked queue, with their list, timers, answers and *)
(* coroutines, implement QueueService: every step of the server is a step  *)
(* of the service or none that it sees, for every number of clients,       *)
(* accounts and lobbies and every size of a game above one.                *)
(***************************************************************************)
EXTENDS InvitationProofs, QueueRefinement
----------------------------------------------------------------------------
(* The unranked queue as a service *)

\* Only the unranked queue is in use, and its games need more than one user.
OnlyUnrankedQueue ==
  /\ LobbyName = {}
  /\ Offered \subseteq {Unranked}
  /\ UsersNeeded[Unranked] > 1

\* Then every lobby in the list is one of the unranked queue.
ListOfQueue(L) ==
  \A id \in LobbyId : IF id \in Live(L) THEN L.lobby[id].lobbyAdminType = Unranked
                      ELSE L.lobby[id] = EmptyLobby

\* A timer that runs is that of a lobby that asks, unless its lobby is gone: an
\* older timer that fires late erases a lobby whose timer it does not cancel.
ClocksFit(L) ==
  \A t \in TimerId : L.timer[t].phase = "armed" =>
    /\ L.timer[t].lobby \in LobbyId
    /\ L.timer[t].lobby \in Live(L) =>
         L.lobby[L.timer[t].lobby].waiting /\ L.lobby[L.timer[t].lobby].timer = t

QueueLists ==
  {L \in AskLists : /\ ListOfQueue(L) /\ ClocksFit(L)
                    /\ \A id \in Live(L) : L.lobby[id].maxUserCount > 1}

\* The users who are put back are different.
RequeueFits == Distinct(requeue.users) /\ requeue.type = Unranked

\* The invariant.
QueueAlone == ListOfQueue(gameLobbies) /\ ClocksFit(gameLobbies) /\ RequeueFits

\* The lobbies of a list as groups of the service.
UsersIn(L) == [id \in LobbyId |-> Members(L.lobby[id])]
AskingIn(L) == {id \in LobbyId : L.lobby[id].waiting}
AcceptedIn(L) == [id \in LobbyId |-> Ready(L.lobby[id])]
TimeoutsIn(L) ==
  {<<t, L.timer[t].lobby>> : t \in {u \in TimerId : L.timer[u].phase = "expired"}}

SameGroups(L, M) ==
  /\ UsersIn(M) = UsersIn(L) /\ AskingIn(M) = AskingIn(L)
  /\ AcceptedIn(M) = AcceptedIn(L) /\ TimeoutsIn(M) = TimeoutsIn(L)
GroupEnds(L, M, g, rest) ==
  /\ UsersIn(M) = [UsersIn(L) EXCEPT ![g] = rest]
  /\ AskingIn(M) = AskingIn(L) \ {g}
  /\ AcceptedIn(M) = [AcceptedIn(L) EXCEPT ![g] = {}]

\* What a list of the queue is at one lobby.
LEMMA QueueAt ==
  ASSUME NEW L \in QueueLists, NEW id \in LobbyId
  PROVE  /\ L \in AskLists /\ L \in SoundLists /\ L.lobby[id] \in AnyLobby
         /\ TidyLobby(L.lobby[id]) /\ AskFits(L.lobby[id])
         /\ id \notin Live(L) => /\ L.lobby[id] = EmptyLobby
                                 /\ Members(L.lobby[id]) = {} /\ Ready(L.lobby[id]) = {}
                                 /\ ~L.lobby[id].waiting
         /\ id \in Live(L) => /\ L.lobby[id].lobbyAdminType = Unranked
                              /\ L.lobby[id].maxUserCount > 1
                              /\ AsksWhileFull(L.lobby[id]) /\ ReadyAreMembers(L.lobby[id])
<1>1. L \in AskLists /\ ListOfQueue(L)
  BY DEF QueueLists
<1>2. EmptyLobby.readyUsers = <<>> /\ ~EmptyLobby.waiting
  BY DEF EmptyLobby
<1>3. Ready(EmptyLobby) = {}
  BY <1>2 DEF Ready
<1>4. QED
  BY <1>1, <1>2, <1>3, AskAt, EmptyLobbyTidy
     DEF QueueLists, ListOfQueue, AskFits, QueueType

\* The groups of a list are its lobbies: those that are no groups have nobody.
LEMMA GroupsAreLobbies ==
  ASSUME ListOfQueue(gameLobbies)
  PROVE  /\ GroupUsers = UsersIn(gameLobbies)
         /\ GroupsAsking = AskingIn(gameLobbies)
         /\ GroupAccepted = AcceptedIn(gameLobbies)
         /\ GroupTimeouts = TimeoutsIn(gameLobbies)
<1>1. \A id \in LobbyId : ~IsGroup(id) =>
        /\ Members(Lobby(id)) = {} /\ Ready(Lobby(id)) = {} /\ ~Lobby(id).waiting
  BY DEF ListOfQueue, IsGroup, Lobby, EmptyLobby, Members, Ready
<1>2. QED
  BY <1>1 DEF GroupUsers, GroupsAsking, GroupAccepted, GroupTimeouts, UsersIn, AskingIn,
              AcceptedIn, TimeoutsIn, Lobby

LEMMA GroupsAreLobbiesNext ==
  ASSUME ListOfQueue(gameLobbies')
  PROVE  /\ GroupUsers' = UsersIn(gameLobbies')
         /\ GroupsAsking' = AskingIn(gameLobbies')
         /\ GroupAccepted' = AcceptedIn(gameLobbies')
         /\ GroupTimeouts' = TimeoutsIn(gameLobbies')
<1>1. \A id \in LobbyId : ~IsGroup(id)' =>
        /\ Members(Lobby(id)') = {} /\ Ready(Lobby(id)') = {} /\ ~Lobby(id)'.waiting
  BY DEF ListOfQueue, IsGroup, Lobby, EmptyLobby, Members, Ready
<1>2. QED
  BY <1>1 DEF GroupUsers, GroupsAsking, GroupAccepted, GroupTimeouts, UsersIn, AskingIn,
              AcceptedIn, TimeoutsIn, Lobby

\* One lobby changes.
LEMMA OneGroupChanges ==
  ASSUME NEW L \in SoundLists, NEW M, NEW id \in LobbyId, NEW m,
         M.lobby = [L.lobby EXCEPT ![id] = m]
  PROVE  /\ UsersIn(M) = [UsersIn(L) EXCEPT ![id] = Members(m)]
         /\ AcceptedIn(M) = [AcceptedIn(L) EXCEPT ![id] = Ready(m)]
         /\ m.waiting => AskingIn(M) = AskingIn(L) \cup {id}
         /\ ~m.waiting => AskingIn(M) = AskingIn(L) \ {id}
         /\ M.lobby[id] = m /\ \A o \in LobbyId \ {id} : M.lobby[o] = L.lobby[o]
<1>1. M.lobby[id] = m /\ \A o \in LobbyId \ {id} : M.lobby[o] = L.lobby[o]
  BY DEF SoundLists, LobbyLists
<1>2. QED
  BY <1>1 DEF UsersIn, AcceptedIn, AskingIn

\* Timers that run are not looked at.
LEMMA SameTimeouts ==
  ASSUME NEW L, NEW M,
         \A t \in TimerId : \/ M.timer[t] = L.timer[t]
                            \/ M.timer[t].phase # "expired" /\ L.timer[t].phase # "expired"
  PROVE  TimeoutsIn(M) = TimeoutsIn(L)
BY DEF TimeoutsIn

\* removeUser takes one user away and leaves the rest of the lobby.
LEMMA RemovedUser ==
  ASSUME NEW l \in AnyLobby, TidyLobby(l), NEW a \in Members(l)
  PROVE  LET m == RemoveUser(l, a)
         IN  /\ Members(m) = Members(l) \ {a}
             /\ m \in AnyLobby
             /\ m.lobbyAdminType = l.lobbyAdminType /\ m.maxUserCount = l.maxUserCount
             /\ m.waiting = l.waiting /\ m.readyUsers = l.readyUsers /\ m.timer = l.timer
             /\ Distinct(m.accountNames)
<1> DEFINE s == l.accountNames
           m == RemoveUser(l, a)
<1>1. PositionOf(l, a) # {}
  BY DEF Members, PositionOf
<1>2. PICK i \in PositionOf(l, a) : i = CHOOSE k \in PositionOf(l, a) : TRUE
  BY <1>1
<1>3. s \in Seq(Account) /\ i \in 1 .. Len(s) /\ s[i] = a
  BY DEF PositionOf, AnyLobby, Lobbies
<1>4. m = [l EXCEPT !.accountNames = Without(s, i)]
  BY <1>1, <1>2 DEF RemoveUser
<1>5. /\ m.accountNames = Without(s, i) /\ m.lobbyAdminType = l.lobbyAdminType
      /\ m.maxUserCount = l.maxUserCount /\ m.waiting = l.waiting
      /\ m.readyUsers = l.readyUsers /\ m \in AnyLobby /\ m.timer = l.timer
  BY <1>4, RemoveUserKeepsInvitation DEF AnyLobby, Lobbies, SameInvitation
<1>6. /\ \A j \in DOMAIN Without(s, i) :
           \E k \in DOMAIN s \ {i} : Without(s, i)[j] = s[k]
      /\ \A k \in DOMAIN s \ {i} :
           \E j \in DOMAIN Without(s, i) : Without(s, i)[j] = s[k]
      /\ Distinct(Without(s, i))
  BY <1>3, WithoutElements DEF TidyLobby
<1>7. \A k \in DOMAIN s \ {i} : s[k] # a
  BY <1>3 DEF TidyLobby, Distinct
<1> HIDE DEF m
<1>8. Members(m) = Members(l) \ {a}
  <2> HIDE DEF s
  <2>1. Members(l) = {s[k] : k \in DOMAIN s}
    BY DEF Members, s
  <2>2. Members(m) = {Without(s, i)[j] : j \in DOMAIN Without(s, i)}
    BY <1>5 DEF Members
  <2>3. i \in DOMAIN s
    BY <1>3
  <2>4. QED
    BY <1>3, <1>6, <1>7, <2>1, <2>2, <2>3
<1>9. QED
  BY <1>5, <1>6, <1>8 DEF m
----------------------------------------------------------------------------
(* What a list operator does to the groups *)

\* erase takes a node out of the list.
LEMMA EraseLive ==
  ASSUME NEW L \in TidyLists, NEW id \in LobbyId
  PROVE  Live(Erase(L, id)) = Live(L) \ {id}
<1> DEFINE R == Erase(L, id)
<1>0. L.order \in Seq(LobbyId) /\ Distinct(L.order)
  BY TidyAt DEF TidyList, NodesOnce
<1>1. CASE \E k \in DOMAIN L.order : L.order[k] = id
  <2>1. PICK i \in DOMAIN L.order :
          i = (CHOOSE k \in DOMAIN L.order : L.order[k] = id) /\ L.order[i] = id
    BY <1>1
  <2>2. R.order = Without(L.order, i) /\ i \in 1 .. Len(L.order)
    BY <1>0, <1>1, <2>1 DEF Erase
  <2>3. /\ \A j \in DOMAIN R.order :
             \E k \in DOMAIN L.order \ {i} : R.order[j] = L.order[k]
        /\ \A k \in DOMAIN L.order \ {i} :
             \E j \in DOMAIN R.order : R.order[j] = L.order[k]
    BY <1>0, <2>2, WithoutElements
  <2>4. \A k \in DOMAIN L.order \ {i} : L.order[k] # id
    BY <1>0, <2>1 DEF Distinct
  <2>5. Live(R) \subseteq Live(L) \ {id}
    BY <2>3, <2>4 DEF Live
  <2>6. Live(L) \ {id} \subseteq Live(R)
    <3>1. ASSUME NEW k \in DOMAIN L.order, L.order[k] # id
          PROVE  L.order[k] \in Live(R)
      BY <2>1, <2>3, <3>1 DEF Live
    <3>2. QED
      BY <3>1 DEF Live
  <2>7. QED
    BY <2>5, <2>6
<1>2. CASE ~ \E k \in DOMAIN L.order : L.order[k] = id
  BY <1>2 DEF Erase, Live
<1>3. QED
  BY <1>1, <1>2

\* erase
LEMMA EraseEnds ==
  ASSUME NEW L \in QueueLists, NEW id \in LobbyId
  PROVE  LET M == Erase(L, id)
         IN  /\ ListOfQueue(M) /\ ClocksFit(M)
             /\ GroupEnds(L, M, id, {}) /\ TimeoutsIn(M) = TimeoutsIn(L)
<1> DEFINE M == Erase(L, id)
<1>1. L \in SoundLists /\ L \in TidyLists
  BY QueueAt, AskAt
<1>2. M.lobby = [L.lobby EXCEPT ![id] = EmptyLobby] /\ M.timer = CancelledTimers(L, id)
  BY DEF Erase
<1>3. Live(M) = Live(L) \ {id}
  BY <1>1, EraseLive
<1>4. \A t \in TimerId : \/ M.timer[t] = L.timer[t]
                         \/ /\ M.timer[t].phase = "idle" /\ L.timer[t].phase = "armed"
                            /\ L.lobby[id].waiting /\ L.lobby[id].timer = t
  BY <1>2 DEF CancelledTimers, IdleTimer
<1> HIDE DEF M
<1>5. GroupEnds(L, M, id, {})
  <2>1. ~EmptyLobby.waiting /\ EmptyLobby.readyUsers = <<>>
    BY DEF EmptyLobby
  <2>2. Ready(EmptyLobby) = {} /\ Members(EmptyLobby) = {}
    BY <2>1, EmptyLobbyTidy DEF Ready
  <2>3. QED
    BY <1>1, <1>2, <2>1, <2>2, OneGroupChanges DEF GroupEnds
<1>6. TimeoutsIn(M) = TimeoutsIn(L)
  BY <1>4, SameTimeouts
<1>7. M.lobby[id] = EmptyLobby /\ \A o \in LobbyId \ {id} : M.lobby[o] = L.lobby[o]
  BY <1>1, <1>2, OneGroupChanges
<1>8. ListOfQueue(M)
  BY <1>3, <1>7 DEF ListOfQueue, QueueLists
<1>9. ClocksFit(M)
  BY <1>3, <1>4, <1>7 DEF ClocksFit, QueueLists
<1>10. QED
  BY <1>5, <1>6, <1>8, <1>9 DEF M

\* erase finds a lobby whose users have changed, or whose timer was cancelled, as
\* it would have found it before.
LEMMA EraseAfterLeaving ==
  ASSUME NEW L \in QueueLists, NEW id \in LobbyId, NEW a \in Members(L.lobby[id])
  PROVE  Erase(RemoveFrom(L, id, a), id) = Erase(L, id)
<1> DEFINE R == RemoveFrom(L, id, a)
           m == RemoveUser(L.lobby[id], a)
<1>1. L.lobby \in [LobbyId -> AnyLobby] /\ L \in SoundLists
  BY QueueAt DEF SoundLists, LobbyLists, AnyLobby
<1>2. R.lobby = [L.lobby EXCEPT ![id] = m] /\ R.order = L.order /\ R.timer = L.timer
  BY DEF RemoveFrom, SetLobby
<1>3. m.waiting = L.lobby[id].waiting /\ m.timer = L.lobby[id].timer
  BY QueueAt, RemovedUser
<1> HIDE DEF R, m
<1>4. R.lobby[id] = m
  BY <1>1, <1>2
<1>5. CancelledTimers(R, id) = CancelledTimers(L, id)
  BY <1>2, <1>3, <1>4 DEF CancelledTimers
<1>6. [R.lobby EXCEPT ![id] = EmptyLobby] = [L.lobby EXCEPT ![id] = EmptyLobby]
  BY <1>1, <1>2
<1>7. Erase(R, id) = Erase(L, id)
  BY <1>2, <1>5, <1>6 DEF Erase
<1>8. QED
  BY <1>7 DEF R

LEMMA EraseAfterCancelling ==
  ASSUME NEW L \in QueueLists, NEW id \in LobbyId
  PROVE  Erase(CancelTimer(L, id), id) = Erase(L, id)
<1> DEFINE R == CancelTimer(L, id)
           m == StopWaiting(L.lobby[id])
<1>1. L.lobby \in [LobbyId -> AnyLobby] /\ L.lobby[id] \in AnyLobby
  BY QueueAt DEF SoundLists, LobbyLists, AnyLobby
<1>2. R.lobby = [L.lobby EXCEPT ![id] = m] /\ R.order = L.order
      /\ R.timer = CancelledTimers(L, id)
  BY DEF CancelTimer
<1>3. ~m.waiting
  BY <1>1, StopWaitingType
<1> HIDE DEF R, m
<1>4. R.lobby[id] = m
  BY <1>1, <1>2
<1>5. CancelledTimers(R, id) = CancelledTimers(L, id)
  BY <1>2, <1>3, <1>4 DEF CancelledTimers
<1>6. [R.lobby EXCEPT ![id] = EmptyLobby] = [L.lobby EXCEPT ![id] = EmptyLobby]
  BY <1>1, <1>2
<1>7. Erase(R, id) = Erase(L, id)
  BY <1>2, <1>5, <1>6 DEF Erase
<1>8. QED
  BY <1>7 DEF R

\* A lobby that waits no longer has no answers.
LEMMA StoppedLobby ==
  ASSUME NEW l \in AnyLobby, TidyLobby(l), AskFits(l), l.lobbyAdminType = Unranked,
         l.maxUserCount > 1, NEW a \in Members(l)
  PROVE  LET m == StopWaiting(RemoveUser(l, a))
         IN  /\ Members(m) = Members(l) \ {a} /\ Ready(m) = {} /\ ~m.waiting
             /\ m.lobbyAdminType = Unranked
<1> DEFINE r == RemoveUser(l, a)
           m == StopWaiting(r)
<1>1. /\ Members(r) = Members(l) \ {a} /\ r \in AnyLobby
      /\ r.lobbyAdminType = Unranked /\ r.waiting = l.waiting
      /\ r.readyUsers = l.readyUsers
  BY RemovedUser
<1>2. ~l.waiting => Ready(l) = {}
  BY DEF AskFits, ReadyAreMembers, QueueType
<1> HIDE DEF r
<1>3. /\ m.accountNames = r.accountNames /\ m.lobbyAdminType = r.lobbyAdminType
      /\ ~m.waiting
      /\ m.readyUsers = IF r.waiting THEN <<>> ELSE r.readyUsers
  BY <1>1 DEF StopWaiting, AnyLobby, Lobbies
<1>4. Ready(m) = {}
  <2>1. CASE l.waiting
    BY <1>1, <1>3, <2>1 DEF Ready
  <2>2. CASE ~l.waiting
    <3>1. m.readyUsers = l.readyUsers
      BY <1>1, <1>3, <2>2
    <3>2. QED
      BY <1>2, <2>2, <3>1 DEF Ready
  <2>3. QED
    BY <2>1, <2>2
<1>5. Members(m) = Members(r)
  BY <1>3 DEF Members
<1>6. QED
  BY <1>1, <1>3, <1>4, <1>5 DEF r

\* The users of a lobby that loses its last one were not asked.
LEMMA LeftLobby ==
  ASSUME NEW l \in AnyLobby, TidyLobby(l), AskFits(l), l.lobbyAdminType = Unranked,
         l.maxUserCount > 1, NEW a \in Members(l), Members(RemoveUser(l, a)) = {}
  PROVE  /\ Ready(RemoveUser(l, a)) = {} /\ ~RemoveUser(l, a).waiting
         /\ RemoveUser(l, a).lobbyAdminType = Unranked
<1> DEFINE r == RemoveUser(l, a)
<1>1. /\ r \in AnyLobby /\ r.lobbyAdminType = Unranked /\ r.waiting = l.waiting
      /\ r.maxUserCount = l.maxUserCount
  BY RemovedUser
<1>2. AskFits(r)
  BY LeftAskFits
<1> HIDE DEF r
<1>3. AsksWhileFull(r) /\ ReadyAreMembers(r)
  BY <1>1, <1>2 DEF AskFits, QueueType
<1>4. r.accountNames \in Seq(Account) /\ Members(r) = {}
  BY <1>1 DEF AnyLobby, Lobbies, r
<1>5. Len(r.accountNames) = 0
  BY <1>4, NoElements DEF Members
<1>6. ~IsFull(r)
  BY <1>1, <1>5 DEF IsFull, AnyLobby, Lobbies
<1>7. ~r.waiting /\ Ready(r) = {}
  BY <1>3, <1>6 DEF AsksWhileFull, ReadyAreMembers
<1>8. QED
  BY <1>1, <1>7 DEF r

\* A group that is in the list changes, timers are only cancelled.
LEMMA FitsStays ==
  ASSUME NEW L \in QueueLists, NEW M, NEW id \in Live(L), NEW m,
         M.order = L.order, M.lobby = [L.lobby EXCEPT ![id] = m],
         m.lobbyAdminType = Unranked,
         \A t \in TimerId : M.timer[t] = L.timer[t] \/ M.timer[t].phase # "armed",
         \A t \in TimerId : M.timer[t].phase = "armed" /\ M.timer[t].lobby = id =>
           m.waiting /\ m.timer = t
  PROVE  ListOfQueue(M) /\ ClocksFit(M)
<1>1. id \in LobbyId /\ L \in SoundLists
  BY QueueAt, AskAt, TidyAt DEF QueueLists
<1>2. M.lobby[id] = m /\ \A o \in LobbyId \ {id} : M.lobby[o] = L.lobby[o]
  BY <1>1, OneGroupChanges
<1>3. Live(M) = Live(L)
  BY DEF Live
<1>4. ListOfQueue(L) /\ ClocksFit(L)
  BY DEF QueueLists
<1>5. ListOfQueue(M)
  BY <1>2, <1>3, <1>4 DEF ListOfQueue
<1>6. ClocksFit(M)
  <2>1. ASSUME NEW t \in TimerId, M.timer[t].phase = "armed"
        PROVE  /\ M.timer[t].lobby \in LobbyId
               /\ M.timer[t].lobby \in Live(M) =>
                    M.lobby[M.timer[t].lobby].waiting /\ M.lobby[M.timer[t].lobby].timer = t
    <3>1. M.timer[t] = L.timer[t]
      BY <2>1
    <3>2. QED
      BY <1>2, <1>3, <1>4, <2>1, <3>1 DEF ClocksFit
  <2>2. QED
    BY <2>1 DEF ClocksFit
<1>7. QED
  BY <1>5, <1>6

\* A user leaves a lobby that is told to stop asking.
LEMMA LeaveAndCancelEnds ==
  ASSUME NEW L \in QueueLists, NEW id \in Live(L), NEW a \in Members(L.lobby[id])
  PROVE  LET M == CancelTimer(RemoveFrom(L, id, a), id)
         IN  /\ ListOfQueue(M) /\ ClocksFit(M)
             /\ GroupEnds(L, M, id, Members(L.lobby[id]) \ {a})
             /\ TimeoutsIn(M) = TimeoutsIn(L)
<1> DEFINE R == RemoveFrom(L, id, a)
           M == CancelTimer(R, id)
           r == RemoveUser(L.lobby[id], a)
           m == StopWaiting(r)
<1>1. id \in LobbyId /\ L \in SoundLists
  BY AskAt, TidyAt DEF QueueLists
<1>2. L.lobby \in [LobbyId -> AnyLobby]
  BY <1>1 DEF SoundLists, LobbyLists, AnyLobby
<1>3. R.lobby = [L.lobby EXCEPT ![id] = r] /\ R.lobby[id] = r
      /\ R.order = L.order /\ R.timer = L.timer
  BY <1>1, <1>2 DEF RemoveFrom, SetLobby
<1>4. M.lobby = [R.lobby EXCEPT ![id] = StopWaiting(R.lobby[id])] /\ M.order = R.order
      /\ M.timer = CancelledTimers(R, id)
  BY DEF CancelTimer
<1>5. r.waiting = L.lobby[id].waiting /\ r.timer = L.lobby[id].timer
  BY <1>1, QueueAt, RemovedUser
<1>6. /\ Members(m) = Members(L.lobby[id]) \ {a} /\ Ready(m) = {} /\ ~m.waiting
      /\ m.lobbyAdminType = Unranked
  BY <1>1, QueueAt, StoppedLobby
<1> HIDE DEF R, M, r, m
<1>7. M.lobby = [L.lobby EXCEPT ![id] = m] /\ M.order = L.order
  BY <1>2, <1>3, <1>4 DEF m
<1>8. \A t \in TimerId :
        \/ M.timer[t] = L.timer[t] /\ ~(L.lobby[id].waiting /\ L.lobby[id].timer = t
                                        /\ L.timer[t].phase = "armed")
        \/ M.timer[t].phase = "idle" /\ L.timer[t].phase = "armed"
  BY <1>3, <1>4, <1>5 DEF CancelledTimers, IdleTimer
<1>9. \A t \in TimerId : ~(M.timer[t].phase = "armed" /\ M.timer[t].lobby = id)
  BY <1>1, <1>8 DEF QueueLists, ClocksFit
<1>10. ListOfQueue(M) /\ ClocksFit(M)
  BY <1>6, <1>7, <1>8, <1>9, FitsStays
<1>11. GroupEnds(L, M, id, Members(L.lobby[id]) \ {a})
  BY <1>1, <1>6, <1>7, OneGroupChanges DEF GroupEnds
<1>12. TimeoutsIn(M) = TimeoutsIn(L)
  BY <1>8, SameTimeouts
<1>13. QED
  BY <1>10, <1>11, <1>12 DEF M, R

\* The last user leaves, and the lobby stays in the list.
LEMMA LeaveLastEnds ==
  ASSUME NEW L \in QueueLists, NEW id \in Live(L), NEW a \in Members(L.lobby[id]),
         Members(RemoveFrom(L, id, a).lobby[id]) = {}
  PROVE  LET M == RemoveFrom(L, id, a)
         IN  /\ ListOfQueue(M) /\ ClocksFit(M)
             /\ GroupEnds(L, M, id, {})
             /\ TimeoutsIn(M) = TimeoutsIn(L)
<1> DEFINE M == RemoveFrom(L, id, a)
           r == RemoveUser(L.lobby[id], a)
<1>1. id \in LobbyId /\ L \in SoundLists
  BY AskAt, TidyAt DEF QueueLists
<1>2. L.lobby \in [LobbyId -> AnyLobby]
  BY <1>1 DEF SoundLists, LobbyLists, AnyLobby
<1>3. M.lobby = [L.lobby EXCEPT ![id] = r] /\ M.lobby[id] = r
      /\ M.order = L.order /\ M.timer = L.timer
  BY <1>1, <1>2 DEF RemoveFrom, SetLobby
<1>4. r.waiting = L.lobby[id].waiting
  BY <1>1, QueueAt, RemovedUser
<1>5. Members(r) = {} /\ Ready(r) = {} /\ ~r.waiting /\ r.lobbyAdminType = Unranked
  BY <1>1, <1>3, QueueAt, LeftLobby
<1> HIDE DEF M, r
<1>6. \A t \in TimerId : ~(M.timer[t].phase = "armed" /\ M.timer[t].lobby = id)
  BY <1>1, <1>3, <1>4, <1>5 DEF QueueLists, ClocksFit
<1>7. ListOfQueue(M) /\ ClocksFit(M)
  BY <1>3, <1>5, <1>6, FitsStays
<1>8. GroupEnds(L, M, id, {})
  BY <1>1, <1>3, <1>5, OneGroupChanges DEF GroupEnds
<1>9. TimeoutsIn(M) = TimeoutsIn(L)
  BY <1>3 DEF TimeoutsIn
<1>10. QED
  BY <1>7, <1>8, <1>9 DEF M

\* A user has left a group, and the others wait on; or the group has gone.
UserLeft(L, M, a) ==
  /\ ListOfQueue(M) /\ ClocksFit(M) /\ TimeoutsIn(M) = TimeoutsIn(L)
  /\ \E g \in LobbyId : /\ a \in Members(L.lobby[g])
                        /\ GroupEnds(L, M, g, Members(L.lobby[g]) \ {a})
GroupLeft(L, M, a) ==
  /\ ListOfQueue(M) /\ ClocksFit(M) /\ TimeoutsIn(M) = TimeoutsIn(L)
  /\ \E g \in LobbyId : a \in Members(L.lobby[g]) /\ GroupEnds(L, M, g, {})

\* The lobbies a search finds are in the list.
LEMMA FoundLive ==
  ASSUME NEW L, NEW a
  PROVE  /\ FirstLobbyOf(L, a) \subseteq Live(L)
         /\ FirstQueueOf(L, a) \subseteq Live(L)
         /\ FirstInvitationOf(L, a) \subseteq Live(L)
BY DEF FirstLobbyOf, FirstQueueOf, FirstInvitationOf, FindIf, Live

\* One user less: the lobby goes with its last user, or stops asking.
LEMMA OneUserLeft ==
  ASSUME NEW L \in QueueLists, NEW id \in Live(L), NEW a \in Members(L.lobby[id])
  PROVE  LET R == RemoveFrom(L, id, a)
         IN  /\ UserLeft(L, CancelTimer(R, id), a)
             /\ Members(R.lobby[id]) = {} => UserLeft(L, Erase(R, id), a)
             /\ Members(R.lobby[id]) = {} => UserLeft(L, R, a)
             /\ GroupLeft(L, Erase(R, id), a)
<1> DEFINE R == RemoveFrom(L, id, a)
           r == RemoveUser(L.lobby[id], a)
<1>1. id \in LobbyId /\ L \in SoundLists
  BY AskAt, TidyAt DEF QueueLists
<1>2. R.lobby[id] = r
  BY <1>1 DEF RemoveFrom, SetLobby, SoundLists, LobbyLists
<1>3. Members(r) = Members(L.lobby[id]) \ {a}
  BY <1>1, QueueAt, RemovedUser
<1>4. Erase(R, id) = Erase(L, id)
  BY <1>1, EraseAfterLeaving
<1> HIDE DEF r
<1>5. UserLeft(L, CancelTimer(R, id), a)
  BY <1>1, LeaveAndCancelEnds DEF UserLeft
<1>6. ASSUME Members(R.lobby[id]) = {} PROVE UserLeft(L, R, a)
  <2>1. Members(L.lobby[id]) \ {a} = {}
    BY <1>2, <1>3, <1>6
  <2>2. QED
    BY <1>1, <1>6, <2>1, LeaveLastEnds DEF UserLeft
<1> HIDE DEF R
<1>7. ASSUME Members(R.lobby[id]) = {} PROVE UserLeft(L, Erase(R, id), a)
  <2>1. Members(L.lobby[id]) \ {a} = {}
    BY <1>2, <1>3, <1>7
  <2>2. QED
    BY <1>1, <1>4, <2>1, EraseEnds DEF UserLeft
<1>8. GroupLeft(L, Erase(R, id), a)
  BY <1>1, <1>4, EraseEnds DEF GroupLeft
<1>9. QED
  BY <1>5, <1>6, <1>7, <1>8 DEF R

\* leaveMatchMakingQueue
LEMMA LeaveQueueLeaves ==
  ASSUME NEW L \in QueueLists, NEW a, NEW M \in LeaveQueue(L, a)
  PROVE  M = L \/ UserLeft(L, M, a)
<1>1. CASE FirstQueueOf(L, a) = {}
  BY <1>1 DEF LeaveQueue
<1>2. CASE FirstQueueOf(L, a) # {}
  <2>1. PICK id \in FirstQueueOf(L, a) :
          M = IF Members(RemoveFrom(L, id, a).lobby[id]) = {}
              THEN Erase(RemoveFrom(L, id, a), id)
              ELSE CancelTimer(RemoveFrom(L, id, a), id)
    BY <1>2 DEF LeaveQueue
  <2>2. id \in Live(L) /\ a \in Members(L.lobby[id])
    BY FoundLive, FoundLobbies
  <2>3. QED
    BY <2>1, <2>2, OneUserLeft
<1>3. QED
  BY <1>1, <1>2

\* cleanUp
LEMMA CleanUpLeaves ==
  ASSUME NEW L \in QueueLists, NEW a, NEW M \in CleanUpLobbies(L, a)
  PROVE  M = L \/ UserLeft(L, M, a)
<1>1. CASE FirstLobbyOf(L, a) = {}
  BY <1>1 DEF CleanUpLobbies
<1>2. CASE FirstLobbyOf(L, a) # {}
  <2>1. PICK id \in FirstLobbyOf(L, a) :
          M = IF Members(RemoveFrom(L, id, a).lobby[id]) = {}
              THEN Erase(RemoveFrom(L, id, a), id)
              ELSE CancelTimer(RemoveFrom(L, id, a), id)
    BY <1>2 DEF CleanUpLobbies
  <2>2. id \in Live(L) /\ a \in Members(L.lobby[id])
    BY FoundLive, FoundLobbies
  <2>3. QED
    BY <2>1, <2>2, OneUserLeft
<1>3. QED
  BY <1>1, <1>2

\* logoutAccount: when the first lobby lost its last user, there is no second queue
\* the user is in.
LEMMA LogoutLeaves ==
  ASSUME NEW L \in QueueLists, NEW a, NEW M \in LogoutLobbies(L, a)
  PROVE  M = L \/ UserLeft(L, M, a) \/ GroupLeft(L, M, a)
<1>1. CASE FirstLobbyOf(L, a) = {}
  BY <1>1 DEF LogoutLobbies
<1>2. CASE FirstLobbyOf(L, a) # {}
  <2> DEFINE R(id) == RemoveFrom(L, id, a)
  <2>1. PICK id \in FirstLobbyOf(L, a) :
          M \in IF Members(R(id).lobby[id]) # {} THEN {Erase(R(id), id)}
                ELSE IF id \in Queues(L) THEN LeaveQueue(R(id), a)
                ELSE {R(id)}
    BY <1>2 DEF LogoutLobbies
  <2>2. id \in Live(L) /\ a \in Members(L.lobby[id])
    BY FoundLive, FoundLobbies
  <2>3. ASSUME Members(R(id).lobby[id]) = {} PROVE LeaveQueue(R(id), a) = {R(id)}
    <3>1. L \in TidyLists /\ L \in SoundLists /\ ListOfQueue(L) /\ Live(L) \subseteq LobbyId
      BY AskAt, TidyAt DEF QueueLists
    <3>2. \A o \in LobbyId \ {id} : R(id).lobby[o] = L.lobby[o]
      BY <3>1 DEF RemoveFrom, SetLobby, SoundLists, LobbyLists
    <3>3. Live(R(id)) = Live(L)
      BY DEF RemoveFrom, SetLobby, Live
    <3> HIDE DEF R
    <3>4. Live(L) \subseteq Queues(L)
      BY <3>1 DEF ListOfQueue, Queues, QueueType
    <3>5. QueuesDisjoint(L)
      BY <3>1, TidyAt DEF TidyList
    <3>6. ASSUME NEW o \in FirstQueueOf(R(id), a) PROVE FALSE
      <4>1. o \in Live(L) /\ a \in Members(R(id).lobby[o])
        BY <3>3, FoundLive, FoundLobbies
      <4>2. o # id
        BY <2>3, <4>1
      <4>3. a \in Members(L.lobby[o])
        BY <3>1, <3>2, <4>1, <4>2
      <4>4. QED
        BY <2>2, <3>4, <3>5, <4>1, <4>2, <4>3 DEF QueuesDisjoint
    <3>7. QED
      BY <3>6 DEF LeaveQueue
  <2>4. M = Erase(R(id), id) \/ (Members(R(id).lobby[id]) = {} /\ M = R(id))
    BY <2>1, <2>3
  <2>5. QED
    BY <2>2, <2>4, OneUserLeft
<1>3. QED
  BY <1>1, <1>2

\* The owner of a timer is forgotten, its lobby and its phase are not.
LEMMA ForgetOwnerSame ==
  ASSUME NEW L \in SoundLists, NEW c
  PROVE  LET M == ForgetOwner(L, c)
         IN  /\ SameGroups(L, M)
             /\ ListOfQueue(L) => ListOfQueue(M)
             /\ ClocksFit(L) => ClocksFit(M)
<1> DEFINE M == ForgetOwner(L, c)
<1>1. M.lobby = L.lobby /\ M.order = L.order
  BY DEF ForgetOwner
<1>2. \A t \in TimerId : M.timer[t].phase = L.timer[t].phase
                         /\ M.timer[t].lobby = L.timer[t].lobby
  BY DEF ForgetOwner, SoundLists, LobbyLists, Timers
<1> HIDE DEF M
<1>3. Live(M) = Live(L)
  BY <1>1 DEF Live
<1>4. TimeoutsIn(M) = TimeoutsIn(L)
  BY <1>2 DEF TimeoutsIn
<1>5. SameGroups(L, M)
  BY <1>1, <1>4 DEF SameGroups, UsersIn, AskingIn, AcceptedIn
<1>6. ListOfQueue(L) => ListOfQueue(M)
  BY <1>1, <1>3 DEF ListOfQueue
<1>7. ClocksFit(L) => ClocksFit(M)
  BY <1>1, <1>2, <1>3 DEF ClocksFit
<1>8. QED
  BY <1>5, <1>6, <1>7 DEF M
----------------------------------------------------------------------------
(* Steps of the service *)

ServiceStep == [~(fault # "none") /\ Service!Next]_(Service!serviceVars)

\* What the proofs of steps assume of a state.
Ours == IInv /\ Tidy /\ Asking /\ QueuesSized /\ QueueAlone

LEMMA OursAt ==
  ASSUME OnlyUnrankedQueue, Ours
  PROVE  /\ gameLobbies \in QueueLists /\ gameLobbies \in SoundLists
         /\ SessionsTyped /\ StartsTyped
         /\ \A id \in Live(gameLobbies) :
              /\ id \in LobbyId
              /\ gameLobbies.lobby[id].maxUserCount = UsersNeeded[Unranked]
         /\ GroupUsers = UsersIn(gameLobbies) /\ GroupsAsking = AskingIn(gameLobbies)
         /\ GroupAccepted = AcceptedIn(gameLobbies)
         /\ GroupTimeouts = TimeoutsIn(gameLobbies)
<1>1. ListOfQueue(gameLobbies) /\ ClocksFit(gameLobbies) /\ gameLobbies \in AskLists
  BY DEF Ours, QueueAlone, Asking
<1>2. \A id \in Live(gameLobbies) :
        /\ id \in LobbyId
        /\ gameLobbies.lobby[id].maxUserCount = UsersNeeded[Unranked]
  BY <1>1, AskAt, TidyAt DEF Ours, QueuesSized, Lobby, ListOfQueue, QueueType
<1>3. gameLobbies \in QueueLists
  BY <1>1, <1>2 DEF QueueLists, OnlyUnrankedQueue
<1>4. QED
  BY <1>1, <1>2, <1>3, GroupsAreLobbies, IInvParts, AskAt DEF Ours

\* A queue lobby asks nobody to return while the server picks its next handler.
LEMMA NobodyReturns ==
  ASSUME Running
  PROVE  ToSet(requeue.users) = {} /\ ~(fault # "none")
BY DEF Running, NobodyToRequeue, ToSet

\* Nothing the service sees.
SameLaunches ==
  GroupLaunches' = GroupLaunches
Quiet == UNCHANGED <<requeue, fault>> /\ SameLaunches

LEMMA SilentStep ==
  ASSUME ListOfQueue(gameLobbies), ListOfQueue(gameLobbies'),
         SameGroups(gameLobbies, gameLobbies'), Quiet, NamedSessions' = NamedSessions
  PROVE  ServiceStep
BY GroupsAreLobbies, GroupsAreLobbiesNext
   DEF ServiceStep, Service!serviceVars, SameGroups, Quiet, SameLaunches

\* A session gets or loses its name.
LEMMA ComeOrGoStep ==
  ASSUME ListOfQueue(gameLobbies), ListOfQueue(gameLobbies'), Running,
         SameGroups(gameLobbies, gameLobbies'), Quiet, NEW c \in Conn,
         \/ NamedSessions' = NamedSessions \cup {c}
         \/ NamedSessions' = NamedSessions \ {c}
  PROVE  ServiceStep
<1>1. CASE NamedSessions' = NamedSessions
  BY <1>1, SilentStep
<1>2. CASE NamedSessions' # NamedSessions
  <2>1. \/ NamedSessions' = NamedSessions \cup {c}
        \/ c \in NamedSessions /\ NamedSessions' = NamedSessions \ {c}
    BY <1>2
  <2>2. Service!ComeOrGo
    BY <2>1, GroupsAreLobbies, GroupsAreLobbiesNext
       DEF Service!ComeOrGo, Service!Goes, SameGroups, Quiet, SameLaunches
  <2>3. QED
    BY <2>2, NobodyReturns DEF ServiceStep, Service!Next
<1>3. QED
  BY <1>1, <1>2

\* A user leaves a group, with the session or without.
LEMMA LeaveStep ==
  ASSUME ListOfQueue(gameLobbies), Running, NEW a \in Account, Quiet,
         \/ /\ UserLeft(gameLobbies, gameLobbies', a)
            /\ NamedSessions' = NamedSessions
         \/ /\ UserLeft(gameLobbies, gameLobbies', a) \/ GroupLeft(gameLobbies, gameLobbies', a)
            /\ \E c \in NamedSessions : NamedSessions' = NamedSessions \ {c}
  PROVE  ServiceStep
<1>1. ListOfQueue(gameLobbies') /\ TimeoutsIn(gameLobbies') = TimeoutsIn(gameLobbies)
  BY DEF UserLeft, GroupLeft
<1>2. /\ GroupUsers = UsersIn(gameLobbies) /\ GroupsAsking = AskingIn(gameLobbies)
      /\ GroupAccepted = AcceptedIn(gameLobbies) /\ GroupTimeouts = TimeoutsIn(gameLobbies)
      /\ GroupUsers' = UsersIn(gameLobbies') /\ GroupsAsking' = AskingIn(gameLobbies')
      /\ GroupAccepted' = AcceptedIn(gameLobbies')
      /\ GroupTimeouts' = TimeoutsIn(gameLobbies')
  BY <1>1, GroupsAreLobbies, GroupsAreLobbiesNext
<1>3. ASSUME NEW g \in LobbyId, a \in Members(gameLobbies.lobby[g])
      PROVE  a \in GroupUsers[g] /\ GroupUsers[g] = Members(gameLobbies.lobby[g])
  BY <1>2, <1>3 DEF UsersIn
<1>4. \E g \in LobbyId : a \in GroupUsers[g] /\ Service!Leave(a, g)
  <2>1. CASE UserLeft(gameLobbies, gameLobbies', a)
    BY <1>1, <1>2, <1>3, <2>1 DEF UserLeft, GroupEnds, Service!Leave, Service!Ends,
       Service!Goes, Quiet, SameLaunches
  <2>2. CASE /\ GroupLeft(gameLobbies, gameLobbies', a)
             /\ \E c \in NamedSessions : NamedSessions' = NamedSessions \ {c}
    BY <1>1, <1>2, <1>3, <2>2 DEF GroupLeft, GroupEnds, Service!Leave, Service!Ends,
       Service!Goes, Quiet, SameLaunches
  <2>3. QED
    BY <2>1, <2>2
<1>5. QED
  BY <1>4, NobodyReturns DEF ServiceStep, Service!Next

\* The process stops.
LEMMA LostStep ==
  ASSUME fault = "none", NEW why \in {"dangling", "abort"}, ProcessStops(why)
  PROVE  ServiceStep /\ QueueAlone'
<1>1. gameLobbies' = NoLobbies /\ requeue' = NobodyToRequeue /\ fault' = why
      /\ starts' = [s \in StartId |-> IdleStart]
      /\ accountName' = [c \in Conn |-> NoAccount]
  BY DEF ProcessStops
<1>2. /\ Live(NoLobbies) = {}
      /\ \A id \in LobbyId : NoLobbies.lobby[id] = EmptyLobby
      /\ \A t \in TimerId : NoLobbies.timer[t].phase = "idle"
  BY DEF NoLobbies, IdleTimer, Live
<1>3. ListOfQueue(NoLobbies) /\ ClocksFit(NoLobbies)
  BY <1>2 DEF ListOfQueue, ClocksFit
<1>4. NobodyToRequeue.users = <<>> /\ NobodyToRequeue.type = Unranked
  BY DEF NobodyToRequeue
<1>5. QueueAlone'
  BY <1>1, <1>3, <1>4 DEF QueueAlone, RequeueFits, Distinct
<1>6. EmptyLobby.readyUsers = <<>> /\ ~EmptyLobby.waiting
  BY DEF EmptyLobby
<1>7. Ready(EmptyLobby) = {} /\ Members(EmptyLobby) = {}
  BY <1>6, EmptyLobbyTidy DEF Ready
<1>8. /\ UsersIn(NoLobbies) = [g \in LobbyId |-> {}] /\ AskingIn(NoLobbies) = {}
      /\ AcceptedIn(NoLobbies) = [g \in LobbyId |-> {}] /\ TimeoutsIn(NoLobbies) = {}
  <2>1. \A id \in LobbyId : /\ Members(NoLobbies.lobby[id]) = {}
                            /\ Ready(NoLobbies.lobby[id]) = {}
                            /\ ~NoLobbies.lobby[id].waiting
    BY <1>2, <1>6, <1>7
  <2>2. TimeoutsIn(NoLobbies) = {}
    BY <1>2 DEF TimeoutsIn
  <2>3. QED
    BY <2>1, <2>2 DEF UsersIn, AskingIn, AcceptedIn
<1>9. /\ GroupUsers' = [g \in LobbyId |-> {}] /\ GroupsAsking' = {}
      /\ GroupAccepted' = [g \in LobbyId |-> {}] /\ GroupTimeouts' = {}
  BY <1>1, <1>3, <1>8, GroupsAreLobbiesNext
<1>10. GroupLaunches' = {} /\ NamedSessions' = {} /\ ToSet(requeue'.users) = {}
  BY <1>1, <1>4 DEF GroupLaunches, NamedSessions, IdleStart, ToSet
<1>11. Service!Lost
  BY <1>1, <1>9, <1>10 DEF Service!Lost
<1>12. QED
  BY <1>5, <1>11 DEF ServiceStep, Service!Next
----------------------------------------------------------------------------
(* Joining *)

\* A user has come into the group g, which was not asked; the last one it needs
\* makes it ask.
GroupEntered(L, M, g, a) ==
  LET n == Cardinality(Members(L.lobby[g]))
  IN  /\ ListOfQueue(M) /\ ClocksFit(M)
      /\ g \notin AskingIn(L) /\ n < UsersNeeded[Unranked]
      /\ UsersIn(M) = [UsersIn(L) EXCEPT ![g] = @ \cup {a}]
      /\ AcceptedIn(M) = AcceptedIn(L)
      /\ AskingIn(M) = IF n + 1 = UsersNeeded[Unranked] THEN AskingIn(L) \cup {g}
                       ELSE AskingIn(L)
      /\ TimeoutsIn(M) = TimeoutsIn(L)

\* The users of a lobby, counted.
LEMMA UsersCounted ==
  ASSUME NEW l \in AnyLobby, TidyLobby(l)
  PROVE  /\ Cardinality(Members(l)) = Len(l.accountNames)
         /\ Len(l.accountNames) \in Nat /\ l.maxUserCount \in Nat
<1>1. l.accountNames \in Seq(Account) /\ l.maxUserCount \in Nat
  BY DEF AnyLobby, Lobbies
<1>2. Members(l) = Elements(l.accountNames)
  BY DEF Members, Elements
<1>3. QED
  BY <1>1, <1>2, ElementsCounted DEF TidyLobby

\* tryToAddUser, in a lobby of the queue with space.
LEMMA JoinedGroup ==
  ASSUME NEW L \in QueueLists, NEW id \in Live(L), NEW a \in Account,
         L.lobby[id].maxUserCount = UsersNeeded[Unranked],
         HasSpace(L.lobby[id]), a \notin Members(L.lobby[id])
  PROVE  LET l == L.lobby[id]
             m == AddUser(l, a)
             n == Cardinality(Members(l))
         IN  /\ Members(m) = Members(l) \cup {a} /\ Ready(m) = Ready(l)
             /\ ~l.waiting /\ m.waiting = l.waiting /\ m.timer = l.timer
             /\ m.lobbyAdminType = Unranked
             /\ n < UsersNeeded[Unranked]
             /\ IsFull(m) <=> n + 1 = UsersNeeded[Unranked]
             /\ m \in AnyLobby
<1> DEFINE l == L.lobby[id]
           m == AddUser(l, a)
           n == Cardinality(Members(l))
<1>1. id \in LobbyId
  BY AskAt, TidyAt DEF QueueLists
<1>2. /\ l \in AnyLobby /\ TidyLobby(l) /\ l.lobbyAdminType = Unranked
      /\ AsksWhileFull(l)
  BY <1>1, QueueAt
<1>3. /\ m.accountNames = Append(l.accountNames, a) /\ m.readyUsers = l.readyUsers
      /\ m.waiting = l.waiting /\ m.timer = l.timer
      /\ m.lobbyAdminType = Unranked /\ m.maxUserCount = l.maxUserCount
      /\ m \in AnyLobby
  BY <1>2, AddUserKeepsInvitation DEF AddUser, AnyLobby, Lobbies, SameInvitation
<1>4. Members(m) = Members(l) \cup {a}
  BY <1>2, AddUserTidy
<1>5. n = Len(l.accountNames) /\ n \in Nat /\ l.maxUserCount \in Nat
  BY <1>2, UsersCounted
<1>6. Len(m.accountNames) = n + 1
  BY <1>2, <1>3, <1>5 DEF AnyLobby, Lobbies
<1>7. ~l.waiting
  BY <1>2, <1>5 DEF AsksWhileFull, IsFull, HasSpace
<1> HIDE DEF m, n
<1>8. n < UsersNeeded[Unranked] /\ (IsFull(m) <=> n + 1 = UsersNeeded[Unranked])
  BY <1>3, <1>5, <1>6 DEF HasSpace, IsFull
<1>9. Ready(m) = Ready(l)
  BY <1>3 DEF Ready
<1>10. QED
  BY <1>3, <1>4, <1>7, <1>8, <1>9 DEF m, n

\* A group with users to spare.
LEMMA JoinEnters ==
  ASSUME NEW L \in QueueLists, NEW id \in Live(L), NEW a \in Account,
         L.lobby[id].maxUserCount = UsersNeeded[Unranked],
         HasSpace(L.lobby[id]), a \notin Members(L.lobby[id]),
         ~IsFull(AddUser(L.lobby[id], a))
  PROVE  GroupEntered(L, SetLobby(L, id, AddUser(L.lobby[id], a)), id, a)
<1> DEFINE l == L.lobby[id]
           m == AddUser(l, a)
           M == SetLobby(L, id, m)
<1>1. id \in LobbyId /\ L \in SoundLists
  BY AskAt, TidyAt DEF QueueLists
<1>2. M.lobby = [L.lobby EXCEPT ![id] = m] /\ M.order = L.order /\ M.timer = L.timer
  BY DEF SetLobby
<1>3. /\ Members(m) = Members(l) \cup {a} /\ Ready(m) = Ready(l)
      /\ ~l.waiting /\ ~m.waiting /\ m.lobbyAdminType = Unranked
      /\ Cardinality(Members(l)) < UsersNeeded[Unranked]
      /\ Cardinality(Members(l)) + 1 # UsersNeeded[Unranked]
  BY JoinedGroup
<1> HIDE DEF m, M
<1>4. \A t \in TimerId : ~(M.timer[t].phase = "armed" /\ M.timer[t].lobby = id)
  BY <1>1, <1>2, <1>3 DEF QueueLists, ClocksFit
<1>5. ListOfQueue(M) /\ ClocksFit(M)
  BY <1>2, <1>3, <1>4, FitsStays
<1>6. /\ UsersIn(M) = [UsersIn(L) EXCEPT ![id] = Members(m)]
      /\ AcceptedIn(M) = [AcceptedIn(L) EXCEPT ![id] = Ready(m)]
      /\ AskingIn(M) = AskingIn(L) \ {id}
  BY <1>1, <1>2, <1>3, OneGroupChanges
<1>7. UsersIn(L)[id] = Members(l) /\ AcceptedIn(L)[id] = Ready(l) /\ id \notin AskingIn(L)
  BY <1>1, <1>3 DEF UsersIn, AcceptedIn, AskingIn
<1>8. /\ UsersIn(M) = [UsersIn(L) EXCEPT ![id] = @ \cup {a}]
      /\ AcceptedIn(M) = AcceptedIn(L) /\ AskingIn(M) = AskingIn(L)
  <2>1. AcceptedIn(L) = [o \in LobbyId |-> AcceptedIn(L)[o]]
    BY DEF AcceptedIn
  <2>2. QED
    BY <1>3, <1>6, <1>7, <2>1
<1>9. TimeoutsIn(M) = TimeoutsIn(L)
  BY <1>2 DEF TimeoutsIn
<1>10. GroupEntered(L, M, id, a)
  BY <1>3, <1>5, <1>7, <1>8, <1>9 DEF GroupEntered
<1>11. QED
  BY <1>10 DEF M, m

\* The last user a group needs.
LEMMA JoinAsks ==
  ASSUME NEW L \in QueueLists, NEW id \in Live(L), NEW a \in Account,
         L.lobby[id].maxUserCount = UsersNeeded[Unranked],
         HasSpace(L.lobby[id]), a \notin Members(L.lobby[id]),
         IsFull(AddUser(L.lobby[id], a)), NEW c, NEW t,
         t \in FreeTimer(SetLobby(L, id, AddUser(L.lobby[id], a)))
  PROVE  GroupEntered(L, AskUsersToJoinGame(SetLobby(L, id, AddUser(L.lobby[id], a)),
                                            id, t, c), id, a)
<1> DEFINE l == L.lobby[id]
           m == AddUser(l, a)
           J == SetLobby(L, id, m)
           w == StartWaiting(m, t)
           M == StartTimer(J, id, t, c)
<1>1. id \in LobbyId /\ L \in SoundLists
  BY AskAt, TidyAt DEF QueueLists
<1>2. L.lobby \in [LobbyId -> AnyLobby] /\ DOMAIN L.timer = TimerId
  BY <1>1 DEF SoundLists, LobbyLists, AnyLobby
<1>3. /\ Members(m) = Members(l) \cup {a} /\ Ready(m) = Ready(l)
      /\ ~l.waiting /\ m.lobbyAdminType = Unranked /\ m \in AnyLobby
      /\ Cardinality(Members(l)) < UsersNeeded[Unranked]
      /\ Cardinality(Members(l)) + 1 = UsersNeeded[Unranked]
  BY JoinedGroup
<1>4. t \in TimerId /\ L.timer[t].phase = "idle"
  <2>1. J.timer = L.timer
    BY DEF SetLobby
  <2>2. QED
    BY <2>1, FreeTimerType
<1> HIDE DEF m
<1>5. /\ Members(w) = Members(m) /\ Ready(w) = Ready(m) /\ w.waiting /\ w.timer = t
      /\ w.lobbyAdminType = Unranked
  BY <1>3 DEF StartWaiting, AnyLobby, Lobbies, Members, Ready
<1> HIDE DEF w
<1>6. /\ J.lobby = [L.lobby EXCEPT ![id] = m] /\ J.lobby[id] = m /\ J.order = L.order
      /\ J.timer = L.timer
  BY <1>1, <1>2 DEF SetLobby
<1>7. /\ M.lobby = [J.lobby EXCEPT ![id] = StartWaiting(J.lobby[id], t)]
      /\ M.order = J.order
      /\ M.timer = [J.timer EXCEPT ![t] =
                      [phase |-> "armed", lobby |-> id, owner |-> c]]
  BY DEF StartTimer
<1> HIDE DEF J, M
<1>8. /\ M.lobby = [L.lobby EXCEPT ![id] = w] /\ M.order = L.order /\ M.lobby[id] = w
  BY <1>1, <1>2, <1>6, <1>7 DEF w
<1>9. /\ M.timer[t].phase = "armed" /\ M.timer[t].lobby = id
      /\ \A u \in TimerId \ {t} : M.timer[u] = L.timer[u]
  BY <1>2, <1>4, <1>6, <1>7
<1>10. AskUsersToJoinGame(J, id, t, c) = M
  BY <1>5, <1>8 DEF AskUsersToJoinGame, M, Unranked, Custom
<1>11. Live(M) = Live(L)
  BY <1>8 DEF Live
<1>12. /\ UsersIn(M) = [UsersIn(L) EXCEPT ![id] = Members(w)]
       /\ AcceptedIn(M) = [AcceptedIn(L) EXCEPT ![id] = Ready(w)]
       /\ AskingIn(M) = AskingIn(L) \cup {id}
       /\ \A o \in LobbyId \ {id} : M.lobby[o] = L.lobby[o]
  BY <1>1, <1>5, <1>8, OneGroupChanges
<1>13. ListOfQueue(M)
  BY <1>5, <1>8, <1>11, <1>12 DEF QueueLists, ListOfQueue
<1>14. ClocksFit(M)
  <2>1. ASSUME NEW u \in TimerId, M.timer[u].phase = "armed"
        PROVE  /\ M.timer[u].lobby \in LobbyId
               /\ M.timer[u].lobby \in Live(M) =>
                    M.lobby[M.timer[u].lobby].waiting /\ M.lobby[M.timer[u].lobby].timer = u
    <3>1. CASE u = t
      BY <1>1, <1>5, <1>8, <1>9, <3>1
    <3>2. CASE u # t
      <4>1. M.timer[u] = L.timer[u]
        BY <1>9, <3>2
      <4>2. /\ M.timer[u].lobby \in LobbyId
            /\ M.timer[u].lobby \in Live(L) =>
                 L.lobby[M.timer[u].lobby].waiting /\ L.lobby[M.timer[u].lobby].timer = u
        BY <2>1, <4>1 DEF QueueLists, ClocksFit
      <4>3. M.timer[u].lobby # id
        BY <1>3, <4>2
      <4>4. QED
        BY <1>11, <1>12, <4>2, <4>3
    <3>3. QED
      BY <3>1, <3>2
  <2>2. QED
    BY <2>1 DEF ClocksFit
<1>15. TimeoutsIn(M) = TimeoutsIn(L)
  BY <1>4, <1>9, SameTimeouts
<1>16. UsersIn(L)[id] = Members(l) /\ AcceptedIn(L)[id] = Ready(l) /\ id \notin AskingIn(L)
  BY <1>1, <1>3 DEF UsersIn, AcceptedIn, AskingIn
<1>17. /\ UsersIn(M) = [UsersIn(L) EXCEPT ![id] = @ \cup {a}]
       /\ AcceptedIn(M) = AcceptedIn(L)
  <2>1. AcceptedIn(L) = [o \in LobbyId |-> AcceptedIn(L)[o]]
    BY DEF AcceptedIn
  <2>2. QED
    BY <1>3, <1>5, <1>12, <1>16, <2>1
<1>18. GroupEntered(L, M, id, a)
  BY <1>3, <1>12, <1>13, <1>14, <1>15, <1>16, <1>17 DEF GroupEntered
<1>19. QED
  BY <1>10, <1>18 DEF J, m

\* A new group.  No timer refers to its node.
LEMMA OpenEnters ==
  ASSUME OnlyUnrankedQueue, NEW L \in QueueLists, NEW id \in LobbyId, id \notin Live(L),
         id \notin Referred(L), NEW a \in Account
  PROVE  GroupEntered(L, Emplace(L, id,
                        AddUser([EmptyLobby EXCEPT !.lobbyAdminType = Unranked,
                                   !.maxUserCount = UsersNeeded[Unranked]], a)), id, a)
<1> DEFINE n == [EmptyLobby EXCEPT !.lobbyAdminType = Unranked,
                                   !.maxUserCount = UsersNeeded[Unranked]]
           o == AddUser(n, a)
           M == Emplace(L, id, o)
<1>1. L \in SoundLists /\ L \in TidyLists /\ ListOfQueue(L) /\ ClocksFit(L)
  BY AskAt DEF QueueLists
<1>2. /\ n.accountNames = <<>> /\ n.readyUsers = <<>> /\ ~n.waiting
      /\ n.lobbyAdminType = Unranked /\ n \in AnyLobby
  BY EmptyLobbyType, QueueAssumption DEF EmptyLobby, AnyLobby, Lobbies, LobbyType, QueueType
<1> HIDE DEF n
<1>3. /\ o.accountNames = Append(<<>>, a) /\ o.readyUsers = <<>> /\ ~o.waiting
      /\ o.lobbyAdminType = Unranked
  BY <1>2 DEF AddUser, AnyLobby, Lobbies
<1> HIDE DEF o
<1>4. Members(o) = {a} /\ Ready(o) = {}
  <2>1. Append(<<>>, a) = <<a>>
    OBVIOUS
  <2>2. Ready(o) = {}
    BY <1>3 DEF Ready
  <2>3. Members(o) = {a}
    BY <1>3, <2>1 DEF Members
  <2>4. QED
    BY <2>2, <2>3
<1>5. /\ M.lobby = [L.lobby EXCEPT ![id] = o] /\ M.order = Append(L.order, id)
      /\ M.timer = L.timer
  BY DEF Emplace
<1> HIDE DEF M
<1>6. Live(M) = Live(L) \cup {id}
  <2>1. /\ \A j \in DOMAIN M.order :
             M.order[j] = id \/ \E k \in DOMAIN L.order : M.order[j] = L.order[k]
        /\ \A k \in DOMAIN L.order : k \in DOMAIN M.order /\ M.order[k] = L.order[k]
        /\ \E j \in DOMAIN M.order : M.order[j] = id
    <3> DEFINE r == L.order
    <3>1. r \in Seq(LobbyId)
      BY <1>1, TidyAt
    <3> HIDE DEF r
    <3>2. /\ \A j \in DOMAIN Append(r, id) :
               Append(r, id)[j] = id \/ \E k \in DOMAIN r : Append(r, id)[j] = r[k]
          /\ \A k \in DOMAIN r : k \in DOMAIN Append(r, id) /\ Append(r, id)[k] = r[k]
          /\ \E j \in DOMAIN Append(r, id) : Append(r, id)[j] = id
      BY <3>1, AppendElements
    <3>3. QED
      BY <1>5, <3>2 DEF r
  <2>2. QED
    BY <2>1 DEF Live
<1>7. /\ UsersIn(M) = [UsersIn(L) EXCEPT ![id] = {a}]
      /\ AcceptedIn(M) = [AcceptedIn(L) EXCEPT ![id] = {}]
      /\ AskingIn(M) = AskingIn(L) \ {id}
      /\ M.lobby[id] = o /\ \A x \in LobbyId \ {id} : M.lobby[x] = L.lobby[x]
  BY <1>1, <1>3, <1>4, <1>5, OneGroupChanges
<1>8. Members(L.lobby[id]) = {} /\ Ready(L.lobby[id]) = {} /\ ~L.lobby[id].waiting
  BY QueueAt
<1>9. UsersIn(L)[id] = {} /\ AcceptedIn(L)[id] = {} /\ id \notin AskingIn(L)
  BY <1>8 DEF UsersIn, AcceptedIn, AskingIn
<1>10. Cardinality(Members(L.lobby[id])) = 0
  BY <1>8, FS_EmptySet
<1>11. UsersNeeded[Unranked] \in Nat /\ UsersNeeded[Unranked] > 1
  BY QueueAssumption DEF OnlyUnrankedQueue, QueueType
<1>12. /\ UsersIn(M) = [UsersIn(L) EXCEPT ![id] = @ \cup {a}]
       /\ AcceptedIn(M) = AcceptedIn(L) /\ AskingIn(M) = AskingIn(L)
  <2>1. AcceptedIn(L) = [x \in LobbyId |-> AcceptedIn(L)[x]]
    BY DEF AcceptedIn
  <2>2. QED
    BY <1>7, <1>9, <2>1
<1>13. ListOfQueue(M)
  BY <1>1, <1>3, <1>6, <1>7 DEF ListOfQueue
<1>14. \A t \in TimerId : L.timer[t].phase = "armed" => L.timer[t].lobby # id
  BY DEF Referred
<1>15. ClocksFit(M)
  BY <1>1, <1>5, <1>6, <1>7, <1>14 DEF ClocksFit
<1>16. TimeoutsIn(M) = TimeoutsIn(L)
  BY <1>5 DEF TimeoutsIn
<1>17. GroupEntered(L, M, id, a)
  BY <1>9, <1>10, <1>11, <1>12, <1>13, <1>15, <1>16 DEF GroupEntered
<1>18. QED
  BY <1>17 DEF M, o, n

\* joinMatchMakingQueue, whoever calls it.
LEMMA EnterQueueEnters ==
  ASSUME OnlyUnrankedQueue, Ours, NEW c \in Conn, accountName[c] \in Account,
         EnterQueue(c, Unranked)
  PROVE  /\ \A id \in LobbyId : accountName[c] \notin Members(gameLobbies.lobby[id])
         /\ \E g \in LobbyId : GroupEntered(gameLobbies, gameLobbies', g, accountName[c])
<1> DEFINE a == accountName[c]
           L == gameLobbies
           J(id) == SetLobby(L, id, AddUser(L.lobby[id], a))
<1>1. L \in QueueLists /\ \A id \in Live(L) : id \in LobbyId
        /\ L.lobby[id].maxUserCount = UsersNeeded[Unranked]
  BY OursAt
<1>2. ~InSomeLobby(L, a)
  BY DEF EnterQueue
<1>3. \A id \in LobbyId : a \notin Members(L.lobby[id])
  BY <1>1, <1>2, AskAt, OutsideEveryLobby DEF QueueLists
<1>4. ASSUME NEW id \in LobbyToAddUser(a, Unranked)
      PROVE  id \in Live(L) /\ HasSpace(L.lobby[id])
  BY <1>4 DEF LobbyToAddUser, Matches, Live
<1>5. ASSUME NEW id \in LobbyToAddUser(a, Unranked)
      PROVE  J(id).lobby[id] = AddUser(L.lobby[id], a)
  BY <1>1, <1>4, <1>5, OursAt DEF SetLobby, SoundLists, LobbyLists
<1>6. ASSUME NEW id \in LobbyToAddUser(a, Unranked),
             \/ IsFull(J(id).lobby[id]) /\ \E t \in FreeTimer(J(id)) :
                  L' = AskUsersToJoinGame(J(id), id, t, c)
             \/ ~IsFull(J(id).lobby[id]) /\ L' = J(id)
      PROVE  GroupEntered(L, L', id, a)
  BY <1>1, <1>3, <1>4, <1>5, <1>6, JoinEnters, JoinAsks
<1>7. ASSUME NEW id \in NewLobby,
             L' = Emplace(L, id, AddUser([EmptyLobby EXCEPT !.lobbyAdminType = Unranked,
                                   !.maxUserCount = UsersNeeded[Unranked]], a))
      PROVE  GroupEntered(L, L', id, a)
  <2>1. id \in LobbyId /\ id \notin Live(L) /\ id \notin Referred(L)
    BY <1>7 DEF NewLobby, FreeLobby, Least
  <2>2. QED
    BY <1>1, <1>7, <2>1, OpenEnters
<1>8. \E g \in LobbyId : GroupEntered(L, L', g, a)
  BY <1>1, <1>4, <1>6, <1>7, NewLobbyFree DEF EnterQueue
<1>9. QED
  BY <1>3, <1>8

\* The step of the service, but for the users on the way back.
LEMMA EnterStep ==
  ASSUME OnlyUnrankedQueue, Ours, NEW a, fault' = fault, SameLaunches,
         NamedSessions' = NamedSessions,
         \A id \in LobbyId : a \notin Members(gameLobbies.lobby[id]),
         NEW g \in LobbyId, GroupEntered(gameLobbies, gameLobbies', g, a)
  PROVE  /\ a \notin Service!Grouped /\ g \in LobbyId \ GroupsAsking
         /\ Service!Enter(a, g)
<1>1. ListOfQueue(gameLobbies')
  BY DEF GroupEntered
<1>2. /\ GroupUsers = UsersIn(gameLobbies) /\ GroupsAsking = AskingIn(gameLobbies)
      /\ GroupAccepted = AcceptedIn(gameLobbies) /\ GroupTimeouts = TimeoutsIn(gameLobbies)
      /\ GroupUsers' = UsersIn(gameLobbies') /\ GroupsAsking' = AskingIn(gameLobbies')
      /\ GroupAccepted' = AcceptedIn(gameLobbies')
      /\ GroupTimeouts' = TimeoutsIn(gameLobbies')
  BY <1>1, OursAt, GroupsAreLobbiesNext
<1>3. GroupUsers[g] = Members(gameLobbies.lobby[g])
  BY <1>2 DEF UsersIn
<1>4. Service!Enter(a, g)
  <2> DEFINE n == Cardinality(Members(gameLobbies.lobby[g]))
  <2>1. /\ n < UsersNeeded[Unranked]
        /\ GroupUsers' = [GroupUsers EXCEPT ![g] = @ \cup {a}]
        /\ GroupsAsking' = IF n + 1 = UsersNeeded[Unranked] THEN GroupsAsking \cup {g}
                           ELSE GroupsAsking
        /\ GroupAccepted' = GroupAccepted /\ GroupTimeouts' = GroupTimeouts
    BY <1>2 DEF GroupEntered
  <2>2. Service!Cardinality(GroupUsers[g]) = n
    <3>1. Service!Cardinality(GroupUsers[g]) = Cardinality(GroupUsers[g])
      BY DEF Service!Cardinality, Cardinality
    <3>2. QED
      BY <1>3, <3>1
  <2> HIDE DEF n
  <2>3. GroupLaunches' = GroupLaunches
    BY DEF SameLaunches
  <2>4. QED
    BY <2>1, <2>2, <2>3 DEF Service!Enter
<1>5. a \notin Service!Grouped
  BY <1>2 DEF Service!Grouped, UsersIn
<1>6. QED
  BY <1>2, <1>4, <1>5 DEF GroupEntered
----------------------------------------------------------------------------
(* The steps of the server *)

\* What is to be shown of a step.
Implements == ServiceStep /\ QueueAlone'

\* The lists and the users on the way back, when the latter stay.
LEMMA AloneStays ==
  ASSUME QueueAlone, ListOfQueue(gameLobbies'), ClocksFit(gameLobbies'), UNCHANGED requeue
  PROVE  QueueAlone'
BY DEF QueueAlone, RequeueFits

LEMMA SameGroupsAsBefore ==
  ASSUME NEW L
  PROVE  SameGroups(L, L)
BY DEF SameGroups

\* Sessions with a name.
LEMMA NamesChange ==
  ASSUME Ours, NEW c \in Conn, NEW a, accountName' = [accountName EXCEPT ![c] = a]
  PROVE  /\ a # NoAccount => NamedSessions' = NamedSessions \cup {c}
         /\ a = NoAccount => NamedSessions' = NamedSessions \ {c}
BY IInvParts DEF Ours, SessionsTyped, NamedSessions

\* The users of a lobby have names.
LEMMA UsersHaveNames ==
  ASSUME Ours, NEW c \in Conn, NEW g \in LobbyId,
         accountName[c] \in Members(gameLobbies.lobby[g])
  PROVE  accountName[c] \in Account /\ c \in NamedSessions
<1>1. gameLobbies.lobby[g] \in AnyLobby
  BY AskAt DEF Ours, Asking
<1>2. gameLobbies.lobby[g].accountNames \in Seq(Account)
  BY <1>1 DEF AnyLobby, Lobbies
<1>3. accountName[c] \in Account
  BY <1>2 DEF Members
<1>4. QED
  BY <1>3, AccountAssumption DEF NamedSessions

\* Neither is seen by the service: who started a game, and how far the start is.
LEMMA StartsForgotten ==
  ASSUME Ours, NEW c, starts' = ForgottenStarts(c)
  PROVE  SameLaunches
<1>1. starts \in [StartId -> Starts]
  BY IInvParts DEF Ours, StartsTyped
<1>2. \A s \in StartId : starts'[s].phase = starts[s].phase
                         /\ starts'[s].lobby = starts[s].lobby
  BY <1>1 DEF ForgottenStarts, Starts
<1>3. QED
  BY <1>2 DEF SameLaunches, GroupLaunches

LEMMA StartsStay ==
  ASSUME UNCHANGED starts
  PROVE  SameLaunches
BY DEF SameLaunches, GroupLaunches

\* A step of sessions only.
LEMMA SessionStep ==
  ASSUME OnlyUnrankedQueue, Ours, Running, UNCHANGED <<gameLobbies, requeue, fault>>,
         SameLaunches, NEW c \in Conn,
         \/ UNCHANGED accountName
         \/ \E a : accountName' = [accountName EXCEPT ![c] = a]
  PROVE  Implements
<1>1. /\ ListOfQueue(gameLobbies) /\ ListOfQueue(gameLobbies') /\ ClocksFit(gameLobbies')
      /\ SameGroups(gameLobbies, gameLobbies')
  BY SameGroupsAsBefore DEF Ours, QueueAlone
<1>2. QueueAlone'
  BY <1>1, AloneStays DEF Ours
<1>3. Quiet
  BY DEF Quiet
<1>4. CASE UNCHANGED accountName
  <2>1. NamedSessions' = NamedSessions
    BY <1>4 DEF NamedSessions
  <2>2. QED
    BY <1>1, <1>2, <1>3, <2>1, SilentStep DEF Implements
<1>5. ASSUME NEW a, accountName' = [accountName EXCEPT ![c] = a] PROVE Implements
  BY <1>1, <1>2, <1>3, <1>5, NamesChange, ComeOrGoStep DEF Implements
<1>6. QED
  BY <1>4, <1>5

\* logoutAccount
LEMMA LogoutStep ==
  ASSUME OnlyUnrankedQueue, Ours, Running, UNCHANGED <<requeue, fault>>, SameLaunches,
         NEW c \in Conn, LeaveAccount(c)
  PROVE  Implements
<1> DEFINE a == accountName[c]
<1>1. gameLobbies' \in LogoutLobbies(gameLobbies, a)
      /\ accountName' = [accountName EXCEPT ![c] = NoAccount]
  BY DEF LeaveAccount
<1>2. NamedSessions' = NamedSessions \ {c}
  BY <1>1, NamesChange
<1>3. Quiet /\ gameLobbies \in QueueLists /\ ListOfQueue(gameLobbies)
  BY OursAt DEF Quiet, Ours, QueueAlone
<1>4. CASE gameLobbies' = gameLobbies
  BY <1>1, <1>4, SessionStep
<1>5. CASE UserLeft(gameLobbies, gameLobbies', a) \/ GroupLeft(gameLobbies, gameLobbies', a)
  <2>1. a \in Account /\ c \in NamedSessions
    BY <1>5, UsersHaveNames DEF UserLeft, GroupLeft
  <2>2. ServiceStep
    BY <1>2, <1>3, <1>5, <2>1, LeaveStep
  <2>3. QueueAlone'
    BY <1>5, AloneStays DEF UserLeft, GroupLeft, Ours
  <2>4. QED
    BY <2>2, <2>3 DEF Implements
<1>6. QED
  BY <1>1, <1>3, <1>4, <1>5, LogoutLeaves

\* cleanUp
LEMMA DisconnectStep ==
  ASSUME OnlyUnrankedQueue, Ours, NEW c \in Conn, Disconnect(c)
  PROVE  Implements
<1> DEFINE a == accountName[c]
<1>1. /\ Running /\ UNCHANGED <<requeue, fault>>
      /\ accountName' = [accountName EXCEPT ![c] = NoAccount]
      /\ UNCHANGED starts \/ starts' = ForgottenStarts(c)
      /\ \E L \in CleanUpLobbies(gameLobbies, a) :
           gameLobbies' = ForgetOwner(L, c) \/ gameLobbies' = L
  BY DEF Disconnect
<1>2. PICK L \in CleanUpLobbies(gameLobbies, a) :
        gameLobbies' = ForgetOwner(L, c) \/ gameLobbies' = L
  BY <1>1
<1>3. SameLaunches /\ Quiet
  BY <1>1, StartsForgotten, StartsStay DEF Quiet
<1>4. NamedSessions' = NamedSessions \ {c}
  BY <1>1, NamesChange
<1>5. gameLobbies \in QueueLists /\ ListOfQueue(gameLobbies) /\ ClocksFit(gameLobbies)
  BY OursAt DEF Ours, QueueAlone
<1>6. L \in SoundLists
  BY CleanUpLobbiesAsk, AskAt DEF Ours, Asking
<1>7. /\ SameGroups(L, gameLobbies')
      /\ ListOfQueue(L) => ListOfQueue(gameLobbies')
      /\ ClocksFit(L) => ClocksFit(gameLobbies')
  BY <1>2, <1>6, ForgetOwnerSame, SameGroupsAsBefore
<1>8. CASE L = gameLobbies
  <2>1. /\ ListOfQueue(gameLobbies') /\ ClocksFit(gameLobbies')
        /\ SameGroups(gameLobbies, gameLobbies')
    BY <1>5, <1>7, <1>8
  <2>2. ServiceStep
    BY <1>1, <1>3, <1>4, <1>5, <2>1, ComeOrGoStep
  <2>3. QED
    BY <1>1, <2>1, <2>2, AloneStays DEF Implements, Ours
<1>9. CASE UserLeft(gameLobbies, L, a)
  <2>1. UserLeft(gameLobbies, gameLobbies', a)
    BY <1>7, <1>9 DEF UserLeft, SameGroups, GroupEnds
  <2>2. a \in Account /\ c \in NamedSessions
    BY <1>9, UsersHaveNames DEF UserLeft
  <2>3. ServiceStep
    BY <1>1, <1>3, <1>4, <1>5, <2>1, <2>2, LeaveStep
  <2>4. QueueAlone'
    BY <1>1, <2>1, AloneStays DEF UserLeft, Ours
  <2>5. QED
    BY <2>3, <2>4 DEF Implements
<1>10. QED
  BY <1>5, <1>8, <1>9, CleanUpLeaves

\* The process uses what was destroyed, or aborts.
LEMMA StopStep ==
  ASSUME Running, NEW why \in {"dangling", "abort"}, ProcessStops(why)
  PROVE  Implements
BY LostStep DEF Running, Implements

\* Requests about accounts and coroutines of logins.
LEMMA LoginStep ==
  ASSUME OnlyUnrankedQueue, Ours, AccountLoginNext
  PROVE  Implements
<1>1. ASSUME NEW c \in Conn, NEW kind, NEW a, SpawnPasswordJob(c, kind, a),
             UNCHANGED <<starts, requeue, fault>>
      PROVE  Implements
  BY <1>1, SessionStep, LogoutStep, StartsStay DEF SpawnPasswordJob, In
<1>2. ASSUME NEW c \in Conn, LogoutAccount(c) PROVE Implements
  BY <1>2, LogoutStep, StartsStay DEF LogoutAccount, In
<1>3. ASSUME NEW c \in Conn,
             \/ Connect(c) \/ CancelRequest(c) \/ RelogTo(c)
             \/ \E g \in Guest : LoginAsGuest(c, g)
             \/ \E a \in SteamAccount : LoginAccountSteam(c, a)
      PROVE  Implements
  <2>1. /\ Running /\ UNCHANGED <<gameLobbies, starts, requeue, fault>>
        /\ \/ UNCHANGED accountName
           \/ \E a : accountName' = [accountName EXCEPT ![c] = a]
    BY <1>3 DEF Connect, CancelRequest, RelogTo, LoginAsGuest, LoginAccountSteam, In
  <2>2. QED
    BY <2>1, SessionStep, StartsStay
<1>4. ASSUME NEW c \in Conn, NEW a \in Registered, CreateAccount(c, a) \/ LoginAccount(c, a)
      PROVE  Implements
  BY <1>1, <1>4 DEF CreateAccount, LoginAccount
<1>5. ASSUME NEW j \in JobId, PasswordHashed(j) \/ PasswordChecked(j) \/ StaleResult(j)
                              \/ SteamLoginSuccess(j) \/ SteamLoginError(j)
      PROVE  Implements
  <2>1. /\ Running /\ UNCHANGED <<gameLobbies, starts, requeue, fault>>
        /\ jobs[j].conn \in Conn
        /\ \/ UNCHANGED accountName
           \/ \E a : accountName' = [accountName EXCEPT ![jobs[j].conn] = a]
    BY <1>5 DEF PasswordHashed, PasswordChecked, StaleResult, SteamLoginSuccess,
       SteamLoginError, Resumes, LogIn
  <2>2. QED
    BY <2>1, SessionStep, StartsStay
<1>6. ASSUME NEW j \in JobId,
             SteamRequestFails(j) \/ \E ok \in BOOLEAN : PasswordJobDone(j, ok)
      PROVE  Implements
  <2>1. Running /\ UNCHANGED <<accountName, gameLobbies, starts, requeue, fault>>
    BY <1>6 DEF SteamRequestFails, PasswordJobDone, sessionVars
  <2>2. SameLaunches /\ Quiet /\ NamedSessions' = NamedSessions
    BY <2>1, StartsStay DEF Quiet, NamedSessions
  <2>3. /\ ListOfQueue(gameLobbies) /\ ListOfQueue(gameLobbies') /\ ClocksFit(gameLobbies')
        /\ SameGroups(gameLobbies, gameLobbies')
    BY <2>1, SameGroupsAsBefore DEF Ours, QueueAlone
  <2>4. QED
    BY <2>1, <2>2, <2>3, SilentStep, AloneStays DEF Implements, Ours
<1>7. ASSUME NEW j \in JobId, ResumesAfterDisconnect(j) PROVE Implements
  BY <1>7, StopStep DEF ResumesAfterDisconnect, UsesDestroyedObject
<1>8. QED
  BY <1>2, <1>3, <1>4, <1>5, <1>6, <1>7, DisconnectStep DEF AccountLoginNext
----------------------------------------------------------------------------
(* The steps of the queue *)

\* joinMatchMakingQueue
LEMMA JoinStep ==
  ASSUME OnlyUnrankedQueue, Ours, NEW c \in Conn, NEW type \in Offered,
         JoinMatchMakingQueue(c, type)
  PROVE  Implements
<1>1. Running /\ type = Unranked /\ accountName[c] \in Account
  BY OursAt DEF JoinMatchMakingQueue, In, OnlyUnrankedQueue, SessionsTyped
<1>2. CASE ProcessStops("abort")
  BY <1>1, <1>2, StopStep
<1>3. CASE EnterQueue(c, type) /\ UNCHANGED <<sessionVars, starts, requeue, fault>>
  <2> DEFINE a == accountName[c]
  <2>1. PICK g \in LobbyId : GroupEntered(gameLobbies, gameLobbies', g, a)
    BY <1>1, <1>3, EnterQueueEnters
  <2>2. \A id \in LobbyId : a \notin Members(gameLobbies.lobby[id])
    BY <1>1, <1>3, EnterQueueEnters
  <2>3. NamedSessions' = NamedSessions /\ SameLaunches
    BY <1>3, StartsStay DEF NamedSessions, sessionVars
  <2>4. a \notin Service!Grouped /\ g \in LobbyId \ GroupsAsking /\ Service!Enter(a, g)
    BY <1>3, <2>1, <2>2, <2>3, EnterStep
  <2>5. Service!Join(a, g)
    BY <1>3, <2>4 DEF Service!Join
  <2>6. ServiceStep
    BY <1>1, <2>4, <2>5, NobodyReturns DEF ServiceStep, Service!Next
  <2>7. QueueAlone'
    BY <1>3, <2>1, AloneStays DEF GroupEntered, Ours
  <2>8. QED
    BY <2>6, <2>7 DEF Implements
<1>4. QED
  BY <1>2, <1>3 DEF JoinMatchMakingQueue

\* leaveMatchMakingQueue
LEMMA LeaveQueueStep ==
  ASSUME OnlyUnrankedQueue, Ours, NEW c \in Conn, LeaveQuickGameQueue(c)
  PROVE  Implements
<1> DEFINE a == accountName[c]
<1>1. /\ Running /\ gameLobbies' \in LeaveQueue(gameLobbies, a)
      /\ UNCHANGED <<sessionVars, starts, requeue, fault>>
  BY DEF LeaveQuickGameQueue, In
<1>2. Quiet /\ NamedSessions' = NamedSessions
  BY <1>1, StartsStay DEF Quiet, NamedSessions, sessionVars
<1>3. gameLobbies \in QueueLists /\ ListOfQueue(gameLobbies) /\ ClocksFit(gameLobbies)
  BY OursAt DEF Ours, QueueAlone
<1>4. CASE gameLobbies' = gameLobbies
  <2>1. /\ ListOfQueue(gameLobbies') /\ ClocksFit(gameLobbies')
        /\ SameGroups(gameLobbies, gameLobbies')
    BY <1>3, <1>4, SameGroupsAsBefore
  <2>2. QED
    BY <1>1, <1>2, <1>3, <2>1, SilentStep, AloneStays DEF Implements, Ours
<1>5. CASE UserLeft(gameLobbies, gameLobbies', a)
  <2>1. a \in Account
    BY <1>5, UsersHaveNames DEF UserLeft
  <2>2. ServiceStep
    BY <1>1, <1>2, <1>3, <1>5, <2>1, LeaveStep
  <2>3. QueueAlone'
    BY <1>1, <1>5, AloneStays DEF UserLeft, Ours
  <2>4. QED
    BY <2>2, <2>3 DEF Implements
<1>6. QED
  BY <1>1, <1>3, <1>4, <1>5, LeaveQueueLeaves

\* Without the first.
LEMMA OthersAreDifferent ==
  ASSUME NEW s \in Seq(Account), s # <<>>, Distinct(s)
  PROVE  /\ Head(s) \in Account /\ Tail(s) \in Seq(Account)
         /\ Head(s) \in ToSet(s)
         /\ Distinct(Tail(s)) /\ ToSet(Tail(s)) = ToSet(s) \ {Head(s)}
<1>1. /\ Head(s) = s[1] /\ 1 \in DOMAIN s /\ Tail(s) \in Seq(Account)
      /\ Head(s) \in Account
      /\ \A k \in DOMAIN Tail(s) : k + 1 \in DOMAIN s /\ Tail(s)[k] = s[k + 1] /\ k + 1 # 1
      /\ \A k \in DOMAIN s : k # 1 => k - 1 \in DOMAIN Tail(s) /\ Tail(s)[k - 1] = s[k]
  OBVIOUS
<1>2. Distinct(Tail(s))
  <2>1. \A j, k \in DOMAIN Tail(s) : j + 1 = k + 1 => j = k
    OBVIOUS
  <2>2. QED
    BY <1>1, <2>1 DEF Distinct
<1>3. \A k \in DOMAIN s : k # 1 => s[k] # Head(s)
  BY <1>1 DEF Distinct
<1>4. ToSet(Tail(s)) \subseteq ToSet(s) \ {Head(s)}
  BY <1>1, <1>3 DEF ToSet
<1>5. ToSet(s) \ {Head(s)} \subseteq ToSet(Tail(s))
  BY <1>1 DEF ToSet
<1>6. QED
  BY <1>1, <1>2, <1>4, <1>5 DEF ToSet

\* A user is put back, or is not.
LEMMA RequeueStep ==
  ASSUME OnlyUnrankedQueue, Ours, Requeue
  PROVE  Implements
<1> DEFINE a == Head(requeue.users)
<1>1. /\ fault = "none" /\ requeue.users # <<>> /\ requeue.users \in Seq(Account)
      /\ requeue.type = Unranked /\ Distinct(requeue.users)
      /\ requeue \in [users : Seq(Account), type : QueueType]
  BY IInvParts DEF Requeue, Ours, QueueAlone, RequeueFits, StartsTyped
<1>2. CASE ProcessStops("abort")
  BY <1>1, <1>2, LostStep DEF Implements
<1>3. CASE /\ \/ \E c \in SessionsOf(a) : EnterQueue(c, Unranked)
              \/ UNCHANGED gameLobbies
           /\ requeue' = IF Tail(requeue.users) = <<>> THEN NobodyToRequeue
                         ELSE [requeue EXCEPT !.users = Tail(requeue.users)]
           /\ UNCHANGED <<sessionVars, starts, fault>>
  <2>1. /\ a \in Account /\ a \in ToSet(requeue.users)
        /\ Distinct(Tail(requeue.users))
        /\ ToSet(Tail(requeue.users)) = ToSet(requeue.users) \ {a}
    BY <1>1, OthersAreDifferent
  <2>2. requeue'.users = Tail(requeue.users) /\ requeue'.type = Unranked
    BY <1>1, <1>3 DEF NobodyToRequeue
  <2>3. RequeueFits' /\ ToSet(requeue'.users) = ToSet(requeue.users) \ {a}
    BY <2>1, <2>2 DEF RequeueFits
  <2>4. NamedSessions' = NamedSessions /\ SameLaunches
    BY <1>3, StartsStay DEF NamedSessions, sessionVars
  <2>5. CASE UNCHANGED gameLobbies
    <3>1. ListOfQueue(gameLobbies') /\ ClocksFit(gameLobbies') /\ ListOfQueue(gameLobbies)
      BY <2>5 DEF Ours, QueueAlone
    <3>2. Service!PutBack(a)
      BY <1>3, <2>3, <2>4, <2>5, <3>1, GroupsAreLobbies, GroupsAreLobbiesNext
         DEF Service!PutBack, SameLaunches
    <3>3. ServiceStep
      BY <1>1, <2>1, <3>2 DEF ServiceStep, Service!Next
    <3>4. QED
      BY <2>3, <3>1, <3>3 DEF Implements, QueueAlone
  <2>6. ASSUME NEW c \in SessionsOf(a), EnterQueue(c, Unranked) PROVE Implements
    <3>1. c \in Conn /\ accountName[c] = a
      BY DEF SessionsOf
    <3>2. PICK g \in LobbyId : GroupEntered(gameLobbies, gameLobbies', g, a)
      BY <2>1, <2>6, <3>1, EnterQueueEnters
    <3>3. \A id \in LobbyId : a \notin Members(gameLobbies.lobby[id])
      BY <2>1, <2>6, <3>1, EnterQueueEnters
    <3>4. a \notin Service!Grouped /\ g \in LobbyId \ GroupsAsking /\ Service!Enter(a, g)
      BY <1>3, <2>4, <3>2, <3>3, EnterStep
    <3>5. Service!PutBack(a)
      BY <2>3, <3>4 DEF Service!PutBack
    <3>6. ServiceStep
      BY <1>1, <2>1, <3>5 DEF ServiceStep, Service!Next
    <3>7. QED
      BY <2>3, <3>2, <3>6 DEF Implements, QueueAlone, GroupEntered
  <2>7. QED
    BY <1>3, <2>5, <2>6
<1>4. QED
  BY <1>1, <1>2, <1>3 DEF Requeue

LEMMA QueueRequestStep ==
  ASSUME OnlyUnrankedQueue, Ours, MatchmakingQueueNext
  PROVE  Implements
<1>1. ASSUME NEW c \in Conn, NEW type \in Offered, JoinMatchMakingQueue(c, type)
      PROVE  Implements
  BY <1>1, JoinStep
<1>2. ASSUME NEW c \in Conn, LeaveQuickGameQueue(c) PROVE Implements
  BY <1>2, LeaveQueueStep
<1>3. CASE Requeue
  BY <1>3, RequeueStep
<1>4. QED
  BY <1>1, <1>2, <1>3 DEF MatchmakingQueueNext

\* The lobbies that users run: there are none.
LEMMA LobbyOfUsersStep ==
  ASSUME OnlyUnrankedQueue, Ours
  PROVE  ~CustomLobbyNext
<1>1. LobbyName = {}
  BY DEF OnlyUnrankedQueue
<1>2. \A id \in Live(gameLobbies) : gameLobbies.lobby[id].lobbyAdminType # Custom
  BY OursAt, QueueAt DEF Custom, Unranked
<1>3. \A a : FirstLobbyOf(gameLobbies, a) \subseteq Live(gameLobbies)
  BY FoundLive
<1>4. QED
  BY <1>1, <1>2, <1>3 DEF CustomLobbyNext, SetMaxUserSizeInCreateGameLobby, LeaveGameLobby,
     IsGameLobbyAdmin
----------------------------------------------------------------------------
(* The steps of an invitation *)

\* An invitation that is found.
LEMMA FoundInvitation ==
  ASSUME OnlyUnrankedQueue, Ours, NEW a, NEW id \in FirstInvitationOf(gameLobbies, a)
  PROVE  LET l == gameLobbies.lobby[id]
         IN  /\ id \in Live(gameLobbies) /\ id \in LobbyId
             /\ l \in AnyLobby /\ TidyLobby(l) /\ AskFits(l) /\ l.waiting /\ a \in Members(l)
             /\ l.lobbyAdminType = Unranked /\ l.lobbyAdminType \in QueueType
             /\ l.maxUserCount > 1 /\ Ready(l) \subseteq Members(l)
             /\ IsGroup(id) /\ id \in GroupsAsking
             /\ GroupUsers[id] = Members(l) /\ GroupAccepted[id] = Ready(l)
<1> DEFINE l == gameLobbies.lobby[id]
<1>1. id \in Live(gameLobbies) /\ id \in LobbyId /\ a \in Members(l) /\ l.waiting
  BY FoundLive, FoundLobbies, OursAt
<1>2. gameLobbies \in QueueLists
  BY OursAt
<1>3. /\ l \in AnyLobby /\ TidyLobby(l) /\ AskFits(l) /\ l.lobbyAdminType = Unranked
      /\ l.maxUserCount > 1 /\ ReadyAreMembers(l)
  BY <1>1, <1>2, QueueAt
<1>4. Ready(l) \subseteq Members(l) /\ l.lobbyAdminType \in QueueType
  BY <1>3 DEF ReadyAreMembers, QueueType
<1>5. IsGroup(id)
  BY <1>1, <1>3 DEF IsGroup, Lobby
<1>6. /\ GroupUsers = UsersIn(gameLobbies) /\ GroupsAsking = AskingIn(gameLobbies)
      /\ GroupAccepted = AcceptedIn(gameLobbies)
  BY OursAt
<1>7. id \in GroupsAsking /\ GroupUsers[id] = Members(l) /\ GroupAccepted[id] = Ready(l)
  BY <1>1, <1>6 DEF UsersIn, AskingIn, AcceptedIn
<1>8. QED
  BY <1>1, <1>3, <1>4, <1>5, <1>7

\* An answer in a lobby.
LEMMA AnsweredLobby ==
  ASSUME NEW l \in AnyLobby, NEW a \in Members(l)
  PROVE  LET m == AcceptedBy(l, a)
         IN  /\ Members(m) = Members(l) /\ Ready(m) = Ready(l) \cup {a}
             /\ m.lobbyAdminType = l.lobbyAdminType
             /\ m.waiting = l.waiting /\ m.timer = l.timer
<1> DEFINE m == AcceptedBy(l, a)
<1>1. /\ m.lobbyAdminType = l.lobbyAdminType /\ m.waiting = l.waiting /\ m.timer = l.timer
      /\ m.accountNames = l.accountNames /\ m.readyUsers = Append(l.readyUsers, a)
  BY DEF AcceptedBy, AnyLobby, Lobbies
<1>2. l.accountNames \in Seq(Account) /\ l.readyUsers \in Seq(Account)
  BY DEF AnyLobby, Lobbies
<1>3. a \in Account
  BY <1>2 DEF Members
<1> HIDE DEF m
<1>4. Ready(m) = Ready(l) \cup {a}
  <2> DEFINE r == l.readyUsers
  <2>1. r \in Seq(Account)
    BY <1>2
  <2> HIDE DEF r
  <2>2. /\ \A k \in DOMAIN r : k \in DOMAIN Append(r, a) /\ Append(r, a)[k] = r[k]
        /\ \E k \in DOMAIN Append(r, a) : Append(r, a)[k] = a
        /\ \A k \in DOMAIN Append(r, a) :
             Append(r, a)[k] = a \/ \E j \in DOMAIN r : Append(r, a)[k] = r[j]
    BY <1>3, <2>1, AppendElements
  <2>3. m.readyUsers = Append(r, a)
    BY <1>1 DEF r
  <2>4. Ready(l) = {r[k] : k \in DOMAIN r}
    BY DEF Ready, r
  <2> DEFINE w == Append(r, a)
  <2>5. Ready(m) = {w[k] : k \in DOMAIN w}
    BY <2>3 DEF Ready
  <2>6. /\ \A k \in DOMAIN r : k \in DOMAIN w /\ w[k] = r[k]
        /\ \E k \in DOMAIN w : w[k] = a
        /\ \A k \in DOMAIN w : w[k] = a \/ \E j \in DOMAIN r : w[k] = r[j]
    BY <2>2
  <2> HIDE DEF w
  <2>7. \A x : x \in Ready(m) => x \in Ready(l) \cup {a}
    BY <2>4, <2>5, <2>6
  <2>8. \A x : x \in Ready(l) \cup {a} => x \in Ready(m)
    BY <2>4, <2>5, <2>6
  <2>9. QED
    BY <2>7, <2>8
<1>5. QED
  BY <1>1, <1>4 DEF Members, m

\* A game starts.
LEMMA StartLaunches ==
  ASSUME Ours, NEW s \in FreeStart, NEW id, NEW c, SpawnStartGame(s, id, c, TRUE)
  PROVE  /\ s \in StartId \ Service!InUse(GroupLaunches)
         /\ GroupLaunches' = GroupLaunches \cup {<<s, id>>}
<1>1. starts \in [StartId -> Starts] /\ s \in StartId /\ starts[s].phase = "idle"
  BY IInvParts DEF Ours, StartsTyped, FreeStart, Least
<1>2. /\ starts'[s].phase = "connecting" /\ starts'[s].lobby = id
      /\ \A r \in StartId : r # s => starts'[r] = starts[r]
  BY <1>1 DEF SpawnStartGame
<1>3. s \notin Service!InUse(GroupLaunches)
  BY <1>1 DEF Service!InUse, GroupLaunches
<1>4. GroupLaunches' = GroupLaunches \cup {<<s, id>>}
  BY <1>1, <1>2 DEF GroupLaunches
<1>5. QED
  BY <1>1, <1>3, <1>4

\* wantsToJoinGame, accepted
LEMMA AcceptStep ==
  ASSUME OnlyUnrankedQueue, Ours, NEW c \in Conn, AcceptGame(c)
  PROVE  Implements
<1> DEFINE a == accountName[c]
           l(id) == gameLobbies.lobby[id]
<1>1. PICK id \in FirstInvitationOf(gameLobbies, a) :
        /\ ~HasAccepted(l(id), a)
        /\ gameLobbies' = SetLobby(gameLobbies, id, AcceptedBy(l(id), a))
        /\ \/ /\ AllAccepted(AcceptedBy(l(id), a))
              /\ \E s \in FreeStart : SpawnStartGame(s, id, c, TRUE)
           \/ ~AllAccepted(AcceptedBy(l(id), a)) /\ UNCHANGED starts
  BY DEF AcceptGame
<1>2. Running /\ UNCHANGED <<sessionVars, requeue, fault>>
  BY DEF AcceptGame, In
<1> DEFINE k == l(id)
           m == AcceptedBy(k, a)
<1>3. /\ id \in Live(gameLobbies) /\ id \in LobbyId
      /\ k \in AnyLobby /\ TidyLobby(k) /\ AskFits(k) /\ k.waiting /\ a \in Members(k)
      /\ k.lobbyAdminType = Unranked /\ k.lobbyAdminType \in QueueType
      /\ k.maxUserCount > 1 /\ Ready(k) \subseteq Members(k)
      /\ id \in GroupsAsking /\ GroupUsers[id] = Members(k) /\ GroupAccepted[id] = Ready(k)
  BY FoundInvitation
<1>4. /\ Members(m) = Members(k) /\ Ready(m) = Ready(k) \cup {a}
      /\ m.lobbyAdminType = k.lobbyAdminType /\ m.waiting = k.waiting /\ m.timer = k.timer
  BY <1>3, AnsweredLobby
<1>5. AllAccepted(m) <=> Ready(k) \cup {a} = Members(k)
  <2>1. AllAccepted(m) => EveryoneReady(m)
    BY <1>1, <1>3, LastAcceptance
  <2>2. EveryoneReady(m) => AllAccepted(m)
    BY <1>1, <1>3, EveryoneIsCounted
  <2>3. EveryoneReady(m) <=> Ready(k) \cup {a} = Members(k)
    BY <1>3, <1>4 DEF EveryoneReady
  <2>4. QED
    BY <2>1, <2>2, <2>3
<1> HIDE DEF m
<1>6. /\ gameLobbies'.lobby = [gameLobbies.lobby EXCEPT ![id] = m]
      /\ gameLobbies'.order = gameLobbies.order /\ gameLobbies'.timer = gameLobbies.timer
  BY <1>1 DEF SetLobby, m
<1>7. gameLobbies \in SoundLists /\ ListOfQueue(gameLobbies) /\ ClocksFit(gameLobbies)
  BY OursAt DEF Ours, QueueAlone
<1> HIDE DEF k, l
<1>8. /\ UsersIn(gameLobbies') = UsersIn(gameLobbies)
      /\ AskingIn(gameLobbies') = AskingIn(gameLobbies)
      /\ AcceptedIn(gameLobbies') = [AcceptedIn(gameLobbies) EXCEPT ![id] = Ready(k) \cup {a}]
      /\ TimeoutsIn(gameLobbies') = TimeoutsIn(gameLobbies)
  <2>1. /\ UsersIn(gameLobbies') = [UsersIn(gameLobbies) EXCEPT ![id] = Members(m)]
        /\ AcceptedIn(gameLobbies') = [AcceptedIn(gameLobbies) EXCEPT ![id] = Ready(m)]
        /\ m.waiting => AskingIn(gameLobbies') = AskingIn(gameLobbies) \cup {id}
    BY <1>3, <1>6, <1>7, OneGroupChanges
  <2>2. UsersIn(gameLobbies)[id] = Members(k) /\ id \in AskingIn(gameLobbies)
    BY <1>3 DEF UsersIn, AskingIn, k, l
  <2>3. [UsersIn(gameLobbies) EXCEPT ![id] = Members(k)] = UsersIn(gameLobbies)
    BY <2>2 DEF UsersIn
  <2>4. TimeoutsIn(gameLobbies') = TimeoutsIn(gameLobbies)
    BY <1>6 DEF TimeoutsIn
  <2>5. QED
    BY <1>3, <1>4, <2>1, <2>2, <2>3, <2>4
<1>9. /\ gameLobbies'.lobby[id] = m
      /\ \A o \in LobbyId \ {id} : gameLobbies'.lobby[o] = gameLobbies.lobby[o]
      /\ Live(gameLobbies') = Live(gameLobbies)
  BY <1>3, <1>6, <1>7, OneGroupChanges DEF Live
<1>10. ListOfQueue(gameLobbies')
  BY <1>3, <1>4, <1>7, <1>9 DEF ListOfQueue
<1>11. ClocksFit(gameLobbies')
  <2>1. \A o \in LobbyId : /\ gameLobbies'.lobby[o].waiting = gameLobbies.lobby[o].waiting
                           /\ gameLobbies'.lobby[o].timer = gameLobbies.lobby[o].timer
    BY <1>4, <1>9 DEF k, l
  <2>2. QED
    BY <1>6, <1>7, <1>9, <2>1 DEF ClocksFit
<1>12. /\ GroupUsers' = GroupUsers /\ GroupsAsking' = GroupsAsking
       /\ GroupAccepted' = [GroupAccepted EXCEPT ![id] = @ \cup {a}]
       /\ GroupTimeouts' = GroupTimeouts
  <2>1. AcceptedIn(gameLobbies)[id] = Ready(k)
    BY <1>3 DEF AcceptedIn, k, l
  <2>2. QED
    BY <1>7, <1>8, <1>10, <2>1, GroupsAreLobbies, GroupsAreLobbiesNext
<1>13. NamedSessions' = NamedSessions
  BY <1>2 DEF NamedSessions, sessionVars
<1>14. IF GroupAccepted[id] \cup {a} = GroupUsers[id]
       THEN \E s \in StartId \ Service!InUse(GroupLaunches) :
              GroupLaunches' = GroupLaunches \cup {<<s, id>>}
       ELSE GroupLaunches' = GroupLaunches
  <2>1. CASE AllAccepted(m)
    BY <1>1, <1>3, <1>5, <2>1, StartLaunches DEF m, k
  <2>2. CASE ~AllAccepted(m)
    BY <1>1, <1>3, <1>5, <2>2, StartsStay DEF m, k, SameLaunches
  <2>3. QED
    BY <2>1, <2>2
<1>15. Service!Accept(a, id)
  BY <1>2, <1>12, <1>13, <1>14 DEF Service!Accept
<1>16. a \in GroupUsers[id] \ GroupAccepted[id]
  BY <1>1, <1>3 DEF HasAccepted, k
<1>17. ServiceStep
  BY <1>2, <1>3, <1>15, <1>16, NobodyReturns DEF ServiceStep, Service!Next
<1>18. QED
  BY <1>2, <1>7, <1>10, <1>11, <1>17, AloneStays DEF Implements, Ours
\* The users of a sequence.
LEMMA SameSequence ==
  ASSUME NEW l
  PROVE  ToSet(l.accountNames) = Members(l)
BY DEF ToSet, Members

\* The users who are put back.
LEMMA UsersReturn ==
  ASSUME NEW users, Distinct(users), NEW type, type = Unranked,
         requeue' = IF users = <<>> THEN NobodyToRequeue
                    ELSE [users |-> users, type |-> type]
  PROVE  RequeueFits' /\ ToSet(requeue'.users) = ToSet(users)
<1>1. requeue'.users = users /\ requeue'.type = Unranked
  BY DEF NobodyToRequeue
<1>2. QED
  BY <1>1 DEF RequeueFits

\* wantsToJoinGame, declined
LEMMA DeclineStep ==
  ASSUME OnlyUnrankedQueue, Ours, NEW c \in Conn, DeclineGame(c)
  PROVE  Implements
<1> DEFINE a == accountName[c]
           l(id) == gameLobbies.lobby[id]
           m(id) == RemoveUser(l(id), a)
<1>1. PICK id \in FirstInvitationOf(gameLobbies, a) :
        \/ DissolveQueueLobby(gameLobbies, id, m(id).accountNames)
        \/ l(id).lobbyAdminType = Custom
  BY DEF DeclineGame
<1>2. Running /\ UNCHANGED <<sessionVars, starts, fault>>
  BY DEF DeclineGame, In
<1>3. /\ id \in LobbyId /\ l(id) \in AnyLobby /\ TidyLobby(l(id)) /\ a \in Members(l(id))
      /\ l(id).lobbyAdminType = Unranked
      /\ id \in GroupsAsking /\ GroupUsers[id] = Members(l(id))
  BY FoundInvitation
<1>4. l(id).lobbyAdminType # Custom
  BY <1>3 DEF Custom, Unranked
<1>5. /\ gameLobbies' = Erase(gameLobbies, id)
      /\ requeue' = IF m(id).accountNames = <<>> THEN NobodyToRequeue
                    ELSE [users |-> m(id).accountNames, type |-> l(id).lobbyAdminType]
  BY <1>1, <1>4 DEF DissolveQueueLobby
<1>6. Members(m(id)) = Members(l(id)) \ {a} /\ Distinct(m(id).accountNames)
  BY <1>3, RemovedUser
<1> HIDE DEF m
<1>7. RequeueFits' /\ ToSet(requeue'.users) = ToSet(m(id).accountNames)
  BY <1>3, <1>5, <1>6, UsersReturn
<1>8. ToSet(requeue'.users) = GroupUsers[id] \ {a}
  BY <1>3, <1>6, <1>7, SameSequence
<1>9. gameLobbies \in QueueLists /\ ListOfQueue(gameLobbies)
  BY OursAt DEF Ours, QueueAlone
<1>10. /\ ListOfQueue(gameLobbies') /\ ClocksFit(gameLobbies')
       /\ GroupEnds(gameLobbies, gameLobbies', id, {})
       /\ TimeoutsIn(gameLobbies') = TimeoutsIn(gameLobbies)
  BY <1>3, <1>5, <1>9, EraseEnds
<1>11. NamedSessions' = NamedSessions /\ GroupLaunches' = GroupLaunches
  BY <1>2, StartsStay DEF NamedSessions, sessionVars, SameLaunches
<1>12. Service!Decline(a, id)
  BY <1>2, <1>8, <1>9, <1>10, <1>11, GroupsAreLobbies, GroupsAreLobbiesNext
     DEF Service!Decline, Service!Ends, GroupEnds
<1>13. ServiceStep
  BY <1>2, <1>3, <1>12, NobodyReturns DEF ServiceStep, Service!Next
<1>14. QED
  BY <1>7, <1>10, <1>13 DEF Implements, QueueAlone

\* The time to accept is over.
LEMMA TimeIsUpStep ==
  ASSUME OnlyUnrankedQueue, Ours, NEW t \in TimerId, TimerExpires(t)
  PROVE  Implements
<1> DEFINE g == gameLobbies.timer[t].lobby
<1>1. /\ Running /\ UNCHANGED <<sessionVars, starts, requeue, fault>>
      /\ gameLobbies.timer[t].phase = "armed"
      /\ gameLobbies' = SetTimer(gameLobbies, t,
                                 [gameLobbies.timer[t] EXCEPT !.phase = "expired"])
  BY DEF TimerExpires
<1>2. /\ gameLobbies \in SoundLists /\ ListOfQueue(gameLobbies) /\ ClocksFit(gameLobbies)
      /\ gameLobbies.timer \in [TimerId -> Timers] /\ gameLobbies \in QueueLists
  BY OursAt DEF Ours, QueueAlone, SoundLists, LobbyLists
<1>3. /\ gameLobbies'.lobby = gameLobbies.lobby /\ gameLobbies'.order = gameLobbies.order
      /\ gameLobbies'.timer = [gameLobbies.timer EXCEPT ![t] =
                                 [gameLobbies.timer[t] EXCEPT !.phase = "expired"]]
  BY <1>1 DEF SetTimer
<1>4. /\ gameLobbies'.timer[t].phase = "expired" /\ gameLobbies'.timer[t].lobby = g
      /\ \A u \in TimerId \ {t} : gameLobbies'.timer[u] = gameLobbies.timer[u]
  BY <1>2, <1>3 DEF Timers
<1>5. g \in LobbyId /\ (g \in Live(gameLobbies) => gameLobbies.lobby[g].waiting)
  BY <1>1, <1>2 DEF ClocksFit
<1>6. g \notin Live(gameLobbies) => Members(gameLobbies.lobby[g]) = {}
  BY <1>2, <1>5, QueueAt
<1>7. Live(gameLobbies') = Live(gameLobbies)
  BY <1>3 DEF Live
<1>8. ListOfQueue(gameLobbies')
  BY <1>2, <1>3, <1>7 DEF ListOfQueue
<1>9. ClocksFit(gameLobbies')
  BY <1>2, <1>3, <1>4, <1>7 DEF ClocksFit
<1>10. /\ UsersIn(gameLobbies') = UsersIn(gameLobbies)
       /\ AskingIn(gameLobbies') = AskingIn(gameLobbies)
       /\ AcceptedIn(gameLobbies') = AcceptedIn(gameLobbies)
  BY <1>3 DEF UsersIn, AskingIn, AcceptedIn
<1>11. TimeoutsIn(gameLobbies') = TimeoutsIn(gameLobbies) \cup {<<t, g>>}
  <2> HIDE DEF g
  <2>1. \A u \in TimerId \ {t} : gameLobbies'.timer[u] = gameLobbies.timer[u]
    BY <1>4
  <2>2. gameLobbies.timer[t].phase # "expired"
    BY <1>1
  <2>3. QED
    BY <1>4, <2>1, <2>2 DEF TimeoutsIn
<1>12. t \notin Service!InUse(TimeoutsIn(gameLobbies))
  BY <1>1 DEF Service!InUse, TimeoutsIn
<1>13. NamedSessions' = NamedSessions /\ GroupLaunches' = GroupLaunches
  BY <1>1, StartsStay DEF NamedSessions, sessionVars, SameLaunches
<1>14. /\ GroupUsers = UsersIn(gameLobbies) /\ GroupsAsking = AskingIn(gameLobbies)
       /\ GroupAccepted = AcceptedIn(gameLobbies) /\ GroupTimeouts = TimeoutsIn(gameLobbies)
       /\ GroupUsers' = UsersIn(gameLobbies') /\ GroupsAsking' = AskingIn(gameLobbies')
       /\ GroupAccepted' = AcceptedIn(gameLobbies')
       /\ GroupTimeouts' = TimeoutsIn(gameLobbies')
  BY <1>2, <1>8, GroupsAreLobbies, GroupsAreLobbiesNext
<1> HIDE DEF g
<1>15. g \in GroupsAsking \/ GroupUsers[g] = {}
  BY <1>5, <1>6, <1>14 DEF AskingIn, UsersIn
<1>16. t \in TimerId \ Service!InUse(GroupTimeouts)
       /\ GroupTimeouts' = GroupTimeouts \cup {<<t, g>>}
  BY <1>11, <1>12, <1>14
<1>17. Service!TimeIsUp(g)
  BY <1>1, <1>10, <1>13, <1>14, <1>15, <1>16 DEF Service!TimeIsUp
<1>18. ServiceStep
  BY <1>1, <1>5, <1>17, NobodyReturns DEF ServiceStep, Service!Next
<1>19. QED
  BY <1>1, <1>8, <1>9, <1>18, AloneStays DEF Implements, Ours
\* The users who are ready in a lobby of the queue, in the order of the lobby: all of
\* them, and each once.
LEMMA ReadyReturn ==
  ASSUME NEW l \in AnyLobby, TidyLobby(l), Ready(l) \subseteq Members(l),
         NEW users \in ReadyInOrder(l)
  PROVE  ToSet(users) = Ready(l) /\ Distinct(users)
<1>1. /\ ToSet(users) = Ready(l) \cap Members(l)
      /\ \A i, j \in DOMAIN users : i < j =>
           \E m, n \in DOMAIN l.accountNames :
             m < n /\ l.accountNames[m] = users[i] /\ l.accountNames[n] = users[j]
      /\ users \in SeqOf(Ready(l), Len(l.accountNames))
  BY DEF ReadyInOrder
<1>2. \A i \in DOMAIN users : i \in Int
  BY <1>1 DEF SeqOf
<1>3. \A m \in DOMAIN l.accountNames : m \in Int
  BY DEF AnyLobby, Lobbies
<1>4. \A i, j \in DOMAIN users : i < j => users[i] # users[j]
  <2>1. ASSUME NEW i \in DOMAIN users, NEW j \in DOMAIN users, i < j
        PROVE  users[i] # users[j]
    <3>1. PICK m \in DOMAIN l.accountNames, n \in DOMAIN l.accountNames :
            m < n /\ l.accountNames[m] = users[i] /\ l.accountNames[n] = users[j]
      BY <1>1, <2>1
    <3>2. m # n
      BY <1>3, <3>1
    <3>3. QED
      BY <3>1, <3>2 DEF TidyLobby, Distinct
  <2>2. QED
    BY <2>1
<1>5. Distinct(users)
  <2>1. ASSUME NEW i \in DOMAIN users, NEW j \in DOMAIN users, users[i] = users[j]
        PROVE  i = j
    <3>1. i \in Int /\ j \in Int /\ ~(i < j) /\ ~(j < i)
      BY <1>2, <1>4, <2>1, SMTT(30)
    <3>2. QED
      BY <3>1
  <2>2. QED
    BY <2>1 DEF Distinct
<1>6. QED
  BY <1>1, <1>5

\* The timer t has fired: its lobby is erased, and so is no other timer than t.
LEMMA FiredEnds ==
  ASSUME NEW L \in QueueLists, NEW t \in TimerId, L.timer[t].phase = "expired",
         NEW id \in LobbyId, id = L.timer[t].lobby,
         NEW R, R = SetLobby(SetTimer(L, t, IdleTimer), id, InvitationExpired(L.lobby[id]))
  PROVE  LET M == Erase(R, id)
         IN  /\ ListOfQueue(M) /\ ClocksFit(M)
             /\ GroupEnds(L, M, id, {}) /\ TimeoutsIn(M) = TimeoutsIn(L) \ {<<t, id>>}
<1> DEFINE M == Erase(R, id)
           E == Erase(L, id)
<1>1. /\ L \in SoundLists /\ L \in TidyLists /\ L.lobby[id] \in AnyLobby
      /\ ListOfQueue(L) /\ ClocksFit(L)
  BY QueueAt, AskAt DEF QueueLists
<1>2. L.lobby \in [LobbyId -> AnyLobby] /\ L.timer \in [TimerId -> Timers]
  BY <1>1 DEF SoundLists, LobbyLists, AnyLobby
<1>3. /\ R.order = L.order /\ R.timer = [L.timer EXCEPT ![t] = IdleTimer]
      /\ R.lobby = [L.lobby EXCEPT ![id] = InvitationExpired(L.lobby[id])]
  BY DEF SetLobby, SetTimer
<1>4. R.lobby[id] = InvitationExpired(L.lobby[id])
  BY <1>2, <1>3
<1>5. ~R.lobby[id].waiting
  BY <1>1, <1>4, InvitationExpiredType, SMTT(30)
<1>6. M.lobby = [L.lobby EXCEPT ![id] = EmptyLobby]
  <2>1. M.lobby = [R.lobby EXCEPT ![id] = EmptyLobby]
    BY SMTT(30) DEF Erase
  <2>2. QED
    BY <1>2, <1>3, <2>1
<1>7. \A u \in TimerId : M.timer[u] = R.timer[u]
  BY <1>5, SMTT(30) DEF Erase, CancelledTimers
<1>8. M.timer[t].phase = "idle" /\ \A u \in TimerId \ {t} : M.timer[u] = L.timer[u]
  <2> HIDE DEF M
  <2>1. R.timer[t] = IdleTimer /\ \A u \in TimerId \ {t} : R.timer[u] = L.timer[u]
    BY <1>2, <1>3
  <2>2. IdleTimer.phase = "idle"
    BY SMTT(30) DEF IdleTimer
  <2>3. QED
    BY <1>7, <2>1, <2>2
<1>9. Live(M) = Live(L) \ {id}
  <2>1. M.order = E.order
    BY <1>3 DEF Erase
  <2>2. Live(E) = Live(L) \ {id}
    BY <1>1, EraseLive
  <2>3. QED
    BY <2>1, <2>2 DEF Live
<1> HIDE DEF M, E
<1>10. GroupEnds(L, M, id, {})
  <2>1. ~EmptyLobby.waiting /\ EmptyLobby.readyUsers = <<>>
    BY DEF EmptyLobby
  <2>2. Ready(EmptyLobby) = {} /\ Members(EmptyLobby) = {}
    BY <2>1, EmptyLobbyTidy DEF Ready
  <2>3. QED
    BY <1>1, <1>6, <2>1, <2>2, OneGroupChanges DEF GroupEnds
<1>11. TimeoutsIn(M) = TimeoutsIn(L) \ {<<t, id>>}
  <2> DEFINE fired(K) == {u \in TimerId : K.timer[u].phase = "expired"}
  <2>1. fired(M) = fired(L) \ {t}
    BY <1>8
  <2>2. \A u \in fired(M) : M.timer[u].lobby = L.timer[u].lobby
    BY <1>8, <2>1
  <2>3. t \in fired(L)
    OBVIOUS
  <2>4. TimeoutsIn(L) = {<<u, L.timer[u].lobby>> : u \in fired(L)}
        /\ TimeoutsIn(M) = {<<u, M.timer[u].lobby>> : u \in fired(M)}
    BY DEF TimeoutsIn
  <2> HIDE DEF fired
  <2>5. ASSUME NEW x \in TimeoutsIn(M) PROVE x \in TimeoutsIn(L) \ {<<t, id>>}
    <3>1. PICK u \in fired(M) : x = <<u, M.timer[u].lobby>>
      BY <2>4
    <3>2. x = <<u, L.timer[u].lobby>> /\ u \in fired(L) /\ u # t
      BY <2>1, <2>2, <3>1
    <3>3. QED
      BY <2>4, <3>2
  <2>6. ASSUME NEW x \in TimeoutsIn(L), x # <<t, id>> PROVE x \in TimeoutsIn(M)
    <3>1. PICK u \in fired(L) : x = <<u, L.timer[u].lobby>>
      BY <2>4
    <3>2. u # t
      BY <2>6, <3>1
    <3>3. u \in fired(M) /\ x = <<u, M.timer[u].lobby>>
      BY <2>1, <2>2, <3>1, <3>2
    <3>4. QED
      BY <2>4, <3>3
  <2>7. QED
    BY <2>5, <2>6
<1>12. M.lobby[id] = EmptyLobby /\ \A o \in LobbyId \ {id} : M.lobby[o] = L.lobby[o]
  BY <1>2, <1>6
<1>13. ListOfQueue(M)
  BY <1>1, <1>9, <1>12 DEF ListOfQueue
<1>14. ClocksFit(M)
  BY <1>1, <1>8, <1>9, <1>12 DEF ClocksFit
<1>15. QED
  BY <1>10, <1>11, <1>13, <1>14 DEF M

\* runTimer
LEMMA FireStep ==
  ASSUME OnlyUnrankedQueue, Ours, NEW t \in TimerId, TimerFires(t)
  PROVE  Implements
<1> DEFINE L == gameLobbies
           id == L.timer[t].lobby
           l == L.lobby[id]
           R == FiredList(t)
<1>1. Running /\ L.timer[t].phase = "expired"
  BY DEF TimerFires
<1>2. CASE UsesDestroyedObject
  BY <1>1, <1>2, StopStep DEF UsesDestroyedObject
<1>3. CASE ~UsesDestroyedObject
  <2>1. /\ id \in Live(L) /\ UNCHANGED <<sessionVars, starts, fault>>
        /\ \/ l.lobbyAdminType = Custom
           \/ \E users \in ReadyInOrder(l) : DissolveQueueLobby(R, id, users)
    BY <1>3, TimerHasFired DEF TimerLobby, Lobby
  <2>2. R = SetLobby(SetTimer(L, t, IdleTimer), id, InvitationExpired(l))
    BY DEF FiredList, TimerLobby, Lobby
  <2>3. L \in QueueLists /\ ListOfQueue(L) /\ id \in LobbyId
    BY <2>1, OursAt DEF Ours, QueueAlone
  <2>4. /\ l \in AnyLobby /\ TidyLobby(l) /\ l.lobbyAdminType = Unranked
        /\ Ready(l) \subseteq Members(l)
    BY <2>1, <2>3, QueueAt DEF ReadyAreMembers
  <2>5. l.lobbyAdminType # Custom
    BY <2>4 DEF Custom, Unranked
  <2>6. PICK users \in ReadyInOrder(l) : DissolveQueueLobby(R, id, users)
    BY <2>1, <2>5
  <2>7. ToSet(users) = Ready(l) /\ Distinct(users)
    BY <2>4, ReadyReturn
  <2>8. R.lobby[id].lobbyAdminType = Unranked
    <3>1. R.lobby = [L.lobby EXCEPT ![id] = InvitationExpired(l)]
      BY <2>2 DEF SetLobby, SetTimer
    <3>2. L.lobby \in [LobbyId -> AnyLobby]
      BY OursAt DEF SoundLists, LobbyLists, AnyLobby
    <3>3. \A m \in AnyLobby : InvitationExpired(m).lobbyAdminType = m.lobbyAdminType
      BY DEF InvitationExpired, AnyLobby, Lobbies
    <3>4. R.lobby[id] = InvitationExpired(l)
      BY <2>3, <3>1, <3>2
    <3>5. QED
      BY <2>4, <3>3, <3>4
  <2> HIDE DEF R
  <2>9. L' = Erase(R, id) /\ requeue' = IF users = <<>> THEN NobodyToRequeue
                  ELSE [users |-> users, type |-> R.lobby[id].lobbyAdminType]
    BY <2>6 DEF DissolveQueueLobby
  <2>10. RequeueFits' /\ ToSet(requeue'.users) = Ready(l)
    BY <2>7, <2>8, <2>9, UsersReturn
  <2>11. /\ ListOfQueue(L') /\ ClocksFit(L') /\ GroupEnds(L, L', id, {})
         /\ TimeoutsIn(L') = TimeoutsIn(L) \ {<<t, id>>}
    <3> DEFINE M == Erase(R, id)
    <3>1. /\ ListOfQueue(M) /\ ClocksFit(M)
          /\ GroupEnds(L, M, id, {}) /\ TimeoutsIn(M) = TimeoutsIn(L) \ {<<t, id>>}
      <4> HIDE DEF L
      <4>1. QED
        BY <1>1, <2>2, <2>3, FiredEnds
    <3>2. L' = M
      BY <2>9
    <3> HIDE DEF M
    <3>3. QED
      BY <3>1, <3>2
  <2>12. NamedSessions' = NamedSessions /\ GroupLaunches' = GroupLaunches
    BY <2>1, StartsStay DEF NamedSessions, sessionVars, SameLaunches
  <2>13. /\ GroupUsers = UsersIn(L) /\ GroupsAsking = AskingIn(L)
         /\ GroupAccepted = AcceptedIn(L) /\ GroupTimeouts = TimeoutsIn(L)
         /\ GroupUsers' = UsersIn(L') /\ GroupsAsking' = AskingIn(L')
         /\ GroupAccepted' = AcceptedIn(L') /\ GroupTimeouts' = TimeoutsIn(L')
    BY <2>3, <2>11, GroupsAreLobbies, GroupsAreLobbiesNext
  <2>14. GroupAccepted[id] = Ready(l) /\ <<t, id>> \in GroupTimeouts
    BY <1>1, <2>3, <2>13 DEF AcceptedIn, TimeoutsIn
  <2> HIDE DEF id, l
  <2>15. Service!Expire(t, id)
    BY <2>1, <2>10, <2>11, <2>12, <2>13, <2>14 DEF Service!Expire, Service!Ends, GroupEnds
  <2>16. ServiceStep
    <3>1. \E x \in GroupTimeouts : Service!Expire(x[1], x[2])
      BY <2>14, <2>15
    <3>2. QED
      BY <1>1, <3>1, NobodyReturns DEF ServiceStep, Service!Next
  <2>17. QED
    BY <2>10, <2>11, <2>16 DEF Implements, QueueAlone
<1>4. QED
  BY <1>2, <1>3

\* createGame asks for a lobby of users; there is none.
LEMMA InvitationStep ==
  ASSUME OnlyUnrankedQueue, Ours, GameInvitationNext
  PROVE  Implements
<1>1. ASSUME NEW c \in Conn PROVE ~CreateGame(c)
  <2>1. \A id \in Live(gameLobbies) : gameLobbies.lobby[id].lobbyAdminType # Custom
    BY OursAt, QueueAt DEF Custom, Unranked
  <2>2. FirstLobbyOf(gameLobbies, accountName[c]) \subseteq Live(gameLobbies)
    BY FoundLive
  <2>3. QED
    BY <2>1, <2>2 DEF CreateGame, IsGameLobbyAdmin
<1>2. ASSUME NEW c \in Conn, AcceptGame(c) PROVE Implements
  BY <1>2, AcceptStep
<1>3. ASSUME NEW c \in Conn, DeclineGame(c) PROVE Implements
  BY <1>3, DeclineStep
<1>4. ASSUME NEW t \in TimerId, TimerExpires(t) PROVE Implements
  BY <1>4, TimeIsUpStep
<1>5. ASSUME NEW t \in TimerId, TimerFires(t) PROVE Implements
  BY <1>5, FireStep
<1>6. QED
  BY <1>1, <1>2, <1>3, <1>4, <1>5 DEF GameInvitationNext
----------------------------------------------------------------------------
(* The steps of games *)

\* A step in which the lists stay and no session gets or loses a name.
LEMMA UnseenStep ==
  ASSUME Ours, UNCHANGED <<accountName, gameLobbies, requeue, fault>>, SameLaunches
  PROVE  Implements
<1>1. /\ ListOfQueue(gameLobbies) /\ ListOfQueue(gameLobbies') /\ ClocksFit(gameLobbies')
      /\ SameGroups(gameLobbies, gameLobbies')
  BY SameGroupsAsBefore DEF Ours, QueueAlone
<1>2. Quiet /\ NamedSessions' = NamedSessions
  BY DEF Quiet, NamedSessions
<1>3. QED
  BY <1>1, <1>2, SilentStep, AloneStays DEF Implements, Ours

\* What the service sees of a startGame that ends.
LEMMA StartEndsLaunches ==
  ASSUME Ours, NEW s \in StartId, starts[s].phase # "idle", StartEnds(s)
  PROVE  /\ <<s, starts[s].lobby>> \in GroupLaunches
         /\ GroupLaunches' = GroupLaunches \ {<<s, starts[s].lobby>>}
<1> DEFINE pair == <<s, starts[s].lobby>>
<1>1. starts \in [StartId -> Starts] /\ starts' = [starts EXCEPT ![s] = IdleStart]
  BY IInvParts DEF Ours, StartsTyped, StartEnds
<1>2. IdleStart.phase = "idle"
  BY DEF IdleStart
<1>3. starts'[s].phase = "idle" /\ \A r \in StartId \ {s} : starts'[r] = starts[r]
  BY <1>1, <1>2
<1>4. pair \in GroupLaunches
  BY DEF GroupLaunches
<1>5. ASSUME NEW x \in GroupLaunches' PROVE x \in GroupLaunches \ {pair}
  <2>1. PICK r \in StartId : starts'[r].phase # "idle" /\ x = <<r, starts'[r].lobby>>
    BY DEF GroupLaunches
  <2>2. r # s /\ starts'[r] = starts[r]
    BY <1>3, <2>1
  <2>3. QED
    BY <2>1, <2>2 DEF GroupLaunches
<1>6. ASSUME NEW x \in GroupLaunches, x # pair PROVE x \in GroupLaunches'
  <2>1. PICK r \in StartId : starts[r].phase # "idle" /\ x = <<r, starts[r].lobby>>
    BY DEF GroupLaunches
  <2>2. r # s /\ starts'[r] = starts[r]
    BY <1>3, <1>6, <2>1
  <2>3. QED
    BY <2>1, <2>2 DEF GroupLaunches
<1>7. QED
  BY <1>4, <1>5, <1>6

\* startGame ends: the lobby is erased, or stays.
LEMMA StartEndsStep ==
  ASSUME OnlyUnrankedQueue, Ours, NEW s \in StartId, starts[s].phase # "idle", StartEnds(s),
         Running, UNCHANGED <<accountName, requeue, fault>>,
         \/ UNCHANGED gameLobbies
         \/ /\ starts[s].lobby \in Live(gameLobbies)
            /\ gameLobbies' = Erase(gameLobbies, starts[s].lobby)
  PROVE  Implements
<1> DEFINE id == starts[s].lobby
           L == gameLobbies
<1>1. <<s, id>> \in GroupLaunches /\ GroupLaunches' = GroupLaunches \ {<<s, id>>}
  BY StartEndsLaunches
<1>2. L \in QueueLists /\ ListOfQueue(L) /\ ClocksFit(L) /\ Live(L) \subseteq LobbyId
  BY OursAt DEF Ours, QueueAlone
<1>3. NamedSessions' = NamedSessions
  BY DEF NamedSessions
<1>4. /\ ListOfQueue(L') /\ ClocksFit(L') /\ TimeoutsIn(L') = TimeoutsIn(L)
      /\ \/ id \in LobbyId /\ GroupEnds(L, L', id, {})
         \/ SameGroups(L, L')
  BY <1>2, EraseEnds, SameGroupsAsBefore
<1>5. /\ GroupUsers = UsersIn(L) /\ GroupsAsking = AskingIn(L)
      /\ GroupAccepted = AcceptedIn(L) /\ GroupTimeouts = TimeoutsIn(L)
      /\ GroupUsers' = UsersIn(L') /\ GroupsAsking' = AskingIn(L')
      /\ GroupAccepted' = AcceptedIn(L') /\ GroupTimeouts' = TimeoutsIn(L')
  BY <1>2, <1>4, GroupsAreLobbies, GroupsAreLobbiesNext
<1> HIDE DEF id, L
<1>6. Service!Launched(s, id)
  BY <1>1, <1>3, <1>4, <1>5 DEF Service!Launched, Service!Ends, GroupEnds, SameGroups
<1>7. \E x \in GroupLaunches : Service!Launched(x[1], x[2])
  BY <1>1, <1>6
<1>8. ServiceStep
  BY <1>7, NobodyReturns DEF ServiceStep, Service!Next
<1>9. QED
  BY <1>4, <1>8, AloneStays DEF Implements, Ours, L

LEMMA StartStep ==
  ASSUME OnlyUnrankedQueue, Ours, GameStartNext
  PROVE  Implements
<1>1. ASSUME NEW s \in StartId, StartGameSent(s) PROVE Implements
  <2>1. CASE UsesDestroyedObject
    BY <1>1, <2>1, StopStep DEF StartGameSent, UsesDestroyedObject
  <2>2. CASE ~UsesDestroyedObject
    <3>1. /\ starts[s].phase = "connecting"
          /\ starts' = [starts EXCEPT ![s].phase = "asked", ![s].handler = FALSE]
          /\ UNCHANGED <<sessionVars, gameLobbies, requeue, fault>>
      BY <1>1, <2>2 DEF StartGameSent
    <3>2. starts \in [StartId -> Starts]
      BY IInvParts DEF Ours, StartsTyped
    <3>3. \A r \in StartId : /\ starts'[r].lobby = starts[r].lobby
                             /\ starts'[r].phase # "idle" <=> starts[r].phase # "idle"
      BY <3>1, <3>2 DEF Starts
    <3>4. SameLaunches
      BY <3>3 DEF SameLaunches, GroupLaunches
    <3>5. QED
      BY <3>1, <3>4, UnseenStep DEF sessionVars
  <2>3. QED
    BY <2>1, <2>2
<1>2. ASSUME NEW s \in StartId, StartGameFails(s) PROVE Implements
  <2>1. Running /\ starts[s].phase # "idle"
    BY <1>2 DEF StartGameFails
  <2>2. CASE UsesDestroyedObject
    BY <2>1, <2>2, StopStep DEF UsesDestroyedObject
  <2>3. CASE ~UsesDestroyedObject
    <3>1. /\ StartEnds(s) /\ UNCHANGED <<sessionVars, requeue, fault>>
          /\ \/ UNCHANGED gameLobbies
             \/ /\ starts[s].lobby \in Live(gameLobbies)
                /\ gameLobbies' = Erase(CancelTimer(gameLobbies, starts[s].lobby),
                                        starts[s].lobby)
      BY <1>2, <2>3 DEF StartGameFails, CapturesExist
    <3>2. starts[s].lobby \in Live(gameLobbies) =>
            Erase(CancelTimer(gameLobbies, starts[s].lobby), starts[s].lobby)
              = Erase(gameLobbies, starts[s].lobby)
      BY OursAt, EraseAfterCancelling
    <3>3. QED
      BY <2>1, <3>1, <3>2, StartEndsStep DEF sessionVars
  <2>4. QED
    BY <2>2, <2>3
<1>3. ASSUME NEW s \in StartId, NEW success \in GameAnswers, StartGameAnswered(s, success)
      PROVE  Implements
  <2>1. Running /\ starts[s].phase # "idle"
    BY <1>3 DEF StartGameAnswered
  <2>2. CASE UsesDestroyedObject
    BY <2>1, <2>2, StopStep DEF UsesDestroyedObject
  <2>3. CASE ~UsesDestroyedObject
    <3>1. /\ StartEnds(s) /\ UNCHANGED <<accountName, requeue, fault>>
          /\ starts[s].lobby \in Live(gameLobbies)
          /\ gameLobbies' = Erase(gameLobbies, starts[s].lobby)
      BY <1>3, <2>3 DEF StartGameAnswered, CapturesExist
    <3>2. QED
      BY <2>1, <3>1, StartEndsStep
  <2>4. QED
    BY <2>2, <2>3
<1>4. ASSUME NEW s \in StartId, StartGameUnanswered(s) PROVE Implements
  BY <1>4, StartEndsStep DEF StartGameUnanswered, sessionVars
<1>5. QED
  BY <1>1, <1>2, <1>3, <1>4 DEF GameStartNext

\* The connections to games are not seen by the service.
LEMMA ProxyStep ==
  ASSUME OnlyUnrankedQueue, Ours, GameProxyNext
  PROVE  Implements
<1>1. /\ UNCHANGED <<accountName, requeue, fault>>
      /\ \/ UNCHANGED <<gameLobbies, starts>>
         \/ \E c \in Conn : /\ gameLobbies' = ForgetOwner(gameLobbies, c)
                            /\ starts' = ForgottenStarts(c)
  BY DEF GameProxyNext, ConnectGameError, GameConnected, FirstMessageFromGame,
     LeaveGameSuccess, ConnectionToGameLost, LinkEnds
<1>2. CASE UNCHANGED <<gameLobbies, starts>>
  BY <1>1, <1>2, UnseenStep, StartsStay
<1>3. ASSUME NEW c \in Conn, gameLobbies' = ForgetOwner(gameLobbies, c),
             starts' = ForgottenStarts(c)
      PROVE  Implements
  <2>1. /\ gameLobbies \in SoundLists /\ ListOfQueue(gameLobbies) /\ ClocksFit(gameLobbies)
    BY OursAt DEF Ours, QueueAlone
  <2>2. /\ ListOfQueue(gameLobbies') /\ ClocksFit(gameLobbies')
        /\ SameGroups(gameLobbies, gameLobbies')
    BY <1>3, <2>1, ForgetOwnerSame
  <2>3. Quiet /\ NamedSessions' = NamedSessions
    BY <1>1, <1>3, StartsForgotten DEF Quiet, NamedSessions
  <2>4. QED
    BY <1>1, <2>1, <2>2, <2>3, SilentStep, AloneStays DEF Implements, Ours
<1>4. QED
  BY <1>1, <1>2, <1>3
----------------------------------------------------------------------------
(* The queue is a service *)

\* Every step is one of the service, and keeps the invariant.
LEMMA NextImplements ==
  ASSUME OnlyUnrankedQueue, Ours, [Next]_vars
  PROVE  Implements
<1>1. CASE UNCHANGED vars
  BY <1>1, UnseenStep, StartsStay DEF vars
<1>2. CASE Next
  BY <1>1, <1>2, LoginStep, LobbyOfUsersStep, QueueRequestStep, InvitationStep, StartStep,
     ProxyStep DEF Next, Crashed
<1>3. QED
  BY <1>1, <1>2

\* The fresh server is the fresh service.
LEMMA InitImplements ==
  ASSUME Init
  PROVE  Service!Init /\ QueueAlone
<1>1. /\ gameLobbies = NoLobbies /\ requeue = NobodyToRequeue /\ fault = "none"
      /\ starts = [s \in StartId |-> IdleStart]
      /\ accountName = [c \in Conn |-> NoAccount]
  BY DEF Init
<1>2. /\ Live(NoLobbies) = {}
      /\ \A id \in LobbyId : NoLobbies.lobby[id] = EmptyLobby
      /\ \A t \in TimerId : NoLobbies.timer[t].phase = "idle"
  BY DEF NoLobbies, IdleTimer, Live
<1>3. ListOfQueue(NoLobbies) /\ ClocksFit(NoLobbies)
  BY <1>2 DEF ListOfQueue, ClocksFit
<1>4. NobodyToRequeue.users = <<>> /\ NobodyToRequeue.type = Unranked
  BY DEF NobodyToRequeue
<1>5. QueueAlone
  BY <1>1, <1>3, <1>4 DEF QueueAlone, RequeueFits, Distinct
<1>6. EmptyLobby.readyUsers = <<>> /\ ~EmptyLobby.waiting
  BY DEF EmptyLobby
<1>7. \A id \in LobbyId : /\ Members(NoLobbies.lobby[id]) = {}
                          /\ Ready(NoLobbies.lobby[id]) = {}
                          /\ ~NoLobbies.lobby[id].waiting
  BY <1>2, <1>6, EmptyLobbyTidy DEF Ready
<1>8. /\ GroupUsers = [g \in LobbyId |-> {}] /\ GroupsAsking = {}
      /\ GroupAccepted = [g \in LobbyId |-> {}] /\ GroupTimeouts = {}
  BY <1>1, <1>2, <1>3, <1>7, GroupsAreLobbies DEF UsersIn, AskingIn, AcceptedIn, TimeoutsIn
<1>9. GroupLaunches = {} /\ NamedSessions = {} /\ ToSet(requeue.users) = {}
  BY <1>1, <1>4 DEF GroupLaunches, NamedSessions, IdleStart, ToSet
<1>10. Service!Init
  BY <1>1, <1>8, <1>9 DEF Service!Init
<1>11. QED
  BY <1>5, <1>10

\* The lobbies of the unranked queue, with their lists, timers and coroutines,
\* implement the abstract service: whatever is cancelled, fires late, is put back
\* or disconnects, every step of the server is one of QueueService, or none.
THEOREM QueueIsService ==
  ASSUME OnlyUnrankedQueue
  PROVE  Spec => ImplementsQueueService
<1>1. Init => Service!Init /\ QueueAlone
  BY InitImplements
<1>2. /\ IInv /\ Tidy /\ Asking /\ QueuesSized
      /\ QueueAlone /\ [Next]_vars
      => ServiceStep /\ QueueAlone'
  BY NextImplements DEF Ours, Implements
<1>3. Spec => []QueueAlone
  BY <1>1, <1>2, Invariant, TidyAlways, AskingAlways, QueuesSizedAlways, PTL DEF Spec
<1>4. Spec => [][~(fault # "none") /\ Service!Next]_(Service!serviceVars)
  BY <1>2, <1>3, Invariant, TidyAlways, AskingAlways, QueuesSizedAlways, PTL
     DEF Spec, ServiceStep
<1>5. QED
  BY <1>1, <1>4, PTL DEF Spec, ImplementsQueueService, Service!Spec
=============================================================================
