-------------------------- MODULE MembershipProofs --------------------------
(***************************************************************************)
(* Who is in which lobby: no lobby has more users than it may have, no     *)
(* user is in a lobby twice or in two lobbies of the queues, for every     *)
(* number of clients, accounts and lobbies and all sizes.                  *)
(***************************************************************************)
EXTENDS MatchmakingProofs

\* A sequence without repetition.
Distinct(s) == \A i, j \in DOMAIN s : s[i] = s[j] => i = j

\* Users name the lobbies they create; a lobby of the queues cannot be joined by
\* its name.
TidyLobby(l) ==
  /\ Len(l.accountNames) <= l.maxUserCount
  /\ Distinct(l.accountNames)
  /\ l.lobbyAdminType \in QueueType => l.name = NoName

\* joinMatchMakingQueue looks for the user in the lobbies of the list.  That is
\* enough as a node is in the list once, so that erasing it removes it, and an
\* identity that is not in the list has no users.
NodesOnce(L) == Distinct(L.order)
NobodyOutsideList(L) ==
  \A id \in LobbyId \ Live(L) : L.lobby[id].accountNames = <<>>
QueuesDisjoint(L) ==
  \A id1, id2 \in Queues(L) :
    Members(L.lobby[id1]) \cap Members(L.lobby[id2]) # {} => id1 = id2

TidyList(L) ==
  /\ \A id \in LobbyId : TidyLobby(L.lobby[id])
  /\ NodesOnce(L)
  /\ NobodyOutsideList(L)
  /\ QueuesDisjoint(L)

\* Sound lists are those of the invariant IInv.
TidyLists == {L \in SoundLists : TidyList(L)}

\* The invariant.
Tidy == gameLobbies \in TidyLists
----------------------------------------------------------------------------
(* Sequences and lobbies *)

\* Removing the i-th element leaves the others, and no new repetition.
LEMMA WithoutElements ==
  ASSUME NEW S, NEW s \in Seq(S), NEW i \in 1 .. Len(s)
  PROVE  /\ \A j \in DOMAIN Without(s, i) :
              \E k \in DOMAIN s \ {i} : Without(s, i)[j] = s[k]
         /\ \A k \in DOMAIN s \ {i} :
              \E j \in DOMAIN Without(s, i) : Without(s, i)[j] = s[k]
         /\ Distinct(s) => Distinct(Without(s, i))
<1> DEFINE w == Without(s, i)
<1>1. Len(s) \in Nat /\ DOMAIN s = 1 .. Len(s) /\ DOMAIN w = 1 .. Len(s) - 1
  BY DEF Without
<1>2. \A j \in DOMAIN w : w[j] = IF j < i THEN s[j] ELSE s[j + 1]
  BY DEF Without
<1> HIDE DEF w
<1>3. ASSUME NEW j \in DOMAIN w
      PROVE  \E k \in DOMAIN s \ {i} : w[j] = s[k]
  <2>1. CASE j < i
    BY <1>1, <1>2, <2>1
  <2>2. CASE ~(j < i)
    <3>1. j + 1 \in DOMAIN s \ {i}
      BY <1>1, <2>2
    <3>2. QED
      BY <1>2, <2>2, <3>1
  <2>3. QED
    BY <2>1, <2>2
<1>4. ASSUME NEW k \in DOMAIN s \ {i}
      PROVE  \E j \in DOMAIN w : w[j] = s[k]
  <2>1. CASE k < i
    <3>1. k \in DOMAIN w
      BY <1>1, <2>1
    <3>2. QED
      BY <1>2, <2>1, <3>1
  <2>2. CASE k > i
    <3>1. k - 1 \in DOMAIN w /\ ~(k - 1 < i) /\ (k - 1) + 1 = k
      BY <1>1, <2>2
    <3>2. w[k - 1] = s[k]
      BY <1>2, <3>1
    <3>3. QED
      BY <3>1, <3>2
  <2>3. QED
    BY <1>1, <2>1, <2>2
<1>5. ASSUME Distinct(s), NEW m \in DOMAIN w, NEW n \in DOMAIN w, w[m] = w[n]
      PROVE  m = n
  <2> DEFINE At(j) == IF j < i THEN j ELSE j + 1
  <2>1. At(m) \in DOMAIN s /\ At(n) \in DOMAIN s
    BY <1>1
  <2>2. w[m] = s[At(m)] /\ w[n] = s[At(n)]
    BY <1>2
  <2>3. At(m) = At(n)
    BY <1>5, <2>1, <2>2 DEF Distinct
  <2>4. QED
    BY <1>1, <2>3
<1>6. Distinct(s) => Distinct(w)
  BY <1>5 DEF Distinct
<1>7. QED
  BY <1>3, <1>4, <1>6 DEF w

\* Adding an element that is not there.
LEMMA AppendElements ==
  ASSUME NEW S, NEW s \in Seq(S), NEW e \in S
  PROVE  /\ \A j \in DOMAIN Append(s, e) :
              Append(s, e)[j] = e \/ \E k \in DOMAIN s : Append(s, e)[j] = s[k]
         /\ \A k \in DOMAIN s : k \in DOMAIN Append(s, e) /\ Append(s, e)[k] = s[k]
         /\ \E j \in DOMAIN Append(s, e) : Append(s, e)[j] = e
         /\ Distinct(s) /\ (\A k \in DOMAIN s : s[k] # e) => Distinct(Append(s, e))
         /\ Len(Append(s, e)) = Len(s) + 1
<1> DEFINE w == Append(s, e)
<1>1. /\ Len(s) \in Nat /\ DOMAIN s = 1 .. Len(s) /\ DOMAIN w = 1 .. Len(s) + 1
      /\ Len(w) = Len(s) + 1
  OBVIOUS
<1>2. w[Len(s) + 1] = e /\ \A j \in DOMAIN s : w[j] = s[j]
  OBVIOUS
<1> HIDE DEF w
<1>3. \A j \in DOMAIN w : j = Len(s) + 1 \/ j \in DOMAIN s
  BY <1>1
<1>4. Distinct(s) /\ (\A k \in DOMAIN s : s[k] # e) => Distinct(w)
  BY <1>2, <1>3 DEF Distinct
<1>5. Len(s) + 1 \in DOMAIN w /\ DOMAIN s \subseteq DOMAIN w
  BY <1>1
<1>6. QED
  BY <1>1, <1>2, <1>3, <1>4, <1>5 DEF w

\* What the queues see of a lobby: its users, its type, its name and its size.
SameUsers(l, m) ==
  /\ m.accountNames = l.accountNames
  /\ m.lobbyAdminType = l.lobbyAdminType
  /\ m.name = l.name
  /\ m.maxUserCount = l.maxUserCount

\* A lobby that has lost users, and may have changed its size for those it has.
FewerUsers(l, m) ==
  /\ TidyLobby(m)
  /\ Members(m) \subseteq Members(l)
  /\ l.accountNames = <<>> => m.accountNames = <<>>
  /\ m.lobbyAdminType = l.lobbyAdminType

LEMMA SameUsersFewer ==
  ASSUME NEW l, NEW m, TidyLobby(l), SameUsers(l, m)
  PROVE  FewerUsers(l, m)
BY DEF SameUsers, FewerUsers, TidyLobby, Members

\* removeUser
LEMMA RemoveUserFewer ==
  ASSUME NEW l \in AnyLobby, TidyLobby(l), NEW a
  PROVE  FewerUsers(l, RemoveUser(l, a))
<1>1. CASE PositionOf(l, a) = {}
  BY <1>1 DEF RemoveUser, FewerUsers
<1>2. CASE PositionOf(l, a) # {}
  <2> DEFINE s == l.accountNames
             m == RemoveUser(l, a)
  <2>1. PICK i \in PositionOf(l, a) : i = CHOOSE k \in PositionOf(l, a) : TRUE
    BY <1>2
  <2>2. s \in Seq(Account) /\ i \in 1 .. Len(s) /\ l.maxUserCount \in Nat
    BY DEF PositionOf, AnyLobby, Lobbies
  <2>3. m = [l EXCEPT !.accountNames = Without(s, i)]
    BY <1>2, <2>1 DEF RemoveUser
  <2>4. /\ m.accountNames = Without(s, i) /\ m.lobbyAdminType = l.lobbyAdminType
        /\ m.name = l.name /\ m.maxUserCount = l.maxUserCount
    BY <2>3 DEF AnyLobby, Lobbies
  <2>5. /\ Len(Without(s, i)) = Len(s) - 1 /\ Distinct(Without(s, i))
        /\ \A j \in DOMAIN Without(s, i) :
             \E k \in DOMAIN s \ {i} : Without(s, i)[j] = s[k]
    BY <2>2, WithoutType, WithoutElements DEF TidyLobby
  <2>6. TidyLobby(m)
    BY <2>2, <2>4, <2>5 DEF TidyLobby
  <2>7. Members(m) \subseteq Members(l)
    BY <2>4, <2>5 DEF Members
  <2>8. l.accountNames # <<>>
    BY <2>2
  <2>9. QED
    BY <2>4, <2>6, <2>7, <2>8 DEF FewerUsers
<1>3. QED
  BY <1>1, <1>2

\* cancelTimer, and the start and the end of the wait.
LEMMA WaitingSameUsers ==
  ASSUME NEW l \in AnyLobby
  PROVE  /\ SameUsers(l, StopWaiting(l))
         /\ SameUsers(l, InvitationExpired(l))
         /\ \A t : SameUsers(l, StartWaiting(l, t))
         /\ \A a : SameUsers(l, AcceptedBy(l, a))
BY DEF SameUsers, StopWaiting, InvitationExpired, StartWaiting, AcceptedBy, AnyLobby,
       Lobbies

\* tryToAddUser, for a lobby with space in which the user is not.
LEMMA AddUserTidy ==
  ASSUME NEW l \in AnyLobby, TidyLobby(l), NEW a \in Account,
         HasSpace(l), a \notin Members(l)
  PROVE  /\ TidyLobby(AddUser(l, a))
         /\ Members(AddUser(l, a)) = Members(l) \cup {a}
         /\ AddUser(l, a).lobbyAdminType = l.lobbyAdminType
<1> DEFINE s == l.accountNames
           m == AddUser(l, a)
<1>1. s \in Seq(Account) /\ l.maxUserCount \in Nat
  BY DEF AnyLobby, Lobbies
<1>2. /\ m.accountNames = Append(s, a) /\ m.lobbyAdminType = l.lobbyAdminType
      /\ m.name = l.name /\ m.maxUserCount = l.maxUserCount
  BY DEF AddUser, AnyLobby, Lobbies
<1>3. \A k \in DOMAIN s : s[k] # a
  BY DEF Members
<1>4. Distinct(Append(s, a)) /\ Len(Append(s, a)) = Len(s) + 1
  BY <1>1, <1>3, AppendElements DEF TidyLobby
<1>5. TidyLobby(m)
  BY <1>1, <1>2, <1>4 DEF TidyLobby, HasSpace
<1>6. Members(m) = Members(l) \cup {a}
  BY <1>1, <1>2, AppendElements DEF Members
<1>7. QED
  BY <1>2, <1>5, <1>6
----------------------------------------------------------------------------
(* Lists *)

\* A tidy list at the identity id, and its types.
LEMMA TidyAt ==
  ASSUME NEW L \in TidyLists
  PROVE  /\ L \in SoundLists /\ TidyList(L)
         /\ L.order \in Seq(LobbyId) /\ Live(L) \subseteq LobbyId
         /\ \A id \in LobbyId : L.lobby[id] \in AnyLobby /\ TidyLobby(L.lobby[id])
<1>1. L.order \in Seq(LobbyId)
  BY DEF TidyLists, SoundLists, LobbyLists
<1>2. QED
  BY <1>1, SoundAt DEF TidyLists, TidyList, Live

\* A list in which lobbies have at most lost users.
LEMMA FewerUsersTidy ==
  ASSUME NEW L \in TidyLists, NEW R \in SoundLists, R.order = L.order,
         \A id \in LobbyId : FewerUsers(L.lobby[id], R.lobby[id])
  PROVE  R \in TidyLists
<1>1. TidyList(L)
  BY TidyAt
<1>2. \A id \in LobbyId : TidyLobby(R.lobby[id])
  BY DEF FewerUsers
<1>3. Live(R) = Live(L)
  BY DEF Live
<1>4. NodesOnce(R) /\ NobodyOutsideList(R)
  BY <1>1, <1>3 DEF TidyList, NodesOnce, NobodyOutsideList, FewerUsers
<1>5. Queues(R) = Queues(L)
  BY DEF Queues, FewerUsers
<1>6. QueuesDisjoint(R)
  BY <1>1, <1>5 DEF TidyList, QueuesDisjoint, FewerUsers, Queues
<1>7. QED
  BY <1>2, <1>4, <1>6 DEF TidyLists, TidyList

\* Only the lobby at id changes.
LEMMA OneLobbyFewer ==
  ASSUME NEW L \in TidyLists, NEW R \in SoundLists, NEW id \in LobbyId, NEW m,
         R.order = L.order, R.lobby = [L.lobby EXCEPT ![id] = m],
         FewerUsers(L.lobby[id], m)
  PROVE  R \in TidyLists
<1>1. \A other \in LobbyId : R.lobby[other] = IF other = id THEN m ELSE L.lobby[other]
  BY TidyAt DEF SoundLists, LobbyLists
<1>2. \A other \in LobbyId : FewerUsers(L.lobby[other], L.lobby[other])
  BY TidyAt DEF FewerUsers
<1>3. \A other \in LobbyId : FewerUsers(L.lobby[other], R.lobby[other])
  BY <1>1, <1>2
<1>4. QED
  BY <1>3, FewerUsersTidy

\* A list of the same lobbies.
LEMMA SameLobbiesTidy ==
  ASSUME NEW L \in TidyLists, NEW R \in SoundLists, R.order = L.order, R.lobby = L.lobby
  PROVE  R \in TidyLists
<1>1. \A id \in LobbyId : FewerUsers(L.lobby[id], R.lobby[id])
  BY TidyAt DEF FewerUsers
<1>2. QED
  BY <1>1, FewerUsersTidy

\* removeUser, in place.
LEMMA RemoveFromTidy ==
  ASSUME NEW L \in TidyLists, NEW id \in LobbyId, NEW a
  PROVE  RemoveFrom(L, id, a) \in TidyLists
<1>1. FewerUsers(L.lobby[id], RemoveUser(L.lobby[id], a))
  BY TidyAt, RemoveUserFewer
<1>2. RemoveFrom(L, id, a) \in SoundLists
  BY TidyAt, RemoveFromSound
<1>3. QED
  BY <1>1, <1>2, OneLobbyFewer DEF RemoveFrom, SetLobby

\* cancelTimer
LEMMA CancelTimerTidy ==
  ASSUME NEW L \in TidyLists, NEW id \in LobbyId
  PROVE  CancelTimer(L, id) \in TidyLists
<1>1. FewerUsers(L.lobby[id], StopWaiting(L.lobby[id]))
  BY TidyAt, WaitingSameUsers, SameUsersFewer
<1>2. CancelTimer(L, id) \in SoundLists
  BY TidyAt, CancelTimerSound
<1>3. QED
  BY <1>1, <1>2, OneLobbyFewer DEF CancelTimer

\* The lobby an erased element is reset to has nobody in it.
LEMMA EmptyLobbyTidy ==
  /\ TidyLobby(EmptyLobby) /\ EmptyLobby.accountNames = <<>>
  /\ Members(EmptyLobby) = {} /\ EmptyLobby.lobbyAdminType \notin QueueType
  /\ HasSpace(EmptyLobby)
BY DEF EmptyLobby, TidyLobby, Distinct, Members, QueueType, Custom, Unranked, Ranked,
       HasSpace, DefaultMaxUserCount

\* erase: the identity leaves the list, which held it once, and has no users.
LEMMA EraseTidy ==
  ASSUME NEW L \in TidyLists, NEW id \in LobbyId
  PROVE  Erase(L, id) \in TidyLists
<1> DEFINE R == Erase(L, id)
<1>1. R \in SoundLists
  BY TidyAt, EraseSound
<1>2. R.lobby[id] = EmptyLobby /\ \A o \in LobbyId \ {id} : R.lobby[o] = L.lobby[o]
  BY TidyAt DEF Erase, SoundLists, LobbyLists
<1>3. Distinct(R.order) /\ Live(L) \ {id} \subseteq Live(R)
  <2>1. CASE \E k \in DOMAIN L.order : L.order[k] = id
    <3>1. PICK i \in DOMAIN L.order :
            i = (CHOOSE k \in DOMAIN L.order : L.order[k] = id) /\ L.order[i] = id
      BY <2>1
    <3>2. R.order = Without(L.order, i) /\ i \in 1 .. Len(L.order)
      BY <2>1, <3>1, TidyAt DEF Erase
    <3>3. /\ Distinct(R.order)
          /\ \A k \in DOMAIN L.order \ {i} :
               \E j \in DOMAIN R.order : R.order[j] = L.order[k]
      BY <3>2, TidyAt, WithoutElements DEF TidyList, NodesOnce
    <3>4. ASSUME NEW o \in Live(L) \ {id} PROVE o \in Live(R)
      <4>1. PICK k \in DOMAIN L.order \ {i} : L.order[k] = o
        BY <3>1 DEF Live
      <4>2. QED
        BY <3>3, <4>1 DEF Live
    <3>5. QED
      BY <3>3, <3>4
  <2>2. CASE ~ \E k \in DOMAIN L.order : L.order[k] = id
    BY <2>2, TidyAt DEF Erase, TidyList, NodesOnce, Live
  <2>3. QED
    BY <2>1, <2>2
<1> HIDE DEF R
<1>4. \A o \in LobbyId : TidyLobby(R.lobby[o])
  BY <1>2, TidyAt, EmptyLobbyTidy
<1>5. NobodyOutsideList(R)
  BY <1>2, <1>3, TidyAt, EmptyLobbyTidy DEF NobodyOutsideList, TidyList
<1>6. QueuesDisjoint(R)
  BY <1>2, TidyAt, EmptyLobbyTidy DEF QueuesDisjoint, Queues, TidyList
<1>7. QED
  BY <1>1, <1>3, <1>4, <1>5, <1>6 DEF TidyLists, TidyList, NodesOnce, R

\* A list whose lobby id has one user more, who is in no other lobby if it is one
\* of a queue.
LEMMA OneUserMore ==
  ASSUME NEW L \in TidyLists, NEW R \in SoundLists, NEW id \in LobbyId, NEW m, NEW a,
         R.lobby = [L.lobby EXCEPT ![id] = m],
         Distinct(R.order), Live(R) = Live(L) \cup {id}, TidyLobby(m),
         Members(m) \subseteq Members(L.lobby[id]) \cup {a},
         m.lobbyAdminType \in QueueType =>
           /\ \A o \in LobbyId : a \notin Members(L.lobby[o])
           /\ L.lobby[id].lobbyAdminType \in QueueType \/ Members(L.lobby[id]) = {}
  PROVE  R \in TidyLists
<1>1. R.lobby[id] = m /\ \A o \in LobbyId \ {id} : R.lobby[o] = L.lobby[o]
  BY TidyAt DEF SoundLists, LobbyLists
<1>2. \A o \in LobbyId : TidyLobby(R.lobby[o])
  BY <1>1, TidyAt
<1>3. NobodyOutsideList(R)
  BY <1>1, TidyAt DEF NobodyOutsideList, TidyList
<1>4. ASSUME NEW o \in Queues(L) \ {id}, m.lobbyAdminType \in QueueType
      PROVE  Members(m) \cap Members(L.lobby[o]) = {}
  <2>1. a \notin Members(L.lobby[o])
    BY <1>4 DEF Queues
  <2>2. Members(L.lobby[id]) \cap Members(L.lobby[o]) = {}
    BY <1>4, TidyAt DEF TidyList, QueuesDisjoint, Queues
  <2>3. QED
    BY <2>1, <2>2
<1>5. QueuesDisjoint(R)
  <2>1. \A o \in Queues(R) \ {id} : o \in Queues(L) \ {id} /\ R.lobby[o] = L.lobby[o]
    BY <1>1 DEF Queues
  <2>2. id \in Queues(R) => m.lobbyAdminType \in QueueType
    BY <1>1 DEF Queues
  <2>3. ASSUME NEW o1 \in Queues(R), NEW o2 \in Queues(R), o1 # o2
        PROVE  Members(R.lobby[o1]) \cap Members(R.lobby[o2]) = {}
    <3>1. CASE o1 = id
      BY <1>1, <1>4, <2>1, <2>2, <2>3, <3>1
    <3>2. CASE o2 = id
      BY <1>1, <1>4, <2>1, <2>2, <2>3, <3>2
    <3>3. CASE o1 # id /\ o2 # id
      BY <2>1, <2>3, <3>3, TidyAt DEF TidyList, QueuesDisjoint
    <3>4. QED
      BY <3>1, <3>2, <3>3
  <2>4. QED
    BY <2>3 DEF QueuesDisjoint
<1>6. QED
  BY <1>2, <1>3, <1>5 DEF TidyLists, TidyList, NodesOnce

\* A user joins a lobby of the list.
LEMMA JoinTidy ==
  ASSUME NEW L \in TidyLists, NEW id \in Live(L), NEW a \in Account,
         HasSpace(L.lobby[id]), a \notin Members(L.lobby[id]),
         L.lobby[id].lobbyAdminType \in QueueType =>
           \A o \in LobbyId : a \notin Members(L.lobby[o])
  PROVE  SetLobby(L, id, AddUser(L.lobby[id], a)) \in TidyLists
<1> DEFINE m == AddUser(L.lobby[id], a)
           R == SetLobby(L, id, m)
<1>1. id \in LobbyId
  BY TidyAt
<1>2. /\ TidyLobby(m) /\ Members(m) = Members(L.lobby[id]) \cup {a}
      /\ m.lobbyAdminType = L.lobby[id].lobbyAdminType
  BY <1>1, TidyAt, AddUserTidy
<1>3. R \in SoundLists
  BY <1>1, TidyAt, JoinSound
<1>4. R.lobby = [L.lobby EXCEPT ![id] = m] /\ R.order = L.order
  BY DEF SetLobby
<1>5. Live(R) = Live(L) \cup {id} /\ Distinct(R.order)
  BY <1>4, TidyAt DEF Live, TidyList, NodesOnce
<1> HIDE DEF m, R
<1>6. R \in TidyLists
  BY <1>1, <1>2, <1>3, <1>4, <1>5, OneUserMore
<1>7. QED
  BY <1>6 DEF R, m

\* A user opens a lobby at a node that is not in the list.
LEMMA OpenTidy ==
  ASSUME NEW L \in TidyLists, NEW id \in LobbyId, id \notin Live(L),
         NEW a \in Account, NEW l \in AnyLobby, TidyLobby(l), HasSpace(l),
         Members(l) = {}, ~l.waiting, l.timer = NoTimer,
         l.lobbyAdminType \in QueueType => \A o \in LobbyId : a \notin Members(L.lobby[o])
  PROVE  Emplace(L, id, AddUser(l, a)) \in TidyLists
<1> DEFINE m == AddUser(l, a)
           R == Emplace(L, id, m)
<1>1. /\ TidyLobby(m) /\ Members(m) = {a} /\ m.lobbyAdminType = l.lobbyAdminType
  BY AddUserTidy
<1>2. R \in SoundLists
  BY TidyAt, OpenSound
<1>3. R.lobby = [L.lobby EXCEPT ![id] = m] /\ R.order = Append(L.order, id)
  BY DEF Emplace
<1>4. \A k \in DOMAIN L.order : L.order[k] # id
  BY DEF Live
<1>5. Distinct(R.order)
  BY <1>3, <1>4, TidyAt, AppendElements DEF TidyList, NodesOnce
<1>6. Live(R) = Live(L) \cup {id}
  <2>1. /\ \A j \in DOMAIN R.order :
             R.order[j] = id \/ \E k \in DOMAIN L.order : R.order[j] = L.order[k]
        /\ \A k \in DOMAIN L.order : k \in DOMAIN R.order /\ R.order[k] = L.order[k]
        /\ \E j \in DOMAIN R.order : R.order[j] = id
    BY <1>3, TidyAt, AppendElements, SMTT(30)
  <2> HIDE DEF R
  <2>2. QED
    BY <2>1 DEF Live
<1>7. Members(L.lobby[id]) = {}
  BY TidyAt DEF TidyList, NobodyOutsideList, Members
<1> HIDE DEF m, R
<1>8. R \in TidyLists
  BY <1>1, <1>2, <1>3, <1>5, <1>6, <1>7, OneUserMore
<1>9. QED
  BY <1>8 DEF R, m

\* The lobby at id is replaced by one with the same users.
LEMMA SameUsersTidy ==
  ASSUME NEW L \in TidyLists, NEW id \in LobbyId, NEW m,
         SameUsers(L.lobby[id], m), SetLobby(L, id, m) \in SoundLists
  PROVE  SetLobby(L, id, m) \in TidyLists
<1>1. FewerUsers(L.lobby[id], m)
  BY TidyAt, SameUsersFewer
<1>2. QED
  BY <1>1, OneLobbyFewer DEF SetLobby

\* startTimerToAcceptTheInvite
LEMMA StartTimerTidy ==
  ASSUME NEW L \in TidyLists, NEW id \in LobbyId, NEW t \in FreeTimer(L), NEW c \in Conn
  PROVE  StartTimer(L, id, t, c) \in TidyLists
<1>1. FewerUsers(L.lobby[id], StartWaiting(L.lobby[id], t))
  BY TidyAt, WaitingSameUsers, SameUsersFewer
<1>2. StartTimer(L, id, t, c) \in SoundLists
  BY TidyAt, FreeTimerType, StartTimerSound DEF Owner
<1>3. QED
  BY <1>1, <1>2, OneLobbyFewer DEF StartTimer

\* askUsersToJoinGame
LEMMA AskTidy ==
  ASSUME NEW L \in TidyLists, NEW id \in LobbyId, NEW t \in FreeTimer(L), NEW c \in Conn,
         Len(L.lobby[id].accountNames) >= 1
  PROVE  AskUsersToJoinGame(L, id, t, c) \in TidyLists
<1> DEFINE A == StartTimer(L, id, t, c)
           l == A.lobby[id]
           m == [l EXCEPT !.readyUsers = Append(l.readyUsers, l.accountNames[1])]
<1>1. A \in TidyLists
  BY StartTimerTidy
<1>2. AskUsersToJoinGame(L, id, t, c) \in SoundLists
  BY TidyAt, AskSound
<1>3. l \in AnyLobby
  BY <1>1, TidyAt
<1>4. SameUsers(l, m)
  BY <1>3 DEF SameUsers, AnyLobby, Lobbies
<1>5. AskUsersToJoinGame(L, id, t, c) = IF l.lobbyAdminType = Custom THEN SetLobby(A, id, m) ELSE A
  BY DEF AskUsersToJoinGame
<1> HIDE DEF A, l, m
<1>6. CASE l.lobbyAdminType = Custom
  <2>1. SetLobby(A, id, m) \in SoundLists
    BY <1>2, <1>5, <1>6
  <2>2. SetLobby(A, id, m) \in TidyLists
    BY <1>1, <1>4, <2>1, SameUsersTidy DEF l
  <2>3. QED
    BY <1>5, <1>6, <2>2
<1>7. QED
  BY <1>1, <1>5, <1>6

\* Timers change, and whom they remember, but no lobby.
LEMMA TimersTidy ==
  ASSUME NEW L \in TidyLists
  PROVE  /\ \A t, x : SetTimer(L, t, x) \in SoundLists => SetTimer(L, t, x) \in TidyLists
         /\ \A c \in Conn : ForgetOwner(L, c) \in TidyLists
<1>1. ASSUME NEW t, NEW x, SetTimer(L, t, x) \in SoundLists
      PROVE  SetTimer(L, t, x) \in TidyLists
  BY <1>1, SameLobbiesTidy DEF SetTimer
<1>2. ASSUME NEW c \in Conn PROVE ForgetOwner(L, c) \in TidyLists
  <2>1. ForgetOwner(L, c) \in SoundLists
    BY TidyAt, ForgetOwnerSound
  <2>2. QED
    BY <2>1, SameLobbiesTidy DEF ForgetOwner
<1>3. QED
  BY <1>1, <1>2

\* The end of the wait by its timer.
LEMMA TimerEndsTidy ==
  ASSUME NEW L \in TidyLists, NEW t \in TimerId, L.timer[t].lobby \in LobbyId
  PROVE  SetLobby(SetTimer(L, t, IdleTimer), L.timer[t].lobby,
                  InvitationExpired(L.lobby[L.timer[t].lobby])) \in TidyLists
<1> DEFINE id == L.timer[t].lobby
           m == InvitationExpired(L.lobby[id])
           R == SetLobby(SetTimer(L, t, IdleTimer), id, m)
<1>1. L.lobby[id] \in AnyLobby /\ L \in SoundLists
  BY TidyAt
<1>2. R \in SoundLists
  BY <1>1, InvitationExpiredType, TimerEndsSound
<1>3. FewerUsers(L.lobby[id], m)
  BY <1>1, TidyAt, WaitingSameUsers, SameUsersFewer
<1>4. R.order = L.order /\ R.lobby = [L.lobby EXCEPT ![id] = m]
  BY DEF SetLobby, SetTimer
<1> HIDE DEF R, m
<1>5. R \in TidyLists
  BY <1>2, <1>3, <1>4, OneLobbyFewer
<1>6. QED
  BY <1>5 DEF R, m

\* The list of a fresh server.
LEMMA NoLobbiesTidy == NoLobbies \in TidyLists
<1>1. \A id \in LobbyId : NoLobbies.lobby[id] = EmptyLobby
  BY DEF NoLobbies
<1>2. NoLobbies.order = <<>>
  BY DEF NoLobbies
<1>3. NodesOnce(NoLobbies)
  BY <1>2 DEF NodesOnce, Distinct
<1>4. TidyList(NoLobbies)
  BY <1>1, <1>3, EmptyLobbyTidy DEF TidyList, NobodyOutsideList, QueuesDisjoint, Queues
<1>5. QED
  BY <1>4, NoLobbiesSound DEF TidyLists
----------------------------------------------------------------------------
(* Users who leave *)

\* leaveMatchMakingQueue
LEMMA LeaveQueueTidy ==
  ASSUME NEW L \in TidyLists, NEW a
  PROVE  LeaveQueue(L, a) \subseteq TidyLists
<1>1. ASSUME NEW id \in FirstQueueOf(L, a)
      PROVE  /\ Erase(RemoveFrom(L, id, a), id) \in TidyLists
             /\ CancelTimer(RemoveFrom(L, id, a), id) \in TidyLists
  BY TidyAt, FirstLobbies, RemoveFromTidy, EraseTidy, CancelTimerTidy
<1>2. QED
  BY <1>1 DEF LeaveQueue

\* logoutAccount
LEMMA LogoutLobbiesTidy ==
  ASSUME NEW L \in TidyLists, NEW a
  PROVE  LogoutLobbies(L, a) \subseteq TidyLists
<1>1. ASSUME NEW id \in FirstLobbyOf(L, a)
      PROVE  /\ RemoveFrom(L, id, a) \in TidyLists
             /\ Erase(RemoveFrom(L, id, a), id) \in TidyLists
             /\ LeaveQueue(RemoveFrom(L, id, a), a) \subseteq TidyLists
  BY TidyAt, FirstLobbies, RemoveFromTidy, EraseTidy, LeaveQueueTidy
<1>2. QED
  BY <1>1 DEF LogoutLobbies

\* cleanUp
LEMMA CleanUpLobbiesTidy ==
  ASSUME NEW L \in TidyLists, NEW a
  PROVE  CleanUpLobbies(L, a) \subseteq TidyLists
<1>1. ASSUME NEW id \in FirstLobbyOf(L, a)
      PROVE  /\ Erase(RemoveFrom(L, id, a), id) \in TidyLists
             /\ CancelTimer(RemoveFrom(L, id, a), id) \in TidyLists
  BY TidyAt, FirstLobbies, RemoveFromTidy, EraseTidy, CancelTimerTidy
<1>2. QED
  BY <1>1 DEF CleanUpLobbies

\* leaveGameLobby
LEMMA LeaveLobbyTidy ==
  ASSUME NEW L \in TidyLists, NEW id \in LobbyId, NEW a
  PROVE  LeaveLobby(L, id, a) \in TidyLists
BY RemoveFromTidy, EraseTidy DEF LeaveLobby
----------------------------------------------------------------------------
(* The steps *)

\* A process that stops leaves no lobbies.
LEMMA StopKeepsTidy ==
  ASSUME NEW why, ProcessStops(why)
  PROVE  gameLobbies' \in TidyLists
BY NoLobbiesTidy DEF ProcessStops

\* Requests about accounts and coroutines of logins: users only leave.
LEMMA AccountLoginKeepsTidy ==
  ASSUME gameLobbies \in TidyLists, AccountLoginNext
  PROVE  gameLobbies' \in TidyLists
<1>1. ASSUME NEW c \in Conn, Disconnect(c) PROVE gameLobbies' \in TidyLists
  <2>1. PICK L \in CleanUpLobbies(gameLobbies, accountName[c]) :
          gameLobbies' = ForgetOwner(L, c) \/ gameLobbies' = L
    BY <1>1 DEF Disconnect
  <2>2. L \in TidyLists
    BY CleanUpLobbiesTidy
  <2>3. QED
    BY <2>1, <2>2, TimersTidy
<1>2. ASSUME NEW c \in Conn, LeaveAccount(c) PROVE gameLobbies' \in TidyLists
  BY <1>2, LogoutLobbiesTidy DEF LeaveAccount
<1>3. ASSUME NEW c \in Conn, NEW kind, NEW a, SpawnPasswordJob(c, kind, a)
      PROVE  gameLobbies' \in TidyLists
  BY <1>2, <1>3 DEF SpawnPasswordJob
<1>4. ASSUME NEW c \in Conn,
             \/ Connect(c) \/ CancelRequest(c) \/ RelogTo(c) \/ LogoutAccount(c)
             \/ \E g \in Guest : LoginAsGuest(c, g)
             \/ \E a \in Registered : CreateAccount(c, a) \/ LoginAccount(c, a)
             \/ \E a \in SteamAccount : LoginAccountSteam(c, a)
      PROVE  gameLobbies' \in TidyLists
  BY <1>2, <1>3, <1>4 DEF Connect, CancelRequest, RelogTo, LogoutAccount, LoginAsGuest,
     CreateAccount, LoginAccount, LoginAccountSteam
<1>5. ASSUME NEW j \in JobId,
             \/ \E ok \in BOOLEAN : PasswordJobDone(j, ok)
             \/ PasswordHashed(j) \/ PasswordChecked(j) \/ StaleResult(j)
             \/ SteamLoginSuccess(j) \/ SteamLoginError(j) \/ SteamRequestFails(j)
             \/ ResumesAfterDisconnect(j)
      PROVE  gameLobbies' \in TidyLists
  BY <1>5, StopKeepsTidy DEF PasswordJobDone, PasswordHashed, PasswordChecked, StaleResult,
     SteamLoginSuccess, SteamLoginError, SteamRequestFails, ResumesAfterDisconnect,
     Resumes, UsesDestroyedObject
<1>6. QED
  BY <1>1, <1>4, <1>5 DEF AccountLoginNext

\* A user who is in no lobby of the list is in no lobby.
LEMMA OutsideEveryLobby ==
  ASSUME gameLobbies \in TidyLists, NEW a, ~InSomeLobby(gameLobbies, a)
  PROVE  \A id \in LobbyId : a \notin Members(gameLobbies.lobby[id])
BY TidyAt DEF InSomeLobby, TidyList, NobodyOutsideList, Members

\* An identity for a new lobby is not in the list.
LEMMA NewLobbyFree ==
  ASSUME NEW id \in NewLobby
  PROVE  id \in LobbyId /\ id \notin Live(gameLobbies)
BY DEF NewLobby, FreeLobby, Least

\* Lobbies of users.  Only a lobby that has a name can be joined, so that none of
\* a queue can.
LEMMA CustomLobbyKeepsTidy ==
  ASSUME IInv, gameLobbies \in TidyLists, CustomLobbyNext
  PROVE  gameLobbies' \in TidyLists
<1> DEFINE a(c) == accountName[c]
<1>0. SessionsTyped
  BY IInvParts
<1>1. ASSUME NEW c \in Conn, HasAccount(c) PROVE a(c) \in Account
  BY <1>0, <1>1 DEF HasAccount, SessionsTyped
<1>2. ASSUME NEW c \in Conn, NEW n \in LobbyName, CreateGameLobby(c, n)
      PROVE  gameLobbies' \in TidyLists
  <2> DEFINE l == [EmptyLobby EXCEPT !.name = n]
  <2>1. l \in AnyLobby /\ ~l.waiting /\ l.timer = NoTimer
    BY EmptyLobbyType DEF AnyLobby, Lobbies
  <2>2. /\ l.accountNames = EmptyLobby.accountNames
        /\ l.maxUserCount = EmptyLobby.maxUserCount
        /\ l.lobbyAdminType = EmptyLobby.lobbyAdminType
    BY DEF EmptyLobby
  <2>3. TidyLobby(l) /\ HasSpace(l) /\ Members(l) = {} /\ l.lobbyAdminType \notin QueueType
    BY <2>2, EmptyLobbyTidy DEF TidyLobby, HasSpace, Members
  <2>4. PICK id \in NewLobby : gameLobbies' = Emplace(gameLobbies, id, AddUser(l, a(c)))
    BY <1>2 DEF CreateGameLobby
  <2>5. a(c) \in Account
    BY <1>1, <1>2 DEF CreateGameLobby
  <2> HIDE DEF l
  <2>6. QED
    BY <2>1, <2>3, <2>4, <2>5, NewLobbyFree, OpenTidy
<1>3. ASSUME NEW c \in Conn, NEW n \in LobbyName, JoinGameLobby(c, n)
      PROVE  gameLobbies' \in TidyLists
  <2>1. PICK id \in LobbiesNamed(gameLobbies, n) :
          /\ CanAddUser(gameLobbies.lobby[id], a(c))
          /\ gameLobbies' = SetLobby(gameLobbies, id, AddUser(gameLobbies.lobby[id], a(c)))
    BY <1>3 DEF JoinGameLobby
  <2>2. id \in Live(gameLobbies) /\ gameLobbies.lobby[id].name = n
    BY DEF LobbiesNamed
  <2>3. TidyLobby(gameLobbies.lobby[id])
    BY <2>2, TidyAt
  <2>4. gameLobbies.lobby[id].lobbyAdminType \notin QueueType
    BY <2>2, <2>3, NameAssumption DEF TidyLobby
  <2>5. QED
    BY <1>1, <1>3, <2>1, <2>2, <2>4, JoinTidy DEF JoinGameLobby, CanAddUser
<1>4. ASSUME NEW c \in Conn, NEW n \in MaxUserSize, SetMaxUserSizeInCreateGameLobby(c, n)
      PROVE  gameLobbies' \in TidyLists
  <2> DEFINE l(id) == gameLobbies.lobby[id]
             m(id) == [l(id) EXCEPT !.maxUserCount = n]
  <2>1. PICK id \in FirstLobbyOf(gameLobbies, a(c)) :
          /\ CanSetMaxUserCount(l(id), n)
          /\ gameLobbies' = SetLobby(gameLobbies, id, m(id))
    BY <1>4 DEF SetMaxUserSizeInCreateGameLobby
  <2>2. id \in LobbyId /\ l(id) \in AnyLobby /\ TidyLobby(l(id))
    BY TidyAt, FirstLobbies
  <2>3. /\ m(id).accountNames = l(id).accountNames /\ m(id).name = l(id).name
        /\ m(id).lobbyAdminType = l(id).lobbyAdminType /\ m(id).maxUserCount = n
    BY <2>2 DEF AnyLobby, Lobbies
  <2>4. l(id).accountNames \in Seq(Account) /\ n \in Nat
    BY <2>2, SizeAssumption DEF AnyLobby, Lobbies
  <2>5. FewerUsers(l(id), m(id))
    BY <2>1, <2>2, <2>3, <2>4 DEF FewerUsers, TidyLobby, CanSetMaxUserCount, Members
  <2>6. SameInvitation(l(id), m(id))
    BY <2>2, SizeAssumption DEF SameInvitation, AnyLobby, Lobbies
  <2>7. SetLobby(gameLobbies, id, m(id)) \in SoundLists
    BY <2>2, <2>6, TidyAt, SetLobbySound
  <2> HIDE DEF l, m
  <2>8. SetLobby(gameLobbies, id, m(id)) \in TidyLists
    BY <2>2, <2>5, <2>7, OneLobbyFewer DEF SetLobby, l
  <2>9. QED
    BY <2>1, <2>8
<1>5. ASSUME NEW c \in Conn, LeaveGameLobby(c) PROVE gameLobbies' \in TidyLists
  BY <1>5, TidyAt, FirstLobbies, LeaveLobbyTidy DEF LeaveGameLobby
<1>6. QED
  BY <1>2, <1>3, <1>4, <1>5 DEF CustomLobbyNext

\* joinMatchMakingQueue and matchingLobby: who joins is in no lobby yet.
LEMMA EnterQueueKeepsTidy ==
  ASSUME gameLobbies \in TidyLists, NEW c \in Conn, accountName[c] \in Account,
         NEW type \in QueueType, EnterQueue(c, type)
  PROVE  gameLobbies' \in TidyLists
<1> DEFINE a == accountName[c]
           l(id) == gameLobbies.lobby[id]
           Joined(id) == SetLobby(gameLobbies, id, AddUser(l(id), a))
           o == [EmptyLobby EXCEPT !.lobbyAdminType = type,
                                   !.maxUserCount = UsersNeeded[type]]
<1>1. \A id \in LobbyId : a \notin Members(l(id))
  BY OutsideEveryLobby DEF EnterQueue
<1>2. ASSUME NEW id \in LobbyToAddUser(a, type)
      PROVE  /\ Joined(id) \in TidyLists
             /\ \A t \in FreeTimer(Joined(id)) :
                  AskUsersToJoinGame(Joined(id), id, t, c) \in TidyLists
  <2>1. id \in Live(gameLobbies) /\ HasSpace(l(id))
    BY DEF LobbyToAddUser, Matches, Live
  <2>2. id \in LobbyId /\ l(id) \in AnyLobby
    BY <2>1, TidyAt
  <2>3. Joined(id) \in TidyLists
    BY <1>1, <2>1, <2>2, JoinTidy
  <2>4. Joined(id).lobby[id] = AddUser(l(id), a)
    BY <2>2, TidyAt DEF SetLobby, SoundLists, LobbyLists
  <2>5. l(id).accountNames \in Seq(Account)
    BY <2>2 DEF AnyLobby, Lobbies
  <2>6. Joined(id).lobby[id].accountNames = Append(l(id).accountNames, a)
    BY <2>2, <2>4 DEF AddUser, AnyLobby, Lobbies
  <2>7. Len(Joined(id).lobby[id].accountNames) >= 1
    BY <2>5, <2>6
  <2> HIDE DEF Joined
  <2>8. QED
    BY <2>2, <2>3, <2>7, AskTidy
<1>3. \A id \in NewLobby : Emplace(gameLobbies, id, AddUser(o, a)) \in TidyLists
  <2>1. o \in AnyLobby /\ ~o.waiting /\ o.timer = NoTimer
    BY EmptyLobbyType, QueueAssumption DEF AnyLobby, Lobbies, LobbyType
  <2>2. o.accountNames = <<>> /\ o.name = NoName /\ o.maxUserCount \in Nat \ {0}
    BY QueueAssumption DEF EmptyLobby
  <2>3. TidyLobby(o) /\ HasSpace(o) /\ Members(o) = {}
    BY <2>2 DEF TidyLobby, HasSpace, Members, Distinct
  <2> HIDE DEF o
  <2>4. QED
    BY <1>1, <2>1, <2>3, NewLobbyFree, OpenTidy
<1>4. QED
  BY <1>2, <1>3 DEF EnterQueue

\* Joining, leaving and being put back in a queue.
LEMMA QueueKeepsTidy ==
  ASSUME IInv, gameLobbies \in TidyLists, MatchmakingQueueNext
  PROVE  gameLobbies' \in TidyLists
<1>0. SessionsTyped /\ StartsTyped
  BY IInvParts
<1>1. ASSUME NEW c \in Conn, NEW type \in Offered, JoinMatchMakingQueue(c, type)
      PROVE  gameLobbies' \in TidyLists
  <2>1. accountName[c] \in Account /\ type \in QueueType
    BY <1>0, <1>1, QueueAssumption DEF JoinMatchMakingQueue, SessionsTyped
  <2>2. QED
    BY <1>1, <2>1, EnterQueueKeepsTidy, StopKeepsTidy DEF JoinMatchMakingQueue
<1>2. ASSUME NEW c \in Conn, LeaveQuickGameQueue(c) PROVE gameLobbies' \in TidyLists
  BY <1>2, LeaveQueueTidy DEF LeaveQuickGameQueue
<1>3. CASE Requeue
  <2> DEFINE a == Head(requeue.users)
  <2>1. requeue.users \in Seq(Account) /\ requeue.type \in QueueType /\ requeue.users # <<>>
    BY <1>0, <1>3 DEF Requeue, StartsTyped
  <2>2. a \in Account
    BY <2>1
  <2>3. \/ \E c \in SessionsOf(a) : EnterQueue(c, requeue.type)
        \/ UNCHANGED gameLobbies
        \/ ProcessStops("abort")
    BY <1>3 DEF Requeue
  <2>4. QED
    BY <2>1, <2>2, <2>3, EnterQueueKeepsTidy, StopKeepsTidy DEF SessionsOf
<1>4. QED
  BY <1>1, <1>2, <1>3 DEF MatchmakingQueueNext

\* Invitations: nobody joins, and a lobby that is dissolved is erased.
LEMMA GameInvitationKeepsTidy ==
  ASSUME IInv, gameLobbies \in TidyLists, GameInvitationNext
  PROVE  gameLobbies' \in TidyLists
<1> DEFINE l(id) == gameLobbies.lobby[id]
<1>0. IInv' /\ gameLobbies' \in SoundLists
  BY NextKeepsIInv, IInvPartsNext DEF Next
<1>1. ASSUME NEW c \in Conn, CreateGame(c) PROVE gameLobbies' \in TidyLists
  <2>1. CASE UNCHANGED gameLobbies
    BY <2>1
  <2>2. ASSUME NEW id \in FirstLobbyOf(gameLobbies, accountName[c]),
               Len(l(id).accountNames) > 1, NEW t \in FreeTimer(gameLobbies),
               gameLobbies' = AskUsersToJoinGame(gameLobbies, id, t, c)
        PROVE  gameLobbies' \in TidyLists
    <3>1. id \in LobbyId /\ l(id) \in AnyLobby
      BY TidyAt, FirstLobbies
    <3>2. l(id).accountNames \in Seq(Account)
      BY <3>1 DEF AnyLobby, Lobbies
    <3>3. Len(l(id).accountNames) >= 1
      BY <2>2, <3>2
    <3>4. QED
      BY <2>2, <3>1, <3>3, AskTidy
  <2>3. QED
    BY <1>1, <2>1, <2>2 DEF CreateGame
<1>2. ASSUME NEW c \in Conn, AcceptGame(c) PROVE gameLobbies' \in TidyLists
  <2>1. PICK id \in FirstInvitationOf(gameLobbies, accountName[c]) :
          gameLobbies' = SetLobby(gameLobbies, id, AcceptedBy(l(id), accountName[c]))
    BY <1>2 DEF AcceptGame
  <2>2. id \in LobbyId /\ l(id) \in AnyLobby
    BY TidyAt, FirstLobbies
  <2>3. SameUsers(l(id), AcceptedBy(l(id), accountName[c]))
    BY <2>2, WaitingSameUsers
  <2>4. QED
    BY <1>0, <2>1, <2>2, <2>3, SameUsersTidy
<1>3. ASSUME NEW c \in Conn, DeclineGame(c) PROVE gameLobbies' \in TidyLists
  <2>1. PICK id \in FirstInvitationOf(gameLobbies, accountName[c]) :
          \/ gameLobbies' = Erase(gameLobbies, id)
          \/ gameLobbies' = CancelTimer(gameLobbies, id)
    BY <1>3 DEF DeclineGame, DissolveQueueLobby
  <2>2. id \in LobbyId
    BY TidyAt, FirstLobbies
  <2>3. QED
    BY <2>1, <2>2, EraseTidy, CancelTimerTidy
<1>4. ASSUME NEW t \in TimerId, TimerExpires(t) PROVE gameLobbies' \in TidyLists
  BY <1>0, <1>4, TimersTidy DEF TimerExpires
<1>5. ASSUME NEW t \in TimerId, TimerFires(t) PROVE gameLobbies' \in TidyLists
  <2> DEFINE id == TimerLobby(t)
             R == FiredList(t)
  <2>1. CASE UsesDestroyedObject
    BY <2>1, StopKeepsTidy DEF UsesDestroyedObject
  <2>2. CASE ~UsesDestroyedObject
    <3>1. id \in LobbyId
      BY <1>5, <2>2, TidyAt, TimerHasFired
    <3>2. R \in TidyLists
      BY <1>0, <3>1, TimerEndsTidy DEF FiredList, TimerLobby, Lobby
    <3>3. gameLobbies' = R \/ gameLobbies' = Erase(R, id)
      BY <1>5, <2>2, TimerHasFired DEF DissolveQueueLobby
    <3>4. QED
      BY <3>1, <3>2, <3>3, EraseTidy
  <2>3. QED
    BY <2>1, <2>2
<1>6. QED
  BY <1>1, <1>2, <1>3, <1>4, <1>5 DEF GameInvitationNext

\* Games: the lobby of a start is erased, or nothing is done about it.
LEMMA GameKeepsTidy ==
  ASSUME gameLobbies \in TidyLists, GameStartNext \/ GameProxyNext
  PROVE  gameLobbies' \in TidyLists
<1>1. ASSUME NEW s \in StartId, CapturesExist(s) PROVE starts[s].lobby \in LobbyId
  BY <1>1, TidyAt DEF CapturesExist
<1>2. ASSUME NEW s \in StartId,
             \/ StartGameSent(s) \/ StartGameFails(s) \/ StartGameUnanswered(s)
             \/ \E success \in GameAnswers : StartGameAnswered(s, success)
      PROVE  gameLobbies' \in TidyLists
  BY <1>1, <1>2, StopKeepsTidy, CancelTimerTidy, EraseTidy
     DEF StartGameSent, StartGameFails, StartGameUnanswered, StartGameAnswered,
         UsesDestroyedObject
<1>3. ASSUME NEW c \in Conn, NEW next, LinkEnds(c, next) PROVE gameLobbies' \in TidyLists
  BY <1>3, TimersTidy DEF LinkEnds
<1>4. CASE GameProxyNext
  BY <1>3, <1>4 DEF GameProxyNext, ConnectGameError, GameConnected, FirstMessageFromGame,
     LeaveGameSuccess, ConnectionToGameLost
<1>5. QED
  BY <1>2, <1>4 DEF GameStartNext
----------------------------------------------------------------------------
(* The theorems *)

\* Every step keeps the list tidy.
LEMMA NextKeepsTidy ==
  IInv /\ Tidy /\ [Next]_vars => Tidy'
<1> USE DEF Tidy
<1> SUFFICES ASSUME IInv, gameLobbies \in TidyLists, [Next]_vars
             PROVE  gameLobbies' \in TidyLists
  OBVIOUS
<1>1. CASE AccountLoginNext
  BY <1>1, AccountLoginKeepsTidy
<1>2. CASE CustomLobbyNext
  BY <1>2, CustomLobbyKeepsTidy
<1>3. CASE MatchmakingQueueNext
  BY <1>3, QueueKeepsTidy
<1>4. CASE GameInvitationNext
  BY <1>4, GameInvitationKeepsTidy
<1>5. CASE GameStartNext \/ GameProxyNext
  BY <1>5, GameKeepsTidy
<1>6. CASE UNCHANGED vars
  BY <1>6 DEF vars
<1>7. QED
  BY <1>1, <1>2, <1>3, <1>4, <1>5, <1>6 DEF Next, Crashed

\* The list of the start is tidy.
LEMMA InitTidy == Init => Tidy
BY NoLobbiesTidy DEF Init, Tidy

\* The list is tidy in every reachable state.
LEMMA TidyAlways == Spec => []Tidy
BY Invariant, InitTidy, NextKeepsTidy, PTL DEF Spec

\* No lobby ever has more users than it may have: tryToAddUser, setMaxUserCount and
\* the return to the queue agree on the bound, for all sizes.
THEOREM MaxUserCountKept == Spec => []WithinMaxUserCount
<1>1. Tidy => WithinMaxUserCount
  BY DEF Tidy, TidyLists, TidyList, TidyLobby, WithinMaxUserCount, Lobby
<1>2. QED
  BY <1>1, TidyAlways, PTL

\* An account is in at most one lobby of the queues and in no lobby twice, however
\* users join, leave, decline, are put back and disconnect.
THEOREM OneQueueLobby == Spec => []OneQueueLobbyPerAccount
<1>1. Tidy => OneQueueLobbyPerAccount
  BY DEF Tidy, TidyLists, TidyList, TidyLobby, Distinct, QueuesDisjoint,
         OneQueueLobbyPerAccount, Lobby
<1>2. QED
  BY <1>1, TidyAlways, PTL
=============================================================================
