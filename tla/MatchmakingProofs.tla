------------------------- MODULE MatchmakingProofs -------------------------
(***************************************************************************)
(* Type correctness of the matchmaking server, and that a lobby waits only *)
(* while a timer can end the wait, for every number of clients, accounts,  *)
(* lobbies, timers and coroutines.  First, that every operator on the list *)
(* of lobbies keeps it well formed, and lobbies and timers matched.         *)
(***************************************************************************)
EXTENDS Matchmaking, TLAPS

AnyLobby == Lobbies(LobbyName, Account, TimerId)
SoundLists == {L \in LobbyLists : WaitingLobbiesHaveTimers(L)}

----------------------------------------------------------------------------
(* One lobby *)

\* What the list sees of a lobby: its type of record and whether it waits.
SameInvitation(l, m) ==
  m \in AnyLobby /\ m.waiting = l.waiting /\ m.timer = l.timer

\* Removing one element of a sequence leaves a shorter one of the same kind.
LEMMA WithoutType ==
  ASSUME NEW S, NEW s \in Seq(S), NEW i \in 1 .. Len(s)
  PROVE  Without(s, i) \in Seq(S) /\ Len(Without(s, i)) = Len(s) - 1
<1>1. Len(s) - 1 \in Nat
  OBVIOUS
<1>2. \A j \in 1 .. Len(s) - 1 : (IF j < i THEN s[j] ELSE s[j + 1]) \in S
  OBVIOUS
<1>3. Without(s, i) \in [1 .. Len(s) - 1 -> S]
  BY <1>2 DEF Without
<1>4. QED
  BY <1>1, <1>3

\* The lobby an erased element is reset to is a lobby, and nobody waits in it.
LEMMA EmptyLobbyType ==
  EmptyLobby \in AnyLobby /\ ~EmptyLobby.waiting /\ EmptyLobby.timer = NoTimer
BY DEF EmptyLobby, AnyLobby, Lobbies, LobbyType, QueueType, Custom, Unranked,
       Ranked, DefaultMaxUserCount, NoName, NoTimer

\* tryToAddUser leaves the invitation of the lobby alone.
LEMMA AddUserKeepsInvitation ==
  ASSUME NEW l \in AnyLobby, NEW a \in Account
  PROVE  SameInvitation(l, AddUser(l, a))
<1>1. l.accountNames \in Seq(Account)
  BY DEF AnyLobby, Lobbies
<1>2. Append(l.accountNames, a) \in Seq(Account)
  BY <1>1
<1>3. QED
  BY <1>2 DEF SameInvitation, AddUser, AnyLobby, Lobbies

\* removeUser leaves the invitation of the lobby alone.
LEMMA RemoveUserKeepsInvitation ==
  ASSUME NEW l \in AnyLobby, NEW a
  PROVE  SameInvitation(l, RemoveUser(l, a))
<1>1. CASE PositionOf(l, a) = {}
  BY <1>1 DEF RemoveUser, SameInvitation
<1>2. CASE PositionOf(l, a) # {}
  <2>1. PICK i \in PositionOf(l, a) : i = CHOOSE k \in PositionOf(l, a) : TRUE
    BY <1>2
  <2>2. l.accountNames \in Seq(Account) /\ i \in 1 .. Len(l.accountNames)
    BY DEF PositionOf, AnyLobby, Lobbies
  <2>3. Without(l.accountNames, i) \in Seq(Account)
    BY <2>2, WithoutType
  <2>4. RemoveUser(l, a) = [l EXCEPT !.accountNames = Without(l.accountNames, i)]
    BY <1>2, <2>1 DEF RemoveUser
  <2>5. QED
    BY <2>3, <2>4 DEF SameInvitation, AnyLobby, Lobbies
<1>3. QED
  BY <1>1, <1>2

\* A lobby that starts to wait names the timer it was given; one that stops
\* names none, and neither does one whose timer has fired.
LEMMA StartWaitingType ==
  ASSUME NEW l \in AnyLobby, NEW t \in TimerId
  PROVE  /\ StartWaiting(l, t) \in AnyLobby
         /\ StartWaiting(l, t).waiting /\ StartWaiting(l, t).timer = t
BY DEF StartWaiting, AnyLobby, Lobbies

\* Cancelling the wait of a lobby (cancelTimer) yields a lobby.
LEMMA StopWaitingType ==
  ASSUME NEW l \in AnyLobby
  PROVE  /\ StopWaiting(l) \in AnyLobby
         /\ ~StopWaiting(l).waiting
         /\ l.waiting => StopWaiting(l).timer = NoTimer
         /\ ~l.waiting => StopWaiting(l).timer = l.timer
<1>1. <<>> \in Seq(Account)
  OBVIOUS
<1>2. CASE l.waiting
  BY <1>1, <1>2 DEF StopWaiting, AnyLobby, Lobbies
<1>3. CASE ~l.waiting
  BY <1>3 DEF StopWaiting
<1>4. QED
  BY <1>2, <1>3

\* A lobby whose timer ran out (runTimer) is a lobby.
LEMMA InvitationExpiredType ==
  ASSUME NEW l \in AnyLobby
  PROVE  /\ InvitationExpired(l) \in AnyLobby
         /\ ~InvitationExpired(l).waiting
         /\ InvitationExpired(l).timer = NoTimer
BY DEF InvitationExpired, AnyLobby, Lobbies
----------------------------------------------------------------------------
(* The list *)

\* A sound list at the identity id.
LEMMA SoundAt ==
  ASSUME NEW L \in SoundLists, NEW id \in LobbyId
  PROVE  /\ L.lobby[id] \in AnyLobby
         /\ L.lobby[id].waiting \in BOOLEAN
         /\ L.lobby[id].waiting =>
              /\ L.lobby[id].timer \in TimerId
              /\ L.timer[L.lobby[id].timer].phase # "idle"
              /\ L.timer[L.lobby[id].timer].lobby = id
         /\ ~L.lobby[id].waiting => L.lobby[id].timer = NoTimer
BY DEF SoundLists, LobbyLists, WaitingLobbiesHaveTimers, AnyLobby, Lobbies

\* The list of a fresh server.
LEMMA NoLobbiesSound == NoLobbies \in SoundLists
<1>1. IdleTimer \in Timers
  BY DEF IdleTimer, Timers, Owner
<1>2. NoLobbies \in LobbyLists
  BY <1>1, EmptyLobbyType DEF NoLobbies, LobbyLists, AnyLobby
<1>3. WaitingLobbiesHaveTimers(NoLobbies)
  BY EmptyLobbyType DEF NoLobbies, WaitingLobbiesHaveTimers
<1>4. QED
  BY <1>2, <1>3 DEF SoundLists

\* A lobby may be replaced by one with the same invitation.
LEMMA SetLobbySound ==
  ASSUME NEW L \in SoundLists, NEW id \in LobbyId, NEW m,
         SameInvitation(L.lobby[id], m)
  PROVE  SetLobby(L, id, m) \in SoundLists
<1> DEFINE R == SetLobby(L, id, m)
<1>1. R \in LobbyLists
  BY DEF SetLobby, SameInvitation, SoundLists, LobbyLists, AnyLobby
<1>2. \A other \in LobbyId : R.lobby[other].waiting = L.lobby[other].waiting
                           /\ R.lobby[other].timer = L.lobby[other].timer
  BY DEF SetLobby, SameInvitation, SoundLists, LobbyLists
<1>3. R.timer = L.timer
  BY DEF SetLobby
<1>4. WaitingLobbiesHaveTimers(R)
  BY <1>2, <1>3 DEF SoundLists, WaitingLobbiesHaveTimers
<1>5. QED
  BY <1>1, <1>4 DEF SoundLists

\* A lobby in which nobody waits may be put anywhere: the timers that still run
\* for what was there before end without a lobby that waits for them.
LEMMA SetIdleLobbySound ==
  ASSUME NEW L \in SoundLists, NEW id \in LobbyId, NEW m \in AnyLobby,
         ~m.waiting, m.timer = NoTimer
  PROVE  SetLobby(L, id, m) \in SoundLists
<1> DEFINE R == SetLobby(L, id, m)
<1>1. R \in LobbyLists
  BY DEF SetLobby, SoundLists, LobbyLists, AnyLobby
<1>2. R.lobby[id] = m /\ \A other \in LobbyId \ {id} : R.lobby[other] = L.lobby[other]
  BY DEF SetLobby, SoundLists, LobbyLists
<1>3. R.timer = L.timer
  BY DEF SetLobby
<1>4. WaitingLobbiesHaveTimers(R)
  BY <1>2, <1>3 DEF SoundLists, WaitingLobbiesHaveTimers
<1>5. QED
  BY <1>1, <1>4 DEF SoundLists

\* The order of the list says nothing about invitations.
LEMMA OrderSound ==
  ASSUME NEW L \in SoundLists, NEW order \in Seq(LobbyId)
  PROVE  [order |-> order, lobby |-> L.lobby, timer |-> L.timer] \in SoundLists
BY DEF SoundLists, LobbyLists, WaitingLobbiesHaveTimers

\* emplace_back of a lobby in which nobody waits.
LEMMA EmplaceSound ==
  ASSUME NEW L \in SoundLists, NEW id \in LobbyId, NEW m \in AnyLobby,
         ~m.waiting, m.timer = NoTimer
  PROVE  Emplace(L, id, m) \in SoundLists
<1> DEFINE R == SetLobby(L, id, m)
<1>1. R \in SoundLists
  BY SetIdleLobbySound
<1>2. R.order \in Seq(LobbyId)
  BY <1>1 DEF SoundLists, LobbyLists
<1>3. Append(R.order, id) \in Seq(LobbyId)
  BY <1>2
<1>4. Emplace(L, id, m) = [order |-> Append(R.order, id), lobby |-> R.lobby,
                           timer |-> R.timer]
  BY DEF Emplace, SetLobby
<1>5. QED
  BY <1>1, <1>3, <1>4, OrderSound

\* The timers when the lobby id stops waiting: only its own can have ended, so
\* every other lobby keeps the timer it waits for.
LEMMA CancelledTimersType ==
  ASSUME NEW L \in SoundLists, NEW id \in LobbyId
  PROVE  /\ CancelledTimers(L, id) \in [TimerId -> Timers]
         /\ \A other \in LobbyId \ {id} : L.lobby[other].waiting =>
              CancelledTimers(L, id)[L.lobby[other].timer]
                = L.timer[L.lobby[other].timer]
<1>1. IdleTimer \in Timers
  BY DEF IdleTimer, Timers, Owner
<1>2. \A t \in TimerId : L.timer[t] \in Timers
  BY DEF SoundLists, LobbyLists
<1>3. CancelledTimers(L, id) \in [TimerId -> Timers]
  BY <1>1, <1>2 DEF CancelledTimers
<1>4. ASSUME NEW other \in LobbyId \ {id}, L.lobby[other].waiting
      PROVE  CancelledTimers(L, id)[L.lobby[other].timer]
               = L.timer[L.lobby[other].timer]
  <2>1. /\ L.lobby[other].timer \in TimerId
        /\ L.timer[L.lobby[other].timer].lobby = other
    BY <1>4, SoundAt
  <2>2. L.lobby[id].waiting => L.timer[L.lobby[id].timer].lobby = id
    BY SoundAt
  <2>3. ~(L.lobby[id].waiting /\ L.lobby[id].timer = L.lobby[other].timer)
    BY <2>1, <2>2
  <2>4. QED
    BY <2>1, <2>3 DEF CancelledTimers
<1>5. QED
  BY <1>3, <1>4

\* A list whose lobby id is replaced by one in which nobody waits, and whose
\* timer for it is cancelled.
LEMMA StoppedSound ==
  ASSUME NEW L \in SoundLists, NEW id \in LobbyId, NEW m \in AnyLobby,
         ~m.waiting, m.timer = NoTimer, NEW order \in Seq(LobbyId)
  PROVE  [order |-> order, lobby |-> [L.lobby EXCEPT ![id] = m],
          timer |-> CancelledTimers(L, id)] \in SoundLists
<1> DEFINE R == [order |-> order, lobby |-> [L.lobby EXCEPT ![id] = m],
                 timer |-> CancelledTimers(L, id)]
<1>1. R \in LobbyLists
  BY CancelledTimersType DEF SoundLists, LobbyLists, AnyLobby
<1>2. R.lobby[id] = m /\ \A other \in LobbyId \ {id} : R.lobby[other] = L.lobby[other]
  BY DEF SoundLists, LobbyLists
<1>3. ASSUME NEW other \in LobbyId \ {id}
      PROVE  IF R.lobby[other].waiting
             THEN /\ R.lobby[other].timer \in TimerId
                  /\ R.timer[R.lobby[other].timer].phase # "idle"
                  /\ R.timer[R.lobby[other].timer].lobby = other
             ELSE R.lobby[other].timer = NoTimer
  <2>1. R.lobby[other] = L.lobby[other]
    BY <1>2
  <2>2. L.lobby[other].waiting =>
          R.timer[L.lobby[other].timer] = L.timer[L.lobby[other].timer]
    BY CancelledTimersType
  <2>3. QED
    BY <2>1, <2>2, SoundAt
<1>4. WaitingLobbiesHaveTimers(R)
  BY <1>2, <1>3 DEF WaitingLobbiesHaveTimers
<1>5. QED
  BY <1>1, <1>4 DEF SoundLists

\* cancelTimer.
LEMMA CancelTimerSound ==
  ASSUME NEW L \in SoundLists, NEW id \in LobbyId
  PROVE  CancelTimer(L, id) \in SoundLists
<1> DEFINE m == StopWaiting(L.lobby[id])
<1>1. m \in AnyLobby /\ ~m.waiting /\ m.timer = NoTimer
  BY SoundAt, StopWaitingType
<1>2. L.order \in Seq(LobbyId)
  BY DEF SoundLists, LobbyLists
<1>3. QED
  BY <1>1, <1>2, StoppedSound DEF CancelTimer

\* erase, with the cancelTimer of the destructor.
LEMMA EraseSound ==
  ASSUME NEW L \in SoundLists, NEW id \in LobbyId
  PROVE  Erase(L, id) \in SoundLists
<1> DEFINE order == IF \E k \in DOMAIN L.order : L.order[k] = id
                    THEN Without(L.order, CHOOSE k \in DOMAIN L.order : L.order[k] = id)
                    ELSE L.order
<1>1. L.order \in Seq(LobbyId)
  BY DEF SoundLists, LobbyLists
<1>2. order \in Seq(LobbyId)
  <2>1. CASE \E k \in DOMAIN L.order : L.order[k] = id
    <3>1. (CHOOSE k \in DOMAIN L.order : L.order[k] = id) \in 1 .. Len(L.order)
      BY <1>1, <2>1
    <3>2. QED
      BY <1>1, <2>1, <3>1, WithoutType
  <2>2. CASE ~ \E k \in DOMAIN L.order : L.order[k] = id
    BY <1>1, <2>2
  <2>3. QED
    BY <2>1, <2>2
<1>3. Erase(L, id) = [order |-> order, lobby |-> [L.lobby EXCEPT ![id] = EmptyLobby],
                      timer |-> CancelledTimers(L, id)]
  BY DEF Erase
<1>4. QED
  BY <1>2, <1>3, EmptyLobbyType, StoppedSound

\* startTimerToAcceptTheInvite with a timer that is free: no other lobby waits
\* for it.
LEMMA StartTimerSound ==
  ASSUME NEW L \in SoundLists, NEW id \in LobbyId, NEW t \in TimerId,
         L.timer[t].phase = "idle", NEW owner \in Owner
  PROVE  StartTimer(L, id, t, owner) \in SoundLists
<1> DEFINE m == StartWaiting(L.lobby[id], t)
           x == [phase |-> "armed", lobby |-> id, owner |-> owner]
           R == StartTimer(L, id, t, owner)
<1>1. m \in AnyLobby /\ m.waiting /\ m.timer = t
  BY SoundAt, StartWaitingType
<1>2. x \in Timers
  BY DEF Timers
<1>3. /\ R.lobby = [L.lobby EXCEPT ![id] = m]
      /\ R.timer = [L.timer EXCEPT ![t] = x]
      /\ R.order = L.order
      /\ R = [order |-> R.order, lobby |-> R.lobby, timer |-> R.timer]
  BY DEF StartTimer
<1>4. /\ R.lobby[id] = m /\ R.timer[t] = x
      /\ \A other \in LobbyId \ {id} : R.lobby[other] = L.lobby[other]
      /\ \A u \in TimerId \ {t} : R.timer[u] = L.timer[u]
  BY <1>3 DEF SoundLists, LobbyLists
<1>5. R \in LobbyLists
  BY <1>1, <1>2, <1>3 DEF SoundLists, LobbyLists, AnyLobby
<1>6. ASSUME NEW other \in LobbyId \ {id}
      PROVE  IF R.lobby[other].waiting
             THEN /\ R.lobby[other].timer \in TimerId
                  /\ R.timer[R.lobby[other].timer].phase # "idle"
                  /\ R.timer[R.lobby[other].timer].lobby = other
             ELSE R.lobby[other].timer = NoTimer
  <2>1. L.lobby[other].waiting => L.lobby[other].timer # t
    BY SoundAt
  <2>2. QED
    BY <1>4, <2>1, SoundAt
<1>7. WaitingLobbiesHaveTimers(R)
  BY <1>1, <1>4, <1>6 DEF WaitingLobbiesHaveTimers
<1>8. QED
  BY <1>5, <1>7 DEF SoundLists

\* A timer may change as long as it runs on, for the same lobby.
LEMMA SetTimerSound ==
  ASSUME NEW L \in SoundLists, NEW t \in TimerId, NEW x \in Timers,
         x.phase # "idle", x.lobby = L.timer[t].lobby
  PROVE  SetTimer(L, t, x) \in SoundLists
<1> DEFINE R == SetTimer(L, t, x)
<1>1. R \in LobbyLists
  BY DEF SetTimer, SoundLists, LobbyLists
<1>2. R.lobby = L.lobby /\ R.timer[t] = x /\ \A u \in TimerId \ {t} : R.timer[u] = L.timer[u]
  BY DEF SetTimer, SoundLists, LobbyLists
<1>3. WaitingLobbiesHaveTimers(R)
  BY <1>2 DEF SoundLists, WaitingLobbiesHaveTimers
<1>4. QED
  BY <1>1, <1>3 DEF SoundLists

\* A timer ends and its lobby waits no longer, for this timer or for another.
LEMMA TimerEndsSound ==
  ASSUME NEW L \in SoundLists, NEW t \in TimerId, NEW m \in AnyLobby,
         ~m.waiting, m.timer = NoTimer, L.timer[t].lobby \in LobbyId
  PROVE  SetLobby(SetTimer(L, t, IdleTimer), L.timer[t].lobby, m) \in SoundLists
<1> DEFINE id == L.timer[t].lobby
           R == SetLobby(SetTimer(L, t, IdleTimer), id, m)
<1>1. IdleTimer \in Timers
  BY DEF IdleTimer, Timers, Owner
<1>2. R = [order |-> L.order, lobby |-> [L.lobby EXCEPT ![id] = m],
           timer |-> [L.timer EXCEPT ![t] = IdleTimer]]
  BY DEF SetLobby, SetTimer
<1>3. R \in LobbyLists
  BY <1>1, <1>2 DEF SoundLists, LobbyLists, AnyLobby
<1>4. /\ R.lobby[id] = m
      /\ \A other \in LobbyId \ {id} : R.lobby[other] = L.lobby[other]
      /\ \A u \in TimerId \ {t} : R.timer[u] = L.timer[u]
  BY <1>2 DEF SoundLists, LobbyLists
<1> HIDE DEF R
<1>5. ASSUME NEW other \in LobbyId \ {id}
      PROVE  IF R.lobby[other].waiting
             THEN /\ R.lobby[other].timer \in TimerId
                  /\ R.timer[R.lobby[other].timer].phase # "idle"
                  /\ R.timer[R.lobby[other].timer].lobby = other
             ELSE R.lobby[other].timer = NoTimer
  <2>1. L.lobby[other].waiting => L.lobby[other].timer # t
    BY SoundAt
  <2>2. QED
    BY <1>4, <2>1, SoundAt
<1>6. WaitingLobbiesHaveTimers(R)
  BY <1>4, <1>5 DEF WaitingLobbiesHaveTimers
<1>7. QED
  BY <1>3, <1>6 DEF SoundLists, R

\* A session that is destroyed leaves its timers running.
LEMMA ForgetOwnerSound ==
  ASSUME NEW L \in SoundLists, NEW c \in Conn
  PROVE  ForgetOwner(L, c) \in SoundLists
<1> DEFINE R == ForgetOwner(L, c)
<1>1. \A t \in TimerId : L.timer[t] \in Timers
  BY DEF SoundLists, LobbyLists
<1>2. \A t \in TimerId : R.timer[t] \in Timers /\ R.timer[t].phase = L.timer[t].phase
                                               /\ R.timer[t].lobby = L.timer[t].lobby
  BY <1>1 DEF ForgetOwner, Timers, Owner
<1>3. R.lobby = L.lobby /\ R.order = L.order
  BY DEF ForgetOwner
<1>4. R \in LobbyLists
  BY <1>2, <1>3 DEF ForgetOwner, SoundLists, LobbyLists
<1> HIDE DEF R
<1>5. ASSUME NEW id \in LobbyId
      PROVE  IF R.lobby[id].waiting
             THEN /\ R.lobby[id].timer \in TimerId
                  /\ R.timer[R.lobby[id].timer].phase # "idle"
                  /\ R.timer[R.lobby[id].timer].lobby = id
             ELSE R.lobby[id].timer = NoTimer
  BY <1>2, <1>3, SoundAt
<1>6. WaitingLobbiesHaveTimers(R)
  BY <1>5 DEF WaitingLobbiesHaveTimers
<1>7. QED
  BY <1>4, <1>6 DEF SoundLists, R

\* removeUser, in place.
LEMMA RemoveFromSound ==
  ASSUME NEW L \in SoundLists, NEW id \in LobbyId, NEW a
  PROVE  RemoveFrom(L, id, a) \in SoundLists
BY SoundAt, RemoveUserKeepsInvitation, SetLobbySound DEF RemoveFrom
----------------------------------------------------------------------------
(* Users who leave *)

\* The searches find identities of lobbies.
LEMMA FindIfFindsLobbies ==
  ASSUME NEW L \in SoundLists, NEW Wanted
  PROVE  FindIf(L, Wanted) \subseteq LobbyId
<1>1. L.order \in Seq(LobbyId)
  BY DEF SoundLists, LobbyLists
<1>2. \A k \in DOMAIN L.order : L.order[k] \in LobbyId
  BY <1>1
<1>3. QED
  BY <1>2 DEF FindIf

\* The searches of the handlers return identities of lobbies that are in the list.
LEMMA FirstLobbies ==
  ASSUME NEW L \in SoundLists, NEW a
  PROVE  /\ FirstLobbyOf(L, a) \subseteq LobbyId
         /\ FirstQueueOf(L, a) \subseteq LobbyId
         /\ FirstInvitationOf(L, a) \subseteq LobbyId
BY FindIfFindsLobbies DEF FirstLobbyOf, FirstQueueOf, FirstInvitationOf

\* leaveMatchMakingQueue
LEMMA LeaveQueueSound ==
  ASSUME NEW L \in SoundLists, NEW a
  PROVE  LeaveQueue(L, a) \subseteq SoundLists
<1>1. ASSUME NEW id \in FirstQueueOf(L, a)
      PROVE  /\ Erase(RemoveFrom(L, id, a), id) \in SoundLists
             /\ CancelTimer(RemoveFrom(L, id, a), id) \in SoundLists
  BY FirstLobbies, RemoveFromSound, EraseSound, CancelTimerSound
<1>2. QED
  BY <1>1 DEF LeaveQueue

\* logoutAccount
LEMMA LogoutLobbiesSound ==
  ASSUME NEW L \in SoundLists, NEW a
  PROVE  LogoutLobbies(L, a) \subseteq SoundLists
<1>1. ASSUME NEW id \in FirstLobbyOf(L, a)
      PROVE  /\ RemoveFrom(L, id, a) \in SoundLists
             /\ Erase(RemoveFrom(L, id, a), id) \in SoundLists
             /\ LeaveQueue(RemoveFrom(L, id, a), a) \subseteq SoundLists
  BY FirstLobbies, RemoveFromSound, EraseSound, LeaveQueueSound
<1>2. QED
  BY <1>1 DEF LogoutLobbies

\* cleanUp
LEMMA CleanUpLobbiesSound ==
  ASSUME NEW L \in SoundLists, NEW a
  PROVE  CleanUpLobbies(L, a) \subseteq SoundLists
<1>1. ASSUME NEW id \in FirstLobbyOf(L, a)
      PROVE  /\ Erase(RemoveFrom(L, id, a), id) \in SoundLists
             /\ CancelTimer(RemoveFrom(L, id, a), id) \in SoundLists
  BY FirstLobbies, RemoveFromSound, EraseSound, CancelTimerSound
<1>2. QED
  BY <1>1 DEF CleanUpLobbies

\* leaveGameLobby
LEMMA LeaveLobbySound ==
  ASSUME NEW L \in SoundLists, NEW id \in LobbyId, NEW a
  PROVE  LeaveLobby(L, id, a) \in SoundLists
BY RemoveFromSound, EraseSound DEF LeaveLobby
----------------------------------------------------------------------------
(* The inductive invariant *)


\* A login coroutine was started for an account that can exist; without this
\* the account it adds to the database need not be one.
JobsNameAccounts ==
  \A j \in JobId : jobs[j].phase # "idle" =>
    /\ jobs[j].account \in Registered
    /\ jobs[j].kind = "steam" => jobs[j].account \in SteamAccount

IInv == TypeOK /\ WaitingHasTimer /\ JobsNameAccounts

\* The coroutines JobsNameAccounts allows.
KnownJobs ==
  {x \in Jobs : x.phase # "idle" =>
     x.account \in Registered /\ (x.kind = "steam" => x.account \in SteamAccount)}

\* The conjuncts of TypeOK about everything but the lobby list.
SessionsTyped ==
  /\ state \in [Conn -> State]
  /\ accountName \in [Conn -> Account \cup {NoAccount}]
  /\ online \subseteq Conn
  /\ link \in [Conn -> Link]
  /\ database \subseteq Registered
  /\ jobs \in [JobId -> KnownJobs]
  /\ fault \in {"none", "dangling", "abort"}
StartsTyped ==
  /\ starts \in [StartId -> Starts]
  /\ requeue \in [users : Seq(Account), type : QueueType]

\* The invariant, as the lemmas about lobby lists use it.
LEMMA IInvParts ==
  IInv <=> SessionsTyped /\ StartsTyped /\ gameLobbies \in SoundLists
BY DEF IInv, TypeOK, WaitingHasTimer, JobsNameAccounts, KnownJobs, SoundLists,
       SessionsTyped, StartsTyped

\* The parts of IInv in the next state, to prove a step by its parts.
LEMMA IInvPartsNext ==
  IInv' <=> SessionsTyped' /\ StartsTyped' /\ gameLobbies' \in SoundLists
BY DEF IInv, TypeOK, WaitingHasTimer, JobsNameAccounts, KnownJobs, SoundLists,
       SessionsTyped, StartsTyped

\* Free identities, timers and coroutines are what their names say.
LEMMA FreeTypes ==
  /\ FreeStart \subseteq StartId
  /\ FreeJob \subseteq JobId
  /\ NewLobby \subseteq LobbyId
BY DEF FreeStart, FreeJob, NewLobby, FreeLobby, Least

\* A free timer is an idle timer of the list.
LEMMA FreeTimerType ==
  ASSUME NEW L, NEW t \in FreeTimer(L)
  PROVE  t \in TimerId /\ L.timer[t].phase = "idle"
BY DEF FreeTimer, Least

\* The list holds identities of lobbies only.
LEMMA LiveLobbies ==
  ASSUME gameLobbies \in SoundLists
  PROVE  Live(gameLobbies) \subseteq LobbyId
<1>1. gameLobbies.order \in Seq(LobbyId)
  BY DEF SoundLists, LobbyLists
<1>2. QED
  BY <1>1 DEF Live

\* The values that stand for nothing in flight have their types.
LEMMA IdleTypes ==
  /\ IdleJob \in KnownJobs
  /\ IdleStart \in Starts
  /\ NobodyToRequeue \in [users : Seq(Account), type : QueueType]
<1>1. <<>> \in Seq(Account)
  OBVIOUS
<1>2. QED
  BY <1>1 DEF IdleJob, Jobs, KnownJobs, IdleStart, Starts, NobodyToRequeue, Owner, QueueType

\* A process that stops leaves a well formed state.
LEMMA StopKeepsIInv ==
  ASSUME IInv, NEW why \in {"dangling", "abort"}, ProcessStops(why)
  PROVE  IInv'
<1>1. SessionsTyped'
  BY IInvParts, IdleTypes DEF ProcessStops, SessionsTyped, State, Link
<1>2. StartsTyped'
  BY IdleTypes DEF ProcessStops, StartsTyped
<1>3. gameLobbies' \in SoundLists
  BY NoLobbiesSound DEF ProcessStops
<1>4. QED
  BY <1>1, <1>2, <1>3, IInvPartsNext

\* The initial state.
LEMMA InitIInv == Init => IInv
<1> SUFFICES ASSUME Init PROVE IInv
  OBVIOUS
<1>1. SessionsTyped
  BY IdleTypes, AccountAssumption DEF Init, SessionsTyped, State, Link, Registered
<1>2. StartsTyped
  BY IdleTypes DEF Init, StartsTyped
<1>3. gameLobbies \in SoundLists
  BY NoLobbiesSound DEF Init
<1>4. QED
  BY <1>1, <1>2, <1>3, IInvParts
----------------------------------------------------------------------------
(* Sessions *)

\* A destroyed session is forgotten by its coroutines.
LEMMA ForgottenTypes ==
  ASSUME IInv, NEW c \in Conn
  PROVE  /\ ForgottenStarts(c) \in [StartId -> Starts]
         /\ ForgottenJobs(c) \in [JobId -> KnownJobs]
<1>1. \A s \in StartId : starts[s] \in Starts
  BY IInvParts DEF StartsTyped
<1>2. \A s \in StartId : [starts[s] EXCEPT !.owner = Gone] \in Starts
  BY <1>1 DEF Starts, Owner
<1>3. \A j \in JobId : jobs[j] \in KnownJobs
  BY IInvParts DEF SessionsTyped
<1>4. \A j \in JobId : [jobs[j] EXCEPT !.conn = Gone] \in KnownJobs
  BY <1>3 DEF Jobs, KnownJobs, Owner
<1>5. QED
  BY <1>1, <1>2, <1>3, <1>4, IdleTypes DEF ForgottenStarts, ForgottenJobs

\* A new login coroutine.
LEMMA StartJobType ==
  ASSUME IInv, NEW c \in Conn, NEW a \in Registered,
         NEW kind \in {"hash", "check", "steam"}, StartJob(c, kind, a),
         kind = "steam" => a \in SteamAccount
  PROVE  jobs' \in [JobId -> KnownJobs]
<1>1. [phase |-> "running", kind |-> kind, conn |-> c, account |-> a,
       ok |-> FALSE] \in KnownJobs
  BY DEF Jobs, KnownJobs, Owner, Registered
<1>2. jobs \in [JobId -> KnownJobs]
  BY IInvParts DEF SessionsTyped
<1>3. QED
  BY <1>1, <1>2, FreeTypes DEF StartJob

\* logoutAccount leaves a sound list and well typed account names.
LEMMA LeaveAccountTypes ==
  ASSUME IInv, NEW c \in Conn, LeaveAccount(c)
  PROVE  /\ gameLobbies' \in SoundLists
         /\ accountName' \in [Conn -> Account \cup {NoAccount}]
<1>1. gameLobbies' \in SoundLists
  BY IInvParts, LogoutLobbiesSound DEF LeaveAccount
<1>2. QED
  BY <1>1, IInvParts DEF LeaveAccount, SessionsTyped

\* hashPassword and checkPassword, with the logout that may come first, keep the
\* types and the list sound.
LEMMA SpawnPasswordJobTypes ==
  ASSUME IInv, NEW c \in Conn, NEW a \in Registered, NEW kind \in {"hash", "check"},
         SpawnPasswordJob(c, kind, a)
  PROVE  /\ gameLobbies' \in SoundLists
         /\ accountName' \in [Conn -> Account \cup {NoAccount}]
         /\ jobs' \in [JobId -> KnownJobs]
<1>1. CASE StartJob(c, kind, a) /\ UNCHANGED <<accountName, gameLobbies>>
  BY <1>1, IInvParts, StartJobType DEF SessionsTyped
<1>2. CASE LeaveAccount(c) /\ StartJob(c, kind, a)
  BY <1>2, StartJobType, LeaveAccountTypes
<1>3. CASE UNCHANGED <<accountName, gameLobbies, jobs>>
  BY <1>3, IInvParts DEF SessionsTyped
<1>4. QED
  BY <1>1, <1>2, <1>3 DEF SpawnPasswordJob

\* cleanUp of a client that disconnects keeps the invariant.
LEMMA DisconnectKeepsIInv ==
  ASSUME IInv, NEW c \in Conn, Disconnect(c)
  PROVE  IInv'
<1>1. PICK L \in CleanUpLobbies(gameLobbies, accountName[c]) :
        \/ /\ GoTo(c, "Closed")
           /\ gameLobbies' = ForgetOwner(L, c)
           /\ starts' = ForgottenStarts(c)
           /\ jobs' = ForgottenJobs(c)
           /\ UNCHANGED link
        \/ /\ link' = IF state[c] = "ProxyToGame"
                      THEN [link EXCEPT ![c] = "closing"] ELSE link
           /\ gameLobbies' = L
           /\ UNCHANGED <<state, starts, jobs>>
  BY DEF Disconnect
<1>2. L \in SoundLists
  BY IInvParts, CleanUpLobbiesSound
<1>3. gameLobbies' \in SoundLists
  BY <1>1, <1>2, ForgetOwnerSound
<1>4. StartsTyped'
  BY <1>1, IInvParts, ForgottenTypes DEF Disconnect, StartsTyped
<1>5. SessionsTyped'
  BY <1>1, IInvParts, ForgottenTypes DEF Disconnect, SessionsTyped, GoTo, State, Link
<1>6. QED
  BY <1>3, <1>4, <1>5, IInvPartsNext

\* The requests of AccountLogin: one step per action of a client.
LEMMA ClientLoginKeepsIInv ==
  ASSUME IInv, NEW c \in Conn,
         \/ Connect(c) \/ Disconnect(c)
         \/ CancelRequest(c) \/ RelogTo(c) \/ LogoutAccount(c)
         \/ \E g \in Guest : LoginAsGuest(c, g)
         \/ \E a \in Registered : CreateAccount(c, a) \/ LoginAccount(c, a)
         \/ \E a \in SteamAccount : LoginAccountSteam(c, a)
  PROVE  IInv'
<1> USE DEF GoTo, State
<1>0. SessionsTyped /\ StartsTyped /\ gameLobbies \in SoundLists
  BY IInvParts
<1>1. CASE Connect(c)
  <2>1. SessionsTyped' /\ StartsTyped' /\ gameLobbies' \in SoundLists
    BY <1>0, <1>1 DEF Connect, SessionsTyped, StartsTyped
  <2>2. QED
    BY <2>1, IInvPartsNext
<1>2. CASE Disconnect(c)
  BY <1>2, DisconnectKeepsIInv
<1>3. CASE CancelRequest(c)
  <2>1. jobs' \in [JobId -> KnownJobs]
    BY <1>0, <1>3, IdleTypes DEF CancelRequest, SessionsTyped
  <2>2. SessionsTyped' /\ StartsTyped' /\ gameLobbies' \in SoundLists
    BY <1>0, <1>3, <2>1 DEF CancelRequest, SessionsTyped, StartsTyped
  <2>3. QED
    BY <2>2, IInvPartsNext
<1>4. CASE RelogTo(c)
  <2>1. SessionsTyped' /\ StartsTyped' /\ gameLobbies' \in SoundLists
    BY <1>0, <1>4 DEF RelogTo, SessionsTyped, StartsTyped
  <2>2. QED
    BY <2>1, IInvPartsNext
<1>5. CASE LogoutAccount(c)
  <2>1. SessionsTyped' /\ StartsTyped' /\ gameLobbies' \in SoundLists
    BY <1>0, <1>5, LeaveAccountTypes DEF LogoutAccount, SessionsTyped, StartsTyped
  <2>2. QED
    BY <2>1, IInvPartsNext
<1>6. ASSUME NEW g \in Guest, LoginAsGuest(c, g) PROVE IInv'
  <2>1. SessionsTyped' /\ StartsTyped' /\ gameLobbies' \in SoundLists
    BY <1>0, <1>6, AccountAssumption DEF LoginAsGuest, SessionsTyped, StartsTyped
  <2>2. QED
    BY <2>1, IInvPartsNext
<1>7. ASSUME NEW a \in Registered, CreateAccount(c, a) PROVE IInv'
  <2>1. /\ gameLobbies' \in SoundLists
        /\ accountName' \in [Conn -> Account \cup {NoAccount}]
        /\ jobs' \in [JobId -> KnownJobs]
    BY <1>7, SpawnPasswordJobTypes DEF CreateAccount
  <2>2. SessionsTyped' /\ StartsTyped'
    BY <1>0, <1>7, <2>1 DEF CreateAccount, SessionsTyped, StartsTyped
  <2>3. QED
    BY <2>1, <2>2, IInvPartsNext
<1>8. ASSUME NEW a \in Registered, LoginAccount(c, a) PROVE IInv'
  <2>1. /\ gameLobbies' \in SoundLists
        /\ accountName' \in [Conn -> Account \cup {NoAccount}]
        /\ jobs' \in [JobId -> KnownJobs]
    BY <1>8, SpawnPasswordJobTypes DEF LoginAccount
  <2>2. SessionsTyped' /\ StartsTyped'
    BY <1>0, <1>8, <2>1 DEF LoginAccount, SessionsTyped, StartsTyped
  <2>3. QED
    BY <2>1, <2>2, IInvPartsNext
<1>9. ASSUME NEW a \in SteamAccount, LoginAccountSteam(c, a) PROVE IInv'
  <2>1. jobs' \in [JobId -> KnownJobs]
    BY <1>9, StartJobType, AccountAssumption DEF LoginAccountSteam, Registered
  <2>2. SessionsTyped' /\ StartsTyped' /\ gameLobbies' \in SoundLists
    BY <1>0, <1>9, <2>1 DEF LoginAccountSteam, SessionsTyped, StartsTyped
  <2>3. QED
    BY <2>2, IInvPartsNext
<1>10. QED
  BY <1>1, <1>2, <1>3, <1>4, <1>5, <1>6, <1>7, <1>8, <1>9

\* Whoever logs in with the result of a coroutine gets an account.
LEMMA LogInTypes ==
  ASSUME SessionsTyped, NEW c \in Conn, NEW a \in Account, LogIn(c, a)
  PROVE  /\ state' \in [Conn -> State]
         /\ accountName' \in [Conn -> Account \cup {NoAccount}]
BY DEF LogIn, GoTo, State, SessionsTyped

\* The coroutines of AccountLogin.
LEMMA LoginJobKeepsIInv ==
  ASSUME IInv, NEW j \in JobId,
         \/ \E ok \in BOOLEAN : PasswordJobDone(j, ok)
         \/ PasswordHashed(j) \/ PasswordChecked(j) \/ StaleResult(j)
         \/ SteamLoginSuccess(j) \/ SteamLoginError(j) \/ SteamRequestFails(j)
         \/ ResumesAfterDisconnect(j)
  PROVE  IInv'
<1> DEFINE c == jobs[j].conn
           a == jobs[j].account
<1>0. /\ SessionsTyped /\ StartsTyped /\ gameLobbies \in SoundLists
      /\ jobs[j] \in KnownJobs
      /\ [jobs EXCEPT ![j] = IdleJob] \in [JobId -> KnownJobs]
  BY IInvParts, IdleTypes DEF SessionsTyped
<1>1. ASSUME NEW kind, NEW phase, phase # "idle", Resumes(j, kind, phase)
      PROVE  /\ StartsTyped' /\ gameLobbies' \in SoundLists
             /\ c \in Conn /\ a \in Registered /\ a \in Account
             /\ jobs' \in [JobId -> KnownJobs]
             /\ online' = online /\ link' = link /\ fault' = fault
  BY <1>0, <1>1 DEF Resumes, StartsTyped, KnownJobs, Registered
<1>2. ASSUME NEW ok \in BOOLEAN, PasswordJobDone(j, ok) PROVE IInv'
  <2>1. [jobs[j] EXCEPT !.phase = "done", !.ok = ok] \in KnownJobs
    BY <1>0, <1>2 DEF PasswordJobDone, KnownJobs, Jobs
  <2>2. jobs' = [jobs EXCEPT ![j] = [jobs[j] EXCEPT !.phase = "done", !.ok = ok]]
    BY <1>0, <1>2 DEF PasswordJobDone, KnownJobs, Jobs, SessionsTyped
  <2>3. SessionsTyped' /\ StartsTyped' /\ gameLobbies' \in SoundLists
    BY <1>0, <1>2, <2>1, <2>2 DEF PasswordJobDone, SessionsTyped, StartsTyped, sessionVars
  <2>4. QED
    BY <2>3, IInvPartsNext
<1>3. CASE PasswordHashed(j)
  <2>1. Resumes(j, "hash", "done")
    BY <1>3 DEF PasswordHashed
  <2>2. SessionsTyped'
    BY <1>0, <1>1, <1>3, <2>1, LogInTypes DEF PasswordHashed, SessionsTyped, GoTo, State
  <2>3. QED
    BY <1>1, <2>1, <2>2, IInvPartsNext
<1>4. CASE PasswordChecked(j)
  <2>1. Resumes(j, "check", "done")
    BY <1>4 DEF PasswordChecked
  <2>2. SessionsTyped'
    BY <1>0, <1>1, <1>4, <2>1, LogInTypes DEF PasswordChecked, SessionsTyped, GoTo, State
  <2>3. QED
    BY <1>1, <2>1, <2>2, IInvPartsNext
<1>5. CASE StaleResult(j)
  <2>1. PICK kind : Resumes(j, kind, "done")
    BY <1>5 DEF StaleResult
  <2>2. SessionsTyped'
    BY <1>0, <1>1, <1>5, <2>1 DEF StaleResult, SessionsTyped
  <2>3. QED
    BY <1>1, <2>1, <2>2, IInvPartsNext
<1>6. CASE SteamLoginSuccess(j)
  <2>1. Resumes(j, "steam", "running")
    BY <1>6 DEF SteamLoginSuccess
  <2>2. SessionsTyped'
    BY <1>0, <1>1, <1>6, <2>1, LogInTypes DEF SteamLoginSuccess, SessionsTyped
  <2>3. QED
    BY <1>1, <2>1, <2>2, IInvPartsNext
<1>7. CASE SteamLoginError(j)
  <2>1. Resumes(j, "steam", "running")
    BY <1>7 DEF SteamLoginError
  <2>2. SessionsTyped'
    BY <1>0, <1>1, <1>7, <2>1 DEF SteamLoginError, SessionsTyped, GoTo, State
  <2>3. QED
    BY <1>1, <2>1, <2>2, IInvPartsNext
<1>8. CASE SteamRequestFails(j)
  <2>1. SessionsTyped' /\ StartsTyped' /\ gameLobbies' \in SoundLists
    BY <1>0, <1>8 DEF SteamRequestFails, SessionsTyped, StartsTyped, sessionVars
  <2>2. QED
    BY <2>1, IInvPartsNext
<1>9. CASE ResumesAfterDisconnect(j)
  BY <1>9, StopKeepsIInv DEF ResumesAfterDisconnect, UsesDestroyedObject
<1>10. QED
  BY <1>2, <1>3, <1>4, <1>5, <1>6, <1>7, <1>8, <1>9
----------------------------------------------------------------------------
(* Lobbies of users *)

\* A step that changes nothing but the lobby list.
LEMMA OnlyListsChange ==
  ASSUME IInv, gameLobbies' \in SoundLists,
         UNCHANGED <<sessionVars, database, jobs, starts, requeue, fault>>
  PROVE  IInv'
BY IInvParts, IInvPartsNext DEF SessionsTyped, StartsTyped, sessionVars

\* A user joins a lobby of the list.
LEMMA JoinSound ==
  ASSUME NEW L \in SoundLists, NEW id \in LobbyId, NEW a \in Account
  PROVE  SetLobby(L, id, AddUser(L.lobby[id], a)) \in SoundLists
BY SoundAt, AddUserKeepsInvitation, SetLobbySound

\* A user opens a lobby.
LEMMA OpenSound ==
  ASSUME NEW L \in SoundLists, NEW id \in LobbyId, NEW a \in Account,
         NEW m \in AnyLobby, ~m.waiting, m.timer = NoTimer
  PROVE  Emplace(L, id, AddUser(m, a)) \in SoundLists
BY AddUserKeepsInvitation, EmplaceSound DEF SameInvitation

\* Requests about lobbies of users keep the invariant.
LEMMA CustomLobbyKeepsIInv ==
  ASSUME IInv, CustomLobbyNext
  PROVE  IInv'
<1>0. gameLobbies \in SoundLists /\ SessionsTyped
  BY IInvParts
<1>1. ASSUME NEW c \in Conn, HasAccount(c) PROVE accountName[c] \in Account
  BY <1>0, <1>1 DEF HasAccount, SessionsTyped
<1>2. ASSUME NEW c \in Conn, NEW n \in LobbyName, CreateGameLobby(c, n) PROVE IInv'
  <2>1. /\ [EmptyLobby EXCEPT !.name = n] \in AnyLobby
        /\ ~[EmptyLobby EXCEPT !.name = n].waiting
        /\ [EmptyLobby EXCEPT !.name = n].timer = NoTimer
    BY EmptyLobbyType DEF AnyLobby, Lobbies
  <2>2. gameLobbies' \in SoundLists
    BY <1>0, <1>1, <1>2, <2>1, FreeTypes, OpenSound DEF CreateGameLobby
  <2>3. QED
    BY <1>2, <2>2, OnlyListsChange DEF CreateGameLobby
<1>3. ASSUME NEW c \in Conn, NEW n \in LobbyName, JoinGameLobby(c, n) PROVE IInv'
  <2>1. LobbiesNamed(gameLobbies, n) \subseteq LobbyId
    BY <1>0, LiveLobbies DEF LobbiesNamed
  <2>2. gameLobbies' \in SoundLists
    BY <1>0, <1>1, <1>3, <2>1, JoinSound DEF JoinGameLobby
  <2>3. QED
    BY <1>3, <2>2, OnlyListsChange DEF JoinGameLobby
<1>4. ASSUME NEW c \in Conn, NEW n \in MaxUserSize,
             SetMaxUserSizeInCreateGameLobby(c, n)
      PROVE  IInv'
  <2>1. PICK id \in FirstLobbyOf(gameLobbies, accountName[c]) :
          gameLobbies' = SetLobby(gameLobbies, id,
                           [gameLobbies.lobby[id] EXCEPT !.maxUserCount = n])
    BY <1>4 DEF SetMaxUserSizeInCreateGameLobby
  <2>2. id \in LobbyId
    BY <1>0, FirstLobbies
  <2>3. SameInvitation(gameLobbies.lobby[id],
                       [gameLobbies.lobby[id] EXCEPT !.maxUserCount = n])
    BY <1>0, <2>2, SoundAt, SizeAssumption DEF SameInvitation, AnyLobby, Lobbies
  <2>4. gameLobbies' \in SoundLists
    BY <1>0, <2>1, <2>2, <2>3, SetLobbySound
  <2>5. QED
    BY <1>4, <2>4, OnlyListsChange DEF SetMaxUserSizeInCreateGameLobby
<1>5. ASSUME NEW c \in Conn, LeaveGameLobby(c) PROVE IInv'
  <2>1. gameLobbies' \in SoundLists
    BY <1>0, <1>5, FirstLobbies, LeaveLobbySound DEF LeaveGameLobby
  <2>2. QED
    BY <1>5, <2>1, OnlyListsChange DEF LeaveGameLobby
<1>6. QED
  BY <1>2, <1>3, <1>4, <1>5 DEF CustomLobbyNext
----------------------------------------------------------------------------
(* Queues and invitations *)

\* askUsersToJoinGame, with a free timer, for a lobby that has users.
LEMMA AskSound ==
  ASSUME NEW L \in SoundLists, NEW id \in LobbyId, NEW t \in FreeTimer(L),
         NEW c \in Conn, Len(L.lobby[id].accountNames) >= 1
  PROVE  AskUsersToJoinGame(L, id, t, c) \in SoundLists
<1> DEFINE A == StartTimer(L, id, t, c)
           l == A.lobby[id]
           m == [l EXCEPT !.readyUsers = Append(l.readyUsers, l.accountNames[1])]
<1>1. A \in SoundLists
  BY FreeTimerType, StartTimerSound DEF Owner
<1>2. l = StartWaiting(L.lobby[id], t)
  BY DEF StartTimer, SoundLists, LobbyLists
<1>3. l \in AnyLobby /\ l.accountNames = L.lobby[id].accountNames
  BY <1>1, <1>2, SoundAt DEF StartWaiting, AnyLobby, Lobbies
<1>4. l.accountNames \in Seq(Account) /\ l.readyUsers \in Seq(Account)
  BY <1>3 DEF AnyLobby, Lobbies
<1>5. l.accountNames[1] \in Account
  BY <1>3, <1>4
<1>6. Append(l.readyUsers, l.accountNames[1]) \in Seq(Account)
  BY <1>4, <1>5
<1>7. SameInvitation(l, m)
  BY <1>3, <1>6 DEF SameInvitation, AnyLobby, Lobbies
<1>8. SetLobby(A, id, m) \in SoundLists
  BY <1>1, <1>7, SetLobbySound
<1>9. QED
  BY <1>1, <1>8 DEF AskUsersToJoinGame

\* joinMatchMakingQueue and matchingLobby.
LEMMA EnterQueueSound ==
  ASSUME IInv, NEW c \in Conn, accountName[c] \in Account,
         NEW type \in QueueType, EnterQueue(c, type)
  PROVE  gameLobbies' \in SoundLists
<1> DEFINE a == accountName[c]
           l(id) == gameLobbies.lobby[id]
           Joined(id) == SetLobby(gameLobbies, id, AddUser(l(id), a))
           Opened == [EmptyLobby EXCEPT !.lobbyAdminType = type,
                                        !.maxUserCount = UsersNeeded[type]]
<1>0. gameLobbies \in SoundLists
  BY IInvParts
<1>1. LobbyToAddUser(a, type) \subseteq LobbyId
  <2>1. gameLobbies.order \in Seq(LobbyId)
    BY <1>0 DEF SoundLists, LobbyLists
  <2>2. QED
    BY <2>1 DEF LobbyToAddUser
<1>2. ASSUME NEW id \in LobbyToAddUser(a, type)
      PROVE  /\ Joined(id) \in SoundLists
             /\ \A t \in FreeTimer(Joined(id)) :
                  AskUsersToJoinGame(Joined(id), id, t, c) \in SoundLists
  <2>1. Joined(id) \in SoundLists
    BY <1>0, <1>1, JoinSound
  <2>2. Joined(id).lobby[id] = AddUser(l(id), a)
    BY <1>0, <1>1 DEF SetLobby, SoundLists, LobbyLists
  <2>3. l(id) \in AnyLobby
    BY <1>0, <1>1, SoundAt
  <2> HIDE DEF Joined, l
  <2>4. l(id).accountNames \in Seq(Account)
    BY <2>3 DEF AnyLobby, Lobbies
  <2>5. Joined(id).lobby[id].accountNames = Append(l(id).accountNames, a)
    BY <2>2, <2>3 DEF AddUser, AnyLobby, Lobbies
  <2>6. Len(Joined(id).lobby[id].accountNames) >= 1
    BY <2>4, <2>5
  <2>7. QED
    BY <1>1, <2>1, <2>6, AskSound
<1>3. Opened \in AnyLobby /\ ~Opened.waiting /\ Opened.timer = NoTimer
  BY EmptyLobbyType, QueueAssumption DEF AnyLobby, Lobbies, LobbyType
<1>4. \A id \in NewLobby : Emplace(gameLobbies, id, AddUser(Opened, a)) \in SoundLists
  BY <1>0, <1>3, FreeTypes, OpenSound
<1>5. QED
  BY <1>2, <1>4 DEF EnterQueue

\* Joining, leaving and being put back in a queue keep the invariant.
LEMMA QueueKeepsIInv ==
  ASSUME IInv, MatchmakingQueueNext
  PROVE  IInv'
<1>0. SessionsTyped /\ StartsTyped /\ gameLobbies \in SoundLists
  BY IInvParts
<1>1. ASSUME NEW c \in Conn, NEW type \in Offered, JoinMatchMakingQueue(c, type)
      PROVE  IInv'
  <2>1. accountName[c] \in Account /\ type \in QueueType
    BY <1>0, <1>1, QueueAssumption DEF JoinMatchMakingQueue, SessionsTyped
  <2>2. CASE ProcessStops("abort")
    BY <2>2, StopKeepsIInv
  <2>3. CASE EnterQueue(c, type)
             /\ UNCHANGED <<sessionVars, database, jobs, starts, requeue, fault>>
    BY <2>1, <2>3, EnterQueueSound, OnlyListsChange
  <2>4. QED
    BY <1>1, <2>2, <2>3 DEF JoinMatchMakingQueue
<1>2. ASSUME NEW c \in Conn, LeaveQuickGameQueue(c) PROVE IInv'
  <2>1. gameLobbies' \in SoundLists
    BY <1>0, <1>2, LeaveQueueSound DEF LeaveQuickGameQueue
  <2>2. QED
    BY <1>2, <2>1, OnlyListsChange DEF LeaveQuickGameQueue
<1>3. CASE Requeue
  <2> DEFINE a == Head(requeue.users)
             others == Tail(requeue.users)
  <2>1. CASE ProcessStops("abort")
    BY <2>1, StopKeepsIInv
  <2>2. CASE ~ProcessStops("abort")
    <3>1. /\ requeue.users \in Seq(Account) /\ requeue.type \in QueueType
          /\ requeue.users # <<>>
      BY <1>0, <1>3 DEF Requeue, StartsTyped
    <3>2. a \in Account /\ others \in Seq(Account)
      BY <3>1
    <3>3. \/ \E c \in SessionsOf(a) : EnterQueue(c, requeue.type)
          \/ UNCHANGED gameLobbies
      BY <1>3, <2>2 DEF Requeue
    <3>4. gameLobbies' \in SoundLists
      BY <1>0, <3>1, <3>2, <3>3, EnterQueueSound DEF SessionsOf
    <3>5. /\ requeue' = IF others = <<>> THEN NobodyToRequeue
                        ELSE [requeue EXCEPT !.users = others]
          /\ UNCHANGED <<sessionVars, database, jobs, starts, fault>>
      BY <1>3, <2>2 DEF Requeue
    <3>6. SessionsTyped' /\ StartsTyped'
      BY <1>0, <3>2, <3>5, IdleTypes DEF SessionsTyped, StartsTyped, sessionVars
    <3>7. QED
      BY <3>4, <3>6, IInvPartsNext
  <2>3. QED
    BY <2>1, <2>2
<1>4. QED
  BY <1>1, <1>2, <1>3 DEF MatchmakingQueueNext

\* A coroutine that starts a game.
LEMMA SpawnStartGameType ==
  ASSUME IInv, NEW s \in FreeStart, NEW id \in LobbyId, NEW c \in Conn,
         NEW handler \in BOOLEAN, SpawnStartGame(s, id, c, handler)
  PROVE  starts' \in [StartId -> Starts]
<1>1. [phase |-> "connecting", lobby |-> id, owner |-> c, handler |-> handler]
        \in Starts
  BY DEF Starts, Owner
<1>2. QED
  BY <1>1, IInvParts, FreeTypes DEF SpawnStartGame, StartsTyped

\* The users of a lobby are accounts.
LEMMA LobbyUsers ==
  ASSUME NEW l \in AnyLobby
  PROVE  Ready(l) \subseteq Account /\ Len(l.accountNames) \in Nat
<1>1. l.readyUsers \in Seq(Account) /\ l.accountNames \in Seq(Account)
  BY DEF AnyLobby, Lobbies
<1>2. \A i \in DOMAIN l.readyUsers : l.readyUsers[i] \in Account
  BY <1>1
<1>3. QED
  BY <1>1, <1>2 DEF Ready

\* A lobby of a queue is erased and its users are put back.
LEMMA DissolveTypes ==
  ASSUME NEW L \in SoundLists, NEW id \in LobbyId, NEW users \in Seq(Account),
         L.lobby[id].lobbyAdminType \in QueueType, DissolveQueueLobby(L, id, users)
  PROVE  /\ gameLobbies' \in SoundLists
         /\ requeue' \in [users : Seq(Account), type : QueueType]
BY EraseSound, IdleTypes DEF DissolveQueueLobby

\* A step that changes the lobby list, the coroutines that start games and the
\* users to put back.
LEMMA ListsAndStartsChange ==
  ASSUME IInv, gameLobbies' \in SoundLists, StartsTyped',
         UNCHANGED <<sessionVars, database, jobs, fault>>
  PROVE  IInv'
BY IInvParts, IInvPartsNext DEF SessionsTyped, sessionVars

\* createGame keeps the invariant: it asks only where no wait is running.
LEMMA CreateGameKeepsIInv ==
  ASSUME IInv, NEW c \in Conn, CreateGame(c)
  PROVE  IInv'
<1>0. SessionsTyped /\ StartsTyped /\ gameLobbies \in SoundLists
  BY IInvParts
<1>1. PICK id \in FirstLobbyOf(gameLobbies, accountName[c]) :
        \/ /\ Len(gameLobbies.lobby[id].accountNames) > 1
           /\ \E t \in FreeTimer(gameLobbies) :
                gameLobbies' = AskUsersToJoinGame(gameLobbies, id, t, c)
           /\ UNCHANGED starts
        \/ /\ \E s \in FreeStart : SpawnStartGame(s, id, c, FALSE)
           /\ UNCHANGED gameLobbies
  BY DEF CreateGame
<1>2. id \in LobbyId
  BY <1>0, FirstLobbies
<1>3. gameLobbies.lobby[id].accountNames \in Seq(Account)
  BY <1>0, <1>2, SoundAt DEF AnyLobby, Lobbies
<1>4. gameLobbies' \in SoundLists
  <2>1. ASSUME NEW t \in FreeTimer(gameLobbies),
               Len(gameLobbies.lobby[id].accountNames) > 1
        PROVE  AskUsersToJoinGame(gameLobbies, id, t, c) \in SoundLists
    <3>1. Len(gameLobbies.lobby[id].accountNames) >= 1
      BY <1>3, <2>1
    <3>2. QED
      BY <1>0, <1>2, <3>1, AskSound
  <2>2. QED
    BY <1>0, <1>1, <2>1
<1>5. starts' \in [StartId -> Starts]
  BY <1>0, <1>1, <1>2, SpawnStartGameType DEF StartsTyped
<1>6. StartsTyped'
  BY <1>0, <1>5 DEF CreateGame, StartsTyped
<1>7. QED
  BY <1>4, <1>6, ListsAndStartsChange DEF CreateGame

\* An acceptance keeps the invariant.
LEMMA AcceptGameKeepsIInv ==
  ASSUME IInv, NEW c \in Conn, AcceptGame(c)
  PROVE  IInv'
<1> DEFINE a == accountName[c]
<1>0. SessionsTyped /\ StartsTyped /\ gameLobbies \in SoundLists
  BY IInvParts
<1>1. PICK id \in FirstInvitationOf(gameLobbies, a) :
        /\ gameLobbies' = SetLobby(gameLobbies, id, AcceptedBy(gameLobbies.lobby[id], a))
        /\ \/ \E s \in FreeStart : SpawnStartGame(s, id, c, TRUE)
           \/ UNCHANGED starts
  BY DEF AcceptGame
<1>2. id \in LobbyId
  BY <1>0, FirstLobbies
<1>3. a \in Account
  <2>1. id \in With(gameLobbies, a)
    BY <1>1 DEF FirstInvitationOf, FindIf
  <2>2. a \in Members(gameLobbies.lobby[id])
    BY <2>1 DEF With
  <2>3. gameLobbies.lobby[id].accountNames \in Seq(Account)
    BY <1>0, <1>2, SoundAt DEF AnyLobby, Lobbies
  <2>4. QED
    BY <2>2, <2>3 DEF Members
<1>4. SameInvitation(gameLobbies.lobby[id], AcceptedBy(gameLobbies.lobby[id], a))
  <2>1. gameLobbies.lobby[id] \in AnyLobby
    BY <1>0, <1>2, SoundAt
  <2>2. gameLobbies.lobby[id].readyUsers \in Seq(Account)
    BY <2>1 DEF AnyLobby, Lobbies
  <2>3. Append(gameLobbies.lobby[id].readyUsers, a) \in Seq(Account)
    BY <1>3, <2>2
  <2>4. QED
    BY <2>1, <2>3 DEF SameInvitation, AcceptedBy, AnyLobby, Lobbies
<1>5. gameLobbies' \in SoundLists
  BY <1>0, <1>1, <1>2, <1>4, SetLobbySound
<1>6. starts' \in [StartId -> Starts]
  BY <1>0, <1>1, <1>2, SpawnStartGameType DEF StartsTyped
<1>7. StartsTyped'
  BY <1>0, <1>6 DEF AcceptGame, StartsTyped
<1>8. QED
  BY <1>5, <1>7, ListsAndStartsChange DEF AcceptGame

\* A refusal keeps the invariant: the lobby is erased or its timer cancelled.
LEMMA DeclineGameKeepsIInv ==
  ASSUME IInv, NEW c \in Conn, DeclineGame(c)
  PROVE  IInv'
<1> DEFINE a == accountName[c]
           l(id) == gameLobbies.lobby[id]
<1>0. SessionsTyped /\ StartsTyped /\ gameLobbies \in SoundLists
  BY IInvParts
<1>1. PICK id \in FirstInvitationOf(gameLobbies, a) :
        \/ /\ l(id).lobbyAdminType \in QueueType
           /\ DissolveQueueLobby(gameLobbies, id, RemoveUser(l(id), a).accountNames)
        \/ /\ gameLobbies' = CancelTimer(gameLobbies, id)
           /\ UNCHANGED requeue
  BY DEF DeclineGame
<1>2. id \in LobbyId
  BY <1>0, FirstLobbies
<1>3. RemoveUser(l(id), a).accountNames \in Seq(Account)
  BY <1>0, <1>2, SoundAt, RemoveUserKeepsInvitation DEF SameInvitation, AnyLobby, Lobbies
<1>4. /\ gameLobbies' \in SoundLists
      /\ requeue' \in [users : Seq(Account), type : QueueType]
  BY <1>0, <1>1, <1>2, <1>3, DissolveTypes, CancelTimerSound DEF StartsTyped
<1>5. StartsTyped'
  BY <1>0, <1>4 DEF DeclineGame, StartsTyped
<1>6. QED
  BY <1>4, <1>5, ListsAndStartsChange DEF DeclineGame

\* A timer that expires is not idle and keeps its lobby.
LEMMA TimerExpiresKeepsIInv ==
  ASSUME IInv, NEW t \in TimerId, TimerExpires(t)
  PROVE  IInv'
<1> DEFINE x == [gameLobbies.timer[t] EXCEPT !.phase = "expired"]
<1>0. gameLobbies \in SoundLists
  BY IInvParts
<1>1. gameLobbies.timer[t] \in Timers
  BY <1>0 DEF SoundLists, LobbyLists
<1>2. x \in Timers /\ x.phase # "idle" /\ x.lobby = gameLobbies.timer[t].lobby
  BY <1>1 DEF Timers
<1>3. gameLobbies' \in SoundLists
  BY <1>0, <1>2, SetTimerSound DEF TimerExpires
<1>4. QED
  BY <1>3, OnlyListsChange DEF TimerExpires

\* What runTimer does: the lobby of the timer waits no more, and a lobby of a queue is
\* dissolved.
TimerLobby(t) == gameLobbies.timer[t].lobby
FiredList(t) ==
  SetLobby(SetTimer(gameLobbies, t, IdleTimer), TimerLobby(t),
           InvitationExpired(Lobby(TimerLobby(t))))

LEMMA TimerHasFired ==
  ASSUME NEW t \in TimerId, TimerFires(t)
  PROVE  \/ UsesDestroyedObject
         \/ /\ TimerLobby(t) \in Live(gameLobbies)
            /\ \/ /\ Lobby(TimerLobby(t)).lobbyAdminType \in QueueType
                  /\ \E users \in ReadyInOrder(Lobby(TimerLobby(t))) :
                       DissolveQueueLobby(FiredList(t), TimerLobby(t), users)
               \/ /\ Lobby(TimerLobby(t)).lobbyAdminType = Custom
                  /\ gameLobbies' = FiredList(t)
                  /\ UNCHANGED requeue
            /\ UNCHANGED <<sessionVars, database, jobs, starts, fault>>
<1> DEFINE id == TimerLobby(t)
           L == SetTimer(gameLobbies, t, IdleTimer)
           R == SetLobby(L, id, InvitationExpired(L.lobby[id]))
<1>1. \/ UsesDestroyedObject
      \/ /\ id \in Live(gameLobbies)
         /\ \/ /\ L.lobby[id].lobbyAdminType \in QueueType
               /\ \E users \in ReadyInOrder(L.lobby[id]) : DissolveQueueLobby(R, id, users)
            \/ L.lobby[id].lobbyAdminType = Custom /\ gameLobbies' = R /\ UNCHANGED requeue
         /\ UNCHANGED <<sessionVars, database, jobs, starts, fault>>
  BY Zenon DEF TimerFires, TimerLobby
<1>2. L.lobby[id] = Lobby(id)
  BY DEF SetTimer, Lobby
<1>3. R = FiredList(t)
  BY <1>2 DEF FiredList
<1> HIDE DEF R, L, id
<1>4. QED
  BY <1>1, <1>2, <1>3 DEF id

\* runTimer keeps the invariant: the lobby of the timer that fires waits no more,
\* so that no lobby is left to wait for an idle timer.
LEMMA TimerFiresKeepsIInv ==
  ASSUME IInv, NEW t \in TimerId, TimerFires(t)
  PROVE  IInv'
<1> DEFINE id == TimerLobby(t)
           l == Lobby(id)
           R == FiredList(t)
<1>0. SessionsTyped /\ StartsTyped /\ gameLobbies \in SoundLists
  BY IInvParts
<1>1. CASE UsesDestroyedObject
  BY <1>1, StopKeepsIInv DEF UsesDestroyedObject
<1>2. CASE ~UsesDestroyedObject
  <2>1. id \in LobbyId
    BY <1>0, <1>2, LiveLobbies, TimerHasFired
  <2>2. l \in AnyLobby
    BY <1>0, <2>1, SoundAt DEF Lobby
  <2>3. R \in SoundLists
    BY <1>0, <2>1, <2>2, InvitationExpiredType, TimerEndsSound DEF FiredList, TimerLobby
  <2>4. R.lobby[id] = InvitationExpired(l)
    BY <1>0, <2>1 DEF FiredList, SetLobby, SetTimer, SoundLists, LobbyLists
  <2>5. R.lobby[id].lobbyAdminType = l.lobbyAdminType
    BY <2>2, <2>4 DEF InvitationExpired, AnyLobby, Lobbies
  <2>6. Ready(l) \subseteq Account /\ Len(l.accountNames) \in Nat
    BY <2>2, LobbyUsers
  <2> HIDE DEF R, l, id
  <2>7. /\ \/ /\ l.lobbyAdminType \in QueueType
              /\ \E users \in SeqOf(Ready(l), Len(l.accountNames)) :
                   DissolveQueueLobby(R, id, users)
           \/ gameLobbies' = R /\ UNCHANGED requeue
        /\ UNCHANGED <<sessionVars, database, jobs, starts, fault>>
    <3>1. ReadyInOrder(l) \subseteq SeqOf(Ready(l), Len(l.accountNames))
      BY DEF ReadyInOrder
    <3>2. QED
      BY <1>2, <3>1, TimerHasFired DEF R, l, id
  <2>8. /\ gameLobbies' \in SoundLists
        /\ requeue' \in [users : Seq(Account), type : QueueType]
    <3>1. CASE gameLobbies' = R /\ UNCHANGED requeue
      BY <1>0, <2>3, <3>1 DEF StartsTyped
    <3>2. ASSUME l.lobbyAdminType \in QueueType,
                 NEW users \in SeqOf(Ready(l), Len(l.accountNames)),
                 DissolveQueueLobby(R, id, users)
          PROVE  /\ gameLobbies' \in SoundLists
                 /\ requeue' \in [users : Seq(Account), type : QueueType]
      <4>1. PICK n \in 0 .. Len(l.accountNames) : users \in [1 .. n -> Ready(l)]
        BY <3>2 DEF SeqOf
      <4>2. n \in Nat /\ users \in [1 .. n -> Account]
        BY <2>6, <4>1
      <4>3. users \in Seq(Account)
        BY <4>2
      <4>4. QED
        BY <2>1, <2>3, <2>5, <3>2, <4>3, DissolveTypes
    <3>3. QED
      BY <2>7, <3>1, <3>2
  <2>9. StartsTyped'
    BY <1>0, <2>7, <2>8 DEF StartsTyped
  <2>10. QED
    BY <2>7, <2>8, <2>9, ListsAndStartsChange
<1>3. QED
  BY <1>1, <1>2
----------------------------------------------------------------------------
(* Games *)

\* The steps of startGame keep the invariant.
LEMMA GameStartKeepsIInv ==
  ASSUME IInv, GameStartNext
  PROVE  IInv'
<1>0. SessionsTyped /\ StartsTyped /\ gameLobbies \in SoundLists
  BY IInvParts
<1>1. CASE UsesDestroyedObject
  BY <1>1, StopKeepsIInv DEF UsesDestroyedObject
<1>2. ASSUME NEW s \in StartId, StartEnds(s) PROVE starts' \in [StartId -> Starts]
  BY <1>0, <1>2, IdleTypes DEF StartEnds, StartsTyped
<1>3. ASSUME NEW s \in StartId, CapturesExist(s) PROVE starts[s].lobby \in LobbyId
  BY <1>0, <1>3, LiveLobbies DEF CapturesExist
<1>4. ASSUME NEW s \in StartId, StartGameSent(s), ~UsesDestroyedObject PROVE IInv'
  <2>1. [starts[s] EXCEPT !.phase = "asked", !.handler = FALSE] \in Starts
    BY <1>0 DEF StartsTyped, Starts
  <2>2. starts' = [starts EXCEPT ![s] =
                     [starts[s] EXCEPT !.phase = "asked", !.handler = FALSE]]
    BY <1>0, <1>4 DEF StartGameSent, StartsTyped, Starts
  <2>3. StartsTyped'
    BY <1>0, <1>4, <2>1, <2>2 DEF StartGameSent, StartsTyped
  <2>4. QED
    BY <1>0, <1>4, <2>3, ListsAndStartsChange DEF StartGameSent
<1>5. ASSUME NEW s \in StartId, StartGameFails(s), ~UsesDestroyedObject PROVE IInv'
  <2>1. gameLobbies' \in SoundLists
    BY <1>0, <1>3, <1>5, CancelTimerSound, EraseSound DEF StartGameFails
  <2>2. StartsTyped'
    BY <1>0, <1>2, <1>5 DEF StartGameFails, StartsTyped
  <2>3. QED
    BY <1>5, <2>1, <2>2, ListsAndStartsChange DEF StartGameFails
<1>6. ASSUME NEW s \in StartId, StartGameUnanswered(s) PROVE IInv'
  <2>1. StartsTyped'
    BY <1>0, <1>2, <1>6 DEF StartGameUnanswered, StartsTyped
  <2>2. QED
    BY <1>0, <1>6, <2>1, ListsAndStartsChange DEF StartGameUnanswered
<1>7. ASSUME NEW s \in StartId, NEW success \in GameAnswers,
             StartGameAnswered(s, success), ~UsesDestroyedObject
      PROVE  IInv'
  <2>1. gameLobbies' \in SoundLists
    BY <1>0, <1>3, <1>7, EraseSound DEF StartGameAnswered
  <2>2. StartsTyped'
    BY <1>0, <1>2, <1>7 DEF StartGameAnswered, StartsTyped
  <2>3. state' \in [Conn -> State] /\ link' \in [Conn -> Link]
    BY <1>0, <1>7 DEF StartGameAnswered, SendUsersToGame, SessionsTyped, State, Link
  <2>4. SessionsTyped'
    BY <1>0, <1>7, <2>3 DEF StartGameAnswered, SessionsTyped
  <2>5. QED
    BY <2>1, <2>2, <2>4, IInvPartsNext
<1>8. QED
  BY <1>1, <1>4, <1>5, <1>6, <1>7 DEF GameStartNext

\* The end of a connection to the game server keeps the invariant, with the session
\* destroyed or not.
LEMMA LinkEndsKeepsIInv ==
  ASSUME IInv, NEW c \in Conn, NEW next \in State, LinkEnds(c, next)
  PROVE  IInv'
<1>0. SessionsTyped /\ StartsTyped /\ gameLobbies \in SoundLists
  BY IInvParts
<1>1. gameLobbies' \in SoundLists
  BY <1>0, ForgetOwnerSound DEF LinkEnds
<1>2. StartsTyped'
  BY <1>0, ForgottenTypes DEF LinkEnds, StartsTyped
<1>3. SessionsTyped'
  BY <1>0, ForgottenTypes DEF LinkEnds, SessionsTyped, GoTo, State, Link
<1>4. QED
  BY <1>1, <1>2, <1>3, IInvPartsNext

\* The steps of connectToGame keep the invariant.
LEMMA GameProxyKeepsIInv ==
  ASSUME IInv, GameProxyNext
  PROVE  IInv'
<1>0. SessionsTyped /\ StartsTyped /\ gameLobbies \in SoundLists
  BY IInvParts
<1>1. ASSUME NEW c \in Conn, ConnectGameError(c) PROVE IInv'
  <2>1. state[c] \in State
    BY <1>0 DEF SessionsTyped
  <2>2. QED
    BY <1>1, <2>1, LinkEndsKeepsIInv DEF ConnectGameError
<1>2. ASSUME NEW c \in Conn, GameConnected(c) PROVE IInv'
  <2>1. SessionsTyped' /\ StartsTyped' /\ gameLobbies' \in SoundLists
    BY <1>0, <1>2 DEF GameConnected, SessionsTyped, StartsTyped, Link
  <2>2. QED
    BY <2>1, IInvPartsNext
<1>3. ASSUME NEW c \in Conn, NEW success \in BOOLEAN, FirstMessageFromGame(c, success)
      PROVE  IInv'
  <2>1. SessionsTyped' /\ StartsTyped' /\ gameLobbies' \in SoundLists
    BY <1>0, <1>3 DEF FirstMessageFromGame, SessionsTyped, StartsTyped, Link, GoTo, State
  <2>2. QED
    BY <2>1, IInvPartsNext
<1>4. ASSUME NEW c \in Conn, LeaveGameSuccess(c) PROVE IInv'
  <2>1. SessionsTyped' /\ StartsTyped' /\ gameLobbies' \in SoundLists
    BY <1>0, <1>4 DEF LeaveGameSuccess, SessionsTyped, StartsTyped, Link
  <2>2. QED
    BY <2>1, IInvPartsNext
<1>5. ASSUME NEW c \in Conn, ConnectionToGameLost(c) PROVE IInv'
  <2>1. state[c] \in State /\ "LoggedIn" \in State
    BY <1>0 DEF SessionsTyped, State
  <2>2. QED
    BY <1>5, <2>1, LinkEndsKeepsIInv DEF ConnectionToGameLost
<1>6. QED
  BY <1>1, <1>2, <1>3, <1>4, <1>5 DEF GameProxyNext
----------------------------------------------------------------------------
(* The theorems *)

\* Every step of the server keeps the inductive invariant.
LEMMA NextKeepsIInv == IInv /\ [Next]_vars => IInv'
<1> SUFFICES ASSUME IInv, [Next]_vars PROVE IInv'
  OBVIOUS
<1>1. CASE AccountLoginNext
  BY <1>1, ClientLoginKeepsIInv, LoginJobKeepsIInv DEF AccountLoginNext
<1>2. CASE CustomLobbyNext
  BY <1>2, CustomLobbyKeepsIInv
<1>3. CASE MatchmakingQueueNext
  BY <1>3, QueueKeepsIInv
<1>4. CASE GameInvitationNext
  BY <1>4, CreateGameKeepsIInv, AcceptGameKeepsIInv, DeclineGameKeepsIInv,
     TimerExpiresKeepsIInv, TimerFiresKeepsIInv DEF GameInvitationNext
<1>5. CASE GameStartNext
  BY <1>5, GameStartKeepsIInv
<1>6. CASE GameProxyNext
  BY <1>6, GameProxyKeepsIInv
<1>7. CASE UNCHANGED vars
  BY <1>7 DEF IInv, TypeOK, WaitingHasTimer, JobsNameAccounts, vars
<1>8. QED
  BY <1>1, <1>2, <1>3, <1>4, <1>5, <1>6, <1>7 DEF Next, Crashed

\* The inductive invariant holds in every reachable state.
THEOREM Invariant == Spec => []IInv
BY InitIInv, NextKeepsIInv, PTL DEF Spec

\* Every variable keeps its type: in particular the lists hold accounts, lobbies
\* and timers that exist, and the database only accounts that were asked for.
THEOREM TypeCorrect == Spec => []TypeOK
<1>1. IInv => TypeOK
  BY DEF IInv
<1>2. QED
  BY <1>1, Invariant, PTL

\* A lobby waits for answers exactly while the timer it names still has to fire
\* for it: runTimer, cancelTimer, erase and startTimerToAcceptTheInvite, in any
\* order and for any number of lobbies, never lose the end of an invitation.
THEOREM WaitingHasTimerAlways == Spec => []WaitingHasTimer
<1>1. IInv => WaitingHasTimer
  BY DEF IInv
<1>2. QED
  BY <1>1, Invariant, PTL
=============================================================================
