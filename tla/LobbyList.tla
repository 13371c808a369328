----------------------------- MODULE LobbyList -----------------------------
(***************************************************************************)
(* The list of game lobbies that all sessions share (std::list<GameLobby>, *)
(* made once in server/server.cxx), together with the invitation timers    *)
(* its lobbies start.  A list is a value                                   *)
(*                                                                         *)
(*     L = [order, lobby, timer]                                           *)
(*                                                                         *)
(* order is the sequence of the identities of the lobbies in the list,     *)
(* lobby the lobby of every identity (an identity outside order has the    *)
(* EmptyLobby) and timer the invitation timers.  An identity stands for    *)
(* the std::list node a stored iterator points to: it is not given to a    *)
(* new lobby while a timer or a game start still refers to it.             *)
(*                                                                         *)
(* The operators are the searches and the changes the handlers of          *)
(* logic/matchmaking.cxx make; they have no variables.                     *)
(***************************************************************************)
EXTENDS GameLobby

CONSTANTS Conn,        \* client connections, one Matchmaking object each
          Gone,        \* stands for a Matchmaking object that was destroyed
          Account,     \* account names, those of guests included
          LobbyName,   \* names of lobbies that users create
          MaxLobbies,  \* bound: lobbies that exist or are still referred to
          MaxTimers,   \* bound: invitation timers that have not ended
          MaxExpired,  \* bound: expired timers whose handler is still queued
          MaxReady     \* bound: entries of readyUsers

ASSUME GoneAssumption == Gone \notin Conn
\* std::nullopt is not a name a client can send.
ASSUME NameAssumption == NoName \notin LobbyName
ASSUME LobbyListBounds ==
  {MaxLobbies, MaxTimers, MaxExpired, MaxReady} \subseteq Nat

LobbyId == 1 .. MaxLobbies
TimerId == 1 .. MaxTimers
NoLobby == 0
Owner == Conn \cup {Gone}

\* One run of the coroutine runTimer.  "armed": the timer is running.
\* "expired": its completion is queued, cancelling it has no effect any more.
\* owner is the session whose MatchmakingData the callback captured.
Timers == [phase : {"idle", "armed", "expired"},
           lobby : LobbyId \cup {NoLobby}, owner : Owner]
IdleTimer == [phase |-> "idle", lobby |-> NoLobby, owner |-> Gone]

LobbyLists == [order : Seq(LobbyId),
               lobby : [LobbyId -> Lobbies(LobbyName, Account, TimerId)],
               timer : [TimerId -> Timers]]

NoLobbies == [order |-> <<>>, lobby |-> [id \in LobbyId |-> EmptyLobby],
              timer |-> [t \in TimerId |-> IdleTimer]]

Live(L) == {L.order[k] : k \in DOMAIN L.order}
----------------------------------------------------------------------------
\* std::ranges::find_if over the list: the set of the first lobby that is in
\* the set Wanted of identities, empty when there is none.
FindIf(L, Wanted) ==
  {L.order[k] : k \in {i \in DOMAIN L.order :
      /\ L.order[i] \in Wanted
      /\ \A j \in 1 .. i - 1 : L.order[j] \notin Wanted}}

With(L, a) == {id \in LobbyId : a \in Members(L.lobby[id])}
Queues(L) == {id \in LobbyId : L.lobby[id].lobbyAdminType \in QueueType}
Waiting(L) == {id \in LobbyId : L.lobby[id].waiting}

FirstLobbyOf(L, a) == FindIf(L, With(L, a))
FirstQueueOf(L, a) == FindIf(L, With(L, a) \cap Queues(L))
FirstInvitationOf(L, a) == FindIf(L, With(L, a) \cap Waiting(L))
\* Mutant: a lobby that asks its users is overlooked.
InSomeIdleLobby(L, a) ==
  \E id \in Live(L) : a \in Members(L.lobby[id]) /\ ~L.lobby[id].waiting
InSomeLobby(L, a) == \E id \in Live(L) : a \in Members(L.lobby[id])

LobbiesNamed(L, n) == {id \in Live(L) : L.lobby[id].name = n}

\* A free timer and a free identity; taking the smallest loses nothing.
Least(S) == {x \in S : \A y \in S : x <= y}
FreeTimer(L) == Least({t \in TimerId : L.timer[t].phase = "idle"})
Referred(L) ==
  {L.timer[t].lobby : t \in {u \in TimerId : L.timer[u].phase # "idle"}}
FreeLobby(L, inUse) == Least(LobbyId \ (Live(L) \cup Referred(L) \cup inUse))
----------------------------------------------------------------------------
SetLobby(L, id, l) ==
  [order |-> L.order, lobby |-> [L.lobby EXCEPT ![id] = l], timer |-> L.timer]

\* emplace_back
Emplace(L, id, l) ==
  [order |-> Append(L.order, id), lobby |-> [L.lobby EXCEPT ![id] = l],
   timer |-> L.timer]

\* The timer of a waiting lobby is cancelled, unless it has expired already.
CancelledTimers(L, id) ==
  [t \in TimerId |->
     IF L.lobby[id].waiting /\ L.lobby[id].timer = t /\ L.timer[t].phase = "armed"
     THEN IdleTimer ELSE L.timer[t]]

CancelTimer(L, id) ==
  [order |-> L.order,
   lobby |-> [L.lobby EXCEPT ![id] = StopWaiting(L.lobby[id])],
   timer |-> CancelledTimers(L, id)]

\* erase; ~GameLobby cancels the timer.
Erase(L, id) ==
  [order |-> IF \E k \in DOMAIN L.order : L.order[k] = id
             THEN Without(L.order, CHOOSE k \in DOMAIN L.order : L.order[k] = id)
             ELSE L.order,
   lobby |-> [L.lobby EXCEPT ![id] = EmptyLobby],
   timer |-> CancelledTimers(L, id)]

\* startTimerToAcceptTheInvite, in the name of the session owner.
StartTimer(L, id, t, owner) ==
  [order |-> L.order,
   lobby |-> [L.lobby EXCEPT ![id] = StartWaiting(L.lobby[id], t)],
   timer |-> [L.timer EXCEPT ![t] =
                [phase |-> "armed", lobby |-> id, owner |-> owner]]]

RemoveFrom(L, id, a) == SetLobby(L, id, RemoveUser(L.lobby[id], a))
SetTimer(L, t, x) ==
  [order |-> L.order, lobby |-> L.lobby, timer |-> [L.timer EXCEPT ![t] = x]]

\* The Matchmaking object of c is destroyed; callbacks still refer to it.
ForgetOwner(L, c) ==
  [order |-> L.order, lobby |-> L.lobby,
   timer |-> [t \in TimerId |->
      IF L.timer[t].owner = c THEN [L.timer[t] EXCEPT !.owner = Gone]
      ELSE L.timer[t]]]
----------------------------------------------------------------------------
(* What a user who leaves does to the list.  Each operator is the set of   *)
(* the lists that can result: one list when the search finds a lobby.      *)

\* leaveMatchMakingQueue; nothing changes for a user outside every queue.
LeaveQueue(L, a) ==
  IF FirstQueueOf(L, a) = {} THEN {L}
  ELSE {LET R == RemoveFrom(L, id, a)
        IN  IF Members(R.lobby[id]) = {} THEN Erase(R, id) ELSE CancelTimer(R, id)
        : id \in FirstQueueOf(L, a)}

\* logoutAccount: the first lobby of the user is erased when users REMAIN in
\* it.  When it is empty it stays; an empty queue lobby only lets the user
\* leave a second queue.
LogoutLobbies(L, a) ==
  IF FirstLobbyOf(L, a) = {} THEN {L}
  ELSE UNION {LET R == RemoveFrom(L, id, a)
              IN  IF Members(R.lobby[id]) # {} THEN {Erase(R, id)}
                  ELSE IF id \in Queues(L) THEN LeaveQueue(R, a)
                  ELSE {R}
              : id \in FirstLobbyOf(L, a)}

\* Mutant: the invitation is not cancelled.
CleanUpKeepsAsking(L, a) ==
  IF FirstLobbyOf(L, a) = {} THEN {L}
  ELSE {LET R == RemoveFrom(L, id, a)
        IN  IF Members(R.lobby[id]) = {} THEN Erase(R, id) ELSE R
        : id \in FirstLobbyOf(L, a)}

\* cleanUp of a client that disconnected.
CleanUpLobbies(L, a) ==
  IF FirstLobbyOf(L, a) = {} THEN {L}
  ELSE {LET R == RemoveFrom(L, id, a)
        IN  IF Members(R.lobby[id]) = {} THEN Erase(R, id) ELSE CancelTimer(R, id)
        : id \in FirstLobbyOf(L, a)}

\* leaveGameLobby: an invitation that is running goes on.
LeaveLobby(L, id, a) ==
  LET R == RemoveFrom(L, id, a)
  IN  IF Members(R.lobby[id]) = {} THEN Erase(R, id) ELSE R
----------------------------------------------------------------------------
\* A lobby waits for answers exactly while the timer it names still has to
\* fire for it.
WaitingLobbiesHaveTimers(L) ==
  \A id \in LobbyId :
    IF L.lobby[id].waiting
    THEN /\ L.lobby[id].timer \in TimerId
         /\ L.timer[L.lobby[id].timer].phase # "idle"
         /\ L.timer[L.lobby[id].timer].lobby = id
    ELSE L.lobby[id].timer = NoTimer
=============================================================================
