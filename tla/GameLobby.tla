----------------------------- MODULE GameLobby -----------------------------
(***************************************************************************)
(* One game lobby: struct GameLobby of server/gameLobby.{hxx,cxx}.  A      *)
(* lobby is a record; every method that changes it is an operator from     *)
(* the old record to the new one.  Game options and passwords carry no     *)
(* control and are left out; the timer of an invitation belongs to the     *)
(* module LobbyList, the lobby only names it.                              *)
(***************************************************************************)
EXTENDS Naturals, Sequences

\* How a lobby is run: by its first user, or by one of the two queues.
Custom == "FirstUserInLobbyUsers"
Unranked == "MatchMakingSystemUnranked"
Ranked == "MatchMakingSystemRanked"
QueueType == {Unranked, Ranked}
LobbyType == QueueType \cup {Custom}

DefaultMaxUserCount == 2
NoName == "no name"
NoTimer == 0

Lobbies(Name, Account, Timer) ==
  [lobbyAdminType : LobbyType,
   name : Name \cup {NoName},
   accountNames : Seq(Account),
   readyUsers : Seq(Account),
   waiting : BOOLEAN,              \* waitingForAnswerToStartGame
   timer : Timer \cup {NoTimer},   \* _timer, while the lobby waits
   maxUserCount : Nat]

\* GameLobby (): also what an erased list element is reset to.
EmptyLobby ==
  [lobbyAdminType |-> Custom, name |-> NoName, accountNames |-> <<>>,
   readyUsers |-> <<>>, waiting |-> FALSE, timer |-> NoTimer,
   maxUserCount |-> DefaultMaxUserCount]

Members(l) == {l.accountNames[i] : i \in DOMAIN l.accountNames}
Ready(l) == {l.readyUsers[i] : i \in DOMAIN l.readyUsers}

IsFull(l) == Len(l.accountNames) = l.maxUserCount
\* Mutant: a full lobby still takes one more user.
HasSpaceForOneMore(l) == Len(l.accountNames) <= l.maxUserCount
HasSpace(l) == Len(l.accountNames) < l.maxUserCount

\* The first user of a lobby that its users run; .front () needs a member.
IsGameLobbyAdmin(l, a) ==
  /\ l.lobbyAdminType = Custom
  /\ l.accountNames # <<>>
  /\ l.accountNames[1] = a

\* tryToAddUser: refused without effect in a full lobby and for a member.
CanAddUser(l, a) == HasSpace(l) /\ a \notin Members(l)
AddUser(l, a) == [l EXCEPT !.accountNames = Append(l.accountNames, a)]

\* removeUser.  Later users move up, so the next one becomes the admin.
\* tryToAddUser keeps an account in a lobby at most once.
PositionOf(l, a) == {i \in DOMAIN l.accountNames : l.accountNames[i] = a}
Without(s, i) == [j \in 1 .. Len(s) - 1 |-> IF j < i THEN s[j] ELSE s[j + 1]]
RemoveUser(l, a) ==
  IF PositionOf(l, a) = {} THEN l
  ELSE [l EXCEPT !.accountNames =
          Without(l.accountNames, CHOOSE i \in PositionOf(l, a) : TRUE)]

\* Mutant: the users who are in the lobby are not counted.
CanSetAnyMaxUserCount(l, n) == n >= 1

\* setMaxUserCount: refused for zero users and below the number of members.
CanSetMaxUserCount(l, n) == n >= 1 /\ n >= Len(l.accountNames)

\* startTimerToAcceptTheInvite replaces the timer without cancelling it.
StartWaiting(l, t) == [l EXCEPT !.waiting = TRUE, !.timer = t]

\* Mutants: the lobby goes on waiting; the answers survive the invitation.
StopWaitingStillWaits(l) ==
  IF l.waiting THEN [l EXCEPT !.timer = NoTimer, !.readyUsers = <<>>] ELSE l
StopWaitingKeepsReady(l) == [l EXCEPT !.waiting = FALSE, !.timer = NoTimer]

\* The lobby's part of cancelTimer; only a waiting lobby forgets who was ready.
StopWaiting(l) ==
  IF l.waiting
  THEN [l EXCEPT !.waiting = FALSE, !.timer = NoTimer, !.readyUsers = <<>>]
  ELSE l

\* Mutant: the wait does not end with its timer.
InvitationExpiredStillWaits(l) == l

\* runTimer ends the wait before gameInviteOver runs, so that the cancelTimer
\* in there no longer clears the users who were ready.
InvitationExpired(l) == [l EXCEPT !.waiting = FALSE, !.timer = NoTimer]
=============================================================================
