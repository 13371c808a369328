--------------------------- MODULE Notifications ---------------------------
(***************************************************************************)
(* What the sessions tell their users of one another: the lists of players *)
(* who are logged in and of the top rated players, which the server sends   *)
(* to the subscribers of either, and the channels for chat.  Everything a   *)
(* subscription sends is sent within the handler that causes it.            *)
(***************************************************************************)
EXTENDS MatchmakingState, SequencesExt

CONSTANTS PlayersSubscriber,  \* clients that subscribe to the players
          TopSubscriber,      \* clients that subscribe to the top rated
          Channel,            \* names of channels clients join
          TopCount            \* SubscribeGetTopRatedPlayers::playerCount

ASSUME SubscriberAssumption ==
  PlayersSubscriber \subseteq Conn /\ TopSubscriber \subseteq Conn
ASSUME TopCountAssumption == TopCount \in Nat
ASSUME DatabaseAssumption == IsFiniteSet(InitialDatabase)

VARIABLES
  players,   \* per connection: the subscription and the last LoggedInPlayers
  top,       \* per connection: the subscription and the last TopRatedPlayers
  channels   \* User::communicationChannels, with the account that joined

notifyVars == <<players, top, channels>>

NoSubscription == [subscribed |-> FALSE, sent |-> FALSE, list |-> {}]

RatedPlayer == [name : Account, rating : Nat, rank : Nat \ {0}]
Subscriptions(Item) ==
  [subscribed : BOOLEAN, sent : BOOLEAN, list : SUBSET Item]

NotificationTypeOK ==
  /\ players \in [Conn -> Subscriptions(Account)]
  /\ \A c \in Conn : top[c] \in Subscriptions(RatedPlayer)
  /\ channels \in [Conn -> SUBSET (Channel \X (Account \cup {NoAccount}))]

NotificationInit ==
  /\ players = [c \in Conn |-> NoSubscription]
  /\ top = [c \in Conn |-> NoSubscription]
  /\ channels = [c \in Conn |-> {}]

\* Every session that is still there and subscribed gets the list; what a
\* session knew goes with it.
Sent(subscriptions, list) ==
  [c \in Conn |->
     IF state'[c] = "Closed" THEN NoSubscription
     ELSE IF subscriptions[c].subscribed
     THEN [subscribed |-> TRUE, sent |-> TRUE, list |-> list]
     ELSE subscriptions[c]]
NothingSent(subscriptions) ==
  [c \in Conn |-> IF state'[c] = "Closed" THEN NoSubscription ELSE subscriptions[c]]
----------------------------------------------------------------------------
(* Players who are logged in *)

\* getLoggedInPlayers for a playerCount that is not below the number of
\* sessions: the names of all sessions that have one.
NamesIn(names) == {names[c] : c \in Conn} \ {NoAccount}

\* on_entry of LoggedIn.  RelogTo enters it as well, but its action throws
\* before the entry's.
EntersLoggedIn(c) ==
  /\ state[c] \notin {"LoggedIn", "WaitingForUserWantsToRelogGameLobby"}
  /\ state'[c] = "LoggedIn"

\* LogoutAccount; CreateAccount and LoginAccount log out without telling.
LogsOut(c) ==
  state[c] = "LoggedIn" /\ state'[c] = "NotLoggedIn" /\ accountName[c] # NoAccount

\* cleanUp of a user: the list is made before the name is given up.
CleansUp(c) ==
  c \in online /\ c \notin online' /\ fault' = "none" /\ accountName[c] # NoAccount

\* Mutant: the entry of LoggedIn runs before the transition's action.
PlayersNamedEarly ==
  players' =
    IF \E c \in Conn : EntersLoggedIn(c) \/ LogsOut(c) \/ CleansUp(c)
    THEN Sent(players, NamesIn(accountName))
    ELSE NothingSent(players)

LoggedInPlayersSent ==
  players' =
    IF \E c \in Conn : EntersLoggedIn(c) \/ LogsOut(c)
    THEN Sent(players, NamesIn(accountName'))
    ELSE IF \E c \in Conn : CleansUp(c)
    THEN Sent(players, NamesIn(accountName))
    ELSE NothingSent(players)

\* (Un)SubscribeGetLoggedInPlayers, in every state.  Nothing is sent yet.
SubscribePlayers(c) ==
  /\ Running
  /\ c \in online \cap PlayersSubscriber
  /\ players' = [players EXCEPT ![c] = [NoSubscription EXCEPT !.subscribed = TRUE]]
  /\ UNCHANGED <<vars, top, channels>>

UnSubscribePlayers(c) ==
  /\ Running
  /\ c \in online \cap PlayersSubscriber
  /\ players' = [players EXCEPT ![c] = NoSubscription]
  /\ UNCHANGED <<vars, top, channels>>
----------------------------------------------------------------------------
(* Top rated players *)

\* getTopRatedAccounts: ordered by rating, the order of equals is open.
OrderedByRating(s, r) ==
  \A i \in 1 .. Len(s) - 1 : r[s[i]] >= r[s[i + 1]]
TopRatedAccounts(db, r) ==
  {s \in UNION {SetToSeqs(S) : S \in kSubset(Min({TopCount, Cardinality(db)}), db)} :
     /\ OrderedByRating(s, r)
     /\ \A a \in db \ ToSet(s), b \in ToSet(s) : r[a] <= r[b]}

\* getTopRatedPlayers: equal ratings share the rank of the first.
RankIn(s, r) ==
  LET rank[i \in DOMAIN s] ==
        IF i > 1 /\ r[s[i]] = r[s[i - 1]] THEN rank[i - 1] ELSE i
  IN  rank

TopRatedPlayers(db, r) ==
  {{[name |-> s[i], rating |-> r[s[i]], rank |-> RankIn(s, r)[i]] : i \in DOMAIN s}
     : s \in TopRatedAccounts(db, r)}

\* possibleTopRatedPlayersChanged, and sendTopRatedPlayersToUser of a game
\* server's connection.
TopRatedPlayersSent(db, r) ==
  IF \E c \in Conn : top[c].subscribed
  THEN \E list \in TopRatedPlayers(db, r) : top' = Sent(top, list)
  ELSE top' = NothingSent(top)

SubscribeTop(c) ==
  /\ Running
  /\ c \in online \cap TopSubscriber
  /\ top' = [top EXCEPT ![c] = [NoSubscription EXCEPT !.subscribed = TRUE]]
  /\ UNCHANGED <<vars, players, channels>>

UnSubscribeTop(c) ==
  /\ Running
  /\ c \in online \cap TopSubscriber
  /\ top' = [top EXCEPT ![c] = NoSubscription]
  /\ UNCHANGED <<vars, players, channels>>
----------------------------------------------------------------------------
(* Channels *)

\* logoutAccount gets as far as user = {}.
UserReset(c) ==
  /\ state[c] = "LoggedIn" /\ c \in online'
  /\ accountName[c] # NoAccount /\ accountName'[c] = NoAccount

\* Mutant: only the account name is given up.
ChannelsSurviveLogout ==
  channels' = [c \in Conn |-> IF state'[c] = "Closed" THEN {} ELSE channels[c]]

ChannelsKept ==
  channels' = [c \in Conn |-> IF state'[c] = "Closed" \/ UserReset(c)
                              THEN {} ELSE channels[c]]

JoinChannel(c, ch) ==
  /\ In(c, "LoggedIn")
  /\ ~\E p \in channels[c] : p[1] = ch
  /\ channels' = [channels EXCEPT ![c] = @ \cup {<<ch, accountName[c]>>}]
  /\ UNCHANGED <<vars, players, top>>

LeaveChannel(c, ch) ==
  /\ In(c, "LoggedIn")
  /\ channels' = [channels EXCEPT ![c] = {p \in @ : p[1] # ch}]
  /\ UNCHANGED <<vars, players, top>>

NotificationNext ==
  \E c \in Conn :
    \/ SubscribePlayers(c) \/ UnSubscribePlayers(c)
    \/ SubscribeTop(c) \/ UnSubscribeTop(c)
    \/ \E ch \in Channel : JoinChannel(c, ch) \/ LeaveChannel(c, ch)
=============================================================================
