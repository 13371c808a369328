# Verification of matchmaking_proxy

matchmaking_proxy is a C++ server between the users of a game and a game
server: users log in, meet in lobbies or queues, are asked whether they want
to play, and are connected to a game. This directory holds TLA+ models of the
server, the TLC configurations that check them, and TLAPS proofs.

    tlc -workers 2 -config queue.cfg MCMatchmaking     # one run
    tlapm MatchmakingProofs.tla                        # the proofs of one module

`PROJECT.json` lists the runs, the source lines behind every definition, a
mutant of the code for every property, the findings and the hazards.

## 1. Inventory

| component | source (`src/matchmaking_proxy/`) | state | operations |
|---|---|---|---|
| game lobby | `server/gameLobby.*` | users, ready users, admin type, size, timer, waiting flag | add, remove, resize, start, cancel and end the wait |
| lobby list | `logic/matchmaking.cxx`, list made in `server/server.cxx` | one `std::list<GameLobby>` for all sessions | searches by user, name, queue; insert, erase |
| session and login | `logic/matchmaking.cxx`, `matchmakingData.*`, `server/user.hxx` | state of a boost::sml machine, account name | create account, log in (password, Steam, guest), cancel, log out, relog, disconnect |
| lobbies of users | `logic/matchmaking.cxx` | - | create, join, resize, leave, options |
| queues | `logic/matchmaking.cxx`, `rating.cxx`, `server/matchmakingOption.hxx` | lobbies of the two queue types | join, leave, be put back |
| invitation | `logic/matchmaking.cxx`, `gameLobby.cxx` | timer and answers of a lobby | create game, accept, decline, time out |
| game start | `startGame` in `matchmaking.cxx` | coroutine with captured lobby and session | connect, send StartGame, answer, fail |
| game proxy | `connectToGame` in `matchmaking.cxx` | a connection per user in a game | connect, first message, leave, lose |
| messages of the game server | `logic/matchmakingGame.cxx` | none of its own | GameOver, UserLeftGame |
| ratings after a game | `logic/rating.cxx` | rating of an account, in the database | win/lose, draw |
| notifications and channels | `logic/matchmaking.cxx` | channels and subscriptions of a session | join, leave, broadcast, subscribe, send lists |
| server | `server/server.*` | acceptors, lists of weak pointers to sockets and sessions, maintenance timer, `running` | load certificates, accept, handshake, maintain, stop |
| database | `database/*` | accounts | create, find, update |

**Interaction.** One `io_context` runs on one thread, so a handler is not
interrupted between two `co_await`s. Every client has a `Matchmaking` object
with a state machine. The objects share the list of lobbies and a list of weak
pointers to each other; a handler calls into other sessions' machines (to put
users back in a queue, to send them to a game, to tell subscribers who is
logged in) within the same step. A finished game arrives on a connection of the
game server's own and changes ratings, which all subscribers see. Passwords
are hashed on a thread pool, whose results are posted to the `io_context`.
Timers, the start of a game and the connection to a game are coroutines that
keep iterators into the list and references to a session's data.

**What is hard.** Timers that have expired when they are cancelled; results of
cancelled password requests; a lobby or a session that disappears while a
coroutine refers to it; a user in two lobbies; counting answers while users come
and go; putting the users of a dissolved lobby back through machines in any
state; the game server refusing, failing or not answering; disconnects at any
point; a stop that waits while clients connect, shake hands and leave; shares of
ratings that are rounded, and unsigned. `PROJECT.json` lists each hazard at its
line.

**What makes each part correct.**

- *Lobbies and invitations*: a lobby never waits without a timer that will
  fire (`WaitingHasTimer`), the wait ends (`InvitationEnds`), the size is
  respected (`WithinMaxUserCount`).
- *Queues*: nobody is in two queue lobbies (`OneQueueLobbyPerAccount`); a queue
  lobby asks exactly while it is full (`QueueLobbyAsksWhileFull`); those who
  answer are those who were asked (`AskedUsersAreFixed`), only members count as
  ready (`QueueReadyAreMembers`), a game starts only when all accepted
  (`QueueStartNeedsEveryone`) and then it does start (`QueueAcceptanceStarts`);
  two ranked users are in range (`RankedPairsInRange`). Together: the queue
  implements the service described by `QueueService` (`ImplementsQueueService`).
- *Sessions*: one session per account (`OneSessionPerAccount`), a name only
  while logged in (`AccountOnlyWhenLoggedIn`), a connection to the game exactly
  in the states for it (`LinkMatchesState`), password requests are answered
  (`PasswordRequestEnds`).
- *Notifications*: the last list a subscriber got names everybody who is logged
  in (`NoLoggedInPlayerMissing`) and is the current top of the database
  (`TopRatedIsCurrent`); channels are those of the account that uses the session
  (`ChannelsOfTheAccount`).
- *Ratings*: a game conserves points up to rounding (`PointsConserved`), and
  shares them by rating (`SharesFollowRating`).
- *Server*: the stop iterates over lists others change (`StopIteratorsValid`),
  ends (`StopEnds`) and leaves no open session (`NoSessionAfterStop`); `maintain`
  erases what has expired (`ExpiredAreForgotten`) and nothing that can still be
  needed (`SessionIsListed`); handshakes end (`HandshakeEnds`).

## 2. Modules

    GameRating          averages, points and shares as integer arithmetic
    GameLobby           one lobby: a record and its operations
     `- LobbyList       the shared list and the timers, as operators on a value
         `- MatchmakingState   constants, variables, TypeOK, Init, shared helpers
             |- AccountLogin      connections, accounts, password coroutines
             |- CustomLobby       lobbies of users
             |- MatchmakingQueue  the two queues (with GameRating)
             |- GameInvitation    create game, answers, timers
             |- GameStart         the coroutine startGame
             |- GameProxy         the connection to the game
             `- Notifications     subscriptions, lists of players, channels
                 `- MatchmakingGame  GameOver, UserLeftGame (with GameRating)

    Matchmaking         composes the modules from AccountLogin to GameProxy:
     |                  Next, fairness, their properties
     |- QueueRefinement    the queue as an instance of QueueService
     |   `- MCMatchmaking     instances for TLC
     |- Players            Matchmaking with what every step tells subscribers,
     |   |                 and MatchmakingGame
     |   `- MCPlayers, RatingExamples   instances, and the values of test/rating.cxx
     `- MatchmakingProofs  lists, types and timers
         |- SessionProofs       one session per account; its state, name and
         |                      connections
         `- MembershipProofs    who is in which lobby
             `- InvitationProofs   queue lobbies ask, who answers, and start with
                 |                 everybody; ranked pairs
                 `- QueueServiceProofs  with QueueRefinement: the queue is the service

    MatchmakingGame
     `- RatingProofs       sums, rounding, points and shares
         `- PlayersProofs  with Players and SessionProofs: subscribers, channels,
                           ratings

    QueueService        what a queue promises; no mechanism
    Server              connections, maintain and the stop; on its own
     `- ServerProofs    lists, iterators and sessions during the stop

`Players` conjoins `Notified` to every step of `Matchmaking`: the handlers of the
code send the lists before they end, so that what is sent is a function of the
state before and after the step (`LoggedInPlayersSent`, `TopRatedPlayersSent`,
`ChannelsKept`). A step of `Players` is therefore a step of `Matchmaking`, or one of
a notification or of the game server that leaves `Matchmaking` alone, but for one:
`UserLeftGame` may end the process, which is no step of `Matchmaking`. The
invariants of `Matchmaking` that the proofs about `Players` use are therefore
proved of its steps as well (`PlayersInv`).

`Server` is a module of its own because it meets `Matchmaking` in two places
only: a session that starts there is `Connect`, one that ends is `Disconnect`.
There an action runs a coroutine to its next `co_await`; the loops of
`asyncStopRunning` therefore become one action per element they wait for.

State and code:

| variable | code |
|---|---|
| `state[c]` | current state of the sml machine of connection `c`; `"Closed"` when no object exists |
| `accountName[c]` | `user.accountName` |
| `online` | connections whose read/write loop runs |
| `link[c]` | the session's `matchmakingGame` socket and how far `connectToGame` is |
| `database` | names of accounts in the database |
| `jobs` | `doHashPassword`, `doCheckPassword`, `doCheckSteam` in flight |
| `gameLobbies` | the list, its lobbies and the runs of `runTimer` |
| `starts` | `startGame` in flight with its captures |
| `requeue` | the rest of the loop that sends JoinMatchMakingQueue to dissolved users |
| `fault` | `"dangling"` or `"abort"` when the process is lost |
| `players[c]`, `top[c]` | `subscribedToGetLoggedInPlayers`, `subscribedToGetTopRatedPlayers`, and the last list sent |
| `channels[c]` | `user.communicationChannels`; each with the account that joined (history) |
| `rating` | `Account::rating` |
| `userLoop`, `gameLoop` | where the coroutines `userMatchmaking` and `gameMatchmaking` are |
| `phase[c]`, `broken` | where the coroutine of a client is, and whose socket has failed or is closed |
| `inGame` | sessions with a `matchmakingGame`, whose read loop holds the session |
| `gamePhase[g]` | a connection of a game server |
| `sslWebSockets`, `matchmakings`, `webSockets` | the lists of weak pointers |
| `maintainLoop` | `maintain`: timer running, resumption queued, ended by the cancelled wait |
| `stop` | `asyncStopRunning`: the loop it is in and the node its iterator is at |

An action is a handler, or the part of one between two `co_await`s, with all its
calls. The loop that puts users back is one handler in the code; here it is a
step per user (`Requeue`), and while `requeue` is not empty nothing else runs,
so that no other handler sees the states between.

Filters of sequences are written without recursion, so that the provers can
reason about them: `Kept` lists the places of `Server`'s lists that stay, and
`ReadyInOrder` the ready users of a lobby in the order in which they joined.

The model keeps every transition of the machine that changes a session or a
lobby. Requests that are only answered with an error are not actions. What is
abstracted:

- *Messages to users, texts, lobby passwords and game options* are left out;
  none of them decides anything but a refusal.
- *Lobby identities* stand for list nodes. A node is reused when neither the
  list nor a timer nor a start refers to it, so "the node I hold is not in the
  list" is exactly a dangling iterator. Using one, or the data of a destroyed
  session, is undefined behaviour; the model stops there (`UsesDestroyedObject`)
  and follows the process no further, as it does after `abort ()`. Continuing as
  if nothing had happened is one of the behaviours a build can show, but nothing
  can be said of it.
- *The list of sessions* is ordered by connection in the code. A search in it
  matters only where two sessions share an account (Steam), and may then return
  either. `connectToGame` searches for its session by name once more and keeps
  that one alive; for twins this can be the other session, which the model does
  not distinguish.
- *Guest names* are UUIDs: a name is used again only when nothing remembers it.
- *Spawned coroutines* run up to their first `co_await` at once; in between
  other handlers may be queued, but the coroutine's checks are made when it
  runs, so an action at that point is the same behaviour.
- *The game server* is not in the repository. It may be unreachable, refuse,
  close without answer, and answer StartGame once. Writing StartGame does not
  fail on its own; a broken connection is seen as an unanswered one.
- *Ratings* are constant in `Matchmaking`, where only the ranked queue reads
  them; they change in `Players`, whose runs have no ranked queue
  (`NoRankedQueue`). Floating point is replaced by exact fractions, and the
  points of a victory by the table of leads at which they change
  (`LargestLead`); the assumption of `RatingExamples` compares both with every
  value in `test/rating.cxx`. The modulus 2^64 is 65536 in the runs, far above
  every rating that is reached.
- *Lists that are sent* are sets: who is in them, not in which order. A
  subscriber asks for at least as many players as there are sessions.
- *The top of an empty database* is taken to be the empty list, as the check in
  `test/matchmaking.cxx:492` expects. The comment above it says that soci, which
  is not in the repository, returns something else. No run has a subscriber
  while the database is empty.
- *Weak pointers* (`Server`): an object is there while a coroutine, a read loop,
  the connection to a game or the stop holds it (`LiveMatchmakings` and the like).
  Completions on the `io_context` are kept in order where the order matters: a
  resolver's answer queued before the acceptor is closed runs before the end of
  `userMatchmaking`, a later one after it.
- *The websocket library* is not in the repository. `asyncClose` is taken to end,
  by the other side's answer or by the library's timeout.

## 3. Runs

Bounds common to all: identities of lobbies `MaxLobbies`, timers that have not
ended `MaxTimers`, expired timers not yet handled `MaxExpired` (1), entries of
`readyUsers` `MaxReady`, starts `MaxStarts`, login coroutines `MaxJobs`. A bound
is a guard that a free identity exists, never a truncation. Two expired timers
of different lobbies do not interact, so one at a time together with armed ones
shows late expiry; two users per game are the default of the code.

| run | instance | checks |
|---|---|---|
| `login` | `RatingExamples`: 2 clients, a password account and a Steam account, 2 coroutines, a subscriber, fair | `OneSessionPerAccount`, `NoLoggedInPlayerMissing`, `PasswordRequestEnds` |
| `queue` | 3 guests, unranked queue of 2, 3 lobbies, 2 timers, 1 start | `QueueLobbyAsksWhileFull`, `QueueReadyAreMembers`, `QueueStartNeedsEveryone`, `QueueAcceptanceStarts`, `AskedUsersAreFixed`, `ImplementsQueueService` |
| `mixed` | a guest and an account in a lobby of users and in the queue | `TypeOK`, `WaitingHasTimer`, `OneQueueLobbyPerAccount`, `AccountOnlyWhenLoggedIn` |
| `game` | 2 guests, a lobby of users of size 1 to 3, 2 starts, game server succeeds, fair | `LinkMatchesState`, `WithinMaxUserCount`, `InvitationEnds` |
| `ranked` | 3 clients, 3 accounts (1500, 1550, and 1700 of Steam) and a guest, range 100 | `RankedPairsInRange` |
| `ratings` | `MCPlayers`: 1 client, 2 accounts (1520, 1500) and one to be created, top 2, a channel | `PlayersTypeOK`, `TopRatedIsCurrent`, `ChannelsOfTheAccount`, `PointsConserved`, `SharesFollowRating` |
| `server` | `Server`: 2 clients, a game server, a stop at any time, fair | `ServerTypeOK`, `StopIteratorsValid`, `NoSessionAfterStop`, `SessionIsListed`, `HandshakeEnds`, `StopEnds`, `ExpiredAreForgotten` |

Three users and games of two are the smallest instance in which a user is left
over, takes the place of one who left, or is put back into a lobby that fills
again. Two users and sizes from 1 to 3 show a lobby that is made smaller than
full, full and open; the violation `custom_timeout` has three users. Two
starts are needed for a lobby that is started a second time before the first start ends.
Two password coroutines are needed for a cancelled request whose result arrives
late while a second one runs. In `ratings` a game ends only while all ratings
are in `RatingBound`, three values of which two are twenty points apart: near
enough that either may win, far enough that a draw costs a point; the two
properties of ratings look at every next game, not only at those within the
bound. Two clients are what the stop needs: one it waits for while the other
moves. Runs whose clients or guests are interchangeable use symmetry; runs with
liveness do not.

Some properties are about queues only, because lobbies of users do not have
them: there the invitation goes on when a user leaves, and the recorded answers
survive a timeout (findings below).

### The queue as a service

`QueueService` knows players, groups of a size, who has accepted and which
games are being launched. Joining the last place of a group asks the group; the
last acceptance, and nothing else, launches its game; a refusal or a timeout
puts back those who did not refuse, or had accepted; leaving ends the
invitation and keeps the others, unless the player gives up the session, when
the group may go as well (`logoutAccount` erases the lobby). Launches and
timeouts have identities and name the group they are for, because several may
be under way for one group, and a timeout that is handled late dissolves a
group that was left or asked anew in between: the code erases whatever lobby
the timer holds. `QueueRefinement` maps a live lobby of the unranked queue to
its group, `readyUsers` to the acceptances, and the coroutines `startGame` to
launches, expired timers to timeouts; lobbies without users, which the list may
keep, and nodes that only a coroutine refers to are no groups. Timers that fire
late, twins of an invitation and requeued users take steps of the service or
none. The run has guests; the theorem `QueueIsService` allows every kind of
account.

### Fairness

`Fairness` assumes: the loop that puts users back goes on (it is one handler); a
timer that is armed runs out and its completion is handled; the thread pool
finishes a password and its result is delivered. Handlers wait in a FIFO queue
on one thread, none of them loops, so a queued completion is reached. The steps
that TLC may find disabled for a while, because another handler's users are
being put back or because of `MaxExpired`, have strong fairness. Nothing is
assumed of clients, Steam and the game server. In `Server` the timers of
handshakes and of `maintain` run out, what is queued runs, and closing a socket
ends; the clients, the game servers and the resolver may be silent for ever.
`PasswordRequestEnds` speaks of requests that have their coroutine: a session
whose coroutine was cancelled by nobody but lost (relog without a name, see
`SpawnPasswordJob`) has none.

### Findings

Five runs end in a violation; `PROJECT.json` quotes the line the code departs
from.

- `guest_in_ranked` (`NoAbort`): a guest may enter the ranked queue; the next
  account that joins makes `averageRating` call `abort ()`.
- `start_in_flight` (`FailedStartIsCleanedUp`): when the game server cannot be
  reached the failure handler uses a lobby or session that is gone by then.
- `custom_timeout` (`CustomAnswersCountOnce`): `runTimer` ends the wait before
  the callback's `cancelTimer`, which then keeps `readyUsers`. The invitation of a
  lobby of three runs out, the admin creates the game again and is counted twice,
  and one acceptance makes three answers for three users: the game starts without
  the third's. The property asks only about lobbies whose answers are all of
  users who are still in them, so that nothing but an answer counted twice
  violates it.
- `relog` (`LoggedInHasAccount`): RelogTo leaves a session LoggedIn without an
  account name.
- `rating_wraps` (`LosersNeverGain`): a rating smaller than its share of the
  points wraps, as the check for `<= 0` is made on an unsigned number; the loser
  is rated highest afterwards.

The model has more that the repository makes no statement about, so that no run
claims it: a client that is in its handshake when `userMatchmaking` ends starts
a session with a dangling reference to `gameLobbies` (`SessionStartsTooLate`);
`leaveGameLobby` lets a running invitation go on and keeps the answer of the one
who leaves, so that a user who joins in his place may be sent to a game without
having been asked (`LeaveLobby`);
`maintain` goes on for ever when its timer has run out at the moment of the stop
(`CloseAcceptors`); a game server whose handshake ends after the loop over
`webSockets`, and a game connection made after the loop over the sessions has
passed it, are not closed; `UserLeftGame` never ends a proxy: it is refused for a
user who is logged in and uses the end of the list for any other. The properties
of `Server` say what holds beside that: `NoSessionAfterStop` and the liveness
properties except these faults by name.

## 4. Proofs

All proofs hold for every set of connections, accounts and names and every
bound, under the assumptions of `LobbyList` and `MatchmakingState` on the
constants (`GoneAssumption`, `LobbyListBounds`, `AccountAssumption`,
`QueueAssumption`, ...). The symmetric sets of the runs satisfy them; TLC
evaluates them in every run. Five theorems assume more, named with them below:
`LastAcceptanceStarts`, `RankedPairs`, `QueueIsService`, and the two about points
(`FarBound`). `QueueServiceProofs` takes `tlapm` some minutes, the others less.

- `MatchmakingProofs`: `TypeCorrect` (`Spec => []TypeOK`) and
  `WaitingHasTimerAlways` (`Spec => []WaitingHasTimer`). Each operator on lists
  (erase, cancel, start a timer, leave, log out, clean up, ...) maps *sound lists*
  to sound lists; a list is sound when it has its type and every lobby that waits
  names a timer that is not idle and is for this lobby. The inductive invariant is
  `IInv == TypeOK /\ WaitingHasTimer /\ JobsNameAccounts`. The first two parts need
  each other: a timer that fires, or is cancelled, is looked up through the lobby
  it names, which has its type only if no lobby names a timer of another; and the
  account a coroutine adds to the database is an account only by
  `JobsNameAccounts`. Each action has a lemma.
- `SessionProofs`: `OneSession` (`Spec => []OneSessionPerAccount`). On its own
  the property is not inductive: `PasswordHashed` logs in without looking at
  the other sessions. It is enough that the name is not in the database,
  because the account of every session is (`AccountsOfSessionsExist`); that a
  login by password keeps that needs `CheckedAccountsExist`, the same for the
  accounts being checked.
  `NamesOnlyWhenLoggedIn` (`Spec => []AccountOnlyWhenLoggedIn`) and
  `LinkMatchesStateAlways` (`Spec => []LinkMatchesState`) follow from
  `LinkInv == SessionsFit /\ JobsFit /\ SteamAskedOnce`. Results of passwords are
  handled only in the state that waits for them, Steam's answer in any state. It
  finds the session in `WaitingForCheckSteam` all the same, because nothing else
  leaves that state and a session that is destroyed is forgotten by its
  coroutines (`JobsFit`); this needs that Steam is asked once at a time
  (`SteamAskedOnce`).
- `MembershipProofs`: `MaxUserCountKept` (`Spec => []WithinMaxUserCount`) and
  `OneQueueLobby` (`Spec => []OneQueueLobbyPerAccount`), from the invariant `Tidy`.
  `joinMatchMakingQueue` looks for the user among the lobbies *of the list*; that
  is enough because a node is in the list once (`NodesOnce`) and a node outside it
  has no users (`NobodyOutsideList`). `joinGameLobby` looks at one lobby only; that
  a user does not come into a second queue by it rests on the names: a queue lobby
  has none, and every name a client can send is one (`NameAssumption`).
- `InvitationProofs`: `QueueAsksWhileFull` (`Spec => []QueueLobbyAsksWhileFull`),
  `QueueReadyMembers` (`Spec => []QueueReadyAreMembers`) and
  `QueueStartsWithEveryone` (`Spec => QueueStartNeedsEveryone`), from the invariant
  `Asking` on top of `Tidy`. `wantsToJoinGame` compares two numbers, of answers and
  of users. That equal numbers mean that everybody has accepted is the lemma
  `AsManyAreAll`: the ready users are users of the lobby and different, and so are
  the users. The one way to leave a lobby that does not end its invitation, logging
  out as its last user, leaves a lobby that was not full and did not ask
  (`LeftAskFits`).

  `AskedUsersStay` (`Spec => AskedUsersAreFixed`): what a step does to the answers
  of a lobby is one of two things, nothing or the acceptance of one member
  (`StepAnswers`), and a lobby that asks is full, so that no search finds it.
  `LastAcceptanceStarts` (`QueueAcceptanceStarts`) is the converse of
  `QueueStartsWithEveryone`, for queues whose games need more than one user: a lobby
  of a queue keeps the size of its queue (`QueuesSized`), and a lobby of one that was
  left with its answers would be short of none.
  `RankedPairs` (`Spec => []RankedPairsInRange`) assumes that ranked games have two
  users at most, which is what `matchmakingOption.hxx:14-15` sets: with three it is
  false, as the second of three may leave two who are not in range. Whoever joins a
  lobby of one compares with its average, which is the rating of its user.
- `QueueServiceProofs`: `QueueIsService` (`Spec => ImplementsQueueService`), the
  refinement, for every number of clients, accounts and lobbies. It assumes
  `OnlyUnrankedQueue`: no lobbies of users, no ranked queue, games of more than one
  user; the run `queue` is an instance. The invariant adds to those above that all
  lobbies are of the queue, that a timer which runs is that of a lobby that asks
  unless its lobby is gone (`ClocksFit`), and that the users who are put back are
  different (`RequeueFits`). Each operator on lists has a lemma that says what it
  does to the groups (`GroupEnds`, `UserLeft`, `GroupEntered`), each group of actions
  one that names the step of the service. Two facts carry the proof: the code's
  comparison of two counts means that those who have accepted, and the one who
  accepts, are the users of the group; and a timer that fires late erases its lobby
  without the lobby's newer timer, which runs on for a group that is empty.
- `RatingProofs`: each share of the points is within a half of the exact share, the
  shares of a side add up to the points but for a half for each player, who is rated
  higher loses more and wins less, and no share is above the rating it is taken from
  when the losers' ratings add up to twice the points at least (`Payable`). Averages
  and shares are sums and products over finite sets, folds of the community modules;
  the induction theorems are out of reach, so that induction over subsets is proved
  from a smallest counterexample (`SmallestNat`), and that the fold obeys its
  recursion from a witness on all subsets.
- `PlayersProofs`: `PlayersTyped`, `PlayersAreListed`
  (`NoLoggedInPlayerMissing`), `TopRatedStaysCurrent` (`TopRatedIsCurrent`) and
  `ChannelsAreOwn` (`ChannelsOfTheAccount`) from `PlayersInv == IInv /\ LinkInv /\
  RatingFit /\ PlayersFit /\ TopFit /\ ChannelsFit`: the rank of an account in the
  sorted list is one more than the number of those rated above. `PointsAreConserved`
  and `SharesAreByRating` hold after any series of games, for teams of any size,
  under `FarBound`: finitely many accounts, whose ratings begin at 40 or more, and games
  only among accounts rated above 80, who keep 40 of it, and as far below the
  modulus. The run `ratings` has such values. Nearer to either end both
  are false, which is the finding `rating_wraps`.
- `ServerProofs`: `ServerTyped`, `IteratorsStayValid` (`StopIteratorsValid`),
  `SessionsStayListed` (`SessionIsListed`) and `StopLeavesNoSession`
  (`NoSessionAfterStop`) from `ServerInv`. Every object is listed once and what lives
  is listed (`ListInv`); cleaning a list keeps its order (`KeptOf`), and the node the
  stop is at stays because the stop itself keeps the object alive. Behind the
  iterator of the last loop nobody who has, or may still get, a session is left
  unclosed (`ClosingInv`), because no client is accepted any more (`AcceptorInv`).

Only model-checked: the liveness properties (`InvitationEnds`,
`PasswordRequestEnds`, `HandshakeEnds`, `StopEnds`, `ExpiredAreForgotten`), which are
out of the prover's reach, and the five properties that TLC refutes. Every safety
invariant and action property of the passing runs is proved.

## 5. Not modelled, and the plan

In this order:

1. The refinement with lobbies of users beside the queue, where a user may be in one
   of each, and the ranked queue as a service.
2. Queues whose games need one user. The repository uses two; with one, a lobby
   that its user left by logging out would be filled again with the old answers
   still recorded.
3. More than one answer of the game server on the connection of `startGame`, and
   ratings that change while the ranked queue reads them.

Left out for good: the wire format, TLS and websockets, SQL, the password hash
(library code), build files, benchmarks, and `tryToRemoveUser` and
`tryToRemoveAdminAndSetNewAdmin`, which nothing calls.
