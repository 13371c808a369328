------------------------------- MODULE Server -------------------------------
(***************************************************************************)
(* The connections of the server: the coroutines userMatchmaking (with one *)
(* coroutine per client up to its session), gameMatchmaking, maintain and  *)
(* asyncStopRunning on the io_context.  What sessions do with one another  *)
(* is the module Matchmaking; here a session is the interval between the   *)
(* start of its readLoop and its end.                                      *)
(*                                                                         *)
(* A coroutine runs to its next co_await in one step.  Completions that    *)
(* are queued on the io_context run in the order they were queued.         *)
(***************************************************************************)
EXTENDS Naturals, Sequences, SequencesExt

CONSTANTS Conn,   \* connections of clients
          Game,   \* connections of game servers
          NoNode  \* the stop is at no node of a list

ASSUME NodeAssumption == NoNode \notin Conn \cup Game

VARIABLES
  running,        \* Server::running
  userLoop,       \* userMatchmaking
  gameLoop,       \* gameMatchmaking
  phase,          \* per client: where its coroutine is
  broken,         \* clients whose socket is closed or failed
  inGame,         \* sessions with a matchmakingGame, which keeps them alive
  gamePhase,      \* per connection of a game server
  sslWebSockets, matchmakings, webSockets,  \* the lists of weak pointers
  maintainLoop,   \* maintain and its timer
  stop,           \* asyncStopRunning: what it awaits, and for which node
  fault           \* a destroyed object was used

loopVars == <<running, userLoop, gameLoop>>
connVars == <<phase, broken, inGame>>
lists == <<sslWebSockets, matchmakings, webSockets>>
vars == <<running, userLoop, gameLoop, phase, broken, inGame, gamePhase,
          sslWebSockets, matchmakings, webSockets, maintainLoop, stop, fault>>

\* "aborted": the acceptor is closed and the exception of its async_accept is
\* queued.  "resolved": the result of the last async_resolve is queued.
UserLoop == {"loading", "accepting", "aborted", "ended"}
GameLoop == {"accepting", "handshake", "ended"}
Phase == {"none", "tls", "ws", "resolving", "resolved", "session", "over"}
GamePhase == {"none", "handshake", "open", "over"}
StopPlace == {"no", "sessions", "webSockets", "sslWebSockets", "done"}

Init ==
  /\ running = TRUE /\ userLoop = "loading" /\ gameLoop = "accepting"
  /\ phase = [c \in Conn |-> "none"] /\ broken = {} /\ inGame = {}
  /\ gamePhase = [g \in Game |-> "none"]
  /\ sslWebSockets = <<>> /\ matchmakings = <<>> /\ webSockets = <<>>
  /\ maintainLoop = "waiting"
  /\ stop = [at |-> "no", node |-> NoNode]
  /\ fault = FALSE
----------------------------------------------------------------------------
(* What keeps the objects behind the weak pointers alive *)

\* The pointer asyncStopRunning has locked lives until its co_await returns.
LockedAt(place, node) == stop.at = place /\ stop.node = node

LiveMatchmakings ==
  {c \in Conn : phase[c] = "session" \/ c \in inGame \/ LockedAt("sessions", c)}
\* A Matchmaking holds the socket through its function to send messages.
LiveSslWebSockets ==
  LiveMatchmakings \cup
  {c \in Conn : phase[c] \in {"resolving", "resolved"} \/ LockedAt("sslWebSockets", c)}
LiveWebSockets ==
  {g \in Game : gamePhase[g] = "open" \/ LockedAt("webSockets", g)}

\* What is left of a list when only the elements of S stay, in their order: the
\* k-th of it is the one at the place with k such places up to it.
Kept(list, S) ==
  LET P == {i \in DOMAIN list : list[i] \in S}
      Place(k) == CHOOSE i \in P : Cardinality(P \cap 1..i) = k
  IN  [k \in 1..Cardinality(P) |-> list[Place(k)]]

\* A mutant of Forget: an object is taken for gone when its socket has failed.
ForgetBroken(list, live) == Kept(list, live \ broken)
\* std::erase_if of the pointers that have expired.
Forget(list, live) == Kept(list, live)
----------------------------------------------------------------------------
(* userMatchmaking: certificates, and accepting clients *)

\* tryUntilNoException polls for the files of the certificate; a round that
\* fails changes nothing.
CertificatesLoaded ==
  /\ userLoop = "loading"
  /\ userLoop' = IF running THEN "accepting" ELSE "ended"
  /\ UNCHANGED <<running, gameLoop, connVars, gamePhase, lists, maintainLoop, stop>>

\* The coroutine of the client runs to its handshake at once.  A client whose
\* async_accept had completed before the acceptor was closed is accepted.
Accept(c) ==
  /\ userLoop \in {"accepting", "aborted"} /\ phase[c] = "none"
  /\ userLoop' = IF running THEN "accepting" ELSE "ended"
  /\ phase' = [phase EXCEPT ![c] = "tls"]
  /\ UNCHANGED <<running, gameLoop, broken, inGame, gamePhase, lists, maintainLoop, stop>>

\* The exception of the closed acceptor; results queued before it come first.
AcceptAborted ==
  /\ userLoop = "aborted"
  /\ \A c \in Conn : phase[c] # "resolved"
  /\ userLoop' = "ended"
  /\ UNCHANGED <<running, gameLoop, connVars, gamePhase, lists, maintainLoop, stop>>
----------------------------------------------------------------------------
(* The coroutine of a client *)

\* Either outcome of a handshake, or the end of a resolve, moves the client on;
\* only the timeout ends its coroutine.
MayBreak(c) == broken' = broken \/ broken' = broken \cup {c}

TlsHandshake(c) ==
  /\ phase[c] = "tls"
  /\ phase' = [phase EXCEPT ![c] = "ws"]
  /\ MayBreak(c)
  /\ UNCHANGED <<loopVars, inGame, gamePhase, lists, maintainLoop, stop>>

WebSocketHandshake(c) ==
  /\ phase[c] = "ws"
  /\ phase' = [phase EXCEPT ![c] = "resolving"]
  /\ MayBreak(c)
  /\ sslWebSockets' = Append(sslWebSockets, c)
  /\ UNCHANGED <<loopVars, inGame, gamePhase, matchmakings, webSockets, maintainLoop, stop>>

\* A mutant of HasTimeout: the handshake of the websocket is awaited without
\* a timer.
HasTlsTimeout(c) == phase[c] = "tls"
HasTimeout(c) == phase[c] \in {"tls", "ws"}

HandshakeTimesOut(c) ==
  /\ HasTimeout(c)
  /\ phase' = [phase EXCEPT ![c] = "over"]
  /\ broken' = broken \cup {c}
  /\ UNCHANGED <<loopVars, inGame, gamePhase, lists, maintainLoop, stop>>

\* A result that arrives after the acceptor was closed is queued behind the
\* exception of async_accept.
ResolveDone(c) ==
  /\ phase[c] = "resolving" /\ userLoop # "aborted"
  /\ phase' = [phase EXCEPT ![c] = "resolved"]
  /\ UNCHANGED <<loopVars, broken, inGame, gamePhase, lists, maintainLoop, stop>>

\* The exception of async_resolve ends the coroutine, the socket goes with it.
ResolveFails(c) ==
  /\ phase[c] = "resolving"
  /\ phase' = [phase EXCEPT ![c] = "over"]
  /\ broken' = broken \cup {c}
  /\ UNCHANGED <<loopVars, inGame, gamePhase, lists, maintainLoop, stop>>

\* The new Matchmaking gets gameLobbies, captured by reference: a variable of
\* userMatchmaking, which is gone when that coroutine has ended.
SessionStarts(c) ==
  /\ phase[c] = "resolved" /\ userLoop # "ended"
  /\ phase' = [phase EXCEPT ![c] = "session"]
  /\ matchmakings' = Append(matchmakings, c)
  /\ UNCHANGED <<loopVars, broken, inGame, gamePhase, sslWebSockets, webSockets, maintainLoop, stop>>

SessionStartsTooLate(c) ==
  /\ phase[c] = "resolved" /\ userLoop = "ended"
  /\ fault' = TRUE
  /\ UNCHANGED <<loopVars, connVars, gamePhase, lists, maintainLoop, stop>>

\* The socket of a client fails at any time; its readLoop ends after that.
SocketFails(c) ==
  /\ phase[c] \in {"resolving", "resolved", "session"} /\ c \notin broken
  /\ broken' = broken \cup {c}
  /\ UNCHANGED <<loopVars, phase, inGame, gamePhase, lists, maintainLoop, stop>>

SessionEnds(c) ==
  /\ phase[c] = "session" /\ c \in broken
  /\ phase' = [phase EXCEPT ![c] = "over"]
  /\ UNCHANGED <<loopVars, broken, inGame, gamePhase, lists, maintainLoop, stop>>

\* connectToGame, and the end of the connection it makes.
JoinsGame(c) ==
  /\ phase[c] = "session" /\ c \notin inGame
  /\ inGame' = inGame \cup {c}
  /\ UNCHANGED <<loopVars, phase, broken, gamePhase, lists, maintainLoop, stop>>

LeavesGame(c) ==
  /\ c \in inGame
  /\ inGame' = inGame \ {c}
  /\ UNCHANGED <<loopVars, phase, broken, gamePhase, lists, maintainLoop, stop>>
----------------------------------------------------------------------------
(* gameMatchmaking: the loop itself awaits the handshake *)

GameServerConnects(g) ==
  /\ gameLoop = "accepting" /\ gamePhase[g] = "none"
  /\ gameLoop' = "handshake"
  /\ gamePhase' = [gamePhase EXCEPT ![g] = "handshake"]
  /\ UNCHANGED <<running, userLoop, connVars, lists, maintainLoop, stop>>

NextRound == gameLoop' = IF running THEN "accepting" ELSE "ended"

GameServerAccepted(g) ==
  /\ gamePhase[g] = "handshake"
  /\ gamePhase' = [gamePhase EXCEPT ![g] = "open"]
  /\ webSockets' = Append(webSockets, g)
  /\ NextRound
  /\ UNCHANGED <<running, userLoop, connVars, sslWebSockets, matchmakings, maintainLoop, stop>>

\* The handshake fails or meets the timeout of the websocket.
GameServerFails(g) ==
  /\ gamePhase[g] = "handshake"
  /\ gamePhase' = [gamePhase EXCEPT ![g] = "over"]
  /\ NextRound
  /\ UNCHANGED <<running, userLoop, connVars, lists, maintainLoop, stop>>

GameServerLeaves(g) ==
  /\ gamePhase[g] = "open"
  /\ gamePhase' = [gamePhase EXCEPT ![g] = "over"]
  /\ UNCHANGED <<loopVars, connVars, lists, maintainLoop, stop>>
----------------------------------------------------------------------------
(* maintain *)

\* The timer expires; the resumption of maintain is queued.
MaintainDue ==
  /\ maintainLoop = "waiting"
  /\ maintainLoop' = "due"
  /\ UNCHANGED <<loopVars, connVars, gamePhase, lists, stop>>

\* A mutant of ForgetExpired: the sessions' list is left out.
ForgetSockets ==
  /\ webSockets' = Forget(webSockets, LiveWebSockets)
  /\ sslWebSockets' = Forget(sslWebSockets, LiveSslWebSockets)
  /\ UNCHANGED matchmakings
ForgetExpired ==
  /\ webSockets' = Forget(webSockets, LiveWebSockets)
  /\ sslWebSockets' = Forget(sslWebSockets, LiveSslWebSockets)
  /\ matchmakings' = Forget(matchmakings, LiveMatchmakings)

Maintain ==
  /\ maintainLoop = "due"
  /\ ForgetExpired
  /\ maintainLoop' = "waiting"
  /\ UNCHANGED <<loopVars, connVars, gamePhase, stop>>
----------------------------------------------------------------------------
(* asyncStopRunning *)

\* A mutant of Rest: the loop starts again after an element it awaited.
Again(list, node) == DOMAIN list
\* The places of a list the loop has still to visit, after the one of node.
Rest(list, node) == {i \in DOMAIN list : \E j \in 1..(i - 1) : list[j] = node}

\* The places in rest whose pointer can be locked, and the first of them.
Locked(list, rest, live) == {i \in rest : list[i] \in live}
Await(place, list, locked) == stop' = [at |-> place, node |-> list[Min(locked)]]

\* What is left of the loop over the sockets of clients: to the next one that
\* can be locked, or to the end.
CloseSslWebSockets(rest) ==
  LET locked == Locked(sslWebSockets, rest, LiveSslWebSockets)
  IN  \/ locked # {} /\ Await("sslWebSockets", sslWebSockets, locked)
      \/ locked = {} /\ stop' = [at |-> "done", node |-> NoNode]

CloseWebSockets(rest) ==
  LET locked == Locked(webSockets, rest, LiveWebSockets)
  IN  \/ locked # {} /\ Await("webSockets", webSockets, locked)
      \/ locked = {} /\ CloseSslWebSockets(DOMAIN sslWebSockets)

\* A mutant of CloseAcceptors: clients are still accepted.
CloseGameAcceptor ==
  /\ userLoop' = userLoop
  /\ gameLoop' = IF gameLoop = "accepting" THEN "ended" ELSE gameLoop
  /\ maintainLoop' = IF maintainLoop = "waiting" THEN "ended" ELSE maintainLoop
\* Another: closing the acceptor ends a handshake of the loop as well.
CloseEndsHandshake ==
  /\ userLoop' = IF userLoop = "accepting" THEN "aborted" ELSE userLoop
  /\ gameLoop' = "ended"
  /\ maintainLoop' = IF maintainLoop = "waiting" THEN "ended" ELSE maintainLoop
\* The loops end when they next look at running; cancelling the timer has no
\* effect on a resumption that is queued.
CloseAcceptors ==
  /\ userLoop' = IF userLoop = "accepting" THEN "aborted" ELSE userLoop
  /\ gameLoop' = IF gameLoop = "accepting" THEN "ended" ELSE gameLoop
  /\ maintainLoop' = IF maintainLoop = "waiting" THEN "ended" ELSE maintainLoop

\* The loop over the sessions awaits the end of every connection to a game;
\* the acceptors are closed after the last.
CloseSessions(rest) ==
  LET locked == Locked(matchmakings, rest, inGame)
  IN  \/ /\ locked # {} /\ Await("sessions", matchmakings, locked)
         /\ UNCHANGED <<userLoop, gameLoop, maintainLoop>>
      \/ /\ locked = {}
         /\ CloseAcceptors
         /\ CloseWebSockets(DOMAIN webSockets)

AsyncStopRunning ==
  /\ stop.at = "no"
  /\ running' = FALSE
  /\ CloseSessions(DOMAIN matchmakings)
  /\ UNCHANGED <<connVars, gamePhase, lists>>

GameLinkClosed ==
  /\ stop.at = "sessions"
  /\ inGame' = inGame \ {stop.node}
  /\ CloseSessions(Rest(matchmakings, stop.node))
  /\ UNCHANGED <<running, phase, broken, gamePhase, lists>>

WebSocketClosed ==
  /\ stop.at = "webSockets"
  /\ gamePhase' = [gamePhase EXCEPT ![stop.node] = "over"]
  /\ CloseWebSockets(Rest(webSockets, stop.node))
  /\ UNCHANGED <<loopVars, connVars, lists, maintainLoop>>

SslWebSocketClosed ==
  /\ stop.at = "sslWebSockets"
  /\ broken' = broken \cup {stop.node}
  /\ CloseSslWebSockets(Rest(sslWebSockets, stop.node))
  /\ UNCHANGED <<loopVars, phase, inGame, gamePhase, lists, maintainLoop>>
----------------------------------------------------------------------------
ClientNext(c) ==
  \/ Accept(c) \/ TlsHandshake(c) \/ WebSocketHandshake(c) \/ HandshakeTimesOut(c)
  \/ ResolveDone(c) \/ ResolveFails(c) \/ SessionStarts(c)
  \/ SocketFails(c) \/ SessionEnds(c) \/ JoinsGame(c) \/ LeavesGame(c)
GameServerNext(g) ==
  \/ GameServerConnects(g) \/ GameServerAccepted(g)
  \/ GameServerFails(g) \/ GameServerLeaves(g)
StopNext ==
  AsyncStopRunning \/ GameLinkClosed \/ WebSocketClosed \/ SslWebSocketClosed

Next ==
  /\ ~fault
  /\ \/ /\ \/ CertificatesLoaded \/ AcceptAborted \/ MaintainDue \/ Maintain
           \/ \E c \in Conn : ClientNext(c)
           \/ \E g \in Game : GameServerNext(g)
           \/ StopNext
        /\ UNCHANGED fault
     \/ \E c \in Conn : SessionStartsTooLate(c)

Spec == Init /\ [][Next]_vars

\* Timers expire, what is queued on the io_context runs, and closing a
\* websocket ends with the other side's answer or with its timeout.  Clients,
\* game servers and the name service may stay silent.
Step(A) == ~fault /\ A /\ UNCHANGED fault
Fairness ==
  /\ WF_vars(Step(AcceptAborted)) /\ WF_vars(Step(MaintainDue)) /\ WF_vars(Step(Maintain))
  /\ \A c \in Conn :
       /\ WF_vars(Step(HandshakeTimesOut(c)))
       /\ WF_vars(Step(SessionStarts(c)))
       /\ WF_vars(Step(SessionEnds(c)))
  /\ WF_vars(Step(GameLinkClosed)) /\ WF_vars(Step(WebSocketClosed))
  /\ WF_vars(Step(SslWebSocketClosed))

FairSpec == Spec /\ Fairness
----------------------------------------------------------------------------
\* Types, and what the loops have in common with the flag and the connections.
ServerTypeOK ==
  /\ running \in BOOLEAN /\ fault \in BOOLEAN
  /\ userLoop \in UserLoop /\ gameLoop \in GameLoop
  /\ phase \in [Conn -> Phase] /\ gamePhase \in [Game -> GamePhase]
  /\ broken \subseteq Conn /\ inGame \subseteq Conn
  /\ sslWebSockets \in Seq(Conn) /\ matchmakings \in Seq(Conn) /\ webSockets \in Seq(Game)
  /\ maintainLoop \in {"waiting", "due", "ended"}
  /\ stop.at \in StopPlace /\ stop.node \in Conn \cup Game \cup {NoNode}
  /\ running <=> stop.at = "no"
  /\ gameLoop = "handshake" <=> \E g \in Game : gamePhase[g] = "handshake"
  /\ userLoop = "aborted" => ~running

\* asyncStopRunning keeps an iterator to the node it awaits while maintain and
\* the handlers of other connections change the lists: the node stays in its
\* list until the loop has left it.
StopIteratorsValid ==
  /\ stop.at = "sessions" => stop.node \in Range(matchmakings)
  /\ stop.at = "webSockets" => stop.node \in Range(webSockets)
  /\ stop.at = "sslWebSockets" => stop.node \in Range(sslWebSockets)

\* A session that is there when asyncStopRunning has ended has had its socket
\* closed: also one whose client was accepted, or was in its handshake, while
\* the loops were waiting.
NoSessionAfterStop ==
  stop.at = "done" /\ ~fault =>
    \A c \in Conn : phase[c] = "session" => c \in broken

\* Every session can be reached: it is in the list the other sessions, the
\* game servers and the stop look for it, and so is its socket, also after any
\* number of rounds of maintain.
SessionIsListed ==
  \A c \in Conn :
    phase[c] = "session" \/ c \in inGame =>
      c \in Range(matchmakings) /\ c \in Range(sslWebSockets)

\* No client keeps the coroutine of its handshake for ever.
HandshakeEnds ==
  \A c \in Conn : phase[c] \in {"tls", "ws"} ~> (phase[c] \notin {"tls", "ws"} \/ fault)

\* asyncStopRunning ends, whatever joins and leaves while it waits.
StopEnds == stop.at # "no" ~> (stop.at = "done" \/ fault)

\* While maintain runs, what has expired leaves the lists.
ExpiredAreForgotten ==
  \A c \in Conn :
    phase[c] = "over" /\ c \notin inGame ~>
      \/ c \notin Range(matchmakings) \cup Range(sslWebSockets)
      \/ maintainLoop = "ended" \/ fault
=============================================================================
