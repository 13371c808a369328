---------------------------- MODULE ServerProofs ----------------------------
(***************************************************************************)
(* The lists of weak pointers, the loops of the server and its stop, for   *)
(* every number of clients and game servers: the iterators of the stop     *)
(* stay valid, every session is listed, and none outlives the stop with an *)
(* open socket.                                                            *)
(***************************************************************************)
EXTENDS Server, FiniteSetTheorems, TLAPS

----------------------------------------------------------------------------
(* What a filter keeps *)

Places(list, S) == {i \in DOMAIN list : list[i] \in S}
UpTo(P, i) == P \cap 1..i
PlaceOf(P, k) == CHOOSE i \in P : Cardinality(UpTo(P, i)) = k

\* The places are counted one by one: of two, the later has more up to it.
LEMMA PlacesAreCounted ==
  ASSUME NEW n \in Nat, NEW P, P \subseteq 1..n
  PROVE  /\ IsFiniteSet(P) /\ Cardinality(P) \in Nat
         /\ \A i \in P : Cardinality(UpTo(P, i)) \in 1..Cardinality(P)
         /\ \A i, j \in P : i < j => Cardinality(UpTo(P, i)) < Cardinality(UpTo(P, j))
<1>1. IsFiniteSet(P) /\ Cardinality(P) \in Nat
  <2>1. IsFiniteSet(1..n) /\ P \in SUBSET (1..n)
    BY FS_Interval
  <2>2. QED
    BY <2>1, FS_Subset, FS_CardinalityType
<1>2. ASSUME NEW i \in P
      PROVE  /\ IsFiniteSet(UpTo(P, i)) /\ Cardinality(UpTo(P, i)) \in 1..Cardinality(P)
  <2>1. UpTo(P, i) \in SUBSET P /\ i \in UpTo(P, i)
    BY DEF UpTo
  <2>2. IsFiniteSet(UpTo(P, i)) /\ Cardinality(UpTo(P, i)) <= Cardinality(P)
    BY <1>1, <2>1, FS_Subset
  <2>3. Cardinality(UpTo(P, i)) \in Nat /\ Cardinality(UpTo(P, i)) # 0
    BY <2>1, <2>2, FS_CardinalityType, FS_EmptySet
  <2>4. QED
    BY <1>1, <2>2, <2>3
<1>3. ASSUME NEW i \in P, NEW j \in P, i < j
      PROVE  Cardinality(UpTo(P, i)) < Cardinality(UpTo(P, j))
  <2>1. UpTo(P, i) \in SUBSET UpTo(P, j) /\ UpTo(P, i) # UpTo(P, j)
    BY <1>3 DEF UpTo
  <2>2. /\ Cardinality(UpTo(P, i)) <= Cardinality(UpTo(P, j))
        /\ Cardinality(UpTo(P, i)) # Cardinality(UpTo(P, j))
    BY <1>2, <2>1, FS_Subset
  <2>3. QED
    BY <1>2, <2>2
<1>4. QED
  BY <1>1, <1>2, <1>3

\* Every count up to the number of places belongs to one place.
LEMMA EveryCountHasAPlace ==
  ASSUME NEW n \in Nat, NEW P, P \subseteq 1..n, NEW k \in 1..Cardinality(P)
  PROVE  PlaceOf(P, k) \in P /\ Cardinality(UpTo(P, PlaceOf(P, k))) = k
<1> DEFINE m == Cardinality(P)
           f == [i \in P |-> Cardinality(UpTo(P, i))]
<1>1. /\ IsFiniteSet(P) /\ m \in Nat
      /\ \A i \in P : f[i] \in 1..m
      /\ \A i, j \in P : i < j => f[i] < f[j]
  BY PlacesAreCounted
<1>2. f \in Injection(P, 1..m)
  <2>1. f \in [P -> 1..m]
    BY <1>1
  <2>2. ASSUME NEW i \in P, NEW j \in P, f[i] = f[j] PROVE i = j
    <3>1. i \in Int /\ j \in Int /\ f[i] \in Int /\ f[j] \in Int
      BY <1>1
    <3>2. ~(i < j) /\ ~(j < i)
      <4> HIDE DEF f
      <4>1. QED
        BY <1>1, <2>2, <3>1
    <3>3. QED
      BY <3>1, <3>2
  <2>3. QED
    BY <2>1, <2>2 DEF Injection, IsInjective
<1>3. IsFiniteSet(1..m) /\ Cardinality(1..m) = m
  BY <1>1, FS_Interval
<1>4. f \in Surjection(P, 1..m)
  BY <1>2, <1>3, FS_Injection
<1>5. \E i \in P : f[i] = k
  BY <1>4 DEF Surjection
<1>6. \E i \in P : Cardinality(UpTo(P, i)) = k
  BY <1>5
<1>7. QED
  BY <1>6 DEF PlaceOf

\* A set of places has a first one: the one with no other up to it.
LEMMA FirstPlace ==
  ASSUME NEW n \in Nat, NEW P, P \subseteq 1..n, P # {}
  PROVE  Min(P) \in P /\ \A i \in P : Min(P) <= i
<1>1. /\ IsFiniteSet(P) /\ Cardinality(P) \in Nat
      /\ \A i \in P : Cardinality(UpTo(P, i)) \in 1..Cardinality(P)
      /\ \A i, j \in P : i < j => Cardinality(UpTo(P, i)) < Cardinality(UpTo(P, j))
  BY PlacesAreCounted
<1>2. 1 \in 1..Cardinality(P)
  BY <1>1, FS_EmptySet
<1>3. PICK i \in P : Cardinality(UpTo(P, i)) = 1
  BY <1>2, EveryCountHasAPlace
<1>4. \A j \in P : i <= j
  <2> SUFFICES ASSUME NEW j \in P, j < i PROVE FALSE
    OBVIOUS
  <2>1. Cardinality(UpTo(P, j)) \in 1..Cardinality(P) /\ Cardinality(UpTo(P, j)) < 1
    BY <1>1, <1>3
  <2>2. QED
    BY <1>1, <2>1
<1>5. QED
  BY <1>4 DEF Min

\* No element is in the list twice; one is before another.
Distinct(list) == \A i, j \in DOMAIN list : list[i] = list[j] => i = j
Before(list, x, y) ==
  \E i, j \in DOMAIN list : i < j /\ list[i] = x /\ list[j] = y

\* What stays of a list is what it had of S, once each and in the same order.
LEMMA KeptOf ==
  ASSUME NEW X, NEW list \in Seq(X), NEW S, Distinct(list)
  PROVE  /\ Kept(list, S) \in Seq(X)
         /\ Range(Kept(list, S)) = Range(list) \cap S
         /\ Distinct(Kept(list, S))
         /\ \A x, y \in S : Before(list, x, y) => Before(Kept(list, S), x, y)
<1> DEFINE P == {i \in DOMAIN list : list[i] \in S}
           m == Cardinality(P)
           r(i) == Cardinality(UpTo(P, i))
           k == Kept(list, S)
<1>1. Len(list) \in Nat /\ DOMAIN list = 1..Len(list) /\ P \subseteq 1..Len(list)
  OBVIOUS
<1>2. /\ IsFiniteSet(P) /\ m \in Nat
      /\ \A i \in P : r(i) \in 1..m
      /\ \A i, j \in P : i < j => r(i) < r(j)
  BY <1>1, PlacesAreCounted
<1>3. \A p \in 1..m : PlaceOf(P, p) \in P /\ r(PlaceOf(P, p)) = p
  BY <1>1, EveryCountHasAPlace
<1>4. k = [p \in 1..m |-> list[PlaceOf(P, p)]]
  BY DEF Kept, PlaceOf, UpTo
<1>5. \A i \in P : PlaceOf(P, r(i)) = i
  <2> SUFFICES ASSUME NEW i \in P, PlaceOf(P, r(i)) # i PROVE FALSE
    OBVIOUS
  <2> DEFINE j == PlaceOf(P, r(i))
  <2>1. j \in P /\ r(j) = r(i) /\ r(i) \in Nat
    BY <1>2, <1>3
  <2>2. i < j \/ j < i
    BY <1>1, <2>1
  <2> HIDE DEF j, r
  <2>3. QED
    BY <1>2, <2>1, <2>2
<1> HIDE DEF P, m, r, k
<1>6. k \in Seq(X) /\ DOMAIN k = 1..m
  BY <1>1, <1>2, <1>3, <1>4 DEF P
<1>7. \A i \in P : r(i) \in DOMAIN k /\ k[r(i)] = list[i]
  BY <1>2, <1>4, <1>5, <1>6
<1>8. \A p \in DOMAIN k : \E i \in P : r(i) = p /\ k[p] = list[i]
  BY <1>3, <1>4, <1>6
<1>9. Range(k) = Range(list) \cap S
  BY <1>7, <1>8 DEF Range, P
<1>10. Distinct(k)
  BY <1>8 DEF Distinct, P
<1>11. ASSUME NEW x \in S, NEW y \in S, Before(list, x, y) PROVE Before(k, x, y)
  <2>1. PICK i \in P, j \in P : i < j /\ list[i] = x /\ list[j] = y
    BY <1>11 DEF Before, P
  <2>2. QED
    BY <1>2, <1>7, <2>1 DEF Before
<1>12. QED
  BY <1>6, <1>9, <1>10, <1>11 DEF k

\* A new element comes last.
LEMMA AppendedTo ==
  ASSUME NEW X, NEW list \in Seq(X), NEW x \in X, x \notin Range(list), Distinct(list)
  PROVE  /\ Append(list, x) \in Seq(X)
         /\ Range(Append(list, x)) = Range(list) \cup {x}
         /\ Distinct(Append(list, x))
         /\ \A y, z : Before(list, y, z) => Before(Append(list, x), y, z)
<1> DEFINE a == Append(list, x)
           n == Len(list)
<1>1. /\ a \in Seq(X) /\ n \in Nat /\ DOMAIN list = 1..n /\ DOMAIN a = 1..(n + 1)
      /\ \A i \in 1..n : a[i] = list[i]
      /\ a[n + 1] = x
  OBVIOUS
<1> HIDE DEF a, n
<1>2. Range(a) = Range(list) \cup {x}
  BY <1>1 DEF Range
<1>3. Distinct(a)
  BY <1>1 DEF Distinct, Range
<1>4. \A y, z : Before(list, y, z) => Before(a, y, z)
  BY <1>1 DEF Before
<1>5. QED
  BY <1>1, <1>2, <1>3, <1>4 DEF a

\* A loop of the stop awaits the first element it can lock: the others come after.
LEMMA AwaitsTheFirst ==
  ASSUME NEW X, NEW list \in Seq(X), NEW rest \in SUBSET (DOMAIN list), NEW live,
         Locked(list, rest, live) # {}
  PROVE  LET node == list[Min(Locked(list, rest, live))]
         IN  /\ node \in X /\ node \in Range(list) /\ node \in live
             /\ \A i \in rest : list[i] \in live
                  => list[i] = node \/ Before(list, node, list[i])
<1> DEFINE L == Locked(list, rest, live)
<1>1. Len(list) \in Nat /\ DOMAIN list = 1..Len(list) /\ L \subseteq 1..Len(list)
  BY DEF Locked
<1>2. Min(L) \in L /\ \A i \in L : Min(L) <= i
  BY <1>1, FirstPlace
<1>3. Min(L) \in DOMAIN list /\ list[Min(L)] \in live
  BY <1>1, <1>2 DEF Locked
<1>4. ASSUME NEW i \in rest, list[i] \in live, list[i] # list[Min(L)]
      PROVE  Before(list, list[Min(L)], list[i])
  <2>1. i \in L /\ i \in DOMAIN list /\ i # Min(L)
    BY <1>4 DEF Locked
  <2>2. Min(L) < i
    BY <1>1, <1>2, <1>3, <2>1
  <2>3. QED
    BY <1>3, <2>1, <2>2 DEF Before
<1>5. QED
  BY <1>3, <1>4 DEF Range

LEMMA RestIsAfter ==
  ASSUME NEW X, NEW list \in Seq(X), Distinct(list), NEW node
  PROVE  /\ Rest(list, node) \in SUBSET (DOMAIN list)
         /\ \A x : Before(list, node, x)
                     => \E i \in Rest(list, node) : list[i] = x
BY DEF Rest, Before, Distinct
----------------------------------------------------------------------------
(* The inductive invariant *)

\* Every object is listed once; what is in a list was put there when the object
\* began and what still lives is in it.
ListsDistinct == Distinct(sslWebSockets) /\ Distinct(matchmakings) /\ Distinct(webSockets)
ListedHaveBegun ==
  /\ \A c \in Range(sslWebSockets) : phase[c] \in {"resolving", "resolved", "session", "over"}
  /\ \A c \in Range(matchmakings) : phase[c] \in {"session", "over"}
  /\ \A g \in Range(webSockets) : gamePhase[g] \in {"open", "over"}
LiveAreListed ==
  /\ \A c \in Conn : phase[c] \in {"resolving", "resolved", "session"} \/ c \in inGame
                       => c \in Range(sslWebSockets)
  /\ \A c \in Conn : phase[c] = "session" \/ c \in inGame => c \in Range(matchmakings)
  /\ \A g \in Game : gamePhase[g] = "open" => g \in Range(webSockets)
ListInv == ListsDistinct /\ ListedHaveBegun /\ LiveAreListed

\* gameMatchmaking awaits one handshake at a time.
OneHandshake ==
  \A g, h \in Game : gamePhase[g] = "handshake" /\ gamePhase[h] = "handshake" => g = h

\* No client before the certificates, none is accepted after the acceptor is closed.
AcceptorInv ==
  /\ userLoop = "loading" => \A c \in Conn : phase[c] = "none"
  /\ stop.at \in {"webSockets", "sslWebSockets", "done"} => userLoop # "accepting"

\* Who has a session or may still get one: no other client will.
MayHaveSession(c) == phase[c] = "session" \/ (phase[c] = "resolved" /\ userLoop # "ended")

\* The loop over the sockets of clients leaves none of them behind unclosed.
ClosingInv ==
  /\ stop.at = "sslWebSockets" =>
       \A c \in Conn : MayHaveSession(c) =>
         \/ c \in broken \/ c = stop.node
         \/ Before(sslWebSockets, stop.node, c)
  /\ stop.at = "done" => \A c \in Conn : MayHaveSession(c) => c \in broken

ServerInv ==
  /\ ServerTypeOK /\ StopIteratorsValid
  /\ ListInv /\ OneHandshake /\ AcceptorInv /\ ClosingInv

LEMMA ListTypes ==
  ASSUME ServerTypeOK
  PROVE  /\ phase \in [Conn -> Phase] /\ gamePhase \in [Game -> GamePhase]
         /\ broken \subseteq Conn /\ inGame \subseteq Conn
         /\ sslWebSockets \in Seq(Conn) /\ matchmakings \in Seq(Conn)
         /\ webSockets \in Seq(Game)
         /\ Range(sslWebSockets) \subseteq Conn /\ Range(matchmakings) \subseteq Conn
         /\ Range(webSockets) \subseteq Game
<1>1. \A X : \A list \in Seq(X) : Range(list) \subseteq X
  BY DEF Range
<1>2. QED
  BY <1>1 DEF ServerTypeOK

LEMMA ClientKeepsLists ==
  ASSUME ServerInv, NEW c \in Conn, ClientNext(c)
  PROVE  ListInv'
<1> USE ListTypes DEF ServerInv
<1>1. CASE WebSocketHandshake(c)
  <2>1. c \notin Range(sslWebSockets) /\ phase[c] = "ws"
    BY <1>1 DEF WebSocketHandshake, ListInv, ListedHaveBegun
  <2>2. /\ Distinct(sslWebSockets')
        /\ Range(sslWebSockets') = Range(sslWebSockets) \cup {c}
    BY <1>1, <2>1, AppendedTo DEF WebSocketHandshake, ListInv, ListsDistinct
  <2>3. /\ phase' = [phase EXCEPT ![c] = "resolving"]
        /\ UNCHANGED <<inGame, gamePhase, matchmakings, webSockets>>
    BY <1>1 DEF WebSocketHandshake
  <2>4. ListsDistinct'
    BY <2>2, <2>3 DEF ListInv, ListsDistinct
  <2>5. ListedHaveBegun'
    BY <2>1, <2>2, <2>3 DEF ListInv, ListedHaveBegun
  <2>6. LiveAreListed'
    BY <2>1, <2>2, <2>3 DEF ListInv, LiveAreListed
  <2>7. QED
    BY <2>4, <2>5, <2>6 DEF ListInv
<1>2. CASE SessionStarts(c)
  <2>1. c \notin Range(matchmakings) /\ phase[c] = "resolved"
    BY <1>2 DEF SessionStarts, ListInv, ListedHaveBegun
  <2>2. /\ Distinct(matchmakings')
        /\ Range(matchmakings') = Range(matchmakings) \cup {c}
    BY <1>2, <2>1, AppendedTo DEF SessionStarts, ListInv, ListsDistinct
  <2>3. /\ phase' = [phase EXCEPT ![c] = "session"]
        /\ UNCHANGED <<inGame, gamePhase, sslWebSockets, webSockets>>
    BY <1>2 DEF SessionStarts, connVars
  <2>4. ListsDistinct'
    BY <2>2, <2>3 DEF ListInv, ListsDistinct
  <2>5. ListedHaveBegun'
    BY <2>1, <2>2, <2>3 DEF ListInv, ListedHaveBegun
  <2>6. LiveAreListed'
    BY <2>1, <2>2, <2>3 DEF ListInv, LiveAreListed
  <2>7. QED
    BY <2>4, <2>5, <2>6 DEF ListInv
<1>3. ASSUME ~WebSocketHandshake(c), ~SessionStarts(c)
      PROVE  ListInv'
  <2>1. UNCHANGED <<sslWebSockets, matchmakings, webSockets, gamePhase>>
    BY <1>3 DEF ClientNext, Accept, TlsHandshake, HandshakeTimesOut, ResolveDone,
       ResolveFails, SocketFails, SessionEnds, JoinsGame, LeavesGame, lists
  <2>2. \/ UNCHANGED <<phase, inGame>>
        \/ /\ phase' = [phase EXCEPT ![c] = "resolved"] /\ phase[c] = "resolving"
           /\ UNCHANGED inGame
        \/ /\ UNCHANGED inGame
           /\ \E p \in {"tls", "ws", "over"} :
                /\ phase' = [phase EXCEPT ![c] = p]
                /\ phase[c] \in {"none", "tls", "ws"} \/ p = "over"
        \/ /\ UNCHANGED phase
           /\ \/ inGame' = inGame \cup {c} /\ phase[c] = "session"
              \/ inGame' = inGame \ {c}
    BY <1>3 DEF ClientNext, Accept, TlsHandshake, HandshakeTimesOut, HasTimeout,
       ResolveDone, ResolveFails, SocketFails, SessionEnds, JoinsGame, LeavesGame,
       connVars
  <2>3. ListsDistinct'
    BY <2>1 DEF ListInv, ListsDistinct
  <2>4. ListedHaveBegun'
    BY <2>1, <2>2 DEF ListInv, ListedHaveBegun
  <2>5. LiveAreListed'
    BY <2>1, <2>2 DEF ListInv, LiveAreListed
  <2>6. QED
    BY <2>3, <2>4, <2>5 DEF ListInv
<1>4. QED
  BY <1>1, <1>2, <1>3

LEMMA GameServerKeepsLists ==
  ASSUME ServerInv, NEW g \in Game, GameServerNext(g)
  PROVE  ListInv' /\ OneHandshake'
<1> USE ListTypes DEF ServerInv
<1>0. gameLoop = "handshake" <=> \E h \in Game : gamePhase[h] = "handshake"
  BY DEF ServerTypeOK
<1>1. CASE GameServerAccepted(g)
  <2>1. g \notin Range(webSockets) /\ gamePhase[g] = "handshake"
    BY <1>1 DEF GameServerAccepted, ListInv, ListedHaveBegun
  <2>2. Distinct(webSockets') /\ Range(webSockets') = Range(webSockets) \cup {g}
    BY <1>1, <2>1, AppendedTo DEF GameServerAccepted, ListInv, ListsDistinct
  <2>3. /\ gamePhase' = [gamePhase EXCEPT ![g] = "open"]
        /\ UNCHANGED <<inGame, phase, sslWebSockets, matchmakings>>
    BY <1>1 DEF GameServerAccepted, connVars
  <2>4. ListsDistinct' /\ ListedHaveBegun' /\ LiveAreListed'
    BY <2>1, <2>2, <2>3 DEF ListInv, ListsDistinct, ListedHaveBegun, LiveAreListed
  <2>5. OneHandshake'
    BY <2>3 DEF OneHandshake
  <2>6. QED
    BY <2>4, <2>5 DEF ListInv
<1>2. CASE ~GameServerAccepted(g)
  <2>1. /\ UNCHANGED <<sslWebSockets, matchmakings, webSockets, phase, inGame>>
        /\ \/ gamePhase[g] = "none" /\ gameLoop = "accepting"
              /\ gamePhase' = [gamePhase EXCEPT ![g] = "handshake"]
           \/ gamePhase' = [gamePhase EXCEPT ![g] = "over"]
    BY <1>2 DEF GameServerNext, GameServerConnects, GameServerFails, GameServerLeaves,
       lists, connVars
  <2>2. ListInv'
    BY <2>1 DEF ListInv, ListsDistinct, ListedHaveBegun, LiveAreListed
  <2>3. OneHandshake'
    BY <1>0, <2>1 DEF OneHandshake
  <2>4. QED
    BY <2>2, <2>3
<1>3. QED
  BY <1>1, <1>2

\* What the stop awaits is alive, and so is who may still have a session.
LEMMA LiveOnes ==
  ASSUME ServerInv
  PROVE  /\ stop.at = "sessions" => stop.node \in LiveMatchmakings
         /\ stop.at = "webSockets" => stop.node \in LiveWebSockets
         /\ stop.at = "sslWebSockets" => stop.node \in LiveSslWebSockets
         /\ \A c \in Conn : MayHaveSession(c) => c \in LiveSslWebSockets
         /\ \A c \in Conn : c \in inGame \/ phase[c] = "session" => c \in LiveMatchmakings
         /\ \A c \in Conn : phase[c] \in {"resolving", "resolved"} => c \in LiveSslWebSockets
         /\ LiveMatchmakings \subseteq LiveSslWebSockets
         /\ \A g \in Game : gamePhase[g] = "open" => g \in LiveWebSockets
<1>1. /\ stop.at = "sessions" => stop.node \in Conn
      /\ stop.at = "webSockets" => stop.node \in Game
      /\ stop.at = "sslWebSockets" => stop.node \in Conn
  BY ListTypes DEF ServerInv, StopIteratorsValid
<1>2. QED
  BY <1>1 DEF LiveMatchmakings, LiveSslWebSockets, LiveWebSockets, LockedAt, MayHaveSession

\* maintain forgets what has expired, and nothing else.
LEMMA MaintainForgets ==
  ASSUME ServerInv, Maintain
  PROVE  /\ sslWebSockets' \in Seq(Conn) /\ matchmakings' \in Seq(Conn)
         /\ webSockets' \in Seq(Game)
         /\ ListsDistinct'
         /\ Range(sslWebSockets') = Range(sslWebSockets) \cap LiveSslWebSockets
         /\ Range(matchmakings') = Range(matchmakings) \cap LiveMatchmakings
         /\ Range(webSockets') = Range(webSockets) \cap LiveWebSockets
         /\ \A x, y \in LiveSslWebSockets :
              Before(sslWebSockets, x, y) => Before(sslWebSockets', x, y)
BY ListTypes, KeptOf
   DEF ServerInv, ListInv, ListsDistinct, Maintain, ForgetExpired, Forget

LEMMA MaintainKeepsLists ==
  ASSUME ServerInv, Maintain
  PROVE  ListInv' /\ StopIteratorsValid' /\ ClosingInv'
<1>1. UNCHANGED <<phase, broken, inGame, gamePhase, stop, userLoop>>
  BY DEF Maintain, loopVars, connVars
<1>2. ListedHaveBegun'
  BY <1>1, MaintainForgets DEF ServerInv, ListInv, ListedHaveBegun
<1>3. LiveAreListed'
  BY <1>1, MaintainForgets, LiveOnes DEF ServerInv, ListInv, LiveAreListed
<1>4. StopIteratorsValid'
  BY <1>1, MaintainForgets, LiveOnes DEF ServerInv, StopIteratorsValid
<1>5. ClosingInv'
  BY <1>1, MaintainForgets, LiveOnes DEF ServerInv, ClosingInv, MayHaveSession
<1>6. QED
  BY <1>2, <1>3, <1>4, <1>5, MaintainForgets DEF ListInv
----------------------------------------------------------------------------
(* The loops of the stop *)

\* Where the loop over the sockets of clients goes: to the first it can lock, or,
\* when it can lock none, to the end.
SslLoopGoesOn(rest) ==
  \/ /\ stop'.at = "done" /\ stop'.node = NoNode
     /\ \A i \in rest : sslWebSockets[i] \notin LiveSslWebSockets
  \/ /\ stop'.at = "sslWebSockets" /\ stop'.node \in Range(sslWebSockets)
     /\ \A i \in rest : sslWebSockets[i] \in LiveSslWebSockets =>
          \/ sslWebSockets[i] = stop'.node
          \/ Before(sslWebSockets, stop'.node, sslWebSockets[i])
WebSocketLoopGoesOn ==
  \/ stop'.at = "webSockets" /\ stop'.node \in Range(webSockets)
  \/ SslLoopGoesOn(DOMAIN sslWebSockets)
SessionLoopGoesOn ==
  \/ /\ stop'.at = "sessions" /\ stop'.node \in Range(matchmakings)
     /\ UNCHANGED <<userLoop, gameLoop, maintainLoop>>
  \/ CloseAcceptors /\ WebSocketLoopGoesOn

LEMMA SslLoop ==
  ASSUME ServerInv, NEW rest \in SUBSET (DOMAIN sslWebSockets), CloseSslWebSockets(rest)
  PROVE  SslLoopGoesOn(rest)
<1> DEFINE L == Locked(sslWebSockets, rest, LiveSslWebSockets)
<1>1. sslWebSockets \in Seq(Conn)
  BY ListTypes DEF ServerInv
<1>2. CASE L # {} /\ Await("sslWebSockets", sslWebSockets, L)
  <2> DEFINE node == sslWebSockets[Min(L)]
  <2>1. stop'.at = "sslWebSockets" /\ stop'.node = node
    BY <1>2 DEF Await
  <2>2. /\ node \in Range(sslWebSockets)
        /\ \A i \in rest : sslWebSockets[i] \in LiveSslWebSockets
             => sslWebSockets[i] = node \/ Before(sslWebSockets, node, sslWebSockets[i])
    BY <1>1, <1>2, AwaitsTheFirst
  <2> HIDE DEF node
  <2>3. QED
    BY <2>1, <2>2 DEF SslLoopGoesOn
<1>3. CASE L = {} /\ stop' = [at |-> "done", node |-> NoNode]
  BY <1>3 DEF SslLoopGoesOn, Locked
<1>4. QED
  BY <1>2, <1>3 DEF CloseSslWebSockets

LEMMA WebSocketLoop ==
  ASSUME ServerInv, NEW rest \in SUBSET (DOMAIN webSockets), CloseWebSockets(rest)
  PROVE  WebSocketLoopGoesOn
<1> DEFINE L == Locked(webSockets, rest, LiveWebSockets)
<1>1. webSockets \in Seq(Game)
  BY ListTypes DEF ServerInv
<1>2. CASE L # {} /\ Await("webSockets", webSockets, L)
  <2>1. webSockets[Min(L)] \in Range(webSockets)
    BY <1>1, <1>2, AwaitsTheFirst
  <2>2. QED
    BY <1>2, <2>1 DEF WebSocketLoopGoesOn, Await
<1>3. CASE CloseSslWebSockets(DOMAIN sslWebSockets)
  BY <1>3, SslLoop DEF WebSocketLoopGoesOn
<1>4. QED
  BY <1>2, <1>3 DEF CloseWebSockets

LEMMA SessionLoop ==
  ASSUME ServerInv, NEW rest \in SUBSET (DOMAIN matchmakings), CloseSessions(rest)
  PROVE  SessionLoopGoesOn
<1> DEFINE L == Locked(matchmakings, rest, inGame)
<1>1. matchmakings \in Seq(Conn)
  BY ListTypes DEF ServerInv
<1>2. CASE /\ L # {} /\ Await("sessions", matchmakings, L)
           /\ UNCHANGED <<userLoop, gameLoop, maintainLoop>>
  <2>1. matchmakings[Min(L)] \in Range(matchmakings)
    BY <1>1, <1>2, AwaitsTheFirst
  <2>2. QED
    BY <1>2, <2>1 DEF SessionLoopGoesOn, Await
<1>3. CASE CloseAcceptors /\ CloseWebSockets(DOMAIN webSockets)
  BY <1>3, WebSocketLoop DEF SessionLoopGoesOn
<1>4. QED
  BY <1>2, <1>3 DEF CloseSessions

\* What every step of the stop does.
StopStep ==
  /\ \/ running' = FALSE /\ SessionLoopGoesOn
     \/ /\ stop.at \in {"webSockets", "sslWebSockets"} /\ UNCHANGED <<loopVars, maintainLoop>>
        /\ \/ WebSocketLoopGoesOn
           \/ /\ stop.at = "sslWebSockets" /\ broken' = broken \cup {stop.node}
              /\ SslLoopGoesOn(Rest(sslWebSockets, stop.node))
  /\ UNCHANGED <<phase, sslWebSockets, matchmakings, webSockets>>
  /\ inGame' \subseteq inGame
  /\ broken \subseteq broken' /\ broken' \subseteq Conn
  /\ \/ UNCHANGED gamePhase
     \/ \E g \in Game : /\ gamePhase[g] \in {"open", "over"}
                        /\ gamePhase' = [gamePhase EXCEPT ![g] = "over"]

LEMMA StopSteps ==
  ASSUME ServerInv, StopNext
  PROVE  StopStep
<1> USE ListTypes DEF ServerInv
<1>0. stop.at # "no" => running = FALSE
  BY DEF ServerTypeOK
<1>1. CASE AsyncStopRunning
  <2>1. SessionLoopGoesOn
    BY <1>1, SessionLoop DEF AsyncStopRunning
  <2>2. QED
    BY <1>1, <2>1 DEF AsyncStopRunning, StopStep, connVars, lists
<1>2. CASE GameLinkClosed
  <2>1. Rest(matchmakings, stop.node) \in SUBSET (DOMAIN matchmakings)
    BY DEF Rest
  <2>2. SessionLoopGoesOn
    BY <1>2, <2>1, SessionLoop DEF GameLinkClosed
  <2>3. QED
    BY <1>0, <1>2, <2>2 DEF GameLinkClosed, StopStep, lists
<1>3. CASE WebSocketClosed
  <2>1. Rest(webSockets, stop.node) \in SUBSET (DOMAIN webSockets)
    BY DEF Rest
  <2>2. WebSocketLoopGoesOn
    BY <1>3, <2>1, WebSocketLoop DEF WebSocketClosed
  <2>3. stop.node \in Game /\ gamePhase[stop.node] \in {"open", "over"}
    BY <1>3 DEF WebSocketClosed, StopIteratorsValid, ListInv, ListedHaveBegun
  <2>4. QED
    BY <1>3, <2>2, <2>3 DEF WebSocketClosed, StopStep, lists, connVars
<1>4. CASE SslWebSocketClosed
  <2>1. Rest(sslWebSockets, stop.node) \in SUBSET (DOMAIN sslWebSockets)
    BY DEF Rest
  <2>2. SslLoopGoesOn(Rest(sslWebSockets, stop.node))
    BY <1>4, <2>1, SslLoop DEF SslWebSocketClosed
  <2>3. stop.node \in Conn
    BY <1>4 DEF SslWebSocketClosed, StopIteratorsValid
  <2>4. QED
    BY <1>4, <2>2, <2>3 DEF SslWebSocketClosed, StopStep, lists
<1>5. QED
  BY <1>1, <1>2, <1>3, <1>4 DEF StopNext

LEMMA StopKeepsLists ==
  ASSUME ServerInv, StopStep
  PROVE  ListInv' /\ OneHandshake' /\ StopIteratorsValid'
<1> USE ListTypes DEF ServerInv
<1>1. ListInv'
  BY DEF StopStep, ListInv, ListsDistinct, ListedHaveBegun, LiveAreListed
<1>2. OneHandshake'
  BY DEF StopStep, OneHandshake
<1>3. StopIteratorsValid'
  BY DEF StopStep, StopIteratorsValid, SessionLoopGoesOn, WebSocketLoopGoesOn, SslLoopGoesOn
<1>4. QED
  BY <1>1, <1>2, <1>3

\* When the loop over the sockets of clients begins, everybody who may have a
\* session is in its list; when it goes on from one, the others come after that.
LEMMA StopClosesSessions ==
  ASSUME ServerInv, StopStep
  PROVE  ClosingInv' /\ AcceptorInv'
<1> USE ListTypes DEF ServerInv
<1>1. /\ userLoop = "ended" => userLoop' = "ended"
      /\ userLoop' = "loading" => userLoop = "loading"
      /\ stop'.at \in {"webSockets", "sslWebSockets", "done"} => userLoop' # "accepting"
  BY DEF StopStep, SessionLoopGoesOn, CloseAcceptors, WebSocketLoopGoesOn, SslLoopGoesOn,
     loopVars, AcceptorInv
<1>2. AcceptorInv'
  BY <1>1 DEF StopStep, AcceptorInv
<1>3. \A c \in Conn : MayHaveSession(c)' =>
        MayHaveSession(c) /\ c \in Range(sslWebSockets) /\ c \in LiveSslWebSockets
  BY <1>1, LiveOnes DEF StopStep, MayHaveSession, ListInv, LiveAreListed
<1>4. CASE SslLoopGoesOn(DOMAIN sslWebSockets)
  <2>1. \A c \in Conn : MayHaveSession(c)' =>
          \E i \in DOMAIN sslWebSockets :
            sslWebSockets[i] = c /\ sslWebSockets[i] \in LiveSslWebSockets
    BY <1>3 DEF Range
  <2>2. QED
    BY <1>2, <1>4, <2>1 DEF SslLoopGoesOn, ClosingInv, StopStep
<1>5. CASE /\ stop.at = "sslWebSockets" /\ broken' = broken \cup {stop.node}
           /\ SslLoopGoesOn(Rest(sslWebSockets, stop.node))
  <2>1. ASSUME NEW c \in Conn, MayHaveSession(c)', c \notin broken'
        PROVE  \E i \in Rest(sslWebSockets, stop.node) :
                 sslWebSockets[i] = c /\ sslWebSockets[i] \in LiveSslWebSockets
    <3>1. c \in LiveSslWebSockets /\ Before(sslWebSockets, stop.node, c)
      BY <1>3, <1>5, <2>1 DEF ClosingInv
    <3>2. QED
      BY <3>1, RestIsAfter DEF ListInv, ListsDistinct
  <2>2. QED
    BY <1>2, <1>5, <2>1 DEF SslLoopGoesOn, ClosingInv, StopStep
<1>6. CASE stop'.at \in {"sessions", "webSockets"}
  BY <1>2, <1>6 DEF ClosingInv
<1>7. QED
  BY <1>4, <1>5, <1>6 DEF StopStep, SessionLoopGoesOn, WebSocketLoopGoesOn
----------------------------------------------------------------------------
(* The steps of clients and game servers during the stop *)

LEMMA ClientKeepsStop ==
  ASSUME ServerInv, NEW c \in Conn, ClientNext(c)
  PROVE  StopIteratorsValid' /\ AcceptorInv' /\ ClosingInv' /\ OneHandshake'
<1> USE ListTypes DEF ServerInv
<1>1. /\ UNCHANGED <<running, stop, webSockets, gamePhase>>
      /\ broken \subseteq broken'
  BY DEF ClientNext, Accept, TlsHandshake, WebSocketHandshake, HandshakeTimesOut,
     ResolveDone, ResolveFails, SessionStarts, SocketFails, SessionEnds, JoinsGame,
     LeavesGame, MayBreak, loopVars, lists, connVars
<1>2. /\ Range(sslWebSockets) \subseteq Range(sslWebSockets')
      /\ Range(matchmakings) \subseteq Range(matchmakings')
      /\ \A x, y : Before(sslWebSockets, x, y) => Before(sslWebSockets', x, y)
  <2>1. CASE WebSocketHandshake(c)
    <3>1. c \notin Range(sslWebSockets)
      BY <2>1 DEF WebSocketHandshake, ListInv, ListedHaveBegun
    <3>2. QED
      BY <2>1, <3>1, AppendedTo DEF WebSocketHandshake, ListInv, ListsDistinct
  <2>2. CASE SessionStarts(c)
    <3>1. c \notin Range(matchmakings)
      BY <2>2 DEF SessionStarts, ListInv, ListedHaveBegun
    <3>2. QED
      BY <2>2, <3>1, AppendedTo DEF SessionStarts, ListInv, ListsDistinct
  <2>3. CASE ~WebSocketHandshake(c) /\ ~SessionStarts(c)
    <3>1. UNCHANGED <<sslWebSockets, matchmakings>>
      BY <2>3 DEF ClientNext, Accept, TlsHandshake, HandshakeTimesOut, ResolveDone,
         ResolveFails, SocketFails, SessionEnds, JoinsGame, LeavesGame, lists
    <3>2. QED
      BY <3>1
  <2>4. QED
    BY <2>1, <2>2, <2>3
<1>3. /\ \/ UNCHANGED userLoop
         \/ /\ userLoop \in {"accepting", "aborted"}
            /\ userLoop' = IF running THEN "accepting" ELSE "ended"
      /\ userLoop = "loading" => UNCHANGED <<phase, userLoop>>
  BY DEF ClientNext, Accept, TlsHandshake, WebSocketHandshake, HandshakeTimesOut,
     HasTimeout, ResolveDone, ResolveFails, SessionStarts, SocketFails, SessionEnds,
     JoinsGame, LeavesGame, loopVars, connVars, AcceptorInv
<1>4. running <=> stop.at = "no"
  BY DEF ServerTypeOK
<1>5. StopIteratorsValid'
  BY <1>1, <1>2 DEF StopIteratorsValid
<1>6. AcceptorInv'
  BY <1>1, <1>3, <1>4 DEF AcceptorInv
<1>7. ASSUME stop.at \in {"sslWebSockets", "done"}, NEW d \in Conn, MayHaveSession(d)'
      PROVE  MayHaveSession(d)
  <2>1. userLoop # "accepting" /\ ~running
    BY <1>4, <1>7 DEF AcceptorInv
  <2>2. userLoop' # "ended" => userLoop # "ended"
    BY <1>3
  <2>3. \/ UNCHANGED phase
        \/ \E p \in Phase :
             /\ phase' = [phase EXCEPT ![c] = p]
             /\ p = "session" => phase[c] = "resolved" /\ userLoop # "ended"
             /\ p = "resolved" => ResolveDone(c)
    BY DEF ClientNext, Accept, TlsHandshake, WebSocketHandshake, HandshakeTimesOut,
       ResolveDone, ResolveFails, SessionStarts, SocketFails, SessionEnds, JoinsGame,
       LeavesGame, connVars, Phase
  <2>4. ResolveDone(c) => userLoop' = "ended"
    BY <2>1 DEF ResolveDone, AcceptorInv, ServerTypeOK, UserLoop, loopVars
  <2>5. QED
    BY <1>7, <2>2, <2>3, <2>4 DEF MayHaveSession
<1>8. ClosingInv'
  BY <1>1, <1>2, <1>7 DEF ClosingInv
<1>9. OneHandshake'
  BY <1>1 DEF OneHandshake
<1>10. QED
  BY <1>5, <1>6, <1>8, <1>9

LEMMA GameServerKeepsStop ==
  ASSUME ServerInv, NEW g \in Game, GameServerNext(g)
  PROVE  StopIteratorsValid' /\ AcceptorInv' /\ ClosingInv'
<1> USE ListTypes DEF ServerInv
<1>1. /\ UNCHANGED <<running, userLoop, stop, phase, broken, sslWebSockets, matchmakings>>
      /\ Range(webSockets) \subseteq Range(webSockets')
  <2>1. CASE GameServerAccepted(g)
    <3>1. g \notin Range(webSockets)
      BY <2>1 DEF GameServerAccepted, ListInv, ListedHaveBegun
    <3>2. QED
      BY <2>1, <3>1, AppendedTo DEF GameServerAccepted, ListInv, ListsDistinct, connVars
  <2>2. CASE ~GameServerAccepted(g)
    BY <2>2 DEF GameServerNext, GameServerConnects, GameServerFails, GameServerLeaves,
       lists, connVars, loopVars
  <2>3. QED
    BY <2>1, <2>2
<1>2. QED
  BY <1>1 DEF StopIteratorsValid, AcceptorInv, ClosingInv, MayHaveSession
----------------------------------------------------------------------------
(* Types *)

LEMMA ClientKeepsTypes ==
  ASSUME ServerInv, NEW c \in Conn, ClientNext(c), UNCHANGED fault
  PROVE  ServerTypeOK'
<1> USE ListTypes DEF ServerInv
<1>1. /\ UNCHANGED <<running, gameLoop, gamePhase, stop, webSockets, maintainLoop>>
      /\ \/ UNCHANGED userLoop
         \/ userLoop' = IF running THEN "accepting" ELSE "ended"
  BY DEF ClientNext, Accept, TlsHandshake, WebSocketHandshake, HandshakeTimesOut,
     ResolveDone, ResolveFails, SessionStarts, SocketFails, SessionEnds, JoinsGame,
     LeavesGame, loopVars, lists
<1>2. \/ UNCHANGED phase
      \/ \E p \in Phase : phase' = [phase EXCEPT ![c] = p]
  BY DEF ClientNext, Accept, TlsHandshake, WebSocketHandshake, HandshakeTimesOut,
     ResolveDone, ResolveFails, SessionStarts, SocketFails, SessionEnds, JoinsGame,
     LeavesGame, connVars, Phase
<1>3. /\ broken' = broken \/ broken' = broken \cup {c}
      /\ inGame' = inGame \/ inGame' = inGame \cup {c} \/ inGame' = inGame \ {c}
  BY DEF ClientNext, Accept, TlsHandshake, WebSocketHandshake, HandshakeTimesOut,
     ResolveDone, ResolveFails, SessionStarts, SocketFails, SessionEnds, JoinsGame,
     LeavesGame, connVars, MayBreak
<1>4. /\ sslWebSockets' \in {sslWebSockets, Append(sslWebSockets, c)}
      /\ matchmakings' \in {matchmakings, Append(matchmakings, c)}
  BY DEF ClientNext, Accept, TlsHandshake, WebSocketHandshake, HandshakeTimesOut,
     ResolveDone, ResolveFails, SessionStarts, SocketFails, SessionEnds, JoinsGame,
     LeavesGame, lists
<1>5. sslWebSockets' \in Seq(Conn) /\ matchmakings' \in Seq(Conn)
  <2>1. \A list \in Seq(Conn) : Append(list, c) \in Seq(Conn)
    OBVIOUS
  <2>2. sslWebSockets \in Seq(Conn) /\ matchmakings \in Seq(Conn)
    OBVIOUS
  <2>3. QED
    BY <1>4, <2>1, <2>2
<1>6. phase' \in [Conn -> Phase] /\ broken' \subseteq Conn /\ inGame' \subseteq Conn
  BY <1>2, <1>3
<1>7. userLoop' \in UserLoop /\ (userLoop' = "aborted" => ~running)
  BY <1>1 DEF ServerTypeOK, UserLoop
<1>8. QED
  BY <1>1, <1>5, <1>6, <1>7 DEF ServerTypeOK

LEMMA GameServerKeepsTypes ==
  ASSUME ServerInv, NEW g \in Game, GameServerNext(g), UNCHANGED fault
  PROVE  ServerTypeOK'
<1> USE DEF ServerInv, ServerTypeOK, GameLoop, GamePhase
<1>1. CASE GameServerConnects(g)
  BY <1>1 DEF GameServerConnects, lists, connVars
<1>2. CASE GameServerAccepted(g)
  BY <1>2 DEF GameServerAccepted, NextRound, connVars, OneHandshake
<1>3. CASE GameServerFails(g)
  BY <1>3 DEF GameServerFails, NextRound, connVars, lists, OneHandshake
<1>4. CASE GameServerLeaves(g)
  BY <1>4 DEF GameServerLeaves, connVars, lists, loopVars
<1>5. QED
  BY <1>1, <1>2, <1>3, <1>4 DEF GameServerNext

LEMMA StopKeepsTypes ==
  ASSUME ServerInv, StopNext, StopStep, UNCHANGED fault
  PROVE  ServerTypeOK'
<1> USE ListTypes DEF ServerInv
<1>1. running' = FALSE /\ stop'.at \in StopPlace \ {"no"}
  BY DEF StopStep, SessionLoopGoesOn, WebSocketLoopGoesOn, SslLoopGoesOn, StopPlace,
     loopVars, ServerTypeOK
<1>2. stop'.node \in Conn \cup Game \cup {NoNode}
  BY DEF StopStep, SessionLoopGoesOn, WebSocketLoopGoesOn, SslLoopGoesOn
<1>3. /\ userLoop' \in UserLoop /\ gameLoop' \in GameLoop
      /\ maintainLoop' \in {"waiting", "due", "ended"}
      /\ gameLoop' = "handshake" <=> gameLoop = "handshake"
  BY DEF StopStep, SessionLoopGoesOn, CloseAcceptors, loopVars, ServerTypeOK, UserLoop,
     GameLoop
<1>4. /\ phase' \in [Conn -> Phase] /\ gamePhase' \in [Game -> GamePhase]
      /\ broken' \subseteq Conn /\ inGame' \subseteq Conn
      /\ sslWebSockets' \in Seq(Conn) /\ matchmakings' \in Seq(Conn)
      /\ webSockets' \in Seq(Game)
  BY DEF StopStep, GamePhase
<1>5. \A g \in Game : gamePhase'[g] = "handshake" <=> gamePhase[g] = "handshake"
  BY DEF StopStep
<1>6. QED
  BY <1>1, <1>2, <1>3, <1>4, <1>5 DEF ServerTypeOK

LEMMA LoopKeepsInv ==
  ASSUME ServerInv, CertificatesLoaded \/ AcceptAborted \/ MaintainDue, UNCHANGED fault
  PROVE  ServerInv'
<1> USE DEF ServerInv
<1>1. /\ UNCHANGED <<running, gameLoop, phase, broken, inGame, gamePhase, sslWebSockets,
                     matchmakings, webSockets, stop>>
      /\ \/ UNCHANGED userLoop
         \/ userLoop' = "ended"
         \/ userLoop' = "accepting" /\ userLoop = "loading" /\ running
      /\ maintainLoop' \in {"waiting", "due", "ended"}
  BY DEF CertificatesLoaded, AcceptAborted, MaintainDue, loopVars, connVars, lists,
     ServerTypeOK
<1>2. ServerTypeOK'
  BY <1>1 DEF ServerTypeOK, UserLoop
<1>3. ListInv'
  BY <1>1 DEF ListInv, ListsDistinct, ListedHaveBegun, LiveAreListed
<1>4. StopIteratorsValid' /\ OneHandshake'
  BY <1>1 DEF StopIteratorsValid, OneHandshake
<1>5. AcceptorInv'
  BY <1>1 DEF AcceptorInv, ServerTypeOK
<1>6. ClosingInv'
  BY <1>1 DEF ClosingInv, MayHaveSession, AcceptorInv
<1>7. QED
  BY <1>2, <1>3, <1>4, <1>5, <1>6

LEMMA NextKeepsServerInv == ServerInv /\ [Next]_vars => ServerInv'
<1> SUFFICES ASSUME ServerInv, [Next]_vars PROVE ServerInv'
  OBVIOUS
<1>1. ASSUME NEW c \in Conn, ClientNext(c), UNCHANGED fault PROVE ServerInv'
  BY <1>1, ClientKeepsTypes, ClientKeepsLists, ClientKeepsStop DEF ServerInv
<1>2. ASSUME NEW g \in Game, GameServerNext(g), UNCHANGED fault PROVE ServerInv'
  BY <1>2, GameServerKeepsTypes, GameServerKeepsLists, GameServerKeepsStop DEF ServerInv
<1>3. CASE StopNext /\ UNCHANGED fault
  BY <1>3, StopSteps, StopKeepsTypes, StopKeepsLists, StopClosesSessions DEF ServerInv
<1>4. CASE Maintain /\ UNCHANGED fault
  <2>1. /\ UNCHANGED <<running, userLoop, gameLoop, phase, broken, inGame, gamePhase, stop>>
        /\ maintainLoop' = "waiting"
    BY <1>4 DEF Maintain, loopVars, connVars
  <2>2. ServerTypeOK'
    BY <1>4, <2>1, MaintainForgets DEF ServerInv, ServerTypeOK
  <2>3. OneHandshake' /\ AcceptorInv'
    BY <2>1 DEF ServerInv, OneHandshake, AcceptorInv
  <2>4. QED
    BY <1>4, <2>2, <2>3, MaintainKeepsLists DEF ServerInv
<1>5. CASE (CertificatesLoaded \/ AcceptAborted \/ MaintainDue) /\ UNCHANGED fault
  BY <1>5, LoopKeepsInv
<1>6. ASSUME NEW c \in Conn, SessionStartsTooLate(c) PROVE ServerInv'
  BY <1>6 DEF SessionStartsTooLate, loopVars, connVars, lists, ServerInv, ServerTypeOK,
     ListInv, ListsDistinct, ListedHaveBegun, LiveAreListed, StopIteratorsValid,
     OneHandshake, AcceptorInv, ClosingInv, MayHaveSession
<1>7. CASE UNCHANGED vars
  BY <1>7 DEF vars, ServerInv, ServerTypeOK, ListInv, ListsDistinct, ListedHaveBegun,
     LiveAreListed, StopIteratorsValid, OneHandshake, AcceptorInv, ClosingInv,
     MayHaveSession
<1>8. QED
  BY <1>1, <1>2, <1>3, <1>4, <1>5, <1>6, <1>7 DEF Next

LEMMA InitServerInv == Init => ServerInv
<1> SUFFICES ASSUME Init PROVE ServerInv
  OBVIOUS
<1>1. Range(<<>>) = {} /\ Distinct(<<>>)
  BY DEF Range, Distinct
<1>2. sslWebSockets = <<>> /\ matchmakings = <<>> /\ webSockets = <<>>
  BY DEF Init
<1>3. ServerTypeOK
  <2>1. <<>> \in Seq(Conn) /\ <<>> \in Seq(Game)
    OBVIOUS
  <2>2. QED
    BY <1>2, <2>1 DEF Init, ServerTypeOK, UserLoop, GameLoop, Phase, GamePhase, StopPlace
<1>4. ListInv
  BY <1>1, <1>2 DEF Init, ListInv, ListsDistinct, ListedHaveBegun, LiveAreListed
<1>5. StopIteratorsValid /\ OneHandshake /\ AcceptorInv /\ ClosingInv
  BY DEF Init, StopIteratorsValid, OneHandshake, AcceptorInv, ClosingInv
<1>6. QED
  BY <1>3, <1>4, <1>5 DEF ServerInv

LEMMA ServerInvariant == Spec => []ServerInv
<1>1. QED
  BY InitServerInv, NextKeepsServerInv, PTL DEF Spec
----------------------------------------------------------------------------
(* The theorems *)

\* The values of the variables, and what the loops have in common with the flag and
\* the connections.
THEOREM ServerTyped == Spec => []ServerTypeOK
<1>1. ServerInv => ServerTypeOK
  BY DEF ServerInv
<1>2. QED
  BY <1>1, ServerInvariant, PTL

\* The node asyncStopRunning awaits stays in its list until the loop has left it,
\* whatever maintain forgets meanwhile: its pointer is locked.
THEOREM IteratorsStayValid == Spec => []StopIteratorsValid
<1>1. ServerInv => StopIteratorsValid
  BY DEF ServerInv
<1>2. QED
  BY <1>1, ServerInvariant, PTL

\* A session can be reached through the lists, and so can its socket, after any
\* number of rounds of maintain.
THEOREM SessionsStayListed == Spec => []SessionIsListed
<1>1. ServerInv => SessionIsListed
  BY DEF ServerInv, ListInv, LiveAreListed, SessionIsListed
<1>2. QED
  BY <1>1, ServerInvariant, PTL

\* When asyncStopRunning has ended, the sockets of all sessions are closed, also of
\* those that were in their handshake or being resolved while it waited.
THEOREM StopLeavesNoSession == Spec => []NoSessionAfterStop
<1>1. ServerInv => NoSessionAfterStop
  BY DEF ServerInv, ClosingInv, MayHaveSession, NoSessionAfterStop
<1>2. QED
  BY <1>1, ServerInvariant, PTL
=============================================================================
