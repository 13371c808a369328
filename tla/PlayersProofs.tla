--------------------------- MODULE PlayersProofs ---------------------------
(***************************************************************************)
(* What the users are told, for every number of clients and accounts: the  *)
(* types, also of the ratings that games yield, the list of the players    *)
(* who are logged in, the top rated players, and the channels.             *)
(***************************************************************************)
EXTENDS Players, SessionProofs, RatingProofs

----------------------------------------------------------------------------
(* What a step does to the names, the clients and the database *)

\* A name comes with the entry of LoggedIn and goes where a user who is logged
\* in leaves or the client disconnects.
NameChanges(c) ==
  \/ accountName'[c] = accountName[c]
  \/ accountName'[c] = NoAccount /\ (state[c] = "LoggedIn" \/ c \notin online')
  \/ accountName[c] = NoAccount /\ EntersLoggedIn(c)
Arrives(c) == c \in online' => c \in online \/ state[c] = "Closed"
NamesChange == \A c \in Conn : NameChanges(c) /\ Arrives(c)
DatabaseGrows == \E a \in Account : database' \in {database, database \cup {a}}

\* A step that has nothing to do with names, or ends the process.
LEMMA QuietNames ==
  ASSUME UNCHANGED <<accountName, online>>
  PROVE  NamesChange
BY DEF NamesChange, NameChanges, Arrives

LEMMA StopNames ==
  ASSUME NEW why, ProcessStops(why)
  PROVE  NamesChange
BY DEF ProcessStops, NamesChange, NameChanges, Arrives

\* Some coroutine or client gives a session its name.
LEMMA LogInNames ==
  ASSUME IInv, LinkInv, NEW c \in Conn, NEW a, LogIn(c, a), UNCHANGED online,
         state[c] \in LoginState \ {"LoggedIn", "WaitingForUserWantsToRelogGameLobby"}
  PROVE  NamesChange
<1>1. state'[c] = "LoggedIn" /\ \A d \in Conn \ {c} : accountName'[d] = accountName[d]
  BY Typed DEF LogIn, GoTo
<1>2. accountName[c] = NoAccount
  BY NoAccountYet
<1>3. QED
  BY <1>1, <1>2 DEF NamesChange, NameChanges, Arrives, EntersLoggedIn

\* A user who is logged in leaves the account.
LEMMA LeaveNames ==
  ASSUME IInv, NEW c \in Conn, LeaveAccount(c), UNCHANGED online,
         state[c] = "LoggedIn"
  PROVE  NamesChange
<1>1. /\ accountName'[c] = NoAccount
      /\ \A d \in Conn \ {c} : accountName'[d] = accountName[d]
  BY Typed DEF LeaveAccount
<1>2. QED
  BY <1>1 DEF NamesChange, NameChanges, Arrives

LEMMA ClientNames ==
  ASSUME IInv, LinkInv, NEW c \in Conn,
         \/ Connect(c) \/ Disconnect(c)
         \/ CancelRequest(c) \/ RelogTo(c) \/ LogoutAccount(c)
         \/ \E g \in Guest : LoginAsGuest(c, g)
         \/ \E a \in Registered : CreateAccount(c, a) \/ LoginAccount(c, a)
         \/ \E a \in SteamAccount : LoginAccountSteam(c, a)
  PROVE  NamesChange
<1>1. CASE Connect(c)
  BY <1>1 DEF Connect, NamesChange, NameChanges, Arrives
<1>2. CASE Disconnect(c)
  <2>1. /\ accountName'[c] = NoAccount /\ online' = online \ {c}
        /\ \A d \in Conn \ {c} : accountName'[d] = accountName[d]
    BY <1>2, Typed DEF Disconnect
  <2>2. QED
    BY <2>1 DEF NamesChange, NameChanges, Arrives
<1>3. CASE CancelRequest(c) \/ RelogTo(c)
  BY <1>3, QuietNames DEF CancelRequest, RelogTo
<1>4. CASE LogoutAccount(c)
  BY <1>4, LeaveNames DEF LogoutAccount, In
<1>5. ASSUME NEW g \in Guest, LoginAsGuest(c, g) PROVE NamesChange
  <2>1. state[c] \in LoginState \ {"LoggedIn", "WaitingForUserWantsToRelogGameLobby"}
    BY <1>5 DEF LoginAsGuest, In, LoginState, State
  <2>2. LogIn(c, g) /\ UNCHANGED online
    BY <1>5 DEF LoginAsGuest, LogIn
  <2>3. QED
    BY <2>1, <2>2, LogInNames
<1>6. ASSUME NEW a \in Registered, CreateAccount(c, a) \/ LoginAccount(c, a)
      PROVE NamesChange
  BY <1>6, QuietNames, LeaveNames DEF CreateAccount, LoginAccount, SpawnPasswordJob, In
<1>7. ASSUME NEW a \in SteamAccount, LoginAccountSteam(c, a) PROVE NamesChange
  BY <1>7, QuietNames DEF LoginAccountSteam
<1>8. QED
  BY <1>1, <1>2, <1>3, <1>4, <1>5, <1>6, <1>7

LEMMA JobNames ==
  ASSUME IInv, LinkInv, NEW j \in JobId,
         \/ \E ok \in BOOLEAN : PasswordJobDone(j, ok)
         \/ PasswordHashed(j) \/ PasswordChecked(j) \/ StaleResult(j)
         \/ SteamLoginSuccess(j) \/ SteamLoginError(j) \/ SteamRequestFails(j)
         \/ ResumesAfterDisconnect(j)
  PROVE  NamesChange
<1> DEFINE c == jobs[j].conn
           a == jobs[j].account
<1>1. CASE /\ UNCHANGED <<accountName, online>>
  BY <1>1, QuietNames
<1>2. CASE PasswordHashed(j) \/ PasswordChecked(j)
  <2>1. /\ state[c] \in {"WaitingForPasswordHashed", "WaitingForPasswordCheck"}
        /\ c \in Conn /\ UNCHANGED online
        /\ UNCHANGED accountName \/ LogIn(c, a)
    BY <1>2 DEF PasswordHashed, PasswordChecked, Resumes
  <2>2. state[c] \in LoginState \ {"LoggedIn", "WaitingForUserWantsToRelogGameLobby"}
    BY <2>1 DEF LoginState, State
  <2>3. QED
    BY <1>1, <2>1, <2>2, LogInNames
<1>3. CASE SteamLoginSuccess(j)
  <2>1. c \in Conn /\ jobs[j].kind = "steam" /\ LogIn(c, a) /\ UNCHANGED online
    BY <1>3 DEF SteamLoginSuccess, Resumes
  <2>2. state[c] = "WaitingForCheckSteam"
    BY <2>1 DEF LinkInv, JobsFit, JobFits
  <2>3. state[c] \in LoginState \ {"LoggedIn", "WaitingForUserWantsToRelogGameLobby"}
    BY <2>2 DEF LoginState, State
  <2>4. QED
    BY <2>1, <2>3, LogInNames
<1>4. CASE ResumesAfterDisconnect(j)
  BY <1>4, StopNames DEF ResumesAfterDisconnect, UsesDestroyedObject
<1>5. CASE \/ \E ok \in BOOLEAN : PasswordJobDone(j, ok)
           \/ StaleResult(j) \/ SteamLoginError(j) \/ SteamRequestFails(j)
  BY <1>1, <1>5
     DEF PasswordJobDone, StaleResult, SteamLoginError, SteamRequestFails, Resumes,
         sessionVars
<1>6. QED
  BY <1>2, <1>3, <1>4, <1>5

LEMMA NextNames ==
  ASSUME IInv, LinkInv, Next \/ UNCHANGED vars \/ \E why : ProcessStops(why)
  PROVE  NamesChange
<1>1. CASE \E why : ProcessStops(why)
  BY <1>1, StopNames
<1>2. CASE AccountLoginNext
  BY <1>2, ClientNames, JobNames DEF AccountLoginNext
<1>3. CASE UNCHANGED <<accountName, online>>
  BY <1>3, QuietNames
<1>4. CASE CustomLobbyNext
  BY <1>3, <1>4, Zenon
     DEF CustomLobbyNext, CreateGameLobby, JoinGameLobby,
         SetMaxUserSizeInCreateGameLobby, LeaveGameLobby, sessionVars
<1>5. CASE MatchmakingQueueNext
  BY <1>1, <1>3, <1>5
     DEF MatchmakingQueueNext, JoinMatchMakingQueue, LeaveQuickGameQueue, Requeue,
         sessionVars
<1>6. CASE GameInvitationNext
  BY <1>1, <1>3, <1>6, Zenon
     DEF GameInvitationNext, CreateGame, AcceptGame, DeclineGame, TimerExpires,
         TimerFires, UsesDestroyedObject, sessionVars
<1>7. CASE GameStartNext
  BY <1>1, <1>3, <1>7
     DEF GameStartNext, StartGameSent, StartGameFails, StartGameAnswered,
         StartGameUnanswered, UsesDestroyedObject, sessionVars
<1>8. CASE GameProxyNext
  BY <1>3, <1>8
     DEF GameProxyNext, ConnectGameError, GameConnected, FirstMessageFromGame,
         LeaveGameSuccess, ConnectionToGameLost, LinkEnds
<1>9. CASE UNCHANGED vars \/ Crashed
  BY <1>3, <1>9 DEF Crashed, vars
<1>10. QED
  BY <1>1, <1>2, <1>4, <1>5, <1>6, <1>7, <1>8, <1>9 DEF Next
----------------------------------------------------------------------------
(* The list of the top rated players *)

\* A list without repetition of all accounts of S.
Listing(s, S) ==
  /\ s \in [1 .. Cardinality(S) -> S]
  /\ \A i, j \in 1 .. Cardinality(S) : i # j => s[i] # s[j]
Sorted(s, n, r) == \A i, j \in 1 .. n : i <= j => r[s[i]] >= r[s[j]]
Above(s, n, r, i) == {j \in 1 .. n : r[s[j]] > r[s[i]]}

LEMMA ListingFacts ==
  ASSUME NEW S, IsFiniteSet(S), NEW s \in SetToSeqs(S)
  PROVE  /\ Listing(s, S) /\ Len(s) = Cardinality(S)
         /\ DOMAIN s = 1 .. Cardinality(S) /\ ToSet(s) = S
<1> DEFINE n == Cardinality(S)
<1>0. n \in Nat
  BY FS_CardinalityType
<1>1. Listing(s, S)
  BY DEF SetToSeqs, Listing
<1>2. Len(s) = n
  BY <1>0, <1>1 DEF Listing
<1>3. \A i, j \in 1 .. n : s[i] = s[j] => i = j
  BY <1>1 DEF Listing
<1>4. s \in Injection(1 .. n, S)
  BY <1>1, <1>3 DEF Injection, IsInjective, Listing
<1>5. IsFiniteSet(1 .. n) /\ Cardinality(1 .. n) = n
  <2>1. \A k \in Nat : IsFiniteSet(1 .. k) /\ Cardinality(1 .. k) = k
    BY FS_Interval
  <2>2. QED
    BY <1>0, <2>1
<1>6. s \in Surjection(1 .. n, S)
  BY <1>4, <1>5, FS_Injection
<1>7. ToSet(s) = S
  BY <1>1, <1>6 DEF ToSet, Surjection, Listing
<1>8. QED
  BY <1>1, <1>2, <1>7 DEF Listing

\* Where neighbours are in order, all are.
LEMMA OrderedIsSorted ==
  ASSUME NEW n \in Nat, NEW s, NEW r, \A i \in 1 .. n : r[s[i]] \in Nat,
         \A i \in 1 .. n - 1 : r[s[i]] >= r[s[i + 1]]
  PROVE  Sorted(s, n, r)
<1> DEFINE Bad == {d \in Nat : \E i \in 1 .. n : i + d \in 1 .. n /\ r[s[i]] < r[s[i + d]]}
<1>1. Bad = {}
  <2> SUFFICES ASSUME NEW d \in Bad, \A m \in Bad : d <= m PROVE FALSE
    <3>1. Bad \subseteq Nat
      OBVIOUS
    <3> HIDE DEF Bad
    <3>2. QED
      BY <3>1, SmallestNat
  <2>1. PICK i \in 1 .. n : i + d \in 1 .. n /\ r[s[i]] < r[s[i + d]]
    OBVIOUS
  <2>2. d \in Nat /\ d # 0
    BY <2>1
  <2>3. d - 1 \in Nat /\ i + (d - 1) \in 1 .. n - 1 /\ (i + (d - 1)) + 1 = i + d
    BY <2>1, <2>2
  <2>4. r[s[i + (d - 1)]] >= r[s[i + d]]
    BY <2>3
  <2>5. d - 1 \notin Bad
    <3> HIDE DEF Bad
    <3>1. ~(d <= d - 1)
      BY <2>2
    <3>2. QED
      BY <3>1
  <2>6. ~(r[s[i]] < r[s[i + (d - 1)]])
    BY <2>3, <2>5
  <2>7. i + (d - 1) \in 1 .. n
    BY <2>3
  <2>8. QED
    BY <2>1, <2>4, <2>6, <2>7
<1>2. ASSUME NEW i \in 1 .. n, NEW j \in 1 .. n, i <= j PROVE r[s[i]] >= r[s[j]]
  <2>1. j - i \in Nat /\ i + (j - i) = j
    BY <1>2
  <2>2. ~(r[s[i]] < r[s[j]])
    BY <1>1, <2>1
  <2>3. QED
    BY <2>2
<1>3. QED
  BY <1>2 DEF Sorted

\* How many are rated above the i-th.
RatedList(s, n, r) == \A i \in 1 .. n : r[s[i]] \in Nat
AboveIsCounted(s, n, r, i) ==
  /\ i > 1 /\ r[s[i]] = r[s[i - 1]]
       => Above(s, n, r, i) = Above(s, n, r, i - 1)
  /\ ~(i > 1 /\ r[s[i]] = r[s[i - 1]])
       => Cardinality(Above(s, n, r, i)) = i - 1

LEMMA AboveFacts ==
  ASSUME NEW n \in Nat, NEW s, NEW r, RatedList(s, n, r), Sorted(s, n, r), NEW i \in 1 .. n
  PROVE  /\ IsFiniteSet(Above(s, n, r, i)) /\ Cardinality(Above(s, n, r, i)) \in Nat
         /\ AboveIsCounted(s, n, r, i)
<1>0. \A k \in Nat : IsFiniteSet(1 .. k) /\ Cardinality(1 .. k) = k
  BY FS_Interval
<1>1. IsFiniteSet(Above(s, n, r, i)) /\ Cardinality(Above(s, n, r, i)) \in Nat
  <2>1. Above(s, n, r, i) \subseteq 1 .. n /\ IsFiniteSet(1 .. n)
    BY <1>0 DEF Above
  <2>2. QED
    BY <2>1, FS_Subset, FS_CardinalityType
<1>2. ASSUME i > 1, r[s[i]] = r[s[i - 1]]
      PROVE  Above(s, n, r, i) = Above(s, n, r, i - 1)
  BY <1>2 DEF Above
<1>3. ASSUME ~(i > 1 /\ r[s[i]] = r[s[i - 1]])
      PROVE  Cardinality(Above(s, n, r, i)) = i - 1
  <2>1. ASSUME NEW j \in 1 .. n, j < i PROVE r[s[j]] > r[s[i]]
    <3>1. i > 1 /\ i - 1 \in 1 .. n /\ j <= i - 1
      BY <2>1
    <3>2. r[s[j]] >= r[s[i - 1]] /\ r[s[i - 1]] >= r[s[i]]
      BY <3>1 DEF Sorted
    <3>3. r[s[j]] \in Nat /\ r[s[i - 1]] \in Nat /\ r[s[i]] \in Nat
      BY <3>1 DEF RatedList
    <3>4. QED
      BY <1>3, <3>1, <3>2, <3>3
  <2>2. ASSUME NEW j \in 1 .. n, ~(j < i) PROVE ~(r[s[j]] > r[s[i]])
    <3>1. r[s[i]] >= r[s[j]]
      BY <2>2 DEF Sorted
    <3>2. r[s[i]] \in Nat /\ r[s[j]] \in Nat
      BY DEF RatedList
    <3>3. QED
      BY <3>1, <3>2
  <2>3. Above(s, n, r, i) = 1 .. i - 1
    <3>1. \A j \in 1 .. n : j \in 1 .. i - 1 <=> j < i
      OBVIOUS
    <3>2. 1 .. i - 1 \subseteq 1 .. n
      OBVIOUS
    <3>3. QED
      BY <2>1, <2>2, <3>1, <3>2 DEF Above
  <2>4. i - 1 \in Nat
    OBVIOUS
  <2>5. QED
    BY <1>0, <2>3, <2>4
<1>4. QED
  BY <1>1, <1>2, <1>3 DEF AboveIsCounted

\* The rank that the list gives to the i-th is the number of those above, and one.
LEMMA RankCountsThoseAbove ==
  ASSUME NEW n \in Nat, NEW s, DOMAIN s = 1 .. n, NEW r,
         RatedList(s, n, r), Sorted(s, n, r), NEW i \in 1 .. n
  PROVE  RankIn(s, r)[i] = 1 + Cardinality(Above(s, n, r, i))
<1> DEFINE Ranks(f) == [k \in DOMAIN s |-> IF k > 1 /\ r[s[k]] = r[s[k - 1]]
                                           THEN f[k - 1] ELSE k]
           rank == CHOOSE f : f = Ranks(f)
           g == [k \in DOMAIN s |-> 1 + Cardinality(Above(s, n, r, k))]
<1>1. RankIn(s, r) = rank
  BY DEF RankIn
<1>2. ASSUME NEW k \in 1 .. n
      PROVE  g[k] = IF k > 1 /\ r[s[k]] = r[s[k - 1]] THEN g[k - 1] ELSE k
  <2>1. /\ k > 1 => k - 1 \in 1 .. n
        /\ g[k] = 1 + Cardinality(Above(s, n, r, k))
        /\ k > 1 => g[k - 1] = 1 + Cardinality(Above(s, n, r, k - 1))
    OBVIOUS
  <2> HIDE DEF g, rank, Ranks
  <2>2. /\ k > 1 /\ r[s[k]] = r[s[k - 1]] => Above(s, n, r, k) = Above(s, n, r, k - 1)
        /\ ~(k > 1 /\ r[s[k]] = r[s[k - 1]]) => Cardinality(Above(s, n, r, k)) = k - 1
    <3>1. AboveIsCounted(s, n, r, k)
      BY AboveFacts
    <3>2. QED
      BY <3>1 DEF AboveIsCounted
  <2>3. CASE k > 1 /\ r[s[k]] = r[s[k - 1]]
    BY <2>1, <2>2, <2>3
  <2>4. CASE ~(k > 1 /\ r[s[k]] = r[s[k - 1]])
    <3>1. g[k] = 1 + (k - 1)
      BY <2>1, <2>2, <2>4
    <3>2. QED
      BY <2>4, <3>1
  <2>5. QED
    BY <2>3, <2>4
<1>3. g = Ranks(g)
  <2> DEFINE rankOf(k) == IF k > 1 /\ r[s[k]] = r[s[k - 1]] THEN g[k - 1] ELSE k
  <2>1. g = [k \in DOMAIN s |-> g[k]]
    OBVIOUS
  <2>2. \A k \in DOMAIN s : g[k] = rankOf(k)
    BY <1>2
  <2>3. Ranks(g) = [k \in DOMAIN s |-> rankOf(k)]
    OBVIOUS
  <2> HIDE DEF g, rankOf, Ranks
  <2>4. QED
    BY <2>1, <2>2, <2>3
<1>4. rank = Ranks(rank)
  <2> HIDE DEF Ranks, g
  <2>1. QED
    BY <1>3
<1>5. \A k \in 1 .. n :
        rank[k] = IF k > 1 /\ r[s[k]] = r[s[k - 1]] THEN rank[k - 1] ELSE k
  <2> HIDE DEF rank
  <2>1. QED
    BY <1>4
<1>6. g[i] = 1 + Cardinality(Above(s, n, r, i))
  OBVIOUS
<1> HIDE DEF rank, g, Ranks
<1> DEFINE Bad == {k \in Nat : k \in 1 .. n /\ rank[k] # g[k]}
<1>7. Bad = {}
  <2> SUFFICES ASSUME NEW k \in Bad, \A m \in Bad : k <= m PROVE FALSE
    <3>1. Bad \subseteq Nat
      OBVIOUS
    <3> HIDE DEF Bad
    <3>2. QED
      BY <3>1, SmallestNat
  <2>1. k \in 1 .. n /\ k \in Nat /\ rank[k] # g[k]
    OBVIOUS
  <2>2. k - 1 \notin Bad
    <3> HIDE DEF Bad
    <3>1. ~(k <= k - 1)
      BY <2>1
    <3>2. QED
      BY <3>1
  <2>3. k > 1 => rank[k - 1] = g[k - 1]
    BY <2>1, <2>2
  <2>4. QED
    BY <1>2, <1>5, <2>1, <2>3
<1>8. QED
  BY <1>1, <1>6, <1>7

\* What the list says of the accounts db with ratings r.
TopRated(list, db, r) ==
  LET names == {p.name : p \in list}
  IN  /\ Cardinality(names) = Min({TopCount, Cardinality(db)})
      /\ \A a \in db \ names, p \in list : r[a] <= p.rating
      /\ \A p \in list :
           /\ p.name \in db
           /\ p.rating = r[p.name]
           /\ p.rank = 1 + Cardinality({a \in db : r[a] > r[p.name]})

LEMMA TopRatedPlayersFacts ==
  ASSUME NEW db \in SUBSET Account, IsFiniteSet(db), NEW r \in [Account -> Nat],
         NEW list \in TopRatedPlayers(db, r)
  PROVE  TopRated(list, db, r) /\ list \in SUBSET RatedPlayer
<1>1. PICK s \in TopRatedAccounts(db, r) :
        list = {[name |-> s[i], rating |-> r[s[i]], rank |-> RankIn(s, r)[i]]
                  : i \in DOMAIN s}
  BY DEF TopRatedPlayers
<1>2. PICK S \in kSubset(Min({TopCount, Cardinality(db)}), db) : s \in SetToSeqs(S)
  BY DEF TopRatedAccounts
<1> DEFINE n == Cardinality(S)
<1>3. S \subseteq db /\ n = Min({TopCount, Cardinality(db)})
  BY <1>2 DEF kSubset
<1>4. IsFiniteSet(S) /\ n \in Nat
  BY <1>3, FS_Subset, FS_CardinalityType
<1>5. Listing(s, S) /\ Len(s) = n /\ DOMAIN s = 1 .. n /\ ToSet(s) = S
  BY <1>2, <1>4, ListingFacts
<1>6. /\ \A i \in 1 .. n : s[i] \in S /\ r[s[i]] \in Nat
      /\ \A a \in S : \E i \in 1 .. n : a = s[i]
  <2>1. \A i \in 1 .. n : s[i] \in S
    BY <1>5 DEF Listing
  <2>2. \A a \in S : \E i \in 1 .. n : a = s[i]
    BY <1>5 DEF ToSet
  <2>3. \A a \in S : r[a] \in Nat
    BY <1>3
  <2>4. QED
    BY <2>1, <2>2, <2>3
<1>7. /\ \A i \in 1 .. n - 1 : r[s[i]] >= r[s[i + 1]]
      /\ \A a \in db \ S, b \in S : r[a] <= r[b]
  BY <1>5 DEF TopRatedAccounts, OrderedByRating
<1> HIDE DEF n
<1>8. Sorted(s, n, r) /\ RatedList(s, n, r)
  BY <1>4, <1>6, <1>7, OrderedIsSorted DEF RatedList
<1>9. ASSUME NEW i \in 1 .. n
      PROVE  /\ RankIn(s, r)[i] \in Nat \ {0}
             /\ RankIn(s, r)[i] = 1 + Cardinality({a \in db : r[a] > r[s[i]]})
  <2> DEFINE A == Above(s, n, r, i)
             H == {a \in db : r[a] > r[s[i]]}
             f == [j \in A |-> s[j]]
  <2>1. IsFiniteSet(A) /\ Cardinality(A) \in Nat
    BY <1>4, <1>6, <1>8, AboveFacts
  <2>2. RankIn(s, r)[i] = 1 + Cardinality(A)
    BY <1>4, <1>5, <1>6, <1>8, RankCountsThoseAbove
  <2>3. A \subseteq 1 .. n /\ \A j \in A : r[s[j]] > r[s[i]]
    BY DEF Above
  <2>4. \A j \in A : s[j] \in H
    BY <1>3, <1>6, <2>3
  <2>5. \A a \in H : \E j \in A : a = s[j]
    <3> SUFFICES ASSUME NEW a \in H PROVE \E j \in A : a = s[j]
      OBVIOUS
    <3>1. a \in db /\ r[a] > r[s[i]] /\ r[a] \in Nat
      OBVIOUS
    <3>2. s[i] \in S /\ r[s[i]] \in Nat
      BY <1>6
    <3>3. a \in S
      BY <1>7, <3>1, <3>2
    <3>4. QED
      BY <1>6, <3>1, <3>3 DEF Above
  <2>6. \A j, k \in A : s[j] = s[k] => j = k
    BY <1>5, <2>3 DEF Listing, n
  <2> HIDE DEF A, H
  <2>7. f \in Bijection(A, H)
    BY <2>4, <2>5, <2>6 DEF Bijection, Injection, Surjection, IsInjective
  <2>8. Cardinality(H) = Cardinality(A)
    BY <2>1, <2>7, FS_Bijection DEF ExistsBijection
  <2>9. QED
    BY <2>1, <2>2, <2>8 DEF H
<1>10. ASSUME NEW p \in list
       PROVE  /\ p \in RatedPlayer /\ p.name \in S /\ p.rating = r[p.name]
              /\ p.rank = 1 + Cardinality({a \in db : r[a] > r[p.name]})
  <2>1. PICK i \in 1 .. n :
          p = [name |-> s[i], rating |-> r[s[i]], rank |-> RankIn(s, r)[i]]
    BY <1>1, <1>5 DEF n
  <2>2. p.name = s[i] /\ p.rating = r[s[i]] /\ p.rank = RankIn(s, r)[i]
    BY <2>1
  <2>3. s[i] \in S /\ s[i] \in Account /\ r[s[i]] \in Nat
    BY <1>3, <1>6
  <2>4. RankIn(s, r)[i] \in Nat \ {0}
    BY <1>9
  <2>5. p \in RatedPlayer
    BY <2>1, <2>3, <2>4 DEF RatedPlayer
  <2>6. QED
    BY <1>9, <2>2, <2>3, <2>5
<1>11. {p.name : p \in list} = S
  <2>1. ASSUME NEW a \in S PROVE \E p \in list : a = p.name
    <3>1. PICK i \in 1 .. n : a = s[i]
      BY <1>6
    <3>2. [name |-> s[i], rating |-> r[s[i]], rank |-> RankIn(s, r)[i]] \in list
      BY <1>1, <1>5 DEF n
    <3>3. QED
      BY <3>1, <3>2
  <2>2. QED
    BY <1>10, <2>1
<1>12. TopRated(list, db, r)
  BY <1>3, <1>7, <1>10, <1>11 DEF TopRated, n
<1>13. QED
  BY <1>10, <1>12
----------------------------------------------------------------------------
(* Subscriptions *)

\* What is sent goes to subscribers.
ToSubscribers(subscriptions) ==
  \A c \in Conn : subscriptions[c].sent => subscriptions[c].subscribed

LEMMA SentFacts ==
  ASSUME NEW Item, NEW subscriptions, NEW list \in SUBSET Item,
         \A c \in Conn : subscriptions[c] \in Subscriptions(Item),
         ToSubscribers(subscriptions)
  PROVE  /\ Sent(subscriptions, list) \in [Conn -> Subscriptions(Item)]
         /\ ToSubscribers(Sent(subscriptions, list))
         /\ \A c \in Conn : Sent(subscriptions, list)[c].sent =>
              /\ Sent(subscriptions, list)[c].list = list
              /\ subscriptions[c].subscribed
<1> DEFINE new == Sent(subscriptions, list)
<1>1. NoSubscription \in Subscriptions(Item) /\ ~NoSubscription.sent
  BY DEF NoSubscription, Subscriptions
<1>2. [subscribed |-> TRUE, sent |-> TRUE, list |-> list] \in Subscriptions(Item)
  BY DEF Subscriptions
<1>3. ASSUME NEW c \in Conn
      PROVE  /\ new[c] \in Subscriptions(Item)
             /\ new[c].sent => /\ new[c].list = list /\ new[c].subscribed
                               /\ subscriptions[c].subscribed
  <2>1. new[c] = IF state'[c] = "Closed" THEN NoSubscription
                 ELSE IF subscriptions[c].subscribed
                 THEN [subscribed |-> TRUE, sent |-> TRUE, list |-> list]
                 ELSE subscriptions[c]
    BY DEF Sent
  <2>2. subscriptions[c].sent => subscriptions[c].subscribed
    BY DEF ToSubscribers
  <2> HIDE DEF new
  <2>3. QED
    BY <1>1, <1>2, <2>1, <2>2
<1>4. new \in [Conn -> Subscriptions(Item)]
  <2>1. new = [c \in Conn |-> new[c]]
    BY DEF Sent
  <2> HIDE DEF new
  <2>2. QED
    BY <1>3, <2>1
<1>5. QED
  BY <1>3, <1>4 DEF ToSubscribers

LEMMA NothingSentFacts ==
  ASSUME NEW Item, NEW subscriptions,
         \A c \in Conn : subscriptions[c] \in Subscriptions(Item),
         ToSubscribers(subscriptions)
  PROVE  /\ NothingSent(subscriptions) \in [Conn -> Subscriptions(Item)]
         /\ ToSubscribers(NothingSent(subscriptions))
         /\ \A c \in Conn : NothingSent(subscriptions)[c].sent =>
              /\ NothingSent(subscriptions)[c] = subscriptions[c]
              /\ state'[c] # "Closed"
<1>1. NoSubscription \in Subscriptions(Item) /\ ~NoSubscription.sent
  BY DEF NoSubscription, Subscriptions
<1>2. QED
  BY <1>1 DEF NothingSent, ToSubscribers

\* A client subscribes or unsubscribes: either begins without a list.
WithoutList == {NoSubscription, [NoSubscription EXCEPT !.subscribed = TRUE]}

LEMMA WithoutListType ==
  ASSUME NEW Item, NEW x \in WithoutList
  PROVE  x \in Subscriptions(Item) /\ ~x.sent
<1>1. NoSubscription \in Subscriptions(Item) /\ ~NoSubscription.sent
  BY DEF NoSubscription, Subscriptions
<1>2. x.sent = NoSubscription.sent /\ x \in Subscriptions(Item)
  BY <1>1 DEF WithoutList, Subscriptions
<1>3. QED
  BY <1>1, <1>2

LEMMA SubscriptionFacts ==
  ASSUME NEW Item, NEW subscriptions \in [Conn -> Subscriptions(Item)],
         ToSubscribers(subscriptions), NEW c \in Conn, NEW x \in WithoutList,
         NEW new, DOMAIN new = Conn, new = [d \in DOMAIN new |-> new[d]],
         new[c] = x, \A d \in Conn \ {c} : new[d] = subscriptions[d]
  PROVE  /\ new \in [Conn -> Subscriptions(Item)] /\ ToSubscribers(new)
         /\ \A d \in Conn : new[d].sent => new[d] = subscriptions[d]
<1>1. x \in Subscriptions(Item) /\ ~x.sent
  BY WithoutListType
<1>2. \A d \in Conn : new[d] \in Subscriptions(Item)
  BY <1>1
<1>3. QED
  BY <1>1, <1>2 DEF ToSubscribers
----------------------------------------------------------------------------
(* The players who are logged in *)

PlayersFit ==
  /\ players \in [Conn -> Subscriptions(Account)]
  /\ ToSubscribers(players)
  /\ NoLoggedInPlayerMissing

\* Every way for a name to come sends the list of the names there are then.
LEMMA SessionStepTellsPlayers ==
  ASSUME IInv, IInv', PlayersFit, NamesChange,
         \/ LoggedInPlayersSent
         \/ players' = NothingSent(players) /\ \A c \in Conn : state'[c] = "Closed"
  PROVE  PlayersFit'
<1>0. /\ \A c \in Conn : players[c] \in Subscriptions(Account)
      /\ ToSubscribers(players)
  BY DEF PlayersFit
<1>1. /\ NamesIn(accountName) \in SUBSET Account
      /\ NamesIn(accountName') \in SUBSET Account
  <2>1. \A c \in Conn : /\ accountName[c] \in Account \cup {NoAccount}
                        /\ accountName'[c] \in Account \cup {NoAccount}
    BY IInvParts, IInvPartsNext DEF SessionsTyped
  <2>2. QED
    BY <2>1 DEF NamesIn
<1>2. (\A c \in Conn : ~EntersLoggedIn(c))
        => NamesIn(accountName') \subseteq NamesIn(accountName)
  BY DEF NamesIn, NamesChange, NameChanges
<1>3. CASE players' = Sent(players, NamesIn(accountName'))
  <2>1. /\ players' \in [Conn -> Subscriptions(Account)] /\ ToSubscribers(players')
        /\ \A c \in Conn : players'[c].sent => players'[c].list = NamesIn(accountName')
    BY <1>0, <1>1, <1>3, SentFacts
  <2>2. QED
    BY <2>1 DEF PlayersFit, NoLoggedInPlayerMissing, ToSubscribers, NamesIn
<1>4. CASE /\ players' = Sent(players, NamesIn(accountName))
           /\ \A c \in Conn : ~EntersLoggedIn(c)
  <2>1. /\ players' \in [Conn -> Subscriptions(Account)] /\ ToSubscribers(players')
        /\ \A c \in Conn : players'[c].sent => players'[c].list = NamesIn(accountName)
    BY <1>0, <1>1, <1>4, SentFacts
  <2>2. \A c \in Conn : players'[c].sent => NamesIn(accountName') \subseteq players'[c].list
    BY <1>2, <1>4, <2>1
  <2>3. QED
    BY <2>1, <2>2 DEF PlayersFit, NoLoggedInPlayerMissing, ToSubscribers, NamesIn
<1>5. CASE /\ players' = NothingSent(players)
           /\ \/ \A c \in Conn : ~EntersLoggedIn(c)
              \/ \A c \in Conn : state'[c] = "Closed"
  <2>1. /\ players' \in [Conn -> Subscriptions(Account)] /\ ToSubscribers(players')
        /\ \A c \in Conn : players'[c].sent => /\ players'[c] = players[c]
                                               /\ state'[c] # "Closed"
    BY <1>0, <1>5, NothingSentFacts
  <2>2. \A c \in Conn : players[c].sent => NamesIn(accountName) \subseteq players[c].list
    BY DEF PlayersFit, NoLoggedInPlayerMissing
  <2>3. \A c \in Conn : players'[c].sent => NamesIn(accountName') \subseteq players'[c].list
    BY <1>2, <1>5, <2>1, <2>2
  <2>4. QED
    BY <2>1, <2>3 DEF PlayersFit, NoLoggedInPlayerMissing, ToSubscribers, NamesIn
<1>6. QED
  BY <1>3, <1>4, <1>5 DEF LoggedInPlayersSent

\* A subscription begins without a list.
LEMMA SubscribersKeepPlayers ==
  ASSUME PlayersFit, NEW c \in Conn, SubscribePlayers(c) \/ UnSubscribePlayers(c)
  PROVE  PlayersFit'
<1>1. PICK x \in WithoutList : players' = [players EXCEPT ![c] = x]
  BY DEF SubscribePlayers, UnSubscribePlayers, WithoutList
<1>2. players \in [Conn -> Subscriptions(Account)] /\ ToSubscribers(players)
  BY DEF PlayersFit
<1>3. /\ players' \in [Conn -> Subscriptions(Account)] /\ ToSubscribers(players')
      /\ \A d \in Conn : players'[d].sent => players'[d] = players[d]
  <2>1. /\ DOMAIN players' = Conn /\ players' = [d \in DOMAIN players' |-> players'[d]]
        /\ players'[c] = x /\ \A d \in Conn \ {c} : players'[d] = players[d]
    BY <1>1, <1>2
  <2>2. QED
    BY <1>2, <2>1, SubscriptionFacts
<1>4. UNCHANGED accountName
  BY DEF SubscribePlayers, UnSubscribePlayers, vars
<1>5. QED
  BY <1>3, <1>4 DEF PlayersFit, NoLoggedInPlayerMissing, ToSubscribers, NamesIn
----------------------------------------------------------------------------
(* Channels *)

\* A session that is connected is in channels its account joined, a session that is
\* destroyed in none.
ChannelsFit ==
  /\ channels \in [Conn -> SUBSET (Channel \X (Account \cup {NoAccount}))]
  /\ \A c \in Conn :
       /\ c \in online => \A p \in channels[c] : p[2] \in {accountName[c], NoAccount}
       /\ state[c] = "Closed" => channels[c] = {}

\* Whoever leaves an account leaves its channels, and a connection begins without.
LEMMA SessionStepKeepsChannels ==
  ASSUME ChannelsFit, NamesChange, ChannelsKept
  PROVE  ChannelsFit'
<1>1. channels' \in [Conn -> SUBSET (Channel \X (Account \cup {NoAccount}))]
  BY DEF ChannelsFit, ChannelsKept
<1>2. ASSUME NEW c \in Conn, c \in online', NEW p \in channels'[c]
      PROVE  p[2] \in {accountName'[c], NoAccount}
  <2>1. /\ channels'[c] = channels[c] /\ p \in channels[c]
        /\ state'[c] # "Closed" /\ ~UserReset(c)
    BY <1>2 DEF ChannelsKept
  <2>2. state[c] # "Closed"
    BY <2>1 DEF ChannelsFit
  <2>3. c \in online
    BY <1>2, <2>2 DEF NamesChange, Arrives
  <2>4. p[2] \in {accountName[c], NoAccount}
    BY <2>1, <2>3 DEF ChannelsFit
  <2>5. accountName'[c] = accountName[c] \/ accountName[c] = NoAccount
    BY <1>2, <2>1 DEF NamesChange, NameChanges, UserReset
  <2>6. QED
    BY <2>4, <2>5
<1>3. \A c \in Conn : state'[c] = "Closed" => channels'[c] = {}
  BY DEF ChannelsKept
<1>4. QED
  BY <1>1, <1>2, <1>3 DEF ChannelsFit

\* A channel is joined by the account of the session.
LEMMA ClientKeepsChannels ==
  ASSUME IInv, ChannelsFit, NEW c \in Conn, NEW ch \in Channel,
         JoinChannel(c, ch) \/ LeaveChannel(c, ch)
  PROVE  ChannelsFit'
<1>1. /\ UNCHANGED <<state, accountName, online>> /\ state[c] # "Closed"
      /\ accountName[c] \in Account \cup {NoAccount}
  BY Typed DEF JoinChannel, LeaveChannel, In, vars
<1>2. PICK new \in SUBSET (Channel \X (Account \cup {NoAccount})) :
        /\ channels' = [channels EXCEPT ![c] = new]
        /\ \A p \in new : p \in channels[c] \/ p[2] = accountName[c]
  <2> DEFINE joined == channels[c] \cup {<<ch, accountName[c]>>}
  <2>1. channels[c] \in SUBSET (Channel \X (Account \cup {NoAccount}))
    BY DEF ChannelsFit
  <2>2. CASE JoinChannel(c, ch)
    <3>1. /\ joined \in SUBSET (Channel \X (Account \cup {NoAccount}))
          /\ \A p \in joined : p \in channels[c] \/ p[2] = accountName[c]
      BY <1>1, <2>1
    <3>2. channels' = [channels EXCEPT ![c] = joined]
      BY <2>2 DEF JoinChannel
    <3> HIDE DEF joined
    <3>3. QED
      BY <3>1, <3>2
  <2>3. CASE LeaveChannel(c, ch)
    <3>1. {p \in channels[c] : p[1] # ch} \in SUBSET (Channel \X (Account \cup {NoAccount}))
      BY <2>1
    <3>2. QED
      BY <2>3, <3>1 DEF LeaveChannel
  <2>4. QED
    BY <2>2, <2>3
<1>3. /\ channels' \in [Conn -> SUBSET (Channel \X (Account \cup {NoAccount}))]
      /\ channels'[c] = new /\ \A d \in Conn \ {c} : channels'[d] = channels[d]
  BY <1>2 DEF ChannelsFit
<1>4. QED
  BY <1>1, <1>2, <1>3 DEF ChannelsFit
----------------------------------------------------------------------------
(* The top rated players *)

TopFit ==
  /\ top \in [Conn -> Subscriptions(RatedPlayer)]
  /\ ToSubscribers(top)
  /\ \A c \in Conn : top[c].sent => TopRated(top[c].list, database, rating)

RatingFit == RatingTypeOK /\ IsFiniteSet(database)

LEMMA RatedAccounts ==
  ASSUME IInv, RatingFit
  PROVE  /\ database \in SUBSET Account /\ IsFiniteSet(database)
         /\ rating \in [Account -> Nat]
<1>1. database \subseteq Account
  BY IInvParts DEF SessionsTyped, Registered
<1>2. rating \in [Account -> Nat]
  BY RatingBoundAssumption DEF RatingFit, RatingTypeOK
<1>3. QED
  BY <1>1, <1>2 DEF RatingFit

LEMMA RatedAccountsNext ==
  ASSUME IInv', RatingFit'
  PROVE  /\ database' \in SUBSET Account /\ IsFiniteSet(database')
         /\ rating' \in [Account -> Nat]
<1>1. database' \subseteq Account
  BY IInvPartsNext DEF SessionsTyped, Registered
<1>2. rating' \in [Account -> Nat]
  BY RatingBoundAssumption DEF RatingFit, RatingTypeOK
<1>3. QED
  BY <1>1, <1>2 DEF RatingFit

\* A new account or rating sends the new list to every subscriber.
LEMMA SendingKeepsTop ==
  ASSUME IInv', RatingFit', TopFit, TopRatedPlayersSent(database', rating')
  PROVE  TopFit'
<1>0. (\A c \in Conn : top[c] \in Subscriptions(RatedPlayer)) /\ ToSubscribers(top)
  BY DEF TopFit
<1>1. ASSUME NEW list \in TopRatedPlayers(database', rating'), top' = Sent(top, list)
      PROVE  TopFit'
  <2>1. TopRated(list, database', rating') /\ list \in SUBSET RatedPlayer
    BY RatedAccountsNext, TopRatedPlayersFacts
  <2>2. /\ top' \in [Conn -> Subscriptions(RatedPlayer)] /\ ToSubscribers(top')
        /\ \A c \in Conn : top'[c].sent => top'[c].list = list
    BY <1>0, <1>1, <2>1, SentFacts
  <2>3. \A c \in Conn : top'[c].sent => TopRated(top'[c].list, database', rating')
    BY <2>1, <2>2
  <2>4. QED
    BY <2>2, <2>3 DEF TopFit, ToSubscribers, TopRated
<1>2. CASE top' = NothingSent(top) /\ ~ \E c \in Conn : top[c].subscribed
  <2>1. /\ top' \in [Conn -> Subscriptions(RatedPlayer)] /\ ToSubscribers(top')
        /\ \A c \in Conn : top'[c].sent => top'[c] = top[c]
    BY <1>0, <1>2, NothingSentFacts
  <2>2. \A c \in Conn : ~top'[c].sent
    BY <1>2, <2>1 DEF TopFit, ToSubscribers
  <2>3. QED
    BY <2>1, <2>2 DEF TopFit, ToSubscribers
<1>3. QED
  BY <1>1, <1>2 DEF TopRatedPlayersSent

\* Where accounts and ratings stay, the lists do.
LEMMA NothingSentKeepsTop ==
  ASSUME TopFit, UNCHANGED <<database, rating>>,
         top' = NothingSent(top) \/ UNCHANGED top
  PROVE  TopFit'
<1>0. (\A c \in Conn : top[c] \in Subscriptions(RatedPlayer)) /\ ToSubscribers(top)
  BY DEF TopFit
<1>1. CASE UNCHANGED top
  BY <1>1 DEF TopFit, ToSubscribers, TopRated
<1>2. CASE top' = NothingSent(top)
  <2>1. /\ top' \in [Conn -> Subscriptions(RatedPlayer)] /\ ToSubscribers(top')
        /\ \A c \in Conn : top'[c].sent => top'[c] = top[c]
    BY <1>0, <1>2, NothingSentFacts
  <2>2. \A c \in Conn : top'[c].sent => TopRated(top'[c].list, database, rating)
    BY <2>1 DEF TopFit
  <2>3. QED
    BY <2>1, <2>2 DEF TopFit, ToSubscribers, TopRated
<1>3. QED
  BY <1>1, <1>2

LEMMA SubscribersKeepTop ==
  ASSUME TopFit, NEW c \in Conn, SubscribeTop(c) \/ UnSubscribeTop(c), UNCHANGED rating
  PROVE  TopFit'
<1>1. PICK x \in WithoutList : top' = [top EXCEPT ![c] = x]
  BY DEF SubscribeTop, UnSubscribeTop, WithoutList
<1>2. top \in [Conn -> Subscriptions(RatedPlayer)] /\ ToSubscribers(top)
  BY DEF TopFit
<1>3. /\ top' \in [Conn -> Subscriptions(RatedPlayer)] /\ ToSubscribers(top')
      /\ \A d \in Conn : top'[d].sent => top'[d] = top[d]
  <2>1. /\ DOMAIN top' = Conn /\ top' = [d \in DOMAIN top' |-> top'[d]]
        /\ top'[c] = x /\ \A d \in Conn \ {c} : top'[d] = top[d]
    BY <1>1, <1>2
  <2>2. QED
    BY <1>2, <2>1, SubscriptionFacts
<1>4. UNCHANGED database
  BY DEF SubscribeTop, UnSubscribeTop, vars
<1>5. \A d \in Conn : top'[d].sent => TopRated(top'[d].list, database, rating)
  BY <1>3 DEF TopFit
<1>6. QED
  BY <1>3, <1>4, <1>5 DEF TopFit, ToSubscribers, TopRated
----------------------------------------------------------------------------
(* Accounts and ratings *)

\* The handlers that create an account create one.
LEMMA DatabaseStaysFinite ==
  ASSUME IsFiniteSet(database),
         Next \/ UNCHANGED vars \/ \E why : ProcessStops(why)
  PROVE  IsFiniteSet(database')
<1>1. CASE UNCHANGED database
  BY <1>1
<1>2. ASSUME NEW a, database' = database \cup {a} PROVE IsFiniteSet(database')
  BY <1>2, FS_AddElement
<1>3. CASE \E why : ProcessStops(why)
  BY <1>1, <1>3 DEF ProcessStops
<1>4. CASE AccountLoginNext
  <2>1. ASSUME NEW c \in Conn,
               \/ Connect(c) \/ Disconnect(c)
               \/ CancelRequest(c) \/ RelogTo(c) \/ LogoutAccount(c)
               \/ \E g \in Guest : LoginAsGuest(c, g)
               \/ \E a \in Registered : CreateAccount(c, a) \/ LoginAccount(c, a)
               \/ \E a \in SteamAccount : LoginAccountSteam(c, a)
        PROVE  IsFiniteSet(database')
    BY <1>1, <2>1
       DEF Connect, Disconnect, CancelRequest, RelogTo, LogoutAccount, LoginAsGuest,
           CreateAccount, LoginAccount, LoginAccountSteam
  <2>2. ASSUME NEW j \in JobId,
               \/ \E ok \in BOOLEAN : PasswordJobDone(j, ok)
               \/ PasswordChecked(j) \/ StaleResult(j)
               \/ SteamLoginError(j) \/ SteamRequestFails(j)
        PROVE  IsFiniteSet(database')
    BY <1>1, <2>2
       DEF PasswordJobDone, PasswordChecked, StaleResult, SteamLoginError,
           SteamRequestFails
  <2>3. ASSUME NEW j \in JobId, PasswordHashed(j) \/ SteamLoginSuccess(j)
        PROVE  IsFiniteSet(database')
    BY <1>1, <1>2, <2>3 DEF PasswordHashed, SteamLoginSuccess
  <2>4. ASSUME NEW j \in JobId, ResumesAfterDisconnect(j)
        PROVE  IsFiniteSet(database')
    BY <1>3, <2>4 DEF ResumesAfterDisconnect, UsesDestroyedObject
  <2>5. QED
    BY <1>4, <2>1, <2>2, <2>3, <2>4 DEF AccountLoginNext
<1>5. CASE CustomLobbyNext
  BY <1>1, <1>5
     DEF CustomLobbyNext, CreateGameLobby, JoinGameLobby,
         SetMaxUserSizeInCreateGameLobby, LeaveGameLobby
<1>6. CASE MatchmakingQueueNext
  BY <1>1, <1>3, <1>6
     DEF MatchmakingQueueNext, JoinMatchMakingQueue, LeaveQuickGameQueue, Requeue
<1>7. CASE GameInvitationNext
  BY <1>1, <1>3, <1>7, Zenon
     DEF GameInvitationNext, CreateGame, AcceptGame, DeclineGame, TimerExpires,
         TimerFires, UsesDestroyedObject
<1>8. CASE GameStartNext
  BY <1>1, <1>3, <1>8
     DEF GameStartNext, StartGameSent, StartGameFails, StartGameAnswered,
         StartGameUnanswered, UsesDestroyedObject
<1>9. CASE GameProxyNext
  BY <1>1, <1>9
     DEF GameProxyNext, ConnectGameError, GameConnected, FirstMessageFromGame,
         LeaveGameSuccess, ConnectionToGameLost, LinkEnds
<1>10. CASE UNCHANGED vars \/ Crashed
  BY <1>1, <1>10 DEF Crashed, vars
<1>11. QED
  BY <1>3, <1>4, <1>5, <1>6, <1>7, <1>8, <1>9, <1>10 DEF Next

\* A game changes the ratings of accounts, in which none is 0.
LEMMA GameOverKeepsRatings ==
  ASSUME IInv, RatingFit, NEW losers, NEW winners, NEW draws, NEW ratedGame,
         GameOver(losers, winners, draws, ratedGame)
  PROVE  RatingFit'
<1>1. /\ database \in SUBSET Account /\ IsFiniteSet(database)
      /\ rating \in [Account -> 0 .. SizeModulus - 1]
  BY RatedAccounts DEF RatingFit, RatingTypeOK
<1>2. \A a \in database : rating[a] \in Nat \ {0}
  <2>1. \A a \in database : rating[a] \in RatingBound
    BY DEF GameOver
  <2>2. SizeModulus \in Nat /\ RatingBound \subseteq 1 .. SizeModulus - 1
    BY RatingBoundAssumption
  <2>3. \A x \in RatingBound : x \in Nat \ {0}
    BY <2>2
  <2>4. QED
    BY <2>1, <2>3
<1>3. \A s : s \cap database \subseteq database /\ IsFiniteSet(s \cap database)
  BY <1>1, FS_Intersection
<1>4. ASSUME NEW nan \in NaN,
             rating' = LoserAndWinner(rating, losers \cap database, winners \cap database, nan)
      PROVE  RatingTypeOK'
  <2>1. \A a \in (losers \cap database) \cup (winners \cap database) : rating[a] \in Nat \ {0}
    BY <1>2
  <2>2. QED
    BY <1>1, <1>3, <1>4, <2>1, ResultType DEF RatingTypeOK
<1>5. ASSUME NEW nan \in NaN, rating' = Draw(rating, draws \cap database, nan)
      PROVE  RatingTypeOK'
  <2>1. \A a \in draws \cap database : rating[a] \in Nat \ {0}
    BY <1>2
  <2>2. QED
    BY <1>1, <1>3, <1>5, <2>1, DrawType DEF RatingTypeOK
<1>6. RatingTypeOK'
  BY <1>4, <1>5 DEF GameOver, RatingFit, RatingTypeOK
<1>7. UNCHANGED database
  BY DEF GameOver, vars
<1>8. QED
  BY <1>1, <1>6, <1>7 DEF RatingFit
----------------------------------------------------------------------------
(* The invariant of the server and what it tells *)

PlayersInv ==
  IInv /\ LinkInv /\ RatingFit /\ PlayersFit /\ TopFit /\ ChannelsFit

LEMMA InitPlayersInv == PlayersInit => PlayersInv
<1> SUFFICES ASSUME PlayersInit PROVE PlayersInv
  OBVIOUS
<1>1. IInv /\ LinkInv
  BY InitIInv, InitLinkInv DEF PlayersInit
<1>2. NoSubscription \in Subscriptions(Account) /\ NoSubscription \in Subscriptions(RatedPlayer)
      /\ ~NoSubscription.sent
  BY DEF NoSubscription, Subscriptions
<1>3. PlayersFit
  BY <1>2 DEF PlayersInit, NotificationInit, PlayersFit, ToSubscribers, NoLoggedInPlayerMissing
<1>4. TopFit
  BY <1>2 DEF PlayersInit, NotificationInit, TopFit, ToSubscribers
<1>5. ChannelsFit
  BY DEF PlayersInit, NotificationInit, ChannelsFit
<1>6. RatingTypeOK
  <2>1. rating \in [Account -> Nat] /\ \A a \in Account : rating[a] < SizeModulus
    BY RatingAssumption, RatingBoundAssumption DEF PlayersInit, RatingInit
  <2>2. QED
    BY <2>1, RatingBoundAssumption DEF RatingTypeOK
<1>7. RatingFit
  BY <1>6, DatabaseAssumption DEF PlayersInit, Init, RatingFit
<1>8. QED
  BY <1>1, <1>3, <1>4, <1>5, <1>7 DEF PlayersInv

\* A step of a session, a coroutine or a timer, with what it tells.
LEMMA SessionStepKeepsPlayersInv ==
  ASSUME PlayersInv, Next /\ Notified
  PROVE  PlayersInv'
<1>1. IInv /\ LinkInv /\ RatingFit /\ PlayersFit /\ TopFit /\ ChannelsFit
  BY DEF PlayersInv
<1>2. IInv' /\ LinkInv'
  BY <1>1, NextKeepsIInv, NextKeepsLinkInv
<1>3. NamesChange
  BY <1>1, NextNames
<1>4. PlayersFit'
  BY <1>1, <1>2, <1>3, SessionStepTellsPlayers DEF Notified
<1>5. ChannelsFit'
  BY <1>1, <1>3, SessionStepKeepsChannels DEF Notified
<1>6. RatingFit'
  <2>1. IsFiniteSet(database')
    BY <1>1, DatabaseStaysFinite DEF RatingFit
  <2>2. QED
    BY <1>1, <2>1 DEF Notified, RatingFit, RatingTypeOK
<1>7. TopFit'
  <2>1. CASE database' = database
    BY <1>1, <2>1, NothingSentKeepsTop DEF Notified
  <2>2. CASE database' # database
    <3>1. TopRatedPlayersSent(database', rating')
      BY <2>2 DEF Notified
    <3>2. QED
      BY <1>1, <1>2, <1>6, <3>1, SendingKeepsTop
  <2>3. QED
    BY <2>1, <2>2
<1>8. QED
  BY <1>2, <1>4, <1>5, <1>6, <1>7 DEF PlayersInv

\* A client subscribes, or joins or leaves a channel.
LEMMA NotificationKeepsPlayersInv ==
  ASSUME PlayersInv, NotificationNext, UNCHANGED rating
  PROVE  PlayersInv'
<1>1. IInv /\ LinkInv /\ RatingFit /\ PlayersFit /\ TopFit /\ ChannelsFit
  BY DEF PlayersInv
<1>2. UNCHANGED vars
  BY DEF NotificationNext, SubscribePlayers, UnSubscribePlayers, SubscribeTop,
         UnSubscribeTop, JoinChannel, LeaveChannel
<1>3. IInv' /\ LinkInv'
  BY <1>1, <1>2, NextKeepsIInv, NextKeepsLinkInv
<1>4. UNCHANGED <<state, accountName, online, database>>
  BY <1>2 DEF vars
<1>5. RatingFit'
  BY <1>1, <1>4 DEF RatingFit, RatingTypeOK
<1>6. /\ UNCHANGED players => PlayersFit'
      /\ UNCHANGED top => TopFit'
      /\ UNCHANGED channels => ChannelsFit'
  <2>1. UNCHANGED players => PlayersFit'
    BY <1>1, <1>4 DEF PlayersFit, ToSubscribers, NoLoggedInPlayerMissing, NamesIn
  <2>2. UNCHANGED top => TopFit'
    BY <1>1, <1>4, NothingSentKeepsTop
  <2>3. UNCHANGED channels => ChannelsFit'
    BY <1>1, <1>4 DEF ChannelsFit
  <2>4. QED
    BY <2>1, <2>2, <2>3
<1>7. PICK c \in Conn :
        \/ SubscribePlayers(c) \/ UnSubscribePlayers(c)
        \/ SubscribeTop(c) \/ UnSubscribeTop(c)
        \/ \E ch \in Channel : JoinChannel(c, ch) \/ LeaveChannel(c, ch)
  BY DEF NotificationNext
<1>8. CASE SubscribePlayers(c) \/ UnSubscribePlayers(c)
  <2>1. PlayersFit'
    BY <1>1, <1>8, SubscribersKeepPlayers
  <2>2. UNCHANGED <<top, channels>>
    BY <1>8 DEF SubscribePlayers, UnSubscribePlayers
  <2>3. QED
    BY <1>3, <1>5, <1>6, <2>1, <2>2 DEF PlayersInv
<1>9. CASE SubscribeTop(c) \/ UnSubscribeTop(c)
  <2>1. TopFit'
    BY <1>1, <1>9, SubscribersKeepTop
  <2>2. UNCHANGED <<players, channels>>
    BY <1>9 DEF SubscribeTop, UnSubscribeTop
  <2>3. QED
    BY <1>3, <1>5, <1>6, <2>1, <2>2 DEF PlayersInv
<1>10. ASSUME NEW ch \in Channel, JoinChannel(c, ch) \/ LeaveChannel(c, ch)
       PROVE  PlayersInv'
  <2>1. ChannelsFit'
    BY <1>1, <1>10, ClientKeepsChannels
  <2>2. UNCHANGED <<players, top>>
    BY <1>10 DEF JoinChannel, LeaveChannel
  <2>3. QED
    BY <1>3, <1>5, <1>6, <2>1, <2>2 DEF PlayersInv
<1>11. QED
  BY <1>7, <1>8, <1>9, <1>10

\* A message of a game server: a game is over, or the process ends.
LEMMA GameServerKeepsPlayersInv ==
  ASSUME PlayersInv, MatchmakingGameNext
  PROVE  PlayersInv'
<1>1. IInv /\ LinkInv /\ RatingFit /\ PlayersFit /\ TopFit /\ ChannelsFit
  BY DEF PlayersInv
<1>2. ASSUME NEW losers, NEW winners, NEW draws, NEW ratedGame,
             GameOver(losers, winners, draws, ratedGame)
      PROVE  PlayersInv'
  <2>1. UNCHANGED vars /\ UNCHANGED <<players, channels>>
    BY <1>2 DEF GameOver
  <2>2. UNCHANGED <<state, accountName, online, database>>
    BY <2>1 DEF vars
  <2>3. IInv' /\ LinkInv'
    BY <1>1, <2>1, NextKeepsIInv, NextKeepsLinkInv
  <2>4. RatingFit'
    BY <1>1, <1>2, GameOverKeepsRatings
  <2>5. PlayersFit'
    BY <1>1, <2>1, <2>2 DEF PlayersFit, ToSubscribers, NoLoggedInPlayerMissing, NamesIn
  <2>6. ChannelsFit'
    BY <1>1, <2>1, <2>2 DEF ChannelsFit
  <2>7. TopRatedPlayersSent(database', rating')
    BY <1>2, <2>2 DEF GameOver, SentAfterStored
  <2>8. TopFit'
    BY <1>1, <2>3, <2>4, <2>7, SendingKeepsTop
  <2>9. QED
    BY <2>3, <2>4, <2>5, <2>6, <2>8 DEF PlayersInv
<1>3. ASSUME NEW a \in Account, UserLeftGame(a) PROVE PlayersInv'
  <2>1. /\ ProcessStops("dangling") /\ UNCHANGED rating
        /\ players' = NothingSent(players) /\ top' = NothingSent(top) /\ ChannelsKept
    BY <1>3 DEF UserLeftGame, UsesDestroyedObject
  <2>2. UNCHANGED database /\ \A c \in Conn : state'[c] = "Closed"
    BY <2>1 DEF ProcessStops
  <2>3. IInv' /\ LinkInv'
    BY <1>1, <2>1, StopKeepsIInv, StopKeepsLinkInv
  <2>4. NamesChange
    BY <2>1, StopNames
  <2>5. PlayersFit'
    BY <1>1, <2>1, <2>2, <2>3, <2>4, SessionStepTellsPlayers
  <2>6. ChannelsFit'
    BY <1>1, <2>1, <2>4, SessionStepKeepsChannels
  <2>7. TopFit'
    BY <1>1, <2>1, <2>2, NothingSentKeepsTop
  <2>8. RatingFit'
    BY <1>1, <2>1, <2>2 DEF RatingFit, RatingTypeOK
  <2>9. QED
    BY <2>3, <2>5, <2>6, <2>7, <2>8 DEF PlayersInv
<1>4. QED
  BY <1>2, <1>3 DEF MatchmakingGameNext

\* Every step keeps the invariant.
LEMMA NextKeepsPlayersInv == PlayersInv /\ [PlayersNext]_playersVars => PlayersInv'
<1> SUFFICES ASSUME PlayersInv, [PlayersNext]_playersVars PROVE PlayersInv'
  OBVIOUS
<1>1. CASE Next /\ Notified
  BY <1>1, SessionStepKeepsPlayersInv
<1>2. CASE NotificationNext /\ UNCHANGED rating
  BY <1>2, NotificationKeepsPlayersInv
<1>3. CASE MatchmakingGameNext
  BY <1>3, GameServerKeepsPlayersInv
<1>4. CASE UNCHANGED playersVars
  <2>1. IInv /\ LinkInv /\ RatingFit /\ PlayersFit /\ TopFit /\ ChannelsFit
    BY DEF PlayersInv
  <2>2. UNCHANGED vars /\ UNCHANGED <<players, top, channels, rating>>
    BY <1>4 DEF playersVars, notifyVars
  <2>3. IInv' /\ LinkInv'
    BY <2>1, <2>2, NextKeepsIInv, NextKeepsLinkInv
  <2>4. UNCHANGED <<state, accountName, online, database>>
    BY <2>2 DEF vars
  <2>5. RatingFit' /\ ChannelsFit'
    BY <2>1, <2>2, <2>4 DEF RatingFit, RatingTypeOK, ChannelsFit
  <2>6. PlayersFit'
    BY <2>1, <2>2, <2>4 DEF PlayersFit, ToSubscribers, NoLoggedInPlayerMissing, NamesIn
  <2>7. TopFit'
    BY <2>1, <2>2, <2>4, NothingSentKeepsTop
  <2>8. QED
    BY <2>3, <2>5, <2>6, <2>7 DEF PlayersInv
<1>5. QED
  BY <1>1, <1>2, <1>3, <1>4 DEF PlayersNext

\* Every step, also one that ends the process, and every message of a game server
\* keeps the invariant.
LEMMA PlayersInvariant == PlayersSpec => []PlayersInv
BY InitPlayersInv, NextKeepsPlayersInv, PTL DEF PlayersSpec

\* The types of what is sent to the users and of the ratings: every rating that any
\* series of games yields is a size_t, and every rank is positive.
THEOREM PlayersTyped == PlayersSpec => []PlayersTypeOK
<1>1. PlayersInv => PlayersTypeOK
  <2> SUFFICES ASSUME PlayersInv PROVE PlayersTypeOK
    OBVIOUS
  <2>1. TypeOK /\ RatingTypeOK
    BY DEF PlayersInv, IInv, RatingFit
  <2>2. NotificationTypeOK
    BY DEF PlayersInv, PlayersFit, TopFit, ChannelsFit, NotificationTypeOK
  <2>3. QED
    BY <2>1, <2>2 DEF PlayersTypeOK
<1>2. QED
  BY <1>1, PlayersInvariant, PTL

\* Nobody who is logged in is missing from the last list of players a subscriber
\* got, in every order of logins, games, logouts, disconnects and subscriptions.
THEOREM PlayersAreListed == PlayersSpec => []NoLoggedInPlayerMissing
<1>1. PlayersInv => NoLoggedInPlayerMissing
  BY DEF PlayersInv, PlayersFit
<1>2. QED
  BY <1>1, PlayersInvariant, PTL

\* The last list of top rated players a subscriber got is that of the database, with
\* the ranks GetRatedPlayer answers, whatever accounts are created and games end.
THEOREM TopRatedStaysCurrent == PlayersSpec => []TopRatedIsCurrent
<1>1. PlayersInv => TopRatedIsCurrent
  BY DEF PlayersInv, TopFit, TopRated, TopRatedIsCurrent
<1>2. QED
  BY <1>1, PlayersInvariant, PTL

\* No login inherits the channels of the account that used the connection before.
THEOREM ChannelsAreOwn == PlayersSpec => []ChannelsOfTheAccount
<1>1. PlayersInv => ChannelsOfTheAccount
  <2> SUFFICES ASSUME PlayersInv, NEW c \in Conn, state[c] = "LoggedIn"
               PROVE  \A p \in channels[c] : p[2] \in {accountName[c], NoAccount}
    BY DEF ChannelsOfTheAccount
  <2>1. SessionFits(c)
    BY DEF PlayersInv, LinkInv, SessionsFit
  <2>2. c \in online
    BY <2>1, Typed DEF PlayersInv, SessionFits, Fits, Link
  <2>3. QED
    BY <2>2 DEF PlayersInv, ChannelsFit
<1>2. QED
  BY <1>1, PlayersInvariant, PTL

----------------------------------------------------------------------------
(* Points are conserved *)

\* Nobody is rated less than twice the points of a victory or so close to the modulus
\* that a game may reach it, and games take place among those who stay so.
MostWon == 20 * Cardinality(Account)
FarRatings(r) == \A a \in Account : r[a] \in 40 .. SizeModulus - 1 - MostWon
FarBound ==
  /\ IsFiniteSet(Account)
  /\ FarRatings(Rating)
  /\ RatingBound \subseteq 81 .. SizeModulus - 1 - 2 * MostWon

LEMMA FarTeams ==
  ASSUME FarBound, RatingTypeOK, FarRatings(rating), NEW team \in SUBSET Account
  PROVE  /\ FarFromTheEnds(rating, team)
         /\ Cardinality(team) \in Nat /\ 20 * Cardinality(team) <= MostWon /\ MostWon \in Nat
<1>1. /\ IsFiniteSet(team) /\ Cardinality(team) \in Nat /\ Cardinality(Account) \in Nat
      /\ Cardinality(team) <= Cardinality(Account)
  BY FS_Subset, FS_CardinalityType DEF FarBound
<1>2. 20 * Cardinality(team) <= MostWon /\ MostWon \in Nat
  BY <1>1 DEF MostWon
<1>3. team \subseteq DOMAIN rating
  BY DEF RatingTypeOK
<1>4. ASSUME NEW a \in team
      PROVE  /\ rating[a] \in Nat /\ rating[a] >= 40
             /\ rating[a] + 20 * Cardinality(team) < SizeModulus
  <2>1. rating[a] \in 40 .. SizeModulus - 1 - MostWon
    BY DEF FarRatings
  <2>2. QED
    BY <1>1, <1>2, <2>1, RatingBoundAssumption
<1>5. QED
  BY <1>1, <1>2, <1>3, <1>4 DEF FarFromTheEnds

\* A game among accounts within RatingBound leaves everybody far from the ends.
LEMMA GameStaysFar ==
  ASSUME FarBound, RatingTypeOK, FarRatings(rating), NEW losers, NEW winners, NEW points,
         losers \cup winners \subseteq Account,
         Payable(rating, losers, winners, points), points <= MostWon,
         \A a \in losers \cup winners : rating[a] \in RatingBound,
         NEW new, new = NewRatings(rating, losers, winners, points)
  PROVE  FarRatings(new)
<1>1. DOMAIN rating = Account /\ MostWon \in Nat /\ points \in Nat /\ SizeModulus \in Nat
  <2>1. MostWon \in Nat
    BY FarTeams
  <2>2. QED
    BY <2>1, RatingBoundAssumption DEF RatingTypeOK, Payable
<1>2. ASSUME NEW a \in Account PROVE new[a] \in 40 .. SizeModulus - 1 - MostWon
  <2>1. rating[a] \in 40 .. SizeModulus - 1 - MostWon
    BY DEF FarRatings
  <2>2. a \in losers \cup winners => rating[a] \in 81 .. SizeModulus - 1 - 2 * MostWon
    BY DEF FarBound
  <2>3. CASE a \in losers
    <3>1. PICK s \in 0 .. points : new[a] = rating[a] - s /\ 2 * s <= rating[a] + 1
      BY <2>3, ResultOfGame
    <3>2. QED
      BY <1>1, <2>1, <2>2, <2>3, <3>1
  <2>4. CASE a \in winners
    <3>1. PICK s \in 0 .. points : new[a] = rating[a] + s
      BY <2>4, ResultOfGame
    <3>2. QED
      BY <1>1, <2>1, <2>2, <2>4, <3>1
  <2>5. CASE a \notin losers \cup winners
    <3>1. new[a] = rating[a]
      BY <1>1, <2>5, ResultOfGame
    <3>2. QED
      BY <2>1, <3>1
  <2>6. QED
    BY <2>3, <2>4, <2>5
<1>3. QED
  BY <1>2 DEF FarRatings

LEMMA GameOverStaysFar ==
  ASSUME FarBound, PlayersInv, FarRatings(rating), MatchmakingGameNext
  PROVE  FarRatings(rating')
<1>1. RatingTypeOK /\ database \subseteq Account
  BY RatedAccounts DEF PlayersInv, RatingFit
<1>2. ASSUME NEW losers \in SUBSET Account, NEW winners \in SUBSET (Account \ losers),
             GameOver(losers, winners, {}, TRUE)
      PROVE  FarRatings(rating')
  <2> DEFINE L == losers \cap database
             W == winners \cap database
  <2>1. PICK nan \in NaN : rating' = LoserAndWinner(rating, L, W, nan)
    BY <1>2 DEF GameOver
  <2>2. \A a \in L \cup W : rating[a] \in RatingBound
    BY <1>2 DEF GameOver
  <2>3. L \cap W = {} /\ L \cup W \in SUBSET Account
    BY <1>1
  <2> HIDE DEF L, W
  <2>4. FarFromTheEnds(rating, L \cup W)
    BY <1>1, <2>3, FarTeams
  <2>5. CASE L \cup W = {}
    <3>1. rating' = NewRatings(rating, L, W,
              PointsForVictory(AverageOf(rating, W, nan), AverageOf(rating, L, nan)))
      BY <2>1 DEF LoserAndWinner
    <3>2. \A a \in Account : rating'[a] = rating[a]
      BY <1>1, <2>5, <3>1 DEF NewRatings, RatingTypeOK
    <3>3. QED
      BY <3>2 DEF FarRatings
  <2>6. CASE L \cup W # {}
    <3>1. PICK p : p = PointsForVictory(AverageOf(rating, W, nan), AverageOf(rating, L, nan))
      OBVIOUS
    <3>2. Payable(rating, L, W, p) /\ p \in 0 .. 20
      BY <2>3, <2>4, <3>1, VictoryIsPayable
    <3>3. p <= MostWon
      <4>1. /\ Cardinality(L \cup W) \in Nat /\ 20 * Cardinality(L \cup W) <= MostWon
            /\ MostWon \in Nat
        BY <1>1, <2>3, FarTeams
      <4>2. Cardinality(L \cup W) # 0
        BY <2>4, <2>6, FS_EmptySet DEF FarFromTheEnds
      <4>3. QED
        BY <3>2, <4>1, <4>2
    <3>4. rating' = NewRatings(rating, L, W, p)
      BY <2>1, <3>1 DEF LoserAndWinner
    <3>5. QED
      BY <1>1, <2>2, <2>3, <3>2, <3>3, <3>4, GameStaysFar
  <2>7. QED
    BY <2>5, <2>6
<1>3. ASSUME NEW draws \in (SUBSET Account) \ {{}}, GameOver({}, {}, draws, TRUE)
      PROVE  FarRatings(rating')
  <2> DEFINE T == draws \cap database
  <2>1. PICK nan \in NaN : rating' = Draw(rating, T, nan)
    <3>1. draws # {}
      OBVIOUS
    <3>2. QED
      BY <1>3, <3>1 DEF GameOver
  <2>2. T \in SUBSET Account /\ \A a \in T : rating[a] \in RatingBound
    BY <1>1, <1>3 DEF GameOver
  <2> HIDE DEF T
  <2>3. /\ FarFromTheEnds(rating, T)
        /\ 20 * Cardinality(T) <= MostWon /\ MostWon \in Nat /\ Cardinality(T) \in Nat
    BY <1>1, <2>2, FarTeams
  <2>4. PICK L, p : L = Payers(rating, T, nan) /\ p = Price(rating, T, nan)
    OBVIOUS
  <2>5. /\ Payable(rating, L, T \ L, p) /\ p <= 20 * Cardinality(T)
        /\ rating' = NewRatings(rating, L, T \ L, p)
    BY <2>1, <2>3, <2>4, DrawIsPayable
  <2>6. L \subseteq T
    BY <2>4 DEF Payers
  <2>7. p <= MostWon
    BY <2>3, <2>5 DEF Payable
  <2>8. L \cup (T \ L) \subseteq Account /\ \A a \in L \cup (T \ L) : rating[a] \in RatingBound
    BY <2>2, <2>6
  <2>9. QED
    BY <1>1, <2>5, <2>7, <2>8, GameStaysFar
<1>4. CASE UNCHANGED rating
  BY <1>4 DEF FarRatings
<1>5. GameOver({}, {}, {}, FALSE) => UNCHANGED rating
  BY DEF GameOver
<1>6. \A a \in Account : UserLeftGame(a) => UNCHANGED rating
  BY DEF UserLeftGame
<1>7. QED
  BY <1>2, <1>3, <1>4, <1>5, <1>6 DEF MatchmakingGameNext

RatingsAreFar == FarRatings(rating)

LEMMA RatingsStayFar ==
  ASSUME FarBound
  PROVE  PlayersSpec => []RatingsAreFar
<1>1. PlayersInit => RatingsAreFar
  BY DEF PlayersInit, RatingInit, FarBound, RatingsAreFar
<1>2. PlayersInv /\ RatingsAreFar /\ [PlayersNext]_playersVars => RatingsAreFar'
  <2> SUFFICES ASSUME PlayersInv, RatingsAreFar, [PlayersNext]_playersVars
               PROVE  RatingsAreFar'
    OBVIOUS
  <2>1. CASE MatchmakingGameNext
    BY <2>1, GameOverStaysFar DEF RatingsAreFar, FarRatings
  <2>2. CASE UNCHANGED rating
    BY <2>2 DEF RatingsAreFar, FarRatings
  <2>3. QED
    BY <2>1, <2>2 DEF PlayersNext, Notified, playersVars
<1>3. QED
  BY <1>1, <1>2, PlayersInvariant, PTL DEF PlayersSpec

\* What the losers of a game lose is what its winners win, but for half a point for each
\* player, in every game and draw of any number of players and after any series of games
\* among accounts rated far from 0 and the modulus. Nearer to them it is not so:
\* a share above the rating wraps, and a rating of 0 becomes 1.
THEOREM PointsAreConserved ==
  ASSUME FarBound
  PROVE  PlayersSpec => []PointsConserved
<1>1. PlayersInv /\ RatingsAreFar => PointsConserved
  <2> SUFFICES ASSUME PlayersInv, RatingsAreFar,
                      NEW losers \in SUBSET database, NEW winners \in SUBSET database
      PROVE  LET team == losers \cup winners
                 Conserved(new) ==
                   2 * SumFunctionOnSet([a \in team |-> Change(new, a)], team)
                     \in -Cardinality(team) .. Cardinality(team)
             IN  /\ losers # {} /\ winners # {} /\ losers \cap winners = {}
                      => Conserved(LoserAndWinner(rating, losers, winners, 0))
                 /\ Cardinality(losers) > 1 /\ winners = {}
                      => Conserved(Draw(rating, losers, 0))
    BY DEF PointsConserved
  <2> DEFINE team == losers \cup winners
             change(new) == [a \in team |-> Change(new, a)]
             Conserved(new) == 2 * SumFunctionOnSet(change(new), team)
                                 \in -Cardinality(team) .. Cardinality(team)
  <2>0. FarRatings(rating)
    BY DEF RatingsAreFar
  <2>1. RatingTypeOK /\ database \subseteq Account /\ 0 \in NaN
    BY RatedAccounts DEF PlayersInv, RatingFit, NaN
  <2>2. team \in SUBSET Account
    BY <2>1
  <2>3. FarFromTheEnds(rating, team)
    <3> HIDE DEF team
    <3>1. QED
      BY <2>0, <2>1, <2>2, FarTeams
  <2>4. ASSUME NEW L, NEW W, NEW p, L \cup W = team, W # {}, L # {} \/ p = 0,
               Payable(rating, L, W, p), NEW new, new = NewRatings(rating, L, W, p)
        PROVE  Conserved(new)
    <3>1. \A a \in L \cup W : change(new)[a] = new[a] - rating[a]
      BY <2>4 DEF Change
    <3> HIDE DEF team, change
    <3>2. QED
      BY <2>4, <3>1, GameConserves
  <2>5. ASSUME losers # {}, winners # {}, losers \cap winners = {}
        PROVE  Conserved(LoserAndWinner(rating, losers, winners, 0))
    <3>1. PICK p : p = PointsForVictory(AverageOf(rating, winners, 0), AverageOf(rating, losers, 0))
      OBVIOUS
    <3>2. Payable(rating, losers, winners, p)
      BY <2>1, <2>3, <2>5, <3>1, VictoryIsPayable
    <3>3. LoserAndWinner(rating, losers, winners, 0) = NewRatings(rating, losers, winners, p)
      BY <3>1 DEF LoserAndWinner
    <3> HIDE DEF Conserved
    <3>4. QED
      BY <2>4, <2>5, <3>2, <3>3
  <2>6. ASSUME Cardinality(losers) > 1, winners = {}
        PROVE  Conserved(Draw(rating, losers, 0))
    <3>1. PICK L, p : L = Payers(rating, losers, 0) /\ p = Price(rating, losers, 0)
      OBVIOUS
    <3>2. FarFromTheEnds(rating, losers)
      <4>1. team = losers
        BY <2>6
      <4> HIDE DEF team
      <4>2. QED
        BY <2>3, <4>1
    <3>3. /\ Payable(rating, L, losers \ L, p) /\ (L = {} => p = 0) /\ losers \ L # {}
          /\ Draw(rating, losers, 0) = NewRatings(rating, L, losers \ L, p)
      BY <2>1, <2>6, <3>1, <3>2, DrawIsPayable
    <3>4. L \cup (losers \ L) = team
      BY <2>6, <3>1 DEF Payers
    <3> HIDE DEF Conserved, team
    <3>5. QED
      BY <2>4, <3>3, <3>4
  <2>7. QED
    BY <2>5, <2>6
<1>2. QED
  BY <1>1, PlayersInvariant, RatingsStayFar, PTL

\* In every such game the losers rated highest lose most and the winners rated highest
\* win least.
THEOREM SharesAreByRating ==
  ASSUME FarBound
  PROVE  PlayersSpec => []SharesFollowRating
<1>1. PlayersInv /\ RatingsAreFar => SharesFollowRating
  <2> SUFFICES ASSUME PlayersInv, RatingsAreFar, NEW losers \in SUBSET database,
                      NEW winners \in SUBSET (database \ losers), NEW nan \in NaN,
                      NEW new, new = LoserAndWinner(rating, losers, winners, nan),
                      NEW side \in {losers, winners}, NEW a \in side, NEW b \in side,
                      rating[a] > rating[b]
               PROVE  Change(new, a) <= Change(new, b)
    BY DEF SharesFollowRating
  <2>0. FarRatings(rating)
    BY DEF RatingsAreFar
  <2>1. RatingTypeOK /\ database \subseteq Account
    BY RatedAccounts DEF PlayersInv, RatingFit
  <2>2. losers \cup winners \in SUBSET Account /\ losers \cap winners = {}
    BY <2>1
  <2>3. FarFromTheEnds(rating, losers \cup winners)
    BY <2>0, <2>1, <2>2, FarTeams
  <2>4. PICK p : p = PointsForVictory(AverageOf(rating, winners, nan),
                                      AverageOf(rating, losers, nan))
    OBVIOUS
  <2>5. Payable(rating, losers, winners, p) /\ new = NewRatings(rating, losers, winners, p)
    BY <2>2, <2>3, <2>4, VictoryIsPayable DEF LoserAndWinner
  <2>6. new[a] - rating[a] <= new[b] - rating[b]
    BY <2>5, GameSharesByRating
  <2>7. QED
    BY <2>6 DEF Change
<1>2. QED
  BY <1>1, PlayersInvariant, RatingsStayFar, PTL
=============================================================================
