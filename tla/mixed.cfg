\* A guest and an account who may be in a lobby of users and in the unranked queue, and
\* log in while the name is in a lobby.
CONSTANTS
  c1 = c1  c2 = c2  c3 = c3
  g1 = g1  g2 = g2  g3 = g3
  a1 = a1  a2 = a2  a3 = a3
  Gone = Gone  NoAccount = NoAccount
  Conn <- TwoConns
  Account <- GuestAndAccount
  Guest = {g1}
  SteamAccount = {}
  InitialDatabase = {a1}
  LobbyName <- OneName
  Offered <- OnlyUnranked
  UsersNeeded <- NeedsTwo
  MaxUserSize = {}
  GameAnswers = {}
  MaxLobbies = 3
  MaxTimers = 1
  MaxExpired = 1
  MaxReady = 2
  MaxStarts = 0
  MaxJobs = 1
  AllowedRatingDifference = 100
  Rating <- Ratings
SPECIFICATION Spec
SYMMETRY Symmetry
INVARIANTS
  TypeOK
  WaitingHasTimer
  OneQueueLobbyPerAccount
  AccountOnlyWhenLoggedIn
