\* Two accounts and two lobbies of users.
CONSTANTS
  c1 = c1  c2 = c2  c3 = c3
  g1 = g1  g2 = g2  g3 = g3
  a1 = a1  a2 = a2  a3 = a3
  Gone = Gone  NoAccount = NoAccount
  Conn <- TwoConns
  Account <- TwoAccounts
  Guest = {}
  SteamAccount = {}
  InitialDatabase <- TwoAccounts
  LobbyName <- TwoNames
  Offered = {}
  UsersNeeded <- NeedsTwo
  MaxUserSize = {}
  GameAnswers = {}
  MaxLobbies = 2
  MaxTimers = 0
  MaxExpired = 1
  MaxReady = 3
  MaxStarts = 0
  MaxJobs = 1
  AllowedRatingDifference = 100
  Rating <- Ratings
SPECIFICATION Spec
INVARIANTS
  LoggedInHasAccount
