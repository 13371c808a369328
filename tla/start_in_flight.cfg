\* Two guests whose lobby goes away while the game is started.
CONSTANTS
  c1 = c1  c2 = c2  c3 = c3
  g1 = g1  g2 = g2  g3 = g3
  a1 = a1  a2 = a2  a3 = a3
  Gone = Gone  NoAccount = NoAccount
  Conn <- TwoConns
  Account <- TwoGuests
  Guest <- TwoGuests
  SteamAccount = {}
  InitialDatabase = {}
  LobbyName = {}
  Offered <- OnlyUnranked
  UsersNeeded <- NeedsTwo
  MaxUserSize = {}
  GameAnswers = {FALSE}
  MaxLobbies = 3
  MaxTimers = 2
  MaxExpired = 1
  MaxReady = 3
  MaxStarts = 1
  MaxJobs = 0
  AllowedRatingDifference = 100
  Rating <- Ratings
SPECIFICATION Spec
PROPERTIES
  FailedStartIsCleanedUp
