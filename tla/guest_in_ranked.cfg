\* A guest and an account in the ranked queue.
CONSTANTS
  c1 = c1  c2 = c2  c3 = c3
  g1 = g1  g2 = g2  g3 = g3
  a1 = a1  a2 = a2  a3 = a3
  Gone = Gone  NoAccount = NoAccount
  Conn <- TwoConns
  Account <- GuestAndAccount
  Guest = {g1}
  SteamAccount = {}
  InitialDatabase = {a1}
  LobbyName = {}
  Offered <- OnlyRanked
  UsersNeeded <- NeedsTwo
  MaxUserSize = {}
  GameAnswers = {}
  MaxLobbies = 2
  MaxTimers = 1
  MaxExpired = 1
  MaxReady = 3
  MaxStarts = 0
  MaxJobs = 1
  AllowedRatingDifference = 100
  Rating <- Ratings
SPECIFICATION Spec
INVARIANTS
  NoAbort
