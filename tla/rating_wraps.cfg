\* Two accounts whose ratings are near zero.
CONSTANTS
  c1 = c1  c2 = c2  c3 = c3
  g1 = g1  g2 = g2  g3 = g3
  a1 = a1  a2 = a2  a3 = a3
  Gone = Gone  NoAccount = NoAccount
  Conn <- OneConn
  Account <- TwoAccounts
  Guest = {}
  SteamAccount = {}
  InitialDatabase <- TwoAccounts
  LobbyName = {}
  Offered = {}
  UsersNeeded <- NeedsTwo
  MaxUserSize = {}
  GameAnswers = {}
  MaxLobbies = 0
  MaxTimers = 0
  MaxExpired = 1
  MaxReady = 3
  MaxStarts = 0
  MaxJobs = 0
  AllowedRatingDifference = 100
  Rating <- LowRatings
  PlayersSubscriber = {}
  TopSubscriber = {}
  Channel = {}
  TopCount = 2
  SizeModulus = 65536
  RatingBound <- UpToStart
SPECIFICATION PlayersSpec
PROPERTIES
  LosersNeverGain
