\* Three accounts, one of them created while games end; the client subscribes to the
\* top two and may join a channel.
CONSTANTS
  c1 = c1  c2 = c2  c3 = c3
  g1 = g1  g2 = g2  g3 = g3
  a1 = a1  a2 = a2  a3 = a3
  Gone = Gone  NoAccount = NoAccount
  Conn <- OneConn
  Account <- ThreeAccounts
  Guest = {}
  SteamAccount = {}
  InitialDatabase = {a1, a2}
  LobbyName = {}
  Offered = {}
  UsersNeeded <- NeedsTwo
  MaxUserSize = {}
  GameAnswers = {}
  MaxLobbies = 0
  MaxTimers = 0
  MaxExpired = 1
  MaxReady = 3
  MaxStarts = 0
  MaxJobs = 1
  AllowedRatingDifference = 100
  Rating <- CloseRatings
  PlayersSubscriber = {}
  TopSubscriber = {c1}
  Channel <- OneChannel
  TopCount = 2
  SizeModulus = 65536
  RatingBound <- NearStart
SPECIFICATION PlayersSpec
INVARIANTS
  PlayersTypeOK
  TopRatedIsCurrent
  ChannelsOfTheAccount
  PointsConserved
  SharesFollowRating
