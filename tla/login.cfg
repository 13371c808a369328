\* Two clients, an account with a password and one of Steam; no lobbies.  One client
\* subscribes to the players who are logged in.
CONSTANTS
  c1 = c1  c2 = c2  c3 = c3
  g1 = g1  g2 = g2  g3 = g3
  a1 = a1  a2 = a2  a3 = a3
  Gone = Gone  NoAccount = NoAccount
  Conn <- TwoConns
  Account <- TwoAccounts
  Guest = {}
  SteamAccount = {a2}
  InitialDatabase = {}
  LobbyName = {}
  Offered = {}
  UsersNeeded <- NeedsTwo
  MaxUserSize = {}
  GameAnswers = {}
  MaxLobbies = 0
  MaxTimers = 0
  MaxExpired = 1
  MaxReady = 3
  MaxStarts = 0
  MaxJobs = 2
  AllowedRatingDifference = 100
  Rating <- NewAccounts
  PlayersSubscriber = {c1}
  TopSubscriber = {}
  Channel = {}
  TopCount = 2
  SizeModulus = 65536
  RatingBound = {}
SPECIFICATION FairPlayersSpec
INVARIANTS
  OneSessionPerAccount
  NoLoggedInPlayerMissing
PROPERTIES
  PasswordRequestEnds
