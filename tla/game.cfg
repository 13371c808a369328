\* Two guests, their lobby, up to two starts of its game, the game and the way back.
CONSTANTS
  c1 = c1  c2 = c2  c3 = c3
  g1 = g1  g2 = g2  g3 = g3
  a1 = a1  a2 = a2  a3 = a3
  Gone = Gone  NoAccount = NoAccount
  Conn <- TwoConns
  Account <- TwoGuests
  Guest <- TwoGuests
  SteamAccount = {}
  InitialDatabase = {}
  LobbyName <- OneName
  Offered = {}
  UsersNeeded <- NeedsTwo
  MaxUserSize = {1, 2, 3}
  GameAnswers = {TRUE}
  MaxLobbies = 1
  MaxTimers = 1
  MaxExpired = 1
  MaxReady = 3
  MaxStarts = 2
  MaxJobs = 0
  AllowedRatingDifference = 100
  Rating <- Ratings
SPECIFICATION FairSpec
INVARIANTS
  LinkMatchesState
  WithinMaxUserCount
PROPERTIES
  InvitationEnds
