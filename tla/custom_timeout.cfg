\* Three guests in a lobby of users of up to three; a timer runs out once.
CONSTANTS
  c1 = c1  c2 = c2  c3 = c3
  g1 = g1  g2 = g2  g3 = g3
  a1 = a1  a2 = a2  a3 = a3
  Gone = Gone  NoAccount = NoAccount
  Conn <- ThreeConns
  Account <- Guests
  Guest <- Guests
  SteamAccount = {}
  InitialDatabase = {}
  LobbyName <- OneName
  Offered = {}
  UsersNeeded <- NeedsTwo
  MaxUserSize = {3}
  GameAnswers = {}
  MaxLobbies = 1
  MaxTimers = 1
  MaxExpired = 1
  MaxReady = 3
  MaxStarts = 1
  MaxJobs = 0
  AllowedRatingDifference = 100
  Rating <- Ratings
SPECIFICATION Spec
PROPERTIES
  CustomAnswersCountOnce
