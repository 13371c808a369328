\* Two clients and a game server; the server is stopped at any time.
CONSTANTS
  c1 = c1  c2 = c2
  s1 = s1
  NoNode = NoNode
  Conn = {c1, c2}
  Game = {s1}
SPECIFICATION FairSpec
CHECK_DEADLOCK FALSE
INVARIANTS
  ServerTypeOK
  StopIteratorsValid
  NoSessionAfterStop
  SessionIsListed
PROPERTIES
  HandshakeEnds
  StopEnds
  ExpiredAreForgotten
