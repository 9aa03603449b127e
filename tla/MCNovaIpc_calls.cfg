SPECIFICATION FairSpec
CONSTANTS
  Conns = {c1, c2}
  NoConn = NoConn
  MaxClients = 1
  ListenBacklog = 1
  SvcIds = {3, 9}
  Registered = {3}
  HandlerRcs <- FailOnly
  MaxCalls = 2
  Garbage = {0}
  Word = 256
INVARIANT QuietBetweenCalls
PROPERTIES CallsAreAtMostOnce CallsReturn PendingIsTaken StopEndsRun
