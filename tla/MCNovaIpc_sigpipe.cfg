SPECIFICATION Spec
CONSTANTS
  Conns = {c1}
  NoConn = NoConn
  MaxClients = 1
  ListenBacklog = 1
  SvcIds = {3}
  Registered = {3}
  HandlerRcs <- DaemonRcs
  MaxCalls = 1
  Garbage = {0}
  Word = 256
INVARIANT RunsUntilStopped
