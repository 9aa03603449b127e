SPECIFICATION Spec
CONSTANTS
  Conns = {c1, c2, c3}
  NoConn = NoConn
  MaxClients = 2
  ListenBacklog = 0
  SvcIds = {3}
  Registered = {3}
  HandlerRcs = {0}
  MaxCalls = 1
  Garbage = {0}
  Word = 256
SYMMETRY Symmetry
INVARIANTS TypeOK ClientTableExact HeaderReadNeverBlocks
