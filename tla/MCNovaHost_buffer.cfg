SPECIFICATION Spec
CONSTANTS
  Renderers = {"canvas"}
  LinksMayBreak = FALSE
INVARIANT BufferOnOwnConnection
CHECK_DEADLOCK FALSE
