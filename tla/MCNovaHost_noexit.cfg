SPECIFICATION FairSpec
CONSTANTS
  Renderers = {"canvas"}
  LinksMayBreak = FALSE
PROPERTY CloseExits
CHECK_DEADLOCK FALSE
