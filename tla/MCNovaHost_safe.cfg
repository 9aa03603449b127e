SPECIFICATION FairSpec
CONSTANTS
  Renderers <- AllRenderers
  LinksMayBreak = TRUE
INVARIANTS TypeOK RenderTouchesLiveObjects ReleasedInOrder
PROPERTY CloseEndsLoop
CHECK_DEADLOCK FALSE
