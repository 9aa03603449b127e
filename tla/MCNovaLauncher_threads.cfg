SPECIFICATION Spec
CONSTANTS
  a1 = a1
  a2 = a2
  a3 = a3
  a4 = a4
  Activities <- Four
  First = a1
  Apps <- CanvasApp
INVARIANT ResumedIsCurrent
CHECK_DEADLOCK FALSE
