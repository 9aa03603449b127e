SPECIFICATION FairSpec
CONSTANTS
  MaxChanges = 1
  MaxWire = 3
PROPERTY InputReachesViews
CHECK_DEADLOCK FALSE
