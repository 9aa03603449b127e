SPECIFICATION FairSpec
CONSTANTS
  a1 = a1
  a2 = a2
  a3 = a3
  a4 = a4
  Activities <- Four
  First = a1
  Apps <- TwoApps
INVARIANTS TypeOK GuardExact
PROPERTIES LaunchesMakeATask LaunchReturns StartIsServed
CHECK_DEADLOCK FALSE
