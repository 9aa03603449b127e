CONSTANTS
  Files = {1, 2, 3, 4}
  Names <- MCNames
  BaseName <- MCBaseName
  Clean <- MCClean
  Syms = {"s1", "s2", "s3", "s4", "h"}
  HostSyms = {"h"}
  Disks <- MCDisks
  LibPaths <- MCLibPaths
  MaxMaps = 5
  MaxHandles = 1
SPECIFICATION FairSpec
INVARIANTS TypeOK FilesMappedOnce UsersStayMapped DanglingOnlyIfOpened NeedsComeFirst
PROPERTY LoadReturns
