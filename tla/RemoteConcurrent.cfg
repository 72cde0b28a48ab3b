SPECIFICATION FairSpec
CONSTANTS
  Runs = {r1, r2}
  NoRun = NoRun
  pb = pb
  role = role
  mod = mod
  gal = gal
  LocalDirs <- MCLocalDirs
  MadeDirs <- MCMadeDirs
  Bootstrap = Bootstrap
  Playlists <- MCShared
  MaxPlays = 1
  GalaxyRole = GalaxyRole
  Concurrent = TRUE
  MaxFaults = 1
  MaxEdits = 0
INVARIANTS
  OwnFiles
PROPERTIES
  EveryRunEnds
CHECK_DEADLOCK FALSE
