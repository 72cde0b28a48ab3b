SPECIFICATION Spec
CONSTANTS
  Runs = {r1, r2}
  NoRun = NoRun
  pb = pb
  role = role
  mod = mod
  gal = gal
  LocalDirs <- MCLocalDirs
  MadeDirs <- MCMadeDirs
  Bootstrap = Bootstrap
  Playlists <- MCPlaylists
  MaxPlays = 3
  GalaxyRole = GalaxyRole
  Concurrent = FALSE
  MaxFaults = 1
  MaxEdits = 0
INVARIANTS
  InstalledFirst
CHECK_DEADLOCK FALSE
