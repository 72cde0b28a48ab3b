SPECIFICATION FairSpec
CONSTANTS
  k1 = k1
  k2 = k2
  NoKey = NoKey
  Keys = {k1, k2}
  Connections <- MCConnections
  Playlists <- MCPlaylists
  MaxPlays = 2
  KeyscanSeconds = 5
  MaxFaults = 1
  MaxRekeys = 1
INVARIANTS
  TypeOK
  CommandFilesExist
  OnlyProvidedLeft
  FirstKeyKept
  KnownHostsFilled
  OnlyUsableKeys
PROPERTIES
  ImplementsProvisionRun
  RunEnds
CHECK_DEADLOCK FALSE
