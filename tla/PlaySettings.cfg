SPECIFICATION Spec
CONSTANTS
  Blocks <- MCBlocks
  Missing <- MCMissing
  Unchecked <- MCUnchecked
  EnvRoles <- MCEnvRoles
INVARIANTS
  TypeOK
  AcceptedWasChecked
  HostPathsIffDeployed
  SecretsAsConfigured
  InventoryReaches
CHECK_DEADLOCK FALSE
