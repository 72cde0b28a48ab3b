SPECIFICATION Spec
CONSTANTS
  Blocks <- MCBlocks
  Missing <- MCMissing
  Unchecked <- MCUnchecked
  EnvRoles <- MCEnvRoles
INVARIANT
  DefaultsApply
CHECK_DEADLOCK FALSE
