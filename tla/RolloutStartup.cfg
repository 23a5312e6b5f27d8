SPECIFICATION Spec
CONSTANTS
  Configs <- MCConfigs
INVARIANTS
  TypeOK
  NeverSilentlyNative
  GateSuffices
  VerdictTrue
  RefusedOnlyIfUneven
  ReadyIsPlaced
CHECK_DEADLOCK FALSE
