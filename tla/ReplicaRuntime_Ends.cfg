SPECIFICATION FairSpec
CONSTANTS
  r1 = r1
  r2 = r2
  b1 = b1
  b2 = b2
  Replicas = {r1, r2}
  WorldSize = 2
  PerNode = 2
  Bundles = {b1, b2}
  BundleOf <- MCBundleOf
  Slots = 1
  MaxKillErrors = 1
PROPERTIES
  CreationEnds
  FailureReleases
CHECK_DEADLOCK FALSE
