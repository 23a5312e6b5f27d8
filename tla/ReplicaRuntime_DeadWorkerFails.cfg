SPECIFICATION FairSpec
CONSTANTS
  r1 = r1
  r2 = r2
  b1 = b1
  b2 = b2
  Replicas = {r1}
  WorldSize = 2
  PerNode = 1
  Bundles = {b1, b2}
  BundleOf <- MCBundleOf
  Slots = 1
  MaxKillErrors = 1
PROPERTY DeadWorkerFails
CHECK_DEADLOCK FALSE
