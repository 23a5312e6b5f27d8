SPECIFICATION Spec
CONSTANTS
  l1 = l1
  l2 = l2
  a1 = a1
  a2 = a2
  c1 = c1
  t1 = t1
  b1 = b1
  Leases = {l1, l2}
  Attempts = {a1, a2}
  Contracts = {c1}
  Owners = {t1}
  OwnerOf <- MCOwnerOf
  RequestedRanks <- MCRequested
  NativeRanks <- MCNative
  StartRank = 0
  WorldSize = 1
  PerNode = 1
  Bundles = {b1}
  BundleOf <- MCBundleOf
  Slots = 1
  MaxKillErrors = 1
INVARIANT FailureKeepsHandles
CHECK_DEADLOCK FALSE
