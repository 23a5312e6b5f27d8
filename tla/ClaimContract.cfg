SPECIFICATION Spec
CONSTANTS
  s1 = s1
  s2 = s2
  s3 = s3
  s4 = s4
  s5 = s5
  n1 = n1
  n2 = n2
  WorldSize = 4
  Slots = {s1, s2, s3, s4, s5}
  Nodes = {n1, n2}
  NodeOf <- MCNodeOf
  DeviceOf <- MCDeviceOf
  RankLists <- MCRankLists
  NodeRanks = {0, 1}
  LocalRanks = {0, 1}
  GpuShares = {1}
  FullShare = 2
  CpuRequest = 1
  MaxColocate = 2
  EngineSizes = {4}
INVARIANTS
  TypeOK
  RankGrid
  LayoutExact
CHECK_DEADLOCK FALSE
