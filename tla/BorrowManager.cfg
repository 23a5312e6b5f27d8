SPECIFICATION Spec
CONSTANTS
  l1 = l1
  l2 = l2
  a1 = a1
  a2 = a2
  c1 = c1
  c2 = c2
  t1 = t1
  t2 = t2
  Leases = {l1, l2}
  Attempts = {a1, a2}
  Contracts = {c1, c2}
  Owners = {t1, t2}
  OwnerOf <- MCOwnerOf
  RequestedRanks <- MCRequested
  NativeRanks <- MCNative
  StartRank = 0
INVARIANTS
  TypeOK
  RanksDistinct
  OperationsDistinct
  CursorAhead
  AnswersAgree
PROPERTIES
  RecordsPermanent
  ImplementsLedger
CHECK_DEADLOCK FALSE
SYMMETRY Symmetry
