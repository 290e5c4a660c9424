SPECIFICATION Spec
CONSTANTS
  w1 = w1
  w2 = w2
  shrimp = shrimp
  blank = blank
  biz = biz
  NoWallet = NoWallet
  NoProfile = NoProfile
  Wallet <- MCWallet
  Card <- MCCard
  BlankCard <- blank
  Profile <- MCProfile
  Region = {"VN", "AUS"}
  ZeroRegion = "VN"
  HubRegion = "AUS"
  MaxUint = 2
  MaxBatch = 2
  MaxSteps = 3
  MaxTime = 2
CONSTRAINT MCFewSteps
SYMMETRY MCSymmetry
INVARIANTS
  TypeOK
  IdsAreDense
  HistoryChronological
  InitLogWithMint
PROPERTIES
  LedgerSpec
CHECK_DEADLOCK FALSE
