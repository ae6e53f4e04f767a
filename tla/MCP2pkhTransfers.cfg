SPECIFICATION FairSpec
CONSTANTS
  Coins = {c1, c2}
  Transfers = {t1}
  Plans = {x1}
  WithChange = {t1, x1}
  Calls = {h1, h2}
  PreviewLimit = 1
  MaxTries = 2
INVARIANTS
  NoDoubleSpend
  EndedTransferFreed
PROPERTIES
  FundsSettle
CHECK_DEADLOCK FALSE
