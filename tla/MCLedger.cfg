CONSTANTS
  w1 = w1
  w2 = w2
  float = float
  Keys = {k1, k2, k3}
  Accounts = {w1, w2, float}
  Currencies = {"HTG", "USD"}
  Postings <- MCPostings
  LastDay = 1
  DaysPerMonth = 2
SPECIFICATION LedgerSpec
INVARIANTS TypeOK OperationsBalanced ReversedMeansMirrored
PROPERTIES HistoryStands ImplementsBooks
CHECK_DEADLOCK FALSE
