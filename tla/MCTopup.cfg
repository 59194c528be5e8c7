CONSTANTS
  u1 = u1
  t1 = t1
  p1 = p1
  p2 = p2
  MonCashFloat = MonCashFloat
  Accounts = {u1, MonCashFloat}
  Currencies = {"HTG"}
  LastDay = 0
  DaysPerMonth = 1
  Topups = {t1}
  Owner <- OwnerIsU1
  AmountMinor <- Amounts
  Attempts = 2
  References <- TwoReferences
  Deliveries = {1, 2}
  MaxDeaths = 2
SPECIFICATION FairSpec
INVARIANTS TopupTypeOK CreditedOncePaid CompletedMeansCredited
PROPERTIES RowsKeepWhatWasPaid PaidIsCredited QueuedIsDecided
CHECK_DEADLOCK FALSE
