CONSTANTS
  u1 = u1
  u2 = u2
  r1 = r1
  r2 = r2
  r3 = r3
  r4 = r4
  c1 = c1
  c2 = c2
  c3 = c3
  c4 = c4
  c5 = c5
  o1 = o1
  MonCashFloat = MonCashFloat
  Accounts = {u1, u2, MonCashFloat}
  Currencies = {"HTG"}
  LastDay = 2
  DaysPerMonth = 2
  Users = {u1, u2}
  Requests = {r1, r2, r3, r4}
  Dto <- SharedDto
  Calls = {c1, c2, c3, c4, c5}
  RequestOf <- SharedCalls
  OtpIds = {o1}
  OtpThreshold = 3
  MaxAttempts = 2
  DailyLimit <- TightLimit
  MonthlyLimit <- LooseLimit
  Funding <- Funds
  MaxInFlight = 1
  MaxAborts = 1
  MaxPayout = 2
  UncertainAnswers = TRUE
SPECIFICATION Spec
INVARIANTS TransferMovesOnce NoOverdraft  OtpSpentOnce
CONSTRAINT EarlyReplies
CHECK_DEADLOCK FALSE
