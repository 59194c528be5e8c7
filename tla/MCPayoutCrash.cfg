CONSTANTS
  u1 = u1
  u2 = u2
  r1 = r1
  r2 = r2
  c1 = c1
  c2 = c2
  c3 = c3
  MonCashFloat = MonCashFloat
  Accounts = {u1, u2, MonCashFloat}
  Currencies = {"HTG"}
  LastDay = 0
  DaysPerMonth = 1
  Users = {u1, u2}
  Requests = {r1, r2}
  Dto <- TwoUserDto
  Calls = {c1, c2}
  RequestOf <- SameRequest
  OtpIds = {}
  OtpThreshold = 100
  MaxAttempts = 1
  DailyLimit <- NoLimit
  MonthlyLimit <- NoLimit
  Funding <- Funds
  MaxInFlight = 1
  MaxAborts = 1
  MaxPayout = 2
  UncertainAnswers = FALSE
SPECIFICATION PayoutSpec
INVARIANTS RetriedPayoutIsSafe
CHECK_DEADLOCK FALSE
