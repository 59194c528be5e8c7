SPECIFICATION ScreensSpec
CONSTANTS
  None = None
  Explored <- TransferOnly
  MaxRequests <- Requests
  Numbers = {n1, n2}
  Known = {n1, n2}
  Rows = {t1, t2}
  RowStatus = {"open", "in_progress"}
  PageSize = 1
  ListSize = 2
  MaxTouches = 1
  Users = {u1, u2}
  MaxPrompts = 4
INVARIANT PaysOnlyTheOneConfirmed
CHECK_DEADLOCK FALSE
