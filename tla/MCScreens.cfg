SPECIFICATION FairSpec
CONSTANTS
  None = None
  Explored <- Every
  MaxRequests <- Requests
  Numbers = {n1, n2}
  Known = {n1}
  Rows = {t1, t2}
  RowStatus = {"open", "in_progress"}
  PageSize = 1
  ListSize = 2
  MaxTouches = 1
  Users = {u1, u2}
  MaxPrompts = 4
INVARIANTS ScreensInv  OnceUnlessInDoubt SentAsShown PagesTellTheQueue
PROPERTY BusyEnds
CHECK_DEADLOCK FALSE
