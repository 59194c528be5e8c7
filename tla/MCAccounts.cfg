CONSTANTS
  None = None
  u1 = u1
  d1 = d1
  p1 = p1
  p2 = p2
  n1 = n1
  c1 = c1
  c2 = c2
  f1 = f1
  f2 = f2
  x = x
  s1 = s1
  s2 = s2
  a1 = a1
  Users = {u1}
  Devices = {d1}
  Pins = {p1, p2}
  Profiles = {n1}
  Calls = {c1, c2}
  LockAfter = 2
  LockFor = 1
  LastMinute = 2
  MaxWrong = 3
  MaxCalls = 4
  MaxDeaths = 1
  Files = {f1, f2}
  Strangers = {x}
  Submissions = {s1, s2}
  Reviewers = {a1}
SPECIFICATION Spec
SYMMETRY Symmetry
INVARIANTS AccountsInv
PROPERTIES AccountsAreKept DecidedStays
CHECK_DEADLOCK FALSE
