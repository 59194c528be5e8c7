SPECIFICATION BackOfficeSpec
CONSTANTS
  None = None
  Calls = {c1, c2}
  MaxCalls = 4
  MaxDeaths = 1
  Tickets = {t1}
  Operators = {op1}
  Asked = {"resolved", "closed"}
  Faqs = {f1}
  MaxMessages = 2
  Senders = {u1}
  Recipients = {r1, r2}
  Amounts = {1, 6}
  VelocityCount = 3
  Multiplier = 5
  MinHistory = 2
  NewBeneficiaries = 2
  Admins = {op1}
  Disputes = {d1}
  Sars = {s1}
  Notes = {n1}
  Verdicts = {"false_positive"}
  Marks = {"resolved"}
  MaxMoves = 3
SYMMETRY Symmetry
INVARIANTS BackOfficeInv DebitsAreJudged 
PROPERTIES RecordsAreKept
CONSTRAINT OneDesk
CHECK_DEADLOCK FALSE
