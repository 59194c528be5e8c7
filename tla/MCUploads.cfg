CONSTANTS
  None = None
  u1 = u1
  c1 = c1
  c2 = c2
  i1 = i1
  i2 = i2
  Owners = {u1}
  Photos <- SentPhotos
  Calls = {c1, c2}
  Ids = {i1, i2}
  Keys = {u1}
  Limit <- Limits
  Window = 2
  LastMinute = 3
  MaxAsked = 4
SPECIFICATION Spec
SYMMETRY Symmetry
INVARIANTS UploadsInv WindowsHold
PROPERTIES ReadsGiveWhatWasAccepted
CHECK_DEADLOCK FALSE
