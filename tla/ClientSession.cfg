CONSTANTS
  u1 = u1
  u2 = u2
  w1 = w1
  w2 = w2
  None = None
  Users = {u1, u2}
  Windows = {w1, w2}
  MaxTokens = 2
SPECIFICATION FairSession
INVARIANTS KeysAreOwn RequestsAreOwn ListIsOwn
PROPERTIES SessionEndsForReason KeysArrive
