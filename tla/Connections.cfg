CONSTANTS
  alice = alice
  bob = bob
  w1 = w1
  w2 = w2
  c1 = c1
  None = None
  Users = {alice, bob}
  Windows = {w1, w2}
  UserOf <- MCUserOf
  Conversations = {c1}
  Viewers = {w1}
  MaxSockets <- MCSockets
  MaxRestarts = 1
SPECIFICATION FairSpec
CHECK_DEADLOCK FALSE
INVARIANTS NobodyMissing NobodyLingers
PROPERTIES ComesBack SignOutIsSeen
