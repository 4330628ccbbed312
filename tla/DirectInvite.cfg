CONSTANTS
  r1 = r1
  r2 = r2
  r3 = r3
  Nobody = Nobody
  Requests = {r1, r2, r3}
  Ids = {1, 2, 3, 4}
  Registered = {1, 2, 3}
  Keyed = {1, 2, 3}
  Asks <- MCAsks
  Away = {2}
  PoolSize = 4
  MaxFaults = 2
SPECIFICATION FairSpec
CHECK_DEADLOCK FALSE
INVARIANT OneConversationPerPair
PROPERTIES EveryInviteAnswered InviterSeesIt ImplementsDirectConversations
