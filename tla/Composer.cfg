CONSTANTS
  c1 = c1
  c2 = c2
  f1 = f1
  f2 = f2
  None = None
  Chats = {c1, c2}
  Images = {f1}
  MaxTyped = 1
  MaxSent = 2
  MaxFaults = 1
SPECIFICATION FairSpec
INVARIANTS NothingIsLost TwiceOnlyAfterFailure
PROPERTIES SendingEnds TypingStops
