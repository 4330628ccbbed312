CONSTANTS
  c1 = c1
  c2 = c2
  mine = mine
  theirs = theirs
  NoConv = NoConv
  Convs = {c1, c2}
  Mine = {mine}
  Theirs = {theirs}
  ConvOf <- SameConvOf
  MaxMsgs = 1
  MaxFaults = 1
  MaxEvents = 3
SPECIFICATION FairSpec
CHECK_DEADLOCK FALSE
INVARIANTS PeerMessagesOnce StatusIsTrue SeenOnlyWhenShown
PROPERTIES SendSettles LoadsAtLast ReceiptsArrive
