CONSTANTS
  i1 = i1
  i2 = i2
  alice = alice
  bob = bob
  carol = carol
  c1 = c1
  m1 = m1
  m2 = m2
  Nowhere = Nowhere
  NoConv = NoConv
  Instances = {i1}
  Users = {alice, bob, carol}
  Convs = {c1}
  Msgs = {m1, m2}
  ConvOf <- TwoConvOf
  SenderOf <- TwoSenderOf
  RecipientOf <- TwoRecipientOf
  Placements <- BobAnywhere
  Marking <- AnybodyMarks
  Movers = {bob}
  MaxReceipts = 1
  MaxMoves = 1
  MaxFaults = 1
SPECIFICATION Spec
CHECK_DEADLOCK FALSE
INVARIANTS UnreadIsExact BadgeAgrees
PROPERTY ImplementsLiveDelivery
SYMMETRY Interchangeable
