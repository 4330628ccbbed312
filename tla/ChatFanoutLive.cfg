CONSTANTS
  i1 = i1
  i2 = i2
  alice = alice
  bob = bob
  carol = carol
  c1 = c1
  m1 = m1
  m2 = m2
  Nowhere = Nowhere
  NoConv = NoConv
  Instances = {i1, i2}
  Users = {alice, bob}
  Convs = {c1}
  Msgs = {m1}
  ConvOf <- OneConvOf
  SenderOf <- OneSenderOf
  RecipientOf <- OneRecipientOf
  Placements <- Apart
  Marking <- SeenMarks
  Movers = {bob}
  MaxReceipts = 1
  MaxMoves = 0
  MaxFaults = 0
SPECIFICATION FairSpec
CHECK_DEADLOCK FALSE
PROPERTIES SenderLearnsSeen PublishedIsDelivered
