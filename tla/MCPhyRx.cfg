SPECIFICATION FairSpec
CONSTANTS
  Slots = 4
  QMax = 10
  MaxLen = 3
  MaxMsg = 3
  MaxRequests = 1
  Peers <- AllPeers
INVARIANTS RingAccount HandedOver WholeFrames LossContained
PROPERTY PacketRead
CHECK_DEADLOCK FALSE
