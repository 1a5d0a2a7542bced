SPECIFICATION FairSpec
CONSTANTS
  w1 = w1
  w2 = w2
  w3 = w3
  Writers = {w1, w2}
  Size = 2
  MaxPush = 3
INVARIANTS NoReadOutOfOrder SlotExclusive PerWriterFifo UnavailableReadAccounting
PROPERTIES ChannelSpec EventuallyDelivered PushReturns
