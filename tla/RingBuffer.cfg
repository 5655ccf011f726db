CONSTANTS
  Producers = {p1, p2}
  Cap = 2
  MaxBatch = 2
  MaxPush = 2
  Word = 16
  Nil = Nil
SPECIFICATION FairSpec
INVARIANTS TypeOK NoSlotRace DeliveredInClaimOrder RingInv
PROPERTIES NeverOverwrites ImplementsLogQueue EveryClaimIsDelivered
CHECK_DEADLOCK FALSE
