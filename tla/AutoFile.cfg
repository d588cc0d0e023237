\* Three threads, one to three descriptors, an index of up to three slots.
SPECIFICATION FairSpec
CONSTANTS
  t1 = t1 t2 = t2 t3 = t3
  Threads = {t1, t2, t3}
  Grower = t1
  Limits = {1, 2, 3}
  INDEXGROWTH = 2
  MaxSlots = 3
  MaxMaps = 2
INVARIANTS TypeOK UseExact FdOwned PinValid SlotsOnce NoLostWakeup
PROPERTIES CallsEnd WaitsEnd
CHECK_DEADLOCK FALSE
