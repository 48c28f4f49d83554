SPECIFICATION FairSpec
CONSTANTS
  Cap = 3
  Threads = {t1, t2, t3}
  Items = {a, b}
  Void = Void
INVARIANTS TypeOK RingOK NoLostWakeup
PROPERTIES ImplementsFifo Served
