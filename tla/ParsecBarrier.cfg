CONSTANTS
  Threads = {t1, t2, t3, t4}
  Parties = 3
  NoThread = NoThread
SPECIFICATION BFairSpec
INVARIANTS
  BarrierTypeOK
  CountIsInside
PROPERTIES
  ImplementsRendezvous
  MeetingsHappen
