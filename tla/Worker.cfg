\* Two keys, three updates each, two drainKey calls; the worker fiber is fair.
CONSTANTS
  k1 = k1
  k2 = k2
  d1 = d1
  d2 = d2
  Keys = {k1, k2}
  Drains = {d1, d2}
  MaxUpdates = 3
SPECIFICATION FairWorkerSpec
INVARIANTS
  DrainedMeansSettled
PROPERTIES
  ImplementsCoalescedWrites
  EveryDrainReturns
\* When every update is settled and every drain has returned, nothing is left to do.
CHECK_DEADLOCK FALSE
