SPECIFICATION FairSpec
CONSTANTS
  w1 = w1
  w2 = w2
  w3 = w3
  c1 = c1
  c2 = c2
  Workers <- PoolOf3
  Callers <- TwoCallers
  MaxSends = 4
INVARIANTS NoLostSignal NoMissedIdle StopDrains
PROPERTIES ImplementsFifoPool IdleReturns PoolStops
