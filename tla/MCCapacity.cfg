SPECIFICATION Spec
CONSTANTS
  Workers = {w1, w2, w3}
  Loop = Loop
  MaxConn = 2
  Permits = 2
INVARIANTS
  TypeOK
  SlotsConserved
  PoolNeverExhausted
PROPERTIES
  ServiceKept
  WaitEnds
  LoopComesBack
