SPECIFICATION Spec
CONSTANTS
  r1 = r1
  r2 = r2
  w1 = w1
  w2 = w2
  p1 = p1
  p2 = p2
  Writers = {w1, w2}
  Readers = {r1}
  Processes = {p1, p2}
  Home <- HomeTwo
  TTL = 1
  BuildTicks = 1
  MaxWrites = 3
  MaxTime = 5
INVARIANTS
  TypeOK
  FreshAfterBump
  BoundedStaleness
