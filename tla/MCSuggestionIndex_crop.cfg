SPECIFICATION Spec
CONSTANTS
  r1 = r1
  r2 = r2
  w1 = w1
  w2 = w2
  p1 = p1
  p2 = p2
  Writers = {w1}
  Readers = {r1}
  Processes = {p1}
  Home <- HomeOne
  TTL = 2
  BuildTicks = 2
  MaxWrites = 3
  MaxTime = 1
INVARIANTS
  FreshRead
