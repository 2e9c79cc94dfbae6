SPECIFICATION Spec
CONSTANTS
  ClusterIds = {c1, c2}
  Owners = {o1}
  Streams = {s1}
  Names = {ada}
  NoName = NoName
  SampleTimes = {0}
  Centroids = {v1}
  Conns = {p1, p2}
INVARIANTS
  RCTypeOK
  OccurrencesOwned
  NamesUnique
PROPERTIES
  AloneIsLibrary
  TransactionsEnd
CHECK_DEADLOCK FALSE
