SPECIFICATION Spec
CONSTANTS
  ClusterIds = {c1}
  Owners = {o1}
  Streams = {s1, s2}
  Names = {ada}
  NoName = NoName
  SampleTimes = {0}
  Centroids = {v1}
  Conns = {p1, p2}
PROPERTY
  DetachStaysInStream
CHECK_DEADLOCK FALSE
