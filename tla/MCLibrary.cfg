SPECIFICATION LibrarySpec
CONSTANTS
  ClusterIds = {c1, c2, c3}
  Owners = {o1, o2}
  Streams = {s1, s2}
  Names = {ada}
  NoName = NoName
  SampleTimes = {1, 2}
  Centroids = {v1}
CONSTRAINT FewSamples
SYMMETRY Interchangeable
INVARIANTS
  TypeOK
  SampleCountExact
  OccurrencesOwned
  NamesUnique
PROPERTIES
  NeverEmptied
  SamplesLeaveOnlyByRemoval
  RemovalStaysInStream
CHECK_DEADLOCK FALSE
