SPECIFICATION Spec
CONSTANTS
  ClusterIds = {1, 2, 3}
  Owners = {o1}
  Streams = {s1}
  Names = {}
  NoName = NoName
  SampleTimes = {3, 15}
  Centroids <- Vectors
  Workers = {w1}
  Embeddings <- Faces
  MaxFaces = 2
  MatchThreshold = 4
  UnknownThreshold = 5
  Count = 3
  MaxFrames = 2
  Interval = 6
  MaxRuns = 2
  None = None
CONSTRAINTS ThreeFaces FewSamples
PROPERTIES
  RerunAddsNothing
CHECK_DEADLOCK FALSE
