SPECIFICATION Spec
CONSTANTS
  ClusterIds = {c1, c2}
  Owners = {o1, o2}
  Streams = {s1}
  Names = {}
  NoName = NoName
  SampleTimes = {0}
  Centroids = {v1}
  Threads = {t1, t2}
  Ops = {"delete", "detach", "merge", "duplicates", "cascade", "infer", "attach", "recrop", "sweep"}
  Faults = {"raise", "cancel"}
  MaxSelected = 2
  FrameCount = 1
  MaxFaces = 1
  CancelEvery = 1
  Interval = 1
  None = None
CONSTRAINT FewSamples
SYMMETRY Interchangeable
INVARIANTS
  CropPointerValid
PROPERTIES
  PurgeOnlyGone
  LibrarySpec
CHECK_DEADLOCK FALSE
