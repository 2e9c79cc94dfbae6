SPECIFICATION Spec
CONSTANTS
  ClusterIds = {c1, c2, c3}
  Owners = {o1}
  Streams = {s1, s2}
  Names = {ada, bob}
  NoName = NoName
  SampleTimes = {0, 1}
  Centroids = {v1}
  Threads = {t1}
  Ops = {"delete", "sweep", "rename", "detach", "merge", "duplicates", "cascade", "infer", "attach", "recrop"}
  Faults = {}
  MaxSelected = 3
  FrameCount = 2
  MaxFaces = 1
  CancelEvery = 1
  Interval = 1
  None = None
CONSTRAINT FewSamples
SYMMETRY Interchangeable
INVARIANTS
  ServiceTypeOK
  NoOrphanCrop
  NoEmptyPeople
PROPERTIES
  MergeKeepsAName
  DuplicatesKeepNames
  CascadeComplete
  UserCropKept
CHECK_DEADLOCK FALSE
