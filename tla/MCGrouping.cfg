SPECIFICATION Spec
CONSTANTS
  Clusters = {c1, c2, c3, c4}
  Similarities = {20, 50, 80}
  SampleCounts = {1, 2}
  Threshold = 50
  NoSeed = NoSeed
SYMMETRY Interchangeable
INVARIANTS
  GroupingTypeOK
  GroupsAsPromised
  GroupsAreCliques
  LeftoversNamed
CHECK_DEADLOCK FALSE
