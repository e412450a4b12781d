SPECIFICATION Spec
CONSTANTS
  Procs = {p1, p2}
  Pmt0Entries = 2
  Pmt1Entries = 1
  BitsPerByte = 2
  NumClusters = 3
  TotalSlabs = 5
  FrameCount = 1
  ReferencedBit = 1
  NoPage = NoPage
  Data = {d}
  Blank = d
  PmtBytes = d
  SegmentSizes = {1, 2}
  SegmentRights = {"READ_WRITE"}
  Mishaps = {"writeContent", "writeEvicted", "readCluster", "refault", "strayDelete"}
INVARIANTS
  TypeOK
  PageIsolation
  FramesAccountedFor
  ClusterOwnership
  SegmentsTile
  SlabsConserved
  EvictionNeverDangles
SYMMETRY Symmetry
CHECK_DEADLOCK FALSE
