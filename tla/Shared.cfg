SPECIFICATION Spec
CONSTANTS
  Procs = {p1, p2}
  Masters = {m1, m2}
  Names = {n1}
  NoMaster = NoMaster
  NoPage = NoPage
  Pmt0Entries = 2
  Pmt1Entries = 1
  BitsPerByte = 2
  NumClusters = 3
  TotalSlabs = 6
  FrameCount = 1
  SegmentSizes = {1, 2}
INVARIANTS
  TypeOK
  NoDanglingLink
  DeletedIsGone
  ClusterOwnership
  FramesAgree
  SlabsConserved
  CrashNeedsMisuse
SYMMETRY Symmetry
CHECK_DEADLOCK FALSE
