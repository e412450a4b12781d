SPECIFICATION Spec
CONSTANTS
  Procs = {p1}
  Masters = {m1}
  Names = {n1}
  NoMaster = NoMaster
  NoPage = NoPage
  Pmt0Entries = 2
  Pmt1Entries = 1
  BitsPerByte = 3
  NumClusters = 4
  TotalSlabs = 5
  FrameCount = 1
  SegmentSizes = {1}
INVARIANT DeletedGivesTablesBack
CHECK_DEADLOCK FALSE
