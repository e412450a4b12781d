SPECIFICATION Spec
CONSTANTS
  Procs = {p1}
  Pmt0Entries = 1
  Pmt1Entries = 2
  BitsPerByte = 3
  NumClusters = 4
  TotalSlabs = 2
  FrameCount = 1
  ReferencedBit = 1
  NoPage = NoPage
  Data = {d}
  Blank = junk
  PmtBytes = junk
  SegmentSizes = {2}
  SegmentRights = {"READ_WRITE"}
  Mishaps = {}
PROPERTY DirtyPageSurvivesEviction
CHECK_DEADLOCK FALSE
