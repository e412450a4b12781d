SPECIFICATION Spec
CONSTANTS
  Procs = {p1, p2}
  Pmt0Entries = 1
  Pmt1Entries = 2
  BitsPerByte = 3
  NumClusters = 4
  TotalSlabs = 4
  FrameCount = 2
  ReferencedBit = 1
  NoPage = NoPage
  Data = {d}
  Blank = junk
  PmtBytes = junk
  SegmentSizes = {2}
  SegmentRights = {"READ", "READ_WRITE"}
  Mishaps = {}
INVARIANT CleanPageMatchesDisk
PROPERTIES AddressSpaceSpec OthersKeepTheirPages
SYMMETRY Symmetry
CHECK_DEADLOCK FALSE
