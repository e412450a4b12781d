SPECIFICATION Spec
CONSTANTS
  Pmt0Entries = 2
  Pmt1Entries = 3
  Names = {"a", "b"}
  TotalSlabs = 4
  FrameCount = 1
  Parents <- FewParents
  IOFails = TRUE
INVARIANTS TypeOK CloneIsComplete CopiesAreParents CrashNeedsCause WritesOwnClusters
