SPECIFICATION FairSpec
CONSTANTS
  p1 = p1
  p2 = p2
  t1 = t1
  t2 = t2
  Procs <- Both
  Threads <- Two
  Assignments <- OneEach
  Timer = Timer
  Nobody = Nobody
  NoPage = NoPage
  Pages <- ThreePages
  FrameCount = 2
  NumClusters = 3
  Calls = {"instruction"}
  Guarded = TRUE
  Stores = {FALSE, TRUE}
  MaxCalls <- TwoEach
INVARIANTS NeverRaces DriverNeverFails
PROPERTIES InstructionsAtomic AllFinish
