SPECIFICATION Spec
CONSTANTS
  p1 = p1
  p2 = p2
  t1 = t1
  t2 = t2
  Procs <- Both
  Threads <- Two
  Assignments <- OneOrBoth
  Timer = Timer
  Nobody = Nobody
  NoPage = NoPage
  Pages <- TwoPages
  FrameCount = 1
  NumClusters = 3
  Calls = {"instruction", "create", "delete"}
  Guarded = FALSE
  Stores = {TRUE}
  MaxCalls <- FourAndOne
INVARIANTS TypeOK FramesAgreeOrRaced ClustersAgreeOrRaced StoreReachesItsPage CrashNeedsRace GlobalHolderRuns OnlyDeadlock
CHECK_DEADLOCK FALSE
