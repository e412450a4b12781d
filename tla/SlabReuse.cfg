SPECIFICATION Spec
CONSTANTS
  TotalSlabs = 4
  Zero = Zero
  Table = Table
INVARIANT SlabHasOneTable
CHECK_DEADLOCK FALSE
