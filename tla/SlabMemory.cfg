SPECIFICATION Spec
CONSTANTS
  TotalSlabs = 5
  Zero = Zero
  Table = Table
INVARIANTS TypeOK FreeListExact
CHECK_DEADLOCK FALSE
