SPECIFICATION Spec
CONSTANTS
  BitsPerByte = 3
  NumClusters = 8
INVARIANTS
  TypeOK
  HintSound
PROPERTY FirstFitSpec
