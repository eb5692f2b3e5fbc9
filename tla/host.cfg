SPECIFICATION FairSpec
CONSTANTS
  Sizes = {"psp", "display"}
  PspSize = "psp"
  DispSize = "display"
  MaxOutputs = 2
INVARIANTS
  OneHost
  DisplayRemoved
  SizesAgree
PROPERTIES
  StopWorks
