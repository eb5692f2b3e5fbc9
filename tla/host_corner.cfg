SPECIFICATION Spec
CONSTANTS
  Sizes = {"psp", "display"}
  PspSize = "psp"
  DispSize = "display"
  MaxOutputs = 2
INVARIANTS
  Downscaled
