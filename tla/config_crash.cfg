CONSTANTS
  va = va
  vb = vb
  Values = {va, vb}
  Default = va
  HalfRange = 2
SPECIFICATION StoreSpec
INVARIANTS StoreInv
