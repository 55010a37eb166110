CONSTANTS
  NumBanks = 2
  NumRows = 2
  NumQuads = 2
  Macs = {"m1", "m2", "m3"}
  Hash <- OneRow
  Ports = {"p1", "p2"}
  DefaultAge = 1
  AgeMod = 4
  FifoDepth = 1
  Traffics <- Offered
  None = None
SPECIFICATION Spec
INVARIANTS TableInv FlushPurges
PROPERTIES SweepsEnd
