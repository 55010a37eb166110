CONSTANTS
    SlotCount = 2
    MaxSlots = {1}
    CountMax = 2
    MaxEvents = 2
SPECIFICATION FairSpec
INVARIANTS BankInv
PROPERTIES BankReported
