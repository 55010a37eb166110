SPECIFICATION Spec
CONSTANTS
    Heap = 28
    BlockHeader = 3
    Spare = 2
    Sizes = {1, 3, 6}
    Aligns = {1, 4, 8}
    Null = Nothing
    Readers = {"reader", "reader 2"}
    Others = {"stick"}
    Absent = Nothing
    Lbas = 6
    MaxSectors = 4
    Piece = 2
    Counts = {0, 1, 3, 4}
INVARIANTS
    RepliesCorrect WalksCorrect EncodingsExact RequestsExact AddressesExact StorageSound
