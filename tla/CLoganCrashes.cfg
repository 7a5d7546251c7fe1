SPECIFICATION Spec
CONSTANTS
    Names = {p1, p2}
    None = None
    B = 3
    GzHead = 2
    Trailer = 1
    CSizes = {2}
    MaxSections = 2
    MaxUnit = 4
    BufLen = 42
    max_file_len = 30
    Byte = 4
    MaxWrites = 2
    Budget <- MCCrashes
INVARIANTS RightFile CostOfCrashes
SYMMETRY NameSymmetry
CHECK_DEADLOCK FALSE
