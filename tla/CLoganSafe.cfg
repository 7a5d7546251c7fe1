SPECIFICATION Spec
CONSTANTS
    Names = {p1, p2}
    None = None
    B = 2
    GzHead = 1
    Trailer = 1
    CSizes = {2}
    MaxSections = 2
    MaxUnit = 3
    BufLen = 33
    max_file_len = 20
    Byte = 4
    MaxWrites = 2
    Budget <- MCBudget
INVARIANTS TypeOK Durable LessThanABlockAtRisk RoomForSection
PROPERTIES AwayIsFinal ImplementsStore
SYMMETRY NameSymmetry
CHECK_DEADLOCK FALSE
