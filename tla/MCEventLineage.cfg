SPECIFICATION LineageSpec
CONSTANTS
    ID = {i1, i2, i3}
    None = None
    Bad = Bad
    Absent = Absent
    Null = Null
    MaxDepth = 1
    MaxAttempt = 2
    MaxEntries = 3
SYMMETRY Symmetry
INVARIANTS LineageCrossesTheWire TransitionsAreSound
CHECK_DEADLOCK FALSE
