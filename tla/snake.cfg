\* A board of three by three, two runs that overlap.
SPECIFICATION Spec
CONSTANTS
    GRID = 3
    Start <- RowOfThree
    Slots = {s1, s2}
SYMMETRY SlotsAreAlike
INVARIANTS TypeOK OneLoop FlagIsExact
PROPERTIES ModelNeverCollides ModelApproaches
