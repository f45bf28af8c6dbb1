\* Two pieces, so that one may follow itself; two loops that overlap.
SPECIFICATION FairSpec
CONSTANTS
    PIECE_NAMES = {I, O}
    LOW = 2
    Slots = {s1, s2}
    None = None
INVARIANTS TypeOK OneLoop LandsOnItsBoard
PROPERTIES PrefetchIsUsed KeepsPlaying
