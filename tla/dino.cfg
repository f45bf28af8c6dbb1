\* Two calls in flight, two games, a few key changes.
SPECIFICATION FairSpec
CONSTANTS
    Calls = {c1, c2}
    Limits = {1, 2}
    MaxGames = 2
    MaxEpoch = 4
    MaxSeq = 2
INVARIANTS PremiseHeld CountsCalls
PROPERTY KeepsAsking
