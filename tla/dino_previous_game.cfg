\* A late answer meets the next game.
SPECIFICATION Spec
CONSTANTS
    Calls = {c1, c2}
    Limits = {1, 2}
    MaxGames = 2
    MaxEpoch = 3
    MaxSeq = 2
INVARIANT AnswersThisGame
