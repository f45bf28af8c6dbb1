\* Restarts with every configuration and engine; states without markers.
CONSTANTS
    Requests <- MCRequests
    Configs <- MCConfigs
    Blank = Blank
    NonAscii = {"accented"}
    MaxLen = 30
    HeadMaxLen = 20
    MaxState = 8
    MaxBranch = 22
    MaxSequence = 26
    MaxOptions = 3
    Marked = 0
SPECIFICATION Spec
INVARIANTS
    StrangersHearOneThing OpenOnlyByChoice AnsweredAsNamed GivenNamesWork CapacityIsExact
