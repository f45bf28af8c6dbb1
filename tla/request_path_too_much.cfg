\* States may hold a marker that kev spells out.
CONSTANTS
    Requests <- MCRequests
    Configs <- MCConfigs
    Blank = Blank
    NonAscii = {"accented"}
    MaxLen = 30
    HeadMaxLen = 20
    MaxState = 8
    MaxBranch = 22
    MaxSequence = 26
    MaxOptions = 3
    Marked = 1
SPECIFICATION Spec
INVARIANTS TooMuchIs422
