\* Everything that can happen at the candidates, two handler threads.
SPECIFICATION FairSpec
CONSTANTS
    t1 = t1
    t2 = t2
    laya = laya
    kev = kev
    Threads <- TwoThreads
    Candidates = 2
    Ids <- Engines
    IdOf <- OneEach
    Renames = TRUE
    Fails = TRUE
    Garbles = TRUE
    MaxTrouble = 1
INVARIANT RefusalIsHonest
PROPERTY FoundAgainAsItself
CHECK_DEADLOCK FALSE
