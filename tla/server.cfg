\* An engine whose predict reads its handle again, with and without --preload,
\* two worker threads.
CONSTANTS
    Requests = {r1, r2}
    Engine = "kev"
    NoOne = NoOne
    Loader = Loader
SPECIFICATION FairSpec
CHECK_DEADLOCK FALSE
INVARIANTS
    OneInPredict ReadyMeansWarm FailureIsFinal CloseSparesLoad NoTeardownSeen
    PreloadNeverRefuses
PROPERTIES ImplementsSerial EveryRequestSettles ShutdownCompletes ProbeLearnsOutcome
