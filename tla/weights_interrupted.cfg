\* One interruption.
SPECIFICATION Spec
CONSTANTS
    Fetched <- AdapterAndBase
    Shards <- TwoShards
    Networks <- MCNetworks
    MaxTrouble = 1
    None = None
INVARIANT InterruptedIsAbsent
