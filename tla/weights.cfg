\* An adapter and its base, two troubles, a download and loads in turn.
SPECIFICATION FairSpec
CONSTANTS
    Fetched <- AdapterAndBase
    Shards <- TwoShards
    Networks <- MCNetworks
    MaxTrouble = 2
    None = None
INVARIANTS DownloadedIsFound NamedHubOnly
PROPERTY RetryConverges
