\* Three hosts, two slots: capacity, redelivery, failed walks.
CONSTANTS
    Hosts = {1, 2, 3}
    Deployers = {"a", "b"}
    Keys <- WideKeys
    OffContract = {"2b"}
    HostOf <- WideHostOf
    DeployerOf <- WideDeployerOf
    Excluded = {}
    Intermittent = {2}
    HostsMax = 2
    DeployersMax = 2
    Grace = 0
    MaxNow = 0
    None = None
    Unreadable = Unreadable
SPECIFICATION Spec
INVARIANTS TypeOK StripMirrorsLive ArrayDense CommitKeepsFlagged ListedWasFlagged
