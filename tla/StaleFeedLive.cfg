\* Two hosts, a clock that passes the grace, fairness of the poll timer.
CONSTANTS
    Hosts = {1, 2}
    Deployers = {"a", "b"}
    Keys <- DeepKeys
    OffContract = {"2b"}
    HostOf <- DeepHostOf
    DeployerOf <- DeepDeployerOf
    Excluded = {}
    Intermittent = {2}
    HostsMax = 1
    DeployersMax = 2
    Grace = 0
    MaxNow = 1
    None = None
    Unreadable = Unreadable
SPECIFICATION FairSpec
PROPERTIES TakedownNeedsClear PersistentFlagShown
