\* Two keys of one intermittent host whose deployer segments do not parse.
CONSTANTS
    Hosts = {2}
    Deployers = {"(unknown)"}
    Keys <- AliasKeys
    OffContract = {}
    HostOf <- AliasHostOf
    DeployerOf <- AliasDeployerOf
    Excluded = {}
    Intermittent = {2}
    HostsMax = 1
    DeployersMax = 2
    Grace = 0
    MaxNow = 1
    None = None
    Unreadable = Unreadable
SPECIFICATION Spec
INVARIANT CommitKeepsFlagged
