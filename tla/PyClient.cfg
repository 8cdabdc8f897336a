SPECIFICATION FairSpec
CONSTANTS
    Publishers = {health, telemetry, net}
    RepoLoops = {repo}
    CatchAll = {net}
    Commands <- MCCommands
    health = health
    telemetry = telemetry
    net = net
    repo = repo
INVARIANTS TypeOK SomeLoopRecovers UndisturbedRuns
PROPERTIES PublishingResumes
