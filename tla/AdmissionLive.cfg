\* Every kind of client data, fairness of the poll timer.
CONSTANTS
    Hosts = {1, 2}
    ValidNames = {1}
    Priority = {2}
    ClientData = {"telemetry", "health", "garbled"}
    ColumnLists <- OneColumn
    MaxClients = 1
SPECIFICATION FairSpec
PROPERTY SilentGoesRed
