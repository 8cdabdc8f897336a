\* Three publishers, two slots; failing commands and saves, crashes.
CONSTANTS
    Hosts = {1, 2, 3}
    ValidNames = {1, 2}
    Priority = {3}
    ClientData = {"health"}
    ColumnLists <- OneColumn
    MaxClients = 2
SPECIFICATION Spec
INVARIANTS TypeOK CardMeansPublished ShownIsRecorded OutageVisible
PROPERTY CardLeavesWithMembership
