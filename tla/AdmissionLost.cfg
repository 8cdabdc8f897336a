\* Every member fits the registry; SMEMBERS may get an error reply.
CONSTANTS
    Hosts = {1, 2}
    ValidNames = {1, 2}
    Priority = {2}
    ClientData = {"health"}
    ColumnLists <- OneColumn
    MaxClients = 2
SPECIFICATION Spec
PROPERTY OutageStaysVisible
