SPECIFICATION ScreenSpec
CONSTANTS
    Services = {1, 2, 3}
    Zones = {4, 5}
    StaleHosts = {6, 7}
    Pruners = {p, q}
    ServiceMax = 2
    ZoneMax = 2
    TargetsMax = 1
    Clients = {a, b, c, d}
    Priority <- MCPriority
    MaxClients = 3
    GraphHosts = {10, 11, 12, 13}
    GraphMax = 3
    EvictAfter = 1
    GraphCells = 2
    NetCells = 2
    Columns = 2
    Capacity = 4
    NetCard = NetCard
    Hidden = Hidden
    Worlds <- MCWorlds
    a = a
    b = b
    c = c
    d = d
    p = p
    q = q
INVARIANTS TypeOK StripMirrorsEntries GroupsInOrder EvictedStaysAway GridMirrorsCards PriorityLeads NoOverlap WidgetsOwned PlacedWhileRoom
PROPERTIES  QuietPaintShows
