\* Mappings and requests are kept for one unit of time.
CONSTANTS
    E0 = E0
    E1 = E1
    H2 = H2
    H3 = H3
    IP = {0, 1, 2, 3}
    ETHERNET_BROADCAST = Broadcast
    NoEth = NoEth
    NoNode = NoNode
    ArpTableEntryTimeoutMs = 1
    ArpRequestWaitingMs = 1
    Width = 2
    InterfaceIP <- MCInterfaceIP
    InterfaceEth <- MCInterfaceEth
    HostEth <- MCHostEth
    Attached <- MCAttached
    Routes <- MCRoutes
    NoHop = NoHop
    Dangling = Dangling
    GrowAnytime = TRUE
    AnyRouteOrder = FALSE
    Ttls = {1, 2}
    Destinations = {2, 3}
    MaxDatagrams = 2
    MaxRoutes = 2
    MaxTime = 1
SPECIFICATION Spec
INVARIANT PointersOwned
