\* One frame may be lost: the datagram that waits for the answer waits for good.
CONSTANTS
    E0 = E0
    E1 = E1
    H2 = H2
    H3 = H3
    H5 = H5
    IP = {0, 1, 2, 3, 4, 5, 6, 7}
    ETHERNET_BROADCAST = Broadcast
    NoEth = NoEth
    NoNode = NoNode
    ArpTableEntryTimeoutMs = 1
    ArpRequestWaitingMs = 1
    Width = 3
    InterfaceIP <- MCInterfaceIP
    InterfaceEth <- MCInterfaceEth
    HostEth <- MCHostEth
    Attached <- MCAttached
    Routes = {}
    RouteList <- MCRouteList
    NoHop = NoHop
    Dangling = Dangling
    GrowAnytime = FALSE
    AnyRouteOrder = FALSE
    Ttls = {1, 2}
    Destinations = {3, 5, 6}
    MaxDatagrams = 1
    MaxRoutes = 3
    MaxTime = 1
    MaxLost = 1
SPECIFICATION FairLanSpec
PROPERTY WaitsAreFinite
CHECK_DEADLOCK FALSE
