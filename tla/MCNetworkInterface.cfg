\* Two next hops, mappings kept for 3 and requests for 2 units of time.
CONSTANTS
    A = A
    B = B
    C = C
    IP = {0, 1, 2, 3}
    ETHERNET_BROADCAST = Broadcast
    NoEth = NoEth
    NoNode = NoNode
    ArpTableEntryTimeoutMs = 3
    ArpRequestWaitingMs = 2
    MyIP = 1
    MyEth = MyEth
    Hop = {2, 3}
    Eth <- MCEth
    Owner <- MCOwner
    MaxDatagrams = 3
    MaxTime = 4
    Ticks = {1, 2}
    MaxFrames = 2
SPECIFICATION Spec
INVARIANTS PointersMatchNodes NothingOutlivesItsTime InOrderOnce SentToNextHop
PROPERTIES AcceptedIsKept RequestsSpaced
