CONSTANTS
    client = client
    server = server
    clientAddr = clientAddr
    serverAddr = serverAddr
    Endpoint <- MCEndpoint
    Peer <- MCPeer
    Address <- MCAddress
    AddressSize <- MCAddressSize
    Payload <- MCPayload
    Options <- SmallWindows
    UserSizes = {0}
    InfoSizes = {8}
    Arriving = {}
    MaxInFlight = 2
    MaxMessages <- OneEach
    MaxOpened = 3
    MaxRestarts <- ClientOnceOrServerTwice
    MaxLosses = 1
SPECIFICATION RestartSpec
CHECK_DEADLOCK FALSE
INVARIANTS OneSenderSession AcknowledgedWasAccepted
