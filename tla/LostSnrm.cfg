CONSTANTS
    client = client
    server = server
    clientAddr = clientAddr
    serverAddr = serverAddr
    Endpoint <- MCEndpoint
    Peer <- MCPeer
    Address <- MCAddress
    AddressSize <- MCAddressSize
    Payload <- MCPayload
    Options <- SmallWindows
    UserSizes = {0}
    InfoSizes = {8}
    Arriving = {}
    MaxInFlight = 2
    MaxMessages <- NoMessages
    MaxSessions = 2
    MaxLosses = 1
    Disconnector = {}
SPECIFICATION PersistentSpec
CHECK_DEADLOCK FALSE
PROPERTY ConnectCompletes
