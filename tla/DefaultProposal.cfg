CONSTANTS
    client = client
    server = server
    clientAddr = clientAddr
    serverAddr = serverAddr
    Endpoint <- MCEndpoint
    Peer <- MCPeer
    Address <- MCAddress
    AddressSize <- MCAddressSize
    Payload <- MCPayload
    Options <- DefaultClient
    UserSizes = {0}
    InfoSizes = {8}
    Arriving = {}
    MaxInFlight = 2
    MaxMessages <- NoMessages
    MaxSessions = 1
    MaxLosses = 0
    Disconnector = {}
SPECIFICATION LinkSpec
CHECK_DEADLOCK FALSE
INVARIANT SenderWithinReceiver
