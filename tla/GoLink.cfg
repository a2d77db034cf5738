CONSTANTS
    client = client
    server = server
    clientAddr = clientAddr
    serverAddr = serverAddr
    Endpoint = {client, server}
    Peer <- MCPeer
    Options <- MCOptions
    Address = {clientAddr, serverAddr}
    Payload <- MCPayload
    Arriving = {}
    Duties = {"AwaitAcknowledgement", "HalfDuplex"}
    MaxInFlight = 2
    MaxLosses = 1
    MaxMessages <- NineAndTwo
    MaxSessions = 2
SPECIFICATION FairSpec
CHECK_DEADLOCK FALSE
INVARIANTS FreshOutsideSession NothingRejected
PROPERTIES ImplementsService DisconnectCompletes
