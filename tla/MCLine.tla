------------------------------ MODULE MCLine ------------------------------
(***************************************************************************)
(* A client and a server on a line: the values the runs give to the        *)
(* constants of HdlcLine.                                                  *)
(***************************************************************************)
EXTENDS HdlcLine, TLC

CONSTANTS client, server, clientAddr, serverAddr

MCEndpoint == {client, server}
MCPeer == (client :> server) @@ (server :> client)
MCAddress == {clientAddr, serverAddr}
MCAddressSize == (clientAddr :> 1) @@ (serverAddr :> 4)

Station(role, limits) ==
    [role |-> role, clientAddress |-> clientAddr, serverAddress |-> serverAddr,
     limits |-> [maximumFrameSize |-> 0, maximumInformationFieldSize |-> 0],
     negotiationLimits |-> limits]

Capability(info, transmit, receive) ==
    [infoTransmit |-> info, infoReceive |-> info,
     windowTransmit |-> transmit, windowReceive |-> receive]

Pair(clientCapability, serverCapability) ==
    (client :> Station("Client", clientCapability))
    @@ (server :> Station("Server", serverCapability))

\* Windows of 2 towards the server and of 1 towards the client.
SmallWindows == Pair(Capability(200, 3, 1), Capability(100, 2, 2))

\* A client of default capability, whose SNRM has no Information field.
DefaultClient == Pair(Capability(0, 0, 0), Capability(1024, 3, 3))

\* The same client, and a server with the largest window there is, whose
\* Information fields are too short for the 23 bytes of a UA with parameters: an
\* SNRM without parameters is answered, one with parameters cannot be.
ShortServer == Pair(Capability(0, 0, 0), Capability(20, 7, 7))

NoMessages == (client :> 0) @@ (server :> 0)
ThreeAndTwo == (client :> 3) @@ (server :> 2)
NineFromServer == (client :> 1) @@ (server :> 9)
============================================================================
