----------------------------- MODULE MCGoLink -----------------------------
(***************************************************************************)
(* Messages of GoLink: the session and the number in it.                   *)
(***************************************************************************)
EXTENDS GoLinkInvariant, TLC

CONSTANTS client, server, clientAddr, serverAddr

MCOptions ==
    [e \in {client, server} |->
        [role |-> IF e = client THEN "Client" ELSE "Server",
         clientAddress |-> clientAddr, serverAddress |-> serverAddr]]

MCPeer == (client :> server) @@ (server :> client)
MCPayload == (1 .. MaxSessions) \X (1 .. 12)

NineAndTwo == (client :> 9) @@ (server :> 2)
============================================================================
