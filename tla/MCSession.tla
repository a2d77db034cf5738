----------------------------- MODULE MCSession -----------------------------
(***************************************************************************)
(* A client and a server session, each in an open environment: the values  *)
(* the runs give to the constants of HdlcSession and HdlcWindow.           *)
(***************************************************************************)
EXTENDS HdlcWindow, TLC

CONSTANTS clientAddr, serverAddr, otherAddr, client, server, data

MCAddress == {clientAddr, serverAddr, otherAddr}
MCAddressSize == (clientAddr :> 1) @@ (serverAddr :> 4) @@ (otherAddr :> 1)
MCPayload == {data}

Station(role, limits) ==
    [role |-> role, clientAddress |-> clientAddr, serverAddress |-> serverAddr,
     limits |-> [maximumFrameSize |-> 300, maximumInformationFieldSize |-> 0],
     negotiationLimits |-> limits]

ClientCapability ==
    [infoTransmit |-> 200, infoReceive |-> 0, windowTransmit |-> 7, windowReceive |-> 2]
ServerCapability ==
    [infoTransmit |-> 96, infoReceive |-> 64, windowTransmit |-> 3, windowReceive |-> 5]

MCOptions ==
    (client :> Station("Client", ClientCapability))
    @@ (server :> Station("Server", ServerCapability))

\* Proposals: larger than the server can do, and one whose Information fields
\* are too short for the UA that must carry the answer.
Proposals ==
    { [maxInfoTx |-> 500, maxInfoRx |-> 500, windowTx |-> 9, windowRx |-> 9],
      [maxInfoTx |-> 30, maxInfoRx |-> 20, windowTx |-> 1, windowRx |-> 1] }

\* Answers a client may get: within its proposal; one with the largest window and a
\* maximum of zero; and one with windows that one byte cannot hold.
Answers ==
    { [maxInfoTx |-> 64, maxInfoRx |-> 96, windowTx |-> 3, windowRx |-> 2],
      [maxInfoTx |-> 0, maxInfoRx |-> 0, windowTx |-> 7, windowRx |-> 2],
      [maxInfoTx |-> 64, maxInfoRx |-> 96, windowTx |-> 258, windowRx |-> 256] }

BlocksOf(params) ==
    {NoBlock, [NoBlock EXCEPT !.form = "malformed"]}
    \cup {[form |-> "present", params |-> p] : p \in params}

UFrames(kinds, to, from, blocks, users) ==
    [kind : kinds, destination : {to}, source : {from}, block : blocks, user : users]
SFrames(kinds, to, from, numbers) ==
    [kind : kinds, destination : {to}, source : {from}, nr : numbers]
IFrames(to, from, numbers) ==
    [kind : {"I"}, destination : {to}, source : {from}, ns : numbers,
     nr : SequenceNumber, size : {8}, payload : {data}]

FramesFor(to, from, opening, params, user, numbers) ==
    UFrames({opening}, to, from, BlocksOf(params), {0})
    \cup UFrames({"SNRM", "UA", "DM", "FRMR"}, to, from, {NoBlock}, {0})
    \cup UFrames({"DISC"}, to, from, {NoBlock}, {user})
    \cup SFrames({"RR"}, to, from, SequenceNumber)
    \cup SFrames({"RNR", "REJ"}, to, from, {1})
    \cup IFrames(to, from, numbers)

\* The client is the one with the large window; to keep its states few, I-frames
\* for it stop after the third, and only the client's DISC has user information.
MCArriving ==
    FramesFor(serverAddr, clientAddr, "SNRM", Proposals, 5, SequenceNumber)
    \cup FramesFor(clientAddr, serverAddr, "UA", Answers, 0, 0 .. 2)
    \cup UFrames({"SNRM", "DM"}, serverAddr, otherAddr, {NoBlock}, {0})

-----------------------------------------------------------------------------
(***************************************************************************)
(* Sessions share nothing and every property speaks of one at a time, so   *)
(* their interleavings add nothing: a session moves only while the other   *)
(* is as constructed.                                                      *)
(***************************************************************************)
AsConstructed(e) ==
    /\ state[e] = "Disconnected"
    /\ ~connectResponsePending[e] /\ ~disconnectResponsePending[e] /\ ~dmResponsePending[e]
    /\ pendingNegotiation[e] = NoBlock
    /\ negotiatedLimits[e] = LocalLimits(e)
    /\ windowSizeTransmit[e] = LocalLimits(e).windowTransmit
    /\ maximumInformationFieldSize[e] = Options[e].limits.maximumInformationFieldSize
    /\ receivedUserInformation[e] = 0

OneNext ==
    \E e \in Endpoint : WindowStep(e) /\ \A x \in Endpoint \ {e} : AsConstructed(x)

OneSpec == WindowInit /\ [][OneNext]_windowVars
============================================================================
