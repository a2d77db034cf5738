----------------------------- MODULE HdlcWindow -----------------------------
(***************************************************************************)
(* How many I-frames of a session really are unacknowledged, against the   *)
(* (V(S) - V(A)) & 7 that CanSendInformationFrame compares with the        *)
(* transmit window.  The count is a history variable: it changes with the  *)
(* actions of HdlcSession and none of them reads it.                       *)
(***************************************************************************)
EXTENDS HdlcSession

VARIABLE unacknowledged  \* I-frames of this session that no N(R) has covered

windowVars == <<sessionVars, unacknowledged>>

WindowInit == Init /\ unacknowledged = [e \in Endpoint |-> 0]

Count(e, n) == unacknowledged' = [unacknowledged EXCEPT ![e] = n]

\* A session begins or ends, and the numbers with it.
CountAnew(e) ==
    /\ \/ \E form \in ConnectRequestForms(e) : BuildConnectRequest(e, form)
       \/ BuildConnectResponse(e)
       \/ BuildDisconnectResponse(e)
       \/ \E f \in Arriving :
             \/ ReceiveSnrm(e, f)
             \/ ReceiveConnectUa(e, f)
             \/ ReceiveDisconnectUa(e, f)
             \/ ReceiveDm(e, f)
    /\ Count(e, 0)

CountBuilt(e) ==
    /\ \E size \in InfoSizes : BuildInformationFrame(e, size)
    /\ Count(e, unacknowledged[e] + 1)

\* N(R) covers the frames from V(A) up to it.
CountAcknowledged(e) ==
    \E f \in Arriving :
        /\ ReceiveInformationFrame(e, f) \/ ReceiveSupervisoryFrame(e, f)
        /\ Count(e, unacknowledged[e] - Distance(acknowledgeSequence[e], f.nr))

CountKept(e) ==
    /\ \/ BuildConnectResponseTooLarge(e)
       \/ \E user \in UserSizes : BuildDisconnectRequest(e, user)
       \/ BuildDmResponse(e)
       \/ BuildReceiveReadyFrame(e)
       \/ \E f \in Arriving :
             ReceiveMalformedSnrm(e, f) \/ ReceiveDisc(e, f) \/ RejectFrame(e, f)
    /\ UNCHANGED unacknowledged

WindowStep(e) == CountAnew(e) \/ CountBuilt(e) \/ CountAcknowledged(e) \/ CountKept(e)

WindowNext == \E e \in Endpoint : WindowStep(e)

WindowSpec == WindowInit /\ [][WindowNext]_windowVars

\* No session has more I-frames unacknowledged than the transmit window agreed on,
\* counted one by one and not modulo eight: although each handshake replaces the
\* window, and V(A) moves to whatever N(R) the peer sends (BuildInformationFrame,
\* ReceiveFrame).  With a window of seven, one frame more would look like none.
WindowRespected == \A e \in Endpoint : unacknowledged[e] <= windowSizeTransmit[e]
=============================================================================
