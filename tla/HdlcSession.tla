---------------------------- MODULE HdlcSession ----------------------------
(***************************************************************************)
(* class HdlcSession (src/hdlc/hdlc_session.cpp): one link endpoint, client *)
(* or server.  Every Build... method and every branch of ReceiveFrame is   *)
(* an action.  A session does no I/O: a Build... method hands the caller a *)
(* frame and ReceiveFrame takes a decoded one.  The frame a Build...       *)
(* action produces is an operator of its own (SnrmFrame, IFrame, ...),     *)
(* evaluated in the state before the step.                                 *)
(*                                                                         *)
(* Next is the session in an open environment: the application may call    *)
(* any method at any time and the peer may send any frame of Arriving, in  *)
(* any order, whether or not a correct peer would.  HdlcLink closes the    *)
(* environment with two sessions and a line.                               *)
(***************************************************************************)
EXTENDS HdlcFrames

CONSTANTS
    Endpoint,   \* the session objects
    Options,    \* HdlcSessionOptions of each of them
    UserSizes,  \* sizes of user information the application passes, 0 for none
    InfoSizes,  \* sizes of the Information field of the I-frames it builds
    Arriving    \* frames the open environment may deliver

CodecLimits == [maximumFrameSize : Nat, maximumInformationFieldSize : Nat]

HdlcSessionOptions ==
    [role : {"Client", "Server"}, clientAddress : Address, serverAddress : Address,
     limits : CodecLimits, negotiationLimits : Limits]

\* Window sizes fit a byte and information sizes the two bytes of their tag.
SendableLimits(l) ==
    /\ l.infoTransmit < 65536 /\ l.infoReceive < 65536
    /\ l.windowTransmit < 256 /\ l.windowReceive < 256

ASSUME OptionsAssumption ==
    /\ Options \in [Endpoint -> HdlcSessionOptions]
    /\ \A e \in Endpoint : SendableLimits(Options[e].negotiationLimits)

ASSUME InputAssumption ==
    /\ UserSizes \subseteq Nat /\ 0 \in UserSizes
    /\ InfoSizes \subseteq Nat
    /\ Arriving \subseteq Frame

VARIABLES
    state,                       \* HdlcSessionState
    sendSequence,                \* V(S)
    receiveSequence,             \* V(R)
    acknowledgeSequence,         \* V(A)
    connectResponsePending,      \* an SNRM waits for its UA
    disconnectResponsePending,   \* a DISC waits for its UA
    dmResponsePending,           \* a rejected SNRM waits for its DM
    pendingNegotiation,          \* parameters of the SNRM being answered
    negotiatedLimits,
    windowSizeTransmit,
    maximumInformationFieldSize, \* options_.limits, the one limit that changes
    receivedUserInformation      \* its size

sequences == <<sendSequence, receiveSequence, acknowledgeSequence>>
pending == <<connectResponsePending, disconnectResponsePending, dmResponsePending>>
negotiated == <<negotiatedLimits, windowSizeTransmit, maximumInformationFieldSize>>
sessionVars ==
    <<state, sequences, pending, pendingNegotiation, negotiated, receivedUserInformation>>

SessionState == {"Disconnected", "AwaitingConnection", "Connected", "AwaitingDisconnect"}

Role(e) == Options[e].role
LocalLimits(e) == Normalise(Options[e].negotiationLimits)
LocalAddress(e) ==
    IF Role(e) = "Client" THEN Options[e].clientAddress ELSE Options[e].serverAddress
RemoteAddress(e) ==
    IF Role(e) = "Client" THEN Options[e].serverAddress ELSE Options[e].clientAddress

Init ==
    /\ state = [e \in Endpoint |-> "Disconnected"]
    /\ sendSequence = [e \in Endpoint |-> 0]
    /\ receiveSequence = [e \in Endpoint |-> 0]
    /\ acknowledgeSequence = [e \in Endpoint |-> 0]
    /\ connectResponsePending = [e \in Endpoint |-> FALSE]
    /\ disconnectResponsePending = [e \in Endpoint |-> FALSE]
    /\ dmResponsePending = [e \in Endpoint |-> FALSE]
    /\ pendingNegotiation = [e \in Endpoint |-> NoBlock]
    /\ negotiatedLimits = [e \in Endpoint |-> LocalLimits(e)]
    /\ windowSizeTransmit = [e \in Endpoint |-> LocalLimits(e).windowTransmit]
    /\ maximumInformationFieldSize =
           [e \in Endpoint |-> Options[e].limits.maximumInformationFieldSize]
    /\ receivedUserInformation = [e \in Endpoint |-> 0]

-----------------------------------------------------------------------------
(***************************************************************************)
(* Helpers shared by the methods.                                          *)
(***************************************************************************)

\* Mutant: V(R) survives.
PartialResetSequences(e) ==
    /\ sendSequence' = [sendSequence EXCEPT ![e] = 0]
    /\ acknowledgeSequence' = [acknowledgeSequence EXCEPT ![e] = 0]
    /\ UNCHANGED receiveSequence

ResetSequences(e) ==
    /\ sendSequence' = [sendSequence EXCEPT ![e] = 0]
    /\ receiveSequence' = [receiveSequence EXCEPT ![e] = 0]
    /\ acknowledgeSequence' = [acknowledgeSequence EXCEPT ![e] = 0]

\* Mutant: the codec keeps its old maximum.
AdoptWithoutMaximum(e, limits) ==
    /\ negotiatedLimits' = [negotiatedLimits EXCEPT ![e] = limits]
    /\ windowSizeTransmit' = [windowSizeTransmit EXCEPT ![e] = limits.windowTransmit]
    /\ UNCHANGED maximumInformationFieldSize

\* What a successful handshake leaves behind on either side.
Adopt(e, limits) ==
    /\ negotiatedLimits' = [negotiatedLimits EXCEPT ![e] = limits]
    /\ windowSizeTransmit' = [windowSizeTransmit EXCEPT ![e] = limits.windowTransmit]
    /\ maximumInformationFieldSize' =
           [maximumInformationFieldSize EXCEPT ![e] = limits.infoTransmit]

\* BuildFrame succeeds: the codec accepts an Information field of this size
\* under the given maximum.
CanBuild(e, size, maximum) ==
    Encodable(RemoteAddress(e), LocalAddress(e), size,
              [maximumFrameSize |-> Options[e].limits.maximumFrameSize,
               maximumInformationFieldSize |-> maximum])

Unnumbered(e, kind, block, user) ==
    [kind |-> kind, destination |-> RemoteAddress(e), source |-> LocalAddress(e),
     block |-> block, user |-> user]

Outstanding(e) == Distance(acknowledgeSequence[e], sendSequence[e])

\* Mutant: one frame too many.
OffByOneCanSend(e) == Outstanding(e) <= windowSizeTransmit[e]

CanSendInformationFrame(e) == Outstanding(e) < windowSizeTransmit[e]

-----------------------------------------------------------------------------
(***************************************************************************)
(* The client opens.  The overload without user information negotiates     *)
(* only when the local limits are not the defaults; the other one always.  *)
(***************************************************************************)
ConnectRequestForms(e) ==
    {[block |-> IF LocalLimits(e) = DefaultLimits
                THEN NoBlock ELSE Block(ProposalOf(LocalLimits(e))), user |-> 0]}
    \cup {[block |-> Block(ProposalOf(LocalLimits(e))), user |-> u] : u \in UserSizes}

SnrmFrame(e, form) == Unnumbered(e, "SNRM", form.block, form.user)

BuildConnectRequest(e, form) ==
    /\ Role(e) = "Client"
    /\ state[e] = "Disconnected"
    /\ CanBuild(e, InformationSize(form.block, form.user), maximumInformationFieldSize[e])
    /\ state' = [state EXCEPT ![e] = "AwaitingConnection"]
    /\ ResetSequences(e)
    /\ UNCHANGED <<pending, pendingNegotiation, negotiated, receivedUserInformation>>

(***************************************************************************)
(* The server answers an SNRM.  The limits are adopted first and the UA is *)
(* encoded under the new maximum, so a UA that does not fit leaves the     *)
(* session with the new limits and the SNRM still unanswered.              *)
(***************************************************************************)
Answer(e) == NegotiateParams(pendingNegotiation[e].params, LocalLimits(e))

UaBlock(e) == IF pendingNegotiation[e].form = "present" THEN Block(Answer(e)) ELSE NoBlock

ConnectResponseFrame(e) == Unnumbered(e, "UA", UaBlock(e), 0)

AdoptAnswer(e) ==
    IF pendingNegotiation[e].form = "present"
    THEN Adopt(e, ServerLimits(Answer(e)))
    ELSE UNCHANGED negotiated

UaFits(e) == CanBuild(e, InformationSize(UaBlock(e), 0), maximumInformationFieldSize'[e])

BuildConnectResponse(e) ==
    /\ Role(e) = "Server"
    /\ connectResponsePending[e]
    /\ AdoptAnswer(e)
    /\ UaFits(e)
    /\ state' = [state EXCEPT ![e] = "Connected"]
    /\ connectResponsePending' = [connectResponsePending EXCEPT ![e] = FALSE]
    /\ pendingNegotiation' = [pendingNegotiation EXCEPT ![e].form = "absent"]
    /\ ResetSequences(e)
    /\ UNCHANGED <<disconnectResponsePending, dmResponsePending, receivedUserInformation>>

BuildConnectResponseTooLarge(e) ==
    /\ Role(e) = "Server"
    /\ connectResponsePending[e]
    /\ AdoptAnswer(e)
    /\ ~UaFits(e)
    /\ UNCHANGED <<state, sequences, pending, pendingNegotiation, receivedUserInformation>>

(***************************************************************************)
(* Either side closes; the other answers; a server refuses.                *)
(***************************************************************************)
DiscFrame(e, user) == Unnumbered(e, "DISC", NoBlock, user)

BuildDisconnectRequest(e, user) ==
    /\ state[e] = "Connected"
    /\ CanBuild(e, user, maximumInformationFieldSize[e])
    /\ state' = [state EXCEPT ![e] = "AwaitingDisconnect"]
    /\ UNCHANGED <<sequences, pending, pendingNegotiation, negotiated, receivedUserInformation>>

DisconnectResponseFrame(e) == Unnumbered(e, "UA", NoBlock, 0)

BuildDisconnectResponse(e) ==
    /\ disconnectResponsePending[e]
    /\ CanBuild(e, 0, maximumInformationFieldSize[e])
    /\ state' = [state EXCEPT ![e] = "Disconnected"]
    /\ disconnectResponsePending' = [disconnectResponsePending EXCEPT ![e] = FALSE]
    /\ ResetSequences(e)
    /\ UNCHANGED <<connectResponsePending, dmResponsePending, pendingNegotiation,
                   negotiated, receivedUserInformation>>

DmFrame(e) == Unnumbered(e, "DM", NoBlock, 0)

BuildDmResponse(e) ==
    /\ dmResponsePending[e]
    /\ CanBuild(e, 0, maximumInformationFieldSize[e])
    /\ dmResponsePending' = [dmResponsePending EXCEPT ![e] = FALSE]
    /\ UNCHANGED <<state, sequences, connectResponsePending, disconnectResponsePending,
                   pendingNegotiation, negotiated, receivedUserInformation>>

(***************************************************************************)
(* Data transfer.                                                          *)
(***************************************************************************)
IFrame(e, size, payload) ==
    [kind |-> "I", destination |-> RemoteAddress(e), source |-> LocalAddress(e),
     ns |-> sendSequence[e], nr |-> receiveSequence[e], size |-> size, payload |-> payload]

BuildInformationFrame(e, size) ==
    /\ state[e] = "Connected"
    /\ CanSendInformationFrame(e)
    /\ CanBuild(e, size, maximumInformationFieldSize[e])
    /\ sendSequence' = [sendSequence EXCEPT ![e] = NextSequence(sendSequence[e])]
    /\ UNCHANGED <<state, receiveSequence, acknowledgeSequence, pending, pendingNegotiation,
                   negotiated, receivedUserInformation>>

\* Mutant: N(R) covers a frame that has not come.
EagerReceiveReadyFrame(e) ==
    [kind |-> "RR", destination |-> RemoteAddress(e), source |-> LocalAddress(e),
     nr |-> NextSequence(receiveSequence[e])]

ReceiveReadyFrame(e) ==
    [kind |-> "RR", destination |-> RemoteAddress(e), source |-> LocalAddress(e),
     nr |-> receiveSequence[e]]

BuildReceiveReadyFrame(e) ==
    /\ state[e] = "Connected"
    /\ CanBuild(e, 0, maximumInformationFieldSize[e])
    /\ UNCHANGED sessionVars

-----------------------------------------------------------------------------
(***************************************************************************)
(* ReceiveFrame.  A frame is accepted only when it is addressed to this    *)
(* endpoint and its handler's conditions hold; every early return leaves   *)
(* the session as it was, except that a malformed SNRM asks for a DM.      *)
(***************************************************************************)
Addressed(e, f) == f.destination = LocalAddress(e) /\ f.source = RemoteAddress(e)

\* Mutant: a full window cannot be acknowledged.
StrictAckInWindow(e, nr) == Distance(acknowledgeSequence[e], nr) < Outstanding(e)

\* N(R) lies within [V(A), V(S)] modulo 8.
AckInWindow(e, nr) == Distance(acknowledgeSequence[e], nr) <= Outstanding(e)

\* Mutant: N(S) is not compared with V(R).
UnorderedAcceptsInformation(e, f) == state[e] = "Connected" /\ AckInWindow(e, f.nr)

AcceptsInformation(e, f) ==
    /\ state[e] = "Connected"
    /\ f.ns = receiveSequence[e]
    /\ AckInWindow(e, f.nr)

AcceptsSupervisory(e, f) == state[e] = "Connected" /\ AckInWindow(e, f.nr)

\* Mutant: in any state.
AnyStateAcceptsSnrm(e) == Role(e) = "Server"

AcceptsSnrm(e) == Role(e) = "Server" /\ state[e] = "Disconnected"

\* Mutants: one of the two kinds of UA is overlooked; every UA connects.
DisconnectOnlyUaExpected(e) == state[e] = "AwaitingDisconnect"
ConnectOnlyUaExpected(e) == state[e] = "AwaitingConnection"
AlwaysUaConnects(e) == TRUE

UaExpected(e) == state[e] \in {"AwaitingConnection", "AwaitingDisconnect"}
UaConnects(e) == state[e] = "AwaitingConnection"

AcceptsUnnumbered(e, f) ==
    \/ f.kind = "SNRM" /\ AcceptsSnrm(e)
    \/ f.kind = "UA" /\ UaExpected(e)
    \/ f.kind = "DISC" /\ state[e] = "Connected"
    \/ f.kind = "DM"

Accepts(e, f) ==
    /\ Addressed(e, f)
    /\ \/ f.kind = "I" /\ AcceptsInformation(e, f)
       \/ f.kind \in SupervisoryKind /\ AcceptsSupervisory(e, f)
       \/ f.kind \in UnnumberedKind /\ AcceptsUnnumbered(e, f)

ReceiveInformationFrame(e, f) ==
    /\ f.kind = "I"
    /\ Accepts(e, f)
    /\ acknowledgeSequence' = [acknowledgeSequence EXCEPT ![e] = f.nr]
    /\ receiveSequence' = [receiveSequence EXCEPT ![e] = NextSequence(receiveSequence[e])]
    /\ UNCHANGED <<state, sendSequence, pending, pendingNegotiation, negotiated,
                   receivedUserInformation>>

\* The kind is decoded and then ignored: RNR, REJ and SREJ count as RR.
ReceiveSupervisoryFrame(e, f) ==
    /\ f.kind \in SupervisoryKind
    /\ Accepts(e, f)
    /\ acknowledgeSequence' = [acknowledgeSequence EXCEPT ![e] = f.nr]
    /\ UNCHANGED <<state, sendSequence, receiveSequence, pending, pendingNegotiation,
                   negotiated, receivedUserInformation>>

ReceiveSnrm(e, f) ==
    /\ f.kind = "SNRM"
    /\ Accepts(e, f)
    /\ f.block.form # "malformed"
    /\ pendingNegotiation' =
           [pendingNegotiation EXCEPT ![e] = IF f.block.form = "present"
                                             THEN f.block
                                             ELSE [@ EXCEPT !.form = "absent"]]
    /\ receivedUserInformation' = [receivedUserInformation EXCEPT ![e] = f.user]
    /\ connectResponsePending' = [connectResponsePending EXCEPT ![e] = TRUE]
    /\ ResetSequences(e)
    /\ UNCHANGED <<state, disconnectResponsePending, dmResponsePending, negotiated>>

ReceiveMalformedSnrm(e, f) ==
    /\ f.kind = "SNRM"
    /\ Accepts(e, f)
    /\ f.block.form = "malformed"
    /\ pendingNegotiation' = [pendingNegotiation EXCEPT ![e].form = "absent"]
    /\ receivedUserInformation' = [receivedUserInformation EXCEPT ![e] = 0]
    /\ dmResponsePending' = [dmResponsePending EXCEPT ![e] = TRUE]
    /\ UNCHANGED <<state, sequences, connectResponsePending, disconnectResponsePending,
                   negotiated>>

\* A UA whose block cannot be parsed still connects, without new limits.
ReceiveConnectUa(e, f) ==
    /\ f.kind = "UA"
    /\ Accepts(e, f)
    /\ UaConnects(e)
    /\ IF f.block.form = "present"
       THEN Adopt(e, ClientLimits(f.block.params))
       ELSE UNCHANGED negotiated
    /\ state' = [state EXCEPT ![e] = "Connected"]
    /\ ResetSequences(e)
    /\ UNCHANGED <<pending, pendingNegotiation, receivedUserInformation>>

ReceiveDisconnectUa(e, f) ==
    /\ f.kind = "UA"
    /\ Accepts(e, f)
    /\ state[e] = "AwaitingDisconnect"
    /\ state' = [state EXCEPT ![e] = "Disconnected"]
    /\ ResetSequences(e)
    /\ UNCHANGED <<pending, pendingNegotiation, negotiated, receivedUserInformation>>

ReceiveDisc(e, f) ==
    /\ f.kind = "DISC"
    /\ Accepts(e, f)
    /\ disconnectResponsePending' = [disconnectResponsePending EXCEPT ![e] = TRUE]
    /\ receivedUserInformation' =
           [receivedUserInformation EXCEPT ![e] = InformationSize(f.block, f.user)]
    /\ UNCHANGED <<state, sequences, connectResponsePending, dmResponsePending,
                   pendingNegotiation, negotiated>>

\* A DM ends whatever was going on, in every state; the pending responses stay.
ReceiveDm(e, f) ==
    /\ f.kind = "DM"
    /\ Accepts(e, f)
    /\ state' = [state EXCEPT ![e] = "Disconnected"]
    /\ ResetSequences(e)
    /\ UNCHANGED <<pending, pendingNegotiation, negotiated, receivedUserInformation>>

RejectFrame(e, f) ==
    /\ ~Accepts(e, f)
    /\ UNCHANGED sessionVars

ReceiveFrame(e, f) ==
    \/ ReceiveInformationFrame(e, f)
    \/ ReceiveSupervisoryFrame(e, f)
    \/ ReceiveSnrm(e, f)
    \/ ReceiveMalformedSnrm(e, f)
    \/ ReceiveConnectUa(e, f)
    \/ ReceiveDisconnectUa(e, f)
    \/ ReceiveDisc(e, f)
    \/ ReceiveDm(e, f)
    \/ RejectFrame(e, f)

-----------------------------------------------------------------------------
Step(e) ==
    \/ \E form \in ConnectRequestForms(e) : BuildConnectRequest(e, form)
    \/ BuildConnectResponse(e)
    \/ BuildConnectResponseTooLarge(e)
    \/ \E user \in UserSizes : BuildDisconnectRequest(e, user)
    \/ BuildDisconnectResponse(e)
    \/ BuildDmResponse(e)
    \/ \E size \in InfoSizes : BuildInformationFrame(e, size)
    \/ BuildReceiveReadyFrame(e)
    \/ \E f \in Arriving : ReceiveFrame(e, f)

Next == \E e \in Endpoint : Step(e)

Spec == Init /\ [][Next]_sessionVars

-----------------------------------------------------------------------------
(***************************************************************************)
(* Properties of one session, whatever the application and the peer do.    *)
(***************************************************************************)

\* Every field of HdlcSession keeps its type; the sequence variables stay
\* within three bits.
TypeOK ==
    /\ state \in [Endpoint -> SessionState]
    /\ sendSequence \in [Endpoint -> SequenceNumber]
    /\ receiveSequence \in [Endpoint -> SequenceNumber]
    /\ acknowledgeSequence \in [Endpoint -> SequenceNumber]
    /\ connectResponsePending \in [Endpoint -> BOOLEAN]
    /\ disconnectResponsePending \in [Endpoint -> BOOLEAN]
    /\ dmResponsePending \in [Endpoint -> BOOLEAN]
    /\ pendingNegotiation \in [Endpoint -> NegotiationBlock]
    /\ negotiatedLimits \in [Endpoint -> Limits]
    /\ windowSizeTransmit \in [Endpoint -> Nat]
    /\ maximumInformationFieldSize \in [Endpoint -> Nat]
    /\ receivedUserInformation \in [Endpoint -> Nat]

\* Outside a session the sequence variables are zero, whichever way
\* (SNRM, UA, DM, an answered DISC) led there: no handler may leave
\* a number of the old session to be used in the next one.
FreshOutsideSession ==
    \A e \in Endpoint : state[e] \in {"Disconnected", "AwaitingConnection"} =>
        sendSequence[e] = 0 /\ receiveSequence[e] = 0 /\ acknowledgeSequence[e] = 0

\* Only a disconnected server has an SNRM to answer (so a UA can never knock
\* an open session back to sequence number zero), and only a client waits for
\* a connection.
HandshakeRoles ==
    \A e \in Endpoint :
        /\ connectResponsePending[e] => Role(e) = "Server" /\ state[e] = "Disconnected"
        /\ state[e] = "AwaitingConnection" => Role(e) = "Client"

\* Whatever an SNRM proposes, a server never agrees to send or to receive more
\* than its own capability.
ServerWithinCapability ==
    \A e \in Endpoint : Role(e) = "Server" =>
        /\ negotiatedLimits[e].infoTransmit <= LocalLimits(e).infoTransmit
        /\ negotiatedLimits[e].infoReceive <= LocalLimits(e).infoReceive
        /\ negotiatedLimits[e].windowTransmit <= LocalLimits(e).windowTransmit
        /\ negotiatedLimits[e].windowReceive <= LocalLimits(e).windowReceive

\* Windows and information sizes are fixed for the length of a session: no
\* frame, late answer or failed method changes them between the UA that opens
\* it and its end.
LimitsKept(e) ==
    /\ state[e] \in {"Connected", "AwaitingDisconnect"}
    /\ state'[e] \in {"Connected", "AwaitingDisconnect"}
    => /\ negotiatedLimits'[e] = negotiatedLimits[e]
       /\ windowSizeTransmit'[e] = windowSizeTransmit[e]
       /\ maximumInformationFieldSize'[e] = maximumInformationFieldSize[e]

LimitsKeptByAll == \A e \in Endpoint : LimitsKept(e)

LimitsFixedInSession == [][LimitsKeptByAll]_sessionVars

============================================================================
