----------------------------- MODULE GoSession -----------------------------
(***************************************************************************)
(* The session of the Go port (golang/hdlc/session.go).  It keeps V(S) and *)
(* V(R) only: there is no window and no V(A), and a frame is accepted only *)
(* if its N(R) acknowledges everything sent.  It sends no DM and           *)
(* negotiates nothing.                                                     *)
(*                                                                         *)
(* A method that returns an error changes nothing, so it is no step.  The  *)
(* poll/final bit is left out: no method decides by it.                    *)
(***************************************************************************)
EXTENDS Integers

CONSTANTS
    Endpoint,
    Options,     \* by endpoint, the fixed configuration
    Address,
    Payload,
    Arriving     \* frames an open environment hands to ReceiveFrame

RoleSet == {"Client", "Server"}

ASSUME GoOptionsAssumption ==
    Options \in [Endpoint -> [role : RoleSet, clientAddress : Address, serverAddress : Address]]

VARIABLES
    state,
    sendSequence,
    receiveSequence,
    connectResponsePending,
    disconnectResponsePending

sequences == <<sendSequence, receiveSequence>>
pending == <<connectResponsePending, disconnectResponsePending>>
sessionVars == <<state, sequences, pending>>

SessionState == {"Disconnected", "AwaitingConnection", "Connected", "AwaitingDisconnect"}
SequenceNumber == 0 .. 7
SupervisoryKind == {"RR", "RNR", "REJ", "SREJ"}
UnnumberedKind == {"SNRM", "UA", "DISC", "DM", "FRMR", "UI"}

Frame ==
    [kind : {"I"}, destination : Address, source : Address,
     ns : SequenceNumber, nr : SequenceNumber, payload : Payload]
    \cup [kind : SupervisoryKind, destination : Address, source : Address, nr : SequenceNumber]
    \cup [kind : UnnumberedKind, destination : Address, source : Address]

ASSUME GoArrivingAssumption == Arriving \subseteq Frame

Role(e) == Options[e].role
LocalAddress(e) ==
    IF Role(e) = "Client" THEN Options[e].clientAddress ELSE Options[e].serverAddress
RemoteAddress(e) ==
    IF Role(e) = "Client" THEN Options[e].serverAddress ELSE Options[e].clientAddress

\* Mutant: the number is not masked.
UnmaskedNextSequence(n) == n + 1

NextSequence(n) == (n + 1) % 8

Init ==
    /\ state = [e \in Endpoint |-> "Disconnected"]
    /\ sendSequence = [e \in Endpoint |-> 0]
    /\ receiveSequence = [e \in Endpoint |-> 0]
    /\ connectResponsePending = [e \in Endpoint |-> FALSE]
    /\ disconnectResponsePending = [e \in Endpoint |-> FALSE]

\* Mutant: V(R) survives.
PartialEnter(e, s) ==
    /\ state' = [state EXCEPT ![e] = s]
    /\ sendSequence' = [sendSequence EXCEPT ![e] = 0]
    /\ UNCHANGED receiveSequence

\* Every change of state but the one that DISC makes starts the numbers anew.
Enter(e, s) ==
    /\ state' = [state EXCEPT ![e] = s]
    /\ sendSequence' = [sendSequence EXCEPT ![e] = 0]
    /\ receiveSequence' = [receiveSequence EXCEPT ![e] = 0]

-----------------------------------------------------------------------------
Unnumbered(e, kind) ==
    [kind |-> kind, destination |-> RemoteAddress(e), source |-> LocalAddress(e)]

BuildConnectRequest(e) ==
    /\ Role(e) = "Client"
    /\ state[e] = "Disconnected"
    /\ Enter(e, "AwaitingConnection")
    /\ UNCHANGED pending

BuildConnectResponse(e) ==
    /\ Role(e) = "Server"
    /\ connectResponsePending[e]
    /\ Enter(e, "Connected")
    /\ connectResponsePending' = [connectResponsePending EXCEPT ![e] = FALSE]
    /\ UNCHANGED disconnectResponsePending

BuildDisconnectRequest(e) ==
    /\ state[e] = "Connected"
    /\ state' = [state EXCEPT ![e] = "AwaitingDisconnect"]
    /\ UNCHANGED <<sequences, pending>>

BuildDisconnectResponse(e) ==
    /\ disconnectResponsePending[e]
    /\ Enter(e, "Disconnected")
    /\ disconnectResponsePending' = [disconnectResponsePending EXCEPT ![e] = FALSE]
    /\ UNCHANGED connectResponsePending

IFrame(e, payload) ==
    [kind |-> "I", destination |-> RemoteAddress(e), source |-> LocalAddress(e),
     ns |-> sendSequence[e], nr |-> receiveSequence[e], payload |-> payload]

\* Mutant: the number is used again.
RepeatingBuildInformationFrame(e) == state[e] = "Connected" /\ UNCHANGED sessionVars

BuildInformationFrame(e) ==
    /\ state[e] = "Connected"
    /\ sendSequence' = [sendSequence EXCEPT ![e] = NextSequence(@)]
    /\ UNCHANGED <<state, receiveSequence, pending>>

ReceiveReadyFrame(e) ==
    [kind |-> "RR", destination |-> RemoteAddress(e), source |-> LocalAddress(e),
     nr |-> receiveSequence[e]]

BuildReceiveReadyFrame(e) ==
    /\ state[e] = "Connected"
    /\ UNCHANGED sessionVars

-----------------------------------------------------------------------------
(***************************************************************************)
(* ReceiveFrame.                                                           *)
(***************************************************************************)
Addressed(e, f) == f.destination = LocalAddress(e) /\ f.source = RemoteAddress(e)

\* Mutant: any N(R).
AnyAcknowledgement(e, f) == TRUE

\* Everything sent has arrived.
AcknowledgesAll(e, f) == f.nr = sendSequence[e]

\* Mutant: a UA ends nothing.
NeverUa(e) == FALSE

AcceptsSnrm(e) == Role(e) = "Server" /\ state[e] = "Disconnected"
UaConnects(e) == state[e] = "AwaitingConnection"
UaDisconnects(e) == state[e] = "AwaitingDisconnect"

AcceptsInformation(e, f) == f.ns = receiveSequence[e] /\ AcknowledgesAll(e, f)

Accepts(e, f) ==
    /\ Addressed(e, f)
    /\ \/ f.kind = "I" /\ state[e] = "Connected" /\ AcceptsInformation(e, f)
       \/ f.kind \in SupervisoryKind /\ state[e] = "Connected" /\ AcknowledgesAll(e, f)
       \/ f.kind = "SNRM" /\ AcceptsSnrm(e)
       \/ f.kind = "UA" /\ (UaConnects(e) \/ UaDisconnects(e))
       \/ f.kind = "DISC" /\ state[e] = "Connected"
       \/ f.kind = "DM"

ReceiveInformationFrame(e, f) ==
    /\ f.kind = "I"
    /\ receiveSequence' = [receiveSequence EXCEPT ![e] = NextSequence(@)]
    /\ UNCHANGED <<state, sendSequence, pending>>

ReceiveSupervisoryFrame(e, f) ==
    /\ f.kind \in SupervisoryKind
    /\ UNCHANGED sessionVars

ReceiveSnrm(e, f) ==
    /\ f.kind = "SNRM"
    /\ Enter(e, state[e])
    /\ connectResponsePending' = [connectResponsePending EXCEPT ![e] = TRUE]
    /\ UNCHANGED disconnectResponsePending

ReceiveUa(e, f) ==
    /\ f.kind = "UA"
    /\ Enter(e, IF UaConnects(e) THEN "Connected" ELSE "Disconnected")
    /\ UNCHANGED pending

ReceiveDisc(e, f) ==
    /\ f.kind = "DISC"
    /\ disconnectResponsePending' = [disconnectResponsePending EXCEPT ![e] = TRUE]
    /\ UNCHANGED <<state, sequences, connectResponsePending>>

\* In every state; what is pending stays.
ReceiveDm(e, f) ==
    /\ f.kind = "DM"
    /\ Enter(e, "Disconnected")
    /\ UNCHANGED pending

ReceiveFrame(e, f) ==
    \/ /\ Accepts(e, f)
       /\ \/ ReceiveInformationFrame(e, f)
          \/ ReceiveSupervisoryFrame(e, f)
          \/ ReceiveSnrm(e, f)
          \/ ReceiveUa(e, f)
          \/ ReceiveDisc(e, f)
          \/ ReceiveDm(e, f)
    \/ ~Accepts(e, f) /\ UNCHANGED sessionVars

-----------------------------------------------------------------------------
Step(e) ==
    \/ BuildConnectRequest(e)
    \/ BuildConnectResponse(e)
    \/ BuildDisconnectRequest(e)
    \/ BuildDisconnectResponse(e)
    \/ BuildInformationFrame(e)
    \/ BuildReceiveReadyFrame(e)
    \/ \E f \in Arriving : ReceiveFrame(e, f)

Next == \E e \in Endpoint : Step(e)

Spec == Init /\ [][Next]_sessionVars

-----------------------------------------------------------------------------
(***************************************************************************)
(* Properties of one session, whatever the application and the peer do.    *)
(***************************************************************************)
\* Every field keeps its type; sequence numbers stay within three bits.
TypeOK ==
    /\ state \in [Endpoint -> SessionState]
    /\ sendSequence \in [Endpoint -> SequenceNumber]
    /\ receiveSequence \in [Endpoint -> SequenceNumber]
    /\ connectResponsePending \in [Endpoint -> BOOLEAN]
    /\ disconnectResponsePending \in [Endpoint -> BOOLEAN]

InSession(e) == state[e] \in {"Connected", "AwaitingDisconnect"}

\* A connection begins with zero numbers at whichever end: outside a session they
\* are zero already, though a UA or DM may end the session at any moment and
\* answers to an earlier SNRM or DISC may still be pending.
FreshOutsideSession ==
    \A e \in Endpoint : ~InSession(e) => sendSequence[e] = 0 /\ receiveSequence[e] = 0

\* Only a disconnected server has an SNRM to answer, so answering one never
\* resets the numbers of a running session; only a client awaits a connection.
HandshakeRoles ==
    \A e \in Endpoint :
        /\ connectResponsePending[e] => Role(e) = "Server" /\ state[e] = "Disconnected"
        /\ state[e] = "AwaitingConnection" => Role(e) = "Client"
=============================================================================
