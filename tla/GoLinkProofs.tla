---------------------------- MODULE GoLinkProofs ----------------------------
(***************************************************************************)
(* Theorems about the Go port: about one session in an open environment,   *)
(* for every set of endpoints, options and arriving frames, and about the  *)
(* link of two, for any number of messages, sessions and frames in flight  *)
(* and, where the duty of the applications allows them, of lost frames.    *)
(***************************************************************************)
EXTENDS GoLinkInvariant, TLAPS

\* That the numbers are fresh and who is in which state support each other: an
\* SNRM sets the numbers to zero where they are zero, and its answer, which does
\* the same, is due only while the session is disconnected.
SessionInv == TypeOK /\ FreshOutsideSession /\ HandshakeRoles

LEMMA NextSequenceType ==
    ASSUME NEW n \in SequenceNumber
    PROVE  NextSequence(n) \in SequenceNumber
BY DEF NextSequence, SequenceNumber

LEMMA EnterType ==
    ASSUME TypeOK, NEW e \in Endpoint, NEW s \in SessionState, Enter(e, s)
    PROVE  /\ state' \in [Endpoint -> SessionState]
           /\ sendSequence' \in [Endpoint -> SequenceNumber]
           /\ receiveSequence' \in [Endpoint -> SequenceNumber]
BY DEF TypeOK, Enter, SequenceNumber

LEMMA InitInv == Init => SessionInv
BY DEF Init, SessionInv, TypeOK, FreshOutsideSession, HandshakeRoles, SessionState,
       SequenceNumber

-----------------------------------------------------------------------------
(***************************************************************************)
(* What the application calls.                                             *)
(***************************************************************************)
LEMMA BuildInv ==
    ASSUME SessionInv, NEW e \in Endpoint,
           \/ BuildConnectRequest(e) \/ BuildConnectResponse(e)
           \/ BuildDisconnectRequest(e) \/ BuildDisconnectResponse(e)
           \/ BuildInformationFrame(e) \/ BuildReceiveReadyFrame(e)
    PROVE  SessionInv'
<1> USE DEF SessionInv, TypeOK, FreshOutsideSession, HandshakeRoles, InSession,
            SessionState, Role, pending, sequences
<1>1. CASE BuildConnectRequest(e)
    BY <1>1, EnterType DEF BuildConnectRequest, Enter
<1>2. CASE BuildConnectResponse(e)
    BY <1>2, EnterType DEF BuildConnectResponse, Enter
<1>3. CASE BuildDisconnectRequest(e)
    BY <1>3 DEF BuildDisconnectRequest
<1>4. CASE BuildDisconnectResponse(e)
    BY <1>4, EnterType DEF BuildDisconnectResponse, Enter
<1>5. CASE BuildInformationFrame(e)
    BY <1>5, NextSequenceType DEF BuildInformationFrame
<1>6. CASE BuildReceiveReadyFrame(e)
    BY <1>6 DEF BuildReceiveReadyFrame, sessionVars
<1> QED
    BY <1>1, <1>2, <1>3, <1>4, <1>5, <1>6

(***************************************************************************)
(* What arrives.                                                           *)
(***************************************************************************)
LEMMA ReceiveInv ==
    ASSUME SessionInv, NEW e \in Endpoint, NEW f, ReceiveFrame(e, f)
    PROVE  SessionInv'
<1> USE DEF SessionInv, TypeOK, FreshOutsideSession, HandshakeRoles, InSession,
            SessionState, Role, pending, sequences
<1>1. CASE UNCHANGED sessionVars
    BY <1>1 DEF sessionVars
<1>2. CASE Accepts(e, f) /\ ReceiveInformationFrame(e, f)
  <2>1. state[e] = "Connected"
    BY <1>2 DEF Accepts, ReceiveInformationFrame, SupervisoryKind
  <2> QED
    BY <1>2, <2>1, NextSequenceType DEF ReceiveInformationFrame
<1>3. CASE Accepts(e, f) /\ ReceiveSnrm(e, f)
  <2>1. AcceptsSnrm(e)
    BY <1>3 DEF Accepts, ReceiveSnrm, SupervisoryKind
  <2> QED
    BY <1>3, <2>1, EnterType DEF ReceiveSnrm, AcceptsSnrm, Enter
<1>4. CASE Accepts(e, f) /\ ReceiveUa(e, f)
  <2>1. UaConnects(e) \/ UaDisconnects(e)
    BY <1>4 DEF Accepts, ReceiveUa, SupervisoryKind
  <2> QED
    BY <1>4, <2>1, EnterType DEF ReceiveUa, UaConnects, UaDisconnects, Enter
<1>5. CASE Accepts(e, f) /\ ReceiveDisc(e, f)
    BY <1>5 DEF ReceiveDisc
<1>6. CASE ReceiveDm(e, f)
    BY <1>6, EnterType DEF ReceiveDm, Enter
<1> QED
    BY <1>1, <1>2, <1>3, <1>4, <1>5, <1>6 DEF ReceiveFrame, ReceiveSupervisoryFrame

LEMMA SessionInvariant == Spec => []SessionInv
<1>1. SessionInv /\ [Next]_sessionVars => SessionInv'
  <2>1. CASE UNCHANGED sessionVars
    BY <2>1 DEF SessionInv, TypeOK, FreshOutsideSession, HandshakeRoles, InSession, Role,
                sessionVars, sequences, pending
  <2>2. ASSUME SessionInv, NEW e \in Endpoint, Step(e)
        PROVE  SessionInv'
    BY <2>2, BuildInv, ReceiveInv DEF Step
  <2> QED
    BY <2>1, <2>2 DEF Next
<1> QED
    BY <1>1, InitInv, PTL DEF Spec

-----------------------------------------------------------------------------
\* Every field keeps its type; sequence numbers stay within three bits.
THEOREM TypeCorrect == Spec => []TypeOK
<1> QED
    BY SessionInvariant, PTL DEF SessionInv

\* Whatever frames arrive and whatever answers are still pending, a connection
\* begins with zero numbers at this end.
THEOREM FreshSessions == Spec => []FreshOutsideSession
<1> QED
    BY SessionInvariant, PTL DEF SessionInv

\* Only a disconnected server has an SNRM to answer, only a client waits for UA.
THEOREM RolesKept == Spec => []HandshakeRoles
<1> QED
    BY SessionInvariant, PTL DEF SessionInv

-----------------------------------------------------------------------------
(***************************************************************************)
(* The two ends, and the frames they write.                                *)
(***************************************************************************)
LEMMA TwoRoles ==
    ASSUME NEW e \in Endpoint
    PROVE  /\ Peer[e] \in Endpoint /\ Peer[e] # e /\ Peer[Peer[e]] = e
           /\ \A x \in Endpoint : x = e \/ x = Peer[e]
           /\ Role(e) \in {"Client", "Server"}
           /\ IsClient(Peer[e]) <=> ~IsClient(e)
           /\ Role(e) = "Server" <=> ~IsClient(e)
<1>1. \A x \in Endpoint : Role(x) \in {"Client", "Server"}
  BY GoOptionsAssumption DEF Role, RoleSet
<1> QED
  BY <1>1, GoLinkAssumption DEF IsClient

LEMMA AddressesMatch ==
    ASSUME NEW e \in Endpoint
    PROVE  /\ LocalAddress(e) \in Address /\ RemoteAddress(e) \in Address
           /\ LocalAddress(Peer[e]) = RemoteAddress(e)
           /\ RemoteAddress(Peer[e]) = LocalAddress(e)
<1>1. LocalAddress(e) \in Address /\ RemoteAddress(e) \in Address
  BY GoOptionsAssumption DEF LocalAddress, RemoteAddress
<1> QED
  BY <1>1, GoLinkAssumption, TwoRoles

LEMMA UnnumberedType ==
    ASSUME NEW e \in Endpoint, NEW kind \in UnnumberedKind
    PROVE  /\ Unnumbered(e, kind) \in Frame
           /\ Unnumbered(e, kind).kind = kind
           /\ Addressed(Peer[e], Unnumbered(e, kind))
BY AddressesMatch DEF Unnumbered, Frame, Addressed

LEMMA ReceiveReadyType ==
    ASSUME TypeOK, NEW e \in Endpoint
    PROVE  /\ ReceiveReadyFrame(e) \in Frame /\ ReceiveReadyFrame(e).kind = "RR"
           /\ ReceiveReadyFrame(e).nr = receiveSequence[e]
           /\ Addressed(Peer[e], ReceiveReadyFrame(e))
BY AddressesMatch DEF TypeOK, ReceiveReadyFrame, Frame, SupervisoryKind, Addressed

LEMMA IFrameType ==
    ASSUME TypeOK, NEW e \in Endpoint, NEW m \in Payload
    PROVE  /\ IFrame(e, m) \in Frame /\ IFrame(e, m).kind = "I"
           /\ IFrame(e, m).ns = sendSequence[e]
           /\ IFrame(e, m).nr = receiveSequence[e]
           /\ IFrame(e, m).payload = m
           /\ Addressed(Peer[e], IFrame(e, m))
BY AddressesMatch DEF TypeOK, IFrame, Frame, Addressed

-----------------------------------------------------------------------------
(***************************************************************************)
(* The wires.                                                              *)
(***************************************************************************)
LEMMA EmptySequence ==
    ASSUME NEW S, NEW q \in Seq(S)
    PROVE  Len(q) \in Nat /\ (Len(q) = 0 <=> q = <<>>)
OBVIOUS

LEMMA EmptyWire ==
    ASSUME WireType, NEW e \in Endpoint
    PROVE  Len(wire[e]) \in Nat /\ (wire[e] = <<>> <=> Len(wire[e]) = 0)
BY DEF WireType

LEMMA SendEffect ==
    ASSUME WireType, NEW e \in Endpoint, NEW f \in Frame, Send(e, f)
    PROVE  /\ WireType'
           /\ Len(wire'[e]) = Len(wire[e]) + 1
           /\ wire'[e][Len(wire[e]) + 1] = f
           /\ \A i \in 1 .. Len(wire[e]) : wire'[e][i] = wire[e][i]
           /\ wire'[Peer[e]] = wire[Peer[e]]
<1>1. wire[e] \in Seq(Frame) /\ wire \in [Endpoint -> Seq(Frame)]
  BY DEF WireType
<1>2. wire'[e] = Append(wire[e], f) /\ wire' \in [Endpoint -> Seq(Frame)]
  BY <1>1 DEF Send
<1>3. wire'[Peer[e]] = wire[Peer[e]]
  BY <1>1, TwoRoles DEF Send
<1> QED
  BY <1>1, <1>2, <1>3 DEF Send, WireType

LEMMA ShiftEffect ==
    ASSUME WireType, NEW e \in Endpoint, wire[e] # <<>>,
           wire' = [wire EXCEPT ![e] = Tail(@)]
    PROVE  /\ wire' \in [Endpoint -> Seq(Frame)]
           /\ Len(wire[e]) >= 1 /\ Head(wire[e]) = wire[e][1] /\ wire[e][1] \in Frame
           /\ Len(wire'[e]) = Len(wire[e]) - 1
           /\ Len(wire'[e]) \in Nat /\ (Len(wire'[e]) = 0 <=> wire'[e] = <<>>)
           /\ \A i \in 1 .. Len(wire'[e]) : wire'[e][i] = wire[e][i + 1]
           /\ wire'[Peer[e]] = wire[Peer[e]]
<1>1. wire[e] \in Seq(Frame) /\ wire \in [Endpoint -> Seq(Frame)]
  BY DEF WireType
<1>2. wire'[e] = Tail(wire[e])
  BY <1>1
<1>3. wire'[Peer[e]] = wire[Peer[e]]
  BY <1>1, TwoRoles
<1>4. Len(wire[e]) >= 1 /\ wire'[e] \in Seq(Frame)
  BY <1>1, <1>2
<1>5. Len(wire'[e]) \in Nat /\ (Len(wire'[e]) = 0 <=> wire'[e] = <<>>)
  BY <1>4, EmptySequence
<1> QED
  BY <1>1, <1>2, <1>3, <1>4, <1>5

LEMMA SendKeeps ==
    ASSUME WireType, NEW e \in Endpoint, NEW f \in Frame, Send(e, f), NEW k, NEW K, NEW n
    PROVE  /\ Carries(e, K) /\ f.kind \in K => Carries(e, K)'
           /\ Lacks(e, k) /\ f.kind # k => Lacks(e, k)'
           /\ Lacks(e, k) => Ends(e, k)'
           /\ Begins(e, k) /\ f.kind # k => Begins(e, k)'
           /\ Precedes(e, k, n) /\ f.kind = n => Precedes(e, k, n)'
           /\ Lacks(e, k) => Precedes(e, k, n)'
<1> DEFINE l == Len(wire[e])
<1>1. /\ l \in Nat /\ Len(wire'[e]) = l + 1 /\ wire'[e][l + 1] = f
      /\ \A i \in 1 .. l : wire'[e][i] = wire[e][i]
  BY SendEffect, EmptyWire
<1>2. \A i \in 1 .. l + 1 : i \in 1 .. l \/ i = l + 1
  BY <1>1
<1> HIDE DEF l
<1>3. Carries(e, K) /\ f.kind \in K => Carries(e, K)'
  BY <1>1, <1>2 DEF Carries, l
<1>4. /\ Lacks(e, k) /\ f.kind # k => Lacks(e, k)'
      /\ Lacks(e, k) => Ends(e, k)'
  BY <1>1, <1>2 DEF Lacks, Ends, l
<1>5. Begins(e, k) /\ f.kind # k => Begins(e, k)'
  BY <1>1, <1>2 DEF Begins, l
<1>6. /\ Precedes(e, k, n) /\ f.kind = n => Precedes(e, k, n)'
      /\ Lacks(e, k) => Precedes(e, k, n)'
  BY <1>1, <1>2 DEF Precedes, Lacks, l
<1> QED
  BY <1>3, <1>4, <1>5, <1>6

LEMMA ShiftKeeps ==
    ASSUME WireType, NEW e \in Endpoint, wire[e] # <<>>,
           wire' = [wire EXCEPT ![e] = Tail(@)], NEW k, NEW K, NEW n
    PROVE  /\ Carries(e, K) => Carries(e, K)' /\ wire[e][1].kind \in K
           /\ Lacks(e, k) => Lacks(e, k)'
           /\ Begins(e, k) => Begins(e, k)'
           /\ Ends(e, k) => Ends(e, k)'
           /\ Ends(e, k) /\ wire[e][1].kind = k => wire'[e] = <<>>
           /\ Precedes(e, k, n) => Precedes(e, k, n)'
           /\ Precedes(e, k, n) /\ wire[e][1].kind = k => Carries(e, {n})'
<1> DEFINE l == Len(wire'[e])
<1>1. /\ l \in Nat /\ Len(wire[e]) = l + 1 /\ wire'[e] \in Seq(Frame)
      /\ \A i \in 1 .. l : wire'[e][i] = wire[e][i + 1]
  <2>1. wire' \in [Endpoint -> Seq(Frame)] /\ l = Len(wire[e]) - 1 /\ Len(wire[e]) >= 1
    BY ShiftEffect
  <2>2. Len(wire[e]) \in Nat
    BY EmptyWire
  <2> QED
    BY <2>1, <2>2, ShiftEffect
<1>2. \A i \in 1 .. l : i + 1 \in 1 .. Len(wire[e]) /\ i \in 1 .. Len(wire[e])
  BY <1>1
<1>3. 1 \in 1 .. Len(wire[e]) /\ (l = 0 => wire'[e] = <<>>)
  BY <1>1
<1>4. Carries(e, K) => Carries(e, K)' /\ wire[e][1].kind \in K
  BY <1>1, <1>2, <1>3 DEF Carries
<1>5. Lacks(e, k) => Lacks(e, k)'
  BY <1>1, <1>2 DEF Lacks
<1>6. Begins(e, k) => Begins(e, k)'
  BY <1>1, <1>2 DEF Begins
<1>7. /\ Ends(e, k) => Ends(e, k)'
      /\ Ends(e, k) /\ wire[e][1].kind = k => wire'[e] = <<>>
  <2>1. ASSUME Ends(e, k), NEW i \in 1 .. l, wire'[e][i].kind = k PROVE i = l
    <3>1. wire[e][i + 1].kind = k
      BY <1>1, <2>1
    <3>2. i + 1 = l + 1
      BY <1>1, <1>2, <2>1, <3>1 DEF Ends
    <3> QED
      BY <1>1, <3>2
  <2>2. ASSUME Ends(e, k), wire[e][1].kind = k PROVE l = 0
    <3>1. 1 = Len(wire[e])
      BY <1>3, <2>2 DEF Ends
    <3> QED
      BY <1>1, <3>1
  <2> QED
    BY <1>3, <2>1, <2>2 DEF Ends
<1>8. Precedes(e, k, n) => Precedes(e, k, n)'
  <2> SUFFICES ASSUME Precedes(e, k, n), NEW i \in 1 .. l, NEW j \in 1 .. l,
                      i < j, wire'[e][i].kind = k
               PROVE  wire'[e][j].kind = n
    BY DEF Precedes
  <2>1. wire[e][i + 1].kind = k /\ i + 1 < j + 1
    BY <1>1
  <2> QED
    BY <1>1, <1>2, <2>1 DEF Precedes
<1>9. Precedes(e, k, n) /\ wire[e][1].kind = k => Carries(e, {n})'
  <2> SUFFICES ASSUME Precedes(e, k, n), wire[e][1].kind = k, NEW i \in 1 .. l
               PROVE  wire'[e][i].kind = n
    BY DEF Carries
  <2>1. 1 < i + 1
    BY <1>1
  <2> QED
    BY <1>1, <1>2, <1>3, <2>1 DEF Precedes
<1> QED
  BY <1>4, <1>5, <1>6, <1>7, <1>8, <1>9

LEMMA SameWireKeeps ==
    ASSUME NEW e \in Endpoint, wire'[e] = wire[e], NEW k, NEW K, NEW n
    PROVE  /\ Carries(e, K)' <=> Carries(e, K)
           /\ Lacks(e, k)' <=> Lacks(e, k)
           /\ Begins(e, k)' <=> Begins(e, k)
           /\ Ends(e, k)' <=> Ends(e, k)
           /\ Precedes(e, k, n)' <=> Precedes(e, k, n)
BY DEF Carries, Lacks, Ends, Begins, Precedes

\* The steps of the link are steps of one session, or of none.
LEMMA LinkStepSession ==
    ASSUME SessionInv, NEW e \in Endpoint, LinkStep(e)
    PROVE  SessionInv'
<1>1. CASE Deliver(e)
  BY <1>1, ReceiveInv DEF Deliver
<1>2. CASE Lose(e)
  <2>1. UNCHANGED sessionVars
    BY <1>2 DEF Lose
  <2> QED
    BY <2>1 DEF SessionInv, TypeOK, FreshOutsideSession, HandshakeRoles, InSession, Role,
                sessionVars, sequences, pending
<1>3. CASE Connect(e) \/ AcceptConnection(e) \/ Disconnect(e)
  BY <1>3, BuildInv DEF Connect, AcceptConnection, Disconnect
<1>4. CASE AnswerDisconnect(e) \/ SendMessage(e) \/ AcknowledgeReceipt(e)
  BY <1>4, BuildInv DEF AnswerDisconnect, SendMessage, AcknowledgeReceipt
<1> QED
  BY <1>1, <1>2, <1>3, <1>4 DEF LinkStep

LEMMA DeliverEffect ==
    ASSUME WireType, NEW e \in Endpoint, Deliver(e)
    PROVE  /\ wire[Peer[e]] # <<>>
           /\ WireType'
           /\ wire' = [wire EXCEPT ![Peer[e]] = Tail(@)]
           /\ Head(wire[Peer[e]]) = wire[Peer[e]][1]
           /\ wire[Peer[e]][1] \in Frame
           /\ ReceiveFrame(e, wire[Peer[e]][1])
           /\ Len(wire[Peer[e]]) >= 1
<1>1. Peer[e] \in Endpoint
  BY TwoRoles
<1>2. wire[Peer[e]] # <<>> /\ wire' = [wire EXCEPT ![Peer[e]] = Tail(@)] /\ losses' = losses
  BY DEF Deliver
<1>3. Head(wire[Peer[e]]) = wire[Peer[e]][1] /\ wire[Peer[e]][1] \in Frame
      /\ wire' \in [Endpoint -> Seq(Frame)] /\ Len(wire[Peer[e]]) >= 1
  BY <1>1, <1>2, ShiftEffect
<1>4. ReceiveFrame(e, wire[Peer[e]][1])
  BY <1>3 DEF Deliver
<1> QED
  BY <1>2, <1>3, <1>4 DEF WireType

-----------------------------------------------------------------------------
(***************************************************************************)
(* The state chart.  One lemma per action of the link; in each, the guard  *)
(* of the action leaves a few phases it can be taken in.                   *)
(***************************************************************************)
LEMMA InitPhases == LinkInit => Phases
<1> SUFFICES ASSUME LinkInit, NEW c \in Endpoint, IsClient(c) PROVE AtRest(c, Peer[c])
  BY DEF Phases, Phase
<1> QED
  BY TwoRoles DEF LinkInit, Init, AtRest, NoneDue

LEMMA ConnectPhases ==
    ASSUME TypeOK, WireType, Phases, NEW e \in Endpoint, Connect(e)
    PROVE  Phases'
<1> SUFFICES ASSUME NEW c \in Endpoint, IsClient(c) PROVE Phase(c, Peer[c])'
  BY DEF Phases, IsClient
<1> DEFINE s == Peer[c]
<1> DEFINE f == Unnumbered(e, "SNRM")
<1>0. BuildConnectRequest(e) /\ Send(e, f)
  BY DEF Connect
<1>1. c = e /\ s \in Endpoint /\ s # c
  BY <1>0, TwoRoles DEF BuildConnectRequest, IsClient
<1>2. /\ state[c] = "Disconnected" /\ state'[c] = "AwaitingConnection"
      /\ state'[s] = state[s] /\ session' = session /\ session < MaxSessions
      /\ UNCHANGED <<connectResponsePending, disconnectResponsePending>>
  BY <1>0, <1>1 DEF BuildConnectRequest, Enter, Connect, pending, TypeOK
<1>3. f \in Frame /\ f.kind = "SNRM"
  BY UnnumberedType DEF UnnumberedKind
<1> HIDE DEF f
<1>4. Len(wire'[c]) = Len(wire[c]) + 1 /\ wire'[s] = wire[s] /\ Len(wire[c]) \in Nat
  BY <1>0, <1>1, <1>3, SendEffect, EmptyWire
<1>5. CASE AtRest(c, s)
  <2>1. Carries(c, {"SNRM"}) /\ Len(wire[c]) = 0
    BY <1>5, EmptyWire DEF AtRest, Carries
  <2>2. Carries(c, {"SNRM"})'
    BY <1>0, <1>1, <1>3, <2>1, SendKeeps
  <2>3. Calling(c, s)'
    BY <1>2, <1>4, <1>5, <2>1, <2>2 DEF AtRest, NoneDue, Calling
  <2> QED
    BY <2>3 DEF Phase
<1>6. CASE ClientLeft(c, s)
  <2>1. /\ Carries(c, {"I", "RR", "DISC", "UA", "SNRM"})'
        /\ Ends(c, "SNRM")' /\ Precedes(c, "UA", "SNRM")'
    BY <1>0, <1>1, <1>2, <1>3, <1>6, SendKeeps DEF ClientLeft
  <2>2. ClientLeft(c, s)'
    BY <1>2, <1>4, <1>6, <2>1 DEF ClientLeft, NoneDue
  <2> QED
    BY <2>2 DEF Phase
<1> QED
  BY <1>2, <1>5, <1>6 DEF Phases, Phase, Calling, Opened, InUse, ClientClosing, ServerLeft

LEMMA AcceptPhases ==
    ASSUME TypeOK, WireType, HistoryType, Phases, NEW e \in Endpoint, AcceptConnection(e)
    PROVE  /\ Phases'
           /\ Calling(Peer[e], e) /\ wire[e] = <<>> /\ wire[Peer[e]] = <<>>
<1>1. connectResponsePending[e] /\ ~IsClient(e)
  BY DEF AcceptConnection, BuildConnectResponse, IsClient
<1>2. IsClient(Peer[e]) /\ Peer[e] \in Endpoint /\ Peer[e] # e /\ Peer[Peer[e]] = e
  BY <1>1, TwoRoles
<1> DEFINE c == Peer[e]
<1>3. Calling(c, e) /\ wire[e] = <<>> /\ wire[c] = <<>>
  BY <1>1, <1>2 DEF Phases, Phase, AtRest, Calling, Opened, InUse, ClientClosing, ServerLeft,
                    ClientLeft, NoneDue
<1>4. /\ state'[e] = "Connected" /\ state'[c] = state[c]
      /\ connectResponsePending'[e] = FALSE
      /\ connectResponsePending'[c] = connectResponsePending[c]
      /\ UNCHANGED disconnectResponsePending
  BY <1>2 DEF AcceptConnection, BuildConnectResponse, Enter, TypeOK
<1>5. Fresh(c)' /\ session' = session + 1
  BY <1>2 DEF AcceptConnection, Fresh
<1>6. /\ Len(wire'[e]) = 1 /\ wire'[e][1].kind = "UA" /\ wire'[c] = wire[c]
  <2> DEFINE f == Unnumbered(e, "UA")
  <2>1. Send(e, f) /\ Len(wire[e]) = 0
    BY <1>3, EmptyWire DEF AcceptConnection
  <2>2. f \in Frame /\ f.kind = "UA"
    BY UnnumberedType DEF UnnumberedKind
  <2> HIDE DEF f
  <2>3. /\ Len(wire'[e]) = 0 + 1 /\ wire'[e][0 + 1] = f
        /\ wire'[c] = wire[c]
    BY <2>1, <2>2, SendEffect
  <2> QED
    BY <2>2, <2>3
<1>7. Carries(e, {"I", "RR", "UA", "DISC"})' /\ Begins(e, "UA")' /\ Ends(e, "DISC")'
      /\ Lacks(e, "DISC")'
  BY <1>6 DEF Carries, Begins, Ends, Lacks
<1>8. Opened(c, e)'
  BY <1>3, <1>4, <1>5, <1>6, <1>7 DEF Calling, Opened, InSession, NoneDue, HistoryType
<1>9. \A x \in Endpoint : IsClient(x) => x = c
  BY <1>1, TwoRoles
<1> QED
  BY <1>2, <1>3, <1>8, <1>9 DEF Phases, Phase, IsClient

LEMMA DisconnectPhases ==
    ASSUME TypeOK, WireType, Phases, NEW e \in Endpoint, Disconnect(e)
    PROVE  Phases'
<1> SUFFICES ASSUME NEW c \in Endpoint, IsClient(c) PROVE Phase(c, Peer[c])'
  BY DEF Phases, IsClient
<1> DEFINE s == Peer[c]
<1> DEFINE f == Unnumbered(e, "DISC")
<1>0. BuildDisconnectRequest(e) /\ Send(e, f)
  BY DEF Disconnect
<1>1. (e = c \/ e = s) /\ s \in Endpoint /\ s # c /\ Peer[e] \in Endpoint /\ Peer[s] = c
  BY TwoRoles
<1>2. /\ state[e] = "Connected" /\ state'[e] = "AwaitingDisconnect"
      /\ state'[Peer[e]] = state[Peer[e]]
      /\ UNCHANGED <<connectResponsePending, disconnectResponsePending, session, messages>>
  BY <1>0, <1>1, TwoRoles DEF BuildDisconnectRequest, Disconnect, pending, TypeOK
<1>3. f \in Frame /\ f.kind = "DISC"
  BY UnnumberedType DEF UnnumberedKind
<1> HIDE DEF f
<1>4. wire'[Peer[e]] = wire[Peer[e]]
  BY <1>0, <1>3, SendEffect
<1>5. Phase(c, s)
  BY DEF Phases
<1>6. CASE e = c
  <2>1. InUse(c, s)
    BY <1>2, <1>5, <1>6
       DEF Phase, AtRest, Calling, Opened, ClientClosing, ServerLeft, ClientLeft
  <2>2. Lacks(c, "DISC")
    BY <2>1 DEF InUse, Carries, Lacks
  <2>3. Carries(c, {"I", "RR", "DISC"})
    BY <2>1 DEF InUse, Carries
  <2>4. Carries(c, {"I", "RR", "DISC"})' /\ Ends(c, "DISC")'
    BY <1>0, <1>3, <1>6, <2>2, <2>3, SendKeeps
  <2>5. /\ Carries(s, {"I", "RR", "DISC"})' /\ Ends(s, "DISC")'
        /\ state[s] = "Connected" => Lacks(s, "DISC")'
    BY <1>1, <1>4, <1>6, <2>1, SameWireKeeps DEF InUse
  <2>6. ClientClosing(c, s)'
    BY <1>2, <1>4, <1>6, <2>1, <2>4, <2>5
       DEF InUse, ClientClosing, messages, InSession, NoneDue
  <2> QED
    BY <2>6 DEF Phase
<1>7. CASE e = s
  <2>1. Opened(c, s) \/ InUse(c, s) \/ ClientClosing(c, s)
    BY <1>2, <1>5, <1>7 DEF Phase, AtRest, Calling, ServerLeft, ClientLeft
  <2>2. Lacks(s, "DISC")
    BY <1>2, <1>7, <2>1 DEF Opened, InUse, ClientClosing
  <2>3. Ends(s, "DISC")'
    BY <1>0, <1>3, <1>7, <2>2, SendKeeps
  <2>4. CASE Opened(c, s)
    <3>1. Carries(s, {"I", "RR", "UA", "DISC"})' /\ Begins(s, "UA")'
      BY <1>0, <1>3, <1>7, <2>4, SendKeeps DEF Opened
    <3>2. Opened(c, s)'
      BY <1>1, <1>2, <1>4, <1>7, <2>3, <2>4, <3>1
         DEF Opened, messages, Fresh, InSession, NoneDue
    <3> QED
      BY <3>2 DEF Phase
  <2>5. CASE InUse(c, s)
    <3>1. Carries(s, {"I", "RR", "DISC"})'
      BY <1>0, <1>3, <1>7, <2>5, SendKeeps DEF InUse
    <3>2. Carries(c, {"I", "RR"})'
      BY <1>1, <1>4, <1>7, <2>5, SameWireKeeps DEF InUse
    <3>3. InUse(c, s)'
      BY <1>1, <1>2, <1>4, <1>7, <2>3, <2>5, <3>1, <3>2 DEF InUse, messages, InSession, NoneDue
    <3> QED
      BY <3>3 DEF Phase
  <2>6. CASE ClientClosing(c, s)
    <3>1. Carries(s, {"I", "RR", "DISC"})'
      BY <1>0, <1>3, <1>7, <2>6, SendKeeps DEF ClientClosing
    <3>2. Carries(c, {"I", "RR", "DISC"})' /\ Ends(c, "DISC")'
      BY <1>1, <1>4, <1>7, <2>6, SameWireKeeps DEF ClientClosing
    <3>3. ClientClosing(c, s)'
      BY <1>1, <1>2, <1>4, <1>7, <2>3, <2>6, <3>1, <3>2 DEF ClientClosing, messages, InSession
    <3> QED
      BY <3>3 DEF Phase
  <2> QED
    BY <2>1, <2>4, <2>5, <2>6
<1> QED
  BY <1>1, <1>6, <1>7

LEMMA AnswerPhases ==
    ASSUME TypeOK, WireType, Phases, NEW e \in Endpoint, AnswerDisconnect(e)
    PROVE  Phases'
<1> SUFFICES ASSUME NEW c \in Endpoint, IsClient(c) PROVE Phase(c, Peer[c])'
  BY DEF Phases, IsClient
<1> DEFINE s == Peer[c]
           f == Unnumbered(e, "UA")
<1>0. BuildDisconnectResponse(e) /\ Send(e, f)
  BY DEF AnswerDisconnect
<1>1. (e = c \/ e = s) /\ s \in Endpoint /\ s # c /\ Peer[e] \in Endpoint /\ Peer[s] = c
  BY TwoRoles
<1>2. /\ disconnectResponsePending[e] /\ state'[e] = "Disconnected"
      /\ state'[Peer[e]] = state[Peer[e]]
      /\ disconnectResponsePending'[e] = FALSE
      /\ disconnectResponsePending'[Peer[e]] = disconnectResponsePending[Peer[e]]
      /\ UNCHANGED <<connectResponsePending, session, messages>>
  <2>1. BuildDisconnectResponse(e) /\ UNCHANGED <<session, messages>>
    BY DEF AnswerDisconnect
  <2> HIDE DEF f
  <2> QED
    BY <1>1, <2>1, TwoRoles DEF BuildDisconnectResponse, Enter, TypeOK
<1>3. f \in Frame /\ f.kind = "UA"
  BY UnnumberedType DEF UnnumberedKind
<1>4. wire'[Peer[e]] = wire[Peer[e]]
  BY <1>0, <1>3, SendEffect
<1>5. Phase(c, s)
  BY DEF Phases
<1> HIDE DEF f
<1>6. CASE e = c
  <2>1. /\ InUse(c, s) \/ ClientClosing(c, s)
        /\ state[s] = "AwaitingDisconnect" /\ wire[s] = <<>> /\ NoneDue(s)
        /\ ~connectResponsePending[c]
    BY <1>2, <1>5, <1>6 DEF Phase, AtRest, Calling, Opened, ServerLeft, ClientLeft, NoneDue,
                            InUse, ClientClosing
  <2>2. /\ Carries(c, {"I", "RR", "DISC", "UA", "SNRM"})
        /\ Lacks(c, "UA") /\ Lacks(c, "SNRM")
    BY <2>1 DEF InUse, ClientClosing, Carries, Lacks
  <2>3. /\ Carries(c, {"I", "RR", "DISC", "UA", "SNRM"})'
        /\ Precedes(c, "UA", "SNRM")' /\ Ends(c, "SNRM")' /\ Lacks(c, "SNRM")'
    BY <1>0, <1>3, <1>6, <2>2, SendKeeps
  <2>4. ClientLeft(c, s)'
    BY <1>2, <1>4, <1>6, <2>1, <2>3 DEF ClientLeft, NoneDue
  <2> QED
    BY <2>4 DEF Phase
<1>7. CASE e = s
  <2>1. ClientClosing(c, s) /\ wire[c] = <<>> /\ ~disconnectResponsePending[c]
    BY <1>2, <1>5, <1>7 DEF Phase, AtRest, Calling, Opened, ServerLeft, ClientLeft, NoneDue,
                            InUse, ClientClosing
  <2>2. Carries(s, {"I", "RR", "DISC", "UA"}) /\ Lacks(s, "UA")
    BY <2>1 DEF ClientClosing, Carries, Lacks
  <2>3. Carries(s, {"I", "RR", "DISC", "UA"})' /\ Ends(s, "UA")'
    BY <1>0, <1>3, <1>7, <2>2, SendKeeps
  <2>4. ServerLeft(c, s)'
    BY <1>1, <1>2, <1>4, <1>7, <2>1, <2>3 DEF ServerLeft, ClientClosing, NoneDue
  <2> QED
    BY <2>4 DEF Phase
<1> QED
  BY <1>1, <1>6, <1>7

\* An I-frame or an RR, written by a session that is Connected.
LEMMA SequencedPhases ==
    ASSUME TypeOK, WireType, Phases, NEW e \in Endpoint, state[e] = "Connected",
           NEW f \in Frame, Sequenced(f), Send(e, f),
           UNCHANGED <<state, connectResponsePending, disconnectResponsePending, session>>,
           sent'[Peer[e]] = sent[Peer[e]], UNCHANGED <<delivered, acknowledged>>
    PROVE  Phases'
<1> SUFFICES ASSUME NEW c \in Endpoint, IsClient(c) PROVE Phase(c, Peer[c])'
  BY DEF Phases, IsClient
<1> DEFINE s == Peer[c]
<1>1. (e = c \/ e = s) /\ s \in Endpoint /\ s # c /\ Peer[e] \in Endpoint /\ Peer[s] = c
  BY TwoRoles
<1>2. wire'[Peer[e]] = wire[Peer[e]] /\ f.kind \in {"I", "RR"}
  BY SendEffect DEF Sequenced
<1>3. Phase(c, s)
  BY DEF Phases
<1>4. CASE e = c
  <2>1. InUse(c, s)
    BY <1>3, <1>4 DEF Phase, AtRest, Calling, Opened, ClientClosing, ServerLeft, ClientLeft
  <2>2. Carries(c, {"I", "RR"})'
    BY <1>2, <1>4, <2>1, SendKeeps DEF InUse
  <2>3. /\ Carries(s, {"I", "RR", "DISC"})' /\ Ends(s, "DISC")'
        /\ state[s] = "Connected" => Lacks(s, "DISC")'
    BY <1>1, <1>2, <1>4, <2>1, SameWireKeeps DEF InUse
  <2>4. InUse(c, s)'
    BY <1>2, <1>4, <2>1, <2>2, <2>3 DEF InUse, InSession, NoneDue
  <2> QED
    BY <2>4 DEF Phase
<1>5. CASE e = s
  <2>1. Opened(c, s) \/ InUse(c, s) \/ ClientClosing(c, s)
    BY <1>3, <1>5 DEF Phase, AtRest, Calling, ServerLeft, ClientLeft
  <2>2. Lacks(s, "DISC")
    BY <1>5, <2>1 DEF Opened, InUse, ClientClosing
  <2>3. Lacks(s, "DISC")' /\ Ends(s, "DISC")'
    BY <1>2, <1>5, <2>2, SendKeeps
  <2>4. CASE Opened(c, s)
    <3>1. Carries(s, {"I", "RR", "UA", "DISC"})' /\ Begins(s, "UA")'
      BY <1>2, <1>5, <2>4, SendKeeps DEF Opened
    <3>2. Opened(c, s)'
      BY <1>1, <1>2, <1>5, <2>3, <2>4, <3>1 DEF Opened, Fresh, InSession, NoneDue
    <3> QED
      BY <3>2 DEF Phase
  <2>5. CASE InUse(c, s)
    <3>1. Carries(s, {"I", "RR", "DISC"})'
      BY <1>2, <1>5, <2>5, SendKeeps DEF InUse
    <3>2. Carries(c, {"I", "RR"})'
      BY <1>1, <1>2, <1>5, <2>5, SameWireKeeps DEF InUse
    <3>3. InUse(c, s)'
      BY <1>1, <1>2, <1>5, <2>3, <2>5, <3>1, <3>2 DEF InUse, InSession, NoneDue
    <3> QED
      BY <3>3 DEF Phase
  <2>6. CASE ClientClosing(c, s)
    <3>1. Carries(s, {"I", "RR", "DISC"})'
      BY <1>2, <1>5, <2>6, SendKeeps DEF ClientClosing
    <3>2. Carries(c, {"I", "RR", "DISC"})' /\ Ends(c, "DISC")'
      BY <1>1, <1>2, <1>5, <2>6, SameWireKeeps DEF ClientClosing
    <3>3. ClientClosing(c, s)'
      BY <1>1, <1>2, <1>5, <2>3, <2>6, <3>1, <3>2 DEF ClientClosing, InSession
    <3> QED
      BY <3>3 DEF Phase
  <2> QED
    BY <2>1, <2>4, <2>5, <2>6
<1> QED
  BY <1>1, <1>4, <1>5

\* A frame leaves the wire of x, and the sessions do not change.
LEMMA ShiftPhases ==
    ASSUME TypeOK, WireType, Phases, NEW x \in Endpoint, wire[x] # <<>>,
           wire' = [wire EXCEPT ![x] = Tail(@)],
           UNCHANGED <<state, connectResponsePending, disconnectResponsePending, session>>,
           \A c \in Endpoint : Opened(c, Peer[c]) => Fresh(c)'
    PROVE  Phases'
<1> SUFFICES ASSUME NEW c \in Endpoint, IsClient(c) PROVE Phase(c, Peer[c])'
  BY DEF Phases, IsClient
<1> DEFINE s == Peer[c]
<1>1. (x = c \/ x = s) /\ s \in Endpoint /\ s # c /\ Peer[x] \in Endpoint /\ Peer[s] = c
  BY TwoRoles
<1>2. wire'[Peer[x]] = wire[Peer[x]]
  BY ShiftEffect
<1>3. \A K : /\ Carries(c, K) => Carries(c, K)'
             /\ Carries(s, K) => Carries(s, K)'
  BY <1>1, <1>2, ShiftKeeps, SameWireKeeps
<1>4. \A k : /\ Ends(c, k) => Ends(c, k)'
             /\ Ends(s, k) => Ends(s, k)'
             /\ Lacks(c, k) => Lacks(c, k)'
             /\ Lacks(s, k) => Lacks(s, k)'
  BY <1>1, <1>2, ShiftKeeps, SameWireKeeps
<1>5. Begins(s, "UA") => Begins(s, "UA")'
  BY <1>1, <1>2, ShiftKeeps, SameWireKeeps
<1>6. Precedes(c, "UA", "SNRM") => Precedes(c, "UA", "SNRM")'
  BY <1>1, <1>2, ShiftKeeps, SameWireKeeps
<1>7. /\ wire[c] = <<>> => wire'[c] = <<>>
      /\ wire[s] = <<>> => wire'[s] = <<>>
      /\ Len(wire[c]) <= 1 => Len(wire'[c]) <= 1
  BY <1>1, <1>2, ShiftEffect, EmptyWire
<1>8. Phase(c, s)
  BY DEF Phases
<1>9. CASE AtRest(c, s)
  BY <1>1, <1>9 DEF AtRest
<1>10. CASE Calling(c, s)
  <2>1. Carries(c, {"SNRM"})'
    BY <1>3, <1>10 DEF Calling
  <2> QED
    BY <1>7, <1>10, <2>1 DEF Calling, NoneDue, Phase
<1>11. CASE Opened(c, s)
  <2>1. Carries(s, {"I", "RR", "UA", "DISC"})' /\ Fresh(c)'
    BY <1>3, <1>11 DEF Opened
  <2> QED
    BY <1>4, <1>5, <1>7, <1>11, <2>1 DEF Opened, NoneDue, InSession, Phase
<1>12. CASE InUse(c, s)
  <2>1. Carries(c, {"I", "RR"})' /\ Carries(s, {"I", "RR", "DISC"})'
    BY <1>3, <1>12 DEF InUse
  <2> QED
    BY <1>4, <1>7, <1>12, <2>1 DEF InUse, NoneDue, InSession, Phase
<1>13. CASE ClientClosing(c, s)
  <2>1. Carries(c, {"I", "RR", "DISC"})' /\ Carries(s, {"I", "RR", "DISC"})'
    BY <1>3, <1>13 DEF ClientClosing
  <2> QED
    BY <1>4, <1>7, <1>13, <2>1 DEF ClientClosing, InSession, Phase
<1>14. CASE ServerLeft(c, s)
  <2>1. Carries(s, {"I", "RR", "DISC", "UA"})'
    BY <1>3, <1>14 DEF ServerLeft
  <2> QED
    BY <1>4, <1>7, <1>14, <2>1 DEF ServerLeft, NoneDue, Phase
<1>15. CASE ClientLeft(c, s)
  <2>1. Carries(c, {"I", "RR", "DISC", "UA", "SNRM"})'
    BY <1>3, <1>15 DEF ClientLeft
  <2> QED
    BY <1>4, <1>6, <1>7, <1>15, <2>1 DEF ClientLeft, NoneDue, Phase
<1> QED
  BY <1>8, <1>9, <1>10, <1>11, <1>12, <1>13, <1>14, <1>15 DEF Phase

\* Every frame on a wire is of a kind that some phase allows.
LEMMA WireKinds ==
    ASSUME WireType, Phases, NEW e \in Endpoint
    PROVE  Carries(e, {"I", "RR", "DISC", "UA", "SNRM"})
<1>1. ASSUME NEW c \in Endpoint, IsClient(c)
      PROVE  /\ Carries(c, {"I", "RR", "DISC", "UA", "SNRM"})
             /\ Carries(Peer[c], {"I", "RR", "DISC", "UA", "SNRM"})
  <2>1. Phase(c, Peer[c])
    BY <1>1 DEF Phases
  <2>2. Peer[c] \in Endpoint
    BY TwoRoles
  <2>3. \A x \in Endpoint : wire[x] = <<>> => Carries(x, {"I", "RR", "DISC", "UA", "SNRM"})
    BY EmptyWire DEF Carries
  <2> QED
    BY <2>1, <2>2, <2>3 DEF Phase, AtRest, Calling, Opened, InUse, ClientClosing, ServerLeft,
                            ClientLeft, Carries
<1> QED
  BY <1>1, TwoRoles

\* Only a Connected session takes a numbered frame.
LEMMA DeliverHistory ==
    ASSUME WireType, HistoryType, NEW e \in Endpoint, Deliver(e)
    PROVE  /\ UNCHANGED <<session, sent>>
           /\ delivered'[Peer[e]] = delivered[Peer[e]]
           /\ acknowledged'[Peer[e]] = acknowledged[Peer[e]]
           /\ state[e] # "Connected" => UNCHANGED <<delivered, acknowledged>>
<1> DEFINE f == Head(wire[Peer[e]])
<1>1. Accepts(e, f) /\ f.kind \in SupervisoryKind \cup {"I"} => state[e] = "Connected"
  BY DEF Accepts, SupervisoryKind
<1> QED
  BY <1>1, TwoRoles DEF Deliver, HistoryType

LEMMA SnrmPhases ==
    ASSUME TypeOK, WireType, Phases, NEW s \in Endpoint, wire[Peer[s]] # <<>>,
           wire' = [wire EXCEPT ![Peer[s]] = Tail(@)],
           Accepts(s, wire[Peer[s]][1]), ReceiveSnrm(s, wire[Peer[s]][1]), UNCHANGED session
    PROVE  Phases'
<1> DEFINE c == Peer[s]
<1>1. Role(s) = "Server" /\ state[s] = "Disconnected" /\ wire[c][1].kind = "SNRM"
  BY DEF ReceiveSnrm, Accepts, AcceptsSnrm, SupervisoryKind
<1>2. /\ c \in Endpoint /\ c # s /\ Peer[c] = s /\ IsClient(c)
      /\ \A x \in Endpoint : IsClient(x) => x = c
  BY <1>1, TwoRoles
<1>3. /\ UNCHANGED <<state, disconnectResponsePending>>
      /\ connectResponsePending'[c] = connectResponsePending[c]
  BY <1>2 DEF ReceiveSnrm, Enter, TypeOK
<1>4. Carries(c, {"I", "RR", "DISC", "UA"}) => wire[c][1].kind \in {"I", "RR", "DISC", "UA"}
  BY <1>2, ShiftKeeps
<1>5. Calling(c, s)
  BY <1>1, <1>2, <1>4 DEF Phases, Phase, AtRest, Opened, InUse, ClientClosing, ServerLeft,
                          ClientLeft, InSession
<1>6. wire'[c] = <<>> /\ wire'[s] = wire[s] /\ Len(wire'[c]) = 0
  <2>1. Len(wire[c]) \in Nat /\ Len(wire[c]) <= 1
    BY <1>2, <1>5, EmptyWire DEF Calling
  <2>2. /\ Len(wire'[c]) = Len(wire[c]) - 1 /\ Len(wire'[c]) \in Nat
        /\ Len(wire'[c]) = 0 <=> wire'[c] = <<>>
        /\ wire'[s] = wire[s]
    BY <1>2, ShiftEffect
  <2> QED
    BY <2>1, <2>2
<1>7. Carries(c, {"SNRM"})'
  BY <1>6 DEF Carries
<1>8. Calling(c, s)'
  BY <1>3, <1>5, <1>6, <1>7 DEF Calling, NoneDue
<1> QED
  BY <1>2, <1>8 DEF Phases, Phase, IsClient

LEMMA ConnectUaPhases ==
    ASSUME TypeOK, SessionInv, WireType, Phases, NEW c \in Endpoint, wire[Peer[c]] # <<>>,
           wire' = [wire EXCEPT ![Peer[c]] = Tail(@)],
           UaConnects(c), ReceiveUa(c, wire[Peer[c]][1]), UNCHANGED session
    PROVE  Phases' /\ Opened(c, Peer[c]) /\ wire[c] = <<>>
<1> DEFINE s == Peer[c]
<1>1. state[c] = "AwaitingConnection" /\ wire[s][1].kind = "UA"
  BY DEF ReceiveUa, UaConnects
<1>2. /\ s \in Endpoint /\ c # s /\ Peer[s] = c /\ IsClient(c)
      /\ \A x \in Endpoint : IsClient(x) => x = c
  BY <1>1, TwoRoles DEF SessionInv, HandshakeRoles, IsClient
<1>3. /\ state'[c] = "Connected" /\ state'[s] = state[s]
      /\ UNCHANGED <<connectResponsePending, disconnectResponsePending>>
  BY <1>2 DEF ReceiveUa, Enter, pending, TypeOK
<1>4. Opened(c, s)
  BY <1>1, <1>2 DEF Phases, Phase, AtRest, Calling, InUse, ClientClosing, ServerLeft, ClientLeft
<1>5. wire[c] = <<>> /\ wire'[c] = wire[c]
  BY <1>2, <1>4, ShiftEffect DEF Opened
<1>6. Carries(c, {"I", "RR"})'
  BY <1>5 DEF Carries
<1>7. Carries(s, {"I", "RR", "DISC"})'
  <2>1. SUFFICES ASSUME NEW i \in 1 .. Len(wire'[s])
                 PROVE  wire'[s][i].kind \in {"I", "RR", "DISC"}
    BY DEF Carries
  <2>2. /\ Len(wire[s]) \in Nat /\ Len(wire'[s]) = Len(wire[s]) - 1
        /\ wire'[s][i] = wire[s][i + 1]
    BY <1>2, ShiftEffect, EmptyWire, ZenonT(30)
  <2>3. i + 1 \in 1 .. Len(wire[s]) /\ i + 1 # 1
    BY <2>2
  <2> QED
    BY <1>4, <2>2, <2>3 DEF Opened, Carries, Begins
<1>8. Ends(s, "DISC")' /\ (state[s] = "Connected" => Lacks(s, "DISC")')
  BY <1>2, <1>4, ShiftKeeps DEF Opened
<1>9. InUse(c, s)'
  BY <1>3, <1>4, <1>5, <1>6, <1>7, <1>8 DEF Opened, InUse, InSession, NoneDue
<1> QED
  BY <1>2, <1>4, <1>5, <1>9 DEF Phases, Phase, IsClient

LEMMA DisconnectUaPhases ==
    ASSUME TypeOK, WireType, Phases, NEW e \in Endpoint, wire[Peer[e]] # <<>>,
           wire' = [wire EXCEPT ![Peer[e]] = Tail(@)],
           UaDisconnects(e), ReceiveUa(e, wire[Peer[e]][1]), UNCHANGED session
    PROVE  Phases'
<1> SUFFICES ASSUME NEW c \in Endpoint, IsClient(c) PROVE Phase(c, Peer[c])'
  BY DEF Phases, IsClient
<1> DEFINE s == Peer[c]
<1>1. (e = c \/ e = s) /\ s \in Endpoint /\ s # c /\ Peer[e] \in Endpoint /\ Peer[s] = c
      /\ Peer[Peer[e]] = e
  BY TwoRoles
<1>2. state[e] = "AwaitingDisconnect" /\ wire[Peer[e]][1].kind = "UA"
  BY DEF ReceiveUa, UaDisconnects
<1>3. /\ state'[e] = "Disconnected" /\ state'[Peer[e]] = state[Peer[e]]
      /\ UNCHANGED <<connectResponsePending, disconnectResponsePending>>
  BY <1>1, TwoRoles DEF ReceiveUa, UaConnects, UaDisconnects, Enter, pending, TypeOK
<1>4. Phase(c, s) /\ wire'[e] = wire[e]
  BY <1>1, ShiftEffect DEF Phases
<1>5. \A K : Carries(Peer[e], K) => "UA" \in K
  BY <1>1, <1>2, ShiftKeeps
<1>6. ~Carries(Peer[e], {"I", "RR", "DISC"}) /\ ~Carries(Peer[e], {"I", "RR"})
  BY <1>5
<1>7. CASE e = c
  <2>1. ServerLeft(c, s)
    BY <1>2, <1>4, <1>6, <1>7
       DEF Phase, AtRest, Calling, Opened, InUse, ClientClosing, ClientLeft
  <2>2. wire'[s] = <<>>
    BY <1>1, <1>2, <1>7, <2>1, ShiftKeeps DEF ServerLeft
  <2>3. AtRest(c, s)'
    BY <1>3, <1>4, <1>7, <2>1, <2>2 DEF ServerLeft, AtRest, NoneDue
  <2> QED
    BY <2>3 DEF Phase
<1>8. CASE e = s
  <2>1. ClientLeft(c, s)
    BY <1>1, <1>2, <1>4, <1>6, <1>8
       DEF Phase, AtRest, Calling, Opened, InUse, ClientClosing, ServerLeft, InSession
  <2>2. /\ Carries(c, {"SNRM"})' /\ Ends(c, "SNRM")'
        /\ state[c] = "Disconnected" => Lacks(c, "SNRM")'
    BY <1>1, <1>2, <1>8, <2>1, ShiftKeeps DEF ClientLeft
  <2>3. Len(wire'[c]) \in Nat /\ (Len(wire'[c]) = 0 => wire'[c] = <<>>)
    BY <1>1, <1>8, ShiftEffect
  <2>4. Len(wire'[c]) <= 1
    <3>1. CASE Len(wire'[c]) >= 2
      <4> DEFINE l == Len(wire'[c])
      <4> l \in Nat /\ l >= 2
        BY <2>3, <3>1
      <4> HIDE DEF l
      <4>1. 1 \in 1 .. l /\ 1 # l
        OBVIOUS
      <4>2. wire'[c][1].kind = "SNRM"
        BY <2>2, <4>1 DEF Carries, l
      <4> QED
        BY <2>2, <4>1, <4>2 DEF Ends, l
    <3> QED
      BY <2>3, <3>1
  <2>5. state[c] = "Disconnected" => wire'[c] = <<>>
    <3>1. ASSUME Lacks(c, "SNRM")', Len(wire'[c]) >= 1 PROVE FALSE
      <4>1. 1 \in 1 .. Len(wire'[c])
        BY <2>3, <3>1
      <4> QED
        BY <2>2, <3>1, <4>1 DEF Carries, Lacks
    <3> QED
      BY <2>2, <2>3, <3>1
  <2>6. CASE state[c] = "Disconnected"
    <3>1. AtRest(c, s)'
      BY <1>1, <1>3, <1>4, <1>8, <2>1, <2>5, <2>6 DEF ClientLeft, AtRest, NoneDue
    <3> QED
      BY <3>1 DEF Phase
  <2>7. CASE state[c] = "AwaitingConnection"
    <3>1. Calling(c, s)'
      BY <1>1, <1>3, <1>4, <1>8, <2>1, <2>2, <2>4, <2>7 DEF ClientLeft, Calling, NoneDue
    <3> QED
      BY <3>1 DEF Phase
  <2> QED
    BY <2>1, <2>6, <2>7 DEF ClientLeft
<1> QED
  BY <1>1, <1>7, <1>8

LEMMA DiscPhases ==
    ASSUME TypeOK, WireType, Phases, NEW e \in Endpoint, wire[Peer[e]] # <<>>,
           wire' = [wire EXCEPT ![Peer[e]] = Tail(@)],
           Accepts(e, wire[Peer[e]][1]), ReceiveDisc(e, wire[Peer[e]][1]), UNCHANGED session
    PROVE  Phases'
<1> SUFFICES ASSUME NEW c \in Endpoint, IsClient(c) PROVE Phase(c, Peer[c])'
  BY DEF Phases, IsClient
<1> DEFINE s == Peer[c]
<1>1. (e = c \/ e = s) /\ s \in Endpoint /\ s # c /\ Peer[e] \in Endpoint /\ Peer[s] = c
      /\ Peer[Peer[e]] = e
  BY TwoRoles
<1>2. state[e] = "Connected" /\ wire[Peer[e]][1].kind = "DISC"
  BY DEF ReceiveDisc, Accepts, SupervisoryKind
<1>3. /\ UNCHANGED <<state, connectResponsePending>>
      /\ disconnectResponsePending'[e] = TRUE
      /\ disconnectResponsePending'[Peer[e]] = disconnectResponsePending[Peer[e]]
  <2>1. /\ UNCHANGED <<state, connectResponsePending>>
        /\ disconnectResponsePending' = [disconnectResponsePending EXCEPT ![e] = TRUE]
    BY DEF ReceiveDisc
  <2>2. disconnectResponsePending \in [Endpoint -> BOOLEAN]
    BY DEF TypeOK
  <2>3. Peer[e] # e /\ Peer[e] \in Endpoint
    BY TwoRoles
  <2>4. disconnectResponsePending'[e] = TRUE
    BY <2>1, <2>2
  <2>5. disconnectResponsePending'[Peer[e]] = disconnectResponsePending[Peer[e]]
    BY <2>1, <2>2, <2>3
  <2> QED
    BY <2>1, <2>4, <2>5
<1>4. Phase(c, s) /\ wire'[e] = wire[e]
  BY <1>1, ShiftEffect DEF Phases
<1>5. CASE e = c
  <2>1. InUse(c, s)
    BY <1>2, <1>4, <1>5
       DEF Phase, AtRest, Calling, Opened, ClientClosing, ServerLeft, ClientLeft
  <2>2. state[s] = "AwaitingDisconnect"
    <3>1. ~Lacks(s, "DISC")
      BY <1>1, <1>2, <1>5, ShiftEffect DEF Lacks
    <3> QED
      BY <2>1, <3>1 DEF InUse, InSession
  <2>3. wire'[s] = <<>>
    BY <1>1, <1>2, <1>5, <2>1, ShiftKeeps DEF InUse
  <2>4. /\ Carries(s, {"I", "RR", "DISC"})' /\ Ends(s, "DISC")' /\ Carries(c, {"I", "RR"})'
    BY <1>1, <1>4, <1>5, <2>1, ShiftKeeps, SameWireKeeps DEF InUse
  <2>5. InUse(c, s)'
    BY <1>1, <1>3, <1>5, <2>1, <2>2, <2>3, <2>4 DEF InUse, InSession, NoneDue
  <2> QED
    BY <2>5 DEF Phase
<1>6. CASE e = s
  <2>1. ClientClosing(c, s)
    <3>1. \A K : Carries(c, K) => "DISC" \in K
      BY <1>1, <1>2, <1>6, ShiftKeeps
    <3>2. ~Carries(c, {"I", "RR"}) /\ wire[c] # <<>>
      BY <1>1, <1>6, <3>1
    <3> QED
      BY <1>2, <1>4, <1>6, <3>2
         DEF Phase, AtRest, Calling, Opened, InUse, ServerLeft, ClientLeft
  <2>2. wire'[c] = <<>>
    BY <1>1, <1>2, <1>6, <2>1, ShiftKeeps DEF ClientClosing
  <2>3. /\ Carries(c, {"I", "RR", "DISC"})' /\ Ends(c, "DISC")'
    BY <1>1, <1>6, <2>1, ShiftKeeps DEF ClientClosing
  <2>4. /\ Carries(s, {"I", "RR", "DISC"})' /\ Ends(s, "DISC")' /\ Lacks(s, "DISC")'
    BY <1>1, <1>2, <1>4, <1>6, <2>1, SameWireKeeps DEF ClientClosing
  <2>5. ClientClosing(c, s)'
    BY <1>1, <1>2, <1>3, <1>6, <2>1, <2>2, <2>3, <2>4 DEF ClientClosing, InSession
  <2> QED
    BY <2>5 DEF Phase
<1> QED
  BY <1>1, <1>5, <1>6

LEMMA DeliverPhases ==
    ASSUME SessionInv, WireType, HistoryType, Phases, NEW e \in Endpoint, Deliver(e)
    PROVE  Phases'
<1> DEFINE x == Peer[e]
           f == wire[x][1]
<1>1. x \in Endpoint /\ x # e /\ Peer[x] = e /\ TypeOK
  BY TwoRoles DEF SessionInv
<1>2. /\ wire[x] # <<>> /\ wire' = [wire EXCEPT ![x] = Tail(@)]
      /\ f \in Frame /\ ReceiveFrame(e, f)
  BY DeliverEffect
<1>3. UNCHANGED session /\ (state[e] # "Connected" => UNCHANGED <<delivered, acknowledged>>)
      /\ sent' = sent /\ delivered'[x] = delivered[x] /\ acknowledged'[x] = acknowledged[x]
  BY DeliverHistory
<1>4. f.kind \in {"I", "RR", "DISC", "UA", "SNRM"}
  BY <1>1, <1>2, WireKinds, ShiftKeeps
<1>5. \A c \in Endpoint : Opened(c, Peer[c]) => Fresh(c)'
  <2> SUFFICES ASSUME NEW c \in Endpoint, Opened(c, Peer[c]) PROVE Fresh(c)'
    OBVIOUS
  <2>1. c = e \/ c = x
    BY TwoRoles
  <2>2. Fresh(c) /\ state[c] = "AwaitingConnection"
    BY DEF Opened
  <2> QED
    BY <1>3, <2>1, <2>2 DEF Fresh
<1> HIDE DEF f
<1>6. CASE UNCHANGED <<state, connectResponsePending, disconnectResponsePending>>
  BY <1>1, <1>2, <1>3, <1>5, <1>6, ShiftPhases
<1>7. CASE Accepts(e, f) /\ ReceiveSnrm(e, f)
  BY <1>1, <1>2, <1>3, <1>7, SnrmPhases DEF f
<1>8. CASE Accepts(e, f) /\ ReceiveUa(e, f)
  <2>1. UaConnects(e) \/ UaDisconnects(e)
    BY <1>8 DEF Accepts, ReceiveUa, SupervisoryKind
  <2>2. CASE UaConnects(e)
    BY <1>1, <1>2, <1>3, <1>8, <2>2, ConnectUaPhases DEF f
  <2>3. CASE UaDisconnects(e)
    BY <1>1, <1>2, <1>3, <1>8, <2>3, DisconnectUaPhases DEF f
  <2> QED
    BY <2>1, <2>2, <2>3
<1>9. CASE Accepts(e, f) /\ ReceiveDisc(e, f)
  BY <1>1, <1>2, <1>3, <1>9, DiscPhases DEF f
<1>10. CASE ReceiveInformationFrame(e, f) \/ ReceiveSupervisoryFrame(e, f)
  BY <1>6, <1>10 DEF ReceiveInformationFrame, ReceiveSupervisoryFrame, sessionVars, pending
<1>11. CASE UNCHANGED sessionVars
  BY <1>6, <1>11 DEF sessionVars, pending
<1>12. CASE ReceiveDm(e, f)
  BY <1>4, <1>12 DEF ReceiveDm
<1> QED
  BY <1>2, <1>7, <1>8, <1>9, <1>10, <1>11, <1>12 DEF ReceiveFrame

\* What a session sends is a message of the bounded set.
LEMMA MessageInBounds ==
    ASSUME HistoryType, Phases, NEW e \in Endpoint, state[e] = "Connected",
           Len(sent[e]) < MaxMessages[e]
    PROVE  <<session, Len(sent[e]) + 1>> \in Payload /\ session > 0
<1>1. session > 0
  <2>1. PICK c \in Endpoint : IsClient(c) /\ (e = c \/ e = Peer[c])
    BY TwoRoles
  <2> QED
    BY <2>1 DEF Phases, Phase, AtRest, Calling, Opened, InUse, ClientClosing, ServerLeft,
                ClientLeft
<1>2. session \in 1 .. MaxSessions
  BY <1>1, GoLinkAssumption DEF HistoryType
<1>3. sent[e] \in Seq(Payload) /\ MaxMessages[e] \in Nat
  BY GoLinkAssumption DEF HistoryType
<1>4. Len(sent[e]) + 1 \in 1 .. MaxMessages[e]
  BY <1>3
<1> QED
  BY <1>1, <1>2, <1>4, GoLinkAssumption

LEMMA StepPhases ==
    ASSUME SessionInv, WireType, HistoryType, Phases, NEW e \in Endpoint, LinkStep(e)
    PROVE  Phases'
<1>0. TypeOK
  BY DEF SessionInv
<1>1. CASE Connect(e)
  BY <1>0, <1>1, ConnectPhases
<1>2. CASE AcceptConnection(e)
  BY <1>0, <1>2, AcceptPhases
<1>3. CASE Disconnect(e)
  BY <1>0, <1>3, DisconnectPhases
<1>4. CASE AnswerDisconnect(e)
  BY <1>0, <1>4, AnswerPhases
<1>5. CASE SendMessage(e)
  <2> DEFINE m == <<session, Len(sent[e]) + 1>>
             f == IFrame(e, m)
  <2>1. BuildInformationFrame(e) /\ Send(e, f)
    BY <1>5 DEF SendMessage
  <2>2. /\ state[e] = "Connected"
        /\ UNCHANGED <<state, connectResponsePending, disconnectResponsePending>>
    BY <2>1 DEF BuildInformationFrame, pending
  <2>3. sent'[Peer[e]] = sent[Peer[e]] /\ UNCHANGED <<session, delivered, acknowledged>>
    BY <1>5, TwoRoles DEF SendMessage, HistoryType
  <2>4. m \in Payload
    BY <1>5, <2>2, MessageInBounds DEF SendMessage
  <2>5. f \in Frame /\ Sequenced(f)
    BY <1>0, <2>4, IFrameType DEF Sequenced
  <2> HIDE DEF f
  <2> QED
    BY <1>0, <2>1, <2>2, <2>3, <2>5, SequencedPhases
<1>6. CASE AcknowledgeReceipt(e)
  <2> DEFINE f == ReceiveReadyFrame(e)
  <2>1. BuildReceiveReadyFrame(e) /\ Send(e, f) /\ UNCHANGED <<session, messages>>
    BY <1>6 DEF AcknowledgeReceipt
  <2>2. f \in Frame /\ Sequenced(f)
    BY <1>0, ReceiveReadyType DEF Sequenced
  <2> HIDE DEF f
  <2>3. /\ state[e] = "Connected"
        /\ UNCHANGED <<state, connectResponsePending, disconnectResponsePending>>
        /\ UNCHANGED <<session, sent, delivered, acknowledged>>
    BY <2>1 DEF BuildReceiveReadyFrame, sessionVars, pending, messages
  <2> QED
    BY <1>0, <2>1, <2>2, <2>3, SequencedPhases
<1>7. CASE Deliver(e)
  BY <1>7, DeliverPhases
<1>8. CASE Lose(e)
  <2>1. /\ wire[e] # <<>> /\ wire' = [wire EXCEPT ![e] = Tail(@)]
        /\ UNCHANGED <<state, connectResponsePending, disconnectResponsePending, session,
                       sent, delivered, acknowledged>>
    BY <1>8 DEF Lose, sessionVars, pending, messages
  <2>2. \A c \in Endpoint : Opened(c, Peer[c]) => Fresh(c)'
    BY <2>1 DEF Opened, Fresh
  <2> QED
    BY <1>0, <2>1, <2>2, ShiftPhases
<1> QED
  BY <1>1, <1>2, <1>3, <1>4, <1>5, <1>6, <1>7, <1>8 DEF LinkStep

-----------------------------------------------------------------------------
(***************************************************************************)
(* The numbers.  First what a frame at the head of a wire says.            *)
(***************************************************************************)
LEMMA SameRemainder ==
    ASSUME NEW a \in Nat, NEW b \in Nat, a <= b, b <= a + 7, a % 8 = b % 8
    PROVE  a = b
OBVIOUS

LEMMA NextRemainder ==
    ASSUME NEW a \in Nat
    PROVE  NextSequence(a % 8) = (a + 1) % 8
BY DEF NextSequence

LEMMA CountsType ==
    ASSUME HistoryType, NEW e \in Endpoint
    PROVE  /\ Len(sent[e]) \in Nat /\ Len(delivered[e]) \in Nat /\ acknowledged[e] \in Nat
           /\ Peer[e] \in Endpoint
BY TwoRoles DEF HistoryType

\* Between ends that listen, the first message on a half-duplex line is the next one.
LEMMA NextOnLine ==
    ASSUME HistoryType, WireType, NEW e \in Endpoint, MessagesAt(Peer[e], e),
           Complete(e, Peer[e]),
           wire[Peer[e]] # <<>>, wire[Peer[e]][1].kind = "I"
    PROVE  wire[Peer[e]][1].payload = <<session, Len(delivered[e]) + 1>>
<1> DEFINE x == Peer[e]
           w == wire[x]
           d == Len(delivered[e])
           n == Len(sent[x])
<1>1. x \in Endpoint /\ Peer[x] = e /\ d \in Nat /\ n \in Nat
  BY CountsType, TwoRoles
<1>2. Len(w) \in Nat /\ 1 \in 1 .. Len(w)
  BY <1>1, EmptyWire
<1>3. PICK j \in d + 1 .. n : w[1].payload = <<session, j>>
  BY <1>1, <1>2 DEF MessagesAt, MessagesOn
<1>4. d + 1 \in d + 1 .. n
  BY <1>1, <1>3
<1>5. PICK i \in 1 .. Len(w) : w[i].kind = "I" /\ w[i].payload[2] = d + 1
  BY <1>4 DEF Complete, CompleteOn
<1>6. 1 < i /\ w[1].kind = "I" /\ w[i].kind = "I" => w[1].payload[2] < w[i].payload[2]
  BY <1>1, <1>2 DEF MessagesAt, MessagesOn
<1> HIDE DEF w, d, n
<1>7. j = d + 1
  BY <1>1, <1>2, <1>3, <1>5, <1>6 DEF w
<1> QED
  BY <1>3, <1>7 DEF w, d

\* What a session takes is the next message of its peer, and an N(R) it takes
\* counts what the peer has been given.
LEMMA TakenCounts ==
    ASSUME HistoryType, WireType, Phases, Numbers, NEW e \in Endpoint, wire[Peer[e]] # <<>>,
           Sequenced(wire[Peer[e]][1]), Accepts(e, wire[Peer[e]][1])
    PROVE  LET f == wire[Peer[e]][1]
           IN  /\ state[e] = "Connected"
               /\ f.nr = Len(sent[e]) % 8
               /\ Len(delivered[Peer[e]]) = Len(sent[e])
               /\ f.kind = "I" =>
                     /\ f.payload = <<session, Len(delivered[e]) + 1>>
                     /\ Len(delivered[e]) < Len(sent[Peer[e]])
<1> DEFINE x == Peer[e]
           f == wire[x][1]
<1>1. /\ x \in Endpoint /\ Peer[x] = e
      /\ Len(sent[e]) \in Nat /\ Len(delivered[e]) \in Nat /\ acknowledged[e] \in Nat
      /\ Len(sent[x]) \in Nat /\ Len(delivered[x]) \in Nat /\ acknowledged[x] \in Nat
  BY CountsType, TwoRoles
<1>2. 1 \in 1 .. Len(wire[x])
  BY <1>1, EmptyWire
<1>3. NumbersAt(e) /\ NumbersAt(x)
  BY <1>1 DEF Numbers
<1>4. /\ state[e] = "Connected" /\ f.nr = sendSequence[e]
      /\ f.kind = "I" => f.ns = receiveSequence[e]
  BY DEF Accepts, Sequenced, AcceptsInformation, AcknowledgesAll, SupervisoryKind
<1>5. /\ f.nr = Len(sent[e]) % 8 /\ (f.kind = "I" => f.ns = Len(delivered[e]) % 8)
      /\ acknowledged[e] <= Len(delivered[x]) /\ Len(delivered[x]) <= Len(sent[e])
      /\ acknowledged[x] <= Len(delivered[e]) /\ Len(delivered[e]) <= Len(sent[x])
  BY <1>1, <1>3, <1>4 DEF NumbersAt, SequencesAt, HistoryAt, InSession
<1>6. f.kind = "I" => \E j \in Len(delivered[e]) + 1 .. Len(sent[x]) : f.payload = <<session, j>>
  BY <1>1, <1>2, <1>3 DEF NumbersAt, MessagesAt, MessagesOn
<1>7. f.kind = "I" => Len(delivered[e]) < Len(sent[x])
  BY <1>1, <1>6
<1>8. CASE duty = "AwaitAcknowledgement"
  <2>1. AwaitAt(e, x) /\ AwaitAt(x, e)
    BY <1>1, <1>3, <1>8 DEF NumbersAt
  <2>2. /\ Len(sent[e]) <= acknowledged[e] + 1 /\ Len(sent[x]) <= acknowledged[x] + 1
        /\ f.nr \in {acknowledged[e] % 8, Len(delivered[x]) % 8}
    BY <1>1, <1>2, <2>1 DEF AwaitAt, CountsOn
  <2> HIDE DEF f
  <2>3. f.kind = "I" => f.payload = <<session, Len(delivered[e]) + 1>>
    <3> SUFFICES ASSUME f.kind = "I" PROVE f.payload = <<session, Len(delivered[e]) + 1>>
      OBVIOUS
    <3>1. PICK j \in Len(delivered[e]) + 1 .. Len(sent[x]) : f.payload = <<session, j>>
      BY <1>6
    <3>2. j = Len(delivered[e]) + 1
      BY <1>1, <1>5, <2>2, <3>1, SMTT(30)
    <3> QED
      BY <3>1, <3>2
  <2>4. Len(delivered[x]) = Len(sent[e])
    <3>1. CASE f.nr = acknowledged[e] % 8
      <4>1. Len(sent[e]) % 8 = acknowledged[e] % 8
        BY <1>5, <3>1
      <4>2. acknowledged[e] <= Len(sent[e]) /\ Len(sent[e]) <= acknowledged[e] + 7
        BY <1>1, <1>5, <2>2
      <4>3. acknowledged[e] = Len(sent[e])
        BY <1>1, <4>1, <4>2, SameRemainder
      <4> QED
        BY <1>1, <1>5, <4>3
    <3>2. CASE f.nr = Len(delivered[x]) % 8
      <4>1. Len(sent[e]) % 8 = Len(delivered[x]) % 8
        BY <1>5, <3>2
      <4>2. Len(sent[e]) <= Len(delivered[x]) + 7
        BY <1>1, <1>5, <2>2
      <4> QED
        BY <1>1, <1>5, <4>1, <4>2, SameRemainder
    <3> QED
      BY <2>2, <3>1, <3>2
  <2> QED
    BY <1>4, <1>5, <1>7, <2>3, <2>4 DEF f
<1>9. CASE duty = "HalfDuplex"
  <2>1. HalfDuplexAt(e) /\ HalfDuplexAt(x)
    BY <1>3, <1>9 DEF NumbersAt
  <2>2. Len(delivered[x]) = Len(sent[e])
    BY <1>1, <1>2, <2>1 DEF HalfDuplexAt, ConfirmsAll, ConfirmsOn
  <2>3. MessagesAt(x, e) /\ Complete(e, x)
    BY <1>1, <1>3, <1>4, <2>1 DEF NumbersAt, HalfDuplexAt, Listens
  <2>4. f.kind = "I" => f.payload = <<session, Len(delivered[e]) + 1>>
    BY <2>3, NextOnLine
  <2> QED
    BY <1>4, <1>5, <1>7, <2>2, <2>4
<1> QED
  BY <1>8, <1>9, GoLinkAssumption DEF HistoryType

\* When frames do not cross, a session that is not closing takes every frame.
LEMMA TakesAll ==
    ASSUME SessionInv, HistoryType, WireType, Addressing, Phases, Numbers, NEW e \in Endpoint,
           duty = "HalfDuplex", wire[Peer[e]] # <<>>, state[e] # "AwaitingDisconnect"
    PROVE  Accepts(e, wire[Peer[e]][1])
<1> DEFINE x == Peer[e]
           f == wire[x][1]
<1>1. /\ x \in Endpoint /\ Peer[x] = e /\ x # e
      /\ Len(sent[e]) \in Nat /\ Len(delivered[e]) \in Nat /\ acknowledged[e] \in Nat
      /\ Len(sent[x]) \in Nat /\ Len(delivered[x]) \in Nat /\ acknowledged[x] \in Nat
  BY CountsType, TwoRoles
<1>2. 1 \in 1 .. Len(wire[x]) /\ Addressed(e, f)
  BY <1>1, EmptyWire DEF Addressing
<1>3. /\ NumbersAt(e) /\ NumbersAt(x) /\ HalfDuplexAt(e) /\ HalfDuplexAt(x)
  BY <1>1 DEF Numbers, NumbersAt
<1>4. \A K : Carries(x, K) => f.kind \in K
  BY <1>2 DEF Carries
<1>5. f.kind \in {"I", "RR", "DISC", "UA", "SNRM"}
  BY <1>1, <1>4, WireKinds
<1> HIDE DEF f
<1>6. CASE state[e] = "Connected"
  <2>1. f.kind # "SNRM" /\ f.kind # "UA"
    <3>1. CASE IsClient(e)
      <4>1. InUse(e, x)
        BY <1>1, <1>6, <3>1 DEF Phases, Phase, AtRest, Calling, Opened, ClientClosing,
                                ServerLeft, ClientLeft
      <4> QED
        BY <1>4, <4>1 DEF InUse
    <3>2. CASE ~IsClient(e)
      <4>1. IsClient(x)
        BY <1>1, <3>2, TwoRoles
      <4>2. InUse(x, e) \/ ClientClosing(x, e)
        BY <1>1, <1>6, <4>1 DEF Phases, Phase, AtRest, Calling, Opened, ServerLeft, ClientLeft
      <4> QED
        BY <1>4, <4>2 DEF InUse, ClientClosing
    <3> QED
      BY <3>1, <3>2
  <2>2. CASE f.kind = "DISC"
    BY <1>2, <1>6, <2>2 DEF Accepts, f
  <2>3. CASE Sequenced(f)
    <3>1. f.nr = sendSequence[e]
      BY <1>1, <1>2, <1>3, <1>6, <2>3 DEF HalfDuplexAt, ConfirmsAll, ConfirmsOn, NumbersAt,
                                          SequencesAt, InSession, f
    <3>2. ASSUME f.kind = "I" PROVE f.ns = receiveSequence[e]
      <4>1. f.payload = <<session, Len(delivered[e]) + 1>>
        BY <1>1, <1>3, <1>6, <3>2, NextOnLine DEF NumbersAt, HalfDuplexAt, Listens, f
      <4>2. PICK j \in Len(delivered[e]) + 1 .. Len(sent[x]) :
                f.payload = <<session, j>> /\ f.ns = (j - 1) % 8
        BY <1>1, <1>2, <1>3, <3>2 DEF NumbersAt, MessagesAt, MessagesOn, f
      <4>3. j = Len(delivered[e]) + 1
        BY <4>1, <4>2
      <4>4. j - 1 = Len(delivered[e])
        BY <1>1, <4>3
      <4> QED
        BY <1>3, <1>6, <4>2, <4>4 DEF NumbersAt, SequencesAt, InSession
    <3> QED
      BY <1>2, <1>6, <2>3, <3>1, <3>2
         DEF Accepts, Sequenced, AcceptsInformation, AcknowledgesAll, SupervisoryKind, f
  <2> QED
    BY <1>5, <2>1, <2>2, <2>3 DEF Sequenced
<1>7. CASE state[e] = "AwaitingConnection"
  <2>1. IsClient(e)
    BY <1>7 DEF SessionInv, HandshakeRoles, IsClient
  <2>2. Opened(e, x)
    BY <1>1, <1>7, <2>1 DEF Phases, Phase, AtRest, Calling, InUse, ClientClosing, ServerLeft,
                            ClientLeft
  <2>3. Len(wire[e]) = 0 /\ 1 .. Len(wire[e]) = {}
    BY <2>2, EmptyWire DEF Opened
  <2>4. Has(x, "UA")
    BY <1>1, <1>3, <1>7, <2>1, <2>2, <2>3 DEF HalfDuplexAt, UaComing, Opened, InSession, Has
  <2>5. f.kind = "UA"
    BY <2>2, <2>4 DEF Opened, Begins, Has, f
  <2> QED
    BY <1>2, <1>7, <2>5 DEF Accepts, UaConnects, f
<1>8. CASE state[e] = "Disconnected"
  <2>1. CASE IsClient(e)
    BY <1>1, <1>8, <2>1 DEF Phases, Phase, AtRest, Calling, Opened, InUse, ClientClosing,
                            ServerLeft, ClientLeft
  <2>2. CASE ~IsClient(e)
    <3>1. IsClient(x) /\ Role(e) = "Server"
      BY <1>1, <2>2, TwoRoles
    <3>2. Calling(x, e)
      BY <1>1, <1>8, <3>1 DEF Phases, Phase, AtRest, Opened, InUse, ClientClosing,
                              ServerLeft, ClientLeft, InSession
    <3>3. f.kind = "SNRM"
      BY <1>4, <3>2 DEF Calling
    <3> QED
      BY <1>2, <1>8, <3>1, <3>3 DEF Accepts, AcceptsSnrm, f
  <2> QED
    BY <2>1, <2>2
<1> QED
  BY <1>6, <1>7, <1>8 DEF SessionInv, TypeOK, SessionState

-----------------------------------------------------------------------------
(***************************************************************************)
(* The numbers when a frame is written.                                    *)
(***************************************************************************)
LEMMA SendHas ==
    ASSUME WireType, NEW e \in Endpoint, NEW f \in Frame, Send(e, f), NEW k
    PROVE  /\ Has(e, k) => Has(e, k)'
           /\ f.kind = k => Has(e, k)'
           /\ f.kind # k /\ Has(e, k)' => Has(e, k)
           /\ Has(Peer[e], k)' <=> Has(Peer[e], k)
<1> DEFINE l == Len(wire[e])
<1>1. /\ l \in Nat /\ Len(wire'[e]) = l + 1 /\ wire'[e][l + 1] = f
      /\ \A i \in 1 .. l : wire'[e][i] = wire[e][i]
      /\ wire'[Peer[e]] = wire[Peer[e]]
  BY SendEffect, EmptyWire
<1>2. /\ \A i \in 1 .. l + 1 : i \in 1 .. l \/ i = l + 1
      /\ \A i \in 1 .. l : i \in 1 .. l + 1
      /\ l + 1 \in 1 .. l + 1
  BY <1>1
<1> HIDE DEF l
<1> QED
  BY <1>1, <1>2 DEF Has, l

\* A half-duplex line is quiet when a frame is written.
LEMMA SendQuiet ==
    ASSUME WireType, NEW e \in Endpoint, NEW f \in Frame, Send(e, f), duty = "HalfDuplex"
    PROVE  /\ wire[Peer[e]] = <<>> /\ wire'[Peer[e]] = <<>>
           /\ 1 .. Len(wire[Peer[e]]) = {} /\ 1 .. Len(wire'[Peer[e]]) = {}
<1>1. wire[Peer[e]] = <<>> /\ wire'[Peer[e]] = <<>>
  BY SendEffect DEF Send
<1>2. Len(wire[Peer[e]]) = 0 /\ Len(wire'[Peer[e]]) = 0
  BY <1>1
<1> QED
  BY <1>1, <1>2

\* SNRM, DISC or the UA that ends a session: no message and no count changes.
LEMMA PlainSendNumbers ==
    ASSUME SessionInv, HistoryType, WireType, Numbers, NEW e \in Endpoint, NEW f \in Frame,
           Send(e, f), ~Sequenced(f), UNCHANGED <<session, messages>>,
           state'[e] # "Connected", state'[Peer[e]] = state[Peer[e]],
           InSession(e)' => /\ InSession(e)
                            /\ sendSequence'[e] = sendSequence[e]
                            /\ receiveSequence'[e] = receiveSequence[e],
           InSession(e) /\ ~InSession(e)' => f.kind = "UA",
           f.kind = "UA" => state[Peer[e]] # "AwaitingConnection",
           /\ sendSequence'[Peer[e]] = sendSequence[Peer[e]]
           /\ receiveSequence'[Peer[e]] = receiveSequence[Peer[e]]
    PROVE  Numbers'
<1> DEFINE x == Peer[e]
           l == Len(wire[e])
<1>1. /\ x \in Endpoint /\ Peer[x] = e /\ x # e
      /\ \A y \in Endpoint : y = e \/ y = x
  BY TwoRoles
<1>2. /\ l \in Nat /\ Len(wire'[e]) = l + 1 /\ wire'[e][l + 1] = f
      /\ \A i \in 1 .. l : wire'[e][i] = wire[e][i]
      /\ wire'[x] = wire[x] /\ duty' = duty
  BY SendEffect, EmptyWire DEF Send
<1>3. /\ UNCHANGED <<session, sent, delivered, acknowledged>>
      /\ f.kind \notin {"I", "RR"}
  BY DEF messages, Sequenced
<1>4. NumbersAt(e) /\ NumbersAt(x)
  BY <1>1 DEF Numbers
<1>5. \A i \in 1 .. l + 1 : wire'[e][i].kind \in {"I", "RR"} =>
          i \in 1 .. l /\ wire'[e][i] = wire[e][i]
  BY <1>2, <1>3
<1> HIDE DEF l
<1>6. ASSUME NEW y \in Endpoint PROVE HistoryAt(y)' /\ SequencesAt(y)'
  BY <1>1, <1>3, <1>4, ZenonT(30) DEF NumbersAt, HistoryAt, SequencesAt, InSession
<1>7. MessagesAt(e, x)' /\ MessagesAt(x, e)'
  <2>1. MessagesAt(e, x)'
    <3>1. MessagesAt(e, x)
      BY <1>4 DEF NumbersAt
    <3>2. ASSUME NEW i \in 1 .. l + 1, wire'[e][i].kind = "I"
          PROVE  \E j \in Len(delivered'[x]) + 1 .. Len(sent'[e]) :
                     wire'[e][i].payload = <<session', j>> /\ wire'[e][i].ns = (j - 1) % 8
      BY <1>3, <1>5, <3>1, <3>2 DEF MessagesAt, MessagesOn, l
    <3>3. ASSUME NEW i \in 1 .. l + 1, NEW j \in 1 .. l + 1, i < j,
                 wire'[e][i].kind = "I", wire'[e][j].kind = "I"
          PROVE  wire'[e][i].payload[2] < wire'[e][j].payload[2]
      BY <1>5, <3>1, <3>3 DEF MessagesAt, MessagesOn, l
    <3> QED
      BY <1>2, <3>2, <3>3 DEF MessagesAt, MessagesOn
  <2>2. MessagesAt(x, e)'
    <3>1. MessagesAt(x, e)
      BY <1>1, <1>4 DEF NumbersAt
    <3> HIDE DEF x
    <3> QED
      BY <1>2, <1>3, <3>1 DEF MessagesAt, MessagesOn
  <2> QED
    BY <2>1, <2>2
<1>8. ASSUME duty = "AwaitAcknowledgement" PROVE AwaitAt(e, x)' /\ AwaitAt(x, e)'
  <2>1. AwaitAt(e, x)'
    BY <1>1, <1>2, <1>3, <1>4, <1>5, <1>8, ZenonT(30)
       DEF NumbersAt, AwaitAt, CountsOn, Sequenced, l
  <2>2. AwaitAt(x, e)'
    <3>1. AwaitAt(x, e)
      BY <1>1, <1>4, <1>8 DEF NumbersAt
    <3> HIDE DEF x
    <3> QED
      BY <1>2, <1>3, <3>1, ZenonT(30) DEF AwaitAt, CountsOn
  <2> QED
    BY <2>1, <2>2
<1>9. ASSUME duty = "HalfDuplex" PROVE HalfDuplexAt(e)' /\ HalfDuplexAt(x)'
  <2>1. wire[x] = <<>> /\ wire'[x] = <<>> /\ 1 .. Len(wire[x]) = {} /\ 1 .. Len(wire'[x]) = {}
    BY <1>9, SendQuiet
  <2>2. HalfDuplexAt(e) /\ HalfDuplexAt(x)
    BY <1>4, <1>9 DEF NumbersAt
  <2>3. UaComing(e)' /\ UaComing(x)'
    <3>1. UaComing(e)'
      BY <1>1, <2>2, SendHas DEF HalfDuplexAt, UaComing, InSession, IsClient
    <3>2. UaComing(x)'
      BY <1>1, <2>2, SendHas DEF HalfDuplexAt, UaComing, InSession, IsClient
    <3> QED
      BY <3>1, <3>2
  <2>4. ~Listens(e)'
    BY <2>1 DEF Listens, Has
  <2>5. Listens(x)' => Complete(x, e)'
    <3> SUFFICES ASSUME Listens(x)' PROVE Complete(x, e)'
      OBVIOUS
    <3>1. Listens(x)
      BY <1>1, SendHas DEF Listens
    <3>2. Complete(x, e)
      BY <1>1, <2>2, <3>1 DEF HalfDuplexAt
    <3>3. ASSUME NEW j \in Len(delivered'[x]) + 1 .. Len(sent'[e])
          PROVE  \E i \in 1 .. Len(wire'[e]) :
                     wire'[e][i].kind = "I" /\ wire'[e][i].payload[2] = j
      <4>1. PICK i \in 1 .. l : wire[e][i].kind = "I" /\ wire[e][i].payload[2] = j
        BY <1>1, <1>3, <3>2, <3>3 DEF Complete, CompleteOn, l
      <4>2. i \in 1 .. l + 1
        BY <1>2
      <4> QED
        BY <1>2, <4>1, <4>2
    <3> QED
      BY <1>1, <3>3 DEF Complete, CompleteOn
  <2>6. \A i \in 1 .. Len(wire'[e]) : Sequenced(wire'[e][i]) =>
            /\ wire'[e][i].nr = Len(sent'[x]) % 8
            /\ Len(delivered'[e]) = Len(sent'[x])
    BY <1>2, <1>3, <1>5, <2>2 DEF HalfDuplexAt, ConfirmsAll, ConfirmsOn, Sequenced, l
  <2> QED
    BY <1>1, <2>1, <2>3, <2>4, <2>5, <2>6 DEF HalfDuplexAt, ConfirmsAll, ConfirmsOn
<1> QED
  BY <1>1, <1>2, <1>6, <1>7, <1>8, <1>9 DEF Numbers, NumbersAt


\* A frame that carries N(R), and with it perhaps the next message.
LEMMA SequencedSendNumbers ==
    ASSUME HistoryType, WireType, Numbers, NEW e \in Endpoint, state[e] = "Connected",
           NEW f \in Frame, Sequenced(f), Send(e, f), f.nr = receiveSequence[e],
           f.kind = "I" =>
               /\ f.payload = <<session, Len(sent[e]) + 1>> /\ f.ns = sendSequence[e]
               /\ Len(sent'[e]) = Len(sent[e]) + 1
               /\ duty = "AwaitAcknowledgement" => acknowledged[e] = Len(sent[e]),
           f.kind # "I" => Len(sent'[e]) = Len(sent[e]),
           sent'[Peer[e]] = sent[Peer[e]],
           UNCHANGED <<state, session, delivered, acknowledged>>
    PROVE  /\ MessagesAt(e, Peer[e])' /\ MessagesAt(Peer[e], e)'
           /\ duty = "AwaitAcknowledgement" => AwaitAt(e, Peer[e])' /\ AwaitAt(Peer[e], e)'
           /\ duty = "HalfDuplex" => HalfDuplexAt(e)' /\ HalfDuplexAt(Peer[e])'
<1> DEFINE x == Peer[e]
           l == Len(wire[e])
           n == Len(sent[e])
           d == Len(delivered[e])
<1>1. /\ x \in Endpoint /\ Peer[x] = e /\ x # e
      /\ n \in Nat /\ d \in Nat /\ acknowledged[e] \in Nat
      /\ Len(sent[x]) \in Nat /\ Len(delivered[x]) \in Nat /\ acknowledged[x] \in Nat
  BY CountsType, TwoRoles
<1>2. /\ l \in Nat /\ Len(wire'[e]) = l + 1 /\ wire'[e][l + 1] = f
      /\ \A i \in 1 .. l : wire'[e][i] = wire[e][i]
      /\ wire'[x] = wire[x]
  BY SendEffect, EmptyWire
<1>3. NumbersAt(e) /\ NumbersAt(x)
  BY <1>1 DEF Numbers
<1>4. \A i \in 1 .. l + 1 : i = l + 1 \/ (i \in 1 .. l /\ wire'[e][i] = wire[e][i])
  BY <1>2
<1>5. f.nr = d % 8 /\ (f.kind = "I" => f.ns = n % 8)
  BY <1>3 DEF NumbersAt, SequencesAt, InSession
<1>6. /\ Len(delivered[x]) <= n /\ acknowledged[e] <= Len(delivered[x])
      /\ d <= Len(sent[x]) /\ acknowledged[x] <= d
  BY <1>1, <1>3 DEF NumbersAt, HistoryAt
<1>7. Len(sent'[e]) \in Nat /\ n <= Len(sent'[e])
  BY <1>1
<1> HIDE DEF l, n, d
<1>8. MessagesAt(e, x)'
  <2>1. ASSUME NEW i \in 1 .. l, wire[e][i].kind = "I"
        PROVE  \E j \in Len(delivered[x]) + 1 .. n :
                   wire[e][i].payload = <<session, j>> /\ wire[e][i].ns = (j - 1) % 8
    BY <1>1, <1>3, <2>1 DEF NumbersAt, MessagesAt, MessagesOn, l, n
  <2>2. ASSUME f.kind = "I"
        PROVE  /\ n + 1 \in Len(delivered[x]) + 1 .. Len(sent'[e])
               /\ f.ns = (n + 1 - 1) % 8 /\ f.payload = <<session, n + 1>>
    <3>1. Len(sent'[e]) = n + 1 /\ f.payload = <<session, n + 1>>
      BY <2>2 DEF n
    <3>2. n + 1 - 1 = n /\ n + 1 \in Len(delivered[x]) + 1 .. n + 1
      BY <1>1, <1>6 DEF n
    <3> QED
      BY <1>5, <2>2, <3>1, <3>2
  <2>3. ASSUME NEW i \in 1 .. l + 1, wire'[e][i].kind = "I"
        PROVE  \E j \in Len(delivered[x]) + 1 .. Len(sent'[e]) :
                   wire'[e][i].payload = <<session, j>> /\ wire'[e][i].ns = (j - 1) % 8
    <3>1. CASE i = l + 1
      <4>1. f.kind = "I" /\ wire'[e][i] = f
        BY <1>2, <2>3, <3>1
      <4>2. n + 1 \in Len(delivered[x]) + 1 .. Len(sent'[e])
        BY <2>2, <4>1
      <4>3. wire'[e][i].payload = <<session, n + 1>> /\ wire'[e][i].ns = (n + 1 - 1) % 8
        BY <2>2, <4>1
      <4>4. n \in Nat
        BY <1>1
      <4> WITNESS n + 1 \in Len(delivered[x]) + 1 .. Len(sent'[e])
      <4> QED
        BY <4>3, <4>4
    <3>2. CASE i \in 1 .. l /\ wire'[e][i] = wire[e][i]
      <4>1. PICK j \in Len(delivered[x]) + 1 .. n :
                wire[e][i].payload = <<session, j>> /\ wire[e][i].ns = (j - 1) % 8
        BY <2>1, <2>3, <3>2
      <4>2. j \in Len(delivered[x]) + 1 .. Len(sent'[e])
        BY <1>1, <1>7
      <4> QED
        BY <3>2, <4>1, <4>2
    <3> QED
      BY <1>4, <3>1, <3>2
  <2>4. ASSUME NEW i \in 1 .. l + 1, NEW j \in 1 .. l + 1, i < j,
               wire'[e][i].kind = "I", wire'[e][j].kind = "I"
        PROVE  wire'[e][i].payload[2] < wire'[e][j].payload[2]
    <3>1. i \in 1 .. l /\ wire'[e][i] = wire[e][i]
      BY <1>2, <2>4
    <3>2. CASE j = l + 1
      <4>1. f.kind = "I" /\ wire'[e][j] = f
        BY <1>2, <2>4, <3>2
      <4>2. f.payload[2] = n + 1
        BY <2>2, <4>1
      <4>3. PICK k \in Len(delivered[x]) + 1 .. n : wire[e][i].payload = <<session, k>>
        BY <2>1, <2>4, <3>1
      <4>4. wire[e][i].payload[2] = k /\ k < n + 1
        BY <1>1, <4>3
      <4> QED
        BY <3>1, <4>1, <4>2, <4>4
    <3>3. CASE j \in 1 .. l /\ wire'[e][j] = wire[e][j]
      BY <1>3, <2>4, <3>1, <3>3 DEF NumbersAt, MessagesAt, MessagesOn, l
    <3> QED
      BY <1>4, <3>2, <3>3
  <2> QED
    BY <1>1, <1>2, <2>3, <2>4 DEF MessagesAt, MessagesOn
<1>9. MessagesAt(x, e)'
  BY <1>1, <1>2, <1>3 DEF NumbersAt, MessagesAt, MessagesOn
<1>10. ASSUME duty = "AwaitAcknowledgement" PROVE AwaitAt(e, x)' /\ AwaitAt(x, e)'
  <2>1. AwaitAt(e, x) /\ AwaitAt(x, e)
    BY <1>1, <1>3, <1>10 DEF NumbersAt
  <2>2. AwaitAt(x, e)'
    BY <1>1, <1>2, <2>1, ZenonT(30) DEF AwaitAt, CountsOn
  <2>3. Len(sent'[e]) <= acknowledged'[e] + 1
    BY <1>1, <1>10, <2>1 DEF AwaitAt, CountsOn, n
  <2>4. ASSUME NEW i \in 1 .. l + 1, Sequenced(wire'[e][i])
        PROVE  wire'[e][i].nr \in {acknowledged[x] % 8, d % 8}
    BY <1>2, <1>4, <1>5, <2>1, <2>4 DEF AwaitAt, CountsOn, l, d
  <2>5. ASSUME NEW i \in 1 .. l + 1, NEW j \in 1 .. l + 1, i < j,
               Sequenced(wire'[e][i]), Sequenced(wire'[e][j]), wire'[e][i].nr = d % 8
        PROVE  wire'[e][j].nr = d % 8
    <3>1. i \in 1 .. l /\ wire'[e][i] = wire[e][i]
      BY <1>2, <2>5
    <3> QED
      BY <1>2, <1>4, <1>5, <2>1, <2>5, <3>1 DEF AwaitAt, CountsOn, l, d
  <2>6. AwaitAt(e, x)'
    BY <1>1, <1>2, <2>3, <2>4, <2>5 DEF AwaitAt, CountsOn, d
  <2> QED
    BY <2>2, <2>6
<1>11. ASSUME duty = "HalfDuplex" PROVE HalfDuplexAt(e)' /\ HalfDuplexAt(x)'
  <2>1. wire[x] = <<>> /\ wire'[x] = <<>> /\ 1 .. Len(wire[x]) = {} /\ 1 .. Len(wire'[x]) = {}
    BY <1>11, SendQuiet
  <2>2. HalfDuplexAt(e) /\ HalfDuplexAt(x)
    BY <1>3, <1>11 DEF NumbersAt
  <2>3. UaComing(e)' /\ UaComing(x)'
    <3>1. UaComing(e)'
      BY <1>1, <2>2, SendHas DEF HalfDuplexAt, UaComing, InSession, IsClient
    <3>2. UaComing(x)'
      BY <1>1, <2>2, SendHas DEF HalfDuplexAt, UaComing, InSession, IsClient
    <3> QED
      BY <3>1, <3>2
  <2>4. d = Len(sent[x]) /\ Complete(e, x)'
    <3>1. Complete(e, x)
      BY <2>2 DEF HalfDuplexAt, Listens
    <3>2. d = Len(sent[x])
      BY <1>1, <1>6, <2>1, <3>1, SMTT(30) DEF Complete, CompleteOn, d
    <3>3. Complete(e, x)'
      BY <1>1, <1>2, <3>1 DEF Complete, CompleteOn
    <3> QED
      BY <3>2, <3>3
  <2>5. Listens(x)' => Complete(x, e)'
    <3> SUFFICES ASSUME Listens(x)' PROVE Complete(x, e)'
      OBVIOUS
    <3>1. Listens(x)
      <4>1. f.kind # "UA"
        BY DEF Sequenced
      <4> QED
        BY <1>1, <4>1, SendHas DEF Listens
    <3>2. Complete(x, e)
      BY <1>1, <2>2, <3>1 DEF HalfDuplexAt
    <3>3. ASSUME NEW j \in Len(delivered[x]) + 1 .. Len(sent'[e])
          PROVE  \E i \in 1 .. l + 1 : wire'[e][i].kind = "I" /\ wire'[e][i].payload[2] = j
      <4>1. CASE j \in Len(delivered[x]) + 1 .. n
        <5>1. PICK i \in 1 .. l : wire[e][i].kind = "I" /\ wire[e][i].payload[2] = j
          BY <3>2, <4>1 DEF Complete, CompleteOn, l, n
        <5>2. i \in 1 .. l + 1
          BY <1>2
        <5> QED
          BY <1>2, <5>1, <5>2
      <4>2. CASE j \notin Len(delivered[x]) + 1 .. n
        <5>1. f.kind = "I" /\ j = n + 1
          BY <1>1, <1>7, <3>3, <4>2 DEF n
        <5>2. f.payload[2] = j /\ l + 1 \in 1 .. l + 1
          BY <1>2, <5>1 DEF n
        <5> QED
          BY <1>2, <5>1, <5>2
      <4> QED
        BY <4>1, <4>2
    <3> QED
      BY <1>2, <3>3 DEF Complete, CompleteOn
  <2>6. \A i \in 1 .. l + 1 : Sequenced(wire'[e][i]) =>
            /\ wire'[e][i].nr = Len(sent[x]) % 8
            /\ d = Len(sent[x])
    BY <1>2, <1>4, <1>5, <2>2, <2>4 DEF HalfDuplexAt, ConfirmsAll, ConfirmsOn, l, d
  <2>7. HalfDuplexAt(e)'
    BY <1>1, <1>2, <2>1, <2>3, <2>4, <2>6 DEF HalfDuplexAt, ConfirmsAll, ConfirmsOn, d
  <2>8. HalfDuplexAt(x)'
    BY <1>1, <2>1, <2>3, <2>5 DEF HalfDuplexAt, ConfirmsAll, ConfirmsOn
  <2> QED
    BY <2>7, <2>8
<1> QED
  BY <1>8, <1>9, <1>10, <1>11

LEMMA ReceiptNumbers ==
    ASSUME SessionInv, HistoryType, WireType, Numbers, NEW e \in Endpoint, AcknowledgeReceipt(e)
    PROVE  Numbers'
<1> DEFINE f == ReceiveReadyFrame(e)
<1>1. /\ state[e] = "Connected" /\ UNCHANGED sessionVars
      /\ UNCHANGED <<session, sent, delivered, acknowledged>>
      /\ Send(e, f)
  BY DEF AcknowledgeReceipt, BuildReceiveReadyFrame, messages
<1>2. f \in Frame /\ f.kind = "RR" /\ f.nr = receiveSequence[e]
  BY ReceiveReadyType DEF SessionInv
<1> HIDE DEF f
<1>3. Sequenced(f) /\ duty' = duty
  BY <1>1, <1>2 DEF Sequenced, Send
<1>4. state' = state
  BY <1>1 DEF sessionVars
<1>5. /\ MessagesAt(e, Peer[e])' /\ MessagesAt(Peer[e], e)'
      /\ duty = "AwaitAcknowledgement" => AwaitAt(e, Peer[e])' /\ AwaitAt(Peer[e], e)'
      /\ duty = "HalfDuplex" => HalfDuplexAt(e)' /\ HalfDuplexAt(Peer[e])'
  BY <1>1, <1>2, <1>3, <1>4, SequencedSendNumbers
<1>6. ASSUME NEW x \in Endpoint PROVE HistoryAt(x)' /\ SequencesAt(x)'
  BY <1>1 DEF Numbers, NumbersAt, HistoryAt, SequencesAt, InSession, sessionVars, sequences
<1> QED
  BY <1>3, <1>5, <1>6, TwoRoles DEF Numbers, NumbersAt

LEMMA MessageNumbers ==
    ASSUME SessionInv, HistoryType, WireType, Phases, Numbers, NEW e \in Endpoint,
           SendMessage(e)
    PROVE  Numbers'
<1> DEFINE x == Peer[e]
           n == Len(sent[e])
           m == <<session, n + 1>>
           f == IFrame(e, m)
<1>1. /\ state[e] = "Connected" /\ Send(e, f) /\ n < MaxMessages[e]
      /\ sendSequence' = [sendSequence EXCEPT ![e] = NextSequence(sendSequence[e])]
      /\ UNCHANGED <<state, receiveSequence>>
      /\ sent' = [sent EXCEPT ![e] = Append(sent[e], m)]
      /\ UNCHANGED <<session, delivered, acknowledged>>
      /\ duty = "AwaitAcknowledgement" => acknowledged[e] = n
  BY DEF SendMessage, BuildInformationFrame
<1>2. m \in Payload
  BY <1>1, MessageInBounds
<1>3. /\ f \in Frame /\ f.kind = "I" /\ f.payload = m
      /\ f.ns = sendSequence[e] /\ f.nr = receiveSequence[e]
  BY <1>2, IFrameType DEF SessionInv
<1>4. /\ x \in Endpoint /\ Peer[x] = e /\ x # e /\ \A y \in Endpoint : y = e \/ y = x
      /\ n \in Nat /\ Len(delivered[x]) \in Nat /\ Len(sent[x]) \in Nat
      /\ sent[e] \in Seq(Payload)
  BY CountsType, TwoRoles DEF HistoryType
<1> HIDE DEF f
<1>5. sent'[e] = Append(sent[e], m) /\ sent'[x] = sent[x]
  BY <1>1, <1>4 DEF HistoryType
<1>6. /\ Len(sent'[e]) = n + 1 /\ sent'[e][n + 1] = m
      /\ \A i \in 1 .. n : sent'[e][i] = sent[e][i]
  BY <1>2, <1>4, <1>5
<1>7. Sequenced(f) /\ duty' = duty
  BY <1>1, <1>3 DEF Sequenced, Send
<1>8. /\ MessagesAt(e, x)' /\ MessagesAt(x, e)'
      /\ duty = "AwaitAcknowledgement" => AwaitAt(e, x)' /\ AwaitAt(x, e)'
      /\ duty = "HalfDuplex" => HalfDuplexAt(e)' /\ HalfDuplexAt(x)'
  BY <1>1, <1>3, <1>5, <1>6, <1>7, SequencedSendNumbers
<1>9. NumbersAt(e) /\ NumbersAt(x)
  BY <1>4 DEF Numbers
<1>10. HistoryAt(e)' /\ HistoryAt(x)'
  <2>1. \A i \in 1 .. n + 1 : i \in 1 .. n \/ i = n + 1
    BY <1>4
  <2>2. HistoryAt(e) /\ HistoryAt(x)
    BY <1>9 DEF NumbersAt
  <2>3. \A i \in 1 .. n + 1 : sent'[e][i] = <<session, i>>
    BY <1>6, <2>1, <2>2 DEF HistoryAt
  <2>4. HistoryAt(e)'
    BY <1>1, <1>4, <1>6, <2>2, <2>3 DEF HistoryAt
  <2>5. HistoryAt(x)'
    BY <1>1, <1>4, <1>5, <2>2 DEF HistoryAt
  <2> QED
    BY <2>4, <2>5
<1>11. SequencesAt(e)' /\ SequencesAt(x)'
  <2>1. sendSequence'[e] = (n + 1) % 8
    <3>1. sendSequence[e] = n % 8
      BY <1>1, <1>9 DEF NumbersAt, SequencesAt, InSession
    <3> QED
      BY <1>1, <1>4, <3>1, NextRemainder DEF SessionInv, TypeOK
  <2>2. SequencesAt(e)'
    BY <1>1, <1>6, <1>9, <2>1 DEF NumbersAt, SequencesAt, InSession
  <2>3. sendSequence'[x] = sendSequence[x]
    BY <1>1, <1>4 DEF SessionInv, TypeOK
  <2>4. SequencesAt(x)'
    BY <1>1, <1>5, <1>9, <2>3 DEF NumbersAt, SequencesAt, InSession
  <2> QED
    BY <2>2, <2>4
<1> QED
  BY <1>4, <1>7, <1>8, <1>10, <1>11 DEF Numbers, NumbersAt

\* The session begins: the UA is alone on the line, and nothing has been sent.
LEMMA AcceptNumbers ==
    ASSUME SessionInv, HistoryType, WireType, Phases, Numbers, NEW e \in Endpoint,
           AcceptConnection(e)
    PROVE  Numbers'
<1> DEFINE c == Peer[e]
           f == Unnumbered(e, "UA")
<1>1. c \in Endpoint /\ Peer[c] = e /\ c # e /\ \A y \in Endpoint : y = e \/ y = c
  BY TwoRoles
<1>2. Calling(c, e) /\ wire[e] = <<>> /\ wire[c] = <<>>
  BY AcceptPhases DEF SessionInv
<1>3. BuildConnectResponse(e) /\ Send(e, f)
  BY DEF AcceptConnection
<1>4. f \in Frame /\ f.kind = "UA"
  BY UnnumberedType DEF UnnumberedKind
<1> HIDE DEF f
<1>5. \A x \in Endpoint : sent'[x] = <<>> /\ delivered'[x] = <<>> /\ acknowledged'[x] = 0
  BY DEF AcceptConnection
<1>6. \A x \in Endpoint : /\ Len(sent'[x]) = 0 /\ Len(delivered'[x]) = 0
                          /\ 1 .. Len(sent'[x]) = {} /\ 1 .. Len(delivered'[x]) = {}
  <2>1. \A x \in Endpoint : Len(sent'[x]) = 0 /\ Len(delivered'[x]) = 0
    BY <1>5
  <2> QED
    BY <2>1
<1>7. ASSUME NEW x \in Endpoint PROVE HistoryAt(x)'
  BY <1>1, <1>5, <1>6 DEF HistoryAt
<1>8. /\ state'[e] = "Connected" /\ state'[c] = "AwaitingConnection"
      /\ sendSequence'[e] = 0 /\ receiveSequence'[e] = 0
  BY <1>1, <1>2, <1>3 DEF BuildConnectResponse, Enter, Calling, SessionInv, TypeOK
<1>9. SequencesAt(e)' /\ SequencesAt(c)'
  <2>1. Len(sent'[e]) % 8 = 0 /\ Len(delivered'[e]) % 8 = 0
    <3>1. Len(sent'[e]) = 0 /\ Len(delivered'[e]) = 0
      BY <1>6
    <3> QED
      BY <3>1
  <2>2. ~InSession(c)'
    BY <1>8 DEF InSession
  <2> QED
    BY <1>8, <2>1, <2>2 DEF SequencesAt
<1>10. /\ Len(wire'[e]) = 1 /\ wire'[e][1] = f
       /\ wire'[c] = <<>>
  <2>1. Len(wire[e]) = 0
    BY <1>2, EmptyWire
  <2>2. Len(wire'[e]) = 0 + 1 /\ wire'[e][0 + 1] = f /\ wire'[c] = wire[c]
    BY <1>3, <1>4, <2>1, SendEffect
  <2> QED
    BY <1>2, <2>2
<1>11. /\ \A i \in 1 .. Len(wire'[e]) : i = 1 /\ wire'[e][i].kind = "UA"
       /\ 1 .. Len(wire'[c]) = {}
  <2>1. Len(wire'[c]) = 0
    BY <1>10
  <2> QED
    BY <1>4, <1>10, <2>1
<1>12. MessagesAt(e, c)' /\ MessagesAt(c, e)'
  BY <1>11 DEF MessagesAt, MessagesOn
<1>13. AwaitAt(e, c)' /\ AwaitAt(c, e)'
  <2>1. \A x \in Endpoint : Len(sent'[x]) <= acknowledged'[x] + 1
    BY <1>5, <1>6
  <2> QED
    BY <1>1, <1>11, <2>1 DEF AwaitAt, CountsOn, Sequenced
<1>14. HalfDuplexAt(e)' /\ HalfDuplexAt(c)'
  <2>1. Has(e, "UA")'
    <3>1. 1 \in 1 .. Len(wire'[e]) /\ wire'[e][1].kind = "UA"
      BY <1>4, <1>10
    <3> QED
      BY <3>1 DEF Has
  <2>2. UaComing(e)' /\ UaComing(c)'
    BY <1>1, <2>1 DEF UaComing
  <2>3. Complete(e, c)' /\ Complete(c, e)'
    <3>1. 0 + 1 .. 0 = {}
      OBVIOUS
    <3> QED
      BY <1>1, <1>6, <3>1 DEF Complete, CompleteOn
  <2> QED
    BY <1>1, <1>10, <1>11, <2>2, <2>3 DEF HalfDuplexAt, ConfirmsAll, ConfirmsOn, Sequenced
<1> QED
  BY <1>1, <1>7, <1>9, <1>12, <1>13, <1>14 DEF Numbers, NumbersAt

-----------------------------------------------------------------------------
(***************************************************************************)
(* The numbers when a frame leaves the wire: it is taken, rejected or lost. *)
(***************************************************************************)
LEMMA ShiftHas ==
    ASSUME WireType, NEW x \in Endpoint, wire[x] # <<>>,
           wire' = [wire EXCEPT ![x] = Tail(@)], NEW k
    PROVE  /\ Has(x, k)' => Has(x, k)
           /\ wire[x][1].kind = k => Has(x, k)
           /\ wire[x][1].kind # k /\ Has(x, k) => Has(x, k)'
           /\ Has(Peer[x], k)' <=> Has(Peer[x], k)
<1> DEFINE l == Len(wire'[x])
<1>1. /\ l \in Nat /\ Len(wire[x]) = l + 1
      /\ \A i \in 1 .. l : wire'[x][i] = wire[x][i + 1]
      /\ wire'[Peer[x]] = wire[Peer[x]]
  <2>1. l = Len(wire[x]) - 1 /\ Len(wire[x]) \in Nat /\ l \in Nat
    BY ShiftEffect, EmptyWire
  <2>2. \A i \in 1 .. l : wire'[x][i] = wire[x][i + 1]
    BY ShiftEffect
  <2>3. wire'[Peer[x]] = wire[Peer[x]]
    BY ShiftEffect
  <2> QED
    BY <2>1, <2>2, <2>3
<1>2. /\ 1 \in 1 .. l + 1
      /\ \A i \in 1 .. l : i + 1 \in 1 .. l + 1
      /\ \A i \in 1 .. l + 1 : i # 1 => i - 1 \in 1 .. l /\ i - 1 + 1 = i
  BY <1>1
<1> HIDE DEF l
<1>3. Has(x, k)' => Has(x, k)
  BY <1>1, <1>2 DEF Has, l
<1>4. wire[x][1].kind = k => Has(x, k)
  BY <1>1, <1>2 DEF Has, l
<1>5. ASSUME wire[x][1].kind # k, Has(x, k) PROVE Has(x, k)'
  <2>1. PICK i \in 1 .. l + 1 : wire[x][i].kind = k
    BY <1>1, <1>5 DEF Has
  <2>2. i # 1
    BY <1>5, <2>1
  <2>3. i - 1 \in 1 .. l /\ wire'[x][i - 1] = wire[x][i - 1 + 1] /\ i - 1 + 1 = i
    BY <1>1, <1>2, <2>1, <2>2
  <2>4. wire'[x][i - 1].kind = k
    BY <2>1, <2>3
  <2> QED
    BY <2>3, <2>4 DEF Has, l
<1>6. Has(Peer[x], k)' <=> Has(Peer[x], k)
  BY <1>1 DEF Has
<1> QED
  BY <1>3, <1>4, <1>5, <1>6

\* The frame is the next message of x to e, or changes nothing that e was given; its
\* N(R) counts all that e has sent, or changes nothing that e knows.
LEMMA ShiftNumbers ==
    ASSUME HistoryType, WireType, Numbers, NEW e \in Endpoint, wire[Peer[e]] # <<>>,
           wire' = [wire EXCEPT ![Peer[e]] = Tail(@)], UNCHANGED <<session, sent>>,
           delivered'[Peer[e]] = delivered[Peer[e]],
           acknowledged'[Peer[e]] = acknowledged[Peer[e]],
           \/ delivered'[e] = delivered[e]
           \/ /\ wire[Peer[e]][1].kind = "I"
              /\ wire[Peer[e]][1].payload = <<session, Len(delivered[e]) + 1>>
              /\ Len(delivered[e]) < Len(sent[Peer[e]])
              /\ Len(delivered'[e]) = Len(delivered[e]) + 1,
           \/ acknowledged'[e] = acknowledged[e]
           \/ /\ Sequenced(wire[Peer[e]][1]) /\ wire[Peer[e]][1].nr = Len(sent[e]) % 8
              /\ Len(delivered[Peer[e]]) = Len(sent[e])
              /\ acknowledged'[e] = Len(sent[e])
    PROVE  /\ MessagesAt(e, Peer[e])' /\ MessagesAt(Peer[e], e)'
           /\ duty = "AwaitAcknowledgement" => AwaitAt(e, Peer[e])' /\ AwaitAt(Peer[e], e)'
<1> DEFINE x == Peer[e]
           f == wire[x][1]
           l == Len(wire'[x])
           d == Len(delivered[e])
           D == Len(delivered'[e])
<1>1. /\ x \in Endpoint /\ Peer[x] = e /\ x # e
      /\ Len(sent[e]) \in Nat /\ d \in Nat /\ acknowledged[e] \in Nat
      /\ Len(sent[x]) \in Nat /\ Len(delivered[x]) \in Nat /\ acknowledged[x] \in Nat
  BY CountsType, TwoRoles
<1>2. /\ l \in Nat /\ Len(wire[x]) = l + 1
      /\ \A i \in 1 .. l : wire'[x][i] = wire[x][i + 1]
      /\ wire'[e] = wire[e]
  <2>1. l = Len(wire[x]) - 1 /\ Len(wire[x]) \in Nat /\ l \in Nat
    BY <1>1, ShiftEffect, EmptyWire
  <2>2. (\A i \in 1 .. l : wire'[x][i] = wire[x][i + 1]) /\ wire'[Peer[x]] = wire[Peer[x]]
    BY <1>1, ShiftEffect
  <2>3. Len(wire[x]) = l + 1
    BY <2>1
  <2> QED
    BY <1>1, <2>1, <2>2, <2>3
<1>3. /\ 1 \in 1 .. l + 1
      /\ \A i \in 1 .. l : i + 1 \in 1 .. l + 1 /\ 1 < i + 1
      /\ \A i, j \in 1 .. l : i < j => i + 1 < j + 1
  BY <1>2
<1>4. NumbersAt(e) /\ NumbersAt(x)
  BY <1>1 DEF Numbers
<1>5. /\ acknowledged[e] <= Len(delivered[x]) /\ Len(delivered[x]) <= Len(sent[e])
      /\ acknowledged[x] <= d /\ d <= Len(sent[x])
  BY <1>1, <1>4 DEF NumbersAt, HistoryAt
<1>6. MessagesAt(e, x) /\ MessagesAt(x, e)
  BY <1>1, <1>4 DEF NumbersAt
<1>7. D = d \/ (f.kind = "I" /\ f.payload = <<session, d + 1>> /\ d < Len(sent[x]) /\ D = d + 1)
  OBVIOUS
<1>8. /\ session' = session /\ sent'[e] = sent[e] /\ sent'[x] = sent[x]
      /\ delivered'[x] = delivered[x] /\ acknowledged'[x] = acknowledged[x]
      /\ \/ acknowledged'[e] = acknowledged[e]
         \/ /\ Sequenced(f) /\ f.nr = Len(delivered[x]) % 8
            /\ Len(delivered[x]) = Len(sent[e]) /\ acknowledged'[e] = Len(sent[e])
  OBVIOUS
<1> DEFINE w == wire[x]
           v == wire'[x]
<1>9. /\ Len(w) = l + 1 /\ Len(v) = l /\ \A i \in 1 .. l : v[i] = w[i + 1] /\ i + 1 \in 1 .. l + 1
      /\ f = w[1]
  BY <1>2, <1>3
<1> HIDE DEF f, l, d, D, w, v
<1>10. MessagesAt(e, x)'
  <2> HIDE DEF x
  <2> QED
    BY <1>8, <1>2, <1>6 DEF MessagesAt
<1>11. MessagesAt(x, e)'
  <2>1. /\ \A i \in 1 .. l + 1 : w[i].kind = "I" =>
              \E j \in d + 1 .. Len(sent[x]) :
                  w[i].payload = <<session, j>> /\ w[i].ns = (j - 1) % 8
        /\ \A i, j \in 1 .. l + 1 : i < j /\ w[i].kind = "I" /\ w[j].kind = "I"
                                     => w[i].payload[2] < w[j].payload[2]
    BY <1>6, <1>9 DEF MessagesAt, MessagesOn, w, d
  <2>2. ASSUME NEW i \in 1 .. l, v[i].kind = "I"
        PROVE  \E j \in D + 1 .. Len(sent[x]) :
                   v[i].payload = <<session, j>> /\ v[i].ns = (j - 1) % 8
    <3>1. v[i] = w[i + 1] /\ i + 1 \in 1 .. l + 1 /\ 1 < i + 1 /\ 1 \in 1 .. l + 1
      BY <1>3, <1>9
    <3>2. PICK j \in d + 1 .. Len(sent[x]) :
              v[i].payload = <<session, j>> /\ v[i].ns = (j - 1) % 8
      BY <2>1, <2>2, <3>1
    <3>3. CASE D = d
      BY <3>2, <3>3
    <3>4. CASE f.kind = "I" /\ f.payload = <<session, d + 1>> /\ D = d + 1
      <4>1. f.payload[2] < v[i].payload[2]
        BY <1>9, <2>1, <2>2, <3>1, <3>4
      <4>2. f.payload[2] = d + 1 /\ v[i].payload[2] = j
        BY <3>2, <3>4
      <4>3. j \in D + 1 .. Len(sent[x])
        BY <1>1, <3>2, <3>4, <4>1, <4>2
      <4> QED
        BY <3>2, <4>3
    <3> QED
      BY <1>7, <3>3, <3>4
  <2>3. ASSUME NEW i \in 1 .. l, NEW j \in 1 .. l, i < j, v[i].kind = "I", v[j].kind = "I"
        PROVE  v[i].payload[2] < v[j].payload[2]
    <3>1. /\ v[i] = w[i + 1] /\ v[j] = w[j + 1]
          /\ i + 1 \in 1 .. l + 1 /\ j + 1 \in 1 .. l + 1 /\ i + 1 < j + 1
      BY <1>3, <1>9, <2>3
    <3> QED
      BY <2>1, <2>3, <3>1
  <2> HIDE DEF x
  <2> QED
    BY <1>8, <1>9, <2>2, <2>3, ZenonT(30) DEF MessagesAt, MessagesOn, v, D
<1>12. ASSUME duty = "AwaitAcknowledgement" PROVE AwaitAt(e, x)' /\ AwaitAt(x, e)'
  <2>1. AwaitAt(e, x) /\ AwaitAt(x, e)
    BY <1>1, <1>4, <1>12 DEF NumbersAt
  <2> HIDE DEF x
  <2> DEFINE r == Len(delivered[x]) % 8
  <2>2. AwaitAt(x, e)'
    <3> HIDE DEF r
    <3>1. /\ Len(sent[x]) <= acknowledged[x] + 1
          /\ \A i \in 1 .. l + 1 : Sequenced(w[i]) => w[i].nr \in {acknowledged[e] % 8, r}
          /\ \A i, j \in 1 .. l + 1 :
                i < j /\ Sequenced(w[i]) /\ Sequenced(w[j]) /\ w[i].nr = r => w[j].nr = r
      BY <1>9, <2>1 DEF AwaitAt, CountsOn, w, r
    <3>2. \/ acknowledged'[e] = acknowledged[e]
          \/ Sequenced(f) /\ f.nr = r
      BY <1>8 DEF r
    <3>3. ASSUME NEW i \in 1 .. l, Sequenced(v[i])
          PROVE  v[i].nr \in {acknowledged'[e] % 8, r}
      <4>1. v[i] = w[i + 1] /\ i + 1 \in 1 .. l + 1 /\ 1 < i + 1 /\ 1 \in 1 .. l + 1
        BY <1>3, <1>9
      <4>2. CASE acknowledged'[e] = acknowledged[e]
        BY <3>1, <3>3, <4>1, <4>2
      <4>3. CASE Sequenced(f) /\ f.nr = r
        BY <1>9, <3>1, <3>3, <4>1, <4>3
      <4> QED
        BY <3>2, <4>2, <4>3
    <3>4. ASSUME NEW i \in 1 .. l, NEW j \in 1 .. l, i < j, Sequenced(v[i]), Sequenced(v[j]),
                 v[i].nr = r
          PROVE  v[j].nr = r
      <4>1. /\ v[i] = w[i + 1] /\ v[j] = w[j + 1]
            /\ i + 1 \in 1 .. l + 1 /\ j + 1 \in 1 .. l + 1 /\ i + 1 < j + 1
        BY <1>3, <1>9, <3>4
      <4> QED
        BY <3>1, <3>4, <4>1
    <3> QED
      <4>1. CountsOn(v, acknowledged'[e], Len(delivered[x]))
        BY <1>9, <3>3, <3>4 DEF CountsOn, r
      <4> QED
        BY <1>8, <3>1, <4>1 DEF AwaitAt, v
  <2>3. AwaitAt(e, x)'
    <3>1. Len(sent'[e]) <= acknowledged'[e] + 1
      <4>1. Len(sent[e]) <= acknowledged[e] + 1
        BY <2>1 DEF AwaitAt
      <4>2. acknowledged'[e] = acknowledged[e] \/ acknowledged'[e] = Len(sent[e])
        BY <1>8
      <4>3. Len(sent'[e]) = Len(sent[e]) /\ Len(sent[e]) \in Nat
        BY <1>8, <1>1
      <4> QED
        BY <4>1, <4>2, <4>3
    <3> DEFINE u == wire[e]
    <3> HIDE DEF u
    <3>2. /\ \A i \in 1 .. Len(u) : Sequenced(u[i]) => u[i].nr \in {acknowledged[x] % 8, d % 8}
          /\ \A i, j \in 1 .. Len(u) :
                i < j /\ Sequenced(u[i]) /\ Sequenced(u[j]) /\ u[i].nr = d % 8 => u[j].nr = d % 8
      BY <2>1 DEF AwaitAt, CountsOn, u, d
    <3>3. CASE D = d
      <4>1. CountsOn(u, acknowledged[x], D)
        BY <2>1, <3>3 DEF AwaitAt, u, d
      <4> QED
        BY <1>8, <1>2, <3>1, <4>1 DEF AwaitAt, D, u
    <3>4. CASE d < Len(sent[x]) /\ D = d + 1
      <4>1. acknowledged[x] = d
        BY <1>1, <1>5, <2>1, <3>4 DEF AwaitAt, CountsOn
      <4>2. \A i \in 1 .. Len(u) : Sequenced(u[i]) => u[i].nr = d % 8
        BY <3>2, <4>1
      <4>3. d % 8 # D % 8
        BY <1>1, <3>4
      <4> QED
        <5>1. CountsOn(u, acknowledged[x], D)
          BY <4>1, <4>2, <4>3 DEF CountsOn
        <5> QED
          BY <1>8, <1>2, <3>1, <5>1 DEF AwaitAt, D, u
    <3> QED
      BY <1>7, <3>3, <3>4
  <2> QED
    BY <2>2, <2>3
<1> QED
  BY <1>10, <1>11, <1>12

\* The half-duplex line after a frame has left it.
LEMMA ShiftHalfDuplex ==
    ASSUME HistoryType, WireType, Numbers, NEW e \in Endpoint, wire[Peer[e]] # <<>>,
           duty = "HalfDuplex", wire' = [wire EXCEPT ![Peer[e]] = Tail(@)],
           UNCHANGED <<session, sent>>,
           delivered'[Peer[e]] = delivered[Peer[e]], state'[Peer[e]] = state[Peer[e]],
           Listens(e)' =>
               /\ Listens(e)
               /\ \/ wire[Peer[e]][1].kind # "I" /\ delivered'[e] = delivered[e]
                  \/ /\ wire[Peer[e]][1].payload[2] = Len(delivered[e]) + 1
                     /\ Len(delivered'[e]) = Len(delivered[e]) + 1,
           ~IsClient(e) /\ InSession(e)' => InSession(e) /\ wire[Peer[e]][1].kind # "UA",
           IsClient(e) /\ ~InSession(e)' /\ InSession(Peer[e]) =>
               ~InSession(e) /\ wire[Peer[e]][1].kind # "UA"
    PROVE  HalfDuplexAt(e)' /\ HalfDuplexAt(Peer[e])'
<1> DEFINE x == Peer[e]
           f == wire[x][1]
           l == Len(wire'[x])
           d == Len(delivered[e])
<1>1. /\ x \in Endpoint /\ Peer[x] = e /\ x # e
      /\ Len(sent[e]) \in Nat /\ d \in Nat
      /\ Len(sent[x]) \in Nat /\ Len(delivered[x]) \in Nat
      /\ IsClient(x) <=> ~IsClient(e)
  BY CountsType, TwoRoles
<1>2. /\ l \in Nat /\ Len(wire[x]) = l + 1
      /\ \A i \in 1 .. l : wire'[x][i] = wire[x][i + 1]
      /\ wire'[e] = wire[e]
  <2>1. l = Len(wire[x]) - 1 /\ Len(wire[x]) \in Nat /\ l \in Nat
    BY <1>1, ShiftEffect, EmptyWire
  <2> QED
    BY <1>1, <2>1, ShiftEffect
<1>3. /\ \A i \in 1 .. l : i + 1 \in 1 .. l + 1
      /\ \A i \in 1 .. l + 1 : i # 1 => i - 1 \in 1 .. l /\ i - 1 + 1 = i
  BY <1>2
<1>4. HalfDuplexAt(e) /\ HalfDuplexAt(x)
  BY <1>1 DEF Numbers, NumbersAt
<1>5. wire[e] = <<>> /\ wire'[e] = <<>> /\ 1 .. Len(wire[e]) = {} /\ 1 .. Len(wire'[e]) = {}
  <2>1. wire[e] = <<>> /\ wire'[e] = <<>>
    BY <1>2, <1>4 DEF HalfDuplexAt
  <2>2. Len(wire[e]) = 0 /\ Len(wire'[e]) = 0
    BY <2>1
  <2> QED
    BY <2>1, <2>2
<1>6. \A k : ~Has(e, k) /\ ~Has(e, k)'
  BY <1>5 DEF Has
<1>7. f.kind # "UA" /\ Has(x, "UA") => Has(x, "UA")'
  BY <1>1, ShiftHas
<1> HIDE DEF f, l
<1>8. UaComing(e)' /\ UaComing(x)'
  <2>1. UaComing(e)'
    <3> SUFFICES ASSUME IsClient(e), ~InSession(e)', InSession(x)' PROVE Has(x, "UA")'
      BY DEF UaComing, IsClient
    <3>1. InSession(x) /\ ~InSession(e) /\ f.kind # "UA"
      BY <1>1 DEF InSession, f
    <3> QED
      BY <1>1, <1>4, <1>6, <1>7, <3>1 DEF HalfDuplexAt, UaComing
  <2>2. UaComing(x)'
    <3> SUFFICES ASSUME IsClient(x), ~InSession(x)', InSession(e)' PROVE Has(x, "UA")'
      BY <1>1 DEF UaComing, IsClient
    <3>1. ~InSession(x) /\ InSession(e) /\ f.kind # "UA"
      BY <1>1 DEF InSession, f
    <3> QED
      BY <1>1, <1>4, <1>6, <1>7, <3>1 DEF HalfDuplexAt, UaComing
  <2> QED
    BY <2>1, <2>2
<1>9. ASSUME Listens(e)' PROVE Complete(e, x)'
  <2>1. /\ Complete(e, x)
        /\ \/ f.kind # "I" /\ Len(delivered'[e]) = d
           \/ f.payload[2] = d + 1 /\ Len(delivered'[e]) = d + 1
    BY <1>4, <1>9 DEF HalfDuplexAt, f
  <2>2. sent'[x] = sent[x]
    OBVIOUS
  <2> HIDE DEF d, x
  <2>3. ASSUME NEW j \in Len(delivered'[e]) + 1 .. Len(sent[x])
        PROVE  \E i \in 1 .. l : wire'[x][i].kind = "I" /\ wire'[x][i].payload[2] = j
    <3>1. j \in d + 1 .. Len(sent[x])
      BY <1>1, <2>1
    <3>2. PICK i \in 1 .. l + 1 : wire[x][i].kind = "I" /\ wire[x][i].payload[2] = j
      BY <1>2, <2>1, <3>1 DEF Complete, CompleteOn, d
    <3>3. i # 1
      BY <1>1, <2>1, <2>3, <3>2 DEF f
    <3>4. i - 1 \in 1 .. l /\ wire'[x][i - 1] = wire[x][i - 1 + 1] /\ i - 1 + 1 = i
      BY <1>2, <1>3, <3>2, <3>3
    <3>5. wire'[x][i - 1].kind = "I" /\ wire'[x][i - 1].payload[2] = j
      BY <3>2, <3>4
    <3> QED
      BY <3>4, <3>5
  <2> QED
    BY <2>3, <2>2 DEF Complete, CompleteOn, l
<1>10. ASSUME Listens(x)' PROVE Complete(x, e)'
  <2>1. Listens(x)
    BY <1>1, <1>6, <1>10 DEF Listens
  <2>2. Complete(x, e)
    BY <1>1, <1>4, <2>1 DEF HalfDuplexAt
  <2>3. sent'[e] = sent[e] /\ delivered'[x] = delivered[x]
    OBVIOUS
  <2> HIDE DEF x
  <2> QED
    BY <1>2, <2>2, <2>3 DEF Complete
<1>11. ConfirmsAll(x, e)' /\ ConfirmsAll(e, x)'
  <2>1. ConfirmsAll(x, e)
    BY <1>1, <1>4 DEF HalfDuplexAt
  <2>2. \A i \in 1 .. l : Sequenced(wire'[x][i]) =>
            wire'[x][i].nr = Len(sent[e]) % 8 /\ Len(delivered[x]) = Len(sent[e])
    BY <1>2, <1>3, <2>1, ZenonT(30) DEF ConfirmsAll, ConfirmsOn
  <2>3. ConfirmsAll(x, e)'
    BY <2>2 DEF ConfirmsAll, ConfirmsOn, l
  <2>4. ConfirmsAll(e, x)'
    BY <1>5 DEF ConfirmsAll, ConfirmsOn
  <2> QED
    BY <2>3, <2>4
<1>12. HalfDuplexAt(e)'
  BY <1>5, <1>8, <1>9, <1>11 DEF HalfDuplexAt
<1>13. HalfDuplexAt(x)'
  BY <1>1, <1>5, <1>8, <1>10, <1>11 DEF HalfDuplexAt
<1> QED
  BY <1>12, <1>13


\* What Deliver does, by the kind of the frame.
LEMMA DeliverCases ==
    ASSUME WireType, HistoryType, Phases, NEW e \in Endpoint, Deliver(e)
    PROVE  LET f == wire[Peer[e]][1]
           IN  \/ /\ ~Accepts(e, f)
                  /\ UNCHANGED <<sessionVars, delivered, acknowledged>>
               \/ /\ Accepts(e, f) /\ f.kind = "I" /\ ReceiveInformationFrame(e, f)
                  /\ delivered' = [delivered EXCEPT ![e] = Append(delivered[e], f.payload)]
                  /\ acknowledged' = [acknowledged EXCEPT ![e] = Len(sent[e])]
               \/ /\ Accepts(e, f) /\ f.kind = "RR" /\ UNCHANGED <<sessionVars, delivered>>
                  /\ acknowledged' = [acknowledged EXCEPT ![e] = Len(sent[e])]
               \/ /\ Accepts(e, f) /\ ~Sequenced(f)
                  /\ ReceiveSnrm(e, f) \/ ReceiveUa(e, f) \/ ReceiveDisc(e, f)
                  /\ UNCHANGED <<delivered, acknowledged>>
<1> DEFINE f == wire[Peer[e]][1]
<1>1. /\ Peer[e] \in Endpoint /\ Head(wire[Peer[e]]) = f /\ ReceiveFrame(e, f)
      /\ Len(wire[Peer[e]]) >= 1
  BY DeliverEffect, TwoRoles
<1>2. f.kind \in {"I", "RR", "DISC", "UA", "SNRM"}
  <2>1. Len(wire[Peer[e]]) \in Nat
    BY <1>1, EmptyWire
  <2> QED
    BY <1>1, <2>1, WireKinds DEF Carries
<1>3. /\ delivered' = IF Accepts(e, f) /\ f.kind = "I"
                      THEN [delivered EXCEPT ![e] = Append(delivered[e], f.payload)]
                      ELSE delivered
      /\ acknowledged' = IF Accepts(e, f) /\ f.kind \in SupervisoryKind \cup {"I"}
                         THEN [acknowledged EXCEPT ![e] = Len(sent[e])]
                         ELSE acknowledged
  BY <1>1 DEF Deliver
<1> HIDE DEF f
<1>4. CASE ~Accepts(e, f)
  BY <1>1, <1>3, <1>4 DEF ReceiveFrame, f
<1>5. CASE Accepts(e, f)
  <2>1. \/ ReceiveInformationFrame(e, f) \/ ReceiveSupervisoryFrame(e, f) \/ ReceiveSnrm(e, f)
        \/ ReceiveUa(e, f) \/ ReceiveDisc(e, f) \/ ReceiveDm(e, f)
    BY <1>1, <1>5 DEF ReceiveFrame
  <2>2. CASE f.kind = "I"
    BY <1>3, <1>5, <2>1, <2>2 DEF SupervisoryKind, ReceiveSupervisoryFrame, ReceiveSnrm,
                                  ReceiveUa, ReceiveDisc, ReceiveDm, f
  <2>3. CASE f.kind = "RR"
    BY <1>3, <1>5, <2>1, <2>3 DEF SupervisoryKind, ReceiveInformationFrame,
                                  ReceiveSupervisoryFrame, ReceiveSnrm, ReceiveUa,
                                  ReceiveDisc, ReceiveDm, f
  <2>4. CASE f.kind \notin {"I", "RR"}
    BY <1>2, <1>3, <1>5, <2>1, <2>4 DEF SupervisoryKind, ReceiveInformationFrame,
                                        ReceiveSupervisoryFrame, ReceiveDm, Sequenced, f
  <2> QED
    BY <2>2, <2>3, <2>4
<1> QED
  BY <1>4, <1>5

\* The first UA to a client that awaits a connection finds nothing counted.
LEMMA UaFinds ==
    ASSUME SessionInv, WireType, Phases, NEW e \in Endpoint, wire[Peer[e]] # <<>>
    PROVE  /\ state[e] = "AwaitingConnection" => IsClient(e) /\ Fresh(e)
           /\ IsClient(e) /\ state[e] = "AwaitingDisconnect" /\ wire[Peer[e]][1].kind = "UA"
                => ~InSession(Peer[e])
<1> DEFINE x == Peer[e]
<1>1. x \in Endpoint /\ 1 \in 1 .. Len(wire[x])
  BY TwoRoles, EmptyWire
<1>2. IsClient(e) => Phase(e, x)
  BY DEF Phases
<1>3. state[e] = "AwaitingConnection" => IsClient(e)
  BY DEF SessionInv, HandshakeRoles, IsClient
<1>4. IsClient(e) /\ state[e] = "AwaitingConnection" => Fresh(e)
  BY <1>2 DEF Phase, AtRest, Calling, Opened, InUse, ClientClosing, ServerLeft, ClientLeft
<1>5. ASSUME IsClient(e), state[e] = "AwaitingDisconnect", wire[x][1].kind = "UA"
      PROVE  ~InSession(x)
  <2>1. ClientClosing(e, x) \/ ServerLeft(e, x)
    BY <1>2, <1>5 DEF Phase, AtRest, Calling, Opened, InUse, ClientLeft
  <2>2. ~ClientClosing(e, x)
    BY <1>1, <1>5 DEF ClientClosing, Carries
  <2> QED
    BY <2>1, <2>2 DEF ServerLeft, InSession
<1> QED
  BY <1>3, <1>4, <1>5

\* A frame is rejected: nothing but the wire changes.
LEMMA RejectNumbers ==
    ASSUME SessionInv, HistoryType, WireType, Addressing, Phases, Numbers,
           NEW e \in Endpoint, wire[Peer[e]] # <<>>,
           wire' = [wire EXCEPT ![Peer[e]] = Tail(@)],
           UNCHANGED <<sessionVars, duty, session, messages>>,
           duty = "HalfDuplex" => ~Accepts(e, wire[Peer[e]][1])
    PROVE  Numbers'
<1> DEFINE x == Peer[e]
<1>1. x \in Endpoint /\ Peer[x] = e /\ \A y \in Endpoint : y = e \/ y = x
  BY TwoRoles
<1>2. /\ UNCHANGED <<session, sent, delivered, acknowledged>> /\ duty' = duty
      /\ UNCHANGED <<state, sendSequence, receiveSequence>>
  BY DEF messages, sessionVars, sequences
<1>3. ASSUME NEW y \in Endpoint PROVE HistoryAt(y)' /\ SequencesAt(y)'
  BY <1>2 DEF Numbers, NumbersAt, HistoryAt, SequencesAt, InSession
<1>4. /\ MessagesAt(e, x)' /\ MessagesAt(x, e)'
      /\ duty = "AwaitAcknowledgement" => AwaitAt(e, x)' /\ AwaitAt(x, e)'
  BY <1>2, ShiftNumbers
<1>5. ASSUME duty = "HalfDuplex" PROVE HalfDuplexAt(e)' /\ HalfDuplexAt(x)'
  <2>1. state[e] = "AwaitingDisconnect"
    BY <1>5, TakesAll
  <2>2. wire[x][1].kind # "UA"
    <3>1. 1 \in 1 .. Len(wire[x])
      BY <1>1, EmptyWire
    <3>2. Addressed(e, wire[x][1])
      BY <1>1, <3>1 DEF Addressing
    <3> QED
      BY <1>5, <2>1, <3>2 DEF Accepts, UaDisconnects
  <2>3. ~Listens(e)' /\ InSession(e)' /\ InSession(e)
    BY <1>2, <2>1 DEF Listens, InSession
  <2> QED
    BY <1>2, <1>5, <2>2, <2>3, ShiftHalfDuplex
<1> QED
  BY <1>1, <1>2, <1>3, <1>4, <1>5 DEF Numbers, NumbersAt

\* SNRM, UA or DISC is taken: the session changes, and no number that counts.
LEMMA HandshakeNumbers ==
    ASSUME SessionInv, HistoryType, WireType, Phases, Numbers,
           NEW e \in Endpoint, wire[Peer[e]] # <<>>,
           wire' = [wire EXCEPT ![Peer[e]] = Tail(@)], Accepts(e, wire[Peer[e]][1]),
           \/ ReceiveSnrm(e, wire[Peer[e]][1])
           \/ ReceiveUa(e, wire[Peer[e]][1])
           \/ ReceiveDisc(e, wire[Peer[e]][1]),
           UNCHANGED <<duty, session, messages>>
    PROVE  Numbers'
<1> DEFINE x == Peer[e]
           f == wire[x][1]
<1>1. /\ x \in Endpoint /\ Peer[x] = e /\ x # e /\ \A y \in Endpoint : y = e \/ y = x
      /\ Role(e) = "Server" <=> ~IsClient(e)
  BY TwoRoles
<1>2. UNCHANGED <<session, sent, delivered, acknowledged>> /\ duty' = duty
  BY DEF messages
<1>3. TypeOK
  BY DEF SessionInv
<1>4. /\ state'[x] = state[x] /\ sendSequence'[x] = sendSequence[x]
      /\ receiveSequence'[x] = receiveSequence[x]
  BY <1>1, <1>3 DEF ReceiveSnrm, ReceiveUa, ReceiveDisc, Enter, TypeOK, sequences
<1>5. \/ f.kind = "SNRM" /\ ~IsClient(e) /\ state'[e] = "Disconnected"
      \/ /\ f.kind = "UA" /\ state[e] = "AwaitingConnection" /\ state'[e] = "Connected"
         /\ sendSequence'[e] = 0 /\ receiveSequence'[e] = 0
      \/ f.kind = "UA" /\ state[e] = "AwaitingDisconnect" /\ state'[e] = "Disconnected"
      \/ /\ f.kind = "DISC" /\ state[e] = "Connected" /\ state'[e] = "Connected"
         /\ sendSequence'[e] = sendSequence[e] /\ receiveSequence'[e] = receiveSequence[e]
  <2>1. CASE ReceiveSnrm(e, f)
    BY <1>1, <1>3, <2>1 DEF ReceiveSnrm, Accepts, AcceptsSnrm, Enter, TypeOK, SupervisoryKind
  <2>2. CASE ReceiveUa(e, f)
    BY <1>3, <2>2 DEF ReceiveUa, Accepts, UaConnects, UaDisconnects, Enter, TypeOK,
                      SupervisoryKind
  <2>3. CASE ReceiveDisc(e, f)
    BY <1>3, <2>3 DEF ReceiveDisc, Accepts, TypeOK, SupervisoryKind, sequences
  <2> QED
    BY <2>1, <2>2, <2>3
<1>6. NumbersAt(e) /\ NumbersAt(x)
  BY <1>1 DEF Numbers
<1>7. ASSUME NEW y \in Endpoint PROVE HistoryAt(y)'
  BY <1>2 DEF Numbers, NumbersAt, HistoryAt
<1>8. SequencesAt(e)' /\ SequencesAt(x)'
  <2>1. SequencesAt(x)'
    BY <1>2, <1>4, <1>6 DEF NumbersAt, SequencesAt, InSession
  <2>2. ASSUME state[e] = "AwaitingConnection"
        PROVE  Len(sent[e]) % 8 = 0 /\ Len(delivered[e]) % 8 = 0
    <3>1. Len(sent[e]) = 0 /\ Len(delivered[e]) = 0
      BY <2>2, UaFinds DEF Fresh
    <3> QED
      BY <3>1
  <2>3. SequencesAt(e)'
    BY <1>2, <1>5, <1>6, <2>2 DEF NumbersAt, SequencesAt, InSession
  <2> QED
    BY <2>1, <2>3
<1>9. /\ MessagesAt(e, x)' /\ MessagesAt(x, e)'
      /\ duty = "AwaitAcknowledgement" => AwaitAt(e, x)' /\ AwaitAt(x, e)'
  BY <1>2, ShiftNumbers
<1>10. ASSUME duty = "HalfDuplex" PROVE HalfDuplexAt(e)' /\ HalfDuplexAt(x)'
  <2>1. f.kind # "I" /\ delivered'[e] = delivered[e] /\ delivered'[x] = delivered[x]
    BY <1>2, <1>5
  <2>2. Listens(e)' => Listens(e)
    <3>1. f.kind = "UA" => Has(x, "UA")
      BY <1>1, ShiftHas
    <3> QED
      BY <1>5, <3>1 DEF Listens
  <2>3. ~IsClient(e) /\ InSession(e)' => InSession(e) /\ f.kind # "UA"
    BY <1>5, UaFinds DEF InSession
  <2>4. IsClient(e) /\ ~InSession(e)' /\ InSession(x) => ~InSession(e) /\ f.kind # "UA"
    BY <1>5, UaFinds DEF InSession
  <2> QED
    BY <1>2, <1>4, <1>10, <2>1, <2>2, <2>3, <2>4, ShiftHalfDuplex
<1> QED
  BY <1>1, <1>2, <1>7, <1>8, <1>9, <1>10 DEF Numbers, NumbersAt


\* An I-frame or RR is taken.
LEMMA TakenNumbers ==
    ASSUME SessionInv, HistoryType, WireType, Phases, Numbers,
           NEW e \in Endpoint, wire[Peer[e]] # <<>>,
           wire' = [wire EXCEPT ![Peer[e]] = Tail(@)], Accepts(e, wire[Peer[e]][1]),
           Sequenced(wire[Peer[e]][1]), UNCHANGED <<state, sendSequence, duty, session, sent>>,
           acknowledged' = [acknowledged EXCEPT ![e] = Len(sent[e])],
           \/ wire[Peer[e]][1].kind # "I" /\ UNCHANGED <<receiveSequence, delivered>>
           \/ /\ wire[Peer[e]][1].kind = "I"
              /\ receiveSequence' =
                     [receiveSequence EXCEPT ![e] = NextSequence(receiveSequence[e])]
              /\ delivered' =
                     [delivered EXCEPT ![e] = Append(delivered[e], wire[Peer[e]][1].payload)]
    PROVE  Numbers' /\ HistoryType'
<1> DEFINE x == Peer[e]
           f == wire[x][1]
           d == Len(delivered[e])
<1>1. /\ x \in Endpoint /\ Peer[x] = e /\ x # e /\ \A y \in Endpoint : y = e \/ y = x
      /\ Len(sent[e]) \in Nat /\ d \in Nat /\ acknowledged[e] \in Nat
      /\ Len(sent[x]) \in Nat /\ Len(delivered[x]) \in Nat /\ acknowledged[x] \in Nat
      /\ delivered[e] \in Seq(Payload)
  BY CountsType, TwoRoles DEF HistoryType
<1>2. /\ state[e] = "Connected"
      /\ f.nr = Len(sent[e]) % 8 /\ Len(delivered[x]) = Len(sent[e])
      /\ f.kind = "I" => f.payload = <<session, d + 1>> /\ d < Len(sent[x])
  BY TakenCounts
<1>3. f.kind = "I" => f.payload \in Payload
  <2>1. f \in Frame
    BY <1>1, ShiftEffect
  <2> QED
    BY <2>1 DEF Frame, SupervisoryKind, UnnumberedKind
<1>4. /\ acknowledged'[e] = Len(sent[e]) /\ acknowledged'[x] = acknowledged[x]
      /\ acknowledged' \in [Endpoint -> Nat]
  BY <1>1 DEF HistoryType
<1>5. /\ delivered'[x] = delivered[x] /\ receiveSequence'[x] = receiveSequence[x]
      /\ delivered' \in [Endpoint -> Seq(Payload)]
  <2>1. delivered'[x] = delivered[x]
    BY <1>1 DEF HistoryType
  <2>2. receiveSequence'[x] = receiveSequence[x]
    BY <1>1 DEF SessionInv, TypeOK
  <2>3. CASE f.kind = "I"
    <3>1. Append(delivered[e], f.payload) \in Seq(Payload)
      BY <1>1, <1>3, <2>3
    <3> HIDE DEF f
    <3>2. delivered' = [delivered EXCEPT ![e] = Append(delivered[e], f.payload)]
      BY <2>3 DEF f
    <3> QED
      BY <2>1, <2>2, <3>1, <3>2 DEF HistoryType
  <2>4. CASE f.kind # "I"
    BY <2>1, <2>2, <2>4 DEF HistoryType
  <2> QED
    BY <2>3, <2>4
<1>6. \/ /\ f.kind # "I" /\ delivered'[e] = delivered[e]
         /\ receiveSequence'[e] = receiveSequence[e]
      \/ /\ f.kind = "I" /\ delivered'[e] = Append(delivered[e], <<session, d + 1>>)
         /\ <<session, d + 1>> \in Payload
         /\ receiveSequence'[e] = NextSequence(receiveSequence[e])
  BY <1>2, <1>3 DEF HistoryType, SessionInv, TypeOK
<1>7. \/ /\ f.kind # "I" /\ delivered'[e] = delivered[e] /\ Len(delivered'[e]) = d
         /\ receiveSequence'[e] = receiveSequence[e]
      \/ /\ f.kind = "I" /\ f.payload = <<session, d + 1>> /\ d < Len(sent[x])
         /\ Len(delivered'[e]) = d + 1 /\ delivered'[e][d + 1] = <<session, d + 1>>
         /\ \A i \in 1 .. d : delivered'[e][i] = delivered[e][i]
         /\ receiveSequence'[e] = NextSequence(receiveSequence[e])
  BY <1>1, <1>2, <1>6, SMTT(30)
<1>8. NumbersAt(e) /\ NumbersAt(x)
  BY <1>1 DEF Numbers
<1>9. HistoryAt(e) /\ HistoryAt(x)
  BY <1>8 DEF NumbersAt
<1> HIDE DEF f, d
<1>10. HistoryType'
  BY <1>4, <1>5 DEF HistoryType
<1>11. HistoryAt(e)'
  <2>1. acknowledged'[e] = Len(delivered'[x]) /\ Len(delivered'[x]) = Len(sent'[e])
    BY <1>2, <1>4, <1>5
  <2>2. Len(delivered'[x]) <= Len(sent'[e]) /\ acknowledged'[e] <= Len(delivered'[x])
    BY <1>1, <2>1
  <2> HIDE DEF x
  <2> QED
    BY <1>5, <1>9, <2>2 DEF HistoryAt, x
<1>12. HistoryAt(x)'
  <2>1. /\ acknowledged[x] <= d /\ d <= Len(sent[x])
        /\ \A i \in 1 .. d : delivered[e][i] = <<session, i>>
    BY <1>1, <1>9 DEF HistoryAt, d
  <2>2. /\ acknowledged'[x] <= Len(delivered'[e]) /\ Len(delivered'[e]) <= Len(sent'[x])
    BY <1>1, <1>4, <1>7, <2>1
  <2>3. ASSUME NEW i \in 1 .. Len(delivered'[e]) PROVE delivered'[e][i] = <<session', i>>
    <3>1. CASE f.kind # "I"
      BY <1>7, <2>1, <3>1
    <3>2. CASE f.kind = "I"
      <4>1. i \in 1 .. d \/ i = d + 1
        BY <1>1, <1>7, <3>2
      <4> QED
        BY <1>7, <2>1, <3>2, <4>1
    <3> QED
      BY <3>1, <3>2
  <2>4. \A i \in 1 .. Len(sent'[x]) : sent'[x][i] = <<session', i>>
    BY <1>9 DEF HistoryAt
  <2> QED
    BY <1>1, <2>2, <2>3, <2>4 DEF HistoryAt
<1>13. SequencesAt(e)' /\ SequencesAt(x)'
  <2>1. sendSequence[e] = Len(sent[e]) % 8 /\ receiveSequence[e] = d % 8
    BY <1>2, <1>8 DEF NumbersAt, SequencesAt, InSession, d
  <2>2. receiveSequence'[e] = Len(delivered'[e]) % 8
    BY <1>1, <1>7, <2>1, NextRemainder
  <2>3. SequencesAt(e)'
    BY <2>1, <2>2 DEF SequencesAt
  <2>4. SequencesAt(x)'
    BY <1>5, <1>8 DEF NumbersAt, SequencesAt, InSession
  <2> QED
    BY <2>3, <2>4
<1>14. /\ MessagesAt(e, x)' /\ MessagesAt(x, e)'
       /\ duty = "AwaitAcknowledgement" => AwaitAt(e, x)' /\ AwaitAt(x, e)'
  BY <1>2, <1>4, <1>5, <1>7, ShiftNumbers DEF f, d
<1>15. ASSUME duty = "HalfDuplex" PROVE HalfDuplexAt(e)' /\ HalfDuplexAt(x)'
  <2>1. f.kind # "UA" /\ InSession(e) /\ InSession(e)' /\ Listens(e)
    BY <1>2 DEF Sequenced, InSession, Listens, f
  <2>2. \/ f.kind # "I" /\ delivered'[e] = delivered[e]
        \/ f.payload[2] = d + 1 /\ Len(delivered'[e]) = d + 1
    BY <1>7
  <2> QED
    BY <1>5, <1>15, <2>1, <2>2, ShiftHalfDuplex DEF f, d
<1> QED
  BY <1>1, <1>10, <1>11, <1>12, <1>13, <1>14, <1>15 DEF Numbers, NumbersAt

LEMMA DeliverNumbers ==
    ASSUME SessionInv, HistoryType, WireType, Addressing, Phases, Numbers,
           NEW e \in Endpoint, Deliver(e)
    PROVE  Numbers' /\ HistoryType'
<1> DEFINE f == wire[Peer[e]][1]
<1>1. /\ wire[Peer[e]] # <<>> /\ wire' = [wire EXCEPT ![Peer[e]] = Tail(@)]
      /\ UNCHANGED <<duty, session, sent>>
  BY DeliverEffect DEF Deliver
<1>2. CASE ~Accepts(e, f) /\ UNCHANGED <<sessionVars, delivered, acknowledged>>
  <2>1. Numbers'
    BY <1>1, <1>2, RejectNumbers DEF messages
  <2> QED
    BY <1>1, <1>2, <2>1 DEF HistoryType
<1>3. CASE /\ Accepts(e, f) /\ f.kind = "I" /\ ReceiveInformationFrame(e, f)
           /\ delivered' = [delivered EXCEPT ![e] = Append(delivered[e], f.payload)]
           /\ acknowledged' = [acknowledged EXCEPT ![e] = Len(sent[e])]
  <2>1. /\ receiveSequence' = [receiveSequence EXCEPT ![e] = NextSequence(receiveSequence[e])]
        /\ UNCHANGED <<state, sendSequence>>
    BY <1>3 DEF ReceiveInformationFrame
  <2>2. Sequenced(f)
    BY <1>3 DEF Sequenced
  <2> QED
    BY <1>1, <1>3, <2>1, <2>2, TakenNumbers
<1>4. CASE /\ Accepts(e, f) /\ f.kind = "RR" /\ UNCHANGED <<sessionVars, delivered>>
           /\ acknowledged' = [acknowledged EXCEPT ![e] = Len(sent[e])]
  <2>1. Sequenced(f) /\ f.kind # "I" /\ UNCHANGED <<state, sendSequence, receiveSequence>>
    BY <1>4 DEF Sequenced, sessionVars, sequences
  <2> QED
    BY <1>1, <1>4, <2>1, TakenNumbers
<1>5. CASE /\ Accepts(e, f) /\ ~Sequenced(f)
           /\ ReceiveSnrm(e, f) \/ ReceiveUa(e, f) \/ ReceiveDisc(e, f)
           /\ UNCHANGED <<delivered, acknowledged>>
  <2>1. Numbers'
    BY <1>1, <1>5, HandshakeNumbers DEF messages
  <2> QED
    BY <1>1, <1>5, <2>1 DEF HistoryType
<1> QED
  BY <1>2, <1>3, <1>4, <1>5, DeliverCases

\* The handshakes that are not the beginning of a session.
LEMMA OtherNumbers ==
    ASSUME SessionInv, HistoryType, WireType, Phases, Numbers, NEW e \in Endpoint,
           Connect(e) \/ Disconnect(e) \/ AnswerDisconnect(e)
    PROVE  Numbers'
<1> DEFINE x == Peer[e]
<1>1. x \in Endpoint /\ x # e /\ Peer[x] = e /\ TypeOK
  BY TwoRoles DEF SessionInv
<1>2. CASE Connect(e)
  <2> DEFINE f == Unnumbered(e, "SNRM")
  <2>1. BuildConnectRequest(e) /\ Send(e, f) /\ UNCHANGED <<session, messages>>
    BY <1>2 DEF Connect
  <2>2. f \in Frame /\ f.kind = "SNRM"
    BY UnnumberedType DEF UnnumberedKind
  <2> HIDE DEF f
  <2>3. /\ state[e] = "Disconnected" /\ state'[e] = "AwaitingConnection"
        /\ state'[x] = state[x] /\ sendSequence'[x] = sendSequence[x]
        /\ receiveSequence'[x] = receiveSequence[x]
    BY <1>1, <2>1 DEF BuildConnectRequest, Enter, TypeOK
  <2> QED
    BY <2>1, <2>2, <2>3, PlainSendNumbers DEF Sequenced, InSession
<1>3. CASE Disconnect(e)
  <2> DEFINE f == Unnumbered(e, "DISC")
  <2>1. BuildDisconnectRequest(e) /\ Send(e, f) /\ UNCHANGED <<session, messages>>
    BY <1>3 DEF Disconnect
  <2>2. f \in Frame /\ f.kind = "DISC"
    BY UnnumberedType DEF UnnumberedKind
  <2> HIDE DEF f
  <2>3. /\ state[e] = "Connected" /\ state'[e] = "AwaitingDisconnect"
        /\ state'[x] = state[x] /\ UNCHANGED <<sendSequence, receiveSequence>>
    BY <1>1, <2>1 DEF BuildDisconnectRequest, TypeOK, sequences
  <2> QED
    BY <2>1, <2>2, <2>3, PlainSendNumbers DEF Sequenced, InSession
<1>4. CASE AnswerDisconnect(e)
  <2> DEFINE f == Unnumbered(e, "UA")
  <2>1. /\ BuildDisconnectResponse(e) /\ Send(e, f) /\ UNCHANGED <<session, messages>>
        /\ disconnectResponsePending[e]
    BY <1>4 DEF AnswerDisconnect, BuildDisconnectResponse
  <2>2. f \in Frame /\ f.kind = "UA"
    BY UnnumberedType DEF UnnumberedKind
  <2> HIDE DEF f
  <2>3. /\ state'[e] = "Disconnected"
        /\ state'[x] = state[x] /\ sendSequence'[x] = sendSequence[x]
        /\ receiveSequence'[x] = receiveSequence[x]
    BY <1>1, <2>1 DEF BuildDisconnectResponse, Enter, TypeOK
  <2>4. state[x] # "AwaitingConnection"
    <3>1. CASE IsClient(x)
      BY <1>1, <2>1, <3>1 DEF Phases, Phase, AtRest, Calling, Opened, InUse, ClientClosing,
                              ServerLeft, ClientLeft, NoneDue
    <3>2. CASE ~IsClient(x)
      BY <1>1, <3>2 DEF SessionInv, HandshakeRoles, IsClient
    <3> QED
      BY <3>1, <3>2
  <2> QED
    BY <2>1, <2>2, <2>3, <2>4, PlainSendNumbers DEF Sequenced, InSession
<1> QED
  BY <1>2, <1>3, <1>4

\* A frame is lost before it reaches the peer.
LEMMA LoseNumbers ==
    ASSUME SessionInv, HistoryType, WireType, Addressing, Phases, Numbers,
           NEW e \in Endpoint, Lose(e)
    PROVE  Numbers'
<1> DEFINE x == Peer[e]
<1>1. x \in Endpoint /\ Peer[x] = e
  BY TwoRoles
<1>2. /\ wire[e] # <<>> /\ wire' = [wire EXCEPT ![e] = Tail(@)] /\ duty # "HalfDuplex"
      /\ UNCHANGED <<sessionVars, duty, session, messages>>
  BY DEF Lose
<1>3. wire[Peer[x]] # <<>> /\ wire' = [wire EXCEPT ![Peer[x]] = Tail(@)]
  BY <1>1, <1>2
<1> QED
  BY <1>1, <1>2, <1>3, RejectNumbers

LEMMA StepNumbers ==
    ASSUME SessionInv, HistoryType, WireType, Addressing, Phases, Numbers,
           NEW e \in Endpoint, LinkStep(e)
    PROVE  Numbers'
<1>1. CASE AcceptConnection(e)
  BY <1>1, AcceptNumbers
<1>2. CASE SendMessage(e)
  BY <1>2, MessageNumbers
<1>3. CASE AcknowledgeReceipt(e)
  BY <1>3, ReceiptNumbers
<1>4. CASE Deliver(e)
  BY <1>4, DeliverNumbers
<1>5. CASE Lose(e)
  BY <1>5, LoseNumbers
<1> QED
  BY <1>1, <1>2, <1>3, <1>4, <1>5, OtherNumbers DEF LinkStep

-----------------------------------------------------------------------------
(***************************************************************************)
(* The types of the link, and the addresses on it.                         *)
(***************************************************************************)
LEMMA StepTypes ==
    ASSUME SessionInv, HistoryType, WireType, Addressing, Phases, Numbers,
           NEW e \in Endpoint, LinkStep(e)
    PROVE  HistoryType' /\ WireType'
<1>0. TypeOK
  BY DEF SessionInv
<1>1. CASE Connect(e)
  <2>1. Unnumbered(e, "SNRM") \in Frame
    BY UnnumberedType DEF UnnumberedKind
  <2> QED
    BY <1>1, <2>1, SendEffect DEF Connect, Send, HistoryType, WireType, messages
<1>2. CASE AcceptConnection(e)
  <2>1. Unnumbered(e, "UA") \in Frame
    BY UnnumberedType DEF UnnumberedKind
  <2>2. WireType' /\ duty' = duty
    BY <1>2, <2>1, SendEffect DEF AcceptConnection, Send, WireType
  <2>3. session < MaxSessions
    BY <1>0, <1>2, AcceptPhases DEF Calling
  <2>4. session' \in 0 .. MaxSessions
    BY <1>2, <2>3, GoLinkAssumption DEF AcceptConnection, HistoryType
  <2> QED
    BY <1>2, <2>2, <2>4 DEF AcceptConnection, HistoryType
<1>3. CASE Disconnect(e)
  <2>1. Unnumbered(e, "DISC") \in Frame
    BY UnnumberedType DEF UnnumberedKind
  <2> QED
    BY <1>3, <2>1, SendEffect DEF Disconnect, Send, HistoryType, WireType, messages
<1>4. CASE AnswerDisconnect(e)
  <2>1. Unnumbered(e, "UA") \in Frame
    BY UnnumberedType DEF UnnumberedKind
  <2> QED
    BY <1>4, <2>1, SendEffect DEF AnswerDisconnect, Send, HistoryType, WireType, messages
<1>5. CASE SendMessage(e)
  <2> DEFINE m == <<session, Len(sent[e]) + 1>>
  <2>1. /\ state[e] = "Connected" /\ Len(sent[e]) < MaxMessages[e] /\ Send(e, IFrame(e, m))
        /\ sent' = [sent EXCEPT ![e] = Append(sent[e], m)]
        /\ UNCHANGED <<session, delivered, acknowledged>>
    BY <1>5 DEF SendMessage, BuildInformationFrame
  <2>2. m \in Payload
    BY <2>1, MessageInBounds
  <2>3. IFrame(e, m) \in Frame
    BY <1>0, <2>2, IFrameType
  <2>4. WireType' /\ duty' = duty
    BY <2>1, <2>3, SendEffect DEF Send, WireType
  <2>5. Append(sent[e], m) \in Seq(Payload)
    BY <2>2 DEF HistoryType
  <2> HIDE DEF m
  <2> QED
    BY <2>1, <2>4, <2>5 DEF HistoryType
<1>6. CASE AcknowledgeReceipt(e)
  <2>1. ReceiveReadyFrame(e) \in Frame
    BY <1>0, ReceiveReadyType
  <2> QED
    BY <1>6, <2>1, SendEffect DEF AcknowledgeReceipt, Send, HistoryType, WireType, messages
<1>7. CASE Deliver(e)
  BY <1>7, DeliverEffect, DeliverNumbers
<1>8. CASE Lose(e)
  <2>1. wire' \in [Endpoint -> Seq(Frame)]
    BY <1>8, ShiftEffect DEF Lose
  <2>2. losses' \in Nat
    BY <1>8 DEF Lose, WireType
  <2> QED
    BY <1>8, <2>1, <2>2 DEF Lose, HistoryType, WireType, messages
<1> QED
  BY <1>1, <1>2, <1>3, <1>4, <1>5, <1>6, <1>7, <1>8 DEF LinkStep

LEMMA SendAddressing ==
    ASSUME WireType, Addressing, NEW e \in Endpoint, NEW f \in Frame, Send(e, f),
           Addressed(Peer[e], f)
    PROVE  Addressing'
<1>1. /\ Len(wire[e]) \in Nat /\ Len(wire'[e]) = Len(wire[e]) + 1
      /\ wire'[e][Len(wire[e]) + 1] = f
      /\ \A i \in 1 .. Len(wire[e]) : wire'[e][i] = wire[e][i]
  BY SendEffect, EmptyWire
<1> DEFINE l == Len(wire[e])
<1>2. \A i \in 1 .. l + 1 : i \in 1 .. l \/ i = l + 1
  BY <1>1
<1>3. \A x \in Endpoint : x # e => wire'[x] = wire[x]
  BY SendEffect, TwoRoles
<1>4. \A i \in 1 .. Len(wire'[e]) : Addressed(Peer[e], wire'[e][i])
  BY <1>1, <1>2 DEF Addressing, Addressed
<1> QED
  BY <1>3, <1>4 DEF Addressing, Addressed

LEMMA ShiftAddressing ==
    ASSUME WireType, Addressing, NEW e \in Endpoint, wire[e] # <<>>,
           wire' = [wire EXCEPT ![e] = Tail(@)]
    PROVE  Addressing'
<1>1. /\ Len(wire[e]) \in Nat /\ Len(wire'[e]) = Len(wire[e]) - 1
      /\ \A i \in 1 .. Len(wire'[e]) : wire'[e][i] = wire[e][i + 1]
  BY ShiftEffect, EmptyWire
<1>2. \A i \in 1 .. Len(wire'[e]) : i + 1 \in 1 .. Len(wire[e])
  BY <1>1
<1>3. \A x \in Endpoint : x # e => wire'[x] = wire[x]
  BY ShiftEffect, TwoRoles
<1>4. \A i \in 1 .. Len(wire'[e]) : Addressed(Peer[e], wire'[e][i])
  BY <1>1, <1>2 DEF Addressing, Addressed
<1> QED
  BY <1>3, <1>4 DEF Addressing, Addressed

LEMMA StepAddressing ==
    ASSUME SessionInv, HistoryType, WireType, Addressing, Phases, NEW e \in Endpoint, LinkStep(e)
    PROVE  Addressing'
<1>0. TypeOK
  BY DEF SessionInv
<1>1. \A kind \in UnnumberedKind :
          Unnumbered(e, kind) \in Frame /\ Addressed(Peer[e], Unnumbered(e, kind))
  BY UnnumberedType
<1>2. CASE Connect(e) \/ AcceptConnection(e) \/ Disconnect(e) \/ AnswerDisconnect(e)
  <2>1. PICK kind \in UnnumberedKind : Send(e, Unnumbered(e, kind))
    BY <1>2 DEF Connect, AcceptConnection, Disconnect, AnswerDisconnect, UnnumberedKind
  <2> QED
    BY <1>1, <2>1, SendAddressing
<1>3. CASE SendMessage(e)
  <2> DEFINE m == <<session, Len(sent[e]) + 1>>
  <2>1. state[e] = "Connected" /\ Len(sent[e]) < MaxMessages[e] /\ Send(e, IFrame(e, m))
    BY <1>3 DEF SendMessage, BuildInformationFrame
  <2>2. m \in Payload
    BY <2>1, MessageInBounds
  <2> HIDE DEF m
  <2> QED
    BY <1>0, <2>1, <2>2, IFrameType, SendAddressing
<1>4. CASE AcknowledgeReceipt(e)
  BY <1>0, <1>4, ReceiveReadyType, SendAddressing DEF AcknowledgeReceipt
<1>5. CASE Deliver(e)
  BY <1>5, DeliverEffect, ShiftAddressing, TwoRoles
<1>6. CASE Lose(e)
  BY <1>6, ShiftAddressing DEF Lose
<1> QED
  BY <1>2, <1>3, <1>4, <1>5, <1>6 DEF LinkStep

-----------------------------------------------------------------------------
(***************************************************************************)
(* The invariant holds.                                                    *)
(***************************************************************************)
LEMMA InitGoLinkInv == LinkInit => SessionInv /\ GoLinkInv
<1> SUFFICES ASSUME LinkInit PROVE SessionInv /\ GoLinkInv
  OBVIOUS
<1>1. SessionInv
  BY InitInv DEF LinkInit
<1>2. HistoryType /\ WireType
  BY GoLinkAssumption DEF LinkInit, HistoryType, WireType
<1>3. ASSUME NEW e \in Endpoint PROVE Len(wire[e]) = 0
  <2>1. wire[e] = <<>>
    BY DEF LinkInit
  <2> QED
    BY <2>1
<1>4. Addressing
  BY <1>3 DEF Addressing
<1>5. ASSUME NEW e \in Endpoint PROVE NumbersAt(e)
  <2> DEFINE p == Peer[e]
  <2>1. p \in Endpoint
    BY TwoRoles
  <2>2. /\ sent[e] = <<>> /\ delivered[e] = <<>> /\ sent[p] = <<>> /\ delivered[p] = <<>>
        /\ acknowledged[e] = 0 /\ wire[e] = <<>>
        /\ state[e] = "Disconnected" /\ state[p] = "Disconnected"
    BY <2>1 DEF LinkInit, Init
  <2>3. /\ Len(sent[e]) = 0 /\ Len(delivered[e]) = 0 /\ Len(sent[p]) = 0 /\ Len(delivered[p]) = 0
        /\ Len(wire[e]) = 0
    BY <1>3, <2>2
  <2>4. HistoryAt(e)
    BY <2>2, <2>3 DEF HistoryAt
  <2>5. SequencesAt(e)
    BY <2>2 DEF SequencesAt, InSession
  <2>6. MessagesAt(e, p)
    BY <2>3 DEF MessagesAt, MessagesOn
  <2>7. AwaitAt(e, p)
    BY <2>2, <2>3 DEF AwaitAt, CountsOn
  <2>8. HalfDuplexAt(e)
    BY <2>2, <2>3 DEF HalfDuplexAt, UaComing, InSession, Listens, ConfirmsAll, ConfirmsOn
  <2> QED
    BY <2>4, <2>5, <2>6, <2>7, <2>8 DEF NumbersAt
<1> QED
  BY <1>1, <1>2, <1>4, <1>5, InitPhases DEF GoLinkInv, PhaseInv, Numbers

LEMMA StepGoLinkInv ==
    SessionInv /\ GoLinkInv /\ [LinkNext]_linkVars => (SessionInv /\ GoLinkInv)'
<1> SUFFICES ASSUME SessionInv, GoLinkInv, [LinkNext]_linkVars
             PROVE  (SessionInv /\ GoLinkInv)'
  OBVIOUS
<1>1. HistoryType /\ WireType /\ Addressing /\ Phases /\ Numbers
  BY DEF GoLinkInv, PhaseInv
<1>2. ASSUME NEW e \in Endpoint, LinkStep(e) PROVE (SessionInv /\ GoLinkInv)'
  <2>1. SessionInv'
    BY <1>2, LinkStepSession
  <2>2. HistoryType' /\ WireType'
    BY <1>1, <1>2, StepTypes
  <2>3. Addressing' /\ Phases'
    BY <1>1, <1>2, StepAddressing, StepPhases
  <2>4. Numbers'
    BY <1>1, <1>2, StepNumbers
  <2> QED
    BY <2>1, <2>2, <2>3, <2>4 DEF GoLinkInv, PhaseInv
<1>3. CASE UNCHANGED linkVars
  <2>1. /\ UNCHANGED <<state, sendSequence, receiveSequence>>
        /\ UNCHANGED <<connectResponsePending, disconnectResponsePending>>
        /\ UNCHANGED <<duty, wire, losses, session, sent, delivered, acknowledged>>
    BY <1>3 DEF linkVars, sessionVars, sequences, pending, messages
  <2>2. SessionInv'
    BY <2>1 DEF SessionInv, TypeOK, FreshOutsideSession, HandshakeRoles, InSession, Role
  <2>3. HistoryType' /\ WireType' /\ Addressing'
    BY <1>1, <2>1 DEF HistoryType, WireType, Addressing, Addressed
  <2>4. Phases'
    BY <1>1, <2>1, SMTT(30) DEF Phases, Phase, AtRest, Calling, Opened, InUse, ClientClosing,
       ServerLeft, ClientLeft, Carries, Lacks, Begins, Ends, Precedes, Fresh, NoneDue, InSession
  <2>5. Numbers'
    BY <1>1, <2>1 DEF Numbers, NumbersAt, HistoryAt, SequencesAt, InSession, MessagesAt, AwaitAt,
       HalfDuplexAt, UaComing, Listens, Has, Complete, ConfirmsAll
  <2> QED
    BY <2>2, <2>3, <2>4, <2>5 DEF GoLinkInv, PhaseInv
<1> QED
  BY <1>2, <1>3 DEF LinkNext

LEMMA GoLinkInvariantHolds == LinkSpec => [](SessionInv /\ GoLinkInv)
BY InitGoLinkInv, StepGoLinkInv, PTL DEF LinkSpec

\* On a half-duplex line a session refuses nothing of its peer's unless it is
\* itself closing: ReceiveFrame's test that N(R) is V(S), which knows of no
\* window, always finds all that was sent delivered, however much that is.
THEOREM HalfDuplexTakesAll == LinkSpec => []NothingRejected
<1>1. SessionInv /\ GoLinkInv => NothingRejected
  <2> SUFFICES ASSUME SessionInv, GoLinkInv, NEW e \in Endpoint, duty = "HalfDuplex",
                      wire[Peer[e]] # <<>>, state[e] # "AwaitingDisconnect"
               PROVE  Accepts(e, Head(wire[Peer[e]]))
    BY DEF NothingRejected
  <2>1. HistoryType /\ WireType /\ Addressing /\ Phases /\ Numbers
    BY DEF GoLinkInv, PhaseInv
  <2>2. wire[Peer[e]] \in Seq(Frame)
    BY <2>1, TwoRoles DEF WireType
  <2>3. Head(wire[Peer[e]]) = wire[Peer[e]][1]
    BY <2>2
  <2> QED
    BY <2>1, <2>3, TakesAll
<1> QED
  BY <1>1, GoLinkInvariantHolds, PTL

-----------------------------------------------------------------------------
(***************************************************************************)
(* The link implements the service, step by step.                          *)
(***************************************************************************)
LEMMA DeliverServes ==
    ASSUME SessionInv, GoLinkInv, NEW e \in Endpoint, Deliver(e)
    PROVE  \/ UNCHANGED messages
           \/ \E n \in 0 .. Len(delivered[Peer[e]]) :
                  Service!Confirm(e, n) \/ Service!Hand(e, n)
<1> DEFINE p == Peer[e]
           f == wire[p][1]
           n == Len(sent[e])
           d == Len(delivered[e])
<1>1. HistoryType /\ WireType /\ Addressing /\ Phases /\ Numbers
  BY DEF GoLinkInv, PhaseInv
<1>2. /\ p \in Endpoint /\ Peer[p] = e
      /\ n \in Nat /\ d \in Nat /\ Len(sent[p]) \in Nat /\ Len(delivered[p]) \in Nat
      /\ acknowledged[e] \in Nat
  BY <1>1, CountsType, TwoRoles
<1>3. wire[p] # <<>> /\ sent' = sent
  BY DEF Deliver
<1>4. CASE UNCHANGED <<delivered, acknowledged>>
  BY <1>3, <1>4 DEF messages
<1>5. CASE Accepts(e, f) /\ Sequenced(f) /\ acknowledged' = [acknowledged EXCEPT ![e] = n]
  <2>1. /\ Len(delivered[p]) = n
        /\ f.kind = "I" => f.payload = <<session, d + 1>> /\ d < Len(sent[p])
    BY <1>1, <1>3, <1>5, TakenCounts
  <2>2. n \in 0 .. Len(delivered[p]) /\ n <= Len(delivered[p]) /\ n >= acknowledged[e]
    <3>1. acknowledged[e] <= Len(delivered[p])
      BY <1>1 DEF Numbers, NumbersAt, HistoryAt
    <3> QED
      BY <1>2, <2>1, <3>1
  <2> HIDE DEF n, f, d
  <2>3. CASE delivered' = delivered
    <3>1. Service!Confirm(e, n)
      BY <1>3, <1>5, <2>2, <2>3 DEF Service!Confirm
    <3> QED
      BY <2>2, <3>1
  <2>4. CASE /\ f.kind = "I"
             /\ delivered' = [delivered EXCEPT ![e] = Append(delivered[e], f.payload)]
    <3>1. sent[p][d + 1] = <<session, d + 1>>
      <4>1. HistoryAt(p)
        BY <1>1, <1>2 DEF Numbers, NumbersAt
      <4>2. d + 1 \in 1 .. Len(sent[p])
        BY <1>2, <2>1, <2>4
      <4> QED
        BY <4>1, <4>2 DEF HistoryAt
    <3>2. delivered' = [delivered EXCEPT ![e] = Append(@, sent[p][Len(@) + 1])]
      BY <2>1, <2>4, <3>1 DEF d
    <3>3. Service!Hand(e, n)
      BY <1>3, <1>5, <2>1, <2>2, <2>4, <3>2 DEF Service!Hand, d
    <3> QED
      BY <2>2, <3>3
  <2> QED
    BY <1>1, <1>5, <2>3, <2>4, DeliverCases DEF f, Sequenced
<1> QED
  BY <1>1, <1>4, <1>5, DeliverCases DEF Sequenced

LEMMA StepServes ==
    ASSUME SessionInv, GoLinkInv, [LinkNext]_linkVars
    PROVE  [Service!Next]_(Service!serviceVars)
<1>1. HistoryType /\ Phases
  BY DEF GoLinkInv, PhaseInv
<1>2. ASSUME NEW e \in Endpoint, LinkStep(e) PROVE Service!Next \/ UNCHANGED messages
  <2>1. CASE AcceptConnection(e)
    BY <2>1 DEF AcceptConnection, Service!Next, Service!Open
  <2>2. CASE SendMessage(e)
    <3> DEFINE m == <<session, Len(sent[e]) + 1>>
    <3>1. /\ state[e] = "Connected" /\ Len(sent[e]) < MaxMessages[e]
          /\ sent' = [sent EXCEPT ![e] = Append(@, m)] /\ UNCHANGED <<delivered, acknowledged>>
      BY <2>2 DEF SendMessage, BuildInformationFrame
    <3>2. m \in Payload
      BY <1>1, <3>1, MessageInBounds
    <3>3. Service!Submit(e, m)
      BY <3>1 DEF Service!Submit
    <3> QED
      BY <3>2, <3>3 DEF Service!Next
  <2>3. CASE Deliver(e)
    BY <2>3, DeliverServes DEF Service!Next
  <2>4. CASE \/ Connect(e) \/ Disconnect(e) \/ AnswerDisconnect(e)
             \/ AcknowledgeReceipt(e) \/ Lose(e)
    BY <2>4 DEF Connect, Disconnect, AnswerDisconnect, AcknowledgeReceipt, Lose, messages
  <2> QED
    BY <1>2, <2>1, <2>2, <2>3, <2>4 DEF LinkStep
<1>3. CASE UNCHANGED linkVars
  BY <1>3 DEF linkVars, messages, Service!serviceVars
<1> QED
  BY <1>2, <1>3 DEF LinkNext, Service!serviceVars, messages

\* Two sessions of the Go port give their users the service of HdlcService, as
\* the C++ sessions do, if the applications keep one of the two duties: though
\* SendInformation has no window and ReceiveFrame no V(A), messages arrive in
\* order, none twice, none skipped, and none is believed acknowledged too early.
THEOREM GoLinkImplementsService == LinkSpec => ImplementsService
<1>1. LinkInit => Service!Init
  BY DEF LinkInit, Service!Init
<1>2. SessionInv /\ GoLinkInv /\ [LinkNext]_linkVars => [Service!Next]_(Service!serviceVars)
  BY StepServes
<1> QED
  BY <1>1, <1>2, GoLinkInvariantHolds, PTL DEF LinkSpec, ImplementsService, Service!Spec

\* Each end has accepted a prefix of what the other sent since the server's UA, and
\* believes no message acknowledged that the other has not accepted.
THEOREM GoLinkReliable == LinkSpec => []Service!Reliable
<1>1. GoLinkInv => Service!Reliable
  <2> SUFFICES ASSUME GoLinkInv, NEW e \in Endpoint
               PROVE  /\ Len(delivered[e]) <= Len(sent[Peer[e]])
                      /\ \A i \in 1 .. Len(delivered[e]) : delivered[e][i] = sent[Peer[e]][i]
                      /\ acknowledged[e] <= Len(delivered[Peer[e]])
    BY DEF Service!Reliable
  <2>1. Peer[e] \in Endpoint /\ Peer[Peer[e]] = e /\ HistoryType
    BY TwoRoles DEF GoLinkInv, PhaseInv
  <2>2. HistoryAt(e) /\ HistoryAt(Peer[e])
    BY <2>1 DEF GoLinkInv, Numbers, NumbersAt
  <2>3. /\ Len(delivered[e]) <= Len(sent[Peer[e]])
        /\ \A i \in 1 .. Len(sent[Peer[e]]) : sent[Peer[e]][i] = <<session, i>>
        /\ \A i \in 1 .. Len(delivered[e]) : delivered[e][i] = <<session, i>>
    BY <2>1, <2>2 DEF HistoryAt
  <2>4. Len(sent[Peer[e]]) \in Nat /\ Len(delivered[e]) \in Nat
    BY <2>1, CountsType
  <2>5. acknowledged[e] <= Len(delivered[Peer[e]])
    BY <2>2 DEF HistoryAt
  <2>6. 1 .. Len(delivered[e]) \subseteq 1 .. Len(sent[Peer[e]])
    BY <2>3, <2>4
  <2> QED
    BY <2>3, <2>5, <2>6
<1> QED
  BY <1>1, GoLinkInvariantHolds, PTL
=============================================================================
