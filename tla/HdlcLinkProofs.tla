--------------------------- MODULE HdlcLinkProofs ---------------------------
(***************************************************************************)
(* Theorems about the link of two sessions, for every pair of options, any *)
(* inputs of the applications, any number of messages, sessions and frames *)
(* in flight, and any number of lost frames.  What concerns the numbers    *)
(* assumes windows of at most seven.                                       *)
(***************************************************************************)
EXTENDS HdlcLinkInvariant, HdlcSessionProofs

-----------------------------------------------------------------------------
\* The steps of the link are steps of one session, or of none.
LEMMA LinkStepOfSession ==
    ASSUME WireType, NEW e \in Endpoint, LinkStep(e)
    PROVE  FrameStep(e) \/ UNCHANGED sessionVars
<1>1. CASE Deliver(e)
  <2>1. wire[Peer[e]] # <<>> /\ wire[Peer[e]] \in Seq(Frame)
    BY <1>1, TwoRoles DEF Deliver, WireType
  <2>2. Head(wire[Peer[e]]) \in Frame /\ ReceiveFrame(e, Head(wire[Peer[e]]))
    BY <1>1, <2>1 DEF Deliver
  <2> QED
    BY <2>2 DEF FrameStep
<1>2. CASE Lose(e)
  BY <1>2 DEF Lose
<1>3. CASE Connect(e) \/ AcceptConnection(e) \/ FailToAccept(e)
  BY <1>3 DEF Connect, AcceptConnection, FailToAccept, FrameStep
<1>4. CASE Disconnect(e) \/ AnswerDisconnect(e)
  BY <1>4 DEF Disconnect, AnswerDisconnect, FrameStep
<1>5. CASE SendMessage(e) \/ AcknowledgeReceipt(e)
  BY <1>5 DEF SendMessage, AcknowledgeReceipt, FrameStep
<1> QED
  BY <1>1, <1>2, <1>3, <1>4, <1>5 DEF LinkStep

LEMMA DeliverEffect ==
    ASSUME WireType, NEW e \in Endpoint, Deliver(e)
    PROVE  /\ wire[Peer[e]] # <<>>
           /\ WireType'
           /\ wire' = [wire EXCEPT ![Peer[e]] = Tail(@)]
           /\ Head(wire[Peer[e]]) = wire[Peer[e]][1]
           /\ wire[Peer[e]][1] \in Frame
           /\ ReceiveFrame(e, wire[Peer[e]][1])
           /\ Len(wire[Peer[e]]) >= 1
<1>1. Peer[e] \in Endpoint
  BY TwoRoles
<1>2. wire[Peer[e]] # <<>> /\ wire' = [wire EXCEPT ![Peer[e]] = Tail(@)] /\ losses' = losses
  BY DEF Deliver, Take
<1>3. Head(wire[Peer[e]]) = wire[Peer[e]][1] /\ wire[Peer[e]][1] \in Frame
      /\ wire' \in [Endpoint -> Seq(Frame)] /\ Len(wire[Peer[e]]) >= 1
  BY <1>1, <1>2, ShiftEffect
<1>4. ReceiveFrame(e, wire[Peer[e]][1])
  BY <1>3 DEF Deliver
<1> QED
  BY <1>2, <1>3, <1>4 DEF WireType

-----------------------------------------------------------------------------
(***************************************************************************)
(* The state chart.  One lemma per action of the link; in each, the guard  *)
(* of the action leaves a few phases it can be taken in.                   *)
(***************************************************************************)

LEMMA InitPhases == LinkInit => Phases
<1> SUFFICES ASSUME LinkInit, NEW c \in Endpoint, IsClient(c) PROVE AtRest(c, Peer[c])
  BY DEF Phases, Phase
<1> QED
  BY TwoRoles DEF LinkInit, Init, LineInit, AtRest, NoneDue

LEMMA ConnectPhases ==
    ASSUME TypeOK, WireType, Phases, NEW e \in Endpoint, Connect(e)
    PROVE  Phases'
<1> SUFFICES ASSUME NEW c \in Endpoint, IsClient(c) PROVE Phase(c, Peer[c])'
  BY DEF Phases, IsClient
<1> DEFINE s == Peer[c]
<1>0. PICK form \in ConnectRequestForms(e) :
          BuildConnectRequest(e, form) /\ Send(e, SnrmFrame(e, form))
  BY DEF Connect
<1>1. c = e /\ s \in Endpoint /\ s # c
  BY <1>0, TwoRoles DEF BuildConnectRequest, IsClient
<1>2. /\ state[c] = "Disconnected" /\ state'[c] = "AwaitingConnection"
      /\ state'[s] = state[s] /\ session' = session /\ session < MaxSessions
      /\ UNCHANGED <<connectResponsePending, disconnectResponsePending>>
  BY <1>0, <1>1 DEF BuildConnectRequest, Connect, history, pending, TypeOK
<1>3. SnrmFrame(e, form) \in Frame /\ SnrmFrame(e, form).kind = "SNRM"
  BY SnrmType
<1>4. Len(wire'[c]) = Len(wire[c]) + 1 /\ wire'[s] = wire[s] /\ Len(wire[c]) \in Nat
  BY <1>0, <1>1, <1>3, SendEffect, EmptyWire
<1>5. CASE AtRest(c, s)
  <2>1. Carries(c, {"SNRM"}) /\ Len(wire[c]) = 0
    BY <1>5, EmptyWire DEF AtRest, Carries
  <2>2. Carries(c, {"SNRM"})'
    BY <1>0, <1>1, <1>3, <2>1, SendKeeps
  <2>3. Calling(c, s)'
    BY <1>2, <1>4, <1>5, <2>1, <2>2 DEF AtRest, NoneDue, Calling
  <2> QED
    BY <2>3 DEF Phase
<1>6. CASE ClientLeft(c, s)
  <2>1. /\ Carries(c, {"I", "RR", "DISC", "UA", "SNRM"})'
        /\ Ends(c, "SNRM")' /\ Precedes(c, "UA", "SNRM")'
    BY <1>0, <1>1, <1>2, <1>3, <1>6, SendKeeps DEF ClientLeft
  <2>2. ClientLeft(c, s)'
    BY <1>2, <1>4, <1>6, <2>1 DEF ClientLeft, NoneDue
  <2> QED
    BY <2>2 DEF Phase
<1> QED
  BY <1>2, <1>5, <1>6 DEF Phases, Phase, Calling, Opened, InUse, ClientClosing, ServerLeft

LEMMA AcceptPhases ==
    ASSUME TypeOK, WireType, HistoryType, Phases, NEW e \in Endpoint, AcceptConnection(e)
    PROVE  /\ Phases'
           /\ Calling(Peer[e], e) /\ wire[e] = <<>> /\ wire[Peer[e]] = <<>>
<1>1. connectResponsePending[e] /\ ~IsClient(e)
  BY DEF AcceptConnection, BuildConnectResponse, IsClient
<1>2. IsClient(Peer[e]) /\ Peer[e] \in Endpoint /\ Peer[e] # e /\ Peer[Peer[e]] = e
  BY <1>1, TwoRoles
<1> DEFINE c == Peer[e]
<1>3. Calling(c, e) /\ wire[e] = <<>> /\ wire[c] = <<>>
  BY <1>1, <1>2 DEF Phases, Phase, AtRest, Calling, Opened, InUse, ClientClosing, ServerLeft,
                    ClientLeft, NoneDue
<1>4. /\ state'[e] = "Connected" /\ state'[c] = state[c]
      /\ connectResponsePending'[e] = FALSE
      /\ connectResponsePending'[c] = connectResponsePending[c]
      /\ UNCHANGED disconnectResponsePending
  BY <1>2 DEF AcceptConnection, BuildConnectResponse, TypeOK
<1>5. Fresh(c)' /\ session' = session + 1
  BY <1>2 DEF AcceptConnection, Fresh
<1>6. /\ Len(wire'[e]) = 1 /\ wire'[e][1].kind = "UA" /\ wire'[c] = wire[c]
  <2>1. Send(e, ConnectResponseFrame(e)) /\ Len(wire[e]) = 0
    BY <1>3, EmptyWire DEF AcceptConnection
  <2>2. ConnectResponseFrame(e) \in Frame /\ ConnectResponseFrame(e).kind = "UA"
    BY ConnectResponseType
  <2>3. /\ Len(wire'[e]) = 0 + 1 /\ wire'[e][0 + 1] = ConnectResponseFrame(e)
        /\ wire'[c] = wire[c]
    BY <2>1, <2>2, SendEffect
  <2> QED
    BY <2>2, <2>3
<1>7. Carries(e, {"I", "RR", "UA", "DISC"})' /\ Begins(e, "UA")' /\ Ends(e, "DISC")'
      /\ Lacks(e, "DISC")'
  BY <1>6 DEF Carries, Begins, Ends, Lacks
<1>8. Opened(c, e)'
  BY <1>3, <1>4, <1>5, <1>6, <1>7 DEF Calling, Opened, InSession, NoneDue, HistoryType
<1>9. \A x \in Endpoint : IsClient(x) => x = c
  BY <1>1, TwoRoles
<1> QED
  BY <1>2, <1>3, <1>8, <1>9 DEF Phases, Phase, IsClient

LEMMA DisconnectPhases ==
    ASSUME TypeOK, WireType, Phases, NEW e \in Endpoint, Disconnect(e)
    PROVE  Phases'
<1> SUFFICES ASSUME NEW c \in Endpoint, IsClient(c) PROVE Phase(c, Peer[c])'
  BY DEF Phases, IsClient
<1> DEFINE s == Peer[c]
<1>0. PICK user \in UserSizes : BuildDisconnectRequest(e, user) /\ Send(e, DiscFrame(e, user))
  BY DEF Disconnect
<1>1. (e = c \/ e = s) /\ s \in Endpoint /\ s # c /\ Peer[e] \in Endpoint /\ Peer[s] = c
  BY TwoRoles
<1>2. /\ state[e] = "Connected" /\ state'[e] = "AwaitingDisconnect"
      /\ state'[Peer[e]] = state[Peer[e]]
      /\ UNCHANGED <<connectResponsePending, disconnectResponsePending, history>>
  BY <1>0, <1>1, TwoRoles DEF BuildDisconnectRequest, Disconnect, pending, TypeOK
<1>3. DiscFrame(e, user) \in Frame /\ DiscFrame(e, user).kind = "DISC"
  BY DiscType
<1>4. wire'[Peer[e]] = wire[Peer[e]]
  BY <1>0, <1>3, SendEffect
<1>5. Phase(c, s)
  BY DEF Phases
<1>6. CASE e = c
  <2>1. InUse(c, s)
    BY <1>2, <1>5, <1>6
       DEF Phase, AtRest, Calling, Opened, ClientClosing, ServerLeft, ClientLeft
  <2>2. Lacks(c, "DISC")
    BY <2>1 DEF InUse, Carries, Lacks
  <2>3. Carries(c, {"I", "RR", "DISC"})
    BY <2>1 DEF InUse, Carries
  <2>4. Carries(c, {"I", "RR", "DISC"})' /\ Ends(c, "DISC")'
    BY <1>0, <1>3, <1>6, <2>2, <2>3, SendKeeps
  <2>5. /\ Carries(s, {"I", "RR", "DISC"})' /\ Ends(s, "DISC")'
        /\ state[s] = "Connected" => Lacks(s, "DISC")'
    BY <1>1, <1>4, <1>6, <2>1, SameWireKeeps DEF InUse
  <2>6. ClientClosing(c, s)'
    BY <1>2, <1>4, <1>6, <2>1, <2>4, <2>5
       DEF InUse, ClientClosing, history, InSession, NoneDue
  <2> QED
    BY <2>6 DEF Phase
<1>7. CASE e = s
  <2>1. Opened(c, s) \/ InUse(c, s) \/ ClientClosing(c, s)
    BY <1>2, <1>5, <1>7 DEF Phase, AtRest, Calling, ServerLeft, ClientLeft
  <2>2. Lacks(s, "DISC")
    BY <1>2, <1>7, <2>1 DEF Opened, InUse, ClientClosing
  <2>3. Ends(s, "DISC")'
    BY <1>0, <1>3, <1>7, <2>2, SendKeeps
  <2>4. CASE Opened(c, s)
    <3>1. Carries(s, {"I", "RR", "UA", "DISC"})' /\ Begins(s, "UA")'
      BY <1>0, <1>3, <1>7, <2>4, SendKeeps DEF Opened
    <3>2. Opened(c, s)'
      BY <1>1, <1>2, <1>4, <1>7, <2>3, <2>4, <3>1
         DEF Opened, history, Fresh, InSession, NoneDue
    <3> QED
      BY <3>2 DEF Phase
  <2>5. CASE InUse(c, s)
    <3>1. Carries(s, {"I", "RR", "DISC"})'
      BY <1>0, <1>3, <1>7, <2>5, SendKeeps DEF InUse
    <3>2. Carries(c, {"I", "RR"})'
      BY <1>1, <1>4, <1>7, <2>5, SameWireKeeps DEF InUse
    <3>3. InUse(c, s)'
      BY <1>1, <1>2, <1>4, <1>7, <2>3, <2>5, <3>1, <3>2 DEF InUse, history, InSession, NoneDue
    <3> QED
      BY <3>3 DEF Phase
  <2>6. CASE ClientClosing(c, s)
    <3>1. Carries(s, {"I", "RR", "DISC"})'
      BY <1>0, <1>3, <1>7, <2>6, SendKeeps DEF ClientClosing
    <3>2. Carries(c, {"I", "RR", "DISC"})' /\ Ends(c, "DISC")'
      BY <1>1, <1>4, <1>7, <2>6, SameWireKeeps DEF ClientClosing
    <3>3. ClientClosing(c, s)'
      BY <1>1, <1>2, <1>4, <1>7, <2>3, <2>6, <3>1, <3>2 DEF ClientClosing, history, InSession
    <3> QED
      BY <3>3 DEF Phase
  <2> QED
    BY <2>1, <2>4, <2>5, <2>6
<1> QED
  BY <1>1, <1>6, <1>7

LEMMA AnswerPhases ==
    ASSUME TypeOK, WireType, Phases, NEW e \in Endpoint, AnswerDisconnect(e)
    PROVE  Phases'
<1> SUFFICES ASSUME NEW c \in Endpoint, IsClient(c) PROVE Phase(c, Peer[c])'
  BY DEF Phases, IsClient
<1> DEFINE s == Peer[c]
           f == DisconnectResponseFrame(e)
<1>0. BuildDisconnectResponse(e) /\ Send(e, f)
  BY DEF AnswerDisconnect
<1>1. (e = c \/ e = s) /\ s \in Endpoint /\ s # c /\ Peer[e] \in Endpoint /\ Peer[s] = c
  BY TwoRoles
<1>2. /\ disconnectResponsePending[e] /\ state'[e] = "Disconnected"
      /\ state'[Peer[e]] = state[Peer[e]]
      /\ disconnectResponsePending'[e] = FALSE
      /\ disconnectResponsePending'[Peer[e]] = disconnectResponsePending[Peer[e]]
      /\ UNCHANGED <<connectResponsePending, history>>
  <2>1. BuildDisconnectResponse(e) /\ UNCHANGED history
    BY DEF AnswerDisconnect
  <2> HIDE DEF f
  <2> QED
    BY <1>1, <2>1, TwoRoles DEF BuildDisconnectResponse, TypeOK, history
<1>3. f \in Frame /\ f.kind = "UA"
  BY DisconnectResponseType
<1>4. wire'[Peer[e]] = wire[Peer[e]]
  BY <1>0, <1>3, SendEffect
<1>5. Phase(c, s)
  BY DEF Phases
<1> HIDE DEF f
<1>6. CASE e = c
  <2>1. /\ InUse(c, s) \/ ClientClosing(c, s)
        /\ state[s] = "AwaitingDisconnect" /\ wire[s] = <<>> /\ NoneDue(s)
        /\ ~connectResponsePending[c]
    BY <1>2, <1>5, <1>6 DEF Phase, AtRest, Calling, Opened, ServerLeft, ClientLeft, NoneDue,
                            InUse, ClientClosing
  <2>2. /\ Carries(c, {"I", "RR", "DISC", "UA", "SNRM"})
        /\ Lacks(c, "UA") /\ Lacks(c, "SNRM")
    BY <2>1 DEF InUse, ClientClosing, Carries, Lacks
  <2>3. /\ Carries(c, {"I", "RR", "DISC", "UA", "SNRM"})'
        /\ Precedes(c, "UA", "SNRM")' /\ Ends(c, "SNRM")' /\ Lacks(c, "SNRM")'
    BY <1>0, <1>3, <1>6, <2>2, SendKeeps
  <2>4. ClientLeft(c, s)'
    BY <1>2, <1>4, <1>6, <2>1, <2>3 DEF ClientLeft, NoneDue
  <2> QED
    BY <2>4 DEF Phase
<1>7. CASE e = s
  <2>1. ClientClosing(c, s) /\ wire[c] = <<>> /\ ~disconnectResponsePending[c]
    BY <1>2, <1>5, <1>7 DEF Phase, AtRest, Calling, Opened, ServerLeft, ClientLeft, NoneDue,
                            InUse, ClientClosing
  <2>2. Carries(s, {"I", "RR", "DISC", "UA"}) /\ Lacks(s, "UA")
    BY <2>1 DEF ClientClosing, Carries, Lacks
  <2>3. Carries(s, {"I", "RR", "DISC", "UA"})' /\ Ends(s, "UA")'
    BY <1>0, <1>3, <1>7, <2>2, SendKeeps
  <2>4. ServerLeft(c, s)'
    BY <1>1, <1>2, <1>4, <1>7, <2>1, <2>3 DEF ServerLeft, ClientClosing, NoneDue
  <2> QED
    BY <2>4 DEF Phase
<1> QED
  BY <1>1, <1>6, <1>7

\* An I-frame or an RR, written by a session that is Connected.
LEMMA SequencedPhases ==
    ASSUME TypeOK, WireType, Phases, NEW e \in Endpoint, state[e] = "Connected",
           NEW f \in Frame, Sequenced(f), Send(e, f),
           UNCHANGED <<state, connectResponsePending, disconnectResponsePending, session>>,
           sent'[Peer[e]] = sent[Peer[e]], UNCHANGED <<delivered, acknowledged>>
    PROVE  Phases'
<1> SUFFICES ASSUME NEW c \in Endpoint, IsClient(c) PROVE Phase(c, Peer[c])'
  BY DEF Phases, IsClient
<1> DEFINE s == Peer[c]
<1>1. (e = c \/ e = s) /\ s \in Endpoint /\ s # c /\ Peer[e] \in Endpoint /\ Peer[s] = c
  BY TwoRoles
<1>2. wire'[Peer[e]] = wire[Peer[e]] /\ f.kind \in {"I", "RR"}
  BY SendEffect DEF Sequenced
<1>3. Phase(c, s)
  BY DEF Phases
<1>4. CASE e = c
  <2>1. InUse(c, s)
    BY <1>3, <1>4 DEF Phase, AtRest, Calling, Opened, ClientClosing, ServerLeft, ClientLeft
  <2>2. Carries(c, {"I", "RR"})'
    BY <1>2, <1>4, <2>1, SendKeeps DEF InUse
  <2>3. /\ Carries(s, {"I", "RR", "DISC"})' /\ Ends(s, "DISC")'
        /\ state[s] = "Connected" => Lacks(s, "DISC")'
    BY <1>1, <1>2, <1>4, <2>1, SameWireKeeps DEF InUse
  <2>4. InUse(c, s)'
    BY <1>2, <1>4, <2>1, <2>2, <2>3 DEF InUse, InSession, NoneDue
  <2> QED
    BY <2>4 DEF Phase
<1>5. CASE e = s
  <2>1. Opened(c, s) \/ InUse(c, s) \/ ClientClosing(c, s)
    BY <1>3, <1>5 DEF Phase, AtRest, Calling, ServerLeft, ClientLeft
  <2>2. Lacks(s, "DISC")
    BY <1>5, <2>1 DEF Opened, InUse, ClientClosing
  <2>3. Lacks(s, "DISC")' /\ Ends(s, "DISC")'
    BY <1>2, <1>5, <2>2, SendKeeps
  <2>4. CASE Opened(c, s)
    <3>1. Carries(s, {"I", "RR", "UA", "DISC"})' /\ Begins(s, "UA")'
      BY <1>2, <1>5, <2>4, SendKeeps DEF Opened
    <3>2. Opened(c, s)'
      BY <1>1, <1>2, <1>5, <2>3, <2>4, <3>1 DEF Opened, Fresh, InSession, NoneDue
    <3> QED
      BY <3>2 DEF Phase
  <2>5. CASE InUse(c, s)
    <3>1. Carries(s, {"I", "RR", "DISC"})'
      BY <1>2, <1>5, <2>5, SendKeeps DEF InUse
    <3>2. Carries(c, {"I", "RR"})'
      BY <1>1, <1>2, <1>5, <2>5, SameWireKeeps DEF InUse
    <3>3. InUse(c, s)'
      BY <1>1, <1>2, <1>5, <2>3, <2>5, <3>1, <3>2 DEF InUse, InSession, NoneDue
    <3> QED
      BY <3>3 DEF Phase
  <2>6. CASE ClientClosing(c, s)
    <3>1. Carries(s, {"I", "RR", "DISC"})'
      BY <1>2, <1>5, <2>6, SendKeeps DEF ClientClosing
    <3>2. Carries(c, {"I", "RR", "DISC"})' /\ Ends(c, "DISC")'
      BY <1>1, <1>2, <1>5, <2>6, SameWireKeeps DEF ClientClosing
    <3>3. ClientClosing(c, s)'
      BY <1>1, <1>2, <1>5, <2>3, <2>6, <3>1, <3>2 DEF ClientClosing, InSession
    <3> QED
      BY <3>3 DEF Phase
  <2> QED
    BY <2>1, <2>4, <2>5, <2>6
<1> QED
  BY <1>1, <1>4, <1>5

\* A frame leaves the wire of x, and the sessions do not change.
LEMMA ShiftPhases ==
    ASSUME TypeOK, WireType, Phases, NEW x \in Endpoint, wire[x] # <<>>,
           wire' = [wire EXCEPT ![x] = Tail(@)],
           UNCHANGED <<state, connectResponsePending, disconnectResponsePending, session>>,
           \A c \in Endpoint : Opened(c, Peer[c]) => Fresh(c)'
    PROVE  Phases'
<1> SUFFICES ASSUME NEW c \in Endpoint, IsClient(c) PROVE Phase(c, Peer[c])'
  BY DEF Phases, IsClient
<1> DEFINE s == Peer[c]
<1>1. (x = c \/ x = s) /\ s \in Endpoint /\ s # c /\ Peer[x] \in Endpoint /\ Peer[s] = c
  BY TwoRoles
<1>2. wire'[Peer[x]] = wire[Peer[x]]
  BY ShiftEffect
<1>3. \A K : /\ Carries(c, K) => Carries(c, K)'
             /\ Carries(s, K) => Carries(s, K)'
  BY <1>1, <1>2, ShiftKeeps, SameWireKeeps
<1>4. \A k : /\ Ends(c, k) => Ends(c, k)'
             /\ Ends(s, k) => Ends(s, k)'
             /\ Lacks(c, k) => Lacks(c, k)'
             /\ Lacks(s, k) => Lacks(s, k)'
  BY <1>1, <1>2, ShiftKeeps, SameWireKeeps
<1>5. Begins(s, "UA") => Begins(s, "UA")'
  BY <1>1, <1>2, ShiftKeeps, SameWireKeeps
<1>6. Precedes(c, "UA", "SNRM") => Precedes(c, "UA", "SNRM")'
  BY <1>1, <1>2, ShiftKeeps, SameWireKeeps
<1>7. /\ wire[c] = <<>> => wire'[c] = <<>>
      /\ wire[s] = <<>> => wire'[s] = <<>>
      /\ Len(wire[c]) <= 1 => Len(wire'[c]) <= 1
  BY <1>1, <1>2, ShiftEffect, EmptyWire
<1>8. Phase(c, s)
  BY DEF Phases
<1>9. CASE AtRest(c, s)
  BY <1>1, <1>9 DEF AtRest
<1>10. CASE Calling(c, s)
  <2>1. Carries(c, {"SNRM"})'
    BY <1>3, <1>10 DEF Calling
  <2> QED
    BY <1>7, <1>10, <2>1 DEF Calling, NoneDue, Phase
<1>11. CASE Opened(c, s)
  <2>1. Carries(s, {"I", "RR", "UA", "DISC"})' /\ Fresh(c)'
    BY <1>3, <1>11 DEF Opened
  <2> QED
    BY <1>4, <1>5, <1>7, <1>11, <2>1 DEF Opened, NoneDue, InSession, Phase
<1>12. CASE InUse(c, s)
  <2>1. Carries(c, {"I", "RR"})' /\ Carries(s, {"I", "RR", "DISC"})'
    BY <1>3, <1>12 DEF InUse
  <2> QED
    BY <1>4, <1>7, <1>12, <2>1 DEF InUse, NoneDue, InSession, Phase
<1>13. CASE ClientClosing(c, s)
  <2>1. Carries(c, {"I", "RR", "DISC"})' /\ Carries(s, {"I", "RR", "DISC"})'
    BY <1>3, <1>13 DEF ClientClosing
  <2> QED
    BY <1>4, <1>7, <1>13, <2>1 DEF ClientClosing, InSession, Phase
<1>14. CASE ServerLeft(c, s)
  <2>1. Carries(s, {"I", "RR", "DISC", "UA"})'
    BY <1>3, <1>14 DEF ServerLeft
  <2> QED
    BY <1>4, <1>7, <1>14, <2>1 DEF ServerLeft, NoneDue, Phase
<1>15. CASE ClientLeft(c, s)
  <2>1. Carries(c, {"I", "RR", "DISC", "UA", "SNRM"})'
    BY <1>3, <1>15 DEF ClientLeft
  <2> QED
    BY <1>4, <1>6, <1>7, <1>15, <2>1 DEF ClientLeft, NoneDue, Phase
<1> QED
  BY <1>8, <1>9, <1>10, <1>11, <1>12, <1>13, <1>14, <1>15 DEF Phase

\* Every frame on a wire is of a kind that some phase allows.
LEMMA WireKinds ==
    ASSUME WireType, Phases, NEW e \in Endpoint
    PROVE  Carries(e, {"I", "RR", "DISC", "UA", "SNRM"})
<1>1. ASSUME NEW c \in Endpoint, IsClient(c)
      PROVE  /\ Carries(c, {"I", "RR", "DISC", "UA", "SNRM"})
             /\ Carries(Peer[c], {"I", "RR", "DISC", "UA", "SNRM"})
  <2>1. Phase(c, Peer[c])
    BY <1>1 DEF Phases
  <2>2. Peer[c] \in Endpoint
    BY TwoRoles
  <2>3. \A x \in Endpoint : wire[x] = <<>> => Carries(x, {"I", "RR", "DISC", "UA", "SNRM"})
    BY EmptyWire DEF Carries
  <2> QED
    BY <2>1, <2>2, <2>3 DEF Phase, AtRest, Calling, Opened, InUse, ClientClosing, ServerLeft,
                            ClientLeft, Carries
<1> QED
  BY <1>1, TwoRoles

\* Only a Connected session takes a numbered frame.
LEMMA DeliverHistory ==
    ASSUME WireType, HistoryType, NEW e \in Endpoint, Deliver(e)
    PROVE  /\ UNCHANGED <<session, sent>>
           /\ delivered'[Peer[e]] = delivered[Peer[e]]
           /\ acknowledged'[Peer[e]] = acknowledged[Peer[e]]
           /\ state[e] # "Connected" => UNCHANGED <<delivered, acknowledged>>
<1> DEFINE f == Head(wire[Peer[e]])
<1>1. Accepts(e, f) /\ f.kind \in SupervisoryKind \cup {"I"} => state[e] = "Connected"
  BY DEF Accepts, AcceptsInformation, AcceptsSupervisory, SupervisoryKind, UnnumberedKind
<1> QED
  BY <1>1, TwoRoles DEF Deliver, HistoryType

LEMMA SnrmPhases ==
    ASSUME TypeOK, WireType, Phases, NEW s \in Endpoint, wire[Peer[s]] # <<>>,
           wire' = [wire EXCEPT ![Peer[s]] = Tail(@)],
           ReceiveSnrm(s, wire[Peer[s]][1]), UNCHANGED session
    PROVE  Phases'
<1> DEFINE c == Peer[s]
<1>1. Role(s) = "Server" /\ state[s] = "Disconnected" /\ wire[c][1].kind = "SNRM"
  BY DEF ReceiveSnrm, Accepts, AcceptsUnnumbered, AcceptsSnrm, SupervisoryKind
<1>2. /\ c \in Endpoint /\ c # s /\ Peer[c] = s /\ IsClient(c)
      /\ \A x \in Endpoint : IsClient(x) => x = c
  BY <1>1, TwoRoles
<1>3. /\ UNCHANGED <<state, disconnectResponsePending>>
      /\ connectResponsePending'[c] = connectResponsePending[c]
  BY <1>2 DEF ReceiveSnrm, TypeOK
<1>4. Carries(c, {"I", "RR", "DISC", "UA"}) => wire[c][1].kind \in {"I", "RR", "DISC", "UA"}
  BY <1>2, ShiftKeeps
<1>5. Calling(c, s)
  BY <1>1, <1>2, <1>4 DEF Phases, Phase, AtRest, Opened, InUse, ClientClosing, ServerLeft,
                          ClientLeft, InSession
<1>6. wire'[c] = <<>> /\ wire'[s] = wire[s] /\ Len(wire'[c]) = 0
  <2>1. Len(wire[c]) \in Nat /\ Len(wire[c]) <= 1
    BY <1>2, <1>5, EmptyWire DEF Calling
  <2>2. /\ Len(wire'[c]) = Len(wire[c]) - 1 /\ Len(wire'[c]) \in Nat
        /\ Len(wire'[c]) = 0 <=> wire'[c] = <<>>
        /\ wire'[s] = wire[s]
    BY <1>2, ShiftEffect
  <2> QED
    BY <2>1, <2>2
<1>7. Carries(c, {"SNRM"})'
  BY <1>6 DEF Carries
<1>8. Calling(c, s)'
  BY <1>3, <1>5, <1>6, <1>7 DEF Calling, NoneDue
<1> QED
  BY <1>2, <1>8 DEF Phases, Phase, IsClient

LEMMA ConnectUaPhases ==
    ASSUME TypeOK, SessionInv, WireType, Phases, NEW c \in Endpoint, wire[Peer[c]] # <<>>,
           wire' = [wire EXCEPT ![Peer[c]] = Tail(@)],
           ReceiveConnectUa(c, wire[Peer[c]][1]), UNCHANGED session
    PROVE  Phases' /\ Opened(c, Peer[c]) /\ wire[c] = <<>>
<1> DEFINE s == Peer[c]
<1>1. state[c] = "AwaitingConnection" /\ wire[s][1].kind = "UA"
  BY DEF ReceiveConnectUa, UaConnects
<1>2. /\ s \in Endpoint /\ c # s /\ Peer[s] = c /\ IsClient(c)
      /\ \A x \in Endpoint : IsClient(x) => x = c
  BY <1>1, TwoRoles DEF SessionInv, SessionInvAt, RolesAt, IsClient
<1>3. /\ state'[c] = "Connected" /\ state'[s] = state[s]
      /\ UNCHANGED <<connectResponsePending, disconnectResponsePending>>
  BY <1>2 DEF ReceiveConnectUa, pending, TypeOK
<1>4. Opened(c, s)
  BY <1>1, <1>2 DEF Phases, Phase, AtRest, Calling, InUse, ClientClosing, ServerLeft, ClientLeft
<1>5. wire[c] = <<>> /\ wire'[c] = wire[c]
  BY <1>2, <1>4, ShiftEffect DEF Opened
<1>6. Carries(c, {"I", "RR"})'
  BY <1>5 DEF Carries
<1>7. Carries(s, {"I", "RR", "DISC"})'
  <2>1. SUFFICES ASSUME NEW i \in 1 .. Len(wire'[s])
                 PROVE  wire'[s][i].kind \in {"I", "RR", "DISC"}
    BY DEF Carries
  <2>2. /\ Len(wire[s]) \in Nat /\ Len(wire'[s]) = Len(wire[s]) - 1
        /\ wire'[s][i] = wire[s][i + 1]
    BY <1>2, ShiftEffect, EmptyWire
  <2>3. i + 1 \in 1 .. Len(wire[s]) /\ i + 1 # 1
    BY <2>2
  <2> QED
    BY <1>4, <2>2, <2>3 DEF Opened, Carries, Begins
<1>8. Ends(s, "DISC")' /\ (state[s] = "Connected" => Lacks(s, "DISC")')
  BY <1>2, <1>4, ShiftKeeps DEF Opened
<1>9. InUse(c, s)'
  BY <1>3, <1>4, <1>5, <1>6, <1>7, <1>8 DEF Opened, InUse, InSession, NoneDue
<1> QED
  BY <1>2, <1>4, <1>5, <1>9 DEF Phases, Phase, IsClient

LEMMA DisconnectUaPhases ==
    ASSUME TypeOK, WireType, Phases, NEW e \in Endpoint, wire[Peer[e]] # <<>>,
           wire' = [wire EXCEPT ![Peer[e]] = Tail(@)],
           ReceiveDisconnectUa(e, wire[Peer[e]][1]), UNCHANGED session
    PROVE  Phases'
<1> SUFFICES ASSUME NEW c \in Endpoint, IsClient(c) PROVE Phase(c, Peer[c])'
  BY DEF Phases, IsClient
<1> DEFINE s == Peer[c]
<1>1. (e = c \/ e = s) /\ s \in Endpoint /\ s # c /\ Peer[e] \in Endpoint /\ Peer[s] = c
      /\ Peer[Peer[e]] = e
  BY TwoRoles
<1>2. state[e] = "AwaitingDisconnect" /\ wire[Peer[e]][1].kind = "UA"
  BY DEF ReceiveDisconnectUa
<1>3. /\ state'[e] = "Disconnected" /\ state'[Peer[e]] = state[Peer[e]]
      /\ UNCHANGED <<connectResponsePending, disconnectResponsePending>>
  BY <1>1, TwoRoles DEF ReceiveDisconnectUa, pending, TypeOK
<1>4. Phase(c, s) /\ wire'[e] = wire[e]
  BY <1>1, ShiftEffect DEF Phases
<1>5. \A K : Carries(Peer[e], K) => "UA" \in K
  BY <1>1, <1>2, ShiftKeeps
<1>6. ~Carries(Peer[e], {"I", "RR", "DISC"}) /\ ~Carries(Peer[e], {"I", "RR"})
  BY <1>5
<1>7. CASE e = c
  <2>1. ServerLeft(c, s)
    BY <1>2, <1>4, <1>6, <1>7
       DEF Phase, AtRest, Calling, Opened, InUse, ClientClosing, ClientLeft
  <2>2. wire'[s] = <<>>
    BY <1>1, <1>2, <1>7, <2>1, ShiftKeeps DEF ServerLeft
  <2>3. AtRest(c, s)'
    BY <1>3, <1>4, <1>7, <2>1, <2>2 DEF ServerLeft, AtRest, NoneDue
  <2> QED
    BY <2>3 DEF Phase
<1>8. CASE e = s
  <2>1. ClientLeft(c, s)
    BY <1>1, <1>2, <1>4, <1>6, <1>8
       DEF Phase, AtRest, Calling, Opened, InUse, ClientClosing, ServerLeft, InSession
  <2>2. /\ Carries(c, {"SNRM"})' /\ Ends(c, "SNRM")'
        /\ state[c] = "Disconnected" => Lacks(c, "SNRM")'
    BY <1>1, <1>2, <1>8, <2>1, ShiftKeeps DEF ClientLeft
  <2>3. Len(wire'[c]) \in Nat /\ (Len(wire'[c]) = 0 => wire'[c] = <<>>)
    BY <1>1, <1>8, ShiftEffect
  <2>4. Len(wire'[c]) <= 1
    <3>1. CASE Len(wire'[c]) >= 2
      <4> DEFINE l == Len(wire'[c])
      <4> l \in Nat /\ l >= 2
        BY <2>3, <3>1
      <4> HIDE DEF l
      <4>1. 1 \in 1 .. l /\ 1 # l
        OBVIOUS
      <4>2. wire'[c][1].kind = "SNRM"
        BY <2>2, <4>1 DEF Carries, l
      <4> QED
        BY <2>2, <4>1, <4>2 DEF Ends, l
    <3> QED
      BY <2>3, <3>1
  <2>5. state[c] = "Disconnected" => wire'[c] = <<>>
    <3>1. ASSUME Lacks(c, "SNRM")', Len(wire'[c]) >= 1 PROVE FALSE
      <4>1. 1 \in 1 .. Len(wire'[c])
        BY <2>3, <3>1
      <4> QED
        BY <2>2, <3>1, <4>1 DEF Carries, Lacks
    <3> QED
      BY <2>2, <2>3, <3>1
  <2>6. CASE state[c] = "Disconnected"
    <3>1. AtRest(c, s)'
      BY <1>1, <1>3, <1>4, <1>8, <2>1, <2>5, <2>6 DEF ClientLeft, AtRest, NoneDue
    <3> QED
      BY <3>1 DEF Phase
  <2>7. CASE state[c] = "AwaitingConnection"
    <3>1. Calling(c, s)'
      BY <1>1, <1>3, <1>4, <1>8, <2>1, <2>2, <2>4, <2>7 DEF ClientLeft, Calling, NoneDue
    <3> QED
      BY <3>1 DEF Phase
  <2> QED
    BY <2>1, <2>6, <2>7 DEF ClientLeft
<1> QED
  BY <1>1, <1>7, <1>8

LEMMA DiscPhases ==
    ASSUME TypeOK, WireType, Phases, NEW e \in Endpoint, wire[Peer[e]] # <<>>,
           wire' = [wire EXCEPT ![Peer[e]] = Tail(@)],
           ReceiveDisc(e, wire[Peer[e]][1]), UNCHANGED session
    PROVE  Phases'
<1> SUFFICES ASSUME NEW c \in Endpoint, IsClient(c) PROVE Phase(c, Peer[c])'
  BY DEF Phases, IsClient
<1> DEFINE s == Peer[c]
<1>1. (e = c \/ e = s) /\ s \in Endpoint /\ s # c /\ Peer[e] \in Endpoint /\ Peer[s] = c
      /\ Peer[Peer[e]] = e
  BY TwoRoles
<1>2. state[e] = "Connected" /\ wire[Peer[e]][1].kind = "DISC"
  BY DEF ReceiveDisc, Accepts, AcceptsUnnumbered, SupervisoryKind
<1>3. /\ UNCHANGED <<state, connectResponsePending>>
      /\ disconnectResponsePending'[e] = TRUE
      /\ disconnectResponsePending'[Peer[e]] = disconnectResponsePending[Peer[e]]
  BY <1>1, TwoRoles, ZenonT(30) DEF ReceiveDisc, TypeOK
<1>4. Phase(c, s) /\ wire'[e] = wire[e]
  BY <1>1, ShiftEffect DEF Phases
<1>5. CASE e = c
  <2>1. InUse(c, s)
    BY <1>2, <1>4, <1>5
       DEF Phase, AtRest, Calling, Opened, ClientClosing, ServerLeft, ClientLeft
  <2>2. state[s] = "AwaitingDisconnect"
    <3>1. ~Lacks(s, "DISC")
      BY <1>1, <1>2, <1>5, ShiftEffect DEF Lacks
    <3> QED
      BY <2>1, <3>1 DEF InUse, InSession
  <2>3. wire'[s] = <<>>
    BY <1>1, <1>2, <1>5, <2>1, ShiftKeeps DEF InUse
  <2>4. /\ Carries(s, {"I", "RR", "DISC"})' /\ Ends(s, "DISC")' /\ Carries(c, {"I", "RR"})'
    BY <1>1, <1>4, <1>5, <2>1, ShiftKeeps, SameWireKeeps DEF InUse
  <2>5. InUse(c, s)'
    BY <1>1, <1>3, <1>5, <2>1, <2>2, <2>3, <2>4 DEF InUse, InSession, NoneDue
  <2> QED
    BY <2>5 DEF Phase
<1>6. CASE e = s
  <2>1. ClientClosing(c, s)
    <3>1. \A K : Carries(c, K) => "DISC" \in K
      BY <1>1, <1>2, <1>6, ShiftKeeps
    <3>2. ~Carries(c, {"I", "RR"}) /\ wire[c] # <<>>
      BY <1>1, <1>6, <3>1
    <3> QED
      BY <1>2, <1>4, <1>6, <3>2
         DEF Phase, AtRest, Calling, Opened, InUse, ServerLeft, ClientLeft
  <2>2. wire'[c] = <<>>
    BY <1>1, <1>2, <1>6, <2>1, ShiftKeeps DEF ClientClosing
  <2>3. /\ Carries(c, {"I", "RR", "DISC"})' /\ Ends(c, "DISC")'
    BY <1>1, <1>6, <2>1, ShiftKeeps DEF ClientClosing
  <2>4. /\ Carries(s, {"I", "RR", "DISC"})' /\ Ends(s, "DISC")' /\ Lacks(s, "DISC")'
    BY <1>1, <1>2, <1>4, <1>6, <2>1, SameWireKeeps DEF ClientClosing
  <2>5. ClientClosing(c, s)'
    BY <1>1, <1>2, <1>3, <1>6, <2>1, <2>2, <2>3, <2>4 DEF ClientClosing, InSession
  <2> QED
    BY <2>5 DEF Phase
<1> QED
  BY <1>1, <1>5, <1>6

LEMMA DeliverPhases ==
    ASSUME SessionInv, WireType, HistoryType, Phases, NEW e \in Endpoint, Deliver(e)
    PROVE  Phases'
<1> DEFINE x == Peer[e]
           f == wire[x][1]
<1>1. x \in Endpoint /\ x # e /\ Peer[x] = e /\ TypeOK
  BY TwoRoles DEF SessionInv
<1>2. /\ wire[x] # <<>> /\ wire' = [wire EXCEPT ![x] = Tail(@)]
      /\ f \in Frame /\ ReceiveFrame(e, f)
  BY DeliverEffect
<1>3. UNCHANGED session /\ (state[e] # "Connected" => UNCHANGED <<delivered, acknowledged>>)
      /\ sent' = sent /\ delivered'[x] = delivered[x] /\ acknowledged'[x] = acknowledged[x]
  BY DeliverHistory
<1>4. f.kind \in {"I", "RR", "DISC", "UA", "SNRM"}
  BY <1>1, <1>2, WireKinds, ShiftKeeps
<1>5. \A c \in Endpoint : Opened(c, Peer[c]) => Fresh(c)'
  <2> SUFFICES ASSUME NEW c \in Endpoint, Opened(c, Peer[c]) PROVE Fresh(c)'
    OBVIOUS
  <2>1. c = e \/ c = x
    BY TwoRoles
  <2>2. Fresh(c) /\ state[c] = "AwaitingConnection"
    BY DEF Opened
  <2> QED
    BY <1>3, <2>1, <2>2 DEF Fresh
<1> HIDE DEF f
<1>6. CASE UNCHANGED <<state, connectResponsePending, disconnectResponsePending>>
  BY <1>1, <1>2, <1>3, <1>5, <1>6, ShiftPhases
<1>7. CASE ReceiveSnrm(e, f)
  BY <1>1, <1>2, <1>3, <1>7, SnrmPhases DEF f
<1>8. CASE ReceiveConnectUa(e, f)
  BY <1>1, <1>2, <1>3, <1>8, ConnectUaPhases DEF f
<1>9. CASE ReceiveDisconnectUa(e, f)
  BY <1>1, <1>2, <1>3, <1>9, DisconnectUaPhases DEF f
<1>10. CASE ReceiveDisc(e, f)
  BY <1>1, <1>2, <1>3, <1>10, DiscPhases DEF f
<1>11. CASE ReceiveInformationFrame(e, f) \/ ReceiveSupervisoryFrame(e, f)
  BY <1>6, <1>11 DEF ReceiveInformationFrame, ReceiveSupervisoryFrame, pending
<1>12. CASE ReceiveMalformedSnrm(e, f) \/ RejectFrame(e, f)
  BY <1>6, <1>12 DEF ReceiveMalformedSnrm, RejectFrame, sessionVars, pending
<1>13. CASE ReceiveDm(e, f)
  BY <1>4, <1>13 DEF ReceiveDm
<1> QED
  BY <1>2, <1>7, <1>8, <1>9, <1>10, <1>11, <1>12, <1>13 DEF ReceiveFrame

\* What a session sends is a message of the bounded set.
LEMMA MessageInBounds ==
    ASSUME HistoryType, Phases, NEW e \in Endpoint, state[e] = "Connected",
           Len(sent[e]) < MaxMessages[e]
    PROVE  NextMessage(e) \in Payload /\ session > 0
<1>1. session > 0
  <2>1. PICK c \in Endpoint : IsClient(c) /\ (e = c \/ e = Peer[c])
    BY TwoRoles
  <2> QED
    BY <2>1 DEF Phases, Phase, AtRest, Calling, Opened, InUse, ClientClosing, ServerLeft,
                ClientLeft
<1>2. session \in 1 .. MaxSessions
  BY <1>1, BoundAssumption DEF HistoryType
<1>3. sent[e] \in Seq(Payload) /\ MaxMessages[e] \in Nat
  BY BoundAssumption DEF HistoryType
<1>4. Len(sent[e]) + 1 \in 1 .. MaxMessages[e]
  BY <1>3
<1> QED
  BY <1>1, <1>2, <1>4, BoundAssumption DEF NextMessage

LEMMA StepPhases ==
    ASSUME SessionInv, WireType, HistoryType, Phases, NEW e \in Endpoint, LinkStep(e)
    PROVE  Phases'
<1>0. TypeOK
  BY DEF SessionInv
<1>1. CASE Connect(e)
  BY <1>0, <1>1, ConnectPhases
<1>2. CASE AcceptConnection(e)
  BY <1>0, <1>2, AcceptPhases
<1>3. CASE FailToAccept(e)
  <2>1. UNCHANGED <<state, connectResponsePending, disconnectResponsePending, wire, session,
                    sent, delivered, acknowledged>>
    BY <1>3 DEF FailToAccept, BuildConnectResponseTooLarge, lineVars, history, pending
  <2> QED
    BY <2>1 DEF Phases, Phase, AtRest, Calling, Opened, InUse, ClientClosing, ServerLeft,
                ClientLeft, Carries, Lacks, Begins, Ends, Precedes, Fresh, NoneDue, InSession,
                IsClient
<1>4. CASE Disconnect(e)
  BY <1>0, <1>4, DisconnectPhases
<1>5. CASE AnswerDisconnect(e)
  BY <1>0, <1>5, AnswerPhases
<1>6. CASE SendMessage(e)
  <2>1. PICK size \in InfoSizes :
            BuildInformationFrame(e, size) /\ Send(e, IFrame(e, size, NextMessage(e)))
    BY <1>6 DEF SendMessage
  <2>2. /\ state[e] = "Connected"
        /\ UNCHANGED <<state, connectResponsePending, disconnectResponsePending>>
    BY <2>1 DEF BuildInformationFrame, pending
  <2>3. sent'[Peer[e]] = sent[Peer[e]] /\ UNCHANGED <<session, delivered, acknowledged>>
    BY <1>6, TwoRoles DEF SendMessage, HistoryType
  <2>4. NextMessage(e) \in Payload
    BY <1>6, <2>2, MessageInBounds DEF SendMessage
  <2>5. IFrame(e, size, NextMessage(e)) \in Frame
        /\ Sequenced(IFrame(e, size, NextMessage(e)))
    BY <1>0, <2>4, IFrameType DEF Sequenced
  <2> QED
    BY <1>0, <2>1, <2>2, <2>3, <2>5, SequencedPhases
<1>7. CASE AcknowledgeReceipt(e)
  <2>1. BuildReceiveReadyFrame(e) /\ Send(e, ReceiveReadyFrame(e)) /\ UNCHANGED history
    BY <1>7 DEF AcknowledgeReceipt
  <2>2. ReceiveReadyFrame(e) \in Frame /\ Sequenced(ReceiveReadyFrame(e))
    BY <1>0, ReceiveReadyType DEF Sequenced
  <2>3. /\ state[e] = "Connected"
        /\ UNCHANGED <<state, connectResponsePending, disconnectResponsePending>>
        /\ UNCHANGED <<session, sent, delivered, acknowledged>>
    BY <2>1 DEF BuildReceiveReadyFrame, sessionVars, pending, history
  <2> QED
    BY <1>0, <2>1, <2>2, <2>3, SequencedPhases
<1>8. CASE Deliver(e)
  BY <1>8, DeliverPhases
<1>9. CASE Lose(e)
  <2>1. /\ wire[e] # <<>> /\ wire' = [wire EXCEPT ![e] = Tail(@)]
        /\ UNCHANGED <<state, connectResponsePending, disconnectResponsePending, session,
                       sent, delivered, acknowledged>>
    BY <1>9 DEF Lose, LoseFrame, sessionVars, pending, history
  <2>2. \A c \in Endpoint : Opened(c, Peer[c]) => Fresh(c)'
    BY <2>1 DEF Opened, Fresh
  <2> QED
    BY <1>0, <2>1, <2>2, ShiftPhases
<1> QED
  BY <1>1, <1>2, <1>3, <1>4, <1>5, <1>6, <1>7, <1>8, <1>9 DEF LinkStep

-----------------------------------------------------------------------------
(***************************************************************************)
(* The numbers.  First what a frame at the head of a wire says.            *)
(***************************************************************************)
LEMMA CountsType ==
    ASSUME HistoryType, NEW e \in Endpoint
    PROVE  /\ Len(sent[e]) \in Nat /\ Len(delivered[e]) \in Nat /\ acknowledged[e] \in Nat
           /\ session \in Nat
BY BoundAssumption DEF HistoryType

\* N(R) of the next frame for e counts messages of e the peer has accepted, and
\* the session's three bits measure how many of them are news.
LEMMA HeadCount ==
    ASSUME HistoryType, WireType, Numbers, NEW e \in Endpoint, InSession(e),
           wire[Peer[e]] # <<>>, Sequenced(wire[Peer[e]][1])
    PROVE  LET n == CountOf(acknowledged[e], wire[Peer[e]][1].nr)
           IN  /\ n = acknowledged[e] + Distance(acknowledgeSequence[e], wire[Peer[e]][1].nr)
               /\ n \in Nat /\ acknowledged[e] <= n /\ n <= Len(delivered[Peer[e]])
               /\ n % Modulus = wire[Peer[e]][1].nr
<1> DEFINE x == Peer[e]
           f == wire[x][1]
<1>1. x \in Endpoint /\ Peer[x] = e
  BY TwoRoles
<1>2. f \in Frame /\ 1 \in 1 .. Len(wire[x])
  BY <1>1 DEF WireType
<1>3. FrameAt(x, f)
  BY <1>1, <1>2 DEF Numbers, NumbersAt, WireAt
<1>4. f.nr \in SequenceNumber /\ acknowledged[e] \in Nat
  BY <1>2, SequencedFrame, CountsType
<1>5. acknowledgeSequence[e] = acknowledged[e] % Modulus
  BY DEF Numbers, NumbersAt, SequencesAt
<1>6. CountOf(acknowledged[e], f.nr) <= Len(delivered[x])
  BY <1>1, <1>3 DEF FrameAt
<1> QED
  BY <1>4, <1>5, <1>6, CountOfType DEF CountOf

\* The N(S) a session waits for is that of the next message, and of no other.
LEMMA HeadMessage ==
    ASSUME HistoryType, WireType, Numbers, NEW e \in Endpoint, InSession(e),
           wire[Peer[e]] # <<>>, wire[Peer[e]][1].kind = "I",
           wire[Peer[e]][1].ns = receiveSequence[e]
    PROVE  /\ wire[Peer[e]][1].payload = <<session, Len(delivered[e]) + 1>>
           /\ Len(delivered[e]) + 1 <= Len(sent[Peer[e]])
           /\ sent[Peer[e]][Len(delivered[e]) + 1] = <<session, Len(delivered[e]) + 1>>
<1> DEFINE x == Peer[e]
           f == wire[x][1]
           d == Len(delivered[e])
<1>1. x \in Endpoint /\ Peer[x] = e
  BY TwoRoles
<1>2. f \in Frame /\ 1 \in 1 .. Len(wire[x])
  BY <1>1 DEF WireType
<1>3. FrameAt(x, f)
  BY <1>1, <1>2 DEF Numbers, NumbersAt, WireAt
<1>4. PICK j \in d + 1 .. Len(sent[x]) : f.payload = <<session, j>> /\ f.ns = (j - 1) % Modulus
  BY <1>1, <1>3 DEF FrameAt
<1>5. d \in Nat /\ Len(sent[x]) \in Nat /\ acknowledged[x] \in Nat
  BY <1>1, CountsType
<1>6. acknowledged[x] <= d /\ Len(sent[x]) <= acknowledged[x] + 7
  BY <1>1 DEF Numbers, NumbersAt, HistoryAt
<1>7. j - 1 \in Nat /\ d <= j - 1 /\ j - 1 <= d + 7
  BY <1>5, <1>6
<1>8. d % Modulus = (j - 1) % Modulus
  BY <1>4 DEF Numbers, NumbersAt, SequencesAt
<1>9. d = j - 1
  BY <1>5, <1>7, <1>8, SameRemainder
<1>10. j = d + 1 /\ j \in 1 .. Len(sent[x])
  BY <1>5, <1>9
<1> QED
  BY <1>1, <1>4, <1>5, <1>10 DEF Numbers, NumbersAt, HistoryAt

-----------------------------------------------------------------------------
(***************************************************************************)
(* Lemmas for the steps that change little.                                *)
(***************************************************************************)

\* Nothing that the numbers depend on changes.
LEMMA SameNumbers ==
    ASSUME Numbers, UNCHANGED <<state, sequences, wire, history>>
    PROVE  Numbers'
<1>1. ASSUME NEW x \in Endpoint PROVE SequencesAt(x)'
  BY DEF Numbers, NumbersAt, SequencesAt, InSession, sequences, history
<1>2. ASSUME NEW x \in Endpoint PROVE HistoryAt(x)'
  BY DEF Numbers, NumbersAt, HistoryAt, history
<1>3. ASSUME NEW x \in Endpoint PROVE WireAt(x)'
  <2>1. \A g : FrameAt(x, g) => FrameAt(x, g)'
    BY DEF FrameAt, history
  <2>2. \A g, h : OrderAt(x, g, h) => OrderAt(x, g, h)'
    BY DEF OrderAt, history
  <2> QED
    BY <2>1, <2>2 DEF Numbers, NumbersAt, WireAt
<1> QED
  BY <1>1, <1>2, <1>3 DEF Numbers, NumbersAt

\* A frame that carries no number joins the wire of e.
LEMMA PlainSendNumbers ==
    ASSUME WireType, HistoryType, Numbers, NEW e \in Endpoint, NEW f \in Frame, Send(e, f),
           ~Sequenced(f), UNCHANGED history,
           NEW x \in Endpoint
    PROVE  HistoryAt(x)' /\ WireAt(x)'
<1>1. HistoryAt(x)'
  BY DEF Numbers, NumbersAt, HistoryAt, history
<1>2. \A g : FrameAt(x, g) => FrameAt(x, g)'
  BY DEF FrameAt, history
<1>3. \A g, h : OrderAt(x, g, h) => OrderAt(x, g, h)'
  BY DEF OrderAt, history
<1>4. CASE x = e
  <2>1. /\ Len(wire[e]) \in Nat /\ Len(wire'[e]) = Len(wire[e]) + 1
        /\ wire'[e][Len(wire[e]) + 1] = f
        /\ \A i \in 1 .. Len(wire[e]) : wire'[e][i] = wire[e][i]
    BY SendEffect, EmptyWire
  <2>2. FrameAt(e, f)'
    BY DEF FrameAt, Sequenced
  <2>3. \A g : OrderAt(e, g, f)'
    BY DEF OrderAt, Sequenced
  <2>4. WireAt(e)
    BY DEF Numbers, NumbersAt
  <2> DEFINE l == Len(wire[e])
  <2>5. \A i \in 1 .. l + 1 : i \in 1 .. l \/ i = l + 1
    BY <2>1
  <2>6. ASSUME NEW i \in 1 .. l + 1 PROVE FrameAt(e, wire[e][i])'
    BY <1>2, <1>4, <2>1, <2>2, <2>4, <2>5 DEF WireAt
  <2>7. ASSUME NEW i \in 1 .. l + 1, NEW j \in 1 .. l + 1, i < j
        PROVE  OrderAt(e, wire[e][i], wire[e][j])'
    <3>1. i \in 1 .. l
      BY <2>1, <2>7
    <3> QED
      BY <1>3, <1>4, <2>1, <2>3, <2>4, <2>5, <2>7, <3>1 DEF WireAt
  <2> QED
    BY <1>1, <1>4, <2>1, <2>6, <2>7 DEF WireAt
<1>5. CASE x # e
  <2>1. wire'[x] = wire[x]
    BY <1>5, SendEffect, TwoRoles
  <2> QED
    BY <1>1, <1>2, <1>3, <2>1 DEF Numbers, NumbersAt, WireAt
<1> QED
  BY <1>4, <1>5

\* A frame leaves the wire of y, and the history stays.
LEMMA ShiftNumbers ==
    ASSUME WireType, HistoryType, Numbers, NEW y \in Endpoint, wire[y] # <<>>,
           wire' = [wire EXCEPT ![y] = Tail(@)], UNCHANGED history, NEW x \in Endpoint
    PROVE  HistoryAt(x)' /\ WireAt(x)'
<1>1. HistoryAt(x)'
  BY DEF Numbers, NumbersAt, HistoryAt, history
<1>2. \A g : FrameAt(x, g) => FrameAt(x, g)'
  BY DEF FrameAt, history
<1>3. \A g, h : OrderAt(x, g, h) => OrderAt(x, g, h)'
  BY DEF OrderAt, history
<1>4. WireAt(x)
  BY DEF Numbers, NumbersAt
<1>5. CASE x = y
  <2>1. /\ Len(wire[x]) \in Nat /\ Len(wire'[x]) = Len(wire[x]) - 1
        /\ \A i \in 1 .. Len(wire'[x]) : wire'[x][i] = wire[x][i + 1]
    BY <1>5, ShiftEffect, EmptyWire
  <2>2. \A i \in 1 .. Len(wire'[x]) : i + 1 \in 1 .. Len(wire[x])
    BY <2>1
  <2>3. \A i \in 1 .. Len(wire'[x]), j \in 1 .. Len(wire'[x]) : i < j => i + 1 < j + 1
    OBVIOUS
  <2> QED
    BY <1>1, <1>2, <1>3, <1>4, <2>1, <2>2, <2>3 DEF WireAt
<1>6. CASE x # y
  <2>1. wire'[x] = wire[x]
    BY <1>6, ShiftEffect, TwoRoles
  <2> QED
    BY <1>1, <1>2, <1>3, <1>4, <2>1 DEF WireAt
<1> QED
  BY <1>5, <1>6

-----------------------------------------------------------------------------
(***************************************************************************)
(* The steps that number something: SendMessage, AcknowledgeReceipt,       *)
(* AcceptConnection and Deliver.                                           *)
(***************************************************************************)

\* An I-frame or an RR with the current N(R) joins the wire of e.
LEMMA SequencedSendWire ==
    ASSUME WireType, HistoryType, Numbers, NEW e \in Endpoint, InSession(e),
           NEW f \in Frame, Sequenced(f), Send(e, f),
           f.nr = receiveSequence[e],
           f.kind = "I" => /\ f.payload = <<session, Len(sent[e]) + 1>>
                           /\ f.ns = sendSequence[e]
                           /\ Len(sent'[e]) = Len(sent[e]) + 1,
           Len(sent'[e]) \in Nat, Len(sent'[e]) >= Len(sent[e]),
           sent'[Peer[e]] = sent[Peer[e]], UNCHANGED <<session, delivered, acknowledged>>,
           NEW x \in Endpoint
    PROVE  WireAt(x)'
<1> DEFINE p == Peer[e]
           d == Len(delivered[e])
<1>1. p \in Endpoint /\ Peer[p] = e /\ p # e /\ (x = e \/ x = p)
  BY TwoRoles
<1>2. /\ d \in Nat /\ Len(sent[e]) \in Nat /\ Len(delivered[p]) \in Nat
      /\ Len(sent[p]) \in Nat /\ acknowledged[p] \in Nat
  BY <1>1, CountsType
<1>3. acknowledged[p] <= d /\ d <= acknowledged[p] + 7
  BY <1>1, <1>2 DEF Numbers, NumbersAt, HistoryAt
<1>4. f.nr = d % Modulus /\ (f.kind = "I" => f.ns = Len(sent[e]) % Modulus)
  BY DEF Numbers, NumbersAt, SequencesAt
<1>5. CountOf(acknowledged[p], f.nr) = d
  BY <1>2, <1>3, <1>4, CountOfCount
<1>6. WireAt(e) /\ WireAt(p)
  BY <1>1 DEF Numbers, NumbersAt
<1>7. CASE x = p
  <2>1. wire'[p] = wire[p]
    BY SendEffect
  <2>2. \A g : FrameAt(p, g) => FrameAt(p, g)'
    BY <1>1 DEF FrameAt
  <2>3. \A g, h : OrderAt(p, g, h) => OrderAt(p, g, h)'
    BY DEF OrderAt
  <2> QED
    BY <1>6, <1>7, <2>1, <2>2, <2>3 DEF WireAt
<1>8. CASE x = e
  <2>1. /\ Len(wire[e]) \in Nat /\ Len(wire'[e]) = Len(wire[e]) + 1
        /\ wire'[e][Len(wire[e]) + 1] = f
        /\ \A i \in 1 .. Len(wire[e]) : wire'[e][i] = wire[e][i]
    BY SendEffect, EmptyWire
  <2>2. \A g : FrameAt(e, g) => FrameAt(e, g)'
    BY <1>2 DEF FrameAt
  <2>3. \A g, h : OrderAt(e, g, h) => OrderAt(e, g, h)'
    BY DEF OrderAt
  <2>4. FrameAt(e, f)'
    <3>1. f.kind = "I" => Len(sent[e]) + 1 \in Len(delivered[p]) + 1 .. Len(sent'[e])
      BY <1>1, <1>2 DEF Numbers, NumbersAt, HistoryAt
    <3>2. f.kind = "I" => f.ns = (Len(sent[e]) + 1 - 1) % Modulus
      BY <1>2, <1>4
    <3> QED
      BY <1>2, <1>5, <3>1, <3>2 DEF FrameAt
  <2>5. \A g : FrameAt(e, g) => OrderAt(e, g, f)'
    <3> SUFFICES ASSUME NEW g, FrameAt(e, g) PROVE OrderAt(e, g, f)'
      OBVIOUS
    <3>1. g.kind = "I" /\ f.kind = "I" => g.payload[2] < f.payload[2]
      BY <1>2 DEF FrameAt
    <3>2. Sequenced(g) => CountOf(acknowledged[p], g.nr) <= CountOf(acknowledged[p], f.nr)
      BY <1>5 DEF FrameAt
    <3> QED
      BY <3>1, <3>2 DEF OrderAt, Sequenced
  <2> DEFINE l == Len(wire[e])
  <2>6. \A i \in 1 .. l + 1 : i \in 1 .. l \/ i = l + 1
    BY <2>1
  <2>7. ASSUME NEW i \in 1 .. l + 1 PROVE FrameAt(e, wire[e][i])'
    BY <1>6, <2>1, <2>2, <2>4, <2>6 DEF WireAt
  <2>8. ASSUME NEW i \in 1 .. l + 1, NEW j \in 1 .. l + 1, i < j
        PROVE  OrderAt(e, wire[e][i], wire[e][j])'
    <3>1. i \in 1 .. l
      BY <2>1, <2>8
    <3> QED
      BY <1>6, <2>1, <2>3, <2>5, <2>6, <2>8, <3>1 DEF WireAt
  <2> QED
    BY <1>8, <2>1, <2>7, <2>8 DEF WireAt
<1> QED
  BY <1>1, <1>7, <1>8

LEMMA ReceiptNumbers ==
    ASSUME SessionInv, WireType, HistoryType, Numbers, NEW e \in Endpoint,
           AcknowledgeReceipt(e)
    PROVE  Numbers'
<1>1. /\ state[e] = "Connected" /\ UNCHANGED sessionVars /\ UNCHANGED history
      /\ Send(e, ReceiveReadyFrame(e))
  BY DEF AcknowledgeReceipt, BuildReceiveReadyFrame
<1>2. /\ ReceiveReadyFrame(e) \in Frame /\ ReceiveReadyFrame(e).kind = "RR"
      /\ ReceiveReadyFrame(e).nr = receiveSequence[e]
  BY ReceiveReadyType DEF SessionInv
<1>3. Len(sent'[e]) = Len(sent[e]) /\ Len(sent[e]) \in Nat
  BY <1>1, CountsType DEF history
<1>4. ASSUME NEW x \in Endpoint PROVE WireAt(x)'
  BY <1>1, <1>2, <1>3, SequencedSendWire DEF InSession, Sequenced, history
<1>5. ASSUME NEW x \in Endpoint PROVE HistoryAt(x)' /\ SequencesAt(x)'
  BY <1>1 DEF Numbers, NumbersAt, HistoryAt, SequencesAt, InSession, history, sessionVars,
              sequences
<1> QED
  BY <1>4, <1>5 DEF Numbers, NumbersAt

LEMMA MessageNumbers ==
    ASSUME SessionInv, WireType, HistoryType, Phases, Numbers, NEW e \in Endpoint,
           windowSizeTransmit[e] < Modulus, SendMessage(e)
    PROVE  Numbers'
<1> DEFINE p == Peer[e]
           n == Len(sent[e])
<1>1. PICK size \in InfoSizes :
          BuildInformationFrame(e, size) /\ Send(e, IFrame(e, size, NextMessage(e)))
  BY DEF SendMessage
<1>2. /\ state[e] = "Connected" /\ Outstanding(e) < windowSizeTransmit[e]
      /\ sendSequence' = [sendSequence EXCEPT ![e] = NextSequence(sendSequence[e])]
      /\ UNCHANGED <<state, receiveSequence, acknowledgeSequence>>
  BY <1>1 DEF BuildInformationFrame, CanSendInformationFrame
<1>3. NextMessage(e) \in Payload /\ NextMessage(e) = <<session, n + 1>>
  BY <1>2, MessageInBounds DEF SendMessage, NextMessage
<1>4. /\ n \in Nat /\ acknowledged[e] \in Nat /\ p \in Endpoint /\ p # e /\ Peer[p] = e
      /\ sent[e] \in Seq(Payload)
  BY CountsType, TwoRoles DEF HistoryType
<1>5. /\ sent' = [sent EXCEPT ![e] = Append(sent[e], NextMessage(e))]
      /\ UNCHANGED <<session, delivered, acknowledged>>
      /\ n < MaxMessages[e]
  BY DEF SendMessage
<1>6. /\ Len(sent'[e]) = n + 1 /\ sent'[p] = sent[p]
      /\ \A i \in 1 .. n : sent'[e][i] = sent[e][i]
      /\ sent'[e][n + 1] = <<session, n + 1>>
  <2>1. sent'[e] = Append(sent[e], NextMessage(e)) /\ sent'[p] = sent[p]
    BY <1>4, <1>5 DEF HistoryType
  <2> QED
    BY <1>3, <1>4, <2>1
<1>7. ASSUME NEW x \in Endpoint PROVE WireAt(x)'
  <2> DEFINE f == IFrame(e, size, NextMessage(e))
  <2>1. /\ f \in Frame /\ f.kind = "I" /\ f.ns = sendSequence[e] /\ f.nr = receiveSequence[e]
        /\ f.payload = <<session, n + 1>>
    BY <1>3, IFrameType DEF SessionInv
  <2>2. Send(e, f)
    BY <1>1
  <2>3. Len(sent'[e]) \in Nat /\ Len(sent'[e]) >= n
    BY <1>4, <1>6
  <2>4. InSession(e)
    BY <1>2 DEF InSession
  <2> HIDE DEF f
  <2>5. Sequenced(f)
    BY <2>1 DEF Sequenced
  <2> QED
    BY <1>5, <1>6, <2>1, <2>2, <2>3, <2>4, <2>5, SequencedSendWire
<1>8. n + 1 <= acknowledged[e] + 7
  <2>1. /\ sendSequence[e] = n % Modulus /\ acknowledgeSequence[e] = acknowledged[e] % Modulus
        /\ acknowledged[e] <= n /\ n <= acknowledged[e] + 7
    BY <1>2, <1>4, CountsType DEF Numbers, NumbersAt, HistoryAt, SequencesAt, InSession
  <2>2. Outstanding(e) = n - acknowledged[e]
    BY <1>4, <2>1, DistanceOfCounts DEF Outstanding
  <2>3. windowSizeTransmit[e] \in Nat /\ windowSizeTransmit[e] < 8
    BY DEF SessionInv, TypeOK, Modulus
  <2> QED
    BY <1>2, <1>4, <2>2, <2>3
<1>9. HistoryAt(e)'
  <2>1. HistoryAt(e) /\ MaxMessages[e] \in Nat /\ Len(delivered[p]) \in Nat
    BY <1>4, CountsType, BoundAssumption DEF Numbers, NumbersAt
  <2>2. \A i \in 1 .. n + 1 : i \in 1 .. n \/ i = n + 1
    BY <1>4
  <2>3. \A i \in 1 .. n + 1 : sent'[e][i] = <<session, i>>
    BY <1>6, <2>1, <2>2 DEF HistoryAt
  <2> QED
    BY <1>4, <1>5, <1>6, <1>8, <2>1, <2>3 DEF HistoryAt
<1>10. HistoryAt(p)'
  BY <1>4, <1>5, <1>6 DEF Numbers, NumbersAt, HistoryAt
<1>11. SequencesAt(e)'
  <2>1. sendSequence'[e] = (n + 1) % Modulus
    BY <1>2, <1>4, NextRemainder DEF Numbers, NumbersAt, SequencesAt, InSession, SessionInv, TypeOK
  <2> QED
    BY <1>2, <1>5, <1>6, <2>1 DEF Numbers, NumbersAt, SequencesAt, InSession
<1>12. SequencesAt(p)'
  BY <1>2, <1>4, <1>5, <1>6 DEF Numbers, NumbersAt, SequencesAt, InSession, SessionInv, TypeOK
<1> QED
  BY <1>7, <1>9, <1>10, <1>11, <1>12, TwoRoles DEF Numbers, NumbersAt

\* A frame without numbers is alone on the wire of e.
LEMMA SoleFrame ==
    ASSUME NEW e \in Endpoint, NEW f \in Frame, ~Sequenced(f), Len(wire'[e]) = 1, wire'[e][1] = f
    PROVE  WireAt(e)'
<1>1. FrameAt(e, f)'
  BY DEF FrameAt, Sequenced
<1>2. ASSUME NEW i \in 1 .. Len(wire'[e]) PROVE FrameAt(e, wire[e][i])'
  <2>1. i = 1
    OBVIOUS
  <2> QED
    BY <1>1, <2>1
<1>3. ASSUME NEW i \in 1 .. Len(wire'[e]), NEW j \in 1 .. Len(wire'[e]), i < j
      PROVE  FALSE
  BY <1>3
<1> QED
  BY <1>2, <1>3 DEF WireAt

LEMMA AcceptNumbers ==
    ASSUME SessionInv, WireType, HistoryType, Phases, Numbers, NEW e \in Endpoint,
           AcceptConnection(e)
    PROVE  Numbers'
<1> DEFINE c == Peer[e]
           f == ConnectResponseFrame(e)
<1>1. TypeOK /\ TypeOK' /\ c \in Endpoint /\ c # e /\ Peer[c] = e
  <2>1. LinkStep(e)
    BY DEF LinkStep
  <2> QED
    BY <2>1, LinkStepOfSession, FrameStepTypeOK, UnchangedTypeOK, TwoRoles DEF SessionInv
<1>2. Calling(c, e) /\ wire[e] = <<>> /\ wire[c] = <<>>
  BY <1>1, AcceptPhases
<1>3. BuildConnectResponse(e) /\ Send(e, f)
  BY DEF AcceptConnection
<1>4. f \in Frame /\ f.kind = "UA"
  BY <1>1, ConnectResponseType
<1>5. \A x \in Endpoint : sent'[x] = <<>> /\ delivered'[x] = <<>> /\ acknowledged'[x] = 0
  BY DEF AcceptConnection
<1>6. ASSUME NEW x \in Endpoint PROVE HistoryAt(x)'
  BY <1>1, <1>5, TwoRoles, BoundAssumption DEF HistoryAt
<1>7. /\ sendSequence'[e] = 0 /\ receiveSequence'[e] = 0 /\ acknowledgeSequence'[e] = 0
      /\ state'[c] = "AwaitingConnection"
  BY <1>1, <1>2, <1>3, ResetType DEF BuildConnectResponse, Calling, TypeOK
<1>8. SequencesAt(e)' /\ SequencesAt(c)'
  <2>1. Len(sent'[e]) % Modulus = 0 /\ Len(delivered'[e]) % Modulus = 0
    <3>1. Len(sent'[e]) = 0 /\ Len(delivered'[e]) = 0
      BY <1>5
    <3> QED
      BY <3>1 DEF Modulus
  <2>2. acknowledged'[e] % Modulus = 0
    BY <1>5 DEF Modulus
  <2>3. ~InSession(c)'
    BY <1>7 DEF InSession
  <2> QED
    BY <1>7, <2>1, <2>2, <2>3 DEF SequencesAt
<1>9. WireAt(c)'
  <2>1. wire'[c] = wire[c] /\ Len(wire[c]) = 0
    BY <1>1, <1>2, <1>3, <1>4, SendEffect, EmptyWire
  <2> QED
    BY <2>1 DEF WireAt
<1>10. WireAt(e)'
  <2>1. Len(wire[e]) = 0
    BY <1>2, EmptyWire
  <2>2. Len(wire'[e]) = 0 + 1 /\ wire'[e][0 + 1] = f
    BY <1>3, <1>4, <2>1, SendEffect
  <2> HIDE DEF f
  <2> QED
    BY <1>4, <2>2, SoleFrame DEF Sequenced
<1> QED
  BY <1>1, <1>6, <1>8, <1>9, <1>10, TwoRoles DEF Numbers, NumbersAt

\* Session e accepts an I-frame or an RR.
LEMMA AcceptedNumbers ==
    ASSUME SessionInv, WireType, HistoryType, Phases, Numbers, NEW e \in Endpoint,
           InSession(e), InSession(e)',
           wire[Peer[e]] # <<>>, wire' = [wire EXCEPT ![Peer[e]] = Tail(@)],
           Sequenced(wire[Peer[e]][1]), UNCHANGED <<session, sent, sendSequence>>,
           \A x \in Endpoint : state'[x] = state[x],
           acknowledgeSequence' = [acknowledgeSequence EXCEPT ![e] = wire[Peer[e]][1].nr],
           acknowledged' =
               [acknowledged EXCEPT
                   ![e] = @ + Distance(acknowledgeSequence[e], wire[Peer[e]][1].nr)],
           \/ /\ wire[Peer[e]][1].kind # "I"
              /\ UNCHANGED <<receiveSequence, delivered>>
           \/ /\ wire[Peer[e]][1].kind = "I" /\ wire[Peer[e]][1].ns = receiveSequence[e]
              /\ receiveSequence' =
                     [receiveSequence EXCEPT ![e] = NextSequence(receiveSequence[e])]
              /\ delivered' = [delivered EXCEPT ![e] = Append(@, wire[Peer[e]][1].payload)]
    PROVE  Numbers' /\ HistoryType'
<1> DEFINE p == Peer[e]
           f == wire[p][1]
           a == acknowledged[e]
           n == CountOf(a, f.nr)
           d == Len(delivered[e])
<1>1. p \in Endpoint /\ p # e /\ Peer[p] = e /\ \A x \in Endpoint : x = e \/ x = p
  BY TwoRoles
<1>2. /\ n = a + Distance(acknowledgeSequence[e], f.nr)
      /\ n \in Nat /\ a <= n /\ n <= Len(delivered[p]) /\ n % Modulus = f.nr
  BY HeadCount
<1>3. /\ a \in Nat /\ d \in Nat /\ Len(sent[e]) \in Nat /\ Len(delivered[p]) \in Nat
      /\ Len(sent[p]) \in Nat /\ acknowledged[p] \in Nat /\ delivered[e] \in Seq(Payload)
  BY <1>1, CountsType DEF HistoryType
<1>4. /\ acknowledged' = [acknowledged EXCEPT ![e] = n]
      /\ acknowledged'[e] = n /\ acknowledged'[p] = acknowledged[p]
  BY <1>1, <1>2 DEF HistoryType
<1>5. f \in Frame
  BY <1>1, ShiftEffect
<1>6. delivered'[p] = delivered[p] /\ receiveSequence'[p] = receiveSequence[p]
  BY <1>1 DEF HistoryType, SessionInv, TypeOK
<1>7. \/ f.kind # "I" /\ delivered' = delivered
      \/ /\ f.kind = "I" /\ f.payload = <<session, d + 1>> /\ f.payload \in Payload
         /\ delivered' = [delivered EXCEPT ![e] = Append(@, f.payload)]
         /\ d + 1 <= Len(sent[p])
  BY <1>5, HeadMessage, SequencedFrame
<1>8. \/ f.kind # "I" /\ delivered'[e] = delivered[e]
      \/ /\ f.kind = "I" /\ f.payload = <<session, d + 1>>
         /\ delivered'[e] = Append(delivered[e], <<session, d + 1>>)
         /\ d + 1 <= Len(sent[p])
  BY <1>7 DEF HistoryType
<1>9. /\ Len(delivered'[e]) \in Nat /\ d <= Len(delivered'[e])
      /\ Len(delivered'[e]) <= Len(sent[p])
      /\ f.kind # "I" => Len(delivered'[e]) = d
      /\ f.kind = "I" => Len(delivered'[e]) = d + 1
      /\ \A i \in 1 .. Len(delivered'[e]) : delivered'[e][i] = <<session, i>>
  <2>1. d <= Len(sent[p]) /\ \A i \in 1 .. d : delivered[e][i] = <<session, i>>
    <3>1. HistoryAt(p)
      BY <1>1 DEF Numbers, NumbersAt
    <3> QED
      BY <1>1, <3>1 DEF HistoryAt
  <2>2. CASE f.kind # "I"
    BY <1>3, <1>8, <2>1, <2>2
  <2>3. CASE f.kind = "I"
    <3>1. delivered'[e] = Append(delivered[e], <<session, d + 1>>) /\ d + 1 <= Len(sent[p])
      BY <1>8, <2>3
    <3>2. <<session, d + 1>> \in Payload
      BY <1>7, <2>3
    <3>3. /\ Len(delivered'[e]) = d + 1 /\ delivered'[e][d + 1] = <<session, d + 1>>
          /\ \A i \in 1 .. d : delivered'[e][i] = delivered[e][i]
      BY <1>3, <3>1, <3>2
    <3>4. \A i \in 1 .. d + 1 : i \in 1 .. d \/ i = d + 1
      BY <1>3
    <3> QED
      BY <1>3, <2>1, <2>3, <3>1, <3>3, <3>4
  <2> QED
    BY <2>2, <2>3
<1>10. HistoryAt(e)' /\ HistoryAt(p)'
  <2>1. HistoryAt(e) /\ HistoryAt(p)
    BY <1>1 DEF Numbers, NumbersAt
  <2> HIDE DEF d, n
  <2>2. HistoryAt(e)'
    <3>1. /\ Len(sent[e]) <= MaxMessages[e] /\ Len(delivered[p]) <= Len(sent[e])
          /\ Len(sent[e]) <= a + 7
          /\ \A i \in 1 .. Len(sent[e]) : sent[e][i] = <<session, i>>
          /\ \A i \in 1 .. Len(delivered[p]) : delivered[p][i] = <<session, i>>
      BY <2>1 DEF HistoryAt
    <3>2. Len(sent[e]) <= n + 7
      BY <1>2, <1>3, <3>1
    <3> QED
      BY <1>2, <1>4, <1>6, <3>1, <3>2 DEF HistoryAt
  <2>3. HistoryAt(p)'
    <3>1. /\ Len(sent[p]) <= MaxMessages[p] /\ acknowledged[p] <= d
          /\ Len(sent[p]) <= acknowledged[p] + 7
          /\ \A i \in 1 .. Len(sent[p]) : sent[p][i] = <<session, i>>
      BY <1>1, <2>1 DEF HistoryAt, d
    <3>2. acknowledged[p] <= Len(delivered'[e])
      BY <1>3, <1>9, <3>1
    <3> QED
      BY <1>1, <1>4, <1>9, <3>1, <3>2 DEF HistoryAt
  <2> QED
    BY <2>2, <2>3
<1>11. HistoryType'
  <2>1. delivered' \in [Endpoint -> Seq(Payload)]
    <3>1. CASE f.kind # "I"
      BY <1>7, <3>1 DEF HistoryType
    <3>2. CASE f.kind = "I"
      <4>1. f.payload \in Payload /\ delivered' = [delivered EXCEPT ![e] = Append(@, f.payload)]
        BY <1>7, <3>2
      <4>2. Append(delivered[e], f.payload) \in Seq(Payload)
        BY <1>3, <4>1
      <4> QED
        BY <4>1, <4>2 DEF HistoryType
    <3> QED
      BY <3>1, <3>2
  <2> QED
    BY <1>2, <1>4, <2>1, ZenonT(30) DEF HistoryType
<1>12. SequencesAt(e)' /\ SequencesAt(p)'
  <2>1. SequencesAt(e) /\ SequencesAt(p)
    BY <1>1 DEF Numbers, NumbersAt
  <2>2. receiveSequence'[e] = Len(delivered'[e]) % Modulus
    <3>1. receiveSequence[e] = d % Modulus
      BY <2>1 DEF SequencesAt
    <3>2. CASE f.kind # "I"
      BY <1>9, <3>1, <3>2
    <3>3. CASE f.kind = "I"
      <4>1. receiveSequence'[e] = NextSequence(receiveSequence[e])
        BY <3>3 DEF SessionInv, TypeOK
      <4> QED
        BY <1>3, <1>9, <3>1, <3>3, <4>1, NextRemainder
    <3> QED
      BY <3>2, <3>3
  <2>3. acknowledgeSequence'[e] = n % Modulus /\ acknowledgeSequence'[p] = acknowledgeSequence[p]
    BY <1>1, <1>2 DEF SessionInv, TypeOK
  <2>4. SequencesAt(e)'
    BY <1>4, <2>1, <2>2, <2>3 DEF SequencesAt
  <2>5. SequencesAt(p)'
    BY <1>1, <1>4, <1>6, <2>1, <2>3 DEF SequencesAt, InSession
  <2> QED
    BY <2>4, <2>5
<1>13. WireAt(e)'
  <2>1. WireAt(e) /\ wire'[e] = wire[e]
    BY <1>1, ShiftEffect DEF Numbers, NumbersAt
  <2>2. \A g : FrameAt(e, g) => FrameAt(e, g)'
    <3> SUFFICES ASSUME NEW g, FrameAt(e, g) PROVE FrameAt(e, g)'
      OBVIOUS
    <3>1. Sequenced(g) => CountOf(acknowledged[p], g.nr) <= Len(delivered'[e])
      <4>1. g \in Frame /\ (Sequenced(g) => CountOf(acknowledged[p], g.nr) <= d)
        BY DEF FrameAt
      <4>2. Sequenced(g) => CountOf(acknowledged[p], g.nr) \in Nat
        BY <1>3, <4>1, SequencedFrame, CountOfType
      <4> QED
        BY <1>3, <1>9, <4>1, <4>2
    <3> QED
      BY <1>1, <1>4, <1>6, <3>1 DEF FrameAt
  <2>3. \A g, h : OrderAt(e, g, h) => OrderAt(e, g, h)'
    BY <1>4 DEF OrderAt
  <2> QED
    BY <2>1, <2>2, <2>3 DEF WireAt
<1>14. WireAt(p)'
  <2>1. /\ Len(wire[p]) \in Nat /\ Len(wire'[p]) = Len(wire[p]) - 1
        /\ \A i \in 1 .. Len(wire'[p]) : wire'[p][i] = wire[p][i + 1]
    BY <1>1, ShiftEffect, EmptyWire
  <2>2. WireAt(p)
    BY <1>1 DEF Numbers, NumbersAt
  <2>3. \A i \in 1 .. Len(wire'[p]) : i + 1 \in 1 .. Len(wire[p]) /\ 1 < i + 1
    BY <2>1
  <2>4. 1 \in 1 .. Len(wire[p])
    BY <1>1, ShiftEffect, EmptyWire
  <2>5. \A i \in 1 .. Len(wire'[p]) :
            FrameAt(p, wire[p][i + 1]) /\ OrderAt(p, f, wire[p][i + 1])
    BY <2>2, <2>3, <2>4 DEF WireAt
  <2>6. \A g \in Frame : Sequenced(g) /\ OrderAt(p, f, g) =>
            CountOf(n, g.nr) = CountOf(a, g.nr)
    BY <1>1, <1>2, <1>3, SequencedFrame, CountOfStable DEF OrderAt
  <2>7. \A g : FrameAt(p, g) /\ OrderAt(p, f, g) => FrameAt(p, g)'
    <3> SUFFICES ASSUME NEW g, FrameAt(p, g), OrderAt(p, f, g) PROVE FrameAt(p, g)'
      OBVIOUS
    <3>1. g \in Frame
      BY <1>1 DEF FrameAt
    <3>2. Sequenced(g) => CountOf(acknowledged'[e], g.nr) <= Len(delivered'[p])
      BY <1>1, <1>4, <1>6, <2>6, <3>1 DEF FrameAt
    <3>3. ASSUME g.kind = "I"
          PROVE  \E j \in Len(delivered'[e]) + 1 .. Len(sent'[p]) :
                     g.payload = <<session', j>> /\ g.ns = (j - 1) % Modulus
      <4>1. PICK j \in d + 1 .. Len(sent[p]) :
                g.payload = <<session, j>> /\ g.ns = (j - 1) % Modulus
        BY <1>1, <3>3 DEF FrameAt
      <4>2. f.kind = "I" => d + 1 < j
        BY <1>8, <3>3, <4>1 DEF OrderAt
      <4>3. j \in Len(delivered'[e]) + 1 .. Len(sent[p])
        BY <1>3, <1>9, <4>1, <4>2
      <4> QED
        BY <4>1, <4>3
    <3> QED
      BY <1>1, <3>1, <3>2, <3>3 DEF FrameAt
  <2>8. \A g \in Frame, h \in Frame :
            OrderAt(p, f, g) /\ OrderAt(p, f, h) /\ OrderAt(p, g, h) => OrderAt(p, g, h)'
    <3> SUFFICES ASSUME NEW g \in Frame, NEW h \in Frame,
                        OrderAt(p, f, g), OrderAt(p, f, h), OrderAt(p, g, h)
                 PROVE  OrderAt(p, g, h)'
      OBVIOUS
    <3>1. Sequenced(g) /\ Sequenced(h) =>
              CountOf(acknowledged'[e], g.nr) <= CountOf(acknowledged'[e], h.nr)
      BY <1>1, <1>4, <2>6 DEF OrderAt
    <3> QED
      BY <1>1, <3>1 DEF OrderAt
  <2>9. \A i \in 1 .. Len(wire'[p]) : wire[p][i + 1] \in Frame
    BY <2>5 DEF FrameAt
  <2>10. ASSUME NEW i \in 1 .. Len(wire'[p]) PROVE FrameAt(p, wire[p][i])'
    BY <1>1, <2>1, <2>5, <2>7
  <2>11. ASSUME NEW i \in 1 .. Len(wire'[p]), NEW j \in 1 .. Len(wire'[p]), i < j
         PROVE  OrderAt(p, wire[p][i], wire[p][j])'
    <3>1. i + 1 < j + 1
      BY <2>11
    <3>2. OrderAt(p, wire[p][i + 1], wire[p][j + 1])
      BY <2>2, <2>3, <3>1 DEF WireAt
    <3> QED
      BY <1>1, <2>1, <2>5, <2>8, <2>9, <3>2
  <2> QED
    BY <1>1, <2>10, <2>11 DEF WireAt
<1> QED
  BY <1>1, <1>10, <1>11, <1>12, <1>13, <1>14 DEF Numbers, NumbersAt

LEMMA DeliverNumbers ==
    ASSUME SessionInv, WireType, HistoryType, Phases, Numbers, NEW e \in Endpoint, Deliver(e)
    PROVE  Numbers' /\ HistoryType'
<1> DEFINE p == Peer[e]
           f == wire[p][1]
<1>1. p \in Endpoint /\ p # e /\ Peer[p] = e /\ \A x \in Endpoint : x = e \/ x = p
  BY TwoRoles
<1>2. /\ wire[p] # <<>> /\ WireType' /\ wire' = [wire EXCEPT ![p] = Tail(@)]
      /\ Head(wire[p]) = f /\ f \in Frame /\ ReceiveFrame(e, f) /\ 1 \in 1 .. Len(wire[p])
  BY DeliverEffect, EmptyWire, <1>1
<1>3. f.kind \in {"I", "RR", "DISC", "UA", "SNRM"}
  BY <1>1, <1>2, WireKinds DEF Carries
<1>4. UNCHANGED <<session, sent>>
  BY DEF Deliver
<1>5. /\ delivered' = IF Accepts(e, f) /\ f.kind = "I"
                      THEN [delivered EXCEPT ![e] = Append(@, f.payload)] ELSE delivered
      /\ acknowledged' = IF Accepts(e, f) /\ f.kind \in SupervisoryKind \cup {"I"}
                         THEN [acknowledged EXCEPT
                                 ![e] = @ + Distance(acknowledgeSequence[e], f.nr)]
                         ELSE acknowledged
  BY <1>2 DEF Deliver
<1>6. ASSUME UNCHANGED <<delivered, acknowledged>>, \A x \in Endpoint : SequencesAt(x)'
      PROVE  Numbers' /\ HistoryType'
  <2>1. UNCHANGED history
    BY <1>4, <1>6 DEF history
  <2>2. \A x \in Endpoint : HistoryAt(x)' /\ WireAt(x)'
    BY <1>1, <1>2, <2>1, ShiftNumbers
  <2> QED
    BY <1>6, <2>1, <2>2 DEF Numbers, NumbersAt, HistoryType, history
<1>7. ~Sequenced(f) => UNCHANGED <<delivered, acknowledged>>
  BY <1>3, <1>5 DEF Sequenced, SupervisoryKind
<1>8. ~Accepts(e, f) => UNCHANGED <<delivered, acknowledged>>
  BY <1>5
<1>9. SequencesAt(e) /\ SequencesAt(p)
  BY <1>1 DEF Numbers, NumbersAt
<1>10. CASE ReceiveInformationFrame(e, f)
  <2>1. /\ f.kind = "I" /\ Accepts(e, f) /\ state' = state /\ sendSequence' = sendSequence
        /\ acknowledgeSequence' = [acknowledgeSequence EXCEPT ![e] = f.nr]
        /\ receiveSequence' = [receiveSequence EXCEPT ![e] = NextSequence(receiveSequence[e])]
    BY <1>10 DEF ReceiveInformationFrame
  <2>2. AcceptsInformation(e, f)
    BY <2>1 DEF Accepts, SupervisoryKind, UnnumberedKind
  <2>3. f.ns = receiveSequence[e] /\ InSession(e) /\ InSession(e)' /\ Sequenced(f)
    BY <2>1, <2>2 DEF AcceptsInformation, InSession, Sequenced
  <2>4. /\ delivered' = [delivered EXCEPT ![e] = Append(@, f.payload)]
        /\ acknowledged' = [acknowledged EXCEPT
                              ![e] = @ + Distance(acknowledgeSequence[e], f.nr)]
    BY <1>5, <2>1
  <2> HIDE DEF f
  <2> QED
    BY <1>2, <1>4, <2>1, <2>3, <2>4, AcceptedNumbers DEF f
<1>11. CASE ReceiveSupervisoryFrame(e, f)
  <2>1. /\ f.kind = "RR" /\ Accepts(e, f) /\ state' = state
        /\ UNCHANGED <<sendSequence, receiveSequence>>
        /\ acknowledgeSequence' = [acknowledgeSequence EXCEPT ![e] = f.nr]
    BY <1>3, <1>11 DEF ReceiveSupervisoryFrame, SupervisoryKind
  <2>2. AcceptsSupervisory(e, f)
    BY <2>1 DEF Accepts, SupervisoryKind, UnnumberedKind
  <2>3. InSession(e) /\ InSession(e)' /\ Sequenced(f)
    BY <2>1, <2>2 DEF AcceptsSupervisory, InSession, Sequenced
  <2>4. /\ UNCHANGED delivered
        /\ acknowledged' = [acknowledged EXCEPT
                              ![e] = @ + Distance(acknowledgeSequence[e], f.nr)]
    BY <1>5, <2>1 DEF SupervisoryKind
  <2> HIDE DEF f
  <2> QED
    BY <1>2, <1>4, <2>1, <2>3, <2>4, AcceptedNumbers DEF f
<1>12. CASE ReceiveSnrm(e, f)
  <2>1. ~Sequenced(f) /\ state' = state /\ state[e] = "Disconnected"
    BY <1>12 DEF ReceiveSnrm, Accepts, AcceptsUnnumbered, AcceptsSnrm, Sequenced, SupervisoryKind
  <2>2. ResetSequences(e)
    BY <1>12 DEF ReceiveSnrm
  <2>3. SequencesAt(e)'
    BY <2>1 DEF SequencesAt, InSession
  <2>4. SequencesAt(p)'
    BY <1>1, <1>4, <1>7, <1>9, <2>1, <2>2 DEF ResetSequences, SequencesAt, InSession, SessionInv, TypeOK
  <2> QED
    BY <1>1, <1>6, <1>7, <2>1, <2>3, <2>4
<1>13. CASE ReceiveMalformedSnrm(e, f) \/ RejectFrame(e, f) \/ ReceiveDisc(e, f)
  <2>1. state' = state /\ UNCHANGED sequences
    BY <1>13 DEF ReceiveMalformedSnrm, RejectFrame, ReceiveDisc, sessionVars
  <2>2. UNCHANGED <<delivered, acknowledged>>
    BY <1>7, <1>8, <1>13 DEF ReceiveMalformedSnrm, RejectFrame, ReceiveDisc, Sequenced
  <2>3. \A x \in Endpoint : SequencesAt(x)'
    BY <1>1, <1>4, <1>9, <2>1, <2>2 DEF SequencesAt, InSession, sequences
  <2> QED
    BY <1>6, <2>2, <2>3
<1>14. CASE ReceiveDisconnectUa(e, f) \/ ReceiveDm(e, f)
  <2>1. /\ ~Sequenced(f) /\ state' = [state EXCEPT ![e] = "Disconnected"]
        /\ ResetSequences(e)
    BY <1>14 DEF ReceiveDisconnectUa, ReceiveDm, Sequenced
  <2>2. state'[e] = "Disconnected" /\ state'[p] = state[p]
    BY <1>1, <2>1 DEF SessionInv, TypeOK
  <2>3. SequencesAt(e)'
    BY <2>2 DEF SequencesAt, InSession
  <2>4. SequencesAt(p)'
    BY <1>1, <1>4, <1>7, <1>9, <2>1, <2>2 DEF ResetSequences, SequencesAt, InSession, SessionInv, TypeOK
  <2> QED
    BY <1>1, <1>6, <1>7, <2>1, <2>3, <2>4
<1>15. CASE ReceiveConnectUa(e, f)
  <2>1. ~Sequenced(f) /\ ResetSequences(e) /\ state' = [state EXCEPT ![e] = "Connected"]
    BY <1>15 DEF ReceiveConnectUa, Sequenced
  <2>2. Fresh(e)
    BY <1>2, <1>4, <1>15, ConnectUaPhases DEF Opened, SessionInv
  <2>3. state'[p] = state[p]
    BY <1>1, <2>1 DEF SessionInv, TypeOK
  <2>4. SequencesAt(p)'
    BY <1>1, <1>4, <1>7, <1>9, <2>1, <2>3 DEF ResetSequences, SequencesAt, InSession, SessionInv, TypeOK
  <2>5. SequencesAt(e)'
    <3>1. Len(sent'[e]) = 0 /\ Len(delivered'[e]) = 0 /\ acknowledged'[e] = 0
      BY <1>4, <1>7, <2>1, <2>2, EmptySequence DEF Fresh
    <3>2. 0 % Modulus = 0
      BY DEF Modulus
    <3>3. sendSequence'[e] = 0 /\ receiveSequence'[e] = 0 /\ acknowledgeSequence'[e] = 0
      BY <2>1 DEF ResetSequences, SessionInv, TypeOK
    <3> QED
      BY <3>1, <3>2, <3>3 DEF SequencesAt
  <2> QED
    BY <1>1, <1>6, <1>7, <2>1, <2>4, <2>5
<1> QED
  BY <1>2, <1>10, <1>11, <1>12, <1>13, <1>14, <1>15 DEF ReceiveFrame

\* The steps that leave the history alone.
LEMMA OtherNumbers ==
    ASSUME SessionInv, WireType, HistoryType, Numbers, NEW e \in Endpoint,
           \/ Connect(e)
           \/ FailToAccept(e)
           \/ Disconnect(e)
           \/ AnswerDisconnect(e)
           \/ Lose(e)
    PROVE  Numbers'
<1> DEFINE p == Peer[e]
<1>1. p \in Endpoint /\ p # e /\ Peer[p] = e /\ \A x \in Endpoint : x = e \/ x = p
  BY TwoRoles
<1>2. SequencesAt(e) /\ SequencesAt(p)
  BY <1>1 DEF Numbers, NumbersAt
<1>3. TypeOK
  BY DEF SessionInv
<1>4. CASE Connect(e)
  <2>1. PICK form \in ConnectRequestForms(e) :
            BuildConnectRequest(e, form) /\ Send(e, SnrmFrame(e, form))
    BY <1>4 DEF Connect
  <2>2. UNCHANGED history
    BY <1>4 DEF Connect
  <2>3. state' = [state EXCEPT ![e] = "AwaitingConnection"] /\ ResetSequences(e)
    BY <2>1 DEF BuildConnectRequest
  <2>4. SequencesAt(e)' /\ SequencesAt(p)'
    BY <1>1, <1>2, <1>3, <2>2, <2>3 DEF SequencesAt, InSession, ResetSequences, TypeOK, history
  <2>5. \A x \in Endpoint : HistoryAt(x)' /\ WireAt(x)'
    BY <2>1, <2>2, SnrmType, PlainSendNumbers DEF Sequenced
  <2> QED
    BY <1>1, <2>4, <2>5 DEF Numbers, NumbersAt
<1>5. CASE FailToAccept(e)
  <2>1. UNCHANGED <<state, sequences, wire, history>>
    BY <1>5 DEF FailToAccept, BuildConnectResponseTooLarge, lineVars
  <2> QED
    BY <2>1, SameNumbers
<1>6. CASE Disconnect(e)
  <2>1. PICK user \in UserSizes :
            BuildDisconnectRequest(e, user) /\ Send(e, DiscFrame(e, user))
    BY <1>6 DEF Disconnect
  <2>2. UNCHANGED history
    BY <1>6 DEF Disconnect
  <2>3. /\ state[e] = "Connected" /\ state' = [state EXCEPT ![e] = "AwaitingDisconnect"]
        /\ UNCHANGED sequences
    BY <2>1 DEF BuildDisconnectRequest
  <2>4. SequencesAt(e)' /\ SequencesAt(p)'
    BY <1>1, <1>2, <1>3, <2>2, <2>3 DEF SequencesAt, InSession, sequences, TypeOK, history
  <2>5. \A x \in Endpoint : HistoryAt(x)' /\ WireAt(x)'
    BY <2>1, <2>2, DiscType, PlainSendNumbers DEF Sequenced
  <2> QED
    BY <1>1, <2>4, <2>5 DEF Numbers, NumbersAt
<1>7. CASE AnswerDisconnect(e)
  <2>1. /\ BuildDisconnectResponse(e) /\ Send(e, DisconnectResponseFrame(e))
        /\ UNCHANGED history
    BY <1>7 DEF AnswerDisconnect
  <2>3. state' = [state EXCEPT ![e] = "Disconnected"] /\ ResetSequences(e)
    BY <2>1 DEF BuildDisconnectResponse
  <2>4. SequencesAt(e)' /\ SequencesAt(p)'
    BY <1>1, <1>2, <1>3, <2>1, <2>3 DEF SequencesAt, InSession, ResetSequences, TypeOK, history
  <2>5. \A x \in Endpoint : HistoryAt(x)' /\ WireAt(x)'
    BY <2>1, DisconnectResponseType, PlainSendNumbers DEF Sequenced
  <2> QED
    BY <1>1, <2>4, <2>5 DEF Numbers, NumbersAt
<1>8. CASE Lose(e)
  <2>1. /\ wire[e] # <<>> /\ wire' = [wire EXCEPT ![e] = Tail(@)]
        /\ UNCHANGED history /\ UNCHANGED <<state, sequences>>
    BY <1>8 DEF Lose, LoseFrame, sessionVars
  <2>2. \A x \in Endpoint : HistoryAt(x)' /\ WireAt(x)'
    BY <2>1, ShiftNumbers
  <2>3. SequencesAt(e)' /\ SequencesAt(p)'
    BY <1>1, <1>2, <2>1 DEF SequencesAt, InSession, sequences, history
  <2> QED
    BY <1>1, <2>2, <2>3 DEF Numbers, NumbersAt
<1> QED
  BY <1>4, <1>5, <1>6, <1>7, <1>8

LEMMA DeliverTypes ==
    ASSUME SessionInv, WireType, HistoryType, NEW e \in Endpoint, Deliver(e)
    PROVE  HistoryType'
<1> DEFINE f == wire[Peer[e]][1]
<1>1. f \in Frame /\ Head(wire[Peer[e]]) = f
  BY DeliverEffect
<1>2. UNCHANGED <<session, sent>>
  BY DEF Deliver
<1>3. delivered' \in [Endpoint -> Seq(Payload)]
  <2>1. f.kind = "I" => f.payload \in Payload
    BY <1>1, SequencedFrame DEF Sequenced
  <2>2. \/ delivered' = delivered
        \/ f.kind = "I" /\ delivered' = [delivered EXCEPT ![e] = Append(@, f.payload)]
    BY <1>1 DEF Deliver
  <2>3. f.kind = "I" => Append(delivered[e], f.payload) \in Seq(Payload)
    BY <2>1 DEF HistoryType
  <2> QED
    BY <2>2, <2>3 DEF HistoryType
<1>4. acknowledged' \in [Endpoint -> Nat]
  <2>1. f.kind \in SupervisoryKind \cup {"I"} => f.nr \in SequenceNumber
    BY <1>1, SequencedArrives
  <2>2. f.kind \in SupervisoryKind \cup {"I"} => Distance(acknowledgeSequence[e], f.nr) \in Nat
    BY <2>1, DistanceNat DEF SessionInv, TypeOK
  <2>3. \/ acknowledged' = acknowledged
        \/ /\ f.kind \in SupervisoryKind \cup {"I"}
           /\ acknowledged' = [acknowledged EXCEPT
                                 ![e] = @ + Distance(acknowledgeSequence[e], f.nr)]
    BY <1>1 DEF Deliver
  <2> QED
    BY <2>2, <2>3 DEF HistoryType
<1> QED
  BY <1>2, <1>3, <1>4 DEF HistoryType

LEMMA StepTypes ==
    ASSUME SessionInv, WireType, HistoryType, Phases, NEW e \in Endpoint, LinkStep(e)
    PROVE  WireType' /\ HistoryType'
<1>0. TypeOK
  BY DEF SessionInv
<1>1. CASE Connect(e)
  BY <1>1, SnrmType, SendEffect DEF Connect, HistoryType, history
<1>2. CASE AcceptConnection(e)
  <2>1. WireType'
    BY <1>0, <1>2, ConnectResponseType, SendEffect DEF AcceptConnection
  <2>2. session < MaxSessions
    BY <1>0, <1>2, AcceptPhases DEF Calling
  <2>3. session' \in 0 .. MaxSessions
    BY <1>2, <2>2, BoundAssumption DEF AcceptConnection, HistoryType
  <2> QED
    BY <1>2, <2>1, <2>3 DEF AcceptConnection, HistoryType
<1>3. CASE FailToAccept(e)
  BY <1>3 DEF FailToAccept, WireType, HistoryType, lineVars, history
<1>4. CASE Disconnect(e)
  BY <1>4, DiscType, SendEffect DEF Disconnect, HistoryType, history
<1>5. CASE AnswerDisconnect(e)
  BY <1>5, DisconnectResponseType, SendEffect DEF AnswerDisconnect, HistoryType, history
<1>6. CASE SendMessage(e)
  <2>1. PICK size \in InfoSizes :
            BuildInformationFrame(e, size) /\ Send(e, IFrame(e, size, NextMessage(e)))
    BY <1>6 DEF SendMessage
  <2>2. NextMessage(e) \in Payload
    BY <1>6, <2>1, MessageInBounds DEF SendMessage, BuildInformationFrame
  <2>3. WireType'
    BY <1>0, <2>1, <2>2, IFrameType, SendEffect
  <2>4. sent' = [sent EXCEPT ![e] = Append(@, NextMessage(e))]
        /\ UNCHANGED <<session, delivered, acknowledged>>
    BY <1>6 DEF SendMessage
  <2>5. Append(sent[e], NextMessage(e)) \in Seq(Payload)
    BY <2>2 DEF HistoryType
  <2> QED
    BY <2>3, <2>4, <2>5 DEF HistoryType
<1>7. CASE AcknowledgeReceipt(e)
  BY <1>0, <1>7, ReceiveReadyType, SendEffect DEF AcknowledgeReceipt, HistoryType, history
<1>8. CASE Deliver(e)
  BY <1>8, DeliverEffect, DeliverTypes
<1>9. CASE Lose(e)
  <2>1. losses' = losses + 1 /\ losses < MaxLosses /\ losses \in 0 .. MaxLosses
    BY <1>9 DEF Lose, LoseFrame, WireType
  <2>2. wire' \in [Endpoint -> Seq(Frame)]
    BY <1>9, ShiftEffect DEF Lose, LoseFrame
  <2>3. losses' \in 0 .. MaxLosses
    BY <2>1, LineAssumption
  <2> QED
    BY <1>9, <2>2, <2>3 DEF Lose, WireType, HistoryType, history
<1> QED
  BY <1>1, <1>2, <1>3, <1>4, <1>5, <1>6, <1>7, <1>8, <1>9 DEF LinkStep

LEMMA StepNumbers ==
    ASSUME SessionInv, WireType, HistoryType, Phases, Numbers, NEW e \in Endpoint,
           windowSizeTransmit[e] < Modulus, LinkStep(e)
    PROVE  Numbers'
<1>1. CASE AcceptConnection(e)
  BY <1>1, AcceptNumbers
<1>2. CASE SendMessage(e)
  BY <1>2, MessageNumbers
<1>3. CASE AcknowledgeReceipt(e)
  BY <1>3, ReceiptNumbers
<1>4. CASE Deliver(e)
  BY <1>4, DeliverNumbers
<1> QED
  BY <1>1, <1>2, <1>3, <1>4, OtherNumbers DEF LinkStep

LEMMA InitNumbers == LinkInit => WireType /\ HistoryType /\ Numbers
<1> SUFFICES ASSUME LinkInit PROVE WireType /\ HistoryType /\ Numbers
  OBVIOUS
<1>1. WireType /\ HistoryType
  BY LineAssumption, BoundAssumption DEF LinkInit, LineInit, WireType, HistoryType
<1>2. ASSUME NEW e \in Endpoint PROVE NumbersAt(e)
  <2>1. Peer[e] \in Endpoint
    BY TwoRoles
  <2>2. /\ sent[e] = <<>> /\ delivered[Peer[e]] = <<>> /\ acknowledged[e] = 0
        /\ wire[e] = <<>> /\ state[e] = "Disconnected"
    BY <2>1 DEF LinkInit, LineInit, Init
  <2>3. Len(sent[e]) = 0 /\ Len(delivered[Peer[e]]) = 0 /\ Len(wire[e]) = 0
    BY <2>2
  <2>4. HistoryAt(e)
    BY <2>2, <2>3, BoundAssumption DEF HistoryAt
  <2>5. SequencesAt(e)
    BY <2>2 DEF SequencesAt, InSession
  <2>6. WireAt(e)
    BY <2>3 DEF WireAt
  <2> QED
    BY <2>4, <2>5, <2>6 DEF NumbersAt
<1> QED
  BY <1>1, <1>2 DEF Numbers

LEMMA StepAddressing ==
    ASSUME SessionInv, WireType, HistoryType, Phases, Addressing, NEW e \in Endpoint, LinkStep(e)
    PROVE  Addressing'
<1>0. TypeOK
  BY DEF SessionInv
<1>1. CASE Connect(e)
  BY <1>1, SnrmType, SendAddressing DEF Connect
<1>2. CASE AcceptConnection(e)
  BY <1>0, <1>2, ConnectResponseType, SendAddressing DEF AcceptConnection
<1>3. CASE FailToAccept(e)
  BY <1>3 DEF FailToAccept, lineVars, Addressing, Addressed
<1>4. CASE Disconnect(e)
  BY <1>4, DiscType, SendAddressing DEF Disconnect
<1>5. CASE AnswerDisconnect(e)
  BY <1>5, DisconnectResponseType, SendAddressing DEF AnswerDisconnect
<1>6. CASE SendMessage(e)
  <2>1. PICK size \in InfoSizes :
            BuildInformationFrame(e, size) /\ Send(e, IFrame(e, size, NextMessage(e)))
    BY <1>6 DEF SendMessage
  <2>2. NextMessage(e) \in Payload
    BY <1>6, <2>1, MessageInBounds DEF SendMessage, BuildInformationFrame
  <2> QED
    BY <1>0, <2>1, <2>2, IFrameType, SendAddressing
<1>7. CASE AcknowledgeReceipt(e)
  BY <1>0, <1>7, ReceiveReadyType, SendAddressing DEF AcknowledgeReceipt
<1>8. CASE Deliver(e)
  BY <1>8, DeliverEffect, ShiftAddressing, TwoRoles
<1>9. CASE Lose(e)
  BY <1>9, ShiftAddressing DEF Lose, LoseFrame
<1> QED
  BY <1>1, <1>2, <1>3, <1>4, <1>5, <1>6, <1>7, <1>8, <1>9 DEF LinkStep

-----------------------------------------------------------------------------
(***************************************************************************)
(* The windows: neither side proposes or accepts more than its own.        *)
(***************************************************************************)
\* Windows change when a server answers and when a client takes the UA.
LEMMA WindowsNarrow ==
    ASSUME NarrowWindows, TypeOK, WireType, Narrow, NEW e \in Endpoint, LinkStep(e),
           NEW x \in Endpoint
    PROVE  windowSizeTransmit'[x] < Modulus
<1>1. windowSizeTransmit \in [Endpoint -> Nat] /\ windowSizeTransmit[x] < Modulus
  BY DEF TypeOK, Narrow, NarrowAt
<1>2. CASE AcceptConnection(e) \/ FailToAccept(e)
  <2>1. AdoptAnswer(e)
    BY <1>2 DEF AcceptConnection, FailToAccept, BuildConnectResponse,
                BuildConnectResponseTooLarge
  <2> QED
    BY <1>1, <2>1, AnswerNarrow DEF AdoptAnswer, Adopt, negotiated
<1>3. CASE Deliver(e)
  <2> DEFINE p == Peer[e]
             f == wire[p][1]
  <2>1. p \in Endpoint /\ ReceiveFrame(e, f) /\ f \in Frame /\ 1 \in 1 .. Len(wire[p])
    BY <1>3, DeliverEffect, TwoRoles, EmptyWire
  <2>2. f.kind = "UA" => f.block.params.windowTx < Modulus
    BY <2>1 DEF Narrow, NarrowAt, NarrowWire
  <2> HIDE DEF f
  <2>3. CASE ReceiveConnectUa(e, f)
    <3>1. f.kind = "UA" /\ (UNCHANGED negotiated \/ Adopt(e, ClientLimits(f.block.params)))
      BY <2>3 DEF ReceiveConnectUa
    <3>2. f.block.params.windowTx \in Nat
      <4>1. f.block \in NegotiationBlock
        BY <2>1, <3>1, UnnumberedArrives DEF UnnumberedKind
      <4> QED
        BY <4>1 DEF NegotiationBlock, Params
    <3>3. ClientLimits(f.block.params).windowTransmit < Modulus
      BY <2>2, <3>1, <3>2, NarrowByte DEF ClientLimits
    <3> QED
      BY <1>1, <3>1, <3>3 DEF Adopt, negotiated
  <2>4. CASE ~ReceiveConnectUa(e, f)
    <3>1. UNCHANGED negotiated
      BY <2>1, <2>4 DEF ReceiveFrame, ReceiveInformationFrame, ReceiveSupervisoryFrame,
                        ReceiveSnrm, ReceiveMalformedSnrm, ReceiveDisconnectUa, ReceiveDisc,
                        ReceiveDm, RejectFrame, sessionVars
    <3> QED
      BY <1>1, <3>1 DEF negotiated
  <2> QED
    BY <2>3, <2>4
<1>4. CASE \/ Connect(e) \/ Disconnect(e) \/ AnswerDisconnect(e) \/ SendMessage(e)
           \/ AcknowledgeReceipt(e) \/ Lose(e)
  <2>1. UNCHANGED negotiated
    BY <1>4 DEF Connect, Disconnect, AnswerDisconnect, SendMessage, AcknowledgeReceipt, Lose,
                BuildConnectRequest, BuildDisconnectRequest, BuildDisconnectResponse,
                BuildInformationFrame, BuildReceiveReadyFrame, sessionVars
  <2> QED
    BY <1>1, <2>1 DEF negotiated
<1> QED
  BY <1>2, <1>3, <1>4 DEF LinkStep

LEMMA StepNarrow ==
    ASSUME NarrowWindows, SessionInv, WireType, HistoryType, Phases, Narrow, NEW e \in Endpoint,
           LinkStep(e)
    PROVE  Narrow'
<1> SUFFICES ASSUME NEW x \in Endpoint PROVE NarrowAt(x)'
  BY DEF Narrow
<1>0. TypeOK
  BY DEF SessionInv
<1>1. ASSUME Connect(e) PROVE NarrowWire(x)'
  <2>1. PICK form \in ConnectRequestForms(e) : Send(e, SnrmFrame(e, form))
    BY <1>1 DEF Connect
  <2> QED
    BY <2>1, SnrmType, SendNarrow
<1>2. ASSUME AcceptConnection(e) PROVE NarrowWire(x)'
  BY <1>0, <1>2, AnswerNarrow, ConnectResponseType, SendNarrow DEF AcceptConnection
<1>3. ASSUME FailToAccept(e) PROVE NarrowWire(x)'
  BY <1>3 DEF FailToAccept, lineVars, Narrow, NarrowAt, NarrowWire
<1>4. ASSUME Disconnect(e) PROVE NarrowWire(x)'
  <2>1. PICK user \in UserSizes : Send(e, DiscFrame(e, user))
    BY <1>4 DEF Disconnect
  <2> QED
    BY <2>1, DiscType, SendNarrow
<1>5. ASSUME AnswerDisconnect(e) PROVE NarrowWire(x)'
  <2>1. NoBlock.params.windowTx < Modulus
    BY DEF NoBlock, DefaultSnrmParams, DefaultWindowSize, Modulus
  <2> QED
    BY <1>5, <2>1, DisconnectResponseType, SendNarrow DEF AnswerDisconnect
<1>6. ASSUME SendMessage(e) PROVE NarrowWire(x)'
  <2>1. PICK size \in InfoSizes :
            BuildInformationFrame(e, size) /\ Send(e, IFrame(e, size, NextMessage(e)))
    BY <1>6 DEF SendMessage
  <2>2. NextMessage(e) \in Payload
    BY <1>6, <2>1, MessageInBounds DEF SendMessage, BuildInformationFrame
  <2> QED
    BY <1>0, <2>1, <2>2, IFrameType, SendNarrow
<1>7. ASSUME AcknowledgeReceipt(e) PROVE NarrowWire(x)'
  BY <1>0, <1>7, ReceiveReadyType, SendNarrow DEF AcknowledgeReceipt
<1>8. ASSUME Deliver(e) PROVE NarrowWire(x)'
  BY <1>8, DeliverEffect, ShiftNarrow, TwoRoles
<1>9. ASSUME Lose(e) PROVE NarrowWire(x)'
  BY <1>9, ShiftNarrow DEF Lose, LoseFrame
<1>10. NarrowWire(x)'
  BY <1>1, <1>2, <1>3, <1>4, <1>5, <1>6, <1>7, <1>8, <1>9 DEF LinkStep
<1>11. windowSizeTransmit'[x] < Modulus
  BY <1>0, WindowsNarrow
<1> QED
  BY <1>10, <1>11 DEF NarrowAt

-----------------------------------------------------------------------------
(***************************************************************************)
(* The invariant holds, and what it says of the link.                      *)
(***************************************************************************)
LEMMA InitPhaseInv == LinkInit => SessionInv /\ PhaseInv
<1> SUFFICES ASSUME LinkInit PROVE SessionInv /\ PhaseInv
  OBVIOUS
<1>1. SessionInv
  BY InitSessionInv DEF LinkInit
<1>2. WireType /\ HistoryType /\ Phases
  BY InitNumbers, InitPhases
<1>3. ASSUME NEW e \in Endpoint PROVE Len(wire[e]) = 0
  <2>1. wire[e] = <<>>
    BY DEF LinkInit, LineInit
  <2> QED
    BY <2>1
<1>4. Addressing
  BY <1>3 DEF Addressing
<1> QED
  BY <1>1, <1>2, <1>4 DEF PhaseInv

LEMMA StepPhaseInv ==
    SessionInv /\ PhaseInv /\ [LinkNext]_linkVars => (SessionInv /\ PhaseInv)'
<1> SUFFICES ASSUME SessionInv, PhaseInv, [LinkNext]_linkVars
             PROVE  (SessionInv /\ PhaseInv)'
  OBVIOUS
<1>1. HistoryType /\ WireType /\ Addressing /\ Phases
  BY DEF PhaseInv
<1>2. ASSUME NEW e \in Endpoint, LinkStep(e) PROVE (SessionInv /\ PhaseInv)'
  <2>1. SessionInv'
    BY <1>1, <1>2, LinkStepOfSession, FrameStepSessionInv, UnchangedSessionInv
  <2>2. HistoryType' /\ WireType'
    BY <1>1, <1>2, StepTypes
  <2>3. Addressing' /\ Phases'
    BY <1>1, <1>2, StepAddressing, StepPhases
  <2> QED
    BY <2>1, <2>2, <2>3 DEF PhaseInv
<1>3. CASE UNCHANGED linkVars
  <2>1. UNCHANGED <<sessionVars, wire, losses, session, sent, delivered, acknowledged>>
    BY <1>3 DEF linkVars, lineVars, history
  <2>2. SessionInv'
    BY <2>1, UnchangedSessionInv
  <2>3. UNCHANGED <<state, connectResponsePending, disconnectResponsePending>>
    BY <2>1 DEF sessionVars, pending
  <2>4. HistoryType' /\ WireType' /\ Addressing'
    BY <1>1, <2>1 DEF HistoryType, WireType, Addressing, Addressed
  <2>5. Phases'
    BY <1>1, <2>1, <2>3 DEF Phases, Phase, AtRest, Calling, Opened, InUse, ClientClosing,
       ServerLeft, ClientLeft, Carries, Lacks, Begins, Ends, Precedes, Fresh, NoneDue, InSession
  <2> QED
    BY <2>2, <2>4, <2>5 DEF PhaseInv
<1> QED
  BY <1>2, <1>3 DEF LinkNext

LEMMA PhaseInvariant == LinkSpec => [](SessionInv /\ PhaseInv)
BY InitPhaseInv, StepPhaseInv, PTL DEF LinkSpec

LEMMA InitLinkInv ==
    ASSUME NarrowWindows
    PROVE  LinkInit => SessionInv /\ LinkInv
<1> SUFFICES ASSUME LinkInit PROVE SessionInv /\ LinkInv
  OBVIOUS
<1>1. SessionInv /\ PhaseInv /\ Numbers
  BY InitPhaseInv, InitNumbers
<1>2. ASSUME NEW e \in Endpoint PROVE NarrowAt(e)
  <2>1. windowSizeTransmit[e] = LocalLimits(e).windowTransmit /\ wire[e] = <<>>
    BY DEF LinkInit, Init, LineInit
  <2>2. Len(wire[e]) = 0
    BY <2>1
  <2> QED
    BY <2>1, <2>2 DEF NarrowAt, NarrowWire, NarrowWindows
<1> QED
  BY <1>1, <1>2 DEF LinkInv, Narrow

LEMMA StepLinkInv ==
    ASSUME NarrowWindows
    PROVE  SessionInv /\ LinkInv /\ [LinkNext]_linkVars => (SessionInv /\ LinkInv)'
<1> SUFFICES ASSUME SessionInv, LinkInv, [LinkNext]_linkVars
             PROVE  (Numbers /\ Narrow)'
  BY StepPhaseInv DEF LinkInv
<1>1. HistoryType /\ WireType /\ Phases /\ Numbers /\ Narrow
  BY DEF LinkInv, PhaseInv
<1>2. ASSUME NEW e \in Endpoint, LinkStep(e) PROVE (Numbers /\ Narrow)'
  <2>1. Numbers'
    BY <1>1, <1>2, StepNumbers DEF Narrow, NarrowAt
  <2>2. Narrow'
    BY <1>1, <1>2, StepNarrow
  <2> QED
    BY <2>1, <2>2
<1>3. CASE UNCHANGED linkVars
  <2>1. UNCHANGED <<state, sequences, windowSizeTransmit, wire, history>>
    BY <1>3 DEF linkVars, lineVars, sessionVars, negotiated
  <2>2. Numbers'
    BY <1>1, <2>1, SameNumbers
  <2>3. Narrow'
    BY <1>1, <2>1 DEF Narrow, NarrowAt, NarrowWire
  <2> QED
    BY <2>2, <2>3
<1> QED
  BY <1>2, <1>3 DEF LinkNext

LEMMA LinkInvariant ==
    ASSUME NarrowWindows
    PROVE  LinkSpec => [](SessionInv /\ LinkInv)
BY InitLinkInv, StepLinkInv, PTL DEF LinkSpec

\* Every variable of the sessions, of the line and of the history keeps its
\* type, and every frame on the line carries the addresses of its receiver:
\* ReceiveFrame never turns down a frame of its own peer for its addresses.
THEOREM LinkTypeCorrect == LinkSpec => []LinkTypeOK
<1>1. SessionInv /\ PhaseInv => LinkTypeOK
  <2> SUFFICES ASSUME SessionInv, PhaseInv PROVE LinkTypeOK
    OBVIOUS
  <2>1. TypeOK /\ HistoryType /\ WireType /\ Addressing
    BY DEF SessionInv, PhaseInv
  <2>2. LineTypeOK
    <3> SUFFICES ASSUME NEW e \in Endpoint, NEW i \in DOMAIN wire[e]
                 PROVE  wire[e][i] \in Frame /\ Addressed(Peer[e], wire[e][i])
      BY <2>1 DEF LineTypeOK, WireType
    <3>1. DOMAIN wire[e] = 1 .. Len(wire[e])
      BY <2>1 DEF WireType
    <3> QED
      BY <2>1, <3>1 DEF WireType, Addressing
  <2>3. ASSUME NEW e \in Endpoint
        PROVE  /\ \A i \in 1 .. Len(sent[e]) : sent[e][i] \in Payload
               /\ \A i \in 1 .. Len(delivered[e]) : delivered[e][i] \in Payload
    BY <2>1 DEF HistoryType
  <2>4. session \in Nat /\ acknowledged \in [Endpoint -> Nat]
    BY <2>1, BoundAssumption DEF HistoryType
  <2> QED
    BY <2>1, <2>2, <2>3, <2>4 DEF LinkTypeOK
<1> QED
  BY <1>1, PhaseInvariant, PTL

\* A connected client has a server that is in the session too: BuildConnectResponse
\* opens it before the UA can arrive, and the server leaves only after a DISC of
\* the client, or after a UA that the client sent when it left.
THEOREM SessionIsShared == LinkSpec => []ClientSessionIsShared
<1>1. PhaseInv => ClientSessionIsShared
  BY DEF PhaseInv, Phases, Phase, AtRest, Calling, Opened, InUse, ClientClosing, ServerLeft,
         ClientLeft, ClientSessionIsShared
<1> QED
  BY <1>1, PhaseInvariant, PTL

\* The three-bit sequence variables of a session, reset by the handshake and
\* moved by ReceiveFrame and BuildInformationFrame, count the messages sent,
\* delivered and acknowledged in it, whatever the line loses.
THEOREM SequencesCount ==
    ASSUME NarrowWindows
    PROVE  LinkSpec => []SequencesCountMessages
<1>1. SessionInv /\ LinkInv => SequencesCountMessages
  <2> SUFFICES ASSUME SessionInv, LinkInv, NEW e \in Endpoint, InSession(e)
               PROVE  /\ Len(sent[e]) = acknowledged[e] + Outstanding(e)
                      /\ receiveSequence[e] = Len(delivered[e]) % Modulus
    BY DEF SequencesCountMessages
  <2>1. HistoryType /\ HistoryAt(e) /\ SequencesAt(e)
    BY DEF LinkInv, PhaseInv, Numbers, NumbersAt
  <2>2. /\ sendSequence[e] = Len(sent[e]) % Modulus
        /\ receiveSequence[e] = Len(delivered[e]) % Modulus
        /\ acknowledgeSequence[e] = acknowledged[e] % Modulus
    BY <2>1 DEF SequencesAt
  <2>3. Len(sent[e]) \in Nat /\ acknowledged[e] \in Nat /\ Len(delivered[Peer[e]]) \in Nat
    BY <2>1, CountsType, TwoRoles
  <2>4. acknowledged[e] <= Len(sent[e]) /\ Len(sent[e]) <= acknowledged[e] + 7
    BY <2>1, <2>3 DEF HistoryAt
  <2>5. Outstanding(e) = Len(sent[e]) - acknowledged[e]
    BY <2>2, <2>3, <2>4, DistanceOfCounts DEF Outstanding
  <2> QED
    BY <2>2, <2>3, <2>5
<1> QED
  BY <1>1, LinkInvariant, PTL

-----------------------------------------------------------------------------
(***************************************************************************)
(* The link implements the service, step by step: AcceptConnection opens   *)
(* an association, SendMessage submits, and the Deliver of an accepted     *)
(* I-frame hands over while that of an RR confirms.  Every other step,     *)
(* a loss or a rejection included, is one the users do not notice.         *)
(***************************************************************************)
serviceState == <<sent, delivered, acknowledged>>

LEMMA DeliverServes ==
    ASSUME SessionInv, LinkInv, NEW e \in Endpoint, Deliver(e)
    PROVE  \/ UNCHANGED serviceState
           \/ \E n \in 0 .. Len(delivered[Peer[e]]) :
                  Service!Confirm(e, n) \/ Service!Hand(e, n)
<1> DEFINE p == Peer[e]
           f == wire[p][1]
           n == CountOf(acknowledged[e], f.nr)
           d == Len(delivered[e])
<1>1. /\ p \in Endpoint /\ Peer[p] = e /\ SessionInv /\ WireType /\ HistoryType /\ Phases
      /\ Numbers
  BY TwoRoles DEF LinkInv, PhaseInv
<1>2. wire[p] # <<>> /\ Head(wire[p]) = f /\ f \in Frame /\ 1 \in 1 .. Len(wire[p])
  BY <1>1, DeliverEffect, EmptyWire
<1>3. /\ delivered' = IF Accepts(e, f) /\ f.kind = "I"
                      THEN [delivered EXCEPT ![e] = Append(@, f.payload)] ELSE delivered
      /\ acknowledged' = IF Accepts(e, f) /\ f.kind \in SupervisoryKind \cup {"I"}
                         THEN [acknowledged EXCEPT
                                 ![e] = @ + Distance(acknowledgeSequence[e], f.nr)]
                         ELSE acknowledged
      /\ sent' = sent
  BY <1>2 DEF Deliver
<1>4. f.kind \in {"I", "RR", "DISC", "UA", "SNRM"}
  BY <1>1, <1>2, WireKinds DEF Carries
<1>5. CASE ~(Accepts(e, f) /\ Sequenced(f))
  BY <1>3, <1>4, <1>5 DEF Sequenced, SupervisoryKind, serviceState
<1>6. CASE Accepts(e, f) /\ Sequenced(f)
  <2>1. InSession(e)
    BY <1>6 DEF Accepts, AcceptsInformation, AcceptsSupervisory, Sequenced, InSession,
                SupervisoryKind, UnnumberedKind
  <2>2. /\ n = acknowledged[e] + Distance(acknowledgeSequence[e], f.nr)
        /\ n \in Nat /\ acknowledged[e] <= n /\ n <= Len(delivered[p])
    BY <1>1, <1>2, <1>6, <2>1, HeadCount
  <2>3. Len(delivered[p]) \in Nat /\ d \in Nat /\ Len(sent[p]) \in Nat
    BY <1>1, CountsType
  <2>4. acknowledged' = [acknowledged EXCEPT ![e] = n] /\ n \in 0 .. Len(delivered[p])
    BY <1>3, <1>6, <2>2, <2>3 DEF Sequenced, SupervisoryKind
  <2> HIDE DEF n
  <2>5. CASE f.kind # "I"
    <3>1. Service!Confirm(e, n)
      BY <1>3, <2>2, <2>4, <2>5 DEF Service!Confirm
    <3> QED
      BY <2>4, <3>1
  <2>6. CASE f.kind = "I"
    <3>1. f.ns = receiveSequence[e]
      BY <1>6, <2>6 DEF Accepts, AcceptsInformation, SupervisoryKind, UnnumberedKind
    <3>2. f.payload = sent[p][d + 1] /\ d + 1 <= Len(sent[p])
      BY <1>1, <1>2, <2>1, <2>6, <3>1, HeadMessage
    <3>3. delivered' = [delivered EXCEPT ![e] = Append(@, f.payload)]
      BY <1>3, <1>6, <2>6
    <3>4. Len(delivered[e]) < Len(sent[p])
      BY <2>3, <3>2
    <3>5. delivered' = [delivered EXCEPT ![e] = Append(@, sent[Peer[e]][Len(@) + 1])]
      BY <3>2, <3>3
    <3>6. n >= acknowledged[e]
      BY <1>1, <2>2, CountsType
    <3>7. Service!Hand(e, n)
      BY <1>3, <2>2, <2>4, <3>4, <3>5, <3>6 DEF Service!Hand
    <3> QED
      BY <2>4, <3>7
  <2> QED
    BY <2>5, <2>6
<1> QED
  BY <1>5, <1>6

LEMMA StepServes ==
    ASSUME SessionInv, LinkInv, [LinkNext]_linkVars
    PROVE  [Service!Next]_(Service!serviceVars)
<1>1. SessionInv /\ WireType /\ HistoryType /\ Phases /\ Numbers
  BY DEF LinkInv, PhaseInv
<1>2. ASSUME NEW e \in Endpoint, LinkStep(e) PROVE Service!Next \/ UNCHANGED serviceState
  <2>1. CASE AcceptConnection(e)
    BY <2>1 DEF AcceptConnection, Service!Next, Service!Open
  <2>2. CASE SendMessage(e)
    <3>1. state[e] = "Connected"
      BY <2>2 DEF SendMessage, BuildInformationFrame
    <3>2. NextMessage(e) \in Payload
      BY <1>1, <2>2, <3>1, MessageInBounds DEF SendMessage
    <3>3. Service!Submit(e, NextMessage(e))
      BY <2>2 DEF SendMessage, Service!Submit
    <3> QED
      BY <3>2, <3>3 DEF Service!Next
  <2>3. CASE Deliver(e)
    BY <1>1, <2>3, DeliverServes DEF Service!Next
  <2>4. CASE \/ Connect(e) \/ FailToAccept(e) \/ Disconnect(e) \/ AnswerDisconnect(e)
             \/ AcknowledgeReceipt(e) \/ Lose(e)
    BY <2>4 DEF Connect, FailToAccept, Disconnect, AnswerDisconnect, AcknowledgeReceipt, Lose,
                history, serviceState
  <2> QED
    BY <1>2, <2>1, <2>2, <2>3, <2>4 DEF LinkStep
<1>3. CASE UNCHANGED linkVars
  BY <1>3 DEF linkVars, history, Service!serviceVars
<1> QED
  BY <1>2, <1>3 DEF LinkNext, Service!serviceVars, serviceState

\* Two sessions on a line that loses frames give their users the service of
\* HdlcService: in each direction messages arrive in order, none twice, none
\* skipped, and none is acknowledged that was not accepted.
THEOREM LinkImplementsService ==
    ASSUME NarrowWindows
    PROVE  LinkSpec => ImplementsService
<1>1. LinkInit => Service!Init
  BY DEF LinkInit, Service!Init
<1>2. SessionInv /\ LinkInv /\ [LinkNext]_linkVars => [Service!Next]_(Service!serviceVars)
  BY StepServes
<1> QED
  BY <1>1, <1>2, LinkInvariant, PTL DEF LinkSpec, ImplementsService, Service!Spec

-----------------------------------------------------------------------------
(***************************************************************************)
(* The service keeps its promise, whoever implements it on these           *)
(* histories; so the link does.                                            *)
(***************************************************************************)
ServiceInv == Service!ServiceTypeOK /\ Service!Reliable

LEMMA InitServiceInv ==
    ASSUME Service!TwoEnds, Service!Init
    PROVE  ServiceInv
<1>1. Service!ServiceTypeOK
  BY DEF Service!Init, Service!ServiceTypeOK
<1>2. \A e \in Endpoint : sent[e] = <<>> /\ delivered[e] = <<>> /\ acknowledged[e] = 0
  BY DEF Service!Init
<1>3. Len(<<>>) = 0 /\ 1 .. 0 = {}
  OBVIOUS
<1>4. Service!Reliable
  <2> SUFFICES ASSUME NEW e \in Endpoint
               PROVE  /\ Len(delivered[e]) <= Len(sent[Peer[e]])
                      /\ \A i \in 1 .. Len(delivered[e]) : delivered[e][i] = sent[Peer[e]][i]
                      /\ acknowledged[e] <= Len(delivered[Peer[e]])
    BY DEF Service!Reliable
  <2>1. Peer[e] \in Endpoint
    BY DEF Service!TwoEnds
  <2>2. /\ Len(delivered[e]) = 0 /\ Len(sent[Peer[e]]) = 0 /\ Len(delivered[Peer[e]]) = 0
        /\ acknowledged[e] = 0
    BY <1>2, <1>3, <2>1
  <2> QED
    BY <2>2
<1> QED
  BY <1>1, <1>4 DEF ServiceInv

LEMMA StepServiceInv ==
    ASSUME Service!TwoEnds, ServiceInv, [Service!Next]_Service!serviceVars
    PROVE  ServiceInv'
<1> USE DEF Service!TwoEnds, ServiceInv, Service!ServiceTypeOK, Service!Reliable
<1>1. CASE UNCHANGED Service!serviceVars
  BY <1>1 DEF Service!serviceVars
<1>2. CASE Service!Open
  BY <1>2 DEF Service!Open
<1>3. ASSUME NEW e \in Endpoint, NEW m \in Payload, Service!Submit(e, m) PROVE ServiceInv'
  <2>1. Service!ServiceTypeOK'
    BY <1>3 DEF Service!Submit
  <2>2. \A x \in Endpoint : /\ Len(sent[x]) <= Len(sent'[x])
                           /\ \A i \in 1 .. Len(sent[x]) : sent'[x][i] = sent[x][i]
    BY <1>3 DEF Service!Submit
  <2>3. UNCHANGED <<delivered, acknowledged>>
    BY <1>3 DEF Service!Submit
  <2>4. \A x \in Endpoint : Len(delivered[x]) \in Nat /\ Len(sent[x]) \in Nat
                           /\ Len(sent'[x]) \in Nat
    <3> SUFFICES ASSUME NEW x \in Endpoint
                 PROVE  Len(delivered[x]) \in Nat /\ Len(sent[x]) \in Nat
                        /\ Len(sent'[x]) \in Nat
      OBVIOUS
    <3>1. /\ delivered[x] \in Seq(Payload) /\ sent[x] \in Seq(Payload)
          /\ sent'[x] \in Seq(Payload)
      BY <2>1
    <3> QED
      BY <3>1
  <2>5. ASSUME NEW x \in Endpoint
        PROVE  /\ Len(delivered'[x]) <= Len(sent'[Peer[x]])
               /\ \A i \in 1 .. Len(delivered'[x]) : delivered'[x][i] = sent'[Peer[x]][i]
               /\ acknowledged'[x] <= Len(delivered'[Peer[x]])
    <3>1. /\ Peer[x] \in Endpoint /\ delivered'[x] = delivered[x]
          /\ delivered'[Peer[x]] = delivered[Peer[x]] /\ acknowledged'[x] = acknowledged[x]
      BY <2>3
    <3>2. /\ Len(delivered[x]) <= Len(sent[Peer[x]])
          /\ \A i \in 1 .. Len(delivered[x]) : delivered[x][i] = sent[Peer[x]][i]
          /\ acknowledged[x] <= Len(delivered[Peer[x]])
      OBVIOUS
    <3>3. \A i \in 1 .. Len(delivered[x]) : i \in 1 .. Len(sent[Peer[x]])
      BY <2>4, <3>1, <3>2
    <3>4. Len(delivered[x]) <= Len(sent'[Peer[x]])
      BY <2>2, <2>4, <3>1, <3>2
    <3> QED
      BY <2>2, <3>1, <3>2, <3>3, <3>4
  <2>6. Service!Reliable'
    BY <2>5
  <2> QED
    BY <2>1, <2>6
<1>4. ASSUME NEW e \in Endpoint, NEW n \in 0 .. Len(delivered[Peer[e]]), Service!Confirm(e, n)
      PROVE  ServiceInv'
  BY <1>4 DEF Service!Confirm
<1>5. ASSUME NEW e \in Endpoint, NEW n \in 0 .. Len(delivered[Peer[e]]), Service!Hand(e, n)
      PROVE  ServiceInv'
  <2> DEFINE next == sent[Peer[e]][Len(delivered[e]) + 1]
  <2>1. next \in Payload
    BY <1>5 DEF Service!Hand
  <2>2. /\ UNCHANGED sent
        /\ delivered' = [delivered EXCEPT ![e] = Append(delivered[e], next)]
        /\ acknowledged' = [acknowledged EXCEPT ![e] = n]
    BY <1>5 DEF Service!Hand
  <2>3. Service!ServiceTypeOK'
    BY <2>1, <2>2
  <2>4. \A x \in Endpoint : Len(delivered[x]) <= Len(delivered'[x])
    BY <2>1, <2>2
  <2>5. \A x \in Endpoint : /\ Len(delivered'[x]) <= Len(sent[Peer[x]])
                           /\ \A i \in 1 .. Len(delivered'[x]) :
                                 delivered'[x][i] = sent[Peer[x]][i]
    <3> SUFFICES ASSUME NEW x \in Endpoint
                 PROVE  /\ Len(delivered'[x]) <= Len(sent[Peer[x]])
                        /\ \A i \in 1 .. Len(delivered'[x]) :
                              delivered'[x][i] = sent[Peer[x]][i]
      OBVIOUS
    <3>1. CASE x = e
      <4>1. delivered'[x] = Append(delivered[e], next)
        BY <2>2, <3>1
      <4>2. Len(delivered[e]) < Len(sent[Peer[e]])
        BY <1>5 DEF Service!Hand
      <4>3. \A i \in 1 .. Len(delivered[e]) : delivered[e][i] = sent[Peer[e]][i]
        OBVIOUS
      <4>4. delivered[e] \in Seq(Payload) /\ Len(sent[Peer[e]]) \in Nat
        OBVIOUS
      <4> HIDE DEF next
      <4>5. next = sent[Peer[e]][Len(delivered[e]) + 1]
        BY DEF next
      <4> QED
        BY <2>1, <3>1, <4>1, <4>2, <4>3, <4>4, <4>5
    <3>2. CASE x # e
      <4>1. delivered'[x] = delivered[x]
        BY <2>2, <3>2
      <4> QED
        BY <4>1
    <3> QED
      BY <3>1, <3>2
  <2>6. \A x \in Endpoint : acknowledged'[x] <= Len(delivered'[Peer[x]])
    BY <1>5, <2>2, <2>3, <2>4 DEF Service!Hand
  <2>7. \A x \in Endpoint : sent'[Peer[x]] = sent[Peer[x]]
    BY <2>2
  <2> HIDE DEF Service!TwoEnds, ServiceInv, Service!ServiceTypeOK, next
  <2>8. Service!Reliable'
    BY <2>5, <2>6, <2>7
  <2> QED
    BY <2>3, <2>8 DEF ServiceInv
<1> QED
  BY <1>1, <1>2, <1>3, <1>4, <1>5 DEF Service!Next

\* Whatever the order of submissions, deliveries, confirmations and
\* reopenings, each user sees a prefix of what the other one sent.
THEOREM ServiceReliable == Service!Spec => []Service!Reliable
<1>1. Service!TwoEnds
  BY LineAssumption, TwoRoles DEF Service!TwoEnds
<1>2. Service!Init => ServiceInv
  BY <1>1, InitServiceInv
<1>3. ServiceInv /\ [Service!Next]_Service!serviceVars => ServiceInv'
  BY <1>1, StepServiceInv
<1>4. ServiceInv => Service!Reliable
  BY DEF ServiceInv
<1> QED
  BY <1>2, <1>3, <1>4, PTL DEF Service!Spec

\* What the users may rely on, stated of the messages themselves: each end has
\* accepted a prefix of what the other sent since the server's UA, and has seen no
\* message acknowledged that the other has not accepted.
THEOREM LinkReliable ==
    ASSUME NarrowWindows
    PROVE  LinkSpec => []Service!Reliable
  BY ServiceReliable, LinkImplementsService, PTL DEF ImplementsService

-----------------------------------------------------------------------------
(***************************************************************************)
(* What the two sessions agree on.  Whatever is lost, the limits that a    *)
(* client has negotiated fit what the server accepts.  On a line that      *)
(* loses nothing, no frame is turned down by a session that is not         *)
(* closing, and two sessions with nothing left to do agree on where they   *)
(* are.                                                                    *)
(***************************************************************************)

(***************************************************************************)
(* The arithmetic of the negotiation.                                      *)
(***************************************************************************)
LEMMA DefaultReplacesZero ==
    ASSUME NEW v \in Nat, NEW d \in Nat, d # 0, NEW n \in Nat, v < n, d < n
    PROVE  OrDefault(v, d) \in Nat /\ OrDefault(v, d) # 0 /\ OrDefault(v, d) < n
BY DEF OrDefault

LEMMA NormalisedLimits ==
    ASSUME NEW e \in Endpoint
    PROVE  LET l == LocalLimits(e)
           IN  /\ l \in Limits
               /\ l.infoTransmit \in Nat /\ l.infoTransmit # 0 /\ l.infoTransmit < 65536
               /\ l.infoReceive \in Nat /\ l.infoReceive # 0 /\ l.infoReceive < 65536
               /\ l.windowTransmit \in Nat /\ l.windowTransmit < 256
               /\ l.windowReceive \in Nat /\ l.windowReceive < 256
<1> DEFINE o == Options[e].negotiationLimits
           l == LocalLimits(e)
<1>1. /\ o.infoTransmit \in Nat /\ o.infoReceive \in Nat
      /\ o.windowTransmit \in Nat /\ o.windowReceive \in Nat
  BY OptionsAssumption DEF HdlcSessionOptions, Limits
<1>2. /\ o.infoTransmit < 65536 /\ o.infoReceive < 65536
      /\ o.windowTransmit < 256 /\ o.windowReceive < 256
  BY OptionsAssumption DEF SendableLimits
<1>3. /\ l.infoTransmit = OrDefault(o.infoTransmit, 128)
      /\ l.infoReceive = OrDefault(o.infoReceive, 128)
      /\ l.windowTransmit = OrDefault(o.windowTransmit, 1)
      /\ l.windowReceive = OrDefault(o.windowReceive, 1)
  BY DEF LocalLimits, Normalise, DefaultMaxInfoFieldLength, DefaultWindowSize
<1>4. l \in Limits
  BY LocalLimitsType
<1> HIDE DEF o, l
<1>5. /\ l.infoTransmit \in Nat /\ l.infoTransmit # 0 /\ l.infoTransmit < 65536
      /\ l.infoReceive \in Nat /\ l.infoReceive # 0 /\ l.infoReceive < 65536
  BY <1>1, <1>2, <1>3, DefaultReplacesZero
<1>6. /\ l.windowTransmit \in Nat /\ l.windowTransmit < 256
      /\ l.windowReceive \in Nat /\ l.windowReceive < 256
  BY <1>1, <1>2, <1>3, DefaultReplacesZero
<1> QED
  BY <1>4, <1>5, <1>6 DEF l

\* Two bytes hold every information size and one every window.
LEMMA ExactOnTheWire ==
    ASSUME NEW p \in Params, p.maxInfoTx < 65536, p.maxInfoRx < 65536,
           p.windowTx < 256, p.windowRx < 256
    PROVE  EncodedParams(p) = p
<1>1. /\ p.maxInfoTx \in Nat /\ p.maxInfoRx \in Nat /\ p.windowTx \in Nat /\ p.windowRx \in Nat
  BY DEF Params
<1>2. /\ p.maxInfoTx % 65536 = p.maxInfoTx /\ p.maxInfoRx % 65536 = p.maxInfoRx
      /\ p.windowTx % 256 = p.windowTx /\ p.windowRx % 256 = p.windowRx
  BY <1>1
<1>3. p = [maxInfoTx |-> p.maxInfoTx, maxInfoRx |-> p.maxInfoRx,
           windowTx |-> p.windowTx, windowRx |-> p.windowRx]
  BY DEF Params
<1> QED
  BY <1>2, <1>3 DEF EncodedParams

LEMMA ProposalExact ==
    ASSUME NEW e \in Endpoint
    PROVE  /\ Proposal(e) \in NegotiationBlock
           /\ Proposal(e).form = "present"
           /\ Proposal(e).params = ProposalOf(LocalLimits(e))
<1>1. ProposalOf(LocalLimits(e)) \in Params
  BY NormalisedLimits, ProposalType
<1>2. EncodedParams(ProposalOf(LocalLimits(e))) = ProposalOf(LocalLimits(e))
  BY <1>1, ExactOnTheWire, NormalisedLimits DEF ProposalOf
<1> QED
  BY <1>1, <1>2, BlockType DEF Proposal, Block

\* NegotiateParams takes the smaller of two limits in each direction, so the
\* client reads out of the UA just what the server has adopted.
LEMMA AnswerMirrors ==
    ASSUME NEW c \in Endpoint, NEW s \in Endpoint
    PROVE  LET a == NegotiateParams(Proposal(c).params, LocalLimits(s))
           IN  /\ ClientLimits(Block(a).params) = Mirror(ServerLimits(a))
               /\ ServerLimits(a).infoTransmit # 0 /\ ServerLimits(a).infoReceive # 0
<1> DEFINE l == LocalLimits(c)
           k == LocalLimits(s)
           a == NegotiateParams(Proposal(c).params, k)
<1>1. a = NegotiateParams(ProposalOf(l), k)
  BY ProposalExact
<1>2. /\ a.maxInfoTx = Smaller(l.infoTransmit, k.infoReceive)
      /\ a.maxInfoRx = Smaller(l.infoReceive, k.infoTransmit)
      /\ a.windowTx = Smaller(l.windowTransmit, k.windowReceive)
      /\ a.windowRx = Smaller(l.windowReceive, k.windowTransmit)
  BY <1>1 DEF NegotiateParams, ProposalOf
<1>3. a \in Params
  BY ProposalExact, NormalisedLimits, NegotiateParamsType DEF NegotiationBlock
<1>4. /\ l.infoTransmit \in Nat /\ l.infoTransmit # 0 /\ l.infoTransmit < 65536
      /\ l.infoReceive \in Nat /\ l.infoReceive # 0 /\ l.infoReceive < 65536
      /\ l.windowTransmit \in Nat /\ l.windowTransmit < 256
      /\ l.windowReceive \in Nat /\ l.windowReceive < 256
      /\ k.infoTransmit \in Nat /\ k.infoTransmit # 0
      /\ k.infoReceive \in Nat /\ k.infoReceive # 0
      /\ k.windowTransmit \in Nat /\ k.windowReceive \in Nat
  BY NormalisedLimits
<1> HIDE DEF a, l, k
<1>5. a.maxInfoTx < 65536 /\ a.maxInfoTx # 0 /\ a.maxInfoRx < 65536 /\ a.maxInfoRx # 0
  BY <1>2, <1>4 DEF Smaller
<1>6. a.windowTx < 256 /\ a.windowRx < 256
  BY <1>2, <1>4 DEF Smaller
<1>7. EncodedParams(a) = a
  BY <1>3, <1>5, <1>6, ExactOnTheWire
<1>8. Block(a).params = a
  BY <1>7 DEF Block
<1>9. ClientLimits(a) = Mirror(ServerLimits(a))
  BY DEF ClientLimits, Mirror, ServerLimits
<1>10. ServerLimits(a).infoTransmit # 0 /\ ServerLimits(a).infoReceive # 0
  BY <1>5 DEF ServerLimits
<1> QED
  BY <1>8, <1>9, <1>10 DEF a, k

\* The codec refuses an Information field above the session's limit.
LEMMA BuiltWithinLimit ==
    ASSUME NEW e \in Endpoint, NEW size \in Nat, NEW maximum \in Nat, maximum # 0,
           CanBuild(e, size, maximum)
    PROVE  size <= maximum
BY DEF CanBuild, Encodable, FitsLimits, EncodeStatus, EffectiveMaximumInformationFieldSize
-----------------------------------------------------------------------------
(***************************************************************************)
(* The steps.                                                              *)
(***************************************************************************)
\* Only a server owes an answer to an SNRM.
LEMMA OwedByServer ==
    ASSUME SessionInv, Agreement, NEW x \in Endpoint, connectResponsePending[x]
    PROVE  ~IsClient(x) /\ pendingNegotiation[x] = Proposal(Peer[x])
<1>1. Role(x) = "Server"
  BY DEF SessionInv, SessionInvAt, RolesAt
<1>2. IsClient(Peer[x]) /\ Peer[x] \in Endpoint /\ Peer[Peer[x]] = x /\ ~IsClient(x)
  BY <1>1, TwoRoles DEF IsClient
<1> QED
  BY <1>2 DEF Agreement, Proposed

LEMMA AgreementSend ==
    ASSUME WireType, Agreement, NEW e \in Endpoint, NEW f \in Frame, Send(e, f),
           UNCHANGED <<negotiated, connectResponsePending, pendingNegotiation>>,
           \A x \in Endpoint : InSession(x)' => InSession(x),
           f.kind = "SNRM" => f.block = Proposal(e),
           f.kind = "UA" => ~InSession(e)',
           f.kind = "I" => InSession(e) /\ f.size <= negotiatedLimits[e].infoTransmit
    PROVE  Agreement'
<1>1. /\ Len(wire[e]) \in Nat /\ Len(wire'[e]) = Len(wire[e]) + 1
      /\ wire'[e][Len(wire[e]) + 1] = f
      /\ \A i \in 1 .. Len(wire[e]) : wire'[e][i] = wire[e][i]
      /\ wire'[Peer[e]] = wire[Peer[e]]
  BY SendEffect, EmptyWire
<1>2. \A i \in 1 .. Len(wire'[e]) : wire'[e][i] = f \/ (i \in 1 .. Len(wire[e]) /\ wire'[e][i] = wire[e][i])
  BY <1>1
<1>3. UNCHANGED <<negotiatedLimits, windowSizeTransmit, maximumInformationFieldSize,
                  connectResponsePending, pendingNegotiation>>
  BY DEF negotiated
<1>4. ASSUME NEW x \in Endpoint PROVE InForce(x)'
  <2>1. InForce(x)
    BY DEF Agreement
  <2>2. CASE x = e
    BY <1>2, <1>3, <2>1, <2>2 DEF InForce
  <2>3. CASE x = Peer[e]
    BY <1>1, <1>3, <2>1, <2>3 DEF InForce
  <2> QED
    BY <2>2, <2>3, TwoRoles
<1>5. ASSUME NEW c \in Endpoint, IsClient(c) PROVE Proposed(c, Peer[c])' /\ Agreed(c, Peer[c])'
  <2>1. Proposed(c, Peer[c]) /\ Agreed(c, Peer[c]) /\ Peer[c] \in Endpoint
    BY <1>5, TwoRoles DEF Agreement
  <2>2. CASE c = e
    BY <1>1, <1>2, <1>3, <2>1, <2>2, SMTT(30) DEF Proposed, Agreed, Proposal
  <2>3. CASE c = Peer[e]
    <3>1. Peer[c] = e
      BY <2>3, TwoRoles
    <3> QED
      BY <1>1, <1>2, <1>3, <2>1, <2>3, <3>1, SMTT(30) DEF Proposed, Agreed, Proposal
  <2> QED
    BY <2>2, <2>3, TwoRoles
<1> QED
  BY <1>4, <1>5 DEF Agreement, IsClient

LEMMA AgreementShift ==
    ASSUME WireType, Agreement, NEW y \in Endpoint, wire[y] # <<>>,
           wire' = [wire EXCEPT ![y] = Tail(@)],
           UNCHANGED negotiated,
           \A x \in Endpoint : InSession(x)' => InSession(x),
           \A x \in Endpoint : ~IsClient(x) /\ connectResponsePending'[x]
                                  => pendingNegotiation'[x] = Proposal(Peer[x])
    PROVE  Agreement'
<1>1. /\ \A i \in 1 .. Len(wire'[y]) : i + 1 \in 1 .. Len(wire[y]) /\ wire'[y][i] = wire[y][i + 1]
      /\ wire'[Peer[y]] = wire[Peer[y]]
  <2>1. Len(wire[y]) \in Nat /\ Len(wire'[y]) = Len(wire[y]) - 1
    BY ShiftEffect, EmptyWire
  <2>2. \A i \in 1 .. Len(wire'[y]) : i + 1 \in 1 .. Len(wire[y])
    BY <2>1
  <2>3. \A i \in 1 .. Len(wire'[y]) : wire'[y][i] = wire[y][i + 1]
    BY ShiftEffect
  <2>4. wire'[Peer[y]] = wire[Peer[y]]
    BY ShiftEffect
  <2> QED
    BY <2>2, <2>3, <2>4
<1>2. \A x \in Endpoint : \A i \in 1 .. Len(wire'[x]) :
          \E j \in 1 .. Len(wire[x]) : wire'[x][i] = wire[x][j]
  <2>1. SUFFICES ASSUME NEW x \in Endpoint, NEW i \in 1 .. Len(wire'[x])
                 PROVE  \E j \in 1 .. Len(wire[x]) : wire'[x][i] = wire[x][j]
    OBVIOUS
  <2>2. CASE x = y
    <3>1. i + 1 \in 1 .. Len(wire[x]) /\ wire'[x][i] = wire[x][i + 1]
      BY <1>1, <2>2
    <3> QED
      BY <3>1
  <2>3. CASE x = Peer[y]
    <3>1. i \in 1 .. Len(wire[x]) /\ wire'[x][i] = wire[x][i]
      BY <1>1, <2>3
    <3> QED
      BY <3>1
  <2> QED
    BY <2>2, <2>3, TwoRoles
<1>3. UNCHANGED <<negotiatedLimits, windowSizeTransmit, maximumInformationFieldSize>>
  BY DEF negotiated
<1>4. ASSUME NEW x \in Endpoint PROVE InForce(x)'
  BY <1>2, <1>3 DEF Agreement, InForce
<1>5. ASSUME NEW c \in Endpoint, IsClient(c) PROVE Proposed(c, Peer[c])' /\ Agreed(c, Peer[c])'
  <2>1. /\ Proposed(c, Peer[c]) /\ Agreed(c, Peer[c]) /\ Peer[c] \in Endpoint
        /\ ~IsClient(Peer[c]) /\ Peer[Peer[c]] = c
    BY <1>5, TwoRoles DEF Agreement
  <2>2. Proposed(c, Peer[c])'
    BY <1>2, <2>1 DEF Proposed, Proposal
  <2>3. Agreed(c, Peer[c])'
    BY <1>2, <1>3, <2>1 DEF Agreed
  <2> QED
    BY <2>2, <2>3
<1> QED
  BY <1>4, <1>5 DEF Agreement, IsClient

LEMMA ConnectAgreement ==
    ASSUME ClientProposes, SessionInv, WireType, Agreement, NEW e \in Endpoint, Connect(e)
    PROVE  Agreement'
<1>1. PICK form \in ConnectRequestForms(e) :
          BuildConnectRequest(e, form) /\ Send(e, SnrmFrame(e, form))
  BY DEF Connect
<1> DEFINE f == SnrmFrame(e, form)
<1>2. /\ UNCHANGED <<negotiated, connectResponsePending, pendingNegotiation>>
      /\ state' = [state EXCEPT ![e] = "AwaitingConnection"] /\ IsClient(e)
  BY <1>1 DEF BuildConnectRequest, pending, IsClient
<1>3. f \in Frame /\ f.kind = "SNRM" /\ f.block = form.block
  BY SnrmType DEF SnrmFrame, Unnumbered
<1>4. form.block = Proposal(e)
  BY <1>2 DEF ConnectRequestForms, ClientProposes, Proposal
<1>5. \A x \in Endpoint : InSession(x)' => InSession(x)
  BY <1>2 DEF InSession, SessionInv, TypeOK
<1> HIDE DEF f
<1> QED
  BY <1>1, <1>2, <1>3, <1>4, <1>5, AgreementSend DEF f

LEMMA DisconnectAgreement ==
    ASSUME SessionInv, WireType, Agreement, NEW e \in Endpoint, Disconnect(e)
    PROVE  Agreement'
<1>1. PICK user \in UserSizes :
          BuildDisconnectRequest(e, user) /\ Send(e, DiscFrame(e, user))
  BY DEF Disconnect
<1>2. /\ UNCHANGED <<negotiated, connectResponsePending, pendingNegotiation>>
      /\ state' = [state EXCEPT ![e] = "AwaitingDisconnect"] /\ state[e] = "Connected"
  BY <1>1 DEF BuildDisconnectRequest, pending
<1>3. \A x \in Endpoint : InSession(x)' => InSession(x)
  BY <1>2 DEF InSession, SessionInv, TypeOK
<1> QED
  BY <1>1, <1>2, <1>3, DiscType, AgreementSend

LEMMA AnswerDisconnectAgreement ==
    ASSUME SessionInv, WireType, Agreement, NEW e \in Endpoint, AnswerDisconnect(e)
    PROVE  Agreement'
<1>1. /\ UNCHANGED <<negotiated, connectResponsePending, pendingNegotiation>>
      /\ state' = [state EXCEPT ![e] = "Disconnected"]
      /\ Send(e, DisconnectResponseFrame(e))
  BY DEF AnswerDisconnect, BuildDisconnectResponse
<1>2. (\A x \in Endpoint : InSession(x)' => InSession(x)) /\ ~InSession(e)'
  BY <1>1 DEF InSession, SessionInv, TypeOK
<1> QED
  BY <1>1, <1>2, DisconnectResponseType, AgreementSend

LEMMA MessageAgreement ==
    ASSUME SessionInv, WireType, HistoryType, Phases, Agreement, NEW e \in Endpoint, SendMessage(e)
    PROVE  Agreement'
<1>1. PICK size \in InfoSizes :
          BuildInformationFrame(e, size) /\ Send(e, IFrame(e, size, NextMessage(e)))
  BY DEF SendMessage
<1>2. /\ UNCHANGED <<state, negotiated, connectResponsePending, pendingNegotiation>>
      /\ state[e] = "Connected" /\ CanBuild(e, size, maximumInformationFieldSize[e])
  BY <1>1 DEF BuildInformationFrame, pending
<1>3. InSession(e) /\ InForce(e) /\ \A x \in Endpoint : InSession(x)' => InSession(x)
  BY <1>2 DEF InSession, Agreement
<1>4. /\ maximumInformationFieldSize[e] = negotiatedLimits[e].infoTransmit
      /\ maximumInformationFieldSize[e] # 0
  BY <1>3 DEF InForce
<1>5. size \in Nat /\ maximumInformationFieldSize[e] \in Nat /\ TypeOK
  BY InputAssumption DEF SessionInv, TypeOK
<1>6. size <= negotiatedLimits[e].infoTransmit
  BY <1>2, <1>4, <1>5, BuiltWithinLimit
<1>7. NextMessage(e) \in Payload
  BY <1>2, MessageInBounds DEF SendMessage
<1> DEFINE f == IFrame(e, size, NextMessage(e))
<1>8. f \in Frame /\ f.kind = "I" /\ f.size = size
  BY <1>5, <1>7, IFrameType
<1> HIDE DEF f
<1> QED
  BY <1>1, <1>2, <1>3, <1>6, <1>8, AgreementSend DEF f

LEMMA ReceiptAgreement ==
    ASSUME SessionInv, WireType, Agreement, NEW e \in Endpoint, AcknowledgeReceipt(e)
    PROVE  Agreement'
<1>1. /\ UNCHANGED <<state, negotiated, connectResponsePending, pendingNegotiation>>
      /\ Send(e, ReceiveReadyFrame(e))
  BY DEF AcknowledgeReceipt, BuildReceiveReadyFrame, sessionVars, pending
<1>2. \A x \in Endpoint : InSession(x)' => InSession(x)
  BY <1>1 DEF InSession
<1> QED
  BY <1>1, <1>2, ReceiveReadyType, AgreementSend DEF SessionInv

\* What the server adopts is what it writes into the UA.
LEMMA ServerAdopts ==
    ASSUME SessionInv, Agreement, NEW e \in Endpoint, Role(e) = "Server",
           connectResponsePending[e], AdoptAnswer(e)
    PROVE  LET a == ServerLimits(Answer(e))
           IN  /\ UaBlock(e).form = "present"
               /\ ClientLimits(UaBlock(e).params) = Mirror(a)
               /\ a.infoTransmit # 0 /\ a.infoReceive # 0
               /\ negotiatedLimits' = [negotiatedLimits EXCEPT ![e] = a]
               /\ windowSizeTransmit' = [windowSizeTransmit EXCEPT ![e] = a.windowTransmit]
               /\ maximumInformationFieldSize' =
                      [maximumInformationFieldSize EXCEPT ![e] = a.infoTransmit]
<1>1. pendingNegotiation[e] = Proposal(Peer[e]) /\ Peer[e] \in Endpoint
  BY OwedByServer, TwoRoles
<1>2. pendingNegotiation[e].form = "present"
  BY <1>1, ProposalExact
<1>3. Answer(e) = NegotiateParams(Proposal(Peer[e]).params, LocalLimits(e))
  BY <1>1 DEF Answer
<1>4. UaBlock(e) = Block(Answer(e)) /\ Block(Answer(e)).form = "present"
  BY <1>2 DEF UaBlock, Block
<1>5. Adopt(e, ServerLimits(Answer(e)))
  BY <1>2 DEF AdoptAnswer
<1>6. /\ ClientLimits(Block(Answer(e)).params) = Mirror(ServerLimits(Answer(e)))
      /\ ServerLimits(Answer(e)).infoTransmit # 0 /\ ServerLimits(Answer(e)).infoReceive # 0
  BY <1>1, <1>3, AnswerMirrors
<1> QED
  BY <1>4, <1>5, <1>6 DEF Adopt

LEMMA AcceptAgreement ==
    ASSUME SessionInv, WireType, HistoryType, Phases, Agreement, NEW e \in Endpoint,
           AcceptConnection(e)
    PROVE  Agreement'
<1> DEFINE c == Peer[e]
           f == ConnectResponseFrame(e)
           a == ServerLimits(Answer(e))
<1>1. /\ TypeOK /\ c \in Endpoint /\ Peer[c] = e /\ e # c /\ \A x \in Endpoint : x = e \/ x = c
  BY TwoRoles DEF SessionInv
<1>2. /\ Role(e) = "Server" /\ connectResponsePending[e] /\ AdoptAnswer(e)
      /\ state' = [state EXCEPT ![e] = "Connected"]
      /\ connectResponsePending' = [connectResponsePending EXCEPT ![e] = FALSE]
      /\ Send(e, f)
  BY DEF AcceptConnection, BuildConnectResponse
<1>3. ~IsClient(e)
  BY <1>2, TwoRoles
<1>4. /\ state[c] = "AwaitingConnection" /\ wire[e] = <<>> /\ wire[c] = <<>>
  BY <1>1, AcceptPhases DEF Calling
<1>5. f \in Frame /\ f.kind = "UA" /\ f.block = UaBlock(e)
  BY <1>1, ConnectResponseType
<1>6. /\ UaBlock(e).form = "present"
      /\ ClientLimits(UaBlock(e).params) = Mirror(a)
      /\ a.infoTransmit # 0 /\ a.infoReceive # 0
      /\ negotiatedLimits'[e] = a /\ negotiatedLimits'[c] = negotiatedLimits[c]
      /\ windowSizeTransmit'[e] = a.windowTransmit
      /\ windowSizeTransmit'[c] = windowSizeTransmit[c]
      /\ maximumInformationFieldSize'[e] = a.infoTransmit
  BY <1>1, <1>2, ServerAdopts DEF TypeOK
<1>7. Len(wire[e]) = 0 /\ Len(wire[c]) = 0
  BY <1>4
<1>8. Len(wire'[e]) = 1 /\ wire'[e][1] = f /\ wire'[c] = wire[c]
  <2> HIDE DEF f
  <2>1. /\ Len(wire'[e]) = 0 + 1 /\ wire'[e][0 + 1] = f /\ wire'[c] = wire[c]
    BY <1>2, <1>5, <1>7, SendEffect
  <2> QED
    BY <2>1
<1>9. /\ \A i \in 1 .. Len(wire'[e]) : wire'[e][i] = f
      /\ \A i \in 1 .. Len(wire'[c]) : FALSE
  BY <1>7, <1>8
<1>10. ~InSession(c)' /\ InForce(c) /\ ~connectResponsePending'[e]
  BY <1>1, <1>2, <1>4 DEF InSession, Agreement, TypeOK
<1> HIDE DEF a, f, c
<1>11. InForce(e)'
  BY <1>5, <1>6, <1>9 DEF InForce
<1>12. InForce(c)'
  BY <1>6, <1>10 DEF InForce
<1>13. Proposed(c, e)'
  BY <1>9, <1>10 DEF Proposed
<1>14. Agreed(c, e)'
  BY <1>5, <1>6, <1>9, <1>10 DEF Agreed
<1> QED
  BY <1>1, <1>3, <1>11, <1>12, <1>13, <1>14 DEF Agreement, IsClient

\* When the UA does not fit, the server has other limits than before, but is
\* still outside a session.
LEMMA FailAgreement ==
    ASSUME SessionInv, WireType, Agreement, NEW e \in Endpoint, FailToAccept(e)
    PROVE  Agreement'
<1> DEFINE c == Peer[e]
           a == ServerLimits(Answer(e))
<1>1. /\ TypeOK /\ c \in Endpoint /\ Peer[c] = e /\ e # c /\ \A x \in Endpoint : x = e \/ x = c
  BY TwoRoles DEF SessionInv
<1>2. /\ Role(e) = "Server" /\ connectResponsePending[e] /\ AdoptAnswer(e)
      /\ UNCHANGED <<state, connectResponsePending, pendingNegotiation, wire>>
  BY DEF FailToAccept, BuildConnectResponseTooLarge, pending, lineVars
<1>3. ~IsClient(e) /\ ~InSession(e)
  BY <1>2, TwoRoles DEF SessionInv, SessionInvAt, RolesAt, InSession
<1>4. /\ negotiatedLimits'[e] = a /\ negotiatedLimits'[c] = negotiatedLimits[c]
      /\ windowSizeTransmit'[e] = a.windowTransmit
      /\ windowSizeTransmit'[c] = windowSizeTransmit[c]
      /\ maximumInformationFieldSize'[c] = maximumInformationFieldSize[c]
  BY <1>1, <1>2, ServerAdopts DEF TypeOK
<1> HIDE DEF a, c
<1>5. InForce(e)'
  BY <1>2, <1>3, <1>4 DEF InForce, InSession
<1>6. InForce(c)'
  BY <1>1, <1>2, <1>4 DEF Agreement, InForce, InSession
<1>7. IsClient(c) => Proposed(c, e)'
  BY <1>1, <1>2 DEF Agreement, Proposed, Proposal
<1>8. Agreed(c, e)'
  BY <1>2, <1>3 DEF Agreed, InSession
<1> QED
  BY <1>1, <1>3, <1>5, <1>6, <1>7, <1>8 DEF Agreement, IsClient

\* The client adopts what the server has adopted.
LEMMA ConnectUaAgreement ==
    ASSUME SessionInv, WireType, Phases, Agreement, NEW e \in Endpoint, wire[Peer[e]] # <<>>,
           wire' = [wire EXCEPT ![Peer[e]] = Tail(@)], UNCHANGED session,
           ReceiveConnectUa(e, wire[Peer[e]][1])
    PROVE  Agreement'
<1> DEFINE s == Peer[e]
           f == wire[s][1]
           a == ClientLimits(f.block.params)
<1>1. /\ TypeOK /\ s \in Endpoint /\ Peer[s] = e /\ e # s /\ \A x \in Endpoint : x = e \/ x = s
  BY TwoRoles DEF SessionInv
<1>2. /\ state[e] = "AwaitingConnection" /\ f.kind = "UA"
      /\ state' = [state EXCEPT ![e] = "Connected"]
      /\ UNCHANGED <<connectResponsePending, pendingNegotiation>>
      /\ f.block.form = "present" => Adopt(e, a)
  BY DEF ReceiveConnectUa, UaConnects, pending
<1>3. IsClient(e) /\ ~IsClient(s)
  BY <1>1, <1>2, TwoRoles DEF SessionInv, SessionInvAt, RolesAt, IsClient
<1>4. InSession(s) /\ wire[e] = <<>>
  BY <1>1, ConnectUaPhases DEF Opened
<1>5. /\ Len(wire[s]) >= 1 /\ Len(wire[s]) \in Nat
      /\ Len(wire'[s]) = Len(wire[s]) - 1 /\ wire'[e] = wire[e]
      /\ \A i \in 1 .. Len(wire'[s]) : wire'[s][i] = wire[s][i + 1]
  BY <1>1, ShiftEffect, EmptyWire
<1>6. 1 \in 1 .. Len(wire[s]) /\ \A i \in 1 .. Len(wire'[s]) : i + 1 \in 1 .. Len(wire[s])
  BY <1>5
<1>7. InForce(s) /\ Proposed(e, s) /\ Agreed(e, s)
  BY <1>1, <1>3 DEF Agreement
<1>8. f.block.form = "present" /\ a = Mirror(negotiatedLimits[s])
  BY <1>2, <1>4, <1>6, <1>7 DEF Agreed
<1>9. /\ negotiatedLimits'[e] = a /\ negotiatedLimits'[s] = negotiatedLimits[s]
      /\ windowSizeTransmit'[e] = a.windowTransmit
      /\ windowSizeTransmit'[s] = windowSizeTransmit[s]
      /\ maximumInformationFieldSize'[e] = a.infoTransmit
      /\ maximumInformationFieldSize'[s] = maximumInformationFieldSize[s]
  BY <1>1, <1>2, <1>8 DEF Adopt, TypeOK
<1>10. a.infoTransmit # 0 /\ a.infoReceive # 0
  BY <1>4, <1>7, <1>8 DEF InForce, Mirror
<1>11. InSession(s)' /\ Len(wire'[e]) = 0
  BY <1>1, <1>2, <1>4, <1>5 DEF InSession
<1> HIDE DEF a, f, s
<1>12. InForce(e)'
  BY <1>9, <1>10, <1>11 DEF InForce
<1>13. InForce(s)'
  BY <1>4, <1>5, <1>6, <1>7, <1>9 DEF InForce
<1>14. Proposed(e, s)'
  BY <1>2, <1>7, <1>11 DEF Proposed, Proposal
<1>15. Agreed(e, s)'
  BY <1>4, <1>5, <1>6, <1>7, <1>8, <1>9 DEF Agreed
<1> QED
  BY <1>1, <1>3, <1>12, <1>13, <1>14, <1>15 DEF Agreement, IsClient, s

LEMMA DeliverAgreement ==
    ASSUME SessionInv, WireType, HistoryType, Phases, Agreement, NEW e \in Endpoint, Deliver(e)
    PROVE  Agreement'
<1> DEFINE y == Peer[e]
           f == wire[y][1]
<1>1. /\ TypeOK /\ y \in Endpoint /\ Peer[y] = e /\ e # y /\ \A x \in Endpoint : x = e \/ x = y
  BY TwoRoles DEF SessionInv
<1>2. /\ wire[y] # <<>> /\ wire' = [wire EXCEPT ![y] = Tail(@)] /\ f \in Frame
      /\ ReceiveFrame(e, f) /\ UNCHANGED session
  BY DeliverEffect, DeliverHistory
<1>3. /\ 1 \in 1 .. Len(wire[y])
  BY <1>1, <1>2, ShiftEffect, EmptyWire
<1>4. ASSUME UNCHANGED <<negotiated, connectResponsePending, pendingNegotiation>>,
             \A x \in Endpoint : InSession(x)' => InSession(x)
      PROVE  Agreement'
  BY <1>1, <1>2, <1>4, OwedByServer, AgreementShift
<1>5. CASE ReceiveSnrm(e, f)
  <2>1. /\ f.kind = "SNRM" /\ Role(e) = "Server" /\ f.block.form # "malformed"
        /\ UNCHANGED <<state, negotiated>>
        /\ connectResponsePending' = [connectResponsePending EXCEPT ![e] = TRUE]
        /\ pendingNegotiation' =
               [pendingNegotiation EXCEPT ![e] = IF f.block.form = "present"
                                                 THEN f.block ELSE [@ EXCEPT !.form = "absent"]]
    BY <1>5 DEF ReceiveSnrm, Accepts, AcceptsUnnumbered, AcceptsSnrm, SupervisoryKind
  <2>2. IsClient(y) /\ ~IsClient(e)
    BY <1>1, <2>1, TwoRoles
  <2>3. f.block = Proposal(y) /\ f.block.form = "present"
    BY <1>1, <1>3, <2>1, <2>2, ProposalExact DEF Agreement, Proposed
  <2>4. pendingNegotiation'[e] = Proposal(y)
    BY <1>1, <2>1, <2>3 DEF TypeOK
  <2>5. \A x \in Endpoint : ~IsClient(x) => x = e
    BY <1>1, <2>2
  <2>6. \A x \in Endpoint : InSession(x)' => InSession(x)
    BY <2>1 DEF InSession
  <2> HIDE DEF f
  <2> QED
    BY <1>1, <1>2, <2>1, <2>4, <2>5, <2>6, AgreementShift
<1>6. CASE ReceiveMalformedSnrm(e, f)
  <2>1. f.kind = "SNRM" /\ Role(e) = "Server" /\ f.block.form = "malformed"
    BY <1>6 DEF ReceiveMalformedSnrm, Accepts, AcceptsUnnumbered, AcceptsSnrm, SupervisoryKind
  <2>2. IsClient(y)
    BY <1>1, <2>1, TwoRoles
  <2> QED
    BY <1>1, <1>3, <2>1, <2>2, ProposalExact DEF Agreement, Proposed
<1>7. CASE ReceiveConnectUa(e, f)
  BY <1>2, <1>7, ConnectUaAgreement
<1>8. CASE ReceiveDisconnectUa(e, f) \/ ReceiveDm(e, f)
  <2>1. /\ UNCHANGED <<negotiated, connectResponsePending, pendingNegotiation>>
        /\ state' = [state EXCEPT ![e] = "Disconnected"]
    BY <1>8 DEF ReceiveDisconnectUa, ReceiveDm, pending
  <2>2. \A x \in Endpoint : InSession(x)' => InSession(x)
    BY <1>1, <2>1 DEF InSession, TypeOK
  <2> QED
    BY <1>4, <2>1, <2>2
<1>9. CASE \/ ReceiveInformationFrame(e, f) \/ ReceiveSupervisoryFrame(e, f)
           \/ ReceiveDisc(e, f) \/ RejectFrame(e, f)
  <2>1. UNCHANGED <<state, negotiated, connectResponsePending, pendingNegotiation>>
    BY <1>9 DEF ReceiveInformationFrame, ReceiveSupervisoryFrame, ReceiveDisc, RejectFrame,
                pending, sessionVars
  <2> QED
    BY <1>4, <2>1 DEF InSession
<1> QED
  BY <1>2, <1>5, <1>6, <1>7, <1>8, <1>9 DEF ReceiveFrame

LEMMA InitAgreement == LinkInit => Agreement
<1> SUFFICES ASSUME LinkInit PROVE Agreement
  OBVIOUS
<1>1. ASSUME NEW e \in Endpoint
      PROVE  /\ ~InSession(e) /\ Len(wire[e]) = 0 /\ ~connectResponsePending[e]
             /\ windowSizeTransmit[e] = negotiatedLimits[e].windowTransmit
  <2>1. wire[e] = <<>>
    BY DEF LinkInit, LineInit
  <2>2. Len(wire[e]) = 0
    BY <2>1
  <2> QED
    BY <2>2 DEF LinkInit, Init, InSession
<1>2. ASSUME NEW e \in Endpoint PROVE InForce(e) /\ Proposed(e, Peer[e]) /\ Agreed(e, Peer[e])
  BY <1>1, TwoRoles DEF InForce, Proposed, Agreed
<1> QED
  BY <1>2 DEF Agreement

LEMMA StepAgreement ==
    ASSUME ClientProposes
    PROVE  SessionInv /\ AgreementInv /\ [LinkNext]_linkVars => Agreement'
<1> SUFFICES ASSUME SessionInv, AgreementInv, [LinkNext]_linkVars
             PROVE  Agreement'
  OBVIOUS
<1>1. HistoryType /\ WireType /\ Phases /\ Agreement
  BY DEF AgreementInv, PhaseInv
<1>2. ASSUME NEW e \in Endpoint, LinkStep(e) PROVE Agreement'
  <2>1. CASE Connect(e)
    BY <1>1, <2>1, ConnectAgreement
  <2>2. CASE AcceptConnection(e)
    BY <1>1, <2>2, AcceptAgreement
  <2>3. CASE FailToAccept(e)
    BY <1>1, <2>3, FailAgreement
  <2>4. CASE Disconnect(e)
    BY <1>1, <2>4, DisconnectAgreement
  <2>5. CASE AnswerDisconnect(e)
    BY <1>1, <2>5, AnswerDisconnectAgreement
  <2>6. CASE SendMessage(e)
    BY <1>1, <2>6, MessageAgreement
  <2>7. CASE AcknowledgeReceipt(e)
    BY <1>1, <2>7, ReceiptAgreement
  <2>8. CASE Deliver(e)
    BY <1>1, <2>8, DeliverAgreement
  <2>9. CASE Lose(e)
    <3>1. /\ wire[e] # <<>> /\ wire' = [wire EXCEPT ![e] = Tail(@)]
          /\ UNCHANGED <<state, negotiated, connectResponsePending, pendingNegotiation>>
      BY <2>9 DEF Lose, LoseFrame, sessionVars, pending
    <3>2. \A x \in Endpoint : InSession(x)' => InSession(x)
      BY <3>1 DEF InSession
    <3> QED
      BY <1>1, <3>1, <3>2, OwedByServer, AgreementShift
  <2> QED
    BY <1>2, <2>1, <2>2, <2>3, <2>4, <2>5, <2>6, <2>7, <2>8, <2>9 DEF LinkStep
<1>3. CASE UNCHANGED linkVars
  <2>1. UNCHANGED <<state, negotiated, connectResponsePending, pendingNegotiation, wire>>
    BY <1>3 DEF linkVars, lineVars, sessionVars, pending
  <2> QED
    BY <1>1, <2>1 DEF Agreement, InForce, Proposed, Agreed, InSession, negotiated, Proposal
<1> QED
  BY <1>2, <1>3 DEF LinkNext

LEMMA AgreementInvariant ==
    ASSUME ClientProposes
    PROVE  LinkSpec => [](SessionInv /\ AgreementInv)
<1>1. LinkInit => SessionInv /\ AgreementInv
  BY InitPhaseInv, InitAgreement DEF AgreementInv
<1>2. SessionInv /\ AgreementInv /\ [LinkNext]_linkVars => (SessionInv /\ AgreementInv)'
  BY StepPhaseInv, StepAgreement DEF AgreementInv
<1> QED
  BY <1>1, <1>2, PTL DEF LinkSpec

\* Between two stations in one session the limits mirror each other.
LEMMA LimitsMirror ==
    ASSUME Agreement, NEW e \in Endpoint, InSession(e), InSession(Peer[e])
    PROVE  /\ negotiatedLimits[e].windowTransmit = negotiatedLimits[Peer[e]].windowReceive
           /\ negotiatedLimits[e].infoTransmit = negotiatedLimits[Peer[e]].infoReceive
<1>1. /\ Peer[e] \in Endpoint /\ Peer[Peer[e]] = e /\ (IsClient(Peer[e]) <=> ~IsClient(e))
  BY TwoRoles
<1>2. CASE IsClient(e)
  <2>1. negotiatedLimits[e] = Mirror(negotiatedLimits[Peer[e]])
    BY <1>1, <1>2 DEF Agreement, Agreed
  <2> QED
    BY <2>1 DEF Mirror
<1>3. CASE ~IsClient(e)
  <2>1. negotiatedLimits[Peer[e]] = Mirror(negotiatedLimits[e])
    BY <1>1, <1>3 DEF Agreement, Agreed
  <2> QED
    BY <2>1 DEF Mirror
<1> QED
  BY <1>2, <1>3

\* Whatever both sides can do and the client asks for, what one side may send is
\* what the other has agreed to receive, from the UA to the end of the session:
\* the minimum of NegotiateParams and the two transcriptions of parameters into
\* limits agree on the directions, and no lost or stale frame sets them apart.
THEOREM LimitsAgree ==
    ASSUME ClientProposes
    PROVE  LinkSpec => []SenderWithinReceiver
<1>1. SessionInv /\ AgreementInv => SenderWithinReceiver
  <2> SUFFICES ASSUME SessionInv, Agreement, NEW e \in Endpoint, state[e] = "Connected",
                      InSession(Peer[e])
               PROVE  /\ negotiatedLimits[e].windowTransmit
                            <= negotiatedLimits[Peer[e]].windowReceive
                      /\ negotiatedLimits[e].infoTransmit
                            <= negotiatedLimits[Peer[e]].infoReceive
    BY DEF AgreementInv, SenderWithinReceiver
  <2>1. InSession(e) /\ Peer[e] \in Endpoint
    BY TwoRoles DEF InSession
  <2>2. negotiatedLimits[Peer[e]].windowReceive \in Nat
        /\ negotiatedLimits[Peer[e]].infoReceive \in Nat
    BY <2>1 DEF SessionInv, TypeOK, Limits
  <2> QED
    BY <2>1, <2>2, LimitsMirror
<1> QED
  BY <1>1, AgreementInvariant, PTL

\* A receiver that counts and measures nothing is safe: the window test and the
\* codec limit at the other end keep to what this end has agreed to.
THEOREM ReceiversSpared ==
    ASSUME ClientProposes
    PROVE  LinkSpec => []ReceiverNotOverrun
<1>1. SessionInv /\ AgreementInv => ReceiverNotOverrun
  <2> SUFFICES ASSUME SessionInv, AgreementInv, NEW e \in Endpoint, InSession(e),
                      InSession(Peer[e])
               PROVE  /\ Outstanding(Peer[e]) <= negotiatedLimits[e].windowReceive
                      /\ \A i \in DOMAIN wire[Peer[e]] :
                            wire[Peer[e]][i].kind = "I" =>
                                wire[Peer[e]][i].size <= negotiatedLimits[e].infoReceive
    BY DEF ReceiverNotOverrun
  <2> DEFINE p == Peer[e]
  <2>1. p \in Endpoint /\ Peer[p] = e /\ WireType /\ Agreement
    BY TwoRoles DEF AgreementInv, PhaseInv
  <2>2. InForce(p)
    BY <2>1 DEF Agreement
  <2>3. /\ negotiatedLimits[p].windowTransmit = negotiatedLimits[e].windowReceive
        /\ negotiatedLimits[p].infoTransmit = negotiatedLimits[e].infoReceive
    BY <2>1, LimitsMirror
  <2>4. Outstanding(p) <= windowSizeTransmit[p]
    BY <2>1 DEF SessionInv, SessionInvAt, WindowAt
  <2>5. DOMAIN wire[p] = 1 .. Len(wire[p])
    <3>1. wire[p] \in Seq(Frame)
      BY <2>1 DEF WireType
    <3> QED
      BY <3>1
  <2> QED
    BY <2>2, <2>3, <2>4, <2>5 DEF InForce
<1> QED
  BY <1>1, AgreementInvariant, PTL

-----------------------------------------------------------------------------
(***************************************************************************)
(* Every line of the link loses nothing.                                   *)
(***************************************************************************)
AllLossless == \A e \in Endpoint : LosslessAt(e)

-----------------------------------------------------------------------------
(***************************************************************************)
(* What is on a wire when a frame joins or leaves it.                      *)
(***************************************************************************)
LEMMA HasSend ==
    ASSUME WireType, NEW e \in Endpoint, NEW f \in Frame, Send(e, f), NEW k
    PROVE  /\ Has(e, k) => Has(e, k)'
           /\ f.kind = k => Has(e, k)'
           /\ Has(e, k)' => Has(e, k) \/ f.kind = k
           /\ Has(Peer[e], k)' <=> Has(Peer[e], k)
<1>1. /\ Len(wire[e]) \in Nat /\ Len(wire'[e]) = Len(wire[e]) + 1
      /\ wire'[e][Len(wire[e]) + 1] = f
      /\ \A i \in 1 .. Len(wire[e]) : wire'[e][i] = wire[e][i]
      /\ wire'[Peer[e]] = wire[Peer[e]]
  BY SendEffect, EmptyWire
<1> DEFINE l == Len(wire[e])
<1>2. \A i \in 1 .. l + 1 : i \in 1 .. l \/ i = l + 1
  BY <1>1
<1>3. l + 1 \in 1 .. l + 1 /\ \A i \in 1 .. l : i \in 1 .. l + 1
  BY <1>1
<1> HIDE DEF l
<1> QED
  BY <1>1, <1>2, <1>3 DEF Has, l

LEMMA HasShift ==
    ASSUME WireType, NEW e \in Endpoint, wire[e] # <<>>,
           wire' = [wire EXCEPT ![e] = Tail(@)], NEW k
    PROVE  /\ Has(e, k) /\ wire[e][1].kind # k => Has(e, k)'
           /\ Has(e, k)' => Has(e, k)
           /\ Has(Peer[e], k)' <=> Has(Peer[e], k)
           /\ Has(e, wire[e][1].kind)
<1>1. /\ Len(wire[e]) \in Nat /\ Len(wire[e]) >= 1 /\ Len(wire'[e]) = Len(wire[e]) - 1
      /\ \A i \in 1 .. Len(wire'[e]) : wire'[e][i] = wire[e][i + 1]
      /\ wire'[Peer[e]] = wire[Peer[e]]
  BY ShiftEffect, EmptyWire
<1> DEFINE l == Len(wire[e])
<1>2. \A i \in 1 .. l : i = 1 \/ (i - 1 \in 1 .. l - 1 /\ i - 1 + 1 = i)
  BY <1>1
<1>3. \A i \in 1 .. l - 1 : i + 1 \in 1 .. l
  BY <1>1
<1>4. 1 \in 1 .. l
  BY <1>1
<1>5. Has(e, k) /\ wire[e][1].kind # k => Has(e, k)'
  <2> SUFFICES ASSUME Has(e, k), wire[e][1].kind # k PROVE Has(e, k)'
    OBVIOUS
  <2>1. PICK i \in 1 .. l : wire[e][i].kind = k
    BY DEF Has
  <2> DEFINE j == i - 1
  <2>2. j \in 1 .. l - 1 /\ j + 1 = i
    BY <1>2, <2>1
  <2> HIDE DEF j
  <2>3. j \in 1 .. Len(wire'[e]) /\ wire'[e][j].kind = k
    BY <1>1, <2>1, <2>2
  <2> QED
    BY <2>3 DEF Has
<1>6. Has(e, k)' => Has(e, k)
  BY <1>1, <1>3 DEF Has
<1> QED
  BY <1>1, <1>4, <1>5, <1>6 DEF Has

LEMMA NothingOnEmptyWire ==
    ASSUME NEW e \in Endpoint, wire[e] = <<>>, WireType, NEW k
    PROVE  ~Has(e, k)
<1>1. Len(wire[e]) = 0
  BY EmptyWire
<1> QED
  BY <1>1 DEF Has

LEMMA NoneCarried ==
    ASSUME NEW e \in Endpoint, NEW K, Carries(e, K), NEW k, k \notin K
    PROVE  ~Has(e, k)
BY DEF Has, Carries

\* The wire towards e, what was sent on it and what e was given stay.
LEMMA CompleteSame ==
    ASSUME NEW e \in Endpoint, Complete(e), wire'[Peer[e]] = wire[Peer[e]],
           sent'[Peer[e]] = sent[Peer[e]], delivered'[e] = delivered[e]
    PROVE  Complete(e)'
BY DEF Complete

\* A frame joins the wire towards e; if it is an I-frame it carries the next message.
LEMMA CompleteSend ==
    ASSUME WireType, HistoryType, NEW e \in Endpoint, NEW f \in Frame, Send(Peer[e], f),
           Complete(e), delivered'[e] = delivered[e],
           \/ sent'[Peer[e]] = sent[Peer[e]]
           \/ /\ f.kind = "I" /\ f.payload[2] = Len(sent[Peer[e]]) + 1
              /\ Len(sent'[Peer[e]]) = Len(sent[Peer[e]]) + 1
    PROVE  Complete(e)'
<1> DEFINE p == Peer[e]
           l == Len(wire[p])
           n == Len(sent[p])
<1>1. p \in Endpoint
  BY TwoRoles
<1>2. /\ l \in Nat /\ Len(wire'[p]) = l + 1 /\ wire'[p][l + 1] = f
      /\ \A i \in 1 .. l : wire'[p][i] = wire[p][i]
  BY <1>1, SendEffect, EmptyWire
<1>3. n \in Nat /\ Len(delivered[e]) \in Nat
  BY <1>1, CountsType
<1>4. l + 1 \in 1 .. l + 1 /\ \A i \in 1 .. l : i \in 1 .. l + 1
  BY <1>2
<1>5. SUFFICES ASSUME NEW j \in Len(delivered[e]) + 1 .. Len(sent'[p])
               PROVE  \E i \in 1 .. Len(wire'[p]) :
                          wire'[p][i].kind = "I" /\ wire'[p][i].payload[2] = j
  BY DEF Complete
<1> HIDE DEF l
<1>6. CASE j \in Len(delivered[e]) + 1 .. n
  <2>1. PICK i \in 1 .. l : wire[p][i].kind = "I" /\ wire[p][i].payload[2] = j
    BY <1>6 DEF Complete, l
  <2> QED
    BY <1>2, <1>4, <2>1
<1>7. CASE j \notin Len(delivered[e]) + 1 .. n
  <2>1. f.kind = "I" /\ f.payload[2] = n + 1 /\ j = n + 1
    BY <1>3, <1>5, <1>7
  <2> QED
    BY <1>2, <1>4, <2>1
<1> QED
  BY <1>6, <1>7

\* A frame leaves the wire towards e; if it is an I-frame e is given its message,
\* the next one.
LEMMA CompleteShift ==
    ASSUME WireType, HistoryType, NEW e \in Endpoint, wire[Peer[e]] # <<>>,
           wire' = [wire EXCEPT ![Peer[e]] = Tail(@)],
           Complete(e), sent'[Peer[e]] = sent[Peer[e]],
           \/ wire[Peer[e]][1].kind # "I" /\ delivered'[e] = delivered[e]
           \/ /\ wire[Peer[e]][1].payload[2] = Len(delivered[e]) + 1
              /\ Len(delivered'[e]) = Len(delivered[e]) + 1
    PROVE  Complete(e)'
<1> DEFINE p == Peer[e]
           l == Len(wire[p])
           d == Len(delivered[e])
<1>1. p \in Endpoint
  BY TwoRoles
<1>2. /\ l \in Nat /\ l >= 1 /\ Len(wire'[p]) = l - 1
      /\ \A i \in 1 .. Len(wire'[p]) : wire'[p][i] = wire[p][i + 1]
  BY <1>1, ShiftEffect, EmptyWire
<1>3. Len(sent[p]) \in Nat /\ d \in Nat
  BY <1>1, CountsType
<1>4. \A i \in 1 .. l : i = 1 \/ (i - 1 \in 1 .. l - 1 /\ i - 1 + 1 = i)
  BY <1>2
<1>5. SUFFICES ASSUME NEW j \in Len(delivered'[e]) + 1 .. Len(sent[p])
               PROVE  \E i \in 1 .. Len(wire'[p]) :
                          wire'[p][i].kind = "I" /\ wire'[p][i].payload[2] = j
  BY DEF Complete
<1>6. j \in d + 1 .. Len(sent[p]) /\ (wire[p][1].kind = "I" => wire[p][1].payload[2] # j)
  BY <1>3, <1>5
<1>7. PICK i \in 1 .. l : wire[p][i].kind = "I" /\ wire[p][i].payload[2] = j
  BY <1>6 DEF Complete
<1> DEFINE k == i - 1
<1>8. k \in 1 .. l - 1 /\ k + 1 = i
  BY <1>4, <1>6, <1>7
<1> HIDE DEF k
<1>9. k \in 1 .. Len(wire'[p]) /\ wire'[p][k] = wire[p][i]
  BY <1>2, <1>8
<1> QED
  BY <1>7, <1>9

-----------------------------------------------------------------------------
(***************************************************************************)
(* The first frame on a wire.                                              *)
(***************************************************************************)

\* A session that is not closing is in the state for the first frame on its way.
LEMMA HeadState ==
    ASSUME SessionInv, LinkInv, AllLossless, NEW e \in Endpoint, wire[Peer[e]] # <<>>,
           state[e] # "AwaitingDisconnect"
    PROVE  \/ wire[Peer[e]][1].kind = "UA" /\ state[e] = "AwaitingConnection"
           \/ wire[Peer[e]][1].kind = "SNRM" /\ ~IsClient(e) /\ state[e] = "Disconnected"
           \/ wire[Peer[e]][1].kind \in {"I", "RR", "DISC"} /\ state[e] = "Connected"
<1> DEFINE p == Peer[e]
           f == wire[p][1]
<1>1. /\ p \in Endpoint /\ Peer[p] = e /\ (IsClient(p) <=> ~IsClient(e))
      /\ WireType /\ Phases
  BY TwoRoles DEF LinkInv, PhaseInv
<1>2. 1 \in 1 .. Len(wire[p])
  BY <1>1, EmptyWire
<1>3. CASE IsClient(e)
  <2>1. Phase(e, p)
    BY <1>1, <1>3 DEF Phases
  <2>2. CASE Opened(e, p)
    <3>1. state[e] = "AwaitingConnection" /\ InSession(p) /\ wire[e] = <<>> /\ Begins(p, "UA")
      BY <2>2 DEF Opened
    <3>2. Has(p, "UA")
      BY <3>1, <1>1, NothingOnEmptyWire DEF AllLossless, LosslessAt, ConnectComing, InSession
    <3>3. f.kind = "UA"
      BY <3>1, <3>2 DEF Begins, Has
    <3> QED
      BY <3>1, <3>3
  <2>3. CASE InUse(e, p)
    BY <1>2, <2>3 DEF InUse, Carries
  <2>4. CASE ServerLeft(e, p) \/ ClientClosing(e, p)
    BY <2>4 DEF ServerLeft, ClientClosing
  <2>5. CASE AtRest(e, p) \/ Calling(e, p) \/ ClientLeft(e, p)
    BY <2>5 DEF AtRest, Calling, ClientLeft
  <2> QED
    BY <2>1, <2>2, <2>3, <2>4, <2>5 DEF Phase
<1>4. CASE ~IsClient(e)
  <2>1. Phase(p, e)
    BY <1>1, <1>4 DEF Phases
  <2>2. CASE Calling(p, e)
    BY <1>2, <1>4, <2>2 DEF Calling, Carries
  <2>3. CASE InUse(p, e)
    BY <1>2, <2>3 DEF InUse, Carries, InSession
  <2>4. CASE ClientClosing(p, e)
    BY <1>2, <2>4 DEF ClientClosing, Carries, InSession
  <2>5. CASE AtRest(p, e) \/ Opened(p, e) \/ ServerLeft(p, e) \/ ClientLeft(p, e)
    BY <2>5 DEF AtRest, Opened, ServerLeft, ClientLeft
  <2> QED
    BY <2>1, <2>2, <2>3, <2>4, <2>5 DEF Phase
<1> QED
  BY <1>3, <1>4

\* An I-frame that comes to a connected session carries the message it waits for.
LEMMA HeadExpected ==
    ASSUME SessionInv, LinkInv, AllLossless, NEW e \in Endpoint, wire[Peer[e]] # <<>>,
           state[e] = "Connected", wire[Peer[e]][1].kind = "I"
    PROVE  wire[Peer[e]][1].ns = receiveSequence[e]
<1> DEFINE p == Peer[e]
           f == wire[p][1]
           d == Len(delivered[e])
<1>1. p \in Endpoint /\ Peer[p] = e /\ WireType /\ HistoryType /\ Numbers
  BY TwoRoles DEF LinkInv, PhaseInv
<1>2. 1 \in 1 .. Len(wire[p]) /\ Len(wire[p]) \in Nat
  BY <1>1, EmptyWire
<1>3. WireAt(p) /\ SequencesAt(e)
  BY <1>1 DEF Numbers, NumbersAt
<1>4. FrameAt(p, f)
  BY <1>2, <1>3 DEF WireAt
<1>5. PICK j \in d + 1 .. Len(sent[p]) : f.payload = <<session, j>> /\ f.ns = (j - 1) % Modulus
  BY <1>1, <1>4 DEF FrameAt
<1>6. d \in Nat /\ Len(sent[p]) \in Nat
  BY <1>1, CountsType
<1>7. d + 1 \in d + 1 .. Len(sent[p])
  BY <1>5, <1>6
<1>8. Complete(e)
  BY DEF AllLossless, LosslessAt, Listens
<1>9. PICK i \in 1 .. Len(wire[p]) : wire[p][i].kind = "I" /\ wire[p][i].payload[2] = d + 1
  BY <1>7, <1>8 DEF Complete
<1>10. i = 1
  <2> SUFFICES ASSUME 1 < i PROVE FALSE
    BY <1>2, <1>9
  <2>1. OrderAt(p, f, wire[p][i])
    BY <1>2, <1>3, <1>9 DEF WireAt
  <2>2. j < d + 1
    BY <1>5, <1>9, <2>1 DEF OrderAt
  <2> QED
    BY <1>5, <1>6, <2>2
<1>11. j - 1 = d
  BY <1>5, <1>6, <1>9, <1>10
<1>12. receiveSequence[e] = d % Modulus
  BY <1>3 DEF SequencesAt, InSession
<1> QED
  BY <1>5, <1>11, <1>12

\* What its N(R) confirms has been sent and is not yet confirmed.
LEMMA HeadConfirms ==
    ASSUME SessionInv, LinkInv, NEW e \in Endpoint, wire[Peer[e]] # <<>>,
           state[e] = "Connected", Sequenced(wire[Peer[e]][1])
    PROVE  AckInWindow(e, wire[Peer[e]][1].nr)
<1> DEFINE p == Peer[e]
           f == wire[p][1]
           a == acknowledged[e]
           n == CountOf(a, f.nr)
           D == Distance(acknowledgeSequence[e], f.nr)
<1>1. p \in Endpoint /\ Peer[p] = e /\ WireType /\ HistoryType /\ Numbers /\ InSession(e)
  BY TwoRoles DEF LinkInv, PhaseInv, InSession
<1>2. n = a + D /\ n \in Nat /\ a <= n /\ n <= Len(delivered[p])
  BY <1>1, HeadCount
<1>3. a \in Nat /\ Len(delivered[p]) \in Nat /\ Len(sent[e]) \in Nat
  BY <1>1, CountsType
<1>4. HistoryAt(e) /\ SequencesAt(e)
  BY DEF LinkInv, Numbers, NumbersAt
<1>5. a <= Len(sent[e]) /\ Len(sent[e]) <= a + 7 /\ Len(delivered[p]) <= Len(sent[e])
  BY <1>3, <1>4 DEF HistoryAt
<1>6. Outstanding(e) = Len(sent[e]) - a
  BY <1>1, <1>3, <1>4, <1>5, DistanceOfCounts DEF SequencesAt, Outstanding
<1>7. D \in Nat
  <2>1. f \in Frame
    BY <1>1, ShiftEffect, EmptyWire DEF WireType
  <2> QED
    BY <2>1, SequencedFrame, DistanceNat DEF SessionInv, TypeOK
<1> HIDE DEF n, D
<1>8. D <= Outstanding(e)
  BY <1>2, <1>3, <1>5, <1>6, <1>7
<1> QED
  BY <1>8 DEF AckInWindow, D

LEMMA HeadAccepted ==
    ASSUME SessionInv, LinkInv, AllLossless, NEW e \in Endpoint, wire[Peer[e]] # <<>>,
           state[e] # "AwaitingDisconnect"
    PROVE  Accepts(e, wire[Peer[e]][1])
<1> DEFINE p == Peer[e]
           f == wire[p][1]
<1>1. p \in Endpoint /\ Peer[p] = e /\ WireType /\ Addressing /\ (Role(e) = "Server" <=> ~IsClient(e))
  BY TwoRoles DEF LinkInv, PhaseInv
<1>2. Addressed(e, f)
  BY <1>1, EmptyWire DEF Addressing
<1>3. CASE f.kind = "UA" /\ state[e] = "AwaitingConnection"
  BY <1>2, <1>3 DEF Accepts, AcceptsUnnumbered, UaExpected, UnnumberedKind
<1>4. CASE f.kind = "SNRM" /\ ~IsClient(e) /\ state[e] = "Disconnected"
  BY <1>1, <1>2, <1>4 DEF Accepts, AcceptsUnnumbered, AcceptsSnrm, UnnumberedKind
<1>5. CASE f.kind = "DISC" /\ state[e] = "Connected"
  BY <1>2, <1>5 DEF Accepts, AcceptsUnnumbered, UnnumberedKind
<1>6. CASE f.kind = "RR" /\ state[e] = "Connected"
  BY <1>2, <1>6, HeadConfirms DEF Accepts, AcceptsSupervisory, SupervisoryKind, Sequenced
<1>7. CASE f.kind = "I" /\ state[e] = "Connected"
  BY <1>2, <1>7, HeadConfirms, HeadExpected DEF Accepts, AcceptsInformation, Sequenced
<1> QED
  BY <1>3, <1>4, <1>5, <1>6, <1>7, HeadState

-----------------------------------------------------------------------------
(***************************************************************************)
(* One lemma per action.                                                   *)
(***************************************************************************)

\* A frame that is not an SNRM joins the wire, or one that can be parsed.
LEMMA ParsableSend ==
    ASSUME WireType, NEW e \in Endpoint, NEW f \in Frame, Send(e, f), AllLossless,
           f.kind = "SNRM" => f.block.form # "malformed", NEW x \in Endpoint
    PROVE  Parsable(x)'
<1>1. Parsable(x)
  BY DEF AllLossless, LosslessAt
<1>2. CASE x = e
  <2>1. /\ Len(wire[e]) \in Nat /\ Len(wire'[e]) = Len(wire[e]) + 1
        /\ wire'[e][Len(wire[e]) + 1] = f
        /\ \A i \in 1 .. Len(wire[e]) : wire'[e][i] = wire[e][i]
    BY SendEffect, EmptyWire
  <2> DEFINE l == Len(wire[e])
  <2>2. \A i \in 1 .. l + 1 : i \in 1 .. l \/ i = l + 1
    BY <2>1
  <2> QED
    BY <1>1, <1>2, <2>1, <2>2 DEF Parsable
<1>3. CASE x # e
  BY <1>1, <1>3, SendEffect, TwoRoles DEF Parsable
<1> QED
  BY <1>2, <1>3

LEMMA ParsableShift ==
    ASSUME WireType, NEW e \in Endpoint, wire[e] # <<>>,
           wire' = [wire EXCEPT ![e] = Tail(@)], AllLossless, NEW x \in Endpoint
    PROVE  Parsable(x)'
<1>1. Parsable(x)
  BY DEF AllLossless, LosslessAt
<1>2. CASE x = e
  <2>1. /\ Len(wire[e]) \in Nat /\ Len(wire'[e]) = Len(wire[e]) - 1
        /\ \A i \in 1 .. Len(wire'[e]) : wire'[e][i] = wire[e][i + 1]
    BY ShiftEffect, EmptyWire
  <2>2. \A i \in 1 .. Len(wire'[e]) : i + 1 \in 1 .. Len(wire[e])
    BY <2>1
  <2> QED
    BY <1>1, <1>2, <2>1, <2>2 DEF Parsable
<1>3. CASE x # e
  BY <1>1, <1>3, ShiftEffect, TwoRoles DEF Parsable
<1> QED
  BY <1>2, <1>3

LEMMA ConnectLossless ==
    ASSUME SessionInv, LinkInv, AllLossless, NEW c \in Endpoint, Connect(c)
    PROVE  AllLossless'
<1> DEFINE s == Peer[c]
<1>1. /\ s \in Endpoint /\ s # c /\ Peer[s] = c /\ \A x \in Endpoint : x = c \/ x = s
      /\ TypeOK /\ WireType /\ Phases
  BY TwoRoles DEF LinkInv, PhaseInv, SessionInv
<1>2. PICK form \in ConnectRequestForms(c) :
          BuildConnectRequest(c, form) /\ Send(c, SnrmFrame(c, form))
  BY DEF Connect
<1>3. /\ IsClient(c) /\ state[c] = "Disconnected"
      /\ state' = [state EXCEPT ![c] = "AwaitingConnection"]
      /\ state'[c] = "AwaitingConnection" /\ state'[s] = state[s]
  BY <1>1, <1>2 DEF BuildConnectRequest, IsClient, TypeOK
<1>4. Phase(c, s)
  BY <1>1, <1>3 DEF Phases
<1>5. /\ state[s] \in {"Disconnected", "AwaitingDisconnect"} /\ wire[s] = <<>>
  BY <1>3, <1>4 DEF Phase, AtRest, Calling, Opened, InUse, ClientClosing, ServerLeft, ClientLeft
<1> DEFINE f == SnrmFrame(c, form)
<1>6. f \in Frame /\ f.kind = "SNRM" /\ Send(c, f)
  BY <1>2, SnrmType
<1>7. f.block.form # "malformed"
  BY <1>2 DEF ConnectRequestForms, SnrmFrame, Unnumbered, NoBlock, Block
<1> HIDE DEF f
<1>8. Has(c, "SNRM")' /\ wire'[s] = <<>>
  BY <1>1, <1>5, <1>6, HasSend, SendEffect
<1>9. state[s] = "AwaitingDisconnect" => Has(c, "UA")'
  <2>1. state[s] = "AwaitingDisconnect" => Has(c, "UA")
    BY <1>1, <1>3 DEF AllLossless, LosslessAt, AnswerComing
  <2> QED
    BY <1>1, <1>6, <2>1, HasSend
<1>10. ConnectComing(c)' /\ AnswerComing(c)'
  BY <1>3, <1>5, <1>8, <1>9 DEF ConnectComing, AnswerComing
<1>11. ConnectComing(s)' /\ AnswerComing(s)'
  BY <1>1, <1>3, <1>5, <1>9 DEF ConnectComing, AnswerComing
<1>12. ~Listens(c)' /\ ~Listens(s)'
  <2>1. Len(wire'[s]) = 0
    BY <1>8
  <2>2. ~Has(s, "UA")'
    BY <2>1 DEF Has
  <2> QED
    BY <1>1, <1>3, <1>5, <2>2 DEF Listens
<1>13. Parsable(c)' /\ Parsable(s)'
  BY <1>1, <1>6, <1>7, ParsableSend
<1> QED
  BY <1>1, <1>10, <1>11, <1>12, <1>13 DEF AllLossless, LosslessAt

LEMMA AcceptLossless ==
    ASSUME SessionInv, LinkInv, AllLossless, NEW s \in Endpoint, AcceptConnection(s)
    PROVE  AllLossless'
<1> DEFINE c == Peer[s]
<1>1. /\ c \in Endpoint /\ s # c /\ Peer[c] = s /\ \A x \in Endpoint : x = c \/ x = s
      /\ TypeOK /\ WireType /\ HistoryType /\ Phases
  BY TwoRoles DEF LinkInv, PhaseInv, SessionInv
<1>2. Calling(c, s)
  BY <1>1, AcceptPhases
<1>3. /\ state'[s] = "Connected" /\ state'[c] = "AwaitingConnection"
  BY <1>1, <1>2 DEF AcceptConnection, BuildConnectResponse, Calling, TypeOK
<1> DEFINE f == ConnectResponseFrame(s)
<1>4. f \in Frame /\ f.kind = "UA" /\ Send(s, f)
  BY <1>1, ConnectResponseType DEF AcceptConnection
<1> HIDE DEF f
<1>5. Has(s, "UA")'
  BY <1>1, <1>4, HasSend
<1>6. ConnectComing(c)' /\ ConnectComing(s)' /\ AnswerComing(c)' /\ AnswerComing(s)'
  BY <1>1, <1>3, <1>5 DEF ConnectComing, AnswerComing, InSession
<1>7. ASSUME NEW x \in Endpoint PROVE Complete(x)'
  <2>1. sent'[Peer[x]] = <<>> /\ delivered'[x] = <<>>
    BY TwoRoles DEF AcceptConnection
  <2>2. Len(sent'[Peer[x]]) = 0 /\ Len(delivered'[x]) = 0
    BY <2>1
  <2> QED
    BY <2>2 DEF Complete
<1>8. Parsable(c)' /\ Parsable(s)'
  BY <1>1, <1>4, ParsableSend
<1> QED
  BY <1>1, <1>6, <1>7, <1>8 DEF AllLossless, LosslessAt

LEMMA SameLossless ==
    ASSUME AllLossless,
           UNCHANGED <<state, connectResponsePending, disconnectResponsePending, wire, sent,
                       delivered>>
    PROVE  AllLossless'
<1> SUFFICES ASSUME NEW x \in Endpoint PROVE LosslessAt(x)'
  BY DEF AllLossless
<1>1. LosslessAt(x)
  BY DEF AllLossless
<1>2. \A y, k : Has(y, k)' <=> Has(y, k)
  BY DEF Has
<1>3. ConnectComing(x)' /\ AnswerComing(x)'
  BY <1>1, <1>2 DEF LosslessAt, ConnectComing, AnswerComing, InSession
<1>4. (Listens(x)' => Complete(x)') /\ Parsable(x)'
  BY <1>1, <1>2 DEF LosslessAt, Listens, Complete, Parsable
<1> QED
  BY <1>3, <1>4 DEF LosslessAt

LEMMA DisconnectLossless ==
    ASSUME SessionInv, LinkInv, AllLossless, NEW e \in Endpoint, Disconnect(e)
    PROVE  AllLossless'
<1> DEFINE p == Peer[e]
<1>1. /\ p \in Endpoint /\ e # p /\ Peer[p] = e /\ \A x \in Endpoint : x = e \/ x = p
      /\ TypeOK /\ WireType /\ HistoryType /\ Phases /\ (IsClient(p) <=> ~IsClient(e))
  BY TwoRoles DEF LinkInv, PhaseInv, SessionInv
<1>2. PICK user \in UserSizes :
          BuildDisconnectRequest(e, user) /\ Send(e, DiscFrame(e, user))
  BY DEF Disconnect
<1>3. /\ state[e] = "Connected" /\ state'[e] = "AwaitingDisconnect" /\ state'[p] = state[p]
      /\ UNCHANGED <<connectResponsePending, disconnectResponsePending>>
      /\ UNCHANGED <<sent, delivered>>
  BY <1>1, <1>2 DEF Disconnect, BuildDisconnectRequest, TypeOK, pending, history
<1> DEFINE f == DiscFrame(e, user)
<1>4. f \in Frame /\ f.kind = "DISC" /\ Send(e, f)
  BY <1>2, DiscType
<1> HIDE DEF f
<1>5. /\ Has(e, "DISC")' /\ (Has(e, "UA")' <=> Has(e, "UA"))
      /\ \A k : Has(p, k)' <=> Has(p, k)
  BY <1>1, <1>4, HasSend
<1>6. state[p] # "Disconnected"
  <2>1. Phase(e, p) \/ Phase(p, e)
    BY <1>1 DEF Phases
  <2> QED
    BY <1>3, <2>1 DEF Phase, AtRest, Calling, Opened, InUse, ClientClosing, ServerLeft,
                      ClientLeft, InSession
<1>7. state[p] = "AwaitingConnection" => Has(e, "UA")
  BY <1>1, <1>3 DEF AllLossless, LosslessAt, ConnectComing
<1>8. AnswerComing(e)' /\ AnswerComing(p)'
  <2>1. state[p] \in SessionState
    BY <1>1 DEF TypeOK
  <2>2. AnswerComing(e)'
    BY <1>3, <1>5, <1>6, <1>7, <2>1 DEF AnswerComing, SessionState
  <2>3. AnswerComing(p)'
    BY <1>1, <1>3 DEF AnswerComing
  <2> QED
    BY <2>2, <2>3
<1>9. ConnectComing(e)' /\ ConnectComing(p)'
  BY <1>1, <1>3, <1>5, <1>7 DEF ConnectComing, InSession
<1>10. (Listens(e)' => Complete(e)') /\ (Listens(p)' => Complete(p)')
  <2>1. ~Listens(e)'
    BY <1>3 DEF Listens
  <2>2. Listens(p)' => Listens(p)
    BY <1>1, <1>3, <1>5 DEF Listens
  <2>3. Listens(p) => Complete(p)'
    BY <1>1, <1>3, <1>4, CompleteSend DEF AllLossless, LosslessAt
  <2> QED
    BY <2>1, <2>2, <2>3
<1>11. Parsable(e)' /\ Parsable(p)'
  BY <1>1, <1>4, ParsableSend
<1> QED
  BY <1>1, <1>8, <1>9, <1>10, <1>11 DEF AllLossless, LosslessAt

LEMMA AnswerLossless ==
    ASSUME SessionInv, LinkInv, AllLossless, NEW e \in Endpoint, AnswerDisconnect(e)
    PROVE  AllLossless'
<1> DEFINE p == Peer[e]
<1>1. /\ p \in Endpoint /\ e # p /\ Peer[p] = e /\ \A x \in Endpoint : x = e \/ x = p
      /\ TypeOK /\ WireType /\ HistoryType /\ Phases /\ (IsClient(p) <=> ~IsClient(e))
  BY TwoRoles DEF LinkInv, PhaseInv, SessionInv
<1>2. BuildDisconnectResponse(e) /\ UNCHANGED history
  BY DEF AnswerDisconnect
<1>3. disconnectResponsePending[e] /\ state'[e] = "Disconnected" /\ state'[p] = state[p]
  BY <1>1, <1>2 DEF BuildDisconnectResponse, TypeOK
<1>4. state[p] = "AwaitingDisconnect"
  <2>1. Phase(e, p) \/ Phase(p, e)
    BY <1>1 DEF Phases
  <2> QED
    BY <1>3, <2>1 DEF Phase, AtRest, Calling, Opened, InUse, ClientClosing, ServerLeft,
                      ClientLeft, NoneDue
<1> DEFINE f == DisconnectResponseFrame(e)
<1>5. f \in Frame /\ f.kind = "UA" /\ Send(e, f)
  BY DisconnectResponseType DEF AnswerDisconnect
<1> HIDE DEF f
<1>6. Has(e, "UA")'
  BY <1>1, <1>5, HasSend
<1>7. /\ ConnectComing(e)' /\ ConnectComing(p)' /\ AnswerComing(e)' /\ AnswerComing(p)'
      /\ ~Listens(e)' /\ ~Listens(p)'
  BY <1>1, <1>3, <1>4, <1>6 DEF ConnectComing, AnswerComing, Listens
<1>8. Parsable(e)' /\ Parsable(p)'
  BY <1>1, <1>5, ParsableSend
<1> QED
  BY <1>1, <1>7, <1>8 DEF AllLossless, LosslessAt

\* An I-frame or an RR joins the wire.
LEMMA SequencedLossless ==
    ASSUME SessionInv, LinkInv, AllLossless, NEW e \in Endpoint, NEW f \in Frame,
           Sequenced(f), Send(e, f),
           UNCHANGED <<state, connectResponsePending, disconnectResponsePending, delivered>>,
           sent'[Peer[e]] = sent[Peer[e]],
           \/ sent'[e] = sent[e]
           \/ /\ f.kind = "I" /\ f.payload[2] = Len(sent[e]) + 1
              /\ Len(sent'[e]) = Len(sent[e]) + 1
    PROVE  AllLossless'
<1> DEFINE p == Peer[e]
<1>1. /\ p \in Endpoint /\ e # p /\ Peer[p] = e /\ \A x \in Endpoint : x = e \/ x = p
      /\ WireType /\ HistoryType
  BY TwoRoles DEF LinkInv, PhaseInv, SessionInv
<1>2. f.kind \notin {"UA", "SNRM", "DISC"}
  BY DEF Sequenced
<1>3. \A k : Has(p, k)' <=> Has(p, k)
  BY <1>1, HasSend
<1>4. \A k \in {"UA", "SNRM", "DISC"} : Has(e, k)' <=> Has(e, k)
  BY <1>1, <1>2, HasSend
<1>5. ASSUME NEW x \in Endpoint
      PROVE  ConnectComing(x)' /\ AnswerComing(x)' /\ (Listens(x)' => Listens(x))
  BY <1>1, <1>3, <1>4 DEF AllLossless, LosslessAt, ConnectComing, AnswerComing, Listens, InSession
<1>6. Complete(p) => Complete(p)'
  BY <1>1, CompleteSend
<1>7. Complete(e) => Complete(e)'
  BY <1>1, SendEffect, CompleteSame
<1>8. Parsable(e)' /\ Parsable(p)'
  BY <1>1, <1>2, ParsableSend
<1> QED
  BY <1>1, <1>5, <1>6, <1>7, <1>8 DEF AllLossless, LosslessAt

\* A session in which I-frames arrive is given the next message.
LEMMA DeliverComplete ==
    ASSUME SessionInv, LinkInv, AllLossless, NEW e \in Endpoint, Deliver(e), Listens(e)
    PROVE  Complete(e)'
<1> DEFINE p == Peer[e]
           f == wire[p][1]
<1>1. /\ p \in Endpoint /\ Peer[p] = e /\ WireType /\ HistoryType /\ Numbers /\ Complete(e)
  BY TwoRoles DEF LinkInv, PhaseInv, AllLossless, LosslessAt
<1>2. /\ wire[p] # <<>> /\ wire' = [wire EXCEPT ![p] = Tail(@)] /\ Head(wire[p]) = f
  BY <1>1, DeliverEffect
<1>3. sent' = sent
  BY DEF Deliver
<1>4. delivered' = IF Accepts(e, f) /\ f.kind = "I"
                   THEN [delivered EXCEPT ![e] = Append(@, f.payload)] ELSE delivered
  BY <1>2 DEF Deliver
<1>5. state[e] # "AwaitingDisconnect"
  BY DEF Listens
<1>6. CASE f.kind # "I"
  BY <1>1, <1>2, <1>3, <1>4, <1>6, CompleteShift
<1>7. CASE f.kind = "I"
  <2>1. Accepts(e, f) /\ state[e] = "Connected"
    BY <1>2, <1>5, <1>7, HeadAccepted, HeadState
  <2>2. f.payload = <<session, Len(delivered[e]) + 1>>
    BY <1>1, <1>2, <1>7, <2>1, HeadExpected, HeadMessage DEF InSession
  <2>3. delivered'[e] = Append(delivered[e], f.payload) /\ delivered[e] \in Seq(Payload)
    BY <1>1, <1>4, <1>7, <2>1 DEF HistoryType
  <2>4. Len(delivered'[e]) = Len(delivered[e]) + 1
    BY <2>3
  <2>5. f.payload[2] = Len(delivered[e]) + 1
    BY <2>2
  <2>6. sent'[Peer[e]] = sent[Peer[e]]
    BY <1>3
  <2>7. wire[Peer[e]][1].payload[2] = Len(delivered[e]) + 1
    BY <2>5
  <2> HIDE DEF f, p
  <2>8. wire[Peer[e]] # <<>> /\ wire' = [wire EXCEPT ![Peer[e]] = Tail(@)]
    BY <1>2 DEF p
  <2> QED
    BY <1>1, <2>4, <2>6, <2>7, <2>8, CompleteShift
<1> QED
  BY <1>6, <1>7

LEMMA DeliverLossless ==
    ASSUME SessionInv, LinkInv, AllLossless, NEW e \in Endpoint, Deliver(e)
    PROVE  AllLossless'
<1> DEFINE p == Peer[e]
           f == wire[p][1]
<1>1. /\ p \in Endpoint /\ e # p /\ Peer[p] = e /\ \A x \in Endpoint : x = e \/ x = p
      /\ TypeOK /\ WireType /\ HistoryType /\ Phases /\ (IsClient(p) <=> ~IsClient(e))
      /\ (Role(e) = "Server" <=> ~IsClient(e))
  BY TwoRoles DEF LinkInv, PhaseInv, SessionInv
<1>2. /\ wire[p] # <<>> /\ wire' = [wire EXCEPT ![p] = Tail(@)] /\ f \in Frame
      /\ ReceiveFrame(e, f) /\ Len(wire[p]) >= 1
  BY <1>1, DeliverEffect
<1>3. /\ \A k : (Has(p, k) /\ f.kind # k => Has(p, k)') /\ (Has(p, k)' => Has(p, k))
                /\ (Has(e, k)' <=> Has(e, k))
      /\ Has(p, f.kind)
  BY <1>1, <1>2, HasShift
<1>4. Parsable(e)' /\ Parsable(p)'
  BY <1>1, <1>2, ParsableShift
<1>5. Complete(p) => Complete(p)'
  BY <1>1, <1>2, ShiftEffect, DeliverHistory, CompleteSame
<1>6. Listens(e) => Complete(e)'
  BY DeliverComplete
<1>7. /\ ConnectComing(e) /\ ConnectComing(p) /\ AnswerComing(e) /\ AnswerComing(p)
      /\ (Listens(p) => Complete(p)) /\ Parsable(p)
  BY <1>1 DEF AllLossless, LosslessAt
<1>8. f.kind \in {"I", "RR", "DISC", "UA", "SNRM"}
  BY <1>1, <1>2, WireKinds, ShiftKeeps
<1>9. Phase(e, p) \/ Phase(p, e)
  BY <1>1 DEF Phases
<1>10. SUFFICES /\ ConnectComing(e)' /\ ConnectComing(p)' /\ AnswerComing(e)' /\ AnswerComing(p)'
                /\ (Listens(e)' => Complete(e)') /\ (Listens(p)' => Complete(p)')
  BY <1>1, <1>4 DEF AllLossless, LosslessAt
<1>11. 1 \in 1 .. Len(wire[p])
  BY <1>1, <1>2, EmptyWire
<1> HIDE DEF f
<1>12. ASSUME f.kind \in {"I", "RR"},
              UNCHANGED <<state, connectResponsePending, disconnectResponsePending>>
       PROVE  /\ ConnectComing(e)' /\ ConnectComing(p)' /\ AnswerComing(e)' /\ AnswerComing(p)'
              /\ (Listens(e)' => Complete(e)') /\ (Listens(p)' => Complete(p)')
  <2>1. \A k \in {"UA", "SNRM", "DISC"} : Has(p, k)' <=> Has(p, k)
    BY <1>3, <1>12
  <2>2. ConnectComing(e)' /\ ConnectComing(p)' /\ AnswerComing(e)' /\ AnswerComing(p)'
    BY <1>1, <1>3, <1>7, <1>12, <2>1 DEF ConnectComing, AnswerComing, InSession
  <2>3. (Listens(e)' => Listens(e)) /\ (Listens(p)' => Listens(p))
    BY <1>1, <1>3, <1>12, <2>1 DEF Listens
  <2> QED
    BY <1>5, <1>6, <1>7, <2>2, <2>3
<1>13. CASE ReceiveInformationFrame(e, f)
  BY <1>12, <1>13 DEF ReceiveInformationFrame, pending
<1>14. CASE ReceiveSupervisoryFrame(e, f)
  BY <1>8, <1>12, <1>14 DEF ReceiveSupervisoryFrame, pending, SupervisoryKind
<1>15. CASE ReceiveSnrm(e, f)
  <2>1. /\ f.kind = "SNRM" /\ ~IsClient(e) /\ state[e] = "Disconnected" /\ state' = state
        /\ connectResponsePending'[e] /\ connectResponsePending'[p] = connectResponsePending[p]
        /\ disconnectResponsePending' = disconnectResponsePending
    BY <1>1, <1>15 DEF ReceiveSnrm, Accepts, AcceptsUnnumbered, AcceptsSnrm, SupervisoryKind, TypeOK
  <2>2. ConnectComing(p)' /\ ConnectComing(e)'
    BY <1>1, <2>1 DEF ConnectComing
  <2>3. AnswerComing(p)' /\ AnswerComing(e)'
    BY <1>1, <1>3, <1>7, <2>1 DEF AnswerComing
  <2>4. ~Listens(e)' /\ (Listens(p)' => Listens(p))
    BY <1>1, <1>3, <2>1 DEF Listens
  <2> QED
    BY <1>5, <1>7, <2>2, <2>3, <2>4
<1>16. CASE ReceiveMalformedSnrm(e, f)
  BY <1>7, <1>11, <1>16 DEF ReceiveMalformedSnrm, Parsable, f
<1>17. CASE ReceiveConnectUa(e, f)
  <2>1. /\ f.kind = "UA" /\ state[e] = "AwaitingConnection"
        /\ state'[e] = "Connected" /\ state'[p] = state[p]
        /\ UNCHANGED <<connectResponsePending, disconnectResponsePending>>
    BY <1>1, <1>17 DEF ReceiveConnectUa, UaConnects, TypeOK, pending
  <2>2. Opened(e, p) /\ wire[e] = <<>>
    BY <1>1, <1>2, <1>17, ConnectUaPhases, DeliverHistory DEF f
  <2>3. ~Has(e, "UA") /\ state[p] \in {"Connected", "AwaitingDisconnect"}
    BY <1>1, <2>2, NothingOnEmptyWire DEF Opened, InSession
  <2>4. ConnectComing(e)' /\ ConnectComing(p)' /\ AnswerComing(e)' /\ AnswerComing(p)'
    BY <1>1, <1>3, <1>7, <2>1, <2>3 DEF ConnectComing, AnswerComing
  <2>5. Listens(e)
    BY <1>3, <2>1 DEF Listens
  <2>6. Listens(p)' => Listens(p)
    BY <1>1, <2>1, <2>3 DEF Listens
  <2> QED
    BY <1>5, <1>6, <1>7, <2>4, <2>5, <2>6
<1>18. CASE ReceiveDisconnectUa(e, f)
  <2>1. /\ f.kind = "UA" /\ state[e] = "AwaitingDisconnect"
        /\ state'[e] = "Disconnected" /\ state'[p] = state[p]
        /\ UNCHANGED <<connectResponsePending, disconnectResponsePending>>
    BY <1>1, <1>18 DEF ReceiveDisconnectUa, TypeOK, pending
  <2>2. \/ state[p] = "Disconnected"
        \/ state[p] = "AwaitingConnection" /\ wire[e] = <<>>
    <3>1. wire[p][1].kind = "UA" /\ Len(wire[p]) # 0
      BY <1>2, <2>1 DEF f
    <3> QED
      BY <1>1, <1>2, <1>9, <1>11, <2>1, <3>1
         DEF Phase, AtRest, Calling, Opened, InUse, ClientClosing, ServerLeft, ClientLeft,
             InSession, Carries
  <2>3. state[p] = "AwaitingConnection" => ~Has(e, "UA")
    BY <1>1, <2>2, NothingOnEmptyWire
  <2>4. ConnectComing(e)' /\ ConnectComing(p)' /\ AnswerComing(e)' /\ AnswerComing(p)'
    BY <1>1, <1>3, <1>7, <2>1, <2>2, <2>3 DEF ConnectComing, AnswerComing
  <2>5. ~Listens(e)' /\ ~Listens(p)'
    BY <1>1, <1>3, <2>1, <2>2, <2>3 DEF Listens
  <2> QED
    BY <2>4, <2>5
<1>19. CASE ReceiveDisc(e, f)
  <2>1. /\ f.kind = "DISC" /\ state[e] = "Connected" /\ state' = state
        /\ disconnectResponsePending'[e] /\ disconnectResponsePending'[p] = disconnectResponsePending[p]
        /\ connectResponsePending' = connectResponsePending
    BY <1>1, <1>19 DEF ReceiveDisc, Accepts, AcceptsUnnumbered, SupervisoryKind, TypeOK
  <2>2. state[p] # "AwaitingConnection"
    BY <1>1, <1>2, <1>9, <2>1 DEF Phase, AtRest, Calling, Opened, InUse, ClientClosing,
       ServerLeft, ClientLeft, InSession
  <2>3. ConnectComing(e)' /\ ConnectComing(p)' /\ AnswerComing(e)' /\ AnswerComing(p)'
    BY <1>1, <2>1, <2>2 DEF ConnectComing, AnswerComing
  <2>4. Listens(e) /\ (Listens(p)' => Listens(p))
    BY <1>1, <1>3, <2>1 DEF Listens
  <2> QED
    BY <1>5, <1>6, <1>7, <2>3, <2>4
<1>20. CASE ReceiveDm(e, f)
  BY <1>8, <1>20 DEF ReceiveDm
<1>21. CASE RejectFrame(e, f)
  <2>1. /\ ~Accepts(e, f)
        /\ UNCHANGED <<state, connectResponsePending, disconnectResponsePending>>
    BY <1>21 DEF RejectFrame, sessionVars, pending
  <2>2. state[e] = "AwaitingDisconnect"
    BY <1>2, <2>1, HeadAccepted DEF f
  <2>3. f.kind # "UA"
    <3>1. Addressed(e, f)
      BY <1>1, <1>11 DEF LinkInv, PhaseInv, Addressing, f
    <3> QED
      BY <2>1, <2>2, <3>1 DEF Accepts, AcceptsUnnumbered, UaExpected, UnnumberedKind
  <2>4. CASE f.kind \in {"I", "RR"}
    BY <1>12, <2>1, <2>4
  <2>5. CASE f.kind = "DISC"
    <3>1. ConnectComing(e)' /\ ConnectComing(p)'
      BY <1>1, <1>3, <1>7, <2>1, <2>5 DEF ConnectComing, InSession
    <3>2. AnswerComing(e)' /\ AnswerComing(p)'
      BY <1>1, <1>3, <1>7, <2>1, <2>2, <2>5 DEF AnswerComing
    <3>3. ~Listens(e)' /\ (Listens(p)' => Listens(p))
      BY <1>1, <1>3, <2>1, <2>2 DEF Listens
    <3> QED
      BY <1>5, <1>7, <3>1, <3>2, <3>3
  <2>6. CASE f.kind = "SNRM"
    <3>1. wire[p][1].kind = "SNRM"
      BY <2>6 DEF f
    <3>2. ClientLeft(p, e)
      BY <1>1, <1>2, <1>9, <1>11, <2>2, <3>1
         DEF Phase, AtRest, Calling, Opened, InUse, ClientClosing, ServerLeft, ClientLeft,
             InSession, Carries
    <3>3. /\ wire[e] = <<>> /\ state[p] \in {"Disconnected", "AwaitingConnection"}
          /\ Ends(p, "SNRM")
      BY <3>2 DEF ClientLeft
    <3>4. 1 = Len(wire[p])
      BY <1>11, <3>1, <3>3 DEF Ends
    <3>5. ~Has(p, "UA") /\ ~Has(e, "UA")
      BY <1>1, <3>1, <3>3, <3>4, NothingOnEmptyWire DEF Has
    <3> QED
      BY <1>7, <2>2, <3>3, <3>5 DEF AnswerComing
  <2> QED
    BY <1>8, <2>3, <2>4, <2>5, <2>6
<1> QED
  BY <1>2, <1>13, <1>14, <1>15, <1>16, <1>17, <1>18, <1>19, <1>20, <1>21 DEF ReceiveFrame

-----------------------------------------------------------------------------
(***************************************************************************)
(* The invariant of the lossless line, and what it says.                   *)
(***************************************************************************)
LEMMA InitLosslessInv ==
    ASSUME NarrowWindows
    PROVE  LinkInit => SessionInv /\ LosslessInv
<1> SUFFICES ASSUME LinkInit, NEW e \in Endpoint PROVE LosslessAt(e)
  BY InitLinkInv DEF LosslessInv
<1>1. state[e] = "Disconnected"
  BY DEF LinkInit, Init
<1>2. wire[e] = <<>>
  BY DEF LinkInit, LineInit
<1>3. Len(wire[e]) = 0
  BY <1>2
<1> QED
  BY <1>1, <1>3 DEF LosslessAt, ConnectComing, AnswerComing, Listens, Parsable

LEMMA StepLosslessInv ==
    ASSUME NarrowWindows, MaxLosses = 0
    PROVE  SessionInv /\ LosslessInv /\ [LinkNext]_linkVars => (SessionInv /\ LosslessInv)'
<1> SUFFICES ASSUME SessionInv, LinkInv, AllLossless, [LinkNext]_linkVars
             PROVE  AllLossless'
  BY StepLinkInv DEF LosslessInv, AllLossless
<1>1. SessionInv /\ TypeOK /\ HistoryType /\ WireType /\ Phases
  BY DEF LinkInv, PhaseInv, SessionInv
<1>2. ASSUME NEW e \in Endpoint, LinkStep(e) PROVE AllLossless'
  <2>1. CASE Connect(e)
    BY <2>1, ConnectLossless
  <2>2. CASE AcceptConnection(e)
    BY <2>2, AcceptLossless
  <2>3. CASE FailToAccept(e)
    BY <2>3, SameLossless DEF FailToAccept, BuildConnectResponseTooLarge, lineVars, history, pending
  <2>4. CASE Disconnect(e)
    BY <2>4, DisconnectLossless
  <2>5. CASE AnswerDisconnect(e)
    BY <2>5, AnswerLossless
  <2>6. CASE SendMessage(e)
    <3>1. PICK size \in InfoSizes :
              BuildInformationFrame(e, size) /\ Send(e, IFrame(e, size, NextMessage(e)))
      BY <2>6 DEF SendMessage
    <3>2. /\ state[e] = "Connected"
          /\ UNCHANGED <<state, connectResponsePending, disconnectResponsePending>>
      BY <3>1 DEF BuildInformationFrame, pending
    <3>3. NextMessage(e) \in Payload
      BY <1>1, <2>6, <3>2, MessageInBounds DEF SendMessage
    <3> DEFINE f == IFrame(e, size, NextMessage(e))
    <3>4. f \in Frame /\ f.kind = "I" /\ f.payload = <<session, Len(sent[e]) + 1>>
      BY <1>1, <3>3, IFrameType DEF NextMessage
    <3>5. /\ sent'[Peer[e]] = sent[Peer[e]] /\ delivered' = delivered
          /\ sent'[e] = Append(sent[e], NextMessage(e)) /\ sent[e] \in Seq(Payload)
      BY <1>1, <2>6, TwoRoles DEF SendMessage, HistoryType
    <3>6. Len(sent'[e]) = Len(sent[e]) + 1
      BY <3>3, <3>5
    <3>7. Send(e, f)
      BY <3>1
    <3> HIDE DEF f
    <3>8. Sequenced(f) /\ f.payload[2] = Len(sent[e]) + 1
      BY <3>4 DEF Sequenced
    <3> QED
      BY <3>2, <3>4, <3>5, <3>6, <3>7, <3>8, SequencedLossless
  <2>7. CASE AcknowledgeReceipt(e)
    <3>1. /\ UNCHANGED <<state, connectResponsePending, disconnectResponsePending, sent, delivered>>
          /\ Send(e, ReceiveReadyFrame(e))
      BY <2>7 DEF AcknowledgeReceipt, BuildReceiveReadyFrame, sessionVars, pending, history
    <3>2. ReceiveReadyFrame(e) \in Frame /\ Sequenced(ReceiveReadyFrame(e))
      BY <1>1, ReceiveReadyType DEF Sequenced
    <3> QED
      BY <3>1, <3>2, SequencedLossless
  <2>8. CASE Deliver(e)
    BY <2>8, DeliverLossless
  <2>9. CASE Lose(e)
    BY <1>1, <2>9 DEF Lose, LoseFrame, WireType
  <2> QED
    BY <1>2, <2>1, <2>2, <2>3, <2>4, <2>5, <2>6, <2>7, <2>8, <2>9 DEF LinkStep
<1>3. CASE UNCHANGED linkVars
  BY <1>3, SameLossless DEF linkVars, lineVars, history, sessionVars, pending
<1> QED
  BY <1>2, <1>3 DEF LinkNext

LEMMA LosslessInvariant ==
    ASSUME NarrowWindows, MaxLosses = 0
    PROVE  LinkSpec => [](SessionInv /\ LosslessInv)
BY InitLosslessInv, StepLosslessInv, PTL DEF LinkSpec

\* On a line that loses nothing ReceiveFrame returns an error only to a session
\* that has sent its own DISC: no order of calls at the two ends lets a frame
\* arrive that the state or the sequence numbers of its receiver refuse.
THEOREM NeverRejected ==
    ASSUME NarrowWindows, MaxLosses = 0
    PROVE  LinkSpec => []NothingRejected
<1>1. SessionInv /\ LosslessInv => NothingRejected
  <2> SUFFICES ASSUME SessionInv, LosslessInv, NEW e \in Endpoint, wire[Peer[e]] # <<>>,
                      state[e] # "AwaitingDisconnect"
               PROVE  Accepts(e, Head(wire[Peer[e]]))
    BY DEF NothingRejected
  <2>1. LinkInv /\ AllLossless /\ WireType
    BY DEF LosslessInv, LinkInv, PhaseInv, AllLossless
  <2>2. Head(wire[Peer[e]]) = wire[Peer[e]][1]
    BY <2>1, TwoRoles DEF WireType
  <2> QED
    BY <2>1, <2>2, HeadAccepted
<1> QED
  BY <1>1, LosslessInvariant, PTL

\* Nothing is left half open or half closed on a line that loses nothing: with no
\* frame under way and no answer due, neither side waits for a connection, and one
\* waits for a UA only if the other does too, their DISCs having crossed.
THEOREM EndsAgree ==
    ASSUME NarrowWindows, MaxLosses = 0
    PROVE  LinkSpec => []QuiescentAgreement
<1>1. SessionInv /\ LosslessInv => QuiescentAgreement
  <2> SUFFICES ASSUME SessionInv, LosslessInv,
                      \A e \in Endpoint : wire[e] = <<>> /\ ~connectResponsePending[e]
                                                         /\ ~disconnectResponsePending[e],
                      NEW e \in Endpoint
               PROVE  state[e] # "AwaitingConnection" /\ state[e] = state[Peer[e]]
    BY DEF QuiescentAgreement
  <2>1. /\ Peer[e] \in Endpoint /\ Peer[Peer[e]] = e /\ WireType
        /\ \A x \in Endpoint : state[x] \in SessionState
    BY TwoRoles DEF LosslessInv, LinkInv, PhaseInv, SessionInv, TypeOK
  <2>2. \A k : ~Has(e, k) /\ ~Has(Peer[e], k)
    BY <2>1, NothingOnEmptyWire
  <2>3. /\ ConnectComing(e) /\ ConnectComing(Peer[e])
        /\ AnswerComing(e) /\ AnswerComing(Peer[e])
    BY <2>1 DEF LosslessInv, LosslessAt
  <2>4. state[e] # "AwaitingConnection" /\ state[Peer[e]] # "AwaitingConnection"
    BY <2>1, <2>2, <2>3 DEF ConnectComing
  <2>5. state[e] = "AwaitingDisconnect" <=> state[Peer[e]] = "AwaitingDisconnect"
    BY <2>1, <2>2, <2>3 DEF AnswerComing
  <2>6. state[e] = "Connected" <=> state[Peer[e]] = "Connected"
    <3>1. Phase(e, Peer[e]) \/ Phase(Peer[e], e)
      BY <2>1, TwoRoles DEF LosslessInv, LinkInv, PhaseInv, Phases
    <3> QED
      BY <2>4, <2>5, <3>1 DEF Phase, AtRest, Calling, Opened, InUse, ClientClosing, ServerLeft,
                              ClientLeft, InSession
  <2> QED
    BY <2>1, <2>4, <2>5, <2>6 DEF SessionState
<1> QED
  BY <1>1, LosslessInvariant, PTL
=============================================================================
