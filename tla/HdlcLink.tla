----------------------------- MODULE HdlcLink -----------------------------
(***************************************************************************)
(* Two sessions, a client and a server, joined by a line: what the         *)
(* applications of both ends make of HdlcSession when they pass every      *)
(* frame built by one session, in order, to ReceiveFrame of the other.     *)
(* The order in which the applications call the methods is not            *)
(* constrained.                                                            *)
(*                                                                         *)
(* The variables sent, delivered and acknowledged are history: they count  *)
(* whole messages where the code keeps three bits, and no action reads     *)
(* them but for the bounds.                                                *)
(***************************************************************************)
EXTENDS HdlcLine

CONSTANTS
    Disconnector,   \* endpoints whose application closes sessions
    MaxMessages,    \* bound: messages each endpoint sends in one session
    MaxSessions     \* bound: sessions opened

ASSUME BoundAssumption ==
    /\ Disconnector \subseteq Endpoint
    /\ MaxSessions \in Nat
    /\ MaxMessages \in [Endpoint -> Nat]
    /\ \A e \in Endpoint : (1 .. MaxSessions) \X (1 .. MaxMessages[e]) \subseteq Payload

VARIABLES
    session,       \* history: number of sessions the server has opened
    sent,          \* history: messages sent by each endpoint in this session
    delivered,     \* history: messages each endpoint accepted in this session
    acknowledged   \* history: how many of its messages each endpoint saw acknowledged

history == <<session, sent, delivered, acknowledged>>
linkVars == <<sessionVars, lineVars, history>>

LinkInit ==
    /\ Init
    /\ LineInit
    /\ session = 0
    /\ sent = [e \in Endpoint |-> <<>>]
    /\ delivered = [e \in Endpoint |-> <<>>]
    /\ acknowledged = [e \in Endpoint |-> 0]

-----------------------------------------------------------------------------
Connect(e) ==
    /\ session < MaxSessions
    /\ \E form \in ConnectRequestForms(e) :
          BuildConnectRequest(e, form) /\ Send(e, SnrmFrame(e, form))
    /\ UNCHANGED history

\* The server's UA opens the session: from here on both ends count anew.
AcceptConnection(e) ==
    /\ BuildConnectResponse(e)
    /\ Send(e, ConnectResponseFrame(e))
    /\ session' = session + 1
    /\ sent' = [x \in Endpoint |-> <<>>]
    /\ delivered' = [x \in Endpoint |-> <<>>]
    /\ acknowledged' = [x \in Endpoint |-> 0]

FailToAccept(e) ==
    /\ BuildConnectResponseTooLarge(e)
    /\ UNCHANGED <<lineVars, history>>

Disconnect(e) ==
    /\ e \in Disconnector
    /\ \E user \in UserSizes :
          BuildDisconnectRequest(e, user) /\ Send(e, DiscFrame(e, user))
    /\ UNCHANGED history

AnswerDisconnect(e) ==
    /\ BuildDisconnectResponse(e)
    /\ Send(e, DisconnectResponseFrame(e))
    /\ UNCHANGED history

NextMessage(e) == <<session, Len(sent[e]) + 1>>

SendMessage(e) ==
    /\ Len(sent[e]) < MaxMessages[e]
    /\ \E size \in InfoSizes :
          BuildInformationFrame(e, size) /\ Send(e, IFrame(e, size, NextMessage(e)))
    /\ sent' = [sent EXCEPT ![e] = Append(@, NextMessage(e))]
    /\ UNCHANGED <<session, delivered, acknowledged>>

AcknowledgeReceipt(e) ==
    /\ BuildReceiveReadyFrame(e)
    /\ Send(e, ReceiveReadyFrame(e))
    /\ UNCHANGED history

\* The oldest frame of the peer reaches e, whose session takes or rejects it.
Deliver(e) ==
    /\ wire[Peer[e]] # <<>>
    /\ LET f == Head(wire[Peer[e]])
           acks == Accepts(e, f) /\ f.kind \in SupervisoryKind \cup {"I"}
       IN  /\ ReceiveFrame(e, f)
           /\ delivered' = IF Accepts(e, f) /\ f.kind = "I"
                           THEN [delivered EXCEPT ![e] = Append(@, f.payload)]
                           ELSE delivered
           /\ acknowledged' =
                  IF acks
                  THEN [acknowledged EXCEPT ![e] = @ + Distance(acknowledgeSequence[e], f.nr)]
                  ELSE acknowledged
    /\ Take(e)
    /\ UNCHANGED <<session, sent>>

Lose(e) ==
    /\ LoseFrame(e)
    /\ UNCHANGED <<sessionVars, history>>

LinkStep(e) ==
    \/ Connect(e)
    \/ AcceptConnection(e)
    \/ FailToAccept(e)
    \/ Disconnect(e)
    \/ AnswerDisconnect(e)
    \/ SendMessage(e)
    \/ AcknowledgeReceipt(e)
    \/ Deliver(e)
    \/ Lose(e)

LinkNext == \E e \in Endpoint : LinkStep(e)

LinkSpec == LinkInit /\ [][LinkNext]_linkVars

(***************************************************************************)
(* Fairness.  An application that owns a session must pump the line, must  *)
(* answer what ReceiveFrame left pending and must now and then send RR; it *)
(* need not open, close or send anything of its own accord.  Fairness of   *)
(* what writes to the line is strong because the bound MaxInFlight, which  *)
(* the code does not have, lets a stream of RRs keep the line full at the  *)
(* very moments the other frame could be written.                          *)
(* A client that wants a connection repeats BuildConnectRequest (docs/04,  *)
(* section 10): that is the additional fairness of PersistentSpec.         *)
(***************************************************************************)
Fairness ==
    \A e \in Endpoint :
        /\ WF_linkVars(Deliver(e))
        /\ SF_linkVars(AcceptConnection(e))
        /\ SF_linkVars(AnswerDisconnect(e))
        /\ SF_linkVars(AcknowledgeReceipt(e))

FairSpec == LinkSpec /\ Fairness

PersistentSpec == FairSpec /\ \A e \in Endpoint : SF_linkVars(Connect(e))

-----------------------------------------------------------------------------
(***************************************************************************)
(* Safety.                                                                 *)
(***************************************************************************)
\* Every variable of the sessions, of the line and of the history keeps its type.
LinkTypeOK ==
    /\ TypeOK
    /\ LineTypeOK
    /\ session \in Nat
    /\ acknowledged \in [Endpoint -> Nat]
    /\ \A e \in Endpoint :
          /\ \A i \in 1 .. Len(sent[e]) : sent[e][i] \in Payload
          /\ \A i \in 1 .. Len(delivered[e]) : delivered[e][i] \in Payload

\* (V(S) - V(A)) mod 8 is the true number of unacknowledged messages, and
\* V(R) the true number of messages delivered, modulo 8.
SequencesCountMessages ==
    \A e \in Endpoint : InSession(e) =>
        /\ Len(sent[e]) = acknowledged[e] + Outstanding(e)
        /\ receiveSequence[e] = Len(delivered[e]) % Modulus

\* A client believes in a session only when the server is in one too, lost
\* frames or not: the server opens first and leaves last.
ClientSessionIsShared ==
    \A e \in Endpoint : IsClient(e) /\ state[e] = "Connected" => InSession(Peer[e])

\* In a session neither side sends more, or longer, frames than the other has
\* agreed to receive.
SenderWithinReceiver ==
    \A e \in Endpoint : state[e] = "Connected" /\ InSession(Peer[e]) =>
        /\ negotiatedLimits[e].windowTransmit <= negotiatedLimits[Peer[e]].windowReceive
        /\ negotiatedLimits[e].infoTransmit <= negotiatedLimits[Peer[e]].infoReceive

\* ReceiveInformationFrame counts and measures nothing: that a receiver gets no
\* more unconfirmed frames than its window, and no longer ones than it agreed to,
\* is up to the other end's handshake, window test and codec limit.
ReceiverNotOverrun ==
    \A e \in Endpoint : InSession(e) /\ InSession(Peer[e]) =>
        /\ Outstanding(Peer[e]) <= negotiatedLimits[e].windowReceive
        /\ \A i \in DOMAIN wire[Peer[e]] :
              LET f == wire[Peer[e]][i]
              IN  f.kind = "I" => f.size <= negotiatedLimits[e].infoReceive

\* On a lossless line a session that is not itself closing never rejects a
\* frame its peer sent: every protocol error a caller sees is due to the line.
NothingRejected ==
    \A e \in Endpoint :
        wire[Peer[e]] # <<>> /\ state[e] # "AwaitingDisconnect"
            => Accepts(e, Head(wire[Peer[e]]))

\* When a lossless line is empty and no answer is due, both ends are in the
\* same state: one of rest or, after their DISCs have crossed, each waiting for
\* the other's UA.
QuiescentAgreement ==
    (\A e \in Endpoint : wire[e] = <<>> /\ ~connectResponsePending[e]
                                        /\ ~disconnectResponsePending[e])
        => \A e \in Endpoint : state[e] # "AwaitingConnection" /\ state[e] = state[Peer[e]]

(***************************************************************************)
(* The link implements the ordered, confirmed delivery service.            *)
(***************************************************************************)
Service == INSTANCE HdlcService WITH
    Station <- Endpoint, Message <- Payload,
    submitted <- sent, handed <- delivered, confirmed <- acknowledged

ImplementsService == Service!Spec

(***************************************************************************)
(* Liveness.                                                               *)
(***************************************************************************)

\* A client that has sent its SNRM gets its connection.
ConnectCompletes ==
    \A e \in Endpoint : state[e] = "AwaitingConnection" ~> state[e] = "Connected"

\* A station that has sent DISC gets its UA, unless its peer has done the same.
DisconnectCompletes ==
    \A e \in Endpoint :
        state[e] = "AwaitingDisconnect"
            ~> state[e] = "Disconnected" \/ state[Peer[e]] = "AwaitingDisconnect"

\* A sender that has filled its window may send again, or its session ends.
WindowReopens ==
    \A e \in Endpoint :
        (state[e] = "Connected" /\ ~CanSendInformationFrame(e))
            ~> (CanSendInformationFrame(e) \/ state[e] # "Connected")
============================================================================
