------------------------------- MODULE GoLink -------------------------------
(***************************************************************************)
(* Two sessions of the Go port, a client and a server, joined by a line    *)
(* that delivers in order but may lose frames.  As the session has no      *)
(* window and takes no N(R) but V(S), it leaves two duties to the          *)
(* applications, of which either is enough:                                *)
(*   - AwaitAcknowledgement: to send the next I-frame when the last has    *)
(*     been acknowledged, the window of 1 that docs/04, section 8.1 takes  *)
(*     for granted;                                                        *)
(*   - HalfDuplex: on a line that loses nothing, to write only when        *)
(*     nothing of the peer is on its way.                                  *)
(* Otherwise they may call anything at any time.                           *)
(***************************************************************************)
EXTENDS GoSession, Sequences

CONSTANTS
    Peer,                  \* the other endpoint of each endpoint
    Duties,                \* those that applications may choose to keep
    MaxInFlight,           \* bound: frames in flight in one direction
    MaxLosses,             \* bound: frames lost
    MaxMessages,           \* bound: messages each endpoint sends in one session
    MaxSessions            \* bound: sessions opened

ASSUME GoLinkAssumption ==
    /\ Peer \in [Endpoint -> Endpoint]
    /\ \A e \in Endpoint :
          /\ Peer[e] # e /\ Peer[Peer[e]] = e /\ Endpoint = {e, Peer[e]}
          /\ Role(e) # Role(Peer[e])
          /\ LocalAddress(e) = RemoteAddress(Peer[e])
    /\ Duties \subseteq {"AwaitAcknowledgement", "HalfDuplex"}
    /\ MaxInFlight \in Nat /\ MaxLosses \in Nat /\ MaxSessions \in Nat
    /\ MaxMessages \in [Endpoint -> Nat]
    /\ \A e \in Endpoint : (1 .. MaxSessions) \X (1 .. MaxMessages[e]) \subseteq Payload

VARIABLES
    duty,          \* the duty both applications keep
    wire,          \* frames in flight, by sender
    losses,        \* history: frames lost
    session,       \* history: number of sessions the server has opened
    sent,          \* history: messages sent by each endpoint in this session
    delivered,     \* history: messages each endpoint accepted in this session
    acknowledged   \* how many of its messages each endpoint saw acknowledged

messages == <<sent, delivered, acknowledged>>
linkVars == <<sessionVars, duty, wire, losses, session, messages>>

LinkInit ==
    /\ Init
    /\ duty \in Duties
    /\ wire = [e \in Endpoint |-> <<>>]
    /\ losses = 0
    /\ session = 0
    /\ sent = [e \in Endpoint |-> <<>>]
    /\ delivered = [e \in Endpoint |-> <<>>]
    /\ acknowledged = [e \in Endpoint |-> 0]

\* The application writes the frame it was given to the line.
Send(e, f) ==
    /\ Len(wire[e]) < MaxInFlight
    /\ duty = "HalfDuplex" => wire[Peer[e]] = <<>>
    /\ wire' = [wire EXCEPT ![e] = Append(@, f)]
    /\ UNCHANGED <<duty, losses>>

-----------------------------------------------------------------------------
Connect(e) ==
    /\ session < MaxSessions
    /\ BuildConnectRequest(e)
    /\ Send(e, Unnumbered(e, "SNRM"))
    /\ UNCHANGED <<session, messages>>

\* The server's UA opens the session: from here on both ends count anew.
AcceptConnection(e) ==
    /\ BuildConnectResponse(e)
    /\ Send(e, Unnumbered(e, "UA"))
    /\ session' = session + 1
    /\ sent' = [x \in Endpoint |-> <<>>]
    /\ delivered' = [x \in Endpoint |-> <<>>]
    /\ acknowledged' = [x \in Endpoint |-> 0]

Disconnect(e) ==
    /\ BuildDisconnectRequest(e)
    /\ Send(e, Unnumbered(e, "DISC"))
    /\ UNCHANGED <<session, messages>>

AnswerDisconnect(e) ==
    /\ BuildDisconnectResponse(e)
    /\ Send(e, Unnumbered(e, "UA"))
    /\ UNCHANGED <<session, messages>>

SendMessage(e) ==
    /\ Len(sent[e]) < MaxMessages[e]
    /\ duty = "AwaitAcknowledgement" => acknowledged[e] = Len(sent[e])
    /\ BuildInformationFrame(e)
    /\ LET m == <<session, Len(sent[e]) + 1>>
       IN  Send(e, IFrame(e, m)) /\ sent' = [sent EXCEPT ![e] = Append(@, m)]
    /\ UNCHANGED <<session, delivered, acknowledged>>

AcknowledgeReceipt(e) ==
    /\ BuildReceiveReadyFrame(e)
    /\ Send(e, ReceiveReadyFrame(e))
    /\ UNCHANGED <<session, messages>>

\* The oldest frame of the peer reaches e, whose session takes or rejects it.  An
\* I-frame or RR that it takes acknowledges all that e has sent.
Deliver(e) ==
    /\ wire[Peer[e]] # <<>>
    /\ LET f == Head(wire[Peer[e]])
           data == f.kind \in SupervisoryKind \cup {"I"}
       IN  /\ ReceiveFrame(e, f)
           /\ delivered' = IF Accepts(e, f) /\ f.kind = "I"
                           THEN [delivered EXCEPT ![e] = Append(@, f.payload)]
                           ELSE delivered
           /\ acknowledged' = IF Accepts(e, f) /\ data
                              THEN [acknowledged EXCEPT ![e] = Len(sent[e])]
                              ELSE acknowledged
    /\ wire' = [wire EXCEPT ![Peer[e]] = Tail(@)]
    /\ UNCHANGED <<duty, losses, session, sent>>

Lose(e) ==
    /\ duty # "HalfDuplex" /\ losses < MaxLosses
    /\ wire[e] # <<>>
    /\ wire' = [wire EXCEPT ![e] = Tail(@)]
    /\ losses' = losses + 1
    /\ UNCHANGED <<sessionVars, duty, session, messages>>

LinkStep(e) ==
    \/ Connect(e)
    \/ AcceptConnection(e)
    \/ Disconnect(e)
    \/ AnswerDisconnect(e)
    \/ SendMessage(e)
    \/ AcknowledgeReceipt(e)
    \/ Deliver(e)
    \/ Lose(e)

LinkNext == \E e \in Endpoint : LinkStep(e)

LinkSpec == LinkInit /\ [][LinkNext]_linkVars

(***************************************************************************)
(* Fairness: an application must pump the line and answer what             *)
(* ReceiveFrame left pending.  Fairness of the answers is strong, as the   *)
(* peer's traffic may fill the line at the very moments they could be      *)
(* written.                                                                *)
(***************************************************************************)
FairSpec ==
    /\ LinkSpec
    /\ \A e \in Endpoint :
          /\ WF_linkVars(Deliver(e))
          /\ SF_linkVars(AcceptConnection(e))
          /\ SF_linkVars(AnswerDisconnect(e))

-----------------------------------------------------------------------------
(***************************************************************************)
(* Properties.                                                             *)
(***************************************************************************)
(***************************************************************************)
(* Without window and V(A) the Go session delivers reliably all the same,  *)
(* if the applications keep one of the two duties: a message is never      *)
(* taken for the one eight before it, nor believed acknowledged too early.  *)
(***************************************************************************)
Service == INSTANCE HdlcService WITH
    Station <- Endpoint, Message <- Payload,
    submitted <- sent, handed <- delivered, confirmed <- acknowledged

ImplementsService == Service!Spec

\* When frames do not cross, a session that is not itself closing takes every
\* frame of its peer: its test for N(R) = V(S) refuses nothing it should take,
\* however many messages are unacknowledged.
NothingRejected ==
    \A e \in Endpoint :
        duty = "HalfDuplex" /\ wire[Peer[e]] # <<>> /\ state[e] # "AwaitingDisconnect"
            => Accepts(e, Head(wire[Peer[e]]))

\* A station that has sent DISC leaves the session: when frames do not cross, two
\* DISCs never wait for each other.
DisconnectCompletes ==
    \A e \in Endpoint :
        duty = "HalfDuplex" /\ state[e] = "AwaitingDisconnect" ~> state[e] = "Disconnected"
=============================================================================
