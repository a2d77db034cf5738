-------------------------- MODULE HdlcLinkInvariant --------------------------
(***************************************************************************)
(* Why the link of HdlcLink is correct: an inductive invariant.            *)
(*                                                                         *)
(* Its first part is a state chart of the whole link: which pairs of       *)
(* session states occur, and which kinds of frames may then be on the two  *)
(* wires.  It shows that no frame outlives its session: when a server      *)
(* answers an SNRM, both wires are empty.  The second part places every    *)
(* number in a frame or a session against the messages that were sent,     *)
(* delivered and acknowledged: these lie within seven of each other, so    *)
(* the three bits determine them.                                          *)
(***************************************************************************)
EXTENDS HdlcLink, HdlcWires

-----------------------------------------------------------------------------
(***************************************************************************)
(* The phases of the link between a client c and its server s.             *)
(***************************************************************************)
Fresh(e) == sent[e] = <<>> /\ delivered[e] = <<>> /\ acknowledged[e] = 0

AtRest(c, s) ==
    /\ state[c] = "Disconnected" /\ state[s] = "Disconnected"
    /\ wire[c] = <<>> /\ wire[s] = <<>>
    /\ NoneDue(c) /\ NoneDue(s)

\* The SNRM is on its way, at the server or lost.
Calling(c, s) ==
    /\ state[c] = "AwaitingConnection" /\ state[s] = "Disconnected"
    /\ Len(wire[c]) <= 1 /\ Carries(c, {"SNRM"}) /\ wire[s] = <<>>
    /\ NoneDue(c) /\ ~disconnectResponsePending[s]
    /\ connectResponsePending[s] => wire[c] = <<>>
    /\ session < MaxSessions

\* The server has opened; its UA is on its way or lost.
Opened(c, s) ==
    /\ state[c] = "AwaitingConnection" /\ InSession(s)
    /\ wire[c] = <<>>
    /\ Carries(s, {"I", "RR", "UA", "DISC"}) /\ Begins(s, "UA") /\ Ends(s, "DISC")
    /\ state[s] = "Connected" => Lacks(s, "DISC")
    /\ NoneDue(c) /\ NoneDue(s)
    /\ Fresh(c)
    /\ session > 0

\* Both are in the session, and the client has not closed it.
InUse(c, s) ==
    /\ state[c] = "Connected" /\ InSession(s)
    /\ Carries(c, {"I", "RR"}) /\ Carries(s, {"I", "RR", "DISC"}) /\ Ends(s, "DISC")
    /\ state[s] = "Connected" => Lacks(s, "DISC")
    /\ ~connectResponsePending[c] /\ NoneDue(s)
    /\ disconnectResponsePending[c] => state[s] = "AwaitingDisconnect" /\ wire[s] = <<>>
    /\ session > 0

\* The client has closed; at most one side has taken the DISC of the other.
ClientClosing(c, s) ==
    /\ state[c] = "AwaitingDisconnect" /\ InSession(s)
    /\ Carries(c, {"I", "RR", "DISC"}) /\ Ends(c, "DISC")
    /\ Carries(s, {"I", "RR", "DISC"}) /\ Ends(s, "DISC")
    /\ state[s] = "Connected" => Lacks(s, "DISC")
    /\ ~connectResponsePending[c] /\ ~connectResponsePending[s]
    /\ disconnectResponsePending[c] =>
          state[s] = "AwaitingDisconnect" /\ wire[s] = <<>> /\ ~disconnectResponsePending[s]
    /\ disconnectResponsePending[s] => wire[c] = <<>>
    /\ session > 0

\* The server has answered the client's DISC.
ServerLeft(c, s) ==
    /\ state[c] = "AwaitingDisconnect" /\ state[s] = "Disconnected"
    /\ wire[c] = <<>> /\ Carries(s, {"I", "RR", "DISC", "UA"}) /\ Ends(s, "UA")
    /\ NoneDue(c) /\ NoneDue(s)

\* The client has answered the server's DISC and may already call again.
ClientLeft(c, s) ==
    /\ state[c] \in {"Disconnected", "AwaitingConnection"}
    /\ state[s] = "AwaitingDisconnect"
    /\ Carries(c, {"I", "RR", "DISC", "UA", "SNRM"})
    /\ Precedes(c, "UA", "SNRM") /\ Ends(c, "SNRM") /\ wire[s] = <<>>
    /\ state[c] = "Disconnected" => Lacks(c, "SNRM")
    /\ state[c] = "AwaitingConnection" => session < MaxSessions
    /\ NoneDue(c) /\ NoneDue(s)

Phase(c, s) ==
    \/ AtRest(c, s)
    \/ Calling(c, s)
    \/ Opened(c, s)
    \/ InUse(c, s)
    \/ ClientClosing(c, s)
    \/ ServerLeft(c, s)
    \/ ClientLeft(c, s)

Phases == \A c \in Endpoint : IsClient(c) => Phase(c, Peer[c])

-----------------------------------------------------------------------------
(***************************************************************************)
(* The numbers.                                                            *)
(***************************************************************************)
HistoryType ==
    /\ session \in 0 .. MaxSessions
    /\ sent \in [Endpoint -> Seq(Payload)]
    /\ delivered \in [Endpoint -> Seq(Payload)]
    /\ acknowledged \in [Endpoint -> Nat]

\* The peer has a prefix of what e sent and e knows of a part of it; what it
\* does not know of fits three bits.
HistoryAt(e) ==
    /\ Len(sent[e]) <= MaxMessages[e]
    /\ acknowledged[e] <= Len(delivered[Peer[e]])
    /\ Len(delivered[Peer[e]]) <= Len(sent[e])
    /\ Len(sent[e]) <= acknowledged[e] + 7
    /\ \A i \in 1 .. Len(sent[e]) : sent[e][i] = <<session, i>>
    /\ \A i \in 1 .. Len(delivered[Peer[e]]) : delivered[Peer[e]][i] = <<session, i>>

SequencesAt(e) ==
    InSession(e) =>
        /\ sendSequence[e] = Len(sent[e]) % Modulus
        /\ receiveSequence[e] = Len(delivered[e]) % Modulus
        /\ acknowledgeSequence[e] = acknowledged[e] % Modulus

\* An I-frame carries the message its N(S) numbers, and N(R) stands for a count
\* of messages that have been delivered.
FrameAt(e, f) ==
    /\ f \in Frame
    /\ f.kind = "I" =>
          \E j \in Len(delivered[Peer[e]]) + 1 .. Len(sent[e]) :
              f.payload = <<session, j>> /\ f.ns = (j - 1) % Modulus
    /\ Sequenced(f) => CountOf(acknowledged[Peer[e]], f.nr) <= Len(delivered[e])

\* Along the wire messages and counts increase.
OrderAt(e, f, g) ==
    /\ f.kind = "I" /\ g.kind = "I" => f.payload[2] < g.payload[2]
    /\ Sequenced(f) /\ Sequenced(g) =>
          CountOf(acknowledged[Peer[e]], f.nr) <= CountOf(acknowledged[Peer[e]], g.nr)

WireAt(e) ==
    /\ \A i \in 1 .. Len(wire[e]) : FrameAt(e, wire[e][i])
    /\ \A i \in 1 .. Len(wire[e]), j \in 1 .. Len(wire[e]) :
          i < j => OrderAt(e, wire[e][i], wire[e][j])

NumbersAt(e) == HistoryAt(e) /\ SequencesAt(e) /\ WireAt(e)

Numbers == \A e \in Endpoint : NumbersAt(e)

\* The part that holds whatever the windows are.
PhaseInv == HistoryType /\ WireType /\ Addressing /\ Phases

LinkInv == PhaseInv /\ Numbers /\ Narrow

-----------------------------------------------------------------------------
(***************************************************************************)
(* The limits agreed on.  A client whose options are the default limits    *)
(* may send an SNRM without parameters, to which a server answers with     *)
(* none and keeps to what it had; any other client always proposes.        *)
(***************************************************************************)
ClientProposes == \A e \in Endpoint : IsClient(e) => LocalLimits(e) # DefaultLimits

Proposal(e) == Block(ProposalOf(LocalLimits(e)))

\* The same limits, from the other end.
Mirror(l) ==
    [infoTransmit |-> l.infoReceive, infoReceive |-> l.infoTransmit,
     windowTransmit |-> l.windowReceive, windowReceive |-> l.windowTransmit]

\* What the server has to answer is what the client proposed.
Proposed(c, s) ==
    /\ \A i \in 1 .. Len(wire[c]) : wire[c][i].kind = "SNRM" => wire[c][i].block = Proposal(c)
    /\ connectResponsePending[s] => pendingNegotiation[s] = Proposal(c)

\* The UA that opens the session holds what the server has adopted, and from
\* the client's adoption on both have the same.
Agreed(c, s) ==
    InSession(s) =>
        /\ \A i \in 1 .. Len(wire[s]) : wire[s][i].kind = "UA" =>
              /\ wire[s][i].block.form = "present"
              /\ ClientLimits(wire[s][i].block.params) = Mirror(negotiatedLimits[s])
        /\ InSession(c) => negotiatedLimits[c] = Mirror(negotiatedLimits[s])

\* Window test and codec obey the limits of the session; a codec limit of zero
\* would stand for a default.
InForce(e) ==
    /\ windowSizeTransmit[e] = negotiatedLimits[e].windowTransmit
    /\ InSession(e) =>
          /\ maximumInformationFieldSize[e] = negotiatedLimits[e].infoTransmit
          /\ negotiatedLimits[e].infoTransmit # 0 /\ negotiatedLimits[e].infoReceive # 0
          /\ \A i \in 1 .. Len(wire[e]) :
                wire[e][i].kind = "I" => wire[e][i].size <= negotiatedLimits[e].infoTransmit

Agreement ==
    \A e \in Endpoint :
        InForce(e) /\ (IsClient(e) => Proposed(e, Peer[e]) /\ Agreed(e, Peer[e]))

AgreementInv == PhaseInv /\ Agreement

-----------------------------------------------------------------------------
(***************************************************************************)
(* A line that loses nothing: what a session waits for is on its way, and  *)
(* so is every message that a session still listening has not been given.  *)
(***************************************************************************)
Has(e, kind) == \E i \in 1 .. Len(wire[e]) : wire[e][i].kind = kind

\* The client's SNRM, or the server's UA to it, is under way.
ConnectComing(e) ==
    state[e] = "AwaitingConnection" =>
        \/ state[Peer[e]] = "Disconnected" /\ (connectResponsePending[Peer[e]] \/ Has(e, "SNRM"))
        \/ InSession(Peer[e]) /\ Has(Peer[e], "UA")
        \/ state[Peer[e]] = "AwaitingDisconnect" /\ Has(e, "UA") /\ Has(e, "SNRM")

\* The DISC, or the peer's UA to it, is under way, or the DISCs have crossed.
AnswerComing(e) ==
    state[e] = "AwaitingDisconnect" =>
        \/ state[Peer[e]] = "AwaitingDisconnect"
        \/ state[Peer[e]] = "Connected" /\ (disconnectResponsePending[Peer[e]] \/ Has(e, "DISC"))
        \/ state[Peer[e]] \in {"Disconnected", "AwaitingConnection"} /\ Has(Peer[e], "UA")
        \/ state[Peer[e]] = "AwaitingConnection" /\ Has(e, "UA") /\ Has(e, "DISC")

\* A session takes I-frames, at once or after the UA that comes before them.
Listens(e) ==
    \/ state[e] = "Connected"
    \/ state[e] = "AwaitingConnection" /\ Has(Peer[e], "UA")

Complete(e) ==
    \A j \in Len(delivered[e]) + 1 .. Len(sent[Peer[e]]) :
        \E i \in 1 .. Len(wire[Peer[e]]) :
            wire[Peer[e]][i].kind = "I" /\ wire[Peer[e]][i].payload[2] = j

\* No client builds an SNRM that its server cannot parse.
Parsable(e) ==
    \A i \in 1 .. Len(wire[e]) : wire[e][i].kind = "SNRM" => wire[e][i].block.form # "malformed"

LosslessAt(e) ==
    /\ ConnectComing(e)
    /\ AnswerComing(e)
    /\ Listens(e) => Complete(e)
    /\ Parsable(e)

LosslessInv == LinkInv /\ \A e \in Endpoint : LosslessAt(e)
=============================================================================
