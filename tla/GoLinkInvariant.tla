-------------------------- MODULE GoLinkInvariant --------------------------
(***************************************************************************)
(* Why the link of GoLink is correct: an inductive invariant.              *)
(*                                                                         *)
(* The state chart of the link is the one of the C++ sessions, as the Go   *)
(* session keeps the same handshakes: no frame outlives its session.  The  *)
(* numbers are kept by the duties of the applications, by each in its own  *)
(* way: who waits for the acknowledgement has at most one message on its   *)
(* way, and every N(R) is one of two; who waits for silence knows that     *)
(* whatever arrives was written when all had been delivered.               *)
(***************************************************************************)
EXTENDS GoLink

IsClient(e) == Role(e) = "Client"

-----------------------------------------------------------------------------
(***************************************************************************)
(* The phases of the link between a client c and its server s.             *)
(***************************************************************************)
Carries(e, kinds) == \A i \in 1 .. Len(wire[e]) : wire[e][i].kind \in kinds

Lacks(e, kind) == \A i \in 1 .. Len(wire[e]) : wire[e][i].kind # kind

\* A frame of this kind is the first one; it is the last one.
Begins(e, kind) == \A i \in 1 .. Len(wire[e]) : wire[e][i].kind = kind => i = 1
Ends(e, kind) == \A i \in 1 .. Len(wire[e]) : wire[e][i].kind = kind => i = Len(wire[e])

\* What follows a frame of the one kind is of the other.
Precedes(e, kind, next) ==
    \A i \in 1 .. Len(wire[e]), j \in 1 .. Len(wire[e]) :
        i < j /\ wire[e][i].kind = kind => wire[e][j].kind = next

Fresh(e) == sent[e] = <<>> /\ delivered[e] = <<>> /\ acknowledged[e] = 0

NoneDue(e) == ~connectResponsePending[e] /\ ~disconnectResponsePending[e]

AtRest(c, s) ==
    /\ state[c] = "Disconnected" /\ state[s] = "Disconnected"
    /\ wire[c] = <<>> /\ wire[s] = <<>>
    /\ NoneDue(c) /\ NoneDue(s)

\* The SNRM is on its way, at the server or lost.
Calling(c, s) ==
    /\ state[c] = "AwaitingConnection" /\ state[s] = "Disconnected"
    /\ Len(wire[c]) <= 1 /\ Carries(c, {"SNRM"}) /\ wire[s] = <<>>
    /\ NoneDue(c) /\ ~disconnectResponsePending[s]
    /\ connectResponsePending[s] => wire[c] = <<>>
    /\ session < MaxSessions

\* The server has opened; its UA is on its way or lost.
Opened(c, s) ==
    /\ state[c] = "AwaitingConnection" /\ InSession(s)
    /\ wire[c] = <<>>
    /\ Carries(s, {"I", "RR", "UA", "DISC"}) /\ Begins(s, "UA") /\ Ends(s, "DISC")
    /\ state[s] = "Connected" => Lacks(s, "DISC")
    /\ NoneDue(c) /\ NoneDue(s)
    /\ Fresh(c)
    /\ session > 0

\* Both are in the session, and the client has not closed it.
InUse(c, s) ==
    /\ state[c] = "Connected" /\ InSession(s)
    /\ Carries(c, {"I", "RR"}) /\ Carries(s, {"I", "RR", "DISC"}) /\ Ends(s, "DISC")
    /\ state[s] = "Connected" => Lacks(s, "DISC")
    /\ ~connectResponsePending[c] /\ NoneDue(s)
    /\ disconnectResponsePending[c] => state[s] = "AwaitingDisconnect" /\ wire[s] = <<>>
    /\ session > 0

\* The client has closed; at most one side has taken the DISC of the other.
ClientClosing(c, s) ==
    /\ state[c] = "AwaitingDisconnect" /\ InSession(s)
    /\ Carries(c, {"I", "RR", "DISC"}) /\ Ends(c, "DISC")
    /\ Carries(s, {"I", "RR", "DISC"}) /\ Ends(s, "DISC")
    /\ state[s] = "Connected" => Lacks(s, "DISC")
    /\ ~connectResponsePending[c] /\ ~connectResponsePending[s]
    /\ disconnectResponsePending[c] =>
          state[s] = "AwaitingDisconnect" /\ wire[s] = <<>> /\ ~disconnectResponsePending[s]
    /\ disconnectResponsePending[s] => wire[c] = <<>>
    /\ session > 0

\* The server has answered the client's DISC.
ServerLeft(c, s) ==
    /\ state[c] = "AwaitingDisconnect" /\ state[s] = "Disconnected"
    /\ wire[c] = <<>> /\ Carries(s, {"I", "RR", "DISC", "UA"}) /\ Ends(s, "UA")
    /\ NoneDue(c) /\ NoneDue(s)

\* The client has answered the server's DISC and may already call again.
ClientLeft(c, s) ==
    /\ state[c] \in {"Disconnected", "AwaitingConnection"}
    /\ state[s] = "AwaitingDisconnect"
    /\ Carries(c, {"I", "RR", "DISC", "UA", "SNRM"})
    /\ Precedes(c, "UA", "SNRM") /\ Ends(c, "SNRM") /\ wire[s] = <<>>
    /\ state[c] = "Disconnected" => Lacks(c, "SNRM")
    /\ state[c] = "AwaitingConnection" => session < MaxSessions
    /\ NoneDue(c) /\ NoneDue(s)

Phase(c, s) ==
    \/ AtRest(c, s)
    \/ Calling(c, s)
    \/ Opened(c, s)
    \/ InUse(c, s)
    \/ ClientClosing(c, s)
    \/ ServerLeft(c, s)
    \/ ClientLeft(c, s)

Phases == \A c \in Endpoint : IsClient(c) => Phase(c, Peer[c])

-----------------------------------------------------------------------------
(***************************************************************************)
(* The numbers, whatever the duty.                                         *)
(***************************************************************************)
HistoryType ==
    /\ duty \in Duties
    /\ session \in 0 .. MaxSessions
    /\ sent \in [Endpoint -> Seq(Payload)]
    /\ delivered \in [Endpoint -> Seq(Payload)]
    /\ acknowledged \in [Endpoint -> Nat]

WireType == losses \in Nat /\ wire \in [Endpoint -> Seq(Frame)]

Addressing ==
    \A e \in Endpoint : \A i \in 1 .. Len(wire[e]) : Addressed(Peer[e], wire[e][i])

\* The peer has a prefix of what e sent and e knows of a part of it.
HistoryAt(e) ==
    /\ acknowledged[e] <= Len(delivered[Peer[e]])
    /\ Len(delivered[Peer[e]]) <= Len(sent[e])
    /\ \A i \in 1 .. Len(sent[e]) : sent[e][i] = <<session, i>>
    /\ \A i \in 1 .. Len(delivered[Peer[e]]) : delivered[Peer[e]][i] = <<session, i>>

SequencesAt(e) ==
    InSession(e) =>
        /\ sendSequence[e] = Len(sent[e]) % 8
        /\ receiveSequence[e] = Len(delivered[e]) % 8

Sequenced(f) == f.kind \in {"I", "RR"}

\* On the wire w of a station that has sent n messages of session s, of which d have
\* arrived, an I-frame carries one that has not, and its number; along the wire they
\* increase.
MessagesOn(w, d, n, s) ==
    /\ \A i \in 1 .. Len(w) :
          w[i].kind = "I" =>
              \E j \in d + 1 .. n : w[i].payload = <<s, j>> /\ w[i].ns = (j - 1) % 8
    /\ \A i \in 1 .. Len(w), j \in 1 .. Len(w) :
          i < j /\ w[i].kind = "I" /\ w[j].kind = "I" => w[i].payload[2] < w[j].payload[2]

MessagesAt(e, p) == MessagesOn(wire[e], Len(delivered[p]), Len(sent[e]), session)

(***************************************************************************)
(* AwaitAcknowledgement: one message on its way, so N(R) is what the peer  *)
(* knows or, from some frame on, what e has.                               *)
(***************************************************************************)
CountsOn(w, a, d) ==
    /\ \A i \in 1 .. Len(w) : Sequenced(w[i]) => w[i].nr \in {a % 8, d % 8}
    /\ \A i \in 1 .. Len(w), j \in 1 .. Len(w) :
          i < j /\ Sequenced(w[i]) /\ Sequenced(w[j]) /\ w[i].nr = d % 8 => w[j].nr = d % 8

AwaitAt(e, p) ==
    /\ Len(sent[e]) <= acknowledged[e] + 1
    /\ CountsOn(wire[e], acknowledged[p], Len(delivered[e]))

(***************************************************************************)
(* HalfDuplex: one wire is empty; what a session that listens has not been *)
(* given is on the other one, and every N(R) counts all that e was sent.   *)
(***************************************************************************)
Has(e, kind) == \E i \in 1 .. Len(wire[e]) : wire[e][i].kind = kind

Listens(e) ==
    \/ state[e] = "Connected"
    \/ state[e] = "AwaitingConnection" /\ Has(Peer[e], "UA")

\* A client that is in no session hears of the server's, or tells of its own end.
UaComing(e) ==
    IsClient(e) /\ ~InSession(e) /\ InSession(Peer[e]) => Has(e, "UA") \/ Has(Peer[e], "UA")

\* Of n messages, those that are not among the first d are on the wire.
CompleteOn(w, d, n) ==
    \A j \in d + 1 .. n : \E i \in 1 .. Len(w) : w[i].kind = "I" /\ w[i].payload[2] = j

\* What e has not been given of the messages of p is on its way.
Complete(e, p) == CompleteOn(wire[p], Len(delivered[e]), Len(sent[p]))

\* Every N(R) counts all n messages, of which d have arrived.
ConfirmsOn(w, d, n) == \A i \in 1 .. Len(w) : Sequenced(w[i]) => w[i].nr = n % 8 /\ d = n

ConfirmsAll(e, p) == ConfirmsOn(wire[e], Len(delivered[e]), Len(sent[p]))

HalfDuplexAt(e) ==
    /\ wire[e] = <<>> \/ wire[Peer[e]] = <<>>
    /\ UaComing(e)
    /\ Listens(e) => Complete(e, Peer[e])
    /\ ConfirmsAll(e, Peer[e])

NumbersAt(e) ==
    /\ HistoryAt(e) /\ SequencesAt(e) /\ MessagesAt(e, Peer[e])
    /\ duty = "AwaitAcknowledgement" => AwaitAt(e, Peer[e])
    /\ duty = "HalfDuplex" => HalfDuplexAt(e)

Numbers == \A e \in Endpoint : NumbersAt(e)

PhaseInv == HistoryType /\ WireType /\ Addressing /\ Phases

GoLinkInv == PhaseInv /\ Numbers
============================================================================
