------------------------ MODULE HdlcRestartInvariant ------------------------
(***************************************************************************)
(* Why sessions that are abandoned do not harm those that follow, as long  *)
(* as it is the server that abandons them or the client does so once: an   *)
(* inductive invariant of HdlcRestart.                                     *)
(*                                                                         *)
(* The two ends no longer open and close a session together, so the        *)
(* numbers are those of a session that one of them may not have begun: a   *)
(* set F holds the ends of which that is so.  What such an end counts      *)
(* belongs to an earlier session, and stands for none.                     *)
(* A UA begins the server's part of a session; what lies before one on the *)
(* wire is of an earlier session, and is not taken by a client that waits  *)
(* for that UA.                                                            *)
(***************************************************************************)
EXTENDS HdlcRestart, HdlcWires

(***************************************************************************)
(* However often the server is restarted, the client is not, or it is      *)
(* restarted once and the server is not.                                   *)
(***************************************************************************)
OneEndAbandons ==
    \A most \in MaxRestarts : \A e \in Endpoint :
        IsClient(e) => most[e] = 0 \/ (most[e] = 1 /\ most[Peer[e]] = 0)

-----------------------------------------------------------------------------
(***************************************************************************)
(* The numbers of the session that the ends outside F have begun.          *)
(***************************************************************************)
Sent(e, F) == IF e \in F THEN 0 ELSE sent[e]
Known(e, F) == IF e \in F THEN 0 ELSE acknowledged[e]

Last(e) == accepted[e][Len(accepted[e])]

\* How many messages e has accepted: the number of the last one of its session.
Taken(e, F) ==
    IF e \notin F /\ accepted[e] # <<>> /\ Last(e)[1] = opened[e] THEN Last(e)[2][2] ELSE 0

\* The peer has accepted a part of what e sent and e knows of a part of that;
\* what it does not know of fits three bits.
CountsAt(e, F) ==
    /\ Known(e, F) <= Taken(Peer[e], F)
    /\ Taken(Peer[e], F) <= Sent(e, F)
    /\ Sent(e, F) <= Known(e, F) + 7
    /\ \A n \in 1 .. Taken(Peer[e], F) :
          \E i \in 1 .. Len(accepted[Peer[e]]) : accepted[Peer[e]][i][2] = <<opened[e], n>>
    /\ Taken(Peer[e], F) # 0 => Last(Peer[e])[2][1] = opened[e]

SequencesAt(e, F) ==
    InSession(e) =>
        /\ e \notin F
        /\ sendSequence[e] = Sent(e, F) % Modulus
        /\ receiveSequence[e] = Taken(e, F) % Modulus
        /\ acknowledgeSequence[e] = Known(e, F) % Modulus

\* An I-frame carries the message its N(S) numbers, and N(R) stands for a count
\* of messages that have been accepted.
FrameAt(e, f, F) ==
    /\ f.kind = "I" =>
          \E j \in Taken(Peer[e], F) + 1 .. Sent(e, F) :
              f.payload = <<opened[e], j>> /\ f.ns = (j - 1) % Modulus
    /\ Sequenced(f) => CountOf(Known(Peer[e], F), f.nr) <= Taken(e, F)

\* Along the wire messages and counts increase.
OrderAt(e, f, g, F) ==
    /\ f.kind = "I" /\ g.kind = "I" => f.payload[2] < g.payload[2]
    /\ Sequenced(f) /\ Sequenced(g) =>
          CountOf(Known(Peer[e], F), f.nr) <= CountOf(Known(Peer[e], F), g.nr)

\* No UA is behind the frame.
Live(e, i) == \A j \in 1 .. Len(wire[e]) : i < j => wire[e][j].kind # "UA"

WireAt(e, F) ==
    /\ \A i \in 1 .. Len(wire[e]) : Live(e, i) => FrameAt(e, wire[e][i], F)
    /\ \A i \in 1 .. Len(wire[e]), j \in 1 .. Len(wire[e]) :
          i < j /\ Live(e, i) => OrderAt(e, wire[e][i], wire[e][j], F)

NumbersAt(e, F) == CountsAt(e, F) /\ SequencesAt(e, F) /\ WireAt(e, F)

Numbers(F) == \A e \in Endpoint : NumbersAt(e, F)

-----------------------------------------------------------------------------
(***************************************************************************)
(* The phases of the link while the client c has not been restarted.  Each *)
(* session begins with both wires empty, whatever the server s went        *)
(* through before; a server that was restarted may have left the session   *)
(* that the client is in.                                                  *)
(***************************************************************************)

\* The client has left its last session, and may already call again.
Apart(c, s) ==
    /\ state[c] \in {"Disconnected", "AwaitingConnection"}
    /\ state[s] \in {"Disconnected", "AwaitingDisconnect"}
    /\ wire[s] = <<>>
    /\ Carries(c, {"I", "RR", "DISC", "UA", "SNRM"})
    /\ Ends(c, "SNRM") /\ Precedes(c, "UA", "SNRM")
    /\ state[c] = "Disconnected" => Lacks(c, "SNRM") /\ ~connectResponsePending[s]
    /\ connectResponsePending[s] => wire[c] = <<>>
    /\ NoneDue(c) /\ ~disconnectResponsePending[s]

\* The server has opened; its UA is on its way or lost.
Opening(c, s) ==
    /\ state[c] = "AwaitingConnection"
    /\ wire[c] = <<>>
    /\ Carries(s, {"I", "RR", "UA", "DISC"}) /\ Begins(s, "UA") /\ Ends(s, "DISC")
    /\ state[s] = "Connected" => Lacks(s, "DISC")
    /\ NoneDue(c) /\ NoneDue(s)
    /\ restarts[s] = 0 => InSession(s)

\* The client is in the session, and has not closed it.
InUse(c, s) ==
    /\ state[c] = "Connected"
    /\ Carries(c, {"I", "RR"}) /\ Carries(s, {"I", "RR", "DISC"}) /\ Ends(s, "DISC")
    /\ state[s] = "Connected" => Lacks(s, "DISC")
    /\ ~connectResponsePending[c] /\ NoneDue(s)
    /\ disconnectResponsePending[c] => state[s] # "Connected" /\ wire[s] = <<>>
    /\ restarts[s] = 0 => InSession(s)

\* The client has closed; at most one side has taken the DISC of the other.
Closing(c, s) ==
    /\ state[c] = "AwaitingDisconnect"
    /\ Carries(c, {"I", "RR", "DISC"}) /\ Ends(c, "DISC")
    /\ Carries(s, {"I", "RR", "DISC", "UA"}) /\ Ends(s, "UA")
    /\ InSession(s) => Lacks(s, "UA")
    /\ ~connectResponsePending[c] /\ ~connectResponsePending[s]
    /\ disconnectResponsePending[c] =>
          state[s] # "Connected" /\ wire[s] = <<>> /\ ~disconnectResponsePending[s]
    /\ disconnectResponsePending[s] => InSession(s) /\ wire[c] = <<>>
    /\ restarts[s] = 0 => InSession(s) \/ wire[c] = <<>>

Steady(c, s) ==
    \/ Apart(c, s)
    \/ Opening(c, s) /\ Numbers({c})
    \/ InUse(c, s) /\ Numbers({})
    \/ Closing(c, s) /\ Numbers({})

-----------------------------------------------------------------------------
(***************************************************************************)
(* The phases once the client has been restarted.  Its SNRMs and those of  *)
(* the session it abandoned may lie before one another on its wire, and    *)
(* the server may have answered both.                                      *)
(***************************************************************************)
AnewApart(c, s) ==
    /\ state[c] \in {"Disconnected", "AwaitingConnection"}
    /\ state[s] \in {"Disconnected", "AwaitingDisconnect"}
    /\ wire[s] = <<>>
    /\ Carries(c, {"I", "RR", "DISC", "UA", "SNRM"})
    /\ Precedes(c, "UA", "SNRM")
    /\ state[s] = "Disconnected" => Precedes(c, "SNRM", "SNRM")
    /\ connectResponsePending[s] => Carries(c, {"SNRM"})
    /\ NoneDue(c) /\ ~disconnectResponsePending[s]

\* Two UAs are adjacent, and what follows the last one is of the session.
Paired(s) ==
    \A i \in 1 .. Len(wire[s]), j \in 1 .. Len(wire[s]) :
        i < j /\ wire[s][i].kind = "UA" =>
            /\ wire[s][j].kind = "UA" => j = i + 1
            /\ wire[s][j].kind = "DISC" => j = Len(wire[s]) /\ state[s] = "AwaitingDisconnect"

AnewOpening(c, s) ==
    /\ state[c] \in {"Disconnected", "AwaitingConnection"}
    /\ InSession(s)
    /\ Carries(c, {"SNRM"})
    /\ Carries(s, {"I", "RR", "UA", "DISC"}) /\ Paired(s)
    /\ NoneDue(c) /\ NoneDue(s)

\* A second UA may yet come: nothing expects it.
AnewInUse(c, s) ==
    /\ state[c] = "Connected"
    /\ InSession(s)
    /\ Carries(c, {"SNRM", "I", "RR"})
    /\ Carries(s, {"I", "RR", "UA", "DISC"}) /\ Begins(s, "UA") /\ Ends(s, "DISC")
    /\ state[s] = "Connected" => Lacks(s, "DISC")
    /\ ~connectResponsePending[c] /\ NoneDue(s)
    /\ disconnectResponsePending[c] => state[s] = "AwaitingDisconnect" /\ wire[s] = <<>>

\* The client takes that second UA for the answer to its DISC.
UaOutermost(s) ==
    \A i \in 1 .. Len(wire[s]) : wire[s][i].kind = "UA" => i = 1 \/ i = Len(wire[s])

AnewClosing(c, s) ==
    /\ state[c] = "AwaitingDisconnect"
    /\ Carries(c, {"SNRM", "I", "RR", "DISC"}) /\ Ends(c, "DISC")
    /\ Carries(s, {"I", "RR", "DISC", "UA"}) /\ UaOutermost(s)
    /\ InSession(s) => Begins(s, "UA")
    /\ state[s] = "Disconnected" => wire[c] = <<>>
    /\ ~connectResponsePending[c] /\ ~connectResponsePending[s]
    /\ disconnectResponsePending[c] =>
          state[s] = "AwaitingDisconnect" /\ wire[s] = <<>> /\ ~disconnectResponsePending[s]
    /\ disconnectResponsePending[s] => InSession(s) /\ wire[c] = <<>>

\* The client is out of a session that the server may still be in.
Left(c, s) ==
    /\ state[c] \in {"Disconnected", "AwaitingConnection"}
    /\ Carries(c, {"SNRM", "I", "RR", "DISC"}) /\ Precedes(c, "DISC", "SNRM")
    /\ Carries(s, {"I", "RR", "DISC", "UA"}) /\ Ends(s, "UA")
    /\ InSession(s) => Lacks(s, "UA") /\ ~connectResponsePending[s]
    /\ state[s] = "Disconnected" => Carries(c, {"SNRM"})
    /\ NoneDue(c)
    /\ disconnectResponsePending[s] => InSession(s) /\ Carries(c, {"SNRM"})

\* The client took the answer to the DISC of its abandoned session for that to
\* its SNRM, which the server has yet to accept.
Ahead(c, s) ==
    /\ state[c] \in {"Connected", "AwaitingDisconnect"}
    /\ state[s] = "Disconnected"
    /\ wire[s] = <<>>
    /\ Carries(c, {"SNRM", "I", "RR", "DISC"}) /\ Ends(c, "DISC")
    /\ state[c] = "Connected" => Lacks(c, "DISC")
    /\ NoneDue(c) /\ ~disconnectResponsePending[s]

Anew(c, s) ==
    \/ AnewApart(c, s)
    \/ AnewOpening(c, s) /\ Numbers({c})
    \/ AnewInUse(c, s) /\ Numbers({})
    \/ AnewClosing(c, s) /\ Numbers({})
    \/ Left(c, s) /\ Numbers({})
    \/ Ahead(c, s) /\ Numbers({s})

Chart(c, s) == IF restarts[c] = 0 THEN Steady(c, s) ELSE Anew(c, s)

Charts == \A c \in Endpoint : IsClient(c) => Chart(c, Peer[c])

-----------------------------------------------------------------------------
\* A message accepted: the receiver's session, the sender's and the number in it.
Receipt == Nat \X (Nat \X (Nat \ {0}))

HistoryType ==
    /\ restarts \in [Endpoint -> Nat]
    /\ opened \in [Endpoint -> Nat]
    /\ sent \in [Endpoint -> Nat]
    /\ accepted \in [Endpoint -> Seq(Receipt)]
    /\ acknowledged \in [Endpoint -> Nat]

OpenedAt(e) ==
    /\ opened[e] <= MaxOpened
    /\ InSession(e) => opened[e] > 0
    /\ state[e] = "AwaitingConnection" => opened[e] < MaxOpened
    /\ \A i \in 1 .. Len(accepted[e]) : accepted[e][i][1] <= opened[e]

Opened == \A e \in Endpoint : OpenedAt(e)

RestartInv ==
    /\ HistoryType /\ WireType
    /\ Opened
    /\ Narrow
    /\ Charts
=============================================================================
