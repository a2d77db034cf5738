------------------------------ MODULE HdlcWires ------------------------------
(***************************************************************************)
(* What the invariants of HdlcLink and of HdlcRestart say of the frames on *)
(* the wires: which kinds occur in which order, what a sequence number     *)
(* counts, and which windows are proposed.                                 *)
(***************************************************************************)
EXTENDS HdlcLine

WireType == losses \in 0 .. MaxLosses /\ wire \in [Endpoint -> Seq(Frame)]

Addressing ==
    \A e \in Endpoint : \A i \in 1 .. Len(wire[e]) : Addressed(Peer[e], wire[e][i])

Carries(e, kinds) == \A i \in 1 .. Len(wire[e]) : wire[e][i].kind \in kinds

Lacks(e, kind) == \A i \in 1 .. Len(wire[e]) : wire[e][i].kind # kind

\* A frame of this kind is the first one; it is the last one.
Begins(e, kind) == \A i \in 1 .. Len(wire[e]) : wire[e][i].kind = kind => i = 1
Ends(e, kind) == \A i \in 1 .. Len(wire[e]) : wire[e][i].kind = kind => i = Len(wire[e])

\* What follows a frame of the one kind is of the other.
Precedes(e, kind, next) ==
    \A i \in 1 .. Len(wire[e]), j \in 1 .. Len(wire[e]) :
        i < j /\ wire[e][i].kind = kind => wire[e][j].kind = next

NoneDue(e) == ~connectResponsePending[e] /\ ~disconnectResponsePending[e]

-----------------------------------------------------------------------------
Sequenced(f) == f.kind \in {"I", "RR"}

\* The count that N(R) = nr stands for when a messages are acknowledged.
CountOf(a, nr) == a + Distance(a % Modulus, nr)

-----------------------------------------------------------------------------
(***************************************************************************)
(* The windows ISO 13239 allows with three-bit sequence numbers (docs/04,  *)
(* section 7.2).  The code takes any byte: with a window of eight a full   *)
(* window looks like an empty one.                                         *)
(***************************************************************************)
NarrowWindows ==
    \A e \in Endpoint :
        LocalLimits(e).windowTransmit < Modulus /\ LocalLimits(e).windowReceive < Modulus

\* No window that a UA proposes exceeds the modulus, and none in force does.
NarrowWire(e) ==
    \A i \in 1 .. Len(wire[e]) :
        wire[e][i].kind = "UA" => wire[e][i].block.params.windowTx < Modulus

NarrowAt(e) == windowSizeTransmit[e] < Modulus /\ NarrowWire(e)

Narrow == \A e \in Endpoint : NarrowAt(e)
==============================================================================
