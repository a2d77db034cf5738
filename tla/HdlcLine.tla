------------------------------ MODULE HdlcLine ------------------------------
(***************************************************************************)
(* The line between two sessions, a client and a server.  It may lose a    *)
(* frame (a bad FCS makes the stream decoder drop it); it neither reorders *)
(* nor duplicates, being a byte stream.  An endpoint's wire holds the      *)
(* frames it built that its peer has not yet been given.                   *)
(***************************************************************************)
EXTENDS HdlcSession, Sequences

CONSTANTS
    Peer,           \* the other endpoint of each endpoint
    MaxInFlight,    \* bound: frames in flight in one direction
    MaxLosses       \* bound: frames lost, 0 for a lossless line

ASSUME LineAssumption ==
    /\ Peer \in [Endpoint -> Endpoint]
    /\ \A e \in Endpoint :
          /\ Peer[e] # e /\ Peer[Peer[e]] = e
          /\ Endpoint = {e, Peer[e]}
          /\ Role(e) # Role(Peer[e])
          /\ LocalAddress(e) = RemoteAddress(Peer[e])
    /\ MaxInFlight \in Nat /\ MaxLosses \in Nat

VARIABLES
    wire,      \* frames in flight, by sender
    losses     \* history: frames lost

lineVars == <<wire, losses>>

LineInit ==
    /\ wire = [e \in Endpoint |-> <<>>]
    /\ losses = 0

\* The application writes the frame it was given to the line.
Send(e, f) ==
    /\ Len(wire[e]) < MaxInFlight
    /\ wire' = [wire EXCEPT ![e] = Append(@, f)]
    /\ UNCHANGED losses

\* The oldest frame of the peer leaves the line at e.
Take(e) ==
    /\ wire' = [wire EXCEPT ![Peer[e]] = Tail(@)]
    /\ UNCHANGED losses

LoseFrame(e) ==
    /\ losses < MaxLosses
    /\ wire[e] # <<>>
    /\ wire' = [wire EXCEPT ![e] = Tail(@)]
    /\ losses' = losses + 1

InSession(e) == state[e] \in {"Connected", "AwaitingDisconnect"}

IsClient(e) == Role(e) = "Client"

\* What travels are frames addressed to the peer.
LineTypeOK ==
    /\ \A e \in Endpoint : \A i \in DOMAIN wire[e] :
          wire[e][i] \in Frame /\ Addressed(Peer[e], wire[e][i])
    /\ losses \in 0 .. MaxLosses
=============================================================================
