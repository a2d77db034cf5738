---------------------------- MODULE HdlcService ----------------------------
(***************************************************************************)
(* What an association of two HDLC stations promises its users: in each    *)
(* direction the messages submitted since the association was opened are   *)
(* handed over in the order of submission, each at most once, none         *)
(* invented and none skipped, and a sender is told that a message was      *)
(* delivered only after it was.                                            *)
(***************************************************************************)
EXTENDS Integers, Sequences

CONSTANTS
    Station,   \* the two ends
    Peer,      \* the other end of each
    Message

\* The constants describe two ends that face each other.
TwoEnds ==
    /\ Peer \in [Station -> Station]
    /\ \A e \in Station : Peer[e] # e /\ Peer[Peer[e]] = e

VARIABLES
    submitted,   \* messages accepted from the user of each end, in order
    handed,      \* messages handed to the user of each end, in order
    confirmed    \* how many of its messages each end knows to be delivered

serviceVars == <<submitted, handed, confirmed>>

Init ==
    /\ submitted = [e \in Station |-> <<>>]
    /\ handed = [e \in Station |-> <<>>]
    /\ confirmed = [e \in Station |-> 0]

\* A new association forgets the messages of the old one, at both ends at once.
Open ==
    /\ submitted' = [e \in Station |-> <<>>]
    /\ handed' = [e \in Station |-> <<>>]
    /\ confirmed' = [e \in Station |-> 0]

Submit(e, m) ==
    /\ submitted' = [submitted EXCEPT ![e] = Append(@, m)]
    /\ UNCHANGED <<handed, confirmed>>

\* Learn that the peer's user has at least n of e's messages.
Confirm(e, n) ==
    /\ n >= confirmed[e]
    /\ n <= Len(handed[Peer[e]])
    /\ confirmed' = [confirmed EXCEPT ![e] = n]
    /\ UNCHANGED <<submitted, handed>>

\* Hand over the next message; the frame that carries it may also confirm.
Hand(e, n) ==
    /\ Len(handed[e]) < Len(submitted[Peer[e]])
    /\ handed' = [handed EXCEPT ![e] = Append(@, submitted[Peer[e]][Len(@) + 1])]
    /\ n >= confirmed[e]
    /\ n <= Len(handed[Peer[e]])
    /\ confirmed' = [confirmed EXCEPT ![e] = n]
    /\ UNCHANGED submitted

Next ==
    \/ Open
    \/ \E e \in Station, m \in Message : Submit(e, m)
    \/ \E e \in Station : \E n \in 0 .. Len(handed[Peer[e]]) : Confirm(e, n) \/ Hand(e, n)

Spec == Init /\ [][Next]_serviceVars

\* What the users may rely on: each end is handed a prefix of what the other
\* end submitted, and nothing is confirmed that has not been handed over.
Reliable ==
    \A e \in Station :
        /\ Len(handed[e]) <= Len(submitted[Peer[e]])
        /\ \A i \in 1 .. Len(handed[e]) : handed[e][i] = submitted[Peer[e]][i]
        /\ confirmed[e] <= Len(handed[Peer[e]])

\* Its variables hold sequences of messages and counts.
ServiceTypeOK ==
    /\ submitted \in [Station -> Seq(Message)]
    /\ handed \in [Station -> Seq(Message)]
    /\ confirmed \in [Station -> Nat]
============================================================================
