------------------------- MODULE HdlcRestartProofs -------------------------
(***************************************************************************)
(* Theorems about two sessions of which one is abandoned, for every pair   *)
(* of options with windows of at most seven, any inputs of the             *)
(* applications, any number of messages, sessions and frames in flight,    *)
(* any number of lost frames, and any number of restarts of the server or  *)
(* one of the client.                                                      *)
(***************************************************************************)
EXTENDS HdlcRestartInvariant, HdlcSessionProofs

-----------------------------------------------------------------------------
(***************************************************************************)
(* The numbers are natural.                                                *)
(***************************************************************************)
LEMMA LastType ==
    ASSUME HistoryType, NEW e \in Endpoint, accepted[e] # <<>>
    PROVE  /\ Len(accepted[e]) \in 1 .. Len(accepted[e]) /\ Len(accepted[e]) \in Nat
           /\ Last(e)[1] \in Nat /\ Last(e)[2][1] \in Nat
           /\ Last(e)[2][2] \in Nat /\ Last(e)[2][2] # 0
<1>1. accepted[e] \in Seq(Receipt)
  BY DEF HistoryType
<1>2. Len(accepted[e]) \in 1 .. Len(accepted[e]) /\ Len(accepted[e]) \in Nat
  BY <1>1
<1>3. Last(e) \in Receipt
  BY <1>1, <1>2 DEF Last
<1> QED
  BY <1>2, <1>3 DEF Receipt

LEMMA CountsType ==
    ASSUME HistoryType, NEW e \in Endpoint, NEW F
    PROVE  Sent(e, F) \in Nat /\ Known(e, F) \in Nat /\ Taken(e, F) \in Nat
BY LastType DEF HistoryType, Sent, Known, Taken

-----------------------------------------------------------------------------
(***************************************************************************)
(* Wires from which the oldest frames have gone: one that was lost or      *)
(* delivered, or all of them with the input buffer.                        *)
(***************************************************************************)
Thinned(e) ==
    \E k \in 0 .. Len(wire[e]) :
        /\ Len(wire'[e]) = Len(wire[e]) - k
        /\ \A i \in 1 .. Len(wire'[e]) : wire'[e][i] = wire[e][i + k]

LEMMA SameIsThinned ==
    ASSUME WireType, NEW e \in Endpoint, wire'[e] = wire[e]
    PROVE  Thinned(e)
<1>1. Len(wire[e]) \in Nat
  BY EmptyWire
<1>2. 0 \in 0 .. Len(wire[e]) /\ Len(wire'[e]) = Len(wire[e]) - 0
      /\ \A i \in 1 .. Len(wire'[e]) : i + 0 = i
  BY <1>1
<1> QED
  BY <1>2 DEF Thinned

LEMMA ShiftIsThinned ==
    ASSUME WireType, NEW e \in Endpoint, wire[e] # <<>>,
           wire' = [wire EXCEPT ![e] = Tail(@)]
    PROVE  Thinned(e) /\ Thinned(Peer[e])
<1>1. Len(wire[e]) \in Nat /\ 1 \in 0 .. Len(wire[e]) /\ Peer[e] \in Endpoint
  BY ShiftEffect, EmptyWire, TwoRoles
<1> QED
  BY <1>1, ShiftEffect, SameIsThinned DEF Thinned

LEMMA EmptiedIsThinned ==
    ASSUME WireType, NEW e \in Endpoint, wire'[e] = <<>>
    PROVE  Thinned(e)
<1>1. Len(wire[e]) \in Nat
  BY EmptyWire
<1>2. Len(wire[e]) \in 0 .. Len(wire[e]) /\ Len(wire'[e]) = Len(wire[e]) - Len(wire[e])
      /\ \A i \in 1 .. Len(wire'[e]) : FALSE
  BY <1>1
<1> QED
  BY <1>2 DEF Thinned

\* What the phases ask of a wire, the thinned one satisfies too.
LEMMA ThinnedKeeps ==
    ASSUME WireType, WireType', NEW e \in Endpoint, Thinned(e), NEW k, NEW K, NEW n
    PROVE  /\ Carries(e, K) => Carries(e, K)'
           /\ Lacks(e, k) => Lacks(e, k)'
           /\ Begins(e, k) => Begins(e, k)'
           /\ Ends(e, k) => Ends(e, k)'
           /\ Precedes(e, k, n) => Precedes(e, k, n)'
           /\ wire[e] = <<>> => wire'[e] = <<>>
<1> DEFINE l == Len(wire[e])
           m == Len(wire'[e])
<1>1. l \in Nat /\ m \in Nat /\ (m = 0 <=> wire'[e] = <<>>) /\ (l = 0 <=> wire[e] = <<>>)
  BY EmptyWire DEF WireType
<1>2. PICK d \in 0 .. l : m = l - d /\ \A i \in 1 .. m : wire'[e][i] = wire[e][i + d]
  BY DEF Thinned
<1> HIDE DEF l, m
<1>3. \A i \in 1 .. m : i + d \in 1 .. l /\ (i + d = 1 => i = 1) /\ (i + d = l => i = m)
  BY <1>1, <1>2
<1>4. \A i \in 1 .. m, j \in 1 .. m : i < j => i + d < j + d
  BY <1>1, <1>2
<1>5. Carries(e, K) => Carries(e, K)'
  BY <1>2, <1>3 DEF Carries, l, m
<1>6. Lacks(e, k) => Lacks(e, k)'
  BY <1>2, <1>3 DEF Lacks, l, m
<1>7. Begins(e, k) => Begins(e, k)'
  BY <1>2, <1>3 DEF Begins, l, m
<1>8. Ends(e, k) => Ends(e, k)'
  BY <1>2, <1>3 DEF Ends, l, m
<1>9. Precedes(e, k, n) => Precedes(e, k, n)'
  <2> SUFFICES ASSUME Precedes(e, k, n), NEW i \in 1 .. m, NEW j \in 1 .. m,
                      i < j, wire'[e][i].kind = k
               PROVE  wire'[e][j].kind = n
    BY DEF Precedes, m
  <2>1. /\ i + d \in 1 .. l /\ j + d \in 1 .. l /\ i + d < j + d
        /\ wire'[e][i] = wire[e][i + d] /\ wire'[e][j] = wire[e][j + d]
    BY <1>2, <1>3, <1>4
  <2> QED
    BY <2>1 DEF Precedes, l
<1>10. wire[e] = <<>> => wire'[e] = <<>>
  BY <1>1, <1>2
<1> QED
  BY <1>5, <1>6, <1>7, <1>8, <1>9, <1>10

LEMMA ThinnedPairs ==
    ASSUME WireType, WireType', NEW e \in Endpoint, Thinned(e)
    PROVE  /\ Paired(e) /\ (state[e] = "AwaitingDisconnect" => state'[e] = "AwaitingDisconnect")
                => Paired(e)'
           /\ UaOutermost(e) => UaOutermost(e)'
<1> DEFINE l == Len(wire[e])
           m == Len(wire'[e])
<1>1. l \in Nat /\ m \in Nat
  BY EmptyWire DEF WireType
<1>2. PICK d \in 0 .. l : m = l - d /\ \A i \in 1 .. m : wire'[e][i] = wire[e][i + d]
  BY DEF Thinned
<1> HIDE DEF l, m
<1>3. \A i \in 1 .. m : i + d \in 1 .. l /\ (i + d = 1 => i = 1) /\ (i + d = l => i = m)
  BY <1>1, <1>2
<1>4. \A i \in 1 .. m, j \in 1 .. m :
          (i < j => i + d < j + d) /\ (j + d = i + d + 1 => j = i + 1)
  BY <1>1, <1>2
<1>5. UaOutermost(e) => UaOutermost(e)'
  BY <1>2, <1>3 DEF UaOutermost, l, m
<1>6. ASSUME Paired(e), state[e] = "AwaitingDisconnect" => state'[e] = "AwaitingDisconnect"
      PROVE  Paired(e)'
  <2> SUFFICES ASSUME NEW i \in 1 .. m, NEW j \in 1 .. m, i < j, wire'[e][i].kind = "UA"
               PROVE  /\ wire'[e][j].kind = "UA" => j = i + 1
                      /\ wire'[e][j].kind = "DISC" =>
                             j = m /\ state'[e] = "AwaitingDisconnect"
    BY DEF Paired, m
  <2>1. /\ i + d \in 1 .. l /\ j + d \in 1 .. l /\ i + d < j + d
        /\ wire[e][i + d].kind = "UA" /\ wire'[e][j] = wire[e][j + d]
    BY <1>2, <1>3, <1>4
  <2>2. /\ wire[e][j + d].kind = "UA" => j + d = i + d + 1
        /\ wire[e][j + d].kind = "DISC" => j + d = l /\ state[e] = "AwaitingDisconnect"
    BY <1>6, <2>1 DEF Paired, l
  <2> QED
    BY <1>3, <1>4, <1>6, <2>1, <2>2
<1> QED
  BY <1>5, <1>6

-----------------------------------------------------------------------------
(***************************************************************************)
(* Numbers that stay.                                                      *)
(***************************************************************************)
Joined(e, f) ==
    /\ Len(wire'[e]) = Len(wire[e]) + 1
    /\ wire'[e][Len(wire[e]) + 1] = f
    /\ \A i \in 1 .. Len(wire[e]) : wire'[e][i] = wire[e][i]

LEMMA ThinnedWire ==
    ASSUME WireType, WireType', NEW e \in Endpoint, Thinned(e), NEW F, NEW G, WireAt(e, F),
           \A g \in Frame : FrameAt(e, g, F) => FrameAt(e, g, G)',
           \A g \in Frame, h \in Frame : OrderAt(e, g, h, F) => OrderAt(e, g, h, G)'
    PROVE  WireAt(e, G)'
<1> DEFINE l == Len(wire[e])
           m == Len(wire'[e])
<1>1. l \in Nat /\ m \in Nat /\ \A i \in 1 .. l : wire[e][i] \in Frame
  BY EmptyWire DEF WireType
<1>2. PICK d \in 0 .. l : m = l - d /\ \A i \in 1 .. m : wire'[e][i] = wire[e][i + d]
  BY DEF Thinned
<1> HIDE DEF l, m
<1>3. \A i \in 1 .. m : i + d \in 1 .. l
  BY <1>1, <1>2
<1>4. \A i \in 1 .. m, j \in 1 .. m : i < j => i + d < j + d
  BY <1>1, <1>2
<1>5. ASSUME NEW i \in 1 .. m, Live(e, i)' PROVE Live(e, i + d)
  <2> SUFFICES ASSUME NEW j \in 1 .. l, i + d < j PROVE wire[e][j].kind # "UA"
    BY DEF Live, l
  <2>1. j - d \in 1 .. m /\ i < j - d /\ (j - d) + d = j
    BY <1>1, <1>2
  <2> QED
    BY <1>2, <1>5, <2>1 DEF Live, m
<1>6. ASSUME NEW i \in 1 .. m, Live(e, i)' PROVE FrameAt(e, wire[e][i], G)'
  <2>1. FrameAt(e, wire[e][i + d], F)
    BY <1>3, <1>5, <1>6 DEF WireAt, l
  <2> QED
    BY <1>1, <1>2, <1>3, <2>1
<1>7. ASSUME NEW i \in 1 .. m, NEW j \in 1 .. m, i < j, Live(e, i)'
      PROVE  OrderAt(e, wire[e][i], wire[e][j], G)'
  <2>1. OrderAt(e, wire[e][i + d], wire[e][j + d], F)
    BY <1>3, <1>4, <1>5, <1>7 DEF WireAt, l
  <2> QED
    BY <1>1, <1>2, <1>3, <2>1
<1> QED
  BY <1>6, <1>7 DEF WireAt, m

\* A frame that carries no number joins the wire.
LEMMA JoinedWire ==
    ASSUME WireType, NEW e \in Endpoint, NEW f \in Frame, ~Sequenced(f), Joined(e, f),
           NEW F, NEW G, WireAt(e, F),
           \A g \in Frame : FrameAt(e, g, F) => FrameAt(e, g, G)',
           \A g \in Frame, h \in Frame : OrderAt(e, g, h, F) => OrderAt(e, g, h, G)'
    PROVE  WireAt(e, G)'
<1> DEFINE l == Len(wire[e])
<1>1. /\ l \in Nat /\ Len(wire'[e]) = l + 1 /\ wire'[e][l + 1] = f
      /\ \A i \in 1 .. l : wire'[e][i] = wire[e][i] /\ wire[e][i] \in Frame
  BY EmptyWire DEF WireType, Joined
<1>2. \A i \in 1 .. l + 1 : i \in 1 .. l \/ i = l + 1
  BY <1>1
<1>3. 1 .. l \subseteq 1 .. l + 1
  BY <1>1
<1> HIDE DEF l
<1>4. \A i \in 1 .. l : Live(e, i)' => Live(e, i)
  BY <1>1, <1>3 DEF Live, l
<1>5. FrameAt(e, f, G)' /\ \A g : OrderAt(e, g, f, G)'
  BY DEF FrameAt, OrderAt, Sequenced
<1>6. ASSUME NEW i \in 1 .. l + 1, Live(e, i)' PROVE FrameAt(e, wire[e][i], G)'
  <2>1. CASE i \in 1 .. l
    <3>1. FrameAt(e, wire[e][i], F)
      BY <1>4, <1>6, <2>1 DEF WireAt, l
    <3> QED
      BY <1>1, <2>1, <3>1
  <2>2. CASE i = l + 1
    BY <1>1, <1>5, <2>2
  <2> QED
    BY <1>2, <2>1, <2>2
<1>7. ASSUME NEW i \in 1 .. l + 1, NEW j \in 1 .. l + 1, i < j, Live(e, i)'
      PROVE  OrderAt(e, wire[e][i], wire[e][j], G)'
  <2>1. i \in 1 .. l
    BY <1>1, <1>7
  <2>2. CASE j \in 1 .. l
    <3>1. OrderAt(e, wire[e][i], wire[e][j], F)
      BY <1>4, <1>7, <2>1, <2>2 DEF WireAt, l
    <3> QED
      BY <1>1, <2>1, <2>2, <3>1
  <2>3. CASE j = l + 1
    BY <1>1, <1>5, <2>3
  <2> QED
    BY <1>2, <2>2, <2>3
<1> QED
  BY <1>1, <1>6, <1>7 DEF WireAt

\* The counts stay, but for the session they belong to: from F, the ends that
\* have not begun it, to G.
LEMMA MovedNumbers ==
    ASSUME HistoryType, WireType, WireType', NEW F, NEW G, Numbers(F),
           \A x \in Endpoint :
               /\ Sent(x, G)' = Sent(x, F) /\ Known(x, G)' = Known(x, F)
               /\ Taken(x, G)' = Taken(x, F)
               /\ accepted'[x] = accepted[x]
               /\ opened'[x] = opened[x] \/ Sent(x, F) = 0
               /\ SequencesAt(x, G)'
               /\ Thinned(x) \/ \E f \in Frame : ~Sequenced(f) /\ Joined(x, f)
    PROVE  Numbers(G)'
<1> SUFFICES ASSUME NEW x \in Endpoint PROVE NumbersAt(x, G)'
  BY DEF Numbers
<1> DEFINE p == Peer[x]
<1>1. p \in Endpoint /\ NumbersAt(x, F)
  BY TwoRoles DEF Numbers
<1>2. /\ Sent(x, F) \in Nat /\ Taken(p, F) \in Nat
      /\ Taken(p, F) <= Sent(x, F)
  BY <1>1, CountsType DEF NumbersAt, CountsAt
<1>3. Last(p)' = Last(p)
  BY <1>1 DEF Last
<1>4. CountsAt(x, G)'
  <2>1. CountsAt(x, F)
    BY <1>1 DEF NumbersAt
  <2>2. CASE opened'[x] = opened[x]
    BY <1>1, <1>3, <2>1, <2>2 DEF CountsAt
  <2>3. CASE Sent(x, F) = 0
    <3>1. Taken(p, G)' = 0
      BY <1>1, <1>2, <2>3
    <3> QED
      BY <1>1, <2>1, <3>1 DEF CountsAt
  <2> QED
    BY <2>2, <2>3
<1>5. \A g \in Frame : FrameAt(x, g, F) => FrameAt(x, g, G)'
  <2> SUFFICES ASSUME NEW g \in Frame, FrameAt(x, g, F) PROVE FrameAt(x, g, G)'
    OBVIOUS
  <2>1. ASSUME g.kind = "I"
        PROVE  \E j \in Taken(p, G)' + 1 .. Sent(x, G)' :
                   g.payload = <<opened'[x], j>> /\ g.ns = (j - 1) % Modulus
    <3>1. PICK j \in Taken(p, F) + 1 .. Sent(x, F) :
              g.payload = <<opened[x], j>> /\ g.ns = (j - 1) % Modulus
      BY <2>1 DEF FrameAt
    <3>2. Sent(x, F) # 0
      BY <1>2, <3>1
    <3> QED
      BY <1>1, <3>1, <3>2
  <2> QED
    BY <1>1, <2>1 DEF FrameAt
<1>6. \A g \in Frame, h \in Frame : OrderAt(x, g, h, F) => OrderAt(x, g, h, G)'
  BY <1>1 DEF OrderAt
<1>7. WireAt(x, F)
  BY <1>1 DEF NumbersAt
<1>8. WireAt(x, G)'
  <2>1. CASE Thinned(x)
    BY <1>5, <1>6, <1>7, <2>1, ThinnedWire
  <2>2. ASSUME NEW f \in Frame, ~Sequenced(f), Joined(x, f) PROVE WireAt(x, G)'
    BY <1>5, <1>6, <1>7, <2>2, JoinedWire
  <2> QED
    BY <2>1, <2>2
<1> QED
  BY <1>4, <1>8 DEF NumbersAt

-----------------------------------------------------------------------------
(***************************************************************************)
(* Numbers that are sent.                                                  *)
(***************************************************************************)

\* The counts of e and of its peer lie within seven of each other.
LEMMA CountsWithin ==
    ASSUME HistoryType, NEW F, Numbers(F), NEW e \in Endpoint
    PROVE  /\ Peer[e] \in Endpoint /\ Peer[Peer[e]] = e
           /\ Sent(e, F) \in Nat /\ Known(e, F) \in Nat /\ Taken(e, F) \in Nat
           /\ Sent(Peer[e], F) \in Nat /\ Known(Peer[e], F) \in Nat /\ Taken(Peer[e], F) \in Nat
           /\ Known(Peer[e], F) <= Taken(e, F) /\ Taken(e, F) <= Sent(Peer[e], F)
           /\ Sent(Peer[e], F) <= Known(Peer[e], F) + 7
           /\ Known(e, F) <= Taken(Peer[e], F) /\ Taken(Peer[e], F) <= Sent(e, F)
           /\ Sent(e, F) <= Known(e, F) + 7
<1>1. Peer[e] \in Endpoint /\ Peer[Peer[e]] = e
  BY TwoRoles
<1>2. CountsAt(e, F) /\ CountsAt(Peer[e], F)
  BY <1>1 DEF Numbers, NumbersAt
<1> QED
  BY <1>1, <1>2, CountsType DEF CountsAt

\* What the counts of e depend on stays as it is.
LEMMA SameCounts ==
    ASSUME NEW F, NEW e \in Endpoint, CountsAt(e, F),
           Sent(e, F)' = Sent(e, F), Known(e, F)' = Known(e, F), opened'[e] = opened[e],
           Taken(Peer[e], F)' = Taken(Peer[e], F), accepted'[Peer[e]] = accepted[Peer[e]]
    PROVE  CountsAt(e, F)'
<1>1. Last(Peer[e])' = Last(Peer[e])
  BY DEF Last
<1>2. /\ Known(e, F) <= Taken(Peer[e], F) /\ Taken(Peer[e], F) <= Sent(e, F)
      /\ Sent(e, F) <= Known(e, F) + 7
      /\ Taken(Peer[e], F) # 0 => Last(Peer[e])[2][1] = opened[e]
  BY DEF CountsAt
<1>3. \A n \in 1 .. Taken(Peer[e], F) :
         \E i \in 1 .. Len(accepted[Peer[e]]) : accepted[Peer[e]][i][2] = <<opened[e], n>>
  BY DEF CountsAt
<1>4. \A n \in 1 .. Taken(Peer[e], F)' :
         \E i \in 1 .. Len(accepted'[Peer[e]]) : accepted'[Peer[e]][i][2] = <<opened'[e], n>>
  BY <1>3
<1> QED
  BY <1>1, <1>2, <1>4 DEF CountsAt

\* An I-frame or an RR with the current N(R) joins the wire of e.
LEMMA SentNumbers ==
    ASSUME HistoryType, WireType, WireType', NEW F, Numbers(F), NEW e \in Endpoint,
           InSession(e), NEW f \in Frame, Sequenced(f), Joined(e, f), wire'[Peer[e]] = wire[Peer[e]],
           f.nr = receiveSequence[e],
           f.kind = "I" => /\ f.payload = <<opened[e], Sent(e, F) + 1>>
                           /\ f.ns = sendSequence[e]
                           /\ Sent(e, F)' = Sent(e, F) + 1,
           Sent(e, F)' \in Nat, Sent(e, F) <= Sent(e, F)', Sent(e, F)' <= Known(e, F) + 7,
           Sent(Peer[e], F)' = Sent(Peer[e], F),
           \A x \in Endpoint :
               /\ Known(x, F)' = Known(x, F) /\ Taken(x, F)' = Taken(x, F)
               /\ accepted'[x] = accepted[x] /\ opened'[x] = opened[x]
               /\ SequencesAt(x, F)'
    PROVE  Numbers(F)'
<1> DEFINE p == Peer[e]
           t == Taken(e, F)
<1>1. /\ p \in Endpoint /\ Peer[p] = e
      /\ Sent(e, F) \in Nat /\ Known(e, F) \in Nat /\ t \in Nat
      /\ Sent(p, F) \in Nat /\ Known(p, F) \in Nat /\ Taken(p, F) \in Nat
      /\ Known(p, F) <= t /\ t <= Known(p, F) + 7
      /\ Taken(p, F) <= Sent(e, F)
  BY CountsWithin
<1>2. /\ NumbersAt(e, F) /\ NumbersAt(p, F)
      /\ \A x \in Endpoint : x = e \/ x = p
  BY <1>1, TwoRoles DEF Numbers
<1>3. e \notin F /\ f.nr = t % Modulus /\ (f.kind = "I" => f.ns = Sent(e, F) % Modulus)
  BY <1>2 DEF NumbersAt, SequencesAt
<1>4. CountOf(Known(p, F), f.nr) = t
  BY <1>1, <1>3, CountOfCount
<1>5. Last(e)' = Last(e) /\ Last(p)' = Last(p)
  BY <1>1 DEF Last
<1>6. CountsAt(e, F)' /\ CountsAt(p, F)'
  <2>1. CountsAt(e, F) /\ CountsAt(p, F)
    BY <1>2 DEF NumbersAt
  <2>2. CountsAt(e, F)'
    <3>1. Taken(p, F)' <= Sent(e, F)' /\ Known(e, F)' = Known(e, F) /\ opened'[e] = opened[e]
      BY <1>1
    <3>2. Sent(e, F)' <= Known(e, F)' + 7
      BY <3>1
    <3>3. Taken(p, F)' = Taken(p, F) /\ accepted'[p] = accepted[p]
      BY <1>1
    <3>4. \A n \in 1 .. Taken(p, F) :
             \E i \in 1 .. Len(accepted'[p]) : accepted'[p][i][2] = <<opened'[e], n>>
      BY <2>1, <3>1, <3>3 DEF CountsAt
    <3>5. /\ Known(e, F) <= Taken(p, F)
          /\ Taken(p, F) # 0 => Last(p)'[2][1] = opened'[e]
      BY <1>5, <2>1, <3>1 DEF CountsAt
    <3> QED
      BY <3>1, <3>2, <3>3, <3>4, <3>5 DEF CountsAt
  <2>3. CountsAt(p, F)'
    BY <1>1, <2>1, SameCounts
  <2> QED
    BY <2>2, <2>3
<1>7. WireAt(e, F) /\ WireAt(p, F)
  BY <1>2 DEF NumbersAt
<1>8. \A g \in Frame, h \in Frame : /\ OrderAt(e, g, h, F) => OrderAt(e, g, h, F)'
                                    /\ OrderAt(p, g, h, F) => OrderAt(p, g, h, F)'
  BY <1>1 DEF OrderAt
<1>9. \A g \in Frame : FrameAt(e, g, F) => FrameAt(e, g, F)'
  <2> SUFFICES ASSUME NEW g \in Frame, FrameAt(e, g, F) PROVE FrameAt(e, g, F)'
    OBVIOUS
  <2>1. Taken(p, F) + 1 .. Sent(e, F) \subseteq Taken(p, F)' + 1 .. Sent(e, F)'
    BY <1>1
  <2> QED
    BY <1>1, <2>1 DEF FrameAt
<1>10. WireAt(p, F)'
  <2>1. \A g \in Frame : FrameAt(p, g, F) => FrameAt(p, g, F)'
    BY <1>1 DEF FrameAt
  <2>2. Thinned(p)
    BY <1>1, SameIsThinned
  <2> QED
    BY <1>1, <1>7, <1>8, <2>1, <2>2, ThinnedWire
<1>11. FrameAt(e, f, F)'
  <2>1. ASSUME f.kind = "I"
        PROVE  \E j \in Taken(p, F)' + 1 .. Sent(e, F)' :
                   f.payload = <<opened'[e], j>> /\ f.ns = (j - 1) % Modulus
    <3>1. PICK j \in Taken(p, F)' + 1 .. Sent(e, F)' :
              j = Sent(e, F) + 1 /\ j - 1 = Sent(e, F)
      BY <1>1, <2>1
    <3> QED
      BY <1>3, <2>1, <3>1
  <2> QED
    BY <1>1, <1>4, <2>1 DEF FrameAt
<1>12. \A g \in Frame : FrameAt(e, g, F) => OrderAt(e, g, f, F)'
  <2> SUFFICES ASSUME NEW g \in Frame, FrameAt(e, g, F) PROVE OrderAt(e, g, f, F)'
    OBVIOUS
  <2>1. g.kind = "I" /\ f.kind = "I" => g.payload[2] < f.payload[2]
    BY <1>1 DEF FrameAt
  <2>2. Sequenced(g) => CountOf(Known(p, F), g.nr) <= CountOf(Known(p, F), f.nr)
    BY <1>4 DEF FrameAt
  <2> QED
    BY <1>1, <2>1, <2>2 DEF OrderAt
<1>13. WireAt(e, F)'
  <2> DEFINE l == Len(wire[e])
  <2>1. /\ l \in Nat /\ Len(wire'[e]) = l + 1 /\ wire'[e][l + 1] = f /\ f.kind # "UA"
        /\ \A i \in 1 .. l : wire'[e][i] = wire[e][i] /\ wire[e][i] \in Frame
    BY EmptyWire DEF WireType, Joined, Sequenced
  <2>2. \A i \in 1 .. l + 1 : i \in 1 .. l \/ i = l + 1
    BY <2>1
  <2>3. 1 .. l \subseteq 1 .. l + 1
    BY <2>1
  <2> HIDE DEF l
  <2>4. \A i \in 1 .. l : Live(e, i)' => Live(e, i)
    BY <2>1, <2>3 DEF Live, l
  <2>5. ASSUME NEW i \in 1 .. l, Live(e, i)' PROVE FrameAt(e, wire[e][i], F)
    BY <1>7, <2>4, <2>5 DEF WireAt, l
  <2>6. ASSUME NEW i \in 1 .. l + 1, Live(e, i)' PROVE FrameAt(e, wire[e][i], F)'
    BY <1>9, <1>11, <2>1, <2>2, <2>5, <2>6
  <2>7. ASSUME NEW i \in 1 .. l + 1, NEW j \in 1 .. l + 1, i < j, Live(e, i)'
        PROVE  OrderAt(e, wire[e][i], wire[e][j], F)'
    <3>1. i \in 1 .. l
      BY <2>1, <2>7
    <3>2. CASE j \in 1 .. l
      <4>1. OrderAt(e, wire[e][i], wire[e][j], F)
        BY <1>7, <2>4, <2>7, <3>1, <3>2 DEF WireAt, l
      <4> QED
        BY <1>8, <2>1, <3>1, <3>2, <4>1
    <3>3. CASE j = l + 1
      BY <1>12, <2>1, <2>5, <2>7, <3>1, <3>3
    <3> QED
      BY <2>2, <3>2, <3>3
  <2> QED
    BY <2>1, <2>6, <2>7 DEF WireAt
<1> QED
  BY <1>1, <1>2, <1>6, <1>10, <1>13 DEF Numbers, NumbersAt

-----------------------------------------------------------------------------
(***************************************************************************)
(* Numbers that arrive.                                                    *)
(***************************************************************************)

\* The effect of DeliverData, in a session none of whose frames is behind a UA.
Arrives(e) ==
    /\ InSession(e) /\ wire[Peer[e]] # <<>> /\ Lacks(Peer[e], "UA")
    /\ Sequenced(wire[Peer[e]][1])
    /\ wire' = [wire EXCEPT ![Peer[e]] = Tail(@)]
    /\ UNCHANGED <<state, opened, sent, sendSequence>>
    /\ acknowledgeSequence' = [acknowledgeSequence EXCEPT ![e] = wire[Peer[e]][1].nr]
    /\ acknowledged' =
          [acknowledged EXCEPT
              ![e] = @ + Distance(acknowledgeSequence[e], wire[Peer[e]][1].nr)]
    /\ wire[Peer[e]][1].kind # "I" => UNCHANGED <<receiveSequence, accepted>>
    /\ wire[Peer[e]][1].kind = "I" =>
          /\ wire[Peer[e]][1].ns = receiveSequence[e]
          /\ receiveSequence' = [receiveSequence EXCEPT ![e] = NextSequence(receiveSequence[e])]
          /\ accepted' =
                [accepted EXCEPT ![e] = Append(@, <<opened[e], wire[Peer[e]][1].payload>>)]

\* N(R) counts messages of e the peer has accepted, and the N(S) that e waits for
\* is that of the message after its last one, and of no other.
LEMMA HeadNumbers ==
    ASSUME HistoryType, WireType, NEW F, Numbers(F), NEW e \in Endpoint, Arrives(e)
    PROVE  LET f == wire[Peer[e]][1]
               n == CountOf(Known(e, F), f.nr)
           IN  /\ f \in Frame /\ f.nr \in SequenceNumber
               /\ e \notin F /\ Known(e, F) = acknowledged[e]
               /\ acknowledged'[e] = n /\ n \in Nat /\ n % Modulus = f.nr
               /\ Known(e, F) <= n /\ n <= Taken(Peer[e], F)
               /\ f.kind = "I" => /\ f.payload = <<opened[Peer[e]], Taken(e, F) + 1>>
                                  /\ Taken(e, F) + 1 <= Sent(Peer[e], F)
<1> DEFINE x == Peer[e]
           f == wire[x][1]
           t == Taken(e, F)
<1>1. /\ x \in Endpoint /\ Peer[x] = e
      /\ Sent(x, F) \in Nat /\ Known(x, F) \in Nat /\ t \in Nat
      /\ Known(x, F) <= t /\ Sent(x, F) <= Known(x, F) + 7
      /\ Known(e, F) \in Nat
  BY CountsWithin
<1>2. f \in Frame /\ 1 \in 1 .. Len(wire[x])
  BY <1>1 DEF WireType, Arrives
<1>3. Live(x, 1)
  BY DEF Live, Lacks, Arrives
<1>4. FrameAt(x, f, F) /\ SequencesAt(e, F)
  BY <1>1, <1>2, <1>3 DEF Numbers, NumbersAt, WireAt
<1>5. f.nr \in SequenceNumber
  BY <1>2, SequencedFrame DEF Arrives
<1>6. e \notin F /\ acknowledgeSequence[e] = Known(e, F) % Modulus /\ receiveSequence[e] = t % Modulus
  BY <1>4 DEF SequencesAt, Arrives
<1>7. Known(e, F) = acknowledged[e]
  BY <1>6 DEF Known
<1>8. CountOf(Known(e, F), f.nr) <= Taken(x, F)
  BY <1>1, <1>4 DEF FrameAt, Arrives
<1>9. /\ CountOf(Known(e, F), f.nr) \in Nat
      /\ Known(e, F) <= CountOf(Known(e, F), f.nr)
      /\ CountOf(Known(e, F), f.nr) % Modulus = f.nr
  BY <1>1, <1>5, CountOfType
<1>10. acknowledged'[e] = CountOf(Known(e, F), f.nr)
  <2>1. acknowledged'[e] = acknowledged[e] + Distance(acknowledgeSequence[e], f.nr)
    BY DEF Arrives, HistoryType
  <2> QED
    BY <1>6, <1>7, <2>1 DEF CountOf
<1>11. ASSUME f.kind = "I"
       PROVE  f.payload = <<opened[x], t + 1>> /\ t + 1 <= Sent(x, F)
  <2>1. PICK j \in t + 1 .. Sent(x, F) : f.payload = <<opened[x], j>> /\ f.ns = (j - 1) % Modulus
    BY <1>1, <1>4, <1>11 DEF FrameAt
  <2> HIDE DEF t
  <2>2. j - 1 \in Nat /\ t <= j - 1 /\ j - 1 <= t + 7
    BY <1>1, <2>1
  <2>3. t % Modulus = (j - 1) % Modulus
    BY <1>6, <1>11, <2>1 DEF Arrives
  <2>4. t = j - 1
    BY <1>1, <2>2, <2>3, SameRemainder
  <2>5. j = t + 1 /\ t + 1 <= Sent(x, F)
    BY <1>1, <2>1, <2>4
  <2> QED
    BY <2>1, <2>5
<1> QED
  BY <1>2, <1>5, <1>6, <1>7, <1>8, <1>9, <1>10, <1>11

\* What the histories become.
LEMMA ArrivalHistory ==
    ASSUME HistoryType, WireType, NEW F, Numbers(F), NEW e \in Endpoint, Arrives(e)
    PROVE  LET f == wire[Peer[e]][1]
               l == Len(accepted[e])
               n == CountOf(Known(e, F), f.nr)
           IN  /\ acknowledged' = [acknowledged EXCEPT ![e] = n]
               /\ Known(e, F)' = n /\ Known(Peer[e], F)' = Known(Peer[e], F)
               /\ accepted'[Peer[e]] = accepted[Peer[e]]
               /\ Taken(Peer[e], F)' = Taken(Peer[e], F)
               /\ f.kind # "I" => accepted'[e] = accepted[e] /\ Taken(e, F)' = Taken(e, F)
               /\ f.kind = "I" =>
                     /\ Taken(e, F)' = Taken(e, F) + 1
                     /\ Len(accepted'[e]) = l + 1
                     /\ accepted'[e][l + 1] =
                            <<opened[e], <<opened[Peer[e]], Taken(e, F) + 1>>>>
                     /\ \A i \in 1 .. l : accepted'[e][i] = accepted[e][i]
               /\ accepted' \in [Endpoint -> Seq(Receipt)]
<1> DEFINE p == Peer[e]
           f == wire[p][1]
           l == Len(accepted[e])
           n == CountOf(Known(e, F), f.nr)
           r == <<opened[e], <<opened[p], Taken(e, F) + 1>>>>
<1>1. p \in Endpoint /\ p # e /\ Peer[p] = e
  BY TwoRoles
<1>2. /\ e \notin F /\ acknowledged'[e] = n
      /\ f.kind = "I" => f.payload = <<opened[p], Taken(e, F) + 1>>
  BY HeadNumbers
<1>3. acknowledged' = [acknowledged EXCEPT ![e] = n]
  BY <1>2 DEF Arrives, HistoryType
<1>4. Known(e, F)' = n /\ Known(p, F)' = Known(p, F)
  BY <1>1, <1>2, <1>3 DEF Known, HistoryType
<1>5. f.kind = "I" => accepted' = [accepted EXCEPT ![e] = Append(@, r)]
  BY <1>2 DEF Arrives
<1>6. f.kind # "I" => accepted' = accepted
  BY DEF Arrives
<1>7. accepted'[p] = accepted[p]
  BY <1>1, <1>5, <1>6 DEF HistoryType
<1>8. Taken(p, F)' = Taken(p, F)
  BY <1>7 DEF Taken, Last, Arrives
<1>9. f.kind # "I" => accepted'[e] = accepted[e] /\ Taken(e, F)' = Taken(e, F)
  BY <1>6 DEF Taken, Last, Arrives
<1>10. r \in Receipt
  <2>1. /\ opened[e] \in Nat /\ opened[p] \in Nat
        /\ Taken(e, F) + 1 \in Nat /\ Taken(e, F) + 1 # 0
    <3>1. Taken(e, F) \in Nat
      BY CountsType
    <3> QED
      BY <1>1, <3>1 DEF HistoryType
  <2> QED
    BY <2>1 DEF Receipt
<1>11. accepted[e] \in Seq(Receipt) /\ l \in Nat
  BY DEF HistoryType
<1>12. ASSUME f.kind = "I"
       PROVE  /\ Len(accepted'[e]) = l + 1 /\ accepted'[e][l + 1] = r
              /\ \A i \in 1 .. l : accepted'[e][i] = accepted[e][i]
              /\ accepted'[e] # <<>>
  <2>1. accepted'[e] = Append(accepted[e], r)
    BY <1>5, <1>12 DEF HistoryType
  <2> HIDE DEF r
  <2> QED
    BY <1>10, <1>11, <2>1
<1>13. ASSUME f.kind = "I" PROVE Taken(e, F)' = Taken(e, F) + 1
  <2>1. Last(e)' = r /\ opened'[e] = opened[e]
    BY <1>12, <1>13 DEF Last, Arrives
  <2> QED
    BY <1>2, <1>12, <1>13, <2>1 DEF Taken
<1>14. accepted' \in [Endpoint -> Seq(Receipt)]
  <2>1. CASE f.kind = "I"
    <3>1. Append(accepted[e], r) \in Seq(Receipt)
      BY <1>10, <1>11
    <3> QED
      BY <1>5, <2>1, <3>1 DEF HistoryType
  <2> QED
    BY <1>6, <2>1 DEF HistoryType
<1> QED
  BY <1>3, <1>4, <1>7, <1>8, <1>9, <1>12, <1>13, <1>14

LEMMA ArrivedNumbers ==
    ASSUME TypeOK, HistoryType, WireType, WireType', NEW F, Numbers(F),
           NEW e \in Endpoint, Arrives(e)
    PROVE  Numbers(F)'
<1> DEFINE p == Peer[e]
           f == wire[p][1]
           n == CountOf(Known(e, F), f.nr)
           t == Taken(e, F)
           l == Len(accepted[e])
<1>1. /\ p \in Endpoint /\ p # e /\ Peer[p] = e /\ \A x \in Endpoint : x = e \/ x = p
      /\ Sent(e, F) \in Nat /\ Known(e, F) \in Nat /\ t \in Nat
      /\ Sent(p, F) \in Nat /\ Known(p, F) \in Nat /\ Taken(p, F) \in Nat
      /\ Known(p, F) <= t /\ t <= Sent(p, F) /\ Sent(p, F) <= Known(p, F) + 7
      /\ Taken(p, F) <= Sent(e, F) /\ Sent(e, F) <= Known(e, F) + 7
  BY CountsWithin, TwoRoles
<1>2. /\ f \in Frame /\ f.nr \in SequenceNumber /\ e \notin F
      /\ n \in Nat /\ n % Modulus = f.nr /\ Known(e, F) <= n /\ n <= Taken(p, F)
      /\ f.kind = "I" => f.payload = <<opened[p], t + 1>> /\ t + 1 <= Sent(p, F)
  BY HeadNumbers
<1>3. /\ Known(e, F)' = n /\ Known(p, F)' = Known(p, F)
      /\ accepted'[p] = accepted[p] /\ Taken(p, F)' = Taken(p, F)
      /\ f.kind # "I" => accepted'[e] = accepted[e] /\ Taken(e, F)' = t
      /\ f.kind = "I" => /\ Taken(e, F)' = t + 1
                         /\ Len(accepted'[e]) = l + 1
                         /\ accepted'[e][l + 1] = <<opened[e], <<opened[p], t + 1>>>>
                         /\ \A i \in 1 .. l : accepted'[e][i] = accepted[e][i]
  BY ArrivalHistory
<1>4. /\ state' = state /\ opened' = opened /\ sendSequence' = sendSequence
      /\ Sent(e, F)' = Sent(e, F) /\ Sent(p, F)' = Sent(p, F)
  BY DEF Arrives, Sent
<1>5. CountsAt(e, F) /\ CountsAt(p, F) /\ SequencesAt(e, F) /\ SequencesAt(p, F)
      /\ WireAt(e, F) /\ WireAt(p, F)
  BY <1>1 DEF Numbers, NumbersAt
<1>6. l \in Nat
  BY DEF HistoryType
<1> DEFINE T == Taken(e, F)'
<1>7. /\ T \in Nat /\ t <= T /\ T <= Sent(p, F)
      /\ f.kind = "I" => T = t + 1
      /\ f.kind # "I" => T = t
  BY <1>1, <1>2, <1>3
<1> HIDE DEF n, t, l, f, T
<1>8. CountsAt(e, F)'
  <2>1. Sent(e, F) <= n + 7
    BY <1>1, <1>2
  <2>2. Last(p)' = Last(p)
    BY <1>3 DEF Last
  <2> QED
    BY <1>2, <1>3, <1>4, <1>5, <2>1, <2>2 DEF CountsAt, p
<1>9. CountsAt(p, F)'
  <2>1. CASE f.kind # "I"
    <3>1. Last(e)' = Last(e)
      BY <1>3, <2>1 DEF Last
    <3> QED
      BY <1>1, <1>3, <1>4, <1>5, <2>1, <3>1 DEF CountsAt, t, p
  <2>2. CASE f.kind = "I"
    <3>1. Last(e)'[2][1] = opened'[p]
      BY <1>3, <1>4, <2>2 DEF Last
    <3>2. \A m \in 1 .. T :
              \E i \in 1 .. Len(accepted'[e]) : accepted'[e][i][2] = <<opened'[p], m>>
      <4> SUFFICES ASSUME NEW m \in 1 .. T
                   PROVE  \E i \in 1 .. l + 1 : accepted'[e][i][2] = <<opened'[p], m>>
        BY <1>3, <2>2
      <4>1. CASE m \in 1 .. t
        <5>1. PICK i \in 1 .. l : accepted[e][i][2] = <<opened[p], m>>
          BY <1>1, <1>5, <4>1 DEF CountsAt, t, l
        <5>2. i \in 1 .. l + 1
          BY <1>6
        <5> QED
          BY <1>3, <1>4, <2>2, <5>1, <5>2
      <4>2. CASE m = t + 1
        <5>1. l + 1 \in 1 .. l + 1
          BY <1>6
        <5> QED
          BY <1>3, <1>4, <2>2, <4>2, <5>1
      <4> QED
        BY <1>1, <1>7, <2>2, <4>1, <4>2
    <3>3. /\ Known(p, F)' <= T /\ T <= Sent(p, F)' /\ Sent(p, F)' <= Known(p, F)' + 7
          /\ Len(accepted'[e]) = l + 1
      BY <1>1, <1>3, <1>4, <1>7, <2>2
    <3> QED
      BY <1>1, <3>1, <3>2, <3>3 DEF CountsAt, T
  <2> QED
    BY <2>1, <2>2
<1>10. SequencesAt(e, F)'
  <2>1. acknowledgeSequence'[e] = f.nr
    BY DEF Arrives, TypeOK, f, p
  <2>2. receiveSequence'[e] = T % Modulus
    <3>1. receiveSequence[e] = t % Modulus
      BY <1>5 DEF SequencesAt, Arrives, t
    <3>2. CASE f.kind # "I"
      BY <1>7, <3>1, <3>2 DEF Arrives, f, p
    <3>3. CASE f.kind = "I"
      <4>1. receiveSequence'[e] = NextSequence(receiveSequence[e])
        BY <3>3 DEF Arrives, TypeOK, f, p
      <4> QED
        BY <1>1, <1>7, <3>1, <3>3, <4>1, NextRemainder
    <3> QED
      BY <3>2, <3>3
  <2> QED
    BY <1>2, <1>3, <1>4, <1>5, <2>1, <2>2 DEF SequencesAt, InSession, T
<1>11. SequencesAt(p, F)'
  <2>1. acknowledgeSequence'[p] = acknowledgeSequence[p] /\ receiveSequence'[p] = receiveSequence[p]
    BY <1>1 DEF Arrives, TypeOK
  <2> QED
    BY <1>3, <1>4, <1>5, <2>1 DEF SequencesAt, InSession
<1>12. WireAt(e, F)'
  <2>1. \A g \in Frame : FrameAt(e, g, F) => FrameAt(e, g, F)'
    <3> SUFFICES ASSUME NEW g \in Frame, FrameAt(e, g, F) PROVE FrameAt(e, g, F)'
      OBVIOUS
    <3>1. Sequenced(g) => CountOf(Known(p, F), g.nr) <= T
      <4>1. Sequenced(g) => CountOf(Known(p, F), g.nr) <= t
        BY DEF FrameAt, p, t
      <4>2. Sequenced(g) => CountOf(Known(p, F), g.nr) \in Nat
        BY <1>1, SequencedFrame, CountOfType
      <4> QED
        BY <1>1, <1>7, <4>1, <4>2
    <3> QED
      BY <1>3, <1>4, <3>1 DEF FrameAt, T, p
  <2>2. \A g \in Frame, h \in Frame : OrderAt(e, g, h, F) => OrderAt(e, g, h, F)'
    BY <1>3 DEF OrderAt, p
  <2>3. Thinned(e)
    BY <1>1, ShiftIsThinned DEF Arrives, p
  <2> QED
    BY <1>5, <2>1, <2>2, <2>3, ThinnedWire
<1>13. WireAt(p, F)'
  <2> DEFINE L == Len(wire[p])
             M == Len(wire'[p])
  <2>1. /\ L \in Nat /\ L >= 1 /\ M = L - 1
        /\ \A i \in 1 .. M : wire'[p][i] = wire[p][i + 1]
    BY <1>1, ShiftEffect, EmptyWire DEF Arrives, p
  <2>2. \A i \in 1 .. L : wire[p][i] \in Frame /\ Live(p, i)
    <3>1. wire[p] \in Seq(Frame) /\ Lacks(p, "UA")
      BY <1>1 DEF Arrives, WireType, p
    <3> QED
      BY <3>1 DEF Lacks, Live
  <2>3. \A i \in 1 .. M : i + 1 \in 1 .. L /\ 1 < i + 1
    BY <2>1
  <2>4. 1 \in 1 .. L
    BY <2>1
  <2>5. \A i \in 1 .. M : /\ wire[p][i + 1] \in Frame
                          /\ FrameAt(p, wire[p][i + 1], F) /\ OrderAt(p, f, wire[p][i + 1], F)
    BY <1>5, <2>2, <2>3, <2>4 DEF WireAt, f
  <2>6. \A g \in Frame : Sequenced(g) /\ OrderAt(p, f, g, F) =>
            CountOf(n, g.nr) = CountOf(Known(e, F), g.nr)
    <3> SUFFICES ASSUME NEW g \in Frame, Sequenced(g), OrderAt(p, f, g, F)
                 PROVE  CountOf(n, g.nr) = CountOf(Known(e, F), g.nr)
      OBVIOUS
    <3>1. n <= CountOf(Known(e, F), g.nr)
      BY <1>1 DEF OrderAt, Arrives, f, n, p
    <3> QED
      BY <1>1, <1>2, <3>1, SequencedFrame, CountOfStable
  <2>7. \A g \in Frame : FrameAt(p, g, F) /\ OrderAt(p, f, g, F) => FrameAt(p, g, F)'
    <3> SUFFICES ASSUME NEW g \in Frame, FrameAt(p, g, F), OrderAt(p, f, g, F)
                 PROVE  FrameAt(p, g, F)'
      OBVIOUS
    <3>1. Sequenced(g) => CountOf(n, g.nr) <= Taken(p, F)
      BY <1>1, <2>6 DEF FrameAt
    <3>2. ASSUME g.kind = "I"
          PROVE  \E j \in T + 1 .. Sent(p, F) :
                     g.payload = <<opened[p], j>> /\ g.ns = (j - 1) % Modulus
      <4>1. PICK j \in t + 1 .. Sent(p, F) :
                g.payload = <<opened[p], j>> /\ g.ns = (j - 1) % Modulus
        BY <1>1, <3>2 DEF FrameAt, t
      <4>2. f.kind = "I" => t + 1 < j
        BY <1>2, <3>2, <4>1 DEF OrderAt
      <4>3. j \in T + 1 .. Sent(p, F)
        BY <1>1, <1>7, <4>1, <4>2
      <4> QED
        BY <4>1, <4>3
    <3> QED
      BY <1>1, <1>3, <1>4, <3>1, <3>2 DEF FrameAt, T
  <2>8. \A g \in Frame, h \in Frame :
            OrderAt(p, f, g, F) /\ OrderAt(p, f, h, F) /\ OrderAt(p, g, h, F)
                => OrderAt(p, g, h, F)'
    <3> SUFFICES ASSUME NEW g \in Frame, NEW h \in Frame,
                        OrderAt(p, f, g, F), OrderAt(p, f, h, F), OrderAt(p, g, h, F)
                 PROVE  OrderAt(p, g, h, F)'
      OBVIOUS
    <3>1. Sequenced(g) /\ Sequenced(h) => CountOf(n, g.nr) <= CountOf(n, h.nr)
      BY <1>1, <2>6 DEF OrderAt
    <3> QED
      BY <1>1, <1>3, <3>1 DEF OrderAt
  <2> HIDE DEF L, M
  <2>9. ASSUME NEW i \in 1 .. M PROVE FrameAt(p, wire[p][i], F)'
    BY <2>1, <2>5, <2>7
  <2>10. ASSUME NEW i \in 1 .. M, NEW j \in 1 .. M, i < j
         PROVE  OrderAt(p, wire[p][i], wire[p][j], F)'
    <3>1. i + 1 < j + 1
      BY <2>1, <2>10
    <3>2. OrderAt(p, wire[p][i + 1], wire[p][j + 1], F)
      BY <1>5, <2>2, <2>3, <3>1 DEF WireAt, L
    <3> QED
      BY <2>1, <2>5, <2>8, <3>2
  <2> QED
    BY <2>9, <2>10 DEF WireAt, M
<1> QED
  BY <1>1, <1>8, <1>9, <1>10, <1>11, <1>12, <1>13 DEF Numbers, NumbersAt

-----------------------------------------------------------------------------
(***************************************************************************)
(* Numbers that begin.                                                     *)
(***************************************************************************)

\* A session that e opens has no number yet.
LEMMA OpenedCounts ==
    ASSUME HistoryType, Opened, NEW e \in Endpoint, opened'[e] = opened[e] + 1,
           sent'[e] = 0, acknowledged'[e] = 0, accepted'[e] = accepted[e], NEW F
    PROVE  Sent(e, F)' = 0 /\ Known(e, F)' = 0 /\ Taken(e, F)' = 0
<1>1. opened[e] \in Nat /\ \A i \in 1 .. Len(accepted[e]) : accepted[e][i][1] <= opened[e]
  BY DEF HistoryType, Opened, OpenedAt
<1>2. accepted[e] # <<>> => Last(e)' = Last(e) /\ Last(e)[1] \in Nat /\ Last(e)[1] <= opened[e]
  BY <1>1, LastType DEF Last
<1>3. accepted'[e] # <<>> => Last(e)'[1] # opened'[e]
  BY <1>1, <1>2
<1> QED
  BY <1>3 DEF Sent, Known, Taken

\* Neither end has a number, and what is on the wires is not of the session.
LEMMA ScratchNumbers ==
    ASSUME NEW F,
           \A x \in Endpoint :
               /\ Sent(x, F)' = 0 /\ Known(x, F)' = 0 /\ Taken(x, F)' = 0
               /\ InSession(x)' => /\ x \notin F
                                   /\ sendSequence'[x] = 0 /\ receiveSequence'[x] = 0
                                   /\ acknowledgeSequence'[x] = 0
               /\ \A i \in 1 .. Len(wire'[x]) : Live(x, i)' => ~Sequenced(wire'[x][i])
    PROVE  Numbers(F)'
<1> SUFFICES ASSUME NEW x \in Endpoint PROVE NumbersAt(x, F)'
  BY DEF Numbers
<1>1. Peer[x] \in Endpoint
  BY TwoRoles
<1>2. CountsAt(x, F)'
  BY <1>1 DEF CountsAt
<1>3. SequencesAt(x, F)'
  BY <1>1 DEF SequencesAt, InSession, Modulus
<1>4. WireAt(x, F)'
  BY <1>1 DEF WireAt, FrameAt, OrderAt, Sequenced
<1> QED
  BY <1>2, <1>3, <1>4 DEF NumbersAt

\* e begins the session that its peer is in.
LEMMA BegunNumbers ==
    ASSUME HistoryType, WireType, WireType', Opened, NEW e \in Endpoint, Numbers({e}),
           opened'[e] = opened[e] + 1, sent'[e] = 0, acknowledged'[e] = 0, accepted' = accepted,
           sendSequence'[e] = 0, receiveSequence'[e] = 0, acknowledgeSequence'[e] = 0,
           opened'[Peer[e]] = opened[Peer[e]], sent'[Peer[e]] = sent[Peer[e]],
           acknowledged'[Peer[e]] = acknowledged[Peer[e]],
           InSession(Peer[e])' => /\ InSession(Peer[e])
                                  /\ sendSequence'[Peer[e]] = sendSequence[Peer[e]]
                                  /\ receiveSequence'[Peer[e]] = receiveSequence[Peer[e]]
                                  /\ acknowledgeSequence'[Peer[e]] = acknowledgeSequence[Peer[e]],
           \A x \in Endpoint : Thinned(x) \/ \E f \in Frame : ~Sequenced(f) /\ Joined(x, f)
    PROVE  Numbers({})'
<1> DEFINE p == Peer[e]
<1>1. p \in Endpoint /\ p # e /\ \A x \in Endpoint : x = e \/ x = p
  BY TwoRoles
<1>2. /\ Sent(e, {})' = 0 /\ Known(e, {})' = 0 /\ Taken(e, {})' = 0
      /\ Sent(e, {e}) = 0 /\ Known(e, {e}) = 0 /\ Taken(e, {e}) = 0
  <2>1. accepted'[e] = accepted[e] /\ e \in {e}
    OBVIOUS
  <2>2. Sent(e, {})' = 0 /\ Known(e, {})' = 0 /\ Taken(e, {})' = 0
    BY <2>1, OpenedCounts
  <2> QED
    BY <2>1, <2>2 DEF Sent, Known, Taken
<1>3. /\ Sent(p, {})' = Sent(p, {e}) /\ Known(p, {})' = Known(p, {e})
      /\ Taken(p, {})' = Taken(p, {e})
  BY <1>1 DEF Sent, Known, Taken, Last
<1>4. SequencesAt(e, {})'
  BY <1>2 DEF SequencesAt, Modulus
<1>5. SequencesAt(p, {})'
  <2>1. SequencesAt(p, {e})
    BY <1>1 DEF Numbers, NumbersAt
  <2> QED
    BY <1>3, <2>1 DEF SequencesAt
<1>6. ASSUME NEW x \in Endpoint
      PROVE  /\ Sent(x, {})' = Sent(x, {e}) /\ Known(x, {})' = Known(x, {e})
             /\ Taken(x, {})' = Taken(x, {e})
             /\ accepted'[x] = accepted[x]
             /\ opened'[x] = opened[x] \/ Sent(x, {e}) = 0
             /\ SequencesAt(x, {})'
             /\ Thinned(x) \/ \E f \in Frame : ~Sequenced(f) /\ Joined(x, f)
  BY <1>1, <1>2, <1>3, <1>4, <1>5
<1> QED
  BY <1>6, MovedNumbers

\* A step without history in which a session at most ends.
NumbersKept == \A F : Numbers(F) => Numbers(F)'

LEMMA PlainNumbers ==
    ASSUME HistoryType, WireType, WireType', UNCHANGED history,
           \A x \in Endpoint :
               /\ InSession(x)' => /\ InSession(x)
                                   /\ sendSequence'[x] = sendSequence[x]
                                   /\ receiveSequence'[x] = receiveSequence[x]
                                   /\ acknowledgeSequence'[x] = acknowledgeSequence[x]
               /\ Thinned(x) \/ \E f \in Frame : ~Sequenced(f) /\ Joined(x, f)
    PROVE  NumbersKept
<1> SUFFICES ASSUME NEW F, Numbers(F) PROVE Numbers(F)'
  BY DEF NumbersKept
<1>1. ASSUME NEW x \in Endpoint
      PROVE  /\ Sent(x, F)' = Sent(x, F) /\ Known(x, F)' = Known(x, F)
             /\ Taken(x, F)' = Taken(x, F)
             /\ accepted'[x] = accepted[x] /\ opened'[x] = opened[x]
  BY DEF history, Sent, Known, Taken, Last
<1>2. ASSUME NEW x \in Endpoint PROVE SequencesAt(x, F)'
  <2>1. SequencesAt(x, F)
    BY DEF Numbers, NumbersAt
  <2> QED
    BY <1>1, <2>1 DEF SequencesAt
<1> QED
  BY <1>1, <1>2, MovedNumbers

\* What is sent is a message of the bounded set.
LEMMA MessageInBounds ==
    ASSUME HistoryType, Opened, NEW e \in Endpoint, InSession(e), sent[e] < MaxMessages[e]
    PROVE  <<opened[e], sent[e] + 1>> \in Payload
<1>1. /\ opened[e] \in Nat /\ opened[e] <= MaxOpened /\ opened[e] > 0
      /\ sent[e] \in Nat
  BY DEF HistoryType, Opened, OpenedAt
<1>2. opened[e] \in 1 .. MaxOpened /\ sent[e] + 1 \in 1 .. MaxMessages[e]
  BY <1>1, RestartAssumption
<1> QED
  BY <1>2, RestartAssumption

LEMMA SendJoins ==
    ASSUME WireType, NEW e \in Endpoint, NEW f \in Frame, Send(e, f)
    PROVE  Joined(e, f) /\ WireType' /\ wire'[Peer[e]] = wire[Peer[e]] /\ Thinned(Peer[e])
<1>1. Peer[e] \in Endpoint
  BY TwoRoles
<1> QED
  BY <1>1, SendEffect, SameIsThinned DEF Joined

LEMMA ReceiptNumbers ==
    ASSUME TypeOK, HistoryType, WireType, NEW e \in Endpoint, AcknowledgeReceipt(e)
    PROVE  NumbersKept
<1> DEFINE f == ReceiveReadyFrame(e)
<1> SUFFICES ASSUME NEW F, Numbers(F) PROVE Numbers(F)'
  BY DEF NumbersKept
<1>1. BuildReceiveReadyFrame(e) /\ Send(e, f) /\ UNCHANGED history
  BY DEF AcknowledgeReceipt
<1>2. f \in Frame /\ f.kind = "RR" /\ f.nr = receiveSequence[e]
  BY ReceiveReadyType
<1> HIDE DEF f
<1>3. state[e] = "Connected" /\ UNCHANGED <<state, sequences, history>>
  BY <1>1 DEF BuildReceiveReadyFrame, sessionVars
<1>4. Joined(e, f) /\ WireType' /\ wire'[Peer[e]] = wire[Peer[e]]
  BY <1>1, <1>2, SendJoins
<1>5. ASSUME NEW x \in Endpoint
      PROVE  /\ Sent(x, F)' = Sent(x, F) /\ Known(x, F)' = Known(x, F)
             /\ Taken(x, F)' = Taken(x, F)
             /\ accepted'[x] = accepted[x] /\ opened'[x] = opened[x]
             /\ SequencesAt(x, F)'
  <2>1. /\ Sent(x, F)' = Sent(x, F) /\ Known(x, F)' = Known(x, F)
        /\ Taken(x, F)' = Taken(x, F)
        /\ accepted'[x] = accepted[x] /\ opened'[x] = opened[x]
    BY <1>3 DEF history, Sent, Known, Taken, Last
  <2>2. SequencesAt(x, F)
    BY DEF Numbers, NumbersAt
  <2> QED
    BY <1>3, <2>1, <2>2 DEF SequencesAt, InSession, sequences
<1>6. Peer[e] \in Endpoint /\ Sent(e, F) \in Nat /\ Sent(e, F) <= Known(e, F) + 7
  BY CountsWithin
<1>7. Sent(e, F)' = Sent(e, F) /\ Sent(Peer[e], F)' = Sent(Peer[e], F)
  BY <1>5, <1>6
<1>8. InSession(e) /\ Sequenced(f) /\ f.kind # "I"
  BY <1>2, <1>3 DEF InSession, Sequenced
<1>9. Sent(e, F)' \in Nat /\ Sent(e, F) <= Sent(e, F)' /\ Sent(e, F)' <= Known(e, F) + 7
  BY <1>6, <1>7
<1> QED
  BY <1>2, <1>4, <1>5, <1>7, <1>8, <1>9, SentNumbers

LEMMA MessageNumbers ==
    ASSUME TypeOK, HistoryType, WireType, Narrow, Opened, NEW e \in Endpoint, SendMessage(e)
    PROVE  NumbersKept
<1> DEFINE m == <<opened[e], sent[e] + 1>>
           p == Peer[e]
<1> SUFFICES ASSUME NEW F, Numbers(F) PROVE Numbers(F)'
  BY DEF NumbersKept
<1>1. PICK size \in InfoSizes : BuildInformationFrame(e, size) /\ Send(e, IFrame(e, size, m))
  BY DEF SendMessage
<1>2. /\ state[e] = "Connected" /\ CanSendInformationFrame(e)
      /\ sendSequence' = [sendSequence EXCEPT ![e] = NextSequence(sendSequence[e])]
      /\ UNCHANGED <<state, receiveSequence, acknowledgeSequence>>
  BY <1>1 DEF BuildInformationFrame
<1>3. /\ sent' = [sent EXCEPT ![e] = @ + 1] /\ sent[e] < MaxMessages[e]
      /\ UNCHANGED <<opened, accepted, acknowledged>>
  BY DEF SendMessage
<1>4. InSession(e)
  BY <1>2 DEF InSession
<1>5. m \in Payload
  BY <1>3, <1>4, MessageInBounds
<1> DEFINE f == IFrame(e, size, m)
<1>6. /\ f \in Frame /\ f.kind = "I" /\ f.ns = sendSequence[e] /\ f.nr = receiveSequence[e]
      /\ f.payload = m
  BY <1>5, IFrameType
<1>7. Send(e, f)
  BY <1>1
<1> HIDE DEF f
<1>8. Joined(e, f) /\ WireType' /\ wire'[p] = wire[p] /\ Sequenced(f)
  BY <1>6, <1>7, SendJoins DEF Sequenced
<1>9. /\ p \in Endpoint /\ p # e /\ \A x \in Endpoint : x = e \/ x = p
      /\ Sent(e, F) \in Nat /\ Known(e, F) \in Nat
      /\ Known(e, F) <= Taken(p, F) /\ Taken(p, F) <= Sent(e, F) /\ Taken(p, F) \in Nat
      /\ Sent(e, F) <= Known(e, F) + 7
  BY CountsWithin, TwoRoles
<1>10. SequencesAt(e, F) /\ SequencesAt(p, F)
  BY <1>9 DEF Numbers, NumbersAt
<1>11. /\ e \notin F /\ sendSequence[e] = Sent(e, F) % Modulus
       /\ acknowledgeSequence[e] = Known(e, F) % Modulus
  BY <1>4, <1>10 DEF SequencesAt
<1>12. Sent(e, F) = sent[e] /\ Sent(e, F)' = Sent(e, F) + 1 /\ Sent(p, F)' = Sent(p, F)
  BY <1>3, <1>9, <1>11 DEF Sent, HistoryType
<1>13. ASSUME NEW x \in Endpoint
       PROVE  /\ Known(x, F)' = Known(x, F) /\ Taken(x, F)' = Taken(x, F)
              /\ accepted'[x] = accepted[x] /\ opened'[x] = opened[x]
  BY <1>3 DEF Known, Taken, Last
<1>14. Sent(e, F) + 1 <= Known(e, F) + 7
  <2>1. Outstanding(e) = Sent(e, F) - Known(e, F)
    BY <1>9, <1>11, DistanceOfCounts DEF Outstanding
  <2>2. windowSizeTransmit[e] \in Nat /\ windowSizeTransmit[e] < 8
    BY DEF Narrow, NarrowAt, Modulus, TypeOK
  <2>3. Sent(e, F) - Known(e, F) < windowSizeTransmit[e]
    BY <1>2, <2>1 DEF CanSendInformationFrame
  <2> QED
    BY <1>9, <2>2, <2>3
<1>15. SequencesAt(e, F)'
  <2>1. sendSequence'[e] = (Sent(e, F) + 1) % Modulus
    <3>1. sendSequence'[e] = NextSequence(sendSequence[e])
      BY <1>2 DEF TypeOK
    <3> QED
      BY <1>9, <1>11, <3>1, NextRemainder
  <2> QED
    BY <1>2, <1>10, <1>12, <1>13, <2>1 DEF SequencesAt, InSession
<1>16. SequencesAt(p, F)'
  <2>1. sendSequence'[p] = sendSequence[p]
    BY <1>2, <1>9 DEF TypeOK
  <2> QED
    BY <1>2, <1>9, <1>10, <1>12, <1>13, <2>1 DEF SequencesAt, InSession
<1>17. Sent(e, F)' \in Nat /\ Sent(e, F) <= Sent(e, F)' /\ Sent(e, F)' <= Known(e, F) + 7
  BY <1>9, <1>12, <1>14
<1>18. f.payload = <<opened[e], Sent(e, F) + 1>>
  BY <1>6, <1>12
<1> HIDE DEF p, m
<1>19. \A x \in Endpoint : SequencesAt(x, F)'
  BY <1>9, <1>15, <1>16
<1>20. Sent(Peer[e], F)' = Sent(Peer[e], F) /\ wire'[Peer[e]] = wire[Peer[e]]
  BY <1>8, <1>12 DEF p
<1> QED
  BY <1>4, <1>6, <1>8, <1>12, <1>13, <1>17, <1>18, <1>19, <1>20, SentNumbers

-----------------------------------------------------------------------------
(***************************************************************************)
(* The state chart.  One lemma per action, for the client not restarted    *)
(* and for the client restarted.                                           *)
(***************************************************************************)

\* What the phases say of the wire of e remains true.
Kept(e) ==
    /\ \A K : Carries(e, K) => Carries(e, K)'
    /\ \A k : Lacks(e, k) => Lacks(e, k)'
    /\ \A k : Begins(e, k) => Begins(e, k)'
    /\ \A k : Ends(e, k) => Ends(e, k)'
    /\ \A k, n : Precedes(e, k, n) => Precedes(e, k, n)'
    /\ wire[e] = <<>> => wire'[e] = <<>>

Flags(e) == <<state[e], connectResponsePending[e], disconnectResponsePending[e], restarts[e]>>

LEMMA ThinnedIsKept ==
    ASSUME WireType, WireType', NEW e \in Endpoint, Thinned(e)
    PROVE  Kept(e)
BY ThinnedKeeps DEF Kept

LEMMA ThinnedSteady ==
    ASSUME NEW c \in Endpoint, Kept(c), Kept(Peer[c]), NumbersKept, Steady(c, Peer[c]),
           UNCHANGED <<Flags(c), Flags(Peer[c])>>
    PROVE  Steady(c, Peer[c])'
<1> DEFINE s == Peer[c]
<1>1. /\ state'[c] = state[c] /\ state'[s] = state[s]
      /\ connectResponsePending'[c] = connectResponsePending[c]
      /\ connectResponsePending'[s] = connectResponsePending[s]
      /\ disconnectResponsePending'[c] = disconnectResponsePending[c]
      /\ disconnectResponsePending'[s] = disconnectResponsePending[s]
      /\ restarts'[s] = restarts[s]
  BY DEF Flags
<1>2. CASE Apart(c, s)
  <2>1. /\ wire'[s] = <<>> /\ Carries(c, {"I", "RR", "DISC", "UA", "SNRM"})'
        /\ Ends(c, "SNRM")' /\ Precedes(c, "UA", "SNRM")'
        /\ Lacks(c, "SNRM") => Lacks(c, "SNRM")'
        /\ wire[c] = <<>> => wire'[c] = <<>>
    BY <1>2 DEF Apart, Kept
  <2>2. Apart(c, s)'
    BY <1>1, <1>2, <2>1 DEF Apart, NoneDue
  <2> QED
    BY <2>2 DEF Steady
<1>3. CASE Opening(c, s) /\ Numbers({c})
  <2>1. /\ wire'[c] = <<>> /\ Carries(s, {"I", "RR", "UA", "DISC"})'
        /\ Begins(s, "UA")' /\ Ends(s, "DISC")'
        /\ Lacks(s, "DISC") => Lacks(s, "DISC")'
    BY <1>3 DEF Opening, Kept
  <2>2. Opening(c, s)'
    BY <1>1, <1>3, <2>1 DEF Opening, NoneDue, InSession
  <2> QED
    BY <1>3, <2>2 DEF Steady, NumbersKept
<1>4. CASE InUse(c, s) /\ Numbers({})
  <2>1. /\ Carries(c, {"I", "RR"})' /\ Carries(s, {"I", "RR", "DISC"})' /\ Ends(s, "DISC")'
        /\ Lacks(s, "DISC") => Lacks(s, "DISC")'
        /\ wire[s] = <<>> => wire'[s] = <<>>
    BY <1>4 DEF InUse, Kept
  <2>2. InUse(c, s)'
    BY <1>1, <1>4, <2>1 DEF InUse, NoneDue, InSession
  <2> QED
    BY <1>4, <2>2 DEF Steady, NumbersKept
<1>5. CASE Closing(c, s) /\ Numbers({})
  <2>1. /\ Carries(c, {"I", "RR", "DISC"})' /\ Ends(c, "DISC")'
        /\ Carries(s, {"I", "RR", "DISC", "UA"})' /\ Ends(s, "UA")'
        /\ Lacks(s, "UA") => Lacks(s, "UA")'
        /\ wire[s] = <<>> => wire'[s] = <<>>
        /\ wire[c] = <<>> => wire'[c] = <<>>
    BY <1>5 DEF Closing, Kept
  <2>2. Closing(c, s)'
    BY <1>1, <1>5, <2>1 DEF Closing, InSession
  <2> QED
    BY <1>5, <2>2 DEF Steady, NumbersKept
<1> QED
  BY <1>2, <1>3, <1>4, <1>5 DEF Steady

LEMMA ThinnedAnew ==
    ASSUME WireType, WireType', NEW c \in Endpoint, Thinned(c), Thinned(Peer[c]), NumbersKept,
           Anew(c, Peer[c]), UNCHANGED <<Flags(c), Flags(Peer[c])>>
    PROVE  Anew(c, Peer[c])'
<1> DEFINE s == Peer[c]
<1>1. /\ state'[c] = state[c] /\ state'[s] = state[s]
      /\ connectResponsePending'[c] = connectResponsePending[c]
      /\ connectResponsePending'[s] = connectResponsePending[s]
      /\ disconnectResponsePending'[c] = disconnectResponsePending[c]
      /\ disconnectResponsePending'[s] = disconnectResponsePending[s]
  BY DEF Flags
<1>2. Kept(c) /\ Kept(s) /\ s \in Endpoint
  BY ThinnedIsKept, TwoRoles
<1>3. CASE AnewApart(c, s)
  <2>1. /\ wire'[s] = <<>> /\ Carries(c, {"I", "RR", "DISC", "UA", "SNRM"})'
        /\ Precedes(c, "UA", "SNRM")'
        /\ Precedes(c, "SNRM", "SNRM") => Precedes(c, "SNRM", "SNRM")'
        /\ Carries(c, {"SNRM"}) => Carries(c, {"SNRM"})'
    BY <1>2, <1>3 DEF AnewApart, Kept
  <2>2. AnewApart(c, s)'
    BY <1>1, <1>3, <2>1 DEF AnewApart, NoneDue
  <2> QED
    BY <2>2 DEF Anew
<1>4. CASE AnewOpening(c, s) /\ Numbers({c})
  <2>1. Carries(c, {"SNRM"})' /\ Carries(s, {"I", "RR", "UA", "DISC"})'
    BY <1>2, <1>4 DEF AnewOpening, Kept
  <2>2. Paired(s)'
    BY <1>1, <1>2, <1>4, ThinnedPairs DEF AnewOpening
  <2>3. AnewOpening(c, s)'
    BY <1>1, <1>4, <2>1, <2>2 DEF AnewOpening, NoneDue, InSession
  <2> QED
    BY <1>4, <2>3 DEF Anew, NumbersKept
<1>5. CASE AnewInUse(c, s) /\ Numbers({})
  <2>1. /\ Carries(c, {"SNRM", "I", "RR"})' /\ Carries(s, {"I", "RR", "UA", "DISC"})'
        /\ Begins(s, "UA")' /\ Ends(s, "DISC")'
        /\ Lacks(s, "DISC") => Lacks(s, "DISC")'
        /\ wire[s] = <<>> => wire'[s] = <<>>
    BY <1>2, <1>5 DEF AnewInUse, Kept
  <2>2. AnewInUse(c, s)'
    BY <1>1, <1>5, <2>1 DEF AnewInUse, NoneDue, InSession
  <2> QED
    BY <1>5, <2>2 DEF Anew, NumbersKept
<1>6. CASE AnewClosing(c, s) /\ Numbers({})
  <2>1. /\ Carries(c, {"SNRM", "I", "RR", "DISC"})' /\ Ends(c, "DISC")'
        /\ Carries(s, {"I", "RR", "DISC", "UA"})'
        /\ Begins(s, "UA") => Begins(s, "UA")'
        /\ wire[s] = <<>> => wire'[s] = <<>>
        /\ wire[c] = <<>> => wire'[c] = <<>>
    BY <1>2, <1>6 DEF AnewClosing, Kept
  <2>2. UaOutermost(s)'
    BY <1>2, <1>6, ThinnedPairs DEF AnewClosing
  <2>3. AnewClosing(c, s)'
    BY <1>1, <1>6, <2>1, <2>2 DEF AnewClosing, InSession
  <2> QED
    BY <1>6, <2>3 DEF Anew, NumbersKept
<1>7. CASE Left(c, s) /\ Numbers({})
  <2>1. /\ Carries(c, {"SNRM", "I", "RR", "DISC"})' /\ Precedes(c, "DISC", "SNRM")'
        /\ Carries(s, {"I", "RR", "DISC", "UA"})' /\ Ends(s, "UA")'
        /\ Lacks(s, "UA") => Lacks(s, "UA")'
        /\ Carries(c, {"SNRM"}) => Carries(c, {"SNRM"})'
    BY <1>2, <1>7 DEF Left, Kept
  <2>2. Left(c, s)'
    BY <1>1, <1>7, <2>1 DEF Left, NoneDue, InSession
  <2> QED
    BY <1>7, <2>2 DEF Anew, NumbersKept
<1>8. CASE Ahead(c, s) /\ Numbers({s})
  <2>1. /\ wire'[s] = <<>> /\ Carries(c, {"SNRM", "I", "RR", "DISC"})' /\ Ends(c, "DISC")'
        /\ Lacks(c, "DISC") => Lacks(c, "DISC")'
    BY <1>2, <1>8 DEF Ahead, Kept
  <2>2. Ahead(c, s)'
    BY <1>1, <1>8, <2>1 DEF Ahead, NoneDue
  <2> QED
    BY <1>8, <2>2 DEF Anew, NumbersKept
<1> QED
  BY <1>3, <1>4, <1>5, <1>6, <1>7, <1>8 DEF Anew

\* The state of c is all that changes besides the wires.
OthersKeep(c) ==
    /\ state'[Peer[c]] = state[Peer[c]]
    /\ connectResponsePending'[c] = connectResponsePending[c]
    /\ connectResponsePending'[Peer[c]] = connectResponsePending[Peer[c]]
    /\ disconnectResponsePending'[c] = disconnectResponsePending[c]
    /\ disconnectResponsePending'[Peer[c]] = disconnectResponsePending[Peer[c]]
    /\ restarts'[c] = restarts[c] /\ restarts'[Peer[c]] = restarts[Peer[c]]

LEMMA ConnectSteady ==
    ASSUME WireType, WireType', NEW c \in Endpoint, state[c] = "Disconnected",
           state'[c] = "AwaitingConnection", OthersKeep(c),
           NEW f \in Frame, f.kind = "SNRM", Send(c, f), Thinned(Peer[c]), Steady(c, Peer[c])
    PROVE  Steady(c, Peer[c])'
<1> DEFINE s == Peer[c]
<1>1. Apart(c, s)
  BY DEF Steady, Opening, InUse, Closing
<1>2. /\ Carries(c, {"I", "RR", "DISC", "UA", "SNRM"})'
      /\ Ends(c, "SNRM")' /\ Precedes(c, "UA", "SNRM")'
  BY <1>1, SendKeeps DEF Apart
<1>3. wire'[s] = <<>>
  BY <1>1, TwoRoles, ThinnedIsKept DEF Apart, Kept
<1>4. Apart(c, s)'
  BY <1>1, <1>2, <1>3 DEF Apart, NoneDue, OthersKeep
<1> QED
  BY <1>4 DEF Steady

LEMMA ConnectAnew ==
    ASSUME WireType, WireType', NEW c \in Endpoint, state[c] = "Disconnected",
           state'[c] = "AwaitingConnection", OthersKeep(c), NumbersKept,
           NEW f \in Frame, f.kind = "SNRM", Send(c, f), Thinned(Peer[c]), Anew(c, Peer[c])
    PROVE  Anew(c, Peer[c])'
<1> DEFINE s == Peer[c]
<1>1. s \in Endpoint /\ Kept(s)
  BY TwoRoles, ThinnedIsKept
<1>2. CASE AnewApart(c, s)
  <2>1. /\ Carries(c, {"I", "RR", "DISC", "UA", "SNRM"})' /\ Precedes(c, "UA", "SNRM")'
        /\ Precedes(c, "SNRM", "SNRM") => Precedes(c, "SNRM", "SNRM")'
        /\ Carries(c, {"SNRM"}) => Carries(c, {"SNRM"})'
    BY <1>2, SendKeeps DEF AnewApart
  <2>2. AnewApart(c, s)'
    BY <1>1, <1>2, <2>1 DEF AnewApart, NoneDue, OthersKeep, Kept
  <2> QED
    BY <2>2 DEF Anew
<1>3. CASE AnewOpening(c, s) /\ Numbers({c})
  <2>1. Carries(c, {"SNRM"})'
    BY <1>3, SendKeeps DEF AnewOpening
  <2>2. Paired(s)'
    BY <1>1, <1>3, ThinnedPairs DEF AnewOpening, OthersKeep
  <2>3. AnewOpening(c, s)'
    BY <1>1, <1>3, <2>1, <2>2 DEF AnewOpening, NoneDue, InSession, OthersKeep, Kept
  <2> QED
    BY <1>3, <2>3 DEF Anew, NumbersKept
<1>4. CASE Left(c, s) /\ Numbers({})
  <2>1. /\ Carries(c, {"SNRM", "I", "RR", "DISC"})' /\ Precedes(c, "DISC", "SNRM")'
        /\ Carries(c, {"SNRM"}) => Carries(c, {"SNRM"})'
    BY <1>4, SendKeeps DEF Left
  <2>2. Left(c, s)'
    BY <1>1, <1>4, <2>1 DEF Left, NoneDue, InSession, OthersKeep, Kept
  <2> QED
    BY <1>4, <2>2 DEF Anew, NumbersKept
<1> QED
  BY <1>2, <1>3, <1>4 DEF Anew, AnewInUse, AnewClosing, Ahead

-----------------------------------------------------------------------------
LEMMA FirstFrame ==
    ASSUME WireType, NEW e \in Endpoint, wire[e] = <<>>, NEW f \in Frame, Send(e, f)
    PROVE  Len(wire'[e]) = 1 /\ wire'[e][1] = f
<1>1. Len(wire[e]) = 0
  BY EmptyWire
<1>2. Len(wire'[e]) = Len(wire[e]) + 1 /\ wire'[e][Len(wire[e]) + 1] = f
  BY SendEffect
<1>3. Len(wire[e]) + 1 = 1
  BY <1>1
<1> QED
  BY <1>2, <1>3

\* The answer to an SNRM.
LEMMA AcceptSteady ==
    ASSUME WireType, WireType', NEW c \in Endpoint, connectResponsePending[Peer[c]],
           state'[Peer[c]] = "Connected", state'[c] = state[c],
           ~connectResponsePending'[Peer[c]],
           connectResponsePending'[c] = connectResponsePending[c],
           disconnectResponsePending'[c] = disconnectResponsePending[c],
           disconnectResponsePending'[Peer[c]] = disconnectResponsePending[Peer[c]],
           NEW f \in Frame, f.kind = "UA", Send(Peer[c], f), Thinned(c),
           Steady(c, Peer[c]), ~InSession(c) /\ Carries(c, {"SNRM"}) => Numbers({c})'
    PROVE  Steady(c, Peer[c])'
<1> DEFINE s == Peer[c]
<1>1. s \in Endpoint
  BY TwoRoles
<1>2. Apart(c, s)
  BY DEF Steady, Opening, InUse, Closing, NoneDue
<1>3. wire[s] = <<>> /\ wire[c] = <<>> /\ state[c] = "AwaitingConnection"
  BY <1>2 DEF Apart
<1>4. wire'[c] = <<>>
  BY <1>3, ThinnedIsKept DEF Kept
<1>5. Len(wire'[s]) = 1 /\ wire'[s][1].kind = "UA"
  BY <1>1, <1>3, FirstFrame
<1>6. /\ Carries(s, {"I", "RR", "UA", "DISC"})' /\ Begins(s, "UA")' /\ Ends(s, "DISC")'
      /\ Lacks(s, "DISC")'
  BY <1>5 DEF Carries, Begins, Ends, Lacks
<1>7. Opening(c, s)'
  BY <1>2, <1>3, <1>4, <1>6 DEF Opening, Apart, NoneDue, InSession
<1>8. Numbers({c})'
  BY <1>3 DEF Carries, InSession
<1> QED
  BY <1>7, <1>8 DEF Steady

\* Only the answer that joins them can be behind a UA.
LEMMA SendPairs ==
    ASSUME WireType, NEW e \in Endpoint, NEW f \in Frame, Send(e, f)
    PROVE  /\ Lacks(e, "UA") => Paired(e)'
           /\ Ends(e, "UA") /\ f.kind = "UA" => Paired(e)'
           /\ Lacks(e, "UA") => UaOutermost(e)'
           /\ Begins(e, "UA") => UaOutermost(e)'
           /\ Paired(e) /\ state[e] = "Connected" /\ f.kind # "UA"
                /\ (f.kind = "DISC" => state'[e] = "AwaitingDisconnect") => Paired(e)'
<1> DEFINE l == Len(wire[e])
<1>1. /\ l \in Nat /\ Len(wire'[e]) = l + 1 /\ wire'[e][l + 1] = f
      /\ \A i \in 1 .. l : wire'[e][i] = wire[e][i]
  BY SendEffect, EmptyWire
<1>2. \A i \in 1 .. l + 1 : i \in 1 .. l \/ i = l + 1
  BY <1>1
<1>3. \A i \in 1 .. l + 1, j \in 1 .. l + 1 : i < j => i \in 1 .. l
  BY <1>1
<1>4. \A i \in 1 .. l : i # l + 1 /\ (i = l => l + 1 = i + 1) /\ (l + 1 \in 1 .. l => FALSE)
  BY <1>1
<1> HIDE DEF l
<1>5. Lacks(e, "UA") => Paired(e)' /\ UaOutermost(e)'
  BY <1>1, <1>2, <1>3 DEF Lacks, Paired, UaOutermost, l
<1>6. Begins(e, "UA") => UaOutermost(e)'
  BY <1>1, <1>2 DEF Begins, UaOutermost, l
<1>7. ASSUME Ends(e, "UA"), f.kind = "UA" PROVE Paired(e)'
  <2>1. ASSUME NEW i \in 1 .. l + 1, NEW j \in 1 .. l + 1, i < j, wire'[e][i].kind = "UA"
        PROVE  i = l /\ j = l + 1
    <3>1. i \in 1 .. l /\ wire[e][i].kind = "UA"
      BY <1>1, <1>3, <2>1
    <3>2. i = l
      BY <1>7, <3>1 DEF Ends, l
    <3> QED
      BY <1>1, <2>1, <3>2
  <2> QED
    BY <1>1, <1>7, <2>1 DEF Paired
<1>8. ASSUME Paired(e), state[e] = "Connected", f.kind # "UA",
             f.kind = "DISC" => state'[e] = "AwaitingDisconnect"
      PROVE  Paired(e)'
  <2>1. ASSUME NEW i \in 1 .. l + 1, NEW j \in 1 .. l + 1, i < j, wire'[e][i].kind = "UA"
        PROVE  /\ wire'[e][j].kind = "UA" => j = i + 1
               /\ wire'[e][j].kind = "DISC" => j = l + 1 /\ state'[e] = "AwaitingDisconnect"
    <3>1. i \in 1 .. l /\ wire[e][i].kind = "UA"
      BY <1>1, <1>3, <2>1
    <3>2. CASE j \in 1 .. l
      BY <1>1, <1>8, <2>1, <3>1, <3>2 DEF Paired, l
    <3>3. CASE j = l + 1
      BY <1>1, <1>8, <3>3
    <3> QED
      BY <1>2, <3>2, <3>3
  <2> QED
    BY <1>1, <2>1 DEF Paired
<1> QED
  BY <1>5, <1>6, <1>7, <1>8

LEMMA AcceptAnew ==
    ASSUME WireType, WireType', NEW c \in Endpoint, connectResponsePending[Peer[c]],
           state[Peer[c]] = "Disconnected",
           state'[Peer[c]] = "Connected", state'[c] = state[c],
           ~connectResponsePending'[Peer[c]],
           connectResponsePending'[c] = connectResponsePending[c],
           disconnectResponsePending'[c] = disconnectResponsePending[c],
           disconnectResponsePending'[Peer[c]] = disconnectResponsePending[Peer[c]],
           NEW f \in Frame, f.kind = "UA", Send(Peer[c], f), Thinned(c),
           Anew(c, Peer[c]), ~InSession(c) /\ Carries(c, {"SNRM"}) => Numbers({c})',
           Numbers({Peer[c]}) => Numbers({})'
    PROVE  Anew(c, Peer[c])'
<1> DEFINE s == Peer[c]
<1>1. s \in Endpoint /\ Kept(c)
  BY TwoRoles, ThinnedIsKept
<1>2. AnewApart(c, s) \/ Left(c, s) \/ (Ahead(c, s) /\ Numbers({s}))
  <2>1. ~AnewOpening(c, s) /\ ~AnewInUse(c, s)
    BY DEF AnewOpening, AnewInUse, InSession
  <2>2. ~AnewClosing(c, s)
    BY DEF AnewClosing
  <2> QED
    BY <2>1, <2>2 DEF Anew
<1>3. CASE AnewApart(c, s)
  <2>1. Carries(c, {"SNRM"}) /\ ~InSession(c) /\ wire[s] = <<>>
    BY <1>3 DEF AnewApart, InSession
  <2>2. Len(wire'[s]) = 1 /\ wire'[s][1].kind = "UA"
    BY <1>1, <2>1, FirstFrame
  <2>3. Carries(s, {"I", "RR", "UA", "DISC"})' /\ Paired(s)'
    BY <2>2 DEF Carries, Paired
  <2>4. AnewOpening(c, s)'
    BY <1>1, <1>3, <2>1, <2>3 DEF AnewOpening, AnewApart, NoneDue, InSession, Kept
  <2> QED
    BY <2>1, <2>4 DEF Anew
<1>4. CASE Left(c, s)
  <2>1. Carries(c, {"SNRM"}) /\ ~InSession(c) /\ ~disconnectResponsePending[s]
    BY <1>4 DEF Left, InSession
  <2>2. Carries(s, {"I", "RR", "DISC", "UA"})' /\ Paired(s)'
    BY <1>1, <1>4, SendKeeps, SendPairs DEF Left
  <2>3. Carries(s, {"I", "RR", "UA", "DISC"})'
    BY <2>2 DEF Carries
  <2>4. AnewOpening(c, s)'
    BY <1>1, <1>4, <2>1, <2>2, <2>3 DEF AnewOpening, Left, NoneDue, InSession, Kept
  <2> QED
    BY <2>1, <2>4 DEF Anew
<1>5. CASE Ahead(c, s) /\ Numbers({s})
  <2>1. wire[s] = <<>> /\ ~disconnectResponsePending[s]
    BY <1>5 DEF Ahead
  <2>2. Len(wire'[s]) = 1 /\ wire'[s][1].kind = "UA"
    BY <1>1, <2>1, FirstFrame
  <2>3. /\ Carries(s, {"I", "RR", "UA", "DISC"})' /\ Carries(s, {"I", "RR", "DISC", "UA"})'
        /\ Begins(s, "UA")' /\ Ends(s, "DISC")' /\ Lacks(s, "DISC")' /\ UaOutermost(s)'
    BY <2>2 DEF Carries, Begins, Ends, Lacks, UaOutermost
  <2>4. CASE state[c] = "Connected"
    <3>1. Carries(c, {"SNRM", "I", "RR"})
      BY <1>5, <2>4 DEF Ahead, Carries, Lacks
    <3>2. AnewInUse(c, s)'
      BY <1>1, <1>5, <2>1, <2>3, <2>4, <3>1 DEF AnewInUse, Ahead, NoneDue, InSession, Kept
    <3> QED
      BY <1>5, <3>2 DEF Anew
  <2>5. CASE state[c] = "AwaitingDisconnect"
    <3>1. Carries(c, {"SNRM", "I", "RR", "DISC"})' /\ Ends(c, "DISC")'
      BY <1>1, <1>5 DEF Ahead, Kept
    <3>2. AnewClosing(c, s)'
      BY <1>5, <2>1, <2>3, <2>5, <3>1 DEF AnewClosing, Ahead, NoneDue, InSession
    <3> QED
      BY <1>5, <3>2 DEF Anew
  <2> QED
    BY <1>5, <2>4, <2>5 DEF Ahead
<1> QED
  BY <1>2, <1>3, <1>4, <1>5

-----------------------------------------------------------------------------
\* An I-frame or an RR of the client, or its DISC.
Speaks(e, f) ==
    /\ state[e] = "Connected"
    /\ \/ f.kind = "DISC" /\ state'[e] = "AwaitingDisconnect"
       \/ f.kind \in {"I", "RR"} /\ state'[e] = "Connected"
    /\ Send(e, f)

LEMMA ClientSteady ==
    ASSUME WireType, WireType', NEW c \in Endpoint, OthersKeep(c), NumbersKept,
           NEW f \in Frame, Speaks(c, f), Thinned(Peer[c]), Steady(c, Peer[c])
    PROVE  Steady(c, Peer[c])'
<1> DEFINE s == Peer[c]
<1>1. s \in Endpoint /\ Kept(s) /\ state[c] = "Connected" /\ Send(c, f)
  BY TwoRoles, ThinnedIsKept DEF Speaks
<1>2. InUse(c, s) /\ Numbers({})
  BY <1>1 DEF Steady, Apart, Opening, Closing
<1>3. Lacks(c, "DISC") /\ Carries(c, {"I", "RR", "DISC"})
  BY <1>2 DEF InUse, Carries, Lacks
<1>4. /\ Carries(s, {"I", "RR", "DISC"})' /\ Ends(s, "DISC")'
      /\ Lacks(s, "DISC") => Lacks(s, "DISC")'
      /\ wire[s] = <<>> => wire'[s] = <<>>
  BY <1>1, <1>2 DEF InUse, Kept
<1>5. CASE f.kind = "DISC"
  <2>1. Carries(c, {"I", "RR", "DISC"})' /\ Ends(c, "DISC")'
    BY <1>1, <1>3, <1>5, SendKeeps
  <2>2. Carries(s, {"I", "RR", "DISC", "UA"})' /\ Ends(s, "UA")' /\ Lacks(s, "UA")'
    BY <1>4 DEF Carries, Ends, Lacks
  <2>3. state'[c] = "AwaitingDisconnect"
    BY <1>5 DEF Speaks
  <2>4. Closing(c, s)'
    BY <1>2, <1>4, <2>1, <2>2, <2>3 DEF Closing, InUse, NoneDue, InSession, OthersKeep
  <2> QED
    BY <1>2, <2>4 DEF Steady, NumbersKept
<1>6. CASE f.kind \in {"I", "RR"}
  <2>1. Carries(c, {"I", "RR"})'
    BY <1>1, <1>2, <1>6, SendKeeps DEF InUse
  <2>2. state'[c] = "Connected"
    BY <1>6 DEF Speaks
  <2>3. InUse(c, s)'
    BY <1>2, <1>4, <2>1, <2>2 DEF InUse, NoneDue, InSession, OthersKeep
  <2> QED
    BY <1>2, <2>3 DEF Steady, NumbersKept
<1> QED
  BY <1>5, <1>6 DEF Speaks

LEMMA ClientAnew ==
    ASSUME WireType, WireType', NEW c \in Endpoint, OthersKeep(c), NumbersKept,
           NEW f \in Frame, Speaks(c, f), Thinned(Peer[c]), Anew(c, Peer[c])
    PROVE  Anew(c, Peer[c])'
<1> DEFINE s == Peer[c]
<1>1. /\ s \in Endpoint /\ Kept(s) /\ state[c] = "Connected" /\ Send(c, f)
      /\ f.kind \in {"I", "RR", "DISC"}
  BY TwoRoles, ThinnedIsKept DEF Speaks
<1>2. (AnewInUse(c, s) /\ Numbers({})) \/ (Ahead(c, s) /\ Numbers({s}))
  <2>1. ~AnewApart(c, s) /\ ~AnewOpening(c, s) /\ ~AnewClosing(c, s) /\ ~Left(c, s)
    BY <1>1 DEF AnewApart, AnewOpening, AnewClosing, Left
  <2> QED
    BY <2>1 DEF Anew
<1>3. CASE AnewInUse(c, s) /\ Numbers({})
  <2>1. Lacks(c, "DISC") /\ Carries(c, {"SNRM", "I", "RR", "DISC"})
    BY <1>3 DEF AnewInUse, Carries, Lacks
  <2>2. /\ Carries(s, {"I", "RR", "UA", "DISC"})' /\ Begins(s, "UA")' /\ Ends(s, "DISC")'
        /\ Lacks(s, "DISC") => Lacks(s, "DISC")'
        /\ wire[s] = <<>> => wire'[s] = <<>>
    BY <1>1, <1>3 DEF AnewInUse, Kept
  <2>3. CASE f.kind = "DISC"
    <3>1. Carries(c, {"SNRM", "I", "RR", "DISC"})' /\ Ends(c, "DISC")'
      BY <1>1, <2>1, <2>3, SendKeeps
    <3>2. Carries(s, {"I", "RR", "DISC", "UA"})' /\ UaOutermost(s)'
      BY <2>2 DEF Carries, UaOutermost, Begins
    <3>3. state'[c] = "AwaitingDisconnect"
      BY <2>3 DEF Speaks
    <3>4. AnewClosing(c, s)'
      BY <1>3, <2>2, <3>1, <3>2, <3>3 DEF AnewClosing, AnewInUse, NoneDue, InSession, OthersKeep
    <3> QED
      BY <1>3, <3>4 DEF Anew, NumbersKept
  <2>4. CASE f.kind \in {"I", "RR"}
    <3>1. Carries(c, {"SNRM", "I", "RR"})'
      BY <1>1, <1>3, <2>4, SendKeeps DEF AnewInUse
    <3>2. state'[c] = "Connected"
      BY <2>4 DEF Speaks
    <3>3. AnewInUse(c, s)'
      BY <1>3, <2>2, <3>1, <3>2 DEF AnewInUse, NoneDue, InSession, OthersKeep
    <3> QED
      BY <1>3, <3>3 DEF Anew, NumbersKept
  <2> QED
    BY <1>1, <2>3, <2>4
<1>4. CASE Ahead(c, s) /\ Numbers({s})
  <2>1. Lacks(c, "DISC")
    BY <1>1, <1>4 DEF Ahead
  <2>2. /\ Carries(c, {"SNRM", "I", "RR", "DISC"})' /\ Ends(c, "DISC")'
        /\ f.kind # "DISC" => Lacks(c, "DISC")'
    BY <1>1, <1>4, <2>1, SendKeeps DEF Ahead
  <2>3. wire'[s] = <<>>
    BY <1>1, <1>4 DEF Ahead, Kept
  <2>4. Ahead(c, s)'
    BY <1>4, <2>2, <2>3 DEF Ahead, NoneDue, OthersKeep, Speaks
  <2> QED
    BY <1>4, <2>4 DEF Anew, NumbersKept
<1> QED
  BY <1>2, <1>3, <1>4

\* The same of the server.
LEMMA ServerSteady ==
    ASSUME WireType, WireType', NEW c \in Endpoint, OthersKeep(Peer[c]), NumbersKept,
           NEW f \in Frame, Speaks(Peer[c], f), Thinned(c), Steady(c, Peer[c])
    PROVE  Steady(c, Peer[c])'
<1> DEFINE s == Peer[c]
<1>1. /\ s \in Endpoint /\ Peer[s] = c /\ Kept(c)
      /\ state[s] = "Connected" /\ state'[s] \in {"Connected", "AwaitingDisconnect"}
      /\ Send(s, f) /\ f.kind \in {"I", "RR", "DISC"}
      /\ state'[s] = "Connected" => f.kind # "DISC"
  BY TwoRoles, ThinnedIsKept DEF Speaks
<1>2. CASE Opening(c, s) /\ Numbers({c})
  <2>1. wire'[c] = <<>> /\ Lacks(s, "DISC")
    BY <1>1, <1>2 DEF Opening, Kept
  <2>2. /\ Carries(s, {"I", "RR", "UA", "DISC"})' /\ Begins(s, "UA")' /\ Ends(s, "DISC")'
        /\ f.kind # "DISC" => Lacks(s, "DISC")'
    BY <1>1, <1>2, <2>1, SendKeeps DEF Opening
  <2>3. Opening(c, s)'
    BY <1>1, <1>2, <2>1, <2>2 DEF Opening, NoneDue, InSession, OthersKeep
  <2> QED
    BY <1>2, <2>3 DEF Steady, NumbersKept
<1>3. CASE InUse(c, s) /\ Numbers({})
  <2>1. Lacks(s, "DISC") /\ Carries(c, {"I", "RR"})'
    BY <1>1, <1>3 DEF InUse, Kept
  <2>2. /\ Carries(s, {"I", "RR", "DISC"})' /\ Ends(s, "DISC")'
        /\ f.kind # "DISC" => Lacks(s, "DISC")'
    BY <1>1, <1>3, <2>1, SendKeeps DEF InUse
  <2>3. InUse(c, s)'
    BY <1>1, <1>3, <2>1, <2>2 DEF InUse, NoneDue, InSession, OthersKeep
  <2> QED
    BY <1>3, <2>3 DEF Steady, NumbersKept
<1>4. CASE Closing(c, s) /\ Numbers({})
  <2>1. Lacks(s, "UA")
    BY <1>1, <1>4 DEF Closing, InSession
  <2>2. /\ Carries(c, {"I", "RR", "DISC"})' /\ Ends(c, "DISC")'
        /\ wire[c] = <<>> => wire'[c] = <<>>
    BY <1>1, <1>4 DEF Closing, Kept
  <2>3. Carries(s, {"I", "RR", "DISC", "UA"})' /\ Ends(s, "UA")' /\ Lacks(s, "UA")'
    BY <1>1, <1>4, <2>1, SendKeeps DEF Closing
  <2>4. Closing(c, s)'
    BY <1>1, <1>4, <2>2, <2>3 DEF Closing, InSession, OthersKeep
  <2> QED
    BY <1>4, <2>4 DEF Steady, NumbersKept
<1> QED
  BY <1>1, <1>2, <1>3, <1>4 DEF Steady, Apart

LEMMA ServerAnew ==
    ASSUME WireType, WireType', NEW c \in Endpoint, OthersKeep(Peer[c]), NumbersKept,
           NEW f \in Frame, Speaks(Peer[c], f), Thinned(c), Anew(c, Peer[c])
    PROVE  Anew(c, Peer[c])'
<1> DEFINE s == Peer[c]
<1>1. /\ s \in Endpoint /\ Peer[s] = c /\ Kept(c)
      /\ state[s] = "Connected" /\ state'[s] \in {"Connected", "AwaitingDisconnect"}
      /\ Send(s, f) /\ f.kind \in {"I", "RR", "DISC"}
      /\ state'[s] = "Connected" => f.kind # "DISC"
      /\ f.kind = "DISC" => state'[s] = "AwaitingDisconnect"
  BY TwoRoles, ThinnedIsKept DEF Speaks
<1>2. CASE AnewOpening(c, s) /\ Numbers({c})
  <2>1. Carries(c, {"SNRM"})'
    BY <1>1, <1>2 DEF AnewOpening, Kept
  <2>2. Carries(s, {"I", "RR", "UA", "DISC"})' /\ Paired(s)'
    BY <1>1, <1>2, SendKeeps, SendPairs DEF AnewOpening
  <2>3. AnewOpening(c, s)'
    BY <1>1, <1>2, <2>1, <2>2 DEF AnewOpening, NoneDue, InSession, OthersKeep
  <2> QED
    BY <1>2, <2>3 DEF Anew, NumbersKept
<1>3. CASE AnewInUse(c, s) /\ Numbers({})
  <2>1. Lacks(s, "DISC") /\ Carries(c, {"SNRM", "I", "RR"})'
    BY <1>1, <1>3 DEF AnewInUse, Kept
  <2>2. /\ Carries(s, {"I", "RR", "UA", "DISC"})' /\ Begins(s, "UA")' /\ Ends(s, "DISC")'
        /\ f.kind # "DISC" => Lacks(s, "DISC")'
    BY <1>1, <1>3, <2>1, SendKeeps DEF AnewInUse
  <2>3. AnewInUse(c, s)'
    BY <1>1, <1>3, <2>1, <2>2 DEF AnewInUse, NoneDue, InSession, OthersKeep
  <2> QED
    BY <1>3, <2>3 DEF Anew, NumbersKept
<1>4. CASE AnewClosing(c, s) /\ Numbers({})
  <2>1. Begins(s, "UA")
    BY <1>1, <1>4 DEF AnewClosing, InSession
  <2>2. /\ Carries(c, {"SNRM", "I", "RR", "DISC"})' /\ Ends(c, "DISC")'
        /\ wire[c] = <<>> => wire'[c] = <<>>
    BY <1>1, <1>4 DEF AnewClosing, Kept
  <2>3. Carries(s, {"I", "RR", "DISC", "UA"})' /\ Begins(s, "UA")' /\ UaOutermost(s)'
    BY <1>1, <1>4, <2>1, SendKeeps, SendPairs DEF AnewClosing
  <2>4. AnewClosing(c, s)'
    BY <1>1, <1>4, <2>2, <2>3 DEF AnewClosing, InSession, OthersKeep
  <2> QED
    BY <1>4, <2>4 DEF Anew, NumbersKept
<1>5. CASE Left(c, s) /\ Numbers({})
  <2>1. Lacks(s, "UA")
    BY <1>1, <1>5 DEF Left, InSession
  <2>2. /\ Carries(c, {"SNRM", "I", "RR", "DISC"})' /\ Precedes(c, "DISC", "SNRM")'
        /\ Carries(c, {"SNRM"}) => Carries(c, {"SNRM"})'
    BY <1>1, <1>5 DEF Left, Kept
  <2>3. Carries(s, {"I", "RR", "DISC", "UA"})' /\ Ends(s, "UA")' /\ Lacks(s, "UA")'
    BY <1>1, <1>5, <2>1, SendKeeps DEF Left
  <2>4. Left(c, s)'
    BY <1>1, <1>5, <2>2, <2>3 DEF Left, NoneDue, InSession, OthersKeep
  <2> QED
    BY <1>5, <2>4 DEF Anew, NumbersKept
<1> QED
  BY <1>1, <1>2, <1>3, <1>4, <1>5 DEF Anew, AnewApart, Ahead

-----------------------------------------------------------------------------
\* The answer to a DISC.
LEMMA ClientAnswersSteady ==
    ASSUME TypeOK, WireType, WireType', NEW c \in Endpoint, disconnectResponsePending[c],
           state[Peer[c]] # "AwaitingConnection",
           state'[c] = "Disconnected", state'[Peer[c]] = state[Peer[c]],
           ~disconnectResponsePending'[c],
           disconnectResponsePending'[Peer[c]] = disconnectResponsePending[Peer[c]],
           connectResponsePending' = connectResponsePending,
           NEW f \in Frame, f.kind = "UA", Send(c, f), Thinned(Peer[c]), Steady(c, Peer[c])
    PROVE  Steady(c, Peer[c])'
<1> DEFINE s == Peer[c]
<1>1. s \in Endpoint /\ Kept(s) /\ state[s] \in SessionState
  BY TwoRoles, ThinnedIsKept DEF TypeOK
<1>2. /\ InUse(c, s) \/ Closing(c, s)
      /\ state[s] # "Connected" /\ wire[s] = <<>> /\ NoneDue(s) /\ ~connectResponsePending[c]
  BY DEF Steady, Apart, Opening, InUse, Closing, NoneDue
<1>3. state[s] \in {"Disconnected", "AwaitingDisconnect"} /\ wire'[s] = <<>>
  BY <1>1, <1>2 DEF SessionState, Kept
<1>4. /\ Carries(c, {"I", "RR", "DISC", "UA", "SNRM"}) /\ Lacks(c, "UA") /\ Lacks(c, "SNRM")
  BY <1>2 DEF InUse, Closing, Carries, Lacks
<1>5. /\ Carries(c, {"I", "RR", "DISC", "UA", "SNRM"})'
      /\ Precedes(c, "UA", "SNRM")' /\ Ends(c, "SNRM")' /\ Lacks(c, "SNRM")'
  BY <1>4, SendKeeps
<1>6. Apart(c, s)'
  BY <1>2, <1>3, <1>5 DEF Apart, NoneDue
<1> QED
  BY <1>6 DEF Steady

LEMMA ClientAnswersAnew ==
    ASSUME TypeOK, WireType, WireType', NEW c \in Endpoint, disconnectResponsePending[c],
           state'[c] = "Disconnected", state'[Peer[c]] = state[Peer[c]],
           ~disconnectResponsePending'[c],
           disconnectResponsePending'[Peer[c]] = disconnectResponsePending[Peer[c]],
           connectResponsePending' = connectResponsePending,
           NEW f \in Frame, f.kind = "UA", Send(c, f), Thinned(Peer[c]), Anew(c, Peer[c])
    PROVE  Anew(c, Peer[c])'
<1> DEFINE s == Peer[c]
<1>1. s \in Endpoint /\ Kept(s)
  BY TwoRoles, ThinnedIsKept
<1>2. /\ AnewInUse(c, s) \/ AnewClosing(c, s)
      /\ state[s] = "AwaitingDisconnect" /\ wire[s] = <<>> /\ NoneDue(s)
      /\ ~connectResponsePending[c]
  BY DEF Anew, AnewApart, AnewOpening, AnewInUse, AnewClosing, Left, Ahead, NoneDue
<1>3. wire'[s] = <<>>
  BY <1>1, <1>2 DEF Kept
<1>4. Carries(c, {"I", "RR", "DISC", "UA", "SNRM"}) /\ Lacks(c, "UA")
  BY <1>2 DEF AnewInUse, AnewClosing, Carries, Lacks
<1>5. Carries(c, {"I", "RR", "DISC", "UA", "SNRM"})' /\ Precedes(c, "UA", "SNRM")'
  BY <1>4, SendKeeps
<1>6. AnewApart(c, s)'
  BY <1>2, <1>3, <1>5 DEF AnewApart, NoneDue
<1> QED
  BY <1>6 DEF Anew

LEMMA ServerAnswersSteady ==
    ASSUME WireType, WireType', NEW c \in Endpoint, disconnectResponsePending[Peer[c]],
           state'[Peer[c]] = "Disconnected", state'[c] = state[c],
           ~disconnectResponsePending'[Peer[c]],
           disconnectResponsePending'[c] = disconnectResponsePending[c],
           connectResponsePending' = connectResponsePending, NumbersKept,
           NEW f \in Frame, f.kind = "UA", Send(Peer[c], f), Thinned(c), Steady(c, Peer[c])
    PROVE  Steady(c, Peer[c])'
<1> DEFINE s == Peer[c]
<1>1. s \in Endpoint /\ Kept(c)
  BY TwoRoles, ThinnedIsKept
<1>2. Closing(c, s) /\ Numbers({})
  BY DEF Steady, Apart, Opening, InUse, NoneDue
<1>3. wire'[c] = <<>> /\ Lacks(s, "UA") /\ ~disconnectResponsePending[c]
  BY <1>1, <1>2 DEF Closing, Kept
<1>4. Carries(c, {"I", "RR", "DISC"})' /\ Ends(c, "DISC")'
  BY <1>1, <1>2 DEF Closing, Kept
<1>5. Carries(s, {"I", "RR", "DISC", "UA"})' /\ Ends(s, "UA")'
  BY <1>1, <1>2, <1>3, SendKeeps DEF Closing
<1>6. Closing(c, s)'
  BY <1>2, <1>3, <1>4, <1>5 DEF Closing, InSession
<1> QED
  BY <1>2, <1>6 DEF Steady, NumbersKept

LEMMA ServerAnswersAnew ==
    ASSUME WireType, WireType', NEW c \in Endpoint, disconnectResponsePending[Peer[c]],
           state'[Peer[c]] = "Disconnected", state'[c] = state[c],
           ~disconnectResponsePending'[Peer[c]],
           disconnectResponsePending'[c] = disconnectResponsePending[c],
           connectResponsePending' = connectResponsePending, NumbersKept,
           NEW f \in Frame, f.kind = "UA", Send(Peer[c], f), Thinned(c), Anew(c, Peer[c])
    PROVE  Anew(c, Peer[c])'
<1> DEFINE s == Peer[c]
<1>1. s \in Endpoint /\ Kept(c)
  BY TwoRoles, ThinnedIsKept
<1>2. CASE AnewClosing(c, s) /\ Numbers({})
  <2>1. wire'[c] = <<>> /\ Begins(s, "UA") /\ ~disconnectResponsePending[c]
    BY <1>1, <1>2 DEF AnewClosing, Kept
  <2>2. Carries(c, {"SNRM", "I", "RR", "DISC"})' /\ Ends(c, "DISC")'
    BY <1>1, <1>2 DEF AnewClosing, Kept
  <2>3. Carries(s, {"I", "RR", "DISC", "UA"})' /\ UaOutermost(s)'
    BY <1>1, <1>2, <2>1, SendKeeps, SendPairs DEF AnewClosing
  <2>4. AnewClosing(c, s)'
    BY <1>2, <2>1, <2>2, <2>3 DEF AnewClosing, InSession
  <2> QED
    BY <1>2, <2>4 DEF Anew, NumbersKept
<1>3. CASE Left(c, s) /\ Numbers({})
  <2>1. Lacks(s, "UA") /\ Carries(c, {"SNRM"})' /\ ~connectResponsePending[s]
    BY <1>1, <1>3 DEF Left, Kept
  <2>2. Carries(c, {"SNRM", "I", "RR", "DISC"})' /\ Precedes(c, "DISC", "SNRM")'
    BY <1>1, <1>3 DEF Left, Kept
  <2>3. Carries(s, {"I", "RR", "DISC", "UA"})' /\ Ends(s, "UA")'
    BY <1>1, <1>3, <2>1, SendKeeps DEF Left
  <2>4. Left(c, s)'
    BY <1>3, <2>1, <2>2, <2>3 DEF Left, NoneDue, InSession
  <2> QED
    BY <1>3, <2>4 DEF Anew, NumbersKept
<1> QED
  BY <1>2, <1>3 DEF Anew, AnewApart, AnewOpening, AnewInUse, Ahead, NoneDue

-----------------------------------------------------------------------------
\* A frame leaves the line at its head.
Leaves(e) == wire[e] # <<>> /\ wire' = [wire EXCEPT ![e] = Tail(@)]

LEMMA LeavesKeeps ==
    ASSUME WireType, WireType', NEW e \in Endpoint, Leaves(e)
    PROVE  Kept(e) /\ Kept(Peer[e])
BY TwoRoles, ShiftIsThinned, ThinnedIsKept DEF Leaves

LEMMA HeadLeaves ==
    ASSUME WireType, NEW e \in Endpoint, Leaves(e), NEW k, NEW n, NEW K
    PROVE  /\ Carries(e, K) => wire[e][1].kind \in K
           /\ Lacks(e, k) => wire[e][1].kind # k
           /\ wire[e][1].kind = k /\ Ends(e, k) => wire'[e] = <<>>
           /\ wire[e][1].kind = k /\ Precedes(e, k, n) => Carries(e, {n})'
           /\ Begins(e, k) => Lacks(e, k)'
           /\ UaOutermost(e) => Ends(e, "UA")'
           /\ Paired(e) /\ wire[e][1].kind = "UA" =>
                 /\ Begins(e, "UA")' /\ Ends(e, "DISC")'
                 /\ state[e] = "Connected" => Lacks(e, "DISC")'
<1> DEFINE l == Len(wire[e])
           m == Len(wire'[e])
<1>1. /\ l \in Nat /\ m \in Nat /\ l >= 1 /\ m = l - 1 /\ (m = 0 <=> wire'[e] = <<>>)
      /\ \A i \in 1 .. m : wire'[e][i] = wire[e][i + 1]
  BY ShiftEffect, EmptyWire DEF Leaves
<1> HIDE DEF l, m
<1>2. 1 \in 1 .. l /\ \A i \in 1 .. m : i + 1 \in 1 .. l /\ 1 < i + 1 /\ i + 1 # 1
  BY <1>1
<1>3. \A i \in 1 .. m : (i + 1 = l => i = m) /\ (i + 1 = 1 + 1 => i = 1)
  BY <1>1
<1>4. Carries(e, K) => wire[e][1].kind \in K
  BY <1>2 DEF Carries, l
<1>5. Lacks(e, k) => wire[e][1].kind # k
  BY <1>2 DEF Lacks, l
<1>6. wire[e][1].kind = k /\ Ends(e, k) => wire'[e] = <<>>
  <2>1. wire[e][1].kind = k /\ Ends(e, k) => 1 = l
    BY <1>2 DEF Ends, l
  <2> QED
    BY <1>1, <2>1
<1>7. wire[e][1].kind = k /\ Precedes(e, k, n) => Carries(e, {n})'
  BY <1>1, <1>2 DEF Precedes, Carries, l, m
<1>8. Begins(e, k) => Lacks(e, k)'
  BY <1>1, <1>2 DEF Begins, Lacks, l, m
<1>9. UaOutermost(e) => Ends(e, "UA")'
  BY <1>1, <1>2, <1>3 DEF UaOutermost, Ends, l, m
<1>10. ASSUME Paired(e), wire[e][1].kind = "UA"
       PROVE  /\ Begins(e, "UA")' /\ Ends(e, "DISC")'
              /\ state[e] = "Connected" => Lacks(e, "DISC")'
  <2>1. \A i \in 1 .. m : /\ wire'[e][i].kind = "UA" => i + 1 = 1 + 1
                          /\ wire'[e][i].kind = "DISC" =>
                                 i + 1 = l /\ state[e] = "AwaitingDisconnect"
    BY <1>1, <1>2, <1>10 DEF Paired, l
  <2> QED
    BY <1>3, <2>1 DEF Begins, Ends, Lacks, m
<1> QED
  BY <1>4, <1>5, <1>6, <1>7, <1>8, <1>9, <1>10

-----------------------------------------------------------------------------
\* An SNRM that the server takes.
LEMMA SnrmSteady ==
    ASSUME WireType, WireType', NEW c \in Endpoint, Leaves(c), wire[c][1].kind = "SNRM",
           state[Peer[c]] = "Disconnected", state' = state,
           connectResponsePending'[c] = connectResponsePending[c],
           disconnectResponsePending' = disconnectResponsePending,
           Steady(c, Peer[c])
    PROVE  Steady(c, Peer[c])'
<1> DEFINE s == Peer[c]
<1>1. Kept(c) /\ Kept(s)
  BY LeavesKeeps
<1>2. Apart(c, s)
  BY HeadLeaves DEF Steady, Opening, InUse, Closing, Leaves
<1>3. wire'[c] = <<>> /\ state[c] = "AwaitingConnection"
  BY <1>2, HeadLeaves DEF Apart
<1>4. /\ wire'[s] = <<>> /\ Carries(c, {"I", "RR", "DISC", "UA", "SNRM"})'
      /\ Ends(c, "SNRM")' /\ Precedes(c, "UA", "SNRM")'
  BY <1>1, <1>2 DEF Apart, Kept
<1>5. Apart(c, s)'
  BY <1>2, <1>3, <1>4 DEF Apart, NoneDue
<1> QED
  BY <1>5 DEF Steady

LEMMA SnrmAnew ==
    ASSUME WireType, WireType', NEW c \in Endpoint, Leaves(c), wire[c][1].kind = "SNRM",
           state[Peer[c]] = "Disconnected", state' = state,
           connectResponsePending'[c] = connectResponsePending[c],
           disconnectResponsePending' = disconnectResponsePending,
           NumbersKept, Anew(c, Peer[c])
    PROVE  Anew(c, Peer[c])'
<1> DEFINE s == Peer[c]
<1>1. Kept(c) /\ Kept(s)
  BY LeavesKeeps
<1>2. CASE AnewApart(c, s)
  <2>1. Carries(c, {"SNRM"})'
    BY <1>2, HeadLeaves DEF AnewApart
  <2>2. /\ wire'[s] = <<>> /\ Carries(c, {"I", "RR", "DISC", "UA", "SNRM"})'
        /\ Precedes(c, "SNRM", "SNRM")' /\ Precedes(c, "UA", "SNRM")'
    BY <1>1, <1>2 DEF AnewApart, Kept
  <2>3. AnewApart(c, s)'
    BY <1>2, <2>1, <2>2 DEF AnewApart, NoneDue
  <2> QED
    BY <2>3 DEF Anew
<1>3. CASE Left(c, s) /\ Numbers({})
  <2>1. /\ Carries(c, {"SNRM", "I", "RR", "DISC"})' /\ Precedes(c, "DISC", "SNRM")'
        /\ Carries(c, {"SNRM"})'
        /\ Carries(s, {"I", "RR", "DISC", "UA"})' /\ Ends(s, "UA")'
    BY <1>1, <1>3 DEF Left, Kept
  <2>2. Left(c, s)'
    BY <1>3, <2>1 DEF Left, NoneDue, InSession
  <2> QED
    BY <1>3, <2>2 DEF Anew, NumbersKept
<1>4. CASE Ahead(c, s) /\ Numbers({s})
  <2>1. /\ wire'[s] = <<>> /\ Carries(c, {"SNRM", "I", "RR", "DISC"})' /\ Ends(c, "DISC")'
        /\ Lacks(c, "DISC") => Lacks(c, "DISC")'
    BY <1>1, <1>4 DEF Ahead, Kept
  <2>2. Ahead(c, s)'
    BY <1>4, <2>1 DEF Ahead, NoneDue
  <2> QED
    BY <1>4, <2>2 DEF Anew, NumbersKept
<1> QED
  BY <1>2, <1>3, <1>4 DEF Anew, AnewOpening, AnewInUse, AnewClosing, InSession, Leaves

-----------------------------------------------------------------------------
\* A UA that the client takes for the answer to its SNRM.
LEMMA ConnectUaSteady ==
    ASSUME WireType, WireType', NEW c \in Endpoint, Leaves(Peer[c]),
           wire[Peer[c]][1].kind = "UA",
           state[c] = "AwaitingConnection", state'[c] = "Connected", OthersKeep(c),
           Steady(c, Peer[c]), Numbers({c}) => Numbers({})'
    PROVE  Steady(c, Peer[c])'
<1> DEFINE s == Peer[c]
<1>1. s \in Endpoint /\ Peer[s] = c /\ Kept(c) /\ Kept(s)
  BY TwoRoles, LeavesKeeps
<1>2. Opening(c, s) /\ Numbers({c})
  BY DEF Steady, Apart, InUse, Closing, Leaves
<1>3. /\ wire'[c] = <<>> /\ Carries(s, {"I", "RR", "UA", "DISC"})' /\ Ends(s, "DISC")'
      /\ Lacks(s, "DISC") => Lacks(s, "DISC")'
  BY <1>1, <1>2 DEF Opening, Kept
<1>4. Lacks(s, "UA")'
  BY <1>1, <1>2, HeadLeaves DEF Opening
<1>5. Carries(s, {"I", "RR", "DISC"})'
  BY <1>3, <1>4 DEF Carries, Lacks
<1>6. Carries(c, {"I", "RR"})'
  BY <1>1, <1>3, EmptyWire DEF Carries
<1>7. InUse(c, s)'
  BY <1>2, <1>3, <1>5, <1>6 DEF InUse, Opening, NoneDue, InSession, OthersKeep
<1> QED
  BY <1>2, <1>7 DEF Steady

LEMMA ConnectUaAnew ==
    ASSUME WireType, WireType', NEW c \in Endpoint, Leaves(Peer[c]),
           wire[Peer[c]][1].kind = "UA",
           state[c] = "AwaitingConnection", state'[c] = "Connected", OthersKeep(c),
           state[Peer[c]] \in {"Disconnected", "Connected", "AwaitingDisconnect"},
           Anew(c, Peer[c]), Numbers({c}) => Numbers({})',
           state[Peer[c]] = "Disconnected" /\ Carries(c, {"SNRM"}) /\ wire'[Peer[c]] = <<>>
               => Numbers({Peer[c]})'
    PROVE  Anew(c, Peer[c])'
<1> DEFINE s == Peer[c]
<1>1. s \in Endpoint /\ Peer[s] = c /\ Kept(c) /\ Kept(s)
  BY TwoRoles, LeavesKeeps
<1>2. CASE AnewOpening(c, s) /\ Numbers({c})
  <2>1. /\ Begins(s, "UA")' /\ Ends(s, "DISC")'
        /\ state[s] = "Connected" => Lacks(s, "DISC")'
    BY <1>1, <1>2, HeadLeaves DEF AnewOpening
  <2>2. Carries(s, {"I", "RR", "UA", "DISC"})' /\ Carries(c, {"SNRM"})'
    BY <1>1, <1>2 DEF AnewOpening, Kept
  <2>3. Carries(c, {"SNRM", "I", "RR"})'
    BY <2>2 DEF Carries
  <2>4. AnewInUse(c, s)'
    BY <1>2, <2>1, <2>2, <2>3 DEF AnewInUse, AnewOpening, NoneDue, InSession, OthersKeep
  <2> QED
    BY <1>2, <2>4 DEF Anew
<1>3. CASE Left(c, s)
  <2>1. wire'[s] = <<>> /\ ~Lacks(s, "UA")
    BY <1>1, <1>3, HeadLeaves DEF Left
  <2>2. state[s] = "Disconnected" /\ Carries(c, {"SNRM"}) /\ ~disconnectResponsePending[s]
    BY <1>3, <2>1 DEF Left, InSession
  <2>3. Carries(c, {"SNRM"})'
    BY <1>1, <2>2 DEF Kept
  <2>4. Carries(c, {"SNRM", "I", "RR", "DISC"})' /\ Ends(c, "DISC")' /\ Lacks(c, "DISC")'
    BY <2>3 DEF Carries, Ends, Lacks
  <2>5. Ahead(c, s)'
    BY <1>3, <2>1, <2>2, <2>4 DEF Ahead, Left, NoneDue, OthersKeep
  <2> QED
    BY <2>1, <2>2, <2>5 DEF Anew
<1> QED
  BY <1>2, <1>3 DEF Anew, AnewApart, AnewInUse, AnewClosing, Ahead, Leaves

-----------------------------------------------------------------------------
\* A UA that the client takes for the answer to its DISC.
LEMMA ClientLeavesSteady ==
    ASSUME WireType, WireType', NEW c \in Endpoint, Leaves(Peer[c]),
           wire[Peer[c]][1].kind = "UA",
           state[c] = "AwaitingDisconnect", state'[c] = "Disconnected", OthersKeep(c),
           state[Peer[c]] \in {"Disconnected", "Connected", "AwaitingDisconnect"},
           Steady(c, Peer[c])
    PROVE  Steady(c, Peer[c])'
<1> DEFINE s == Peer[c]
<1>1. s \in Endpoint /\ Peer[s] = c /\ Kept(c) /\ Kept(s) /\ wire[s] # <<>>
  <2>1. s \in Endpoint /\ Peer[s] = c /\ wire[s] # <<>>
    BY TwoRoles DEF Leaves
  <2> QED
    BY <2>1, LeavesKeeps
<1>2. Closing(c, s)
  BY DEF Steady, Apart, Opening, InUse
<1>3. wire'[s] = <<>> /\ ~Lacks(s, "UA")
  BY <1>1, <1>2, HeadLeaves DEF Closing
<1>4. state[s] = "Disconnected"
  BY <1>2, <1>3 DEF Closing, InSession
<1>5. Carries(c, {"I", "RR", "DISC"})'
  BY <1>1, <1>2 DEF Closing, Kept
<1>6. /\ Carries(c, {"I", "RR", "DISC", "UA", "SNRM"})' /\ Ends(c, "SNRM")'
      /\ Precedes(c, "UA", "SNRM")' /\ Lacks(c, "SNRM")'
  BY <1>5 DEF Carries, Ends, Precedes, Lacks
<1>7. Apart(c, s)'
  BY <1>1, <1>2, <1>3, <1>4, <1>6 DEF Apart, Closing, NoneDue, InSession, OthersKeep
<1> QED
  BY <1>7 DEF Steady

LEMMA ClientLeavesAnew ==
    ASSUME WireType, WireType', NEW c \in Endpoint, Leaves(Peer[c]),
           wire[Peer[c]][1].kind = "UA",
           state[c] = "AwaitingDisconnect", state'[c] = "Disconnected", OthersKeep(c),
           NumbersKept, Anew(c, Peer[c])
    PROVE  Anew(c, Peer[c])'
<1> DEFINE s == Peer[c]
<1>1. s \in Endpoint /\ Peer[s] = c /\ Kept(c) /\ Kept(s) /\ wire[s] # <<>>
  <2>1. s \in Endpoint /\ Peer[s] = c /\ wire[s] # <<>>
    BY TwoRoles DEF Leaves
  <2> QED
    BY <2>1, LeavesKeeps
<1>2. AnewClosing(c, s) /\ Numbers({})
  BY <1>1 DEF Anew, AnewApart, AnewOpening, AnewInUse, Left, Ahead
<1>3. Ends(s, "UA")' /\ (InSession(s) => Lacks(s, "UA")')
  BY <1>1, <1>2, HeadLeaves DEF AnewClosing
<1>4. /\ Carries(c, {"SNRM", "I", "RR", "DISC"})' /\ Ends(c, "DISC")'
      /\ Carries(s, {"I", "RR", "DISC", "UA"})'
      /\ wire[c] = <<>> => wire'[c] = <<>>
  BY <1>1, <1>2 DEF AnewClosing, Kept
<1>5. Precedes(c, "DISC", "SNRM")'
  BY <1>4, EmptyWire DEF Ends, Precedes
<1>6. wire[c] = <<>> => Carries(c, {"SNRM"})'
  BY <1>4, EmptyWire DEF Carries
<1>7. ~disconnectResponsePending[c]
  BY <1>1, <1>2 DEF AnewClosing
<1>8. Left(c, s)'
  BY <1>2, <1>3, <1>4, <1>5, <1>6, <1>7 DEF Left, AnewClosing, NoneDue, InSession, OthersKeep
<1> QED
  BY <1>2, <1>8 DEF Anew, NumbersKept

\* One that the server takes: it was waiting for it from a client that left.
LEMMA ServerLeavesSteady ==
    ASSUME WireType, WireType', NEW c \in Endpoint, Leaves(c), wire[c][1].kind = "UA",
           state'[Peer[c]] = "Disconnected", OthersKeep(Peer[c]), Steady(c, Peer[c])
    PROVE  Steady(c, Peer[c])'
<1> DEFINE s == Peer[c]
<1>1. s \in Endpoint /\ Peer[s] = c /\ Kept(c) /\ Kept(s)
  BY TwoRoles, LeavesKeeps
<1>2. Apart(c, s)
  BY HeadLeaves DEF Steady, Opening, InUse, Closing, Leaves
<1>3. /\ wire'[s] = <<>> /\ Carries(c, {"I", "RR", "DISC", "UA", "SNRM"})'
      /\ Ends(c, "SNRM")' /\ Precedes(c, "UA", "SNRM")'
      /\ Lacks(c, "SNRM") => Lacks(c, "SNRM")'
      /\ wire[c] = <<>> => wire'[c] = <<>>
  BY <1>1, <1>2 DEF Apart, Kept
<1>4. Apart(c, s)'
  BY <1>1, <1>2, <1>3 DEF Apart, NoneDue, OthersKeep
<1> QED
  BY <1>4 DEF Steady

LEMMA ServerLeavesAnew ==
    ASSUME WireType, WireType', NEW c \in Endpoint, Leaves(c), wire[c][1].kind = "UA",
           state'[Peer[c]] = "Disconnected", OthersKeep(Peer[c]), Anew(c, Peer[c])
    PROVE  Anew(c, Peer[c])'
<1> DEFINE s == Peer[c]
<1>1. s \in Endpoint /\ Peer[s] = c /\ Kept(c) /\ Kept(s)
  BY TwoRoles, LeavesKeeps
<1>2. AnewApart(c, s)
  BY HeadLeaves DEF Anew, AnewOpening, AnewInUse, AnewClosing, Left, Ahead
<1>3. Carries(c, {"SNRM"})'
  BY <1>2, HeadLeaves DEF AnewApart
<1>4. /\ Carries(c, {"I", "RR", "DISC", "UA", "SNRM"})' /\ Precedes(c, "UA", "SNRM")'
      /\ Precedes(c, "SNRM", "SNRM")'
  BY <1>3 DEF Carries, Precedes
<1>5. wire'[s] = <<>>
  BY <1>1, <1>2 DEF AnewApart, Kept
<1>6. AnewApart(c, s)'
  BY <1>1, <1>2, <1>3, <1>4, <1>5 DEF AnewApart, NoneDue, OthersKeep
<1> QED
  BY <1>6 DEF Anew

-----------------------------------------------------------------------------
\* A DISC that the client takes.
LEMMA ClientDiscSteady ==
    ASSUME WireType, WireType', NEW c \in Endpoint, Leaves(Peer[c]),
           wire[Peer[c]][1].kind = "DISC", state[c] = "Connected",
           state' = state, connectResponsePending' = connectResponsePending,
           disconnectResponsePending'[Peer[c]] = disconnectResponsePending[Peer[c]],
           restarts' = restarts, NumbersKept, Steady(c, Peer[c])
    PROVE  Steady(c, Peer[c])'
<1> DEFINE s == Peer[c]
<1>1. s \in Endpoint /\ Peer[s] = c /\ Kept(c) /\ Kept(s)
  BY TwoRoles, LeavesKeeps
<1>2. InUse(c, s) /\ Numbers({})
  BY DEF Steady, Apart, Opening, Closing
<1>3. wire'[s] = <<>> /\ state[s] # "Connected"
  BY <1>1, <1>2, HeadLeaves DEF InUse
<1>4. Carries(c, {"I", "RR"})' /\ Carries(s, {"I", "RR", "DISC"})' /\ Ends(s, "DISC")'
  BY <1>1, <1>2 DEF InUse, Kept
<1>5. InUse(c, s)'
  BY <1>2, <1>3, <1>4 DEF InUse, NoneDue, InSession
<1> QED
  BY <1>2, <1>5 DEF Steady, NumbersKept

LEMMA ClientDiscAnew ==
    ASSUME WireType, WireType', NEW c \in Endpoint, Leaves(Peer[c]),
           wire[Peer[c]][1].kind = "DISC", state[c] = "Connected",
           state' = state, connectResponsePending' = connectResponsePending,
           disconnectResponsePending'[Peer[c]] = disconnectResponsePending[Peer[c]],
           NumbersKept, Anew(c, Peer[c])
    PROVE  Anew(c, Peer[c])'
<1> DEFINE s == Peer[c]
<1>1. s \in Endpoint /\ Peer[s] = c /\ Kept(c) /\ Kept(s) /\ wire[s] # <<>>
  <2>1. s \in Endpoint /\ Peer[s] = c /\ wire[s] # <<>>
    BY TwoRoles DEF Leaves
  <2> QED
    BY <2>1, LeavesKeeps
<1>2. AnewInUse(c, s) /\ Numbers({})
  BY <1>1 DEF Anew, AnewApart, AnewOpening, AnewClosing, Left, Ahead
<1>3. wire'[s] = <<>> /\ state[s] = "AwaitingDisconnect"
  BY <1>1, <1>2, HeadLeaves DEF AnewInUse, InSession
<1>4. /\ Carries(c, {"SNRM", "I", "RR"})' /\ Carries(s, {"I", "RR", "UA", "DISC"})'
      /\ Begins(s, "UA")' /\ Ends(s, "DISC")'
  BY <1>1, <1>2 DEF AnewInUse, Kept
<1>5. AnewInUse(c, s)'
  BY <1>2, <1>3, <1>4 DEF AnewInUse, NoneDue, InSession
<1> QED
  BY <1>2, <1>5 DEF Anew, NumbersKept

\* One that the server takes.
LEMMA ServerDiscSteady ==
    ASSUME WireType, WireType', NEW c \in Endpoint, Leaves(c),
           wire[c][1].kind = "DISC", state[Peer[c]] = "Connected",
           state' = state, connectResponsePending' = connectResponsePending,
           disconnectResponsePending'[c] = disconnectResponsePending[c],
           restarts' = restarts, NumbersKept, Steady(c, Peer[c])
    PROVE  Steady(c, Peer[c])'
<1> DEFINE s == Peer[c]
<1>1. Kept(c) /\ Kept(s) /\ wire[c] # <<>>
  BY LeavesKeeps DEF Leaves
<1>2. Closing(c, s) /\ Numbers({})
  BY <1>1, HeadLeaves DEF Steady, Apart, Opening, InUse
<1>3. wire'[c] = <<>> /\ ~disconnectResponsePending[c]
  BY <1>2, HeadLeaves DEF Closing
<1>4. /\ Carries(c, {"I", "RR", "DISC"})' /\ Ends(c, "DISC")'
      /\ Carries(s, {"I", "RR", "DISC", "UA"})' /\ Ends(s, "UA")'
      /\ Lacks(s, "UA") => Lacks(s, "UA")'
  BY <1>1, <1>2 DEF Closing, Kept
<1>5. Closing(c, s)'
  BY <1>2, <1>3, <1>4 DEF Closing, InSession
<1> QED
  BY <1>2, <1>5 DEF Steady, NumbersKept

LEMMA ServerDiscAnew ==
    ASSUME WireType, WireType', NEW c \in Endpoint, Leaves(c),
           wire[c][1].kind = "DISC", state[Peer[c]] = "Connected",
           state' = state, connectResponsePending' = connectResponsePending,
           disconnectResponsePending'[c] = disconnectResponsePending[c],
           NumbersKept, Anew(c, Peer[c])
    PROVE  Anew(c, Peer[c])'
<1> DEFINE s == Peer[c]
<1>1. Kept(c) /\ Kept(s) /\ wire[c] # <<>>
  BY LeavesKeeps DEF Leaves
<1>2. (AnewClosing(c, s) /\ Numbers({})) \/ (Left(c, s) /\ Numbers({}))
  BY <1>1, HeadLeaves DEF Anew, AnewApart, AnewOpening, AnewInUse, Ahead
<1>3. CASE AnewClosing(c, s) /\ Numbers({})
  <2>1. wire'[c] = <<>> /\ ~disconnectResponsePending[c]
    BY <1>3, HeadLeaves DEF AnewClosing
  <2>2. UaOutermost(s)'
    BY <1>3, TwoRoles, ShiftIsThinned, ThinnedPairs DEF AnewClosing, Leaves
  <2>3. /\ Carries(c, {"SNRM", "I", "RR", "DISC"})' /\ Ends(c, "DISC")'
        /\ Carries(s, {"I", "RR", "DISC", "UA"})'
        /\ Begins(s, "UA") => Begins(s, "UA")'
    BY <1>1, <1>3 DEF AnewClosing, Kept
  <2>4. AnewClosing(c, s)'
    BY <1>3, <2>1, <2>2, <2>3 DEF AnewClosing, InSession
  <2> QED
    BY <1>3, <2>4 DEF Anew, NumbersKept
<1>4. CASE Left(c, s) /\ Numbers({})
  <2>1. Carries(c, {"SNRM"})'
    BY <1>4, HeadLeaves DEF Left
  <2>2. /\ Carries(c, {"SNRM", "I", "RR", "DISC"})' /\ Precedes(c, "DISC", "SNRM")'
        /\ Carries(s, {"I", "RR", "DISC", "UA"})' /\ Ends(s, "UA")'
        /\ Lacks(s, "UA") => Lacks(s, "UA")'
    BY <1>1, <1>4 DEF Left, Kept
  <2>3. Left(c, s)'
    BY <1>4, <2>1, <2>2 DEF Left, NoneDue, InSession
  <2> QED
    BY <1>4, <2>3 DEF Anew, NumbersKept
<1> QED
  BY <1>2, <1>3, <1>4

-----------------------------------------------------------------------------
\* The server is constructed anew.
LEMMA ServerRestarts ==
    ASSUME WireType, WireType', NEW c \in Endpoint, Thinned(c), Thinned(Peer[c]),
           state'[Peer[c]] = "Disconnected", state'[c] = state[c], NoneDue(Peer[c])',
           connectResponsePending'[c] = connectResponsePending[c],
           disconnectResponsePending'[c] = disconnectResponsePending[c],
           restarts'[Peer[c]] # 0, NumbersKept, Steady(c, Peer[c])
    PROVE  Steady(c, Peer[c])'
<1> DEFINE s == Peer[c]
<1>1. s \in Endpoint /\ Kept(c) /\ Kept(s)
  BY TwoRoles, ThinnedIsKept
<1>2. CASE Apart(c, s)
  <2>1. /\ wire'[s] = <<>> /\ Carries(c, {"I", "RR", "DISC", "UA", "SNRM"})'
        /\ Ends(c, "SNRM")' /\ Precedes(c, "UA", "SNRM")'
        /\ Lacks(c, "SNRM") => Lacks(c, "SNRM")'
    BY <1>1, <1>2 DEF Apart, Kept
  <2>2. Apart(c, s)'
    BY <1>2, <2>1 DEF Apart, NoneDue
  <2> QED
    BY <2>2 DEF Steady
<1>3. CASE Opening(c, s) /\ Numbers({c})
  <2>1. /\ wire'[c] = <<>> /\ Carries(s, {"I", "RR", "UA", "DISC"})'
        /\ Begins(s, "UA")' /\ Ends(s, "DISC")'
    BY <1>1, <1>3 DEF Opening, Kept
  <2>2. Opening(c, s)'
    BY <1>3, <2>1 DEF Opening, NoneDue
  <2> QED
    BY <1>3, <2>2 DEF Steady, NumbersKept
<1>4. CASE InUse(c, s) /\ Numbers({})
  <2>1. /\ Carries(c, {"I", "RR"})' /\ Carries(s, {"I", "RR", "DISC"})' /\ Ends(s, "DISC")'
        /\ wire[s] = <<>> => wire'[s] = <<>>
    BY <1>1, <1>4 DEF InUse, Kept
  <2>2. InUse(c, s)'
    BY <1>4, <2>1 DEF InUse, NoneDue
  <2> QED
    BY <1>4, <2>2 DEF Steady, NumbersKept
<1>5. CASE Closing(c, s) /\ Numbers({})
  <2>1. /\ Carries(c, {"I", "RR", "DISC"})' /\ Ends(c, "DISC")'
        /\ Carries(s, {"I", "RR", "DISC", "UA"})' /\ Ends(s, "UA")'
        /\ wire[s] = <<>> => wire'[s] = <<>>
    BY <1>1, <1>5 DEF Closing, Kept
  <2>2. Closing(c, s)'
    BY <1>5, <2>1 DEF Closing, InSession, NoneDue
  <2> QED
    BY <1>5, <2>2 DEF Steady, NumbersKept
<1> QED
  BY <1>2, <1>3, <1>4, <1>5 DEF Steady

\* The client is constructed anew, the server having never been.
LEMMA ClientRestarts ==
    ASSUME WireType, WireType', NEW c \in Endpoint, Thinned(c), Thinned(Peer[c]),
           state'[c] = "Disconnected", state'[Peer[c]] = state[Peer[c]], NoneDue(c)',
           connectResponsePending'[Peer[c]] = connectResponsePending[Peer[c]],
           disconnectResponsePending'[Peer[c]] = disconnectResponsePending[Peer[c]],
           restarts[Peer[c]] = 0, NumbersKept, Steady(c, Peer[c])
    PROVE  Anew(c, Peer[c])'
<1> DEFINE s == Peer[c]
<1>1. s \in Endpoint /\ Kept(c) /\ Kept(s)
  BY TwoRoles, ThinnedIsKept
<1>2. CASE Apart(c, s)
  <2>1. /\ wire'[s] = <<>> /\ Carries(c, {"I", "RR", "DISC", "UA", "SNRM"})'
        /\ Ends(c, "SNRM")' /\ Precedes(c, "UA", "SNRM")'
        /\ wire[c] = <<>> => wire'[c] = <<>>
    BY <1>1, <1>2 DEF Apart, Kept
  <2>2. Precedes(c, "SNRM", "SNRM")' /\ (wire[c] = <<>> => Carries(c, {"SNRM"})')
    BY <2>1, EmptyWire DEF Ends, Precedes, Carries
  <2>3. AnewApart(c, s)'
    BY <1>2, <2>1, <2>2 DEF Apart, AnewApart, NoneDue
  <2> QED
    BY <2>3 DEF Anew
<1>3. CASE Opening(c, s) /\ Numbers({c})
  <2>1. /\ wire'[c] = <<>> /\ Carries(s, {"I", "RR", "UA", "DISC"})'
        /\ Begins(s, "UA")' /\ Ends(s, "DISC")'
        /\ state[s] = "Connected" => Lacks(s, "DISC")'
    BY <1>1, <1>3 DEF Opening, Kept
  <2>2. InSession(s)
    BY <1>3 DEF Opening
  <2>3. Carries(c, {"SNRM"})'
    BY <2>1, EmptyWire DEF Carries
  <2>4. Paired(s)'
    <3>1. Len(wire'[s]) \in Nat
      BY <1>1, EmptyWire
    <3> SUFFICES ASSUME NEW i \in 1 .. Len(wire'[s]), NEW j \in 1 .. Len(wire'[s]), i < j
                 PROVE  /\ wire'[s][j].kind # "UA"
                        /\ wire'[s][j].kind = "DISC" =>
                               j = Len(wire'[s]) /\ state'[s] = "AwaitingDisconnect"
      BY DEF Paired
    <3>2. j # 1
      BY <3>1
    <3>3. wire'[s][j].kind = "DISC" => state[s] = "AwaitingDisconnect"
      BY <2>1, <2>2 DEF InSession, Lacks
    <3> QED
      BY <2>1, <3>2, <3>3 DEF Begins, Ends
  <2>5. AnewOpening(c, s)'
    BY <1>3, <2>1, <2>2, <2>3, <2>4 DEF Opening, AnewOpening, NoneDue, InSession
  <2> QED
    BY <1>3, <2>5 DEF Anew, NumbersKept
<1>4. CASE InUse(c, s) /\ Numbers({})
  <2>1. Carries(c, {"I", "RR"})' /\ Carries(s, {"I", "RR", "DISC"})'
    BY <1>1, <1>4 DEF InUse, Kept
  <2>2. /\ Carries(c, {"SNRM", "I", "RR", "DISC"})' /\ Precedes(c, "DISC", "SNRM")'
        /\ Carries(s, {"I", "RR", "DISC", "UA"})' /\ Ends(s, "UA")' /\ Lacks(s, "UA")'
    BY <2>1 DEF Carries, Precedes, Ends, Lacks
  <2>3. InSession(s) /\ NoneDue(s)
    BY <1>4 DEF InUse
  <2>4. Left(c, s)'
    BY <2>2, <2>3 DEF Left, NoneDue, InSession
  <2> QED
    BY <1>4, <2>4 DEF Anew, NumbersKept
<1>5. CASE Closing(c, s) /\ Numbers({})
  <2>1. /\ Carries(c, {"I", "RR", "DISC"})' /\ Ends(c, "DISC")'
        /\ Carries(s, {"I", "RR", "DISC", "UA"})' /\ Ends(s, "UA")'
        /\ Lacks(s, "UA") => Lacks(s, "UA")'
        /\ wire[c] = <<>> => wire'[c] = <<>>
    BY <1>1, <1>5 DEF Closing, Kept
  <2>2. /\ Carries(c, {"SNRM", "I", "RR", "DISC"})' /\ Precedes(c, "DISC", "SNRM")'
        /\ wire[c] = <<>> => Carries(c, {"SNRM"})'
    BY <2>1, EmptyWire DEF Carries, Precedes, Ends
  <2>3. InSession(s) \/ wire[c] = <<>>
    BY <1>5 DEF Closing
  <2>4. Left(c, s)'
    BY <1>5, <2>1, <2>2, <2>3 DEF Left, Closing, NoneDue, InSession
  <2> QED
    BY <1>5, <2>4 DEF Anew, NumbersKept
<1> QED
  BY <1>2, <1>3, <1>4, <1>5 DEF Steady

-----------------------------------------------------------------------------
(***************************************************************************)
(* The actions take these steps.                                           *)
(***************************************************************************)
LEMMA TheClient ==
    ASSUME NEW e \in Endpoint
    PROVE  \E c \in Endpoint : IsClient(c) /\ (e = c \/ e = Peer[c])
BY TwoRoles

LEMMA ChartNow ==
    ASSUME Charts, NEW c \in Endpoint, IsClient(c)
    PROVE  /\ restarts[c] = 0 => Steady(c, Peer[c])
           /\ restarts[c] # 0 => Anew(c, Peer[c])
BY DEF Charts, Chart

LEMMA ChartNext ==
    ASSUME NEW c \in Endpoint, IsClient(c),
           restarts'[c] = 0 => Steady(c, Peer[c])',
           restarts'[c] # 0 => Anew(c, Peer[c])'
    PROVE  Charts'
<1>1. \A x \in Endpoint : IsClient(x) => x = c
  BY TwoRoles
<1> QED
  BY <1>1 DEF Charts, Chart, IsClient

LEMMA ServerStates ==
    ASSUME SessionInv, NEW c \in Endpoint, IsClient(c)
    PROVE  /\ Peer[c] \in Endpoint /\ Peer[Peer[c]] = c /\ Peer[c] # c
           /\ state[Peer[c]] \in {"Disconnected", "Connected", "AwaitingDisconnect"}
           /\ connectResponsePending[Peer[c]] => state[Peer[c]] = "Disconnected"
           /\ ~connectResponsePending[c]
<1>1. /\ Peer[c] \in Endpoint /\ Peer[Peer[c]] = c /\ Peer[c] # c
      /\ Role(Peer[c]) = "Server" /\ Role(c) # "Server" /\ Role(Peer[c]) # "Client"
  BY TwoRoles DEF IsClient
<1>2. SessionInvAt(c) /\ SessionInvAt(Peer[c]) /\ TypeOK
  BY <1>1 DEF SessionInv
<1> QED
  BY <1>1, <1>2 DEF SessionInvAt, RolesAt, TypeOK, SessionState

LEMMA ConnectCharts ==
    ASSUME SessionInv, WireType, HistoryType, Charts, NEW e \in Endpoint, Connect(e)
    PROVE  Charts' /\ NumbersKept
<1>1. PICK form \in ConnectRequestForms(e) :
          BuildConnectRequest(e, form) /\ Send(e, SnrmFrame(e, form))
  BY DEF Connect
<1> DEFINE f == SnrmFrame(e, form)
<1>2. f \in Frame /\ f.kind = "SNRM" /\ Send(e, f)
  BY <1>1, SnrmType
<1> HIDE DEF f
<1>3. /\ state[e] = "Disconnected" /\ state' = [state EXCEPT ![e] = "AwaitingConnection"]
      /\ ResetSequences(e) /\ UNCHANGED <<connectResponsePending, disconnectResponsePending>>
      /\ UNCHANGED <<restarts, history>> /\ Role(e) = "Client" /\ TypeOK
  BY <1>1 DEF BuildConnectRequest, Connect, pending, SessionInv
<1>4. WireType' /\ Joined(e, f) /\ Thinned(Peer[e]) /\ ~Sequenced(f)
  BY <1>2, SendJoins DEF Sequenced
<1>5. IsClient(e) /\ \A x \in Endpoint : x = e \/ x = Peer[e]
  BY <1>3, TwoRoles DEF IsClient
<1>6. Peer[e] \in Endpoint /\ Peer[e] # e
  BY TwoRoles
<1>7. state'[e] = "AwaitingConnection" /\ state'[Peer[e]] = state[Peer[e]]
  BY <1>3, <1>6 DEF TypeOK
<1>8. NumbersKept
  <2>1. ASSUME NEW x \in Endpoint
        PROVE  /\ InSession(x)' => /\ InSession(x)
                                   /\ sendSequence'[x] = sendSequence[x]
                                   /\ receiveSequence'[x] = receiveSequence[x]
                                   /\ acknowledgeSequence'[x] = acknowledgeSequence[x]
               /\ Thinned(x) \/ \E g \in Frame : ~Sequenced(g) /\ Joined(x, g)
    BY <1>2, <1>3, <1>4, <1>5, <1>6, <1>7 DEF InSession, ResetSequences, TypeOK
  <2> QED
    BY <1>3, <1>4, <2>1, PlainNumbers
<1>9. OthersKeep(e)
  BY <1>3, <1>7 DEF OthersKeep
<1>10. restarts[e] = 0 => Steady(e, Peer[e])'
  BY <1>2, <1>3, <1>4, <1>5, <1>7, <1>9, ChartNow, ConnectSteady
<1>11. restarts[e] # 0 => Anew(e, Peer[e])'
  BY <1>2, <1>3, <1>4, <1>5, <1>7, <1>8, <1>9, ChartNow, ConnectAnew
<1> QED
  BY <1>3, <1>5, <1>8, <1>10, <1>11, ChartNext

LEMMA AcceptCharts ==
    ASSUME SessionInv, WireType, HistoryType, Opened, Charts, NEW e \in Endpoint,
           AcceptConnection(e)
    PROVE  /\ Charts'
           /\ state[e] # "Connected" /\ state'[e] = "Connected"
           /\ \A x \in Endpoint : x # e => state'[x] = state[x]
<1> DEFINE f == ConnectResponseFrame(e)
           c == Peer[e]
<1>1. BuildConnectResponse(e) /\ Send(e, f) /\ CountSession(e) /\ UNCHANGED <<restarts, accepted>>
  BY DEF AcceptConnection
<1>2. f \in Frame /\ f.kind = "UA" /\ TypeOK
  BY ConnectResponseType DEF SessionInv
<1> HIDE DEF f
<1>3. c \in Endpoint /\ Peer[c] = e /\ c # e /\ \A x \in Endpoint : x = e \/ x = c
  BY TwoRoles
<1>4. IsClient(c)
  BY <1>1, <1>3, TwoRoles DEF BuildConnectResponse, IsClient
<1>5. /\ connectResponsePending[e] /\ state' = [state EXCEPT ![e] = "Connected"]
      /\ connectResponsePending' = [connectResponsePending EXCEPT ![e] = FALSE]
      /\ ResetSequences(e) /\ UNCHANGED disconnectResponsePending
  BY <1>1 DEF BuildConnectResponse
<1>6. state[e] = "Disconnected"
  BY <1>3, <1>4, <1>5, ServerStates
<1>7. /\ state'[e] = "Connected" /\ state'[c] = state[c]
      /\ ~connectResponsePending'[e] /\ connectResponsePending'[c] = connectResponsePending[c]
  BY <1>2, <1>3, <1>5 DEF TypeOK
<1>8. /\ opened'[e] = opened[e] + 1 /\ sent'[e] = 0 /\ acknowledged'[e] = 0
      /\ opened'[c] = opened[c] /\ sent'[c] = sent[c] /\ acknowledged'[c] = acknowledged[c]
      /\ accepted' = accepted
  BY <1>1, <1>3, <1>6, <1>7 DEF CountSession, HistoryType
<1>9. /\ sendSequence'[e] = 0 /\ receiveSequence'[e] = 0 /\ acknowledgeSequence'[e] = 0
      /\ sendSequence'[c] = sendSequence[c] /\ receiveSequence'[c] = receiveSequence[c]
      /\ acknowledgeSequence'[c] = acknowledgeSequence[c]
  BY <1>2, <1>3, <1>5 DEF ResetSequences, TypeOK
<1>10. WireType' /\ Joined(e, f) /\ Thinned(c) /\ wire'[c] = wire[c] /\ ~Sequenced(f)
  BY <1>1, <1>2, SendJoins DEF Sequenced
<1>11. ~InSession(c) /\ Carries(c, {"SNRM"}) => Numbers({c})'
  <2> SUFFICES ASSUME ~InSession(c), Carries(c, {"SNRM"}) PROVE Numbers({c})'
    OBVIOUS
  <2>1. /\ Sent(e, {c})' = 0 /\ Known(e, {c})' = 0 /\ Taken(e, {c})' = 0
        /\ Sent(c, {c})' = 0 /\ Known(c, {c})' = 0 /\ Taken(c, {c})' = 0
    BY <1>8, OpenedCounts DEF Sent, Known, Taken
  <2>2. \A i \in 1 .. Len(wire'[c]) : ~Sequenced(wire'[c][i])
    BY <1>10 DEF Carries, Sequenced
  <2>3. \A i \in 1 .. Len(wire'[e]) : Live(e, i)' => ~Sequenced(wire'[e][i])
    <3>1. /\ Len(wire[e]) \in Nat /\ Len(wire'[e]) = Len(wire[e]) + 1
          /\ wire'[e][Len(wire[e]) + 1] = f
      BY <1>10, EmptyWire DEF Joined
    <3>2. Len(wire[e]) + 1 \in 1 .. Len(wire'[e])
      BY <3>1
    <3>3. \A i \in 1 .. Len(wire'[e]) : i = Len(wire[e]) + 1 \/ i < Len(wire[e]) + 1
      BY <3>1
    <3> QED
      BY <1>2, <1>10, <3>1, <3>2, <3>3 DEF Live
  <2>4. ~InSession(c)' /\ e \notin {c}
    BY <1>3, <1>7 DEF InSession
  <2>5. ASSUME NEW x \in Endpoint
        PROVE  /\ Sent(x, {c})' = 0 /\ Known(x, {c})' = 0 /\ Taken(x, {c})' = 0
               /\ InSession(x)' => /\ x \notin {c}
                                   /\ sendSequence'[x] = 0 /\ receiveSequence'[x] = 0
                                   /\ acknowledgeSequence'[x] = 0
               /\ \A i \in 1 .. Len(wire'[x]) : Live(x, i)' => ~Sequenced(wire'[x][i])
    <3>1. CASE x = e
      BY <1>9, <2>1, <2>3, <2>4, <3>1
    <3>2. CASE x = c
      BY <2>1, <2>2, <2>4, <3>2
    <3> QED
      BY <1>3, <3>1, <3>2
  <2> HIDE DEF c
  <2> QED
    BY <2>5, ScratchNumbers
<1>12. Numbers({e}) => Numbers({})'
  <2> SUFFICES ASSUME Numbers({e}) PROVE Numbers({})'
    OBVIOUS
  <2>1. ASSUME NEW x \in Endpoint PROVE Thinned(x) \/ \E g \in Frame : ~Sequenced(g) /\ Joined(x, g)
    BY <1>2, <1>3, <1>10
  <2>2. InSession(Peer[e])' => InSession(Peer[e])
    BY <1>7 DEF InSession
  <2> QED
    BY <1>8, <1>9, <1>10, <2>1, <2>2, BegunNumbers
<1>13. restarts[c] = 0 => Steady(c, Peer[c])'
  BY <1>1, <1>2, <1>3, <1>4, <1>5, <1>7, <1>10, <1>11, ChartNow, AcceptSteady
<1>14. restarts[c] # 0 => Anew(c, Peer[c])'
  BY <1>1, <1>2, <1>3, <1>4, <1>5, <1>6, <1>7, <1>10, <1>11, <1>12, ChartNow, AcceptAnew
<1>15. Charts'
  BY <1>1, <1>3, <1>4, <1>13, <1>14, ChartNext
<1> QED
  BY <1>3, <1>6, <1>7, <1>15

LEMMA SpeaksCharts ==
    ASSUME SessionInv, WireType, Charts, NEW e \in Endpoint, NEW f \in Frame, Speaks(e, f),
           \A x \in Endpoint : x # e => state'[x] = state[x],
           UNCHANGED <<connectResponsePending, disconnectResponsePending, restarts>>, NumbersKept
    PROVE  Charts'
<1>1. PICK c \in Endpoint : IsClient(c) /\ (e = c \/ e = Peer[c])
  BY TheClient
<1>2. Peer[c] \in Endpoint /\ Peer[Peer[c]] = c /\ Peer[c] # c
  BY TwoRoles
<1>3. WireType' /\ Thinned(Peer[e])
  BY SendJoins DEF Speaks
<1>4. OthersKeep(e)
  BY <1>1, <1>2 DEF OthersKeep
<1>5. CASE e = c
  BY <1>1, <1>3, <1>4, <1>5, ChartNow, ChartNext, ClientSteady, ClientAnew
<1>6. CASE e = Peer[c]
  <2>1. Thinned(c) /\ OthersKeep(Peer[c])
    BY <1>2, <1>3, <1>4, <1>6
  <2> QED
    BY <1>1, <1>3, <1>6, <2>1, ChartNow, ChartNext, ServerSteady, ServerAnew
<1> QED
  BY <1>1, <1>5, <1>6

LEMMA DisconnectCharts ==
    ASSUME SessionInv, WireType, HistoryType, Charts, NEW e \in Endpoint, Disconnect(e)
    PROVE  Charts' /\ NumbersKept
<1>1. PICK user \in UserSizes : BuildDisconnectRequest(e, user) /\ Send(e, DiscFrame(e, user))
  BY DEF Disconnect
<1> DEFINE f == DiscFrame(e, user)
<1>2. f \in Frame /\ f.kind = "DISC" /\ Send(e, f) /\ TypeOK
  BY <1>1, DiscType DEF SessionInv
<1> HIDE DEF f
<1>3. /\ state[e] = "Connected" /\ state' = [state EXCEPT ![e] = "AwaitingDisconnect"]
      /\ UNCHANGED <<sequences, connectResponsePending, disconnectResponsePending>>
      /\ UNCHANGED <<restarts, history>>
  BY <1>1 DEF BuildDisconnectRequest, Disconnect, pending
<1>4. WireType' /\ Joined(e, f) /\ Thinned(Peer[e]) /\ ~Sequenced(f)
  BY <1>2, SendJoins DEF Sequenced
<1>5. state'[e] = "AwaitingDisconnect" /\ \A x \in Endpoint : x # e => state'[x] = state[x]
  BY <1>2, <1>3 DEF TypeOK
<1>6. NumbersKept
  <2>1. ASSUME NEW x \in Endpoint
        PROVE  /\ InSession(x)' => /\ InSession(x)
                                   /\ sendSequence'[x] = sendSequence[x]
                                   /\ receiveSequence'[x] = receiveSequence[x]
                                   /\ acknowledgeSequence'[x] = acknowledgeSequence[x]
               /\ Thinned(x) \/ \E g \in Frame : ~Sequenced(g) /\ Joined(x, g)
    BY <1>2, <1>3, <1>4, <1>5, TwoRoles DEF InSession, sequences
  <2> QED
    BY <1>3, <1>4, <2>1, PlainNumbers
<1>7. Speaks(e, f)
  BY <1>2, <1>3, <1>5 DEF Speaks
<1> QED
  BY <1>2, <1>3, <1>5, <1>6, <1>7, SpeaksCharts

LEMMA SequencedCharts ==
    ASSUME SessionInv, WireType, HistoryType, Opened, Narrow, Charts, NEW e \in Endpoint,
           SendMessage(e) \/ AcknowledgeReceipt(e)
    PROVE  Charts' /\ NumbersKept
<1>1. TypeOK
  BY DEF SessionInv
<1>2. NumbersKept
  BY <1>1, MessageNumbers, ReceiptNumbers
<1>3. /\ state[e] = "Connected"
      /\ UNCHANGED <<state, connectResponsePending, disconnectResponsePending, restarts>>
  BY DEF SendMessage, BuildInformationFrame, AcknowledgeReceipt, BuildReceiveReadyFrame, pending,
         sessionVars
<1>4. \E f \in Frame : f.kind \in {"I", "RR"} /\ Send(e, f)
  <2>1. CASE SendMessage(e)
    <3>1. sent[e] < MaxMessages[e] /\ InSession(e)
      BY <1>3, <2>1 DEF SendMessage, InSession
    <3> QED
      BY <1>1, <2>1, <3>1, MessageInBounds, IFrameType DEF SendMessage
  <2>2. CASE AcknowledgeReceipt(e)
    BY <1>1, <2>2, ReceiveReadyType DEF AcknowledgeReceipt
  <2> QED
    BY <2>1, <2>2
<1>5. PICK f \in Frame : f.kind \in {"I", "RR"} /\ Send(e, f)
  BY <1>4
<1>6. Speaks(e, f)
  BY <1>3, <1>5 DEF Speaks
<1> QED
  BY <1>2, <1>3, <1>5, <1>6, SpeaksCharts

LEMMA AnswerCharts ==
    ASSUME SessionInv, WireType, HistoryType, Charts, NEW e \in Endpoint, AnswerDisconnect(e)
    PROVE  Charts' /\ NumbersKept
<1> DEFINE f == DisconnectResponseFrame(e)
<1>1. BuildDisconnectResponse(e) /\ Send(e, f) /\ UNCHANGED <<restarts, history>>
  BY DEF AnswerDisconnect
<1>2. f \in Frame /\ f.kind = "UA" /\ TypeOK
  BY DisconnectResponseType DEF SessionInv
<1> HIDE DEF f
<1>3. /\ disconnectResponsePending[e] /\ state' = [state EXCEPT ![e] = "Disconnected"]
      /\ disconnectResponsePending' = [disconnectResponsePending EXCEPT ![e] = FALSE]
      /\ ResetSequences(e) /\ connectResponsePending' = connectResponsePending
  BY <1>1 DEF BuildDisconnectResponse
<1>4. WireType' /\ Joined(e, f) /\ Thinned(Peer[e]) /\ ~Sequenced(f)
  BY <1>1, <1>2, SendJoins DEF Sequenced
<1>5. /\ state'[e] = "Disconnected" /\ \A x \in Endpoint : x # e => state'[x] = state[x]
      /\ ~disconnectResponsePending'[e]
      /\ \A x \in Endpoint : x # e => disconnectResponsePending'[x] = disconnectResponsePending[x]
  BY <1>2, <1>3 DEF TypeOK
<1>6. NumbersKept
  <2>1. ASSUME NEW x \in Endpoint
        PROVE  /\ InSession(x)' => /\ InSession(x)
                                   /\ sendSequence'[x] = sendSequence[x]
                                   /\ receiveSequence'[x] = receiveSequence[x]
                                   /\ acknowledgeSequence'[x] = acknowledgeSequence[x]
               /\ Thinned(x) \/ \E g \in Frame : ~Sequenced(g) /\ Joined(x, g)
    BY <1>2, <1>3, <1>4, <1>5, TwoRoles DEF InSession, ResetSequences, TypeOK
  <2> QED
    BY <1>1, <1>4, <2>1, PlainNumbers
<1>7. PICK c \in Endpoint : IsClient(c) /\ (e = c \/ e = Peer[c])
  BY TheClient
<1>8. /\ Peer[c] \in Endpoint /\ Peer[Peer[c]] = c /\ Peer[c] # c
      /\ state[Peer[c]] # "AwaitingConnection"
  BY <1>7, ServerStates
<1>9. CASE e = c
  <2>1. restarts[c] = 0 => Steady(c, Peer[c])'
    BY <1>1, <1>2, <1>3, <1>4, <1>5, <1>7, <1>8, <1>9, ChartNow, ClientAnswersSteady
  <2>2. restarts[c] # 0 => Anew(c, Peer[c])'
    BY <1>1, <1>2, <1>3, <1>4, <1>5, <1>7, <1>8, <1>9, ChartNow, ClientAnswersAnew
  <2> QED
    BY <1>1, <1>6, <1>7, <2>1, <2>2, ChartNext
<1>10. CASE e = Peer[c]
  <2>1. Send(Peer[c], f) /\ Thinned(c)
    BY <1>1, <1>4, <1>8, <1>10
  <2>2. restarts[c] = 0 => Steady(c, Peer[c])'
    BY <1>2, <1>3, <1>4, <1>5, <1>6, <1>7, <1>8, <1>10, <2>1, ChartNow, ServerAnswersSteady
  <2>3. restarts[c] # 0 => Anew(c, Peer[c])'
    BY <1>2, <1>3, <1>4, <1>5, <1>6, <1>7, <1>8, <1>10, <2>1, ChartNow, ServerAnswersAnew
  <2> QED
    BY <1>1, <1>6, <1>7, <2>2, <2>3, ChartNext
<1> QED
  BY <1>6, <1>7, <1>9, <1>10

-----------------------------------------------------------------------------
\* A frame is lost, or arrives and leaves the flags as they are.
LEMMA LeavesCharts ==
    ASSUME WireType, WireType', Charts, NEW x \in Endpoint, Leaves(x), NumbersKept,
           UNCHANGED <<state, connectResponsePending, disconnectResponsePending, restarts>>
    PROVE  Charts'
<1>1. PICK c \in Endpoint : IsClient(c) /\ (x = c \/ x = Peer[c])
  BY TheClient
<1>2. Thinned(c) /\ Thinned(Peer[c]) /\ Peer[c] \in Endpoint
  BY <1>1, TwoRoles, ShiftIsThinned DEF Leaves
<1>3. Kept(c) /\ Kept(Peer[c])
  BY <1>2, ThinnedIsKept
<1>4. UNCHANGED <<Flags(c), Flags(Peer[c])>>
  BY DEF Flags
<1>5. restarts[c] = 0 => Steady(c, Peer[c])'
  BY <1>1, <1>2, <1>3, <1>4, ChartNow, ThinnedSteady
<1>6. restarts[c] # 0 => Anew(c, Peer[c])'
  BY <1>1, <1>2, <1>3, <1>4, ChartNow, ThinnedAnew
<1> QED
  BY <1>1, <1>5, <1>6, ChartNext

LEMMA LoseCharts ==
    ASSUME SessionInv, WireType, HistoryType, Charts, NEW e \in Endpoint, Lose(e)
    PROVE  WireType' /\ Charts' /\ NumbersKept
<1>1. /\ Leaves(e) /\ UNCHANGED <<restarts, history>> /\ UNCHANGED sessionVars
      /\ losses < MaxLosses /\ losses' = losses + 1
  BY DEF Lose, LoseFrame, Leaves
<1>2. WireType'
  BY <1>1, ShiftEffect, LineAssumption DEF WireType, Leaves
<1>3. UNCHANGED <<state, sequences, connectResponsePending, disconnectResponsePending>>
  BY <1>1 DEF sessionVars, pending
<1>4. NumbersKept
  <2>1. Thinned(e) /\ Thinned(Peer[e]) /\ \A x \in Endpoint : x = e \/ x = Peer[e]
    BY <1>1, ShiftIsThinned, TwoRoles DEF Leaves
  <2>2. \A x \in Endpoint : Thinned(x)
    BY <2>1
  <2> QED
    BY <1>1, <1>2, <1>3, <2>2, PlainNumbers DEF InSession, sequences
<1> QED
  BY <1>1, <1>2, <1>3, <1>4, LeavesCharts

\* An endpoint is constructed anew.
LEMMA RestartWire ==
    ASSUME WireType, NEW e \in Endpoint, Restart(e)
    PROVE  WireType' /\ \A x \in Endpoint : Thinned(x)
<1>1. Peer[e] \in Endpoint /\ \A x \in Endpoint : x = e \/ x = Peer[e]
  BY TwoRoles
<1>2. wire' = wire \/ wire' = [wire EXCEPT ![Peer[e]] = <<>>]
  BY DEF Restart
<1>3. losses' = losses
  BY DEF Restart
<1>4. CASE wire' = wire
  BY <1>3, <1>4, SameIsThinned DEF WireType
<1>5. CASE wire' = [wire EXCEPT ![Peer[e]] = <<>>]
  <2>1. <<>> \in Seq(Frame)
    OBVIOUS
  <2>2. /\ wire' \in [Endpoint -> Seq(Frame)] /\ wire'[Peer[e]] = <<>>
        /\ \A x \in Endpoint : x # Peer[e] => wire'[x] = wire[x]
    BY <1>1, <1>5, <2>1 DEF WireType
  <2>3. \A x \in Endpoint : Thinned(x)
    BY <2>2, SameIsThinned, EmptiedIsThinned
  <2> QED
    BY <1>3, <2>2, <2>3 DEF WireType
<1> QED
  BY <1>2, <1>4, <1>5

LEMMA RestartCharts ==
    ASSUME OneEndAbandons, SessionInv, WireType, HistoryType, Charts,
           NEW e \in Endpoint, Restart(e)
    PROVE  Charts' /\ NumbersKept
<1>1. /\ restarts' = [restarts EXCEPT ![e] = @ + 1] /\ UNCHANGED history
      /\ \E most \in MaxRestarts : \A x \in Endpoint : restarts'[x] <= most[x]
  BY DEF Restart
<1>2. /\ state' = [state EXCEPT ![e] = "Disconnected"] /\ ResetSequences(e)
      /\ connectResponsePending' = [connectResponsePending EXCEPT ![e] = FALSE]
      /\ disconnectResponsePending' = [disconnectResponsePending EXCEPT ![e] = FALSE]
      /\ TypeOK
  BY DEF Restart, Construct, SessionInv
<1>3. WireType' /\ \A x \in Endpoint : Thinned(x)
  BY RestartWire
<1>4. PICK c \in Endpoint : IsClient(c) /\ (e = c \/ e = Peer[c])
  BY TheClient
<1>5. Peer[c] \in Endpoint /\ Peer[Peer[c]] = c /\ Peer[c] # c
  BY TwoRoles
<1>6. PICK most \in MaxRestarts : \A x \in Endpoint : restarts'[x] <= most[x]
  BY <1>1
<1>7. \A x \in Endpoint : most[x] \in Nat /\ restarts[x] \in Nat /\ restarts'[x] \in Nat
  <2>1. most \in [Endpoint -> Nat]
    BY RestartAssumption
  <2>2. restarts \in [Endpoint -> Nat]
    BY DEF HistoryType
  <2>3. \A x \in Endpoint : restarts'[x] = restarts[x] \/ restarts'[x] = restarts[x] + 1
    BY <1>1, <2>2
  <2> QED
    BY <2>1, <2>2, <2>3
<1>8. most[c] = 0 \/ (most[c] = 1 /\ most[Peer[c]] = 0)
  BY <1>4 DEF OneEndAbandons
<1>9. restarts'[e] = restarts[e] + 1 /\ \A x \in Endpoint : x # e => restarts'[x] = restarts[x]
  BY <1>1 DEF HistoryType
<1>10. /\ state'[e] = "Disconnected" /\ NoneDue(e)'
       /\ \A x \in Endpoint : x # e =>
             /\ state'[x] = state[x]
             /\ connectResponsePending'[x] = connectResponsePending[x]
             /\ disconnectResponsePending'[x] = disconnectResponsePending[x]
  BY <1>2 DEF NoneDue, TypeOK
<1>11. NumbersKept
  <2>1. ASSUME NEW x \in Endpoint
        PROVE  InSession(x)' => /\ InSession(x)
                                /\ sendSequence'[x] = sendSequence[x]
                                /\ receiveSequence'[x] = receiveSequence[x]
                                /\ acknowledgeSequence'[x] = acknowledgeSequence[x]
    BY <1>2, <1>10 DEF InSession, ResetSequences, TypeOK
  <2> QED
    BY <1>1, <1>3, <2>1, PlainNumbers
<1>12. CASE e = c
  <2>1. restarts[c] = 0 /\ restarts[Peer[c]] = 0 /\ restarts'[c] # 0
    <3>1. restarts[c] + 1 <= most[c] /\ restarts[Peer[c]] <= most[Peer[c]]
      BY <1>5, <1>6, <1>9, <1>12
    <3> QED
      BY <1>5, <1>7, <1>8, <1>9, <1>12, <3>1
  <2>2. Anew(c, Peer[c])'
    BY <1>3, <1>4, <1>5, <1>10, <1>11, <1>12, <2>1, ChartNow, ClientRestarts
  <2> QED
    BY <1>4, <1>11, <2>1, <2>2, ChartNext
<1>13. CASE e = Peer[c]
  <2>1. restarts[c] = 0 /\ restarts'[Peer[c]] # 0 /\ restarts'[c] = 0
    <3>1. restarts'[c] = restarts[c] /\ restarts'[Peer[c]] = restarts[Peer[c]] + 1
      BY <1>5, <1>9, <1>13
    <3>2. restarts[c] <= most[c] /\ restarts[Peer[c]] + 1 <= most[Peer[c]]
      BY <1>5, <1>6, <3>1
    <3> QED
      BY <1>5, <1>7, <1>8, <3>1, <3>2
  <2>2. Steady(c, Peer[c])'
    BY <1>3, <1>4, <1>5, <1>10, <1>11, <1>13, <2>1, ChartNow, ServerRestarts
  <2> QED
    BY <1>4, <1>11, <2>1, <2>2, ChartNext
<1> QED
  BY <1>4, <1>12, <1>13

-----------------------------------------------------------------------------
\* What arrives.
LEMMA WireKinds ==
    ASSUME Charts, WireType, NEW e \in Endpoint
    PROVE  Carries(e, {"I", "RR", "DISC", "UA", "SNRM"})
<1>1. PICK c \in Endpoint : IsClient(c) /\ (e = c \/ e = Peer[c])
  BY TheClient
<1>2. wire[e] = <<>> => Carries(e, {"I", "RR", "DISC", "UA", "SNRM"})
  BY EmptyWire DEF Carries
<1>3. Steady(c, Peer[c]) \/ Anew(c, Peer[c])
  BY <1>1 DEF Charts, Chart
<1>4. CASE e = c
  BY <1>2, <1>3, <1>4 DEF Steady, Apart, Opening, InUse, Closing, Anew, AnewApart, AnewOpening,
                          AnewInUse, AnewClosing, Left, Ahead, Carries
<1>5. CASE e = Peer[c]
  BY <1>2, <1>3, <1>5 DEF Steady, Apart, Opening, InUse, Closing, Anew, AnewApart, AnewOpening,
                          AnewInUse, AnewClosing, Left, Ahead, Carries
<1> QED
  BY <1>1, <1>4, <1>5

\* A session that takes a numbered frame is not the one before the next UA.
LEMMA DataIsLive ==
    ASSUME Charts, WireType, NEW e \in Endpoint, state[e] = "Connected",
           wire[Peer[e]] # <<>>, Sequenced(wire[Peer[e]][1])
    PROVE  Lacks(Peer[e], "UA")
<1>1. PICK c \in Endpoint : IsClient(c) /\ (e = c \/ e = Peer[c])
  BY TheClient
<1>2. Peer[c] \in Endpoint /\ Peer[Peer[c]] = c
  BY TwoRoles
<1>3. Steady(c, Peer[c]) \/ Anew(c, Peer[c])
  BY <1>1 DEF Charts, Chart
<1>4. CASE e = c
  <2>1. InUse(c, Peer[c]) \/ AnewInUse(c, Peer[c])
    BY <1>3, <1>4 DEF Steady, Apart, Opening, Closing, Anew, AnewApart, AnewOpening, AnewClosing,
                      Left, Ahead
  <2>2. Carries(Peer[c], {"I", "RR", "DISC"}) \/ Begins(Peer[c], "UA")
    BY <2>1 DEF InUse, AnewInUse
  <2> QED
    BY <1>4, <2>2 DEF Carries, Begins, Lacks, Sequenced
<1>5. CASE e = Peer[c]
  <2>1. Carries(c, {"SNRM", "I", "RR", "DISC"})
    BY <1>2, <1>3, <1>5 DEF Steady, Apart, Opening, InUse, Closing, Anew, AnewApart, AnewOpening,
                            AnewInUse, AnewClosing, Left, Ahead, Carries
  <2> QED
    BY <1>2, <1>5, <2>1 DEF Carries, Lacks
<1> QED
  BY <1>1, <1>4, <1>5

LEMMA TakeEffect ==
    ASSUME WireType, NEW e \in Endpoint, wire[Peer[e]] # <<>>, Take(e)
    PROVE  /\ Leaves(Peer[e]) /\ WireType' /\ Head(wire[Peer[e]]) = wire[Peer[e]][1]
           /\ wire[Peer[e]][1] \in Frame /\ \A x \in Endpoint : Thinned(x)
<1>1. Peer[e] \in Endpoint /\ Peer[Peer[e]] = e /\ \A x \in Endpoint : x = e \/ x = Peer[e]
  BY TwoRoles
<1>2. Leaves(Peer[e]) /\ losses' = losses
  BY DEF Take, Leaves
<1>3. /\ wire' \in [Endpoint -> Seq(Frame)] /\ Head(wire[Peer[e]]) = wire[Peer[e]][1]
      /\ wire[Peer[e]][1] \in Frame
  BY <1>1, <1>2, ShiftEffect DEF Leaves
<1>4. Thinned(Peer[e]) /\ Thinned(e)
  BY <1>1, <1>2, ShiftIsThinned DEF Leaves
<1> QED
  BY <1>1, <1>2, <1>3, <1>4 DEF WireType

LEMMA DataArrives ==
    ASSUME SessionInv, WireType, Charts, NEW e \in Endpoint, DeliverData(e)
    PROVE  /\ Arrives(e) /\ Leaves(Peer[e]) /\ WireType' /\ state[e] = "Connected"
           /\ UNCHANGED <<state, connectResponsePending, disconnectResponsePending, restarts>>
<1> DEFINE f == wire[Peer[e]][1]
<1>1. wire[Peer[e]] # <<>> /\ Take(e)
  BY DEF DeliverData
<1>2. /\ Leaves(Peer[e]) /\ WireType' /\ Head(wire[Peer[e]]) = f
      /\ f \in Frame /\ Peer[e] \in Endpoint
  BY <1>1, TakeEffect, TwoRoles
<1>3. /\ f.kind \in SupervisoryKind \cup {"I"} /\ Accepts(e, f) /\ ReceiveFrame(e, f)
      /\ acknowledged' =
            [acknowledged EXCEPT ![e] = @ + Distance(acknowledgeSequence[e], f.nr)]
      /\ accepted' = IF f.kind = "I"
                     THEN [accepted EXCEPT ![e] = Append(@, <<opened[e], f.payload>>)]
                     ELSE accepted
  BY <1>2 DEF DeliverData
<1>4. f.kind \in {"I", "RR"}
  <2>1. f.kind \in {"I", "RR", "DISC", "UA", "SNRM"}
    BY <1>2, WireKinds, HeadLeaves
  <2> QED
    BY <1>3, <2>1 DEF SupervisoryKind
<1> HIDE DEF f
<1>5. ReceiveInformationFrame(e, f) \/ ReceiveSupervisoryFrame(e, f)
  BY <1>3, <1>4 DEF ReceiveFrame, ReceiveSnrm, ReceiveMalformedSnrm, ReceiveConnectUa,
                    ReceiveDisconnectUa, ReceiveDisc, ReceiveDm, RejectFrame
<1>6. /\ UNCHANGED <<state, sendSequence, connectResponsePending, disconnectResponsePending>>
      /\ acknowledgeSequence' = [acknowledgeSequence EXCEPT ![e] = f.nr]
  BY <1>5 DEF ReceiveInformationFrame, ReceiveSupervisoryFrame, pending
<1>7. /\ f.kind = "I" => ReceiveInformationFrame(e, f)
      /\ f.kind # "I" => ReceiveSupervisoryFrame(e, f)
  BY <1>5 DEF ReceiveInformationFrame, ReceiveSupervisoryFrame, SupervisoryKind
<1>8. state[e] = "Connected" /\ (f.kind = "I" => f.ns = receiveSequence[e])
  BY <1>3, <1>4 DEF Accepts, AcceptsInformation, AcceptsSupervisory, SupervisoryKind,
                    UnnumberedKind
<1>9. /\ f.kind = "I" =>
           receiveSequence' = [receiveSequence EXCEPT ![e] = NextSequence(receiveSequence[e])]
      /\ f.kind # "I" => receiveSequence' = receiveSequence
  BY <1>7 DEF ReceiveInformationFrame, ReceiveSupervisoryFrame
<1>10. Sequenced(f)
  BY <1>4 DEF Sequenced
<1>11. Lacks(Peer[e], "UA")
  BY <1>1, <1>8, <1>10, DataIsLive DEF f
<1>12. UNCHANGED <<restarts, opened, sent>>
  BY DEF DeliverData
<1>13. Arrives(e)
  BY <1>1, <1>2, <1>3, <1>6, <1>8, <1>9, <1>10, <1>11, <1>12
     DEF Arrives, Leaves, InSession, f
<1> QED
  BY <1>2, <1>6, <1>8, <1>12, <1>13

LEMMA OtherArrives ==
    ASSUME SessionInv, WireType, Charts, NEW e \in Endpoint, DeliverOther(e)
    PROVE  LET f == wire[Peer[e]][1]
           IN  /\ wire[Peer[e]] # <<>> /\ f \in Frame /\ Leaves(Peer[e]) /\ WireType'
               /\ \A x \in Endpoint : Thinned(x)
               /\ f.kind \in {"I", "RR", "DISC", "UA", "SNRM"}
               /\ \/ ReceiveSnrm(e, f) \/ ReceiveMalformedSnrm(e, f) \/ ReceiveConnectUa(e, f)
                  \/ ReceiveDisconnectUa(e, f) \/ ReceiveDisc(e, f) \/ RejectFrame(e, f)
               /\ CountSession(e) /\ UNCHANGED <<restarts, accepted>>
<1> DEFINE f == wire[Peer[e]][1]
<1>1. wire[Peer[e]] # <<>> /\ Take(e) /\ CountSession(e) /\ UNCHANGED <<restarts, accepted>>
  BY DEF DeliverOther
<1>2. /\ Leaves(Peer[e]) /\ WireType' /\ Head(wire[Peer[e]]) = f
      /\ f \in Frame /\ Peer[e] \in Endpoint /\ \A x \in Endpoint : Thinned(x)
  BY <1>1, TakeEffect, TwoRoles
<1>3. f.kind \in {"I", "RR", "DISC", "UA", "SNRM"}
  BY <1>2, WireKinds, HeadLeaves
<1>4. (f.kind \in UnnumberedKind \/ ~Accepts(e, f)) /\ ReceiveFrame(e, f)
  BY <1>2 DEF DeliverOther
<1> HIDE DEF f
<1>5. ~ReceiveInformationFrame(e, f) /\ ~ReceiveSupervisoryFrame(e, f)
  BY <1>4 DEF ReceiveInformationFrame, ReceiveSupervisoryFrame, UnnumberedKind, SupervisoryKind
<1>6. ~ReceiveDm(e, f)
  BY <1>3 DEF ReceiveDm
<1> QED
  BY <1>1, <1>2, <1>3, <1>4, <1>5, <1>6 DEF ReceiveFrame, f

\* A step of e without history that leaves its session as it is, or ends it.
LEMMA QuietNumbers ==
    ASSUME TypeOK, HistoryType, WireType, WireType', NEW e \in Endpoint, UNCHANGED history,
           \A x \in Endpoint : Thinned(x),
           \/ UNCHANGED <<state, sequences>>
           \/ ResetSequences(e) /\ ~InSession(e)' /\ \A x \in Endpoint : x # e => state'[x] = state[x]
    PROVE  NumbersKept
<1>1. ASSUME NEW x \in Endpoint
      PROVE  InSession(x)' => /\ InSession(x)
                              /\ sendSequence'[x] = sendSequence[x]
                              /\ receiveSequence'[x] = receiveSequence[x]
                              /\ acknowledgeSequence'[x] = acknowledgeSequence[x]
  BY DEF InSession, ResetSequences, TypeOK, sequences
<1> QED
  BY <1>1, PlainNumbers

LEMMA DataCharts ==
    ASSUME SessionInv, WireType, HistoryType, Charts, NEW e \in Endpoint, DeliverData(e)
    PROVE  Charts' /\ NumbersKept /\ WireType'
<1>1. /\ Arrives(e) /\ Leaves(Peer[e]) /\ WireType'
      /\ UNCHANGED <<state, connectResponsePending, disconnectResponsePending, restarts>>
  BY DataArrives
<1>2. TypeOK /\ Peer[e] \in Endpoint
  BY TwoRoles DEF SessionInv
<1>3. NumbersKept
  BY <1>1, <1>2, ArrivedNumbers DEF NumbersKept
<1> QED
  BY <1>1, <1>2, <1>3, LeavesCharts

\* An SNRM that the server takes; a DISC.
LEMMA SnrmCharts ==
    ASSUME SessionInv, WireType, WireType', HistoryType, Charts, NEW e \in Endpoint,
           Leaves(Peer[e]), ReceiveSnrm(e, wire[Peer[e]][1]), CountSession(e),
           \A x \in Endpoint : Thinned(x), UNCHANGED <<restarts, accepted>>
    PROVE  Charts' /\ NumbersKept
<1> DEFINE c == Peer[e]
<1>1. /\ c \in Endpoint /\ Peer[c] = e /\ c # e /\ TypeOK
  BY TwoRoles DEF SessionInv
<1>2. /\ wire[c][1].kind = "SNRM" /\ AcceptsSnrm(e)
      /\ connectResponsePending' = [connectResponsePending EXCEPT ![e] = TRUE]
      /\ ResetSequences(e) /\ UNCHANGED <<state, disconnectResponsePending>>
  BY DEF ReceiveSnrm, Accepts, AcceptsUnnumbered, SupervisoryKind
<1>3. state[e] = "Disconnected" /\ IsClient(c)
  BY <1>1, <1>2, TwoRoles DEF AcceptsSnrm
<1>4. UNCHANGED history
  BY <1>2 DEF CountSession, history
<1>5. ~InSession(e)' /\ connectResponsePending'[c] = connectResponsePending[c]
  BY <1>1, <1>2, <1>3 DEF InSession, TypeOK
<1>6. NumbersKept
  BY <1>1, <1>2, <1>4, <1>5, QuietNumbers
<1>7. restarts[c] = 0 => Steady(c, Peer[c])'
  BY <1>1, <1>2, <1>3, <1>5, ChartNow, SnrmSteady
<1>8. restarts[c] # 0 => Anew(c, Peer[c])'
  BY <1>1, <1>2, <1>3, <1>5, <1>6, ChartNow, SnrmAnew
<1> QED
  BY <1>1, <1>3, <1>6, <1>7, <1>8, ChartNext

LEMMA DiscCharts ==
    ASSUME SessionInv, WireType, WireType', HistoryType, Charts, NEW e \in Endpoint,
           Leaves(Peer[e]), ReceiveDisc(e, wire[Peer[e]][1]), CountSession(e),
           \A x \in Endpoint : Thinned(x), UNCHANGED <<restarts, accepted>>
    PROVE  Charts' /\ NumbersKept
<1>1. /\ Peer[e] \in Endpoint /\ Peer[Peer[e]] = e /\ Peer[e] # e /\ TypeOK
  BY TwoRoles DEF SessionInv
<1>2. /\ wire[Peer[e]][1].kind = "DISC" /\ state[e] = "Connected"
      /\ disconnectResponsePending' = [disconnectResponsePending EXCEPT ![e] = TRUE]
      /\ UNCHANGED <<state, sequences, connectResponsePending>>
  BY DEF ReceiveDisc, Accepts, AcceptsUnnumbered, SupervisoryKind
<1>3. UNCHANGED history
  BY <1>2 DEF CountSession, history
<1>4. NumbersKept
  BY <1>1, <1>2, <1>3, QuietNumbers
<1>5. disconnectResponsePending'[Peer[e]] = disconnectResponsePending[Peer[e]]
  BY <1>1, <1>2 DEF TypeOK
<1>6. CASE IsClient(e)
  <2>1. restarts[e] = 0 => Steady(e, Peer[e])'
    BY <1>2, <1>4, <1>5, <1>6, ChartNow, ClientDiscSteady
  <2>2. restarts[e] # 0 => Anew(e, Peer[e])'
    BY <1>2, <1>4, <1>5, <1>6, ChartNow, ClientDiscAnew
  <2> QED
    BY <1>4, <1>6, <2>1, <2>2, ChartNext
<1>7. CASE IsClient(Peer[e])
  <2> DEFINE c == Peer[e]
  <2>1. restarts[c] = 0 => Steady(c, Peer[c])'
    BY <1>1, <1>2, <1>4, <1>5, <1>7, ChartNow, ServerDiscSteady
  <2>2. restarts[c] # 0 => Anew(c, Peer[c])'
    BY <1>1, <1>2, <1>4, <1>5, <1>7, ChartNow, ServerDiscAnew
  <2> QED
    BY <1>1, <1>4, <1>7, <2>1, <2>2, ChartNext
<1> QED
  BY <1>6, <1>7, TwoRoles

\* The UA that ends the session of e.
LEMMA DisconnectUaCharts ==
    ASSUME SessionInv, WireType, WireType', HistoryType, Charts, NEW e \in Endpoint,
           Leaves(Peer[e]), ReceiveDisconnectUa(e, wire[Peer[e]][1]), CountSession(e),
           \A x \in Endpoint : Thinned(x), UNCHANGED <<restarts, accepted>>
    PROVE  Charts' /\ NumbersKept
<1>1. /\ Peer[e] \in Endpoint /\ Peer[Peer[e]] = e /\ Peer[e] # e /\ TypeOK
  BY TwoRoles DEF SessionInv
<1>2. /\ wire[Peer[e]][1].kind = "UA" /\ state[e] = "AwaitingDisconnect"
      /\ state' = [state EXCEPT ![e] = "Disconnected"] /\ ResetSequences(e)
      /\ UNCHANGED <<connectResponsePending, disconnectResponsePending>>
  BY DEF ReceiveDisconnectUa, pending
<1>3. state'[e] = "Disconnected" /\ \A x \in Endpoint : x # e => state'[x] = state[x]
  BY <1>1, <1>2 DEF TypeOK
<1>4. UNCHANGED history /\ ~InSession(e)'
  BY <1>3 DEF CountSession, history, InSession
<1>5. NumbersKept
  BY <1>1, <1>2, <1>3, <1>4, QuietNumbers
<1>6. OthersKeep(e)
  BY <1>1, <1>2, <1>3 DEF OthersKeep
<1>7. CASE IsClient(e)
  <2>1. state[Peer[e]] \in {"Disconnected", "Connected", "AwaitingDisconnect"}
    BY <1>7, ServerStates
  <2>2. restarts[e] = 0 => Steady(e, Peer[e])'
    BY <1>2, <1>3, <1>6, <1>7, <2>1, ChartNow, ClientLeavesSteady
  <2>3. restarts[e] # 0 => Anew(e, Peer[e])'
    BY <1>2, <1>3, <1>5, <1>6, <1>7, ChartNow, ClientLeavesAnew
  <2> QED
    BY <1>5, <1>7, <2>2, <2>3, ChartNext
<1>8. CASE IsClient(Peer[e])
  <2> DEFINE c == Peer[e]
  <2>1. restarts[c] = 0 => Steady(c, Peer[c])'
    BY <1>1, <1>2, <1>3, <1>6, <1>8, ChartNow, ServerLeavesSteady
  <2>2. restarts[c] # 0 => Anew(c, Peer[c])'
    BY <1>1, <1>2, <1>3, <1>6, <1>8, ChartNow, ServerLeavesAnew
  <2> QED
    BY <1>1, <1>5, <1>8, <2>1, <2>2, ChartNext
<1> QED
  BY <1>7, <1>8, TwoRoles

\* The UA that opens the session of e, which is a client.
LEMMA ConnectUaCharts ==
    ASSUME SessionInv, WireType, WireType', HistoryType, Opened, Charts, NEW e \in Endpoint,
           Leaves(Peer[e]), ReceiveConnectUa(e, wire[Peer[e]][1]), CountSession(e),
           \A x \in Endpoint : Thinned(x), UNCHANGED <<restarts, accepted>>
    PROVE  Charts'
<1> DEFINE s == Peer[e]
<1>1. /\ s \in Endpoint /\ Peer[s] = e /\ s # e /\ TypeOK /\ SessionInvAt(e)
      /\ \A x \in Endpoint : x = e \/ x = s
  BY TwoRoles DEF SessionInv
<1>2. /\ wire[s][1].kind = "UA" /\ state[e] = "AwaitingConnection"
      /\ state' = [state EXCEPT ![e] = "Connected"] /\ ResetSequences(e)
      /\ UNCHANGED <<connectResponsePending, disconnectResponsePending>>
  BY DEF ReceiveConnectUa, UaConnects, pending
<1>3. state'[e] = "Connected" /\ state'[s] = state[s] /\ IsClient(e)
  BY <1>1, <1>2 DEF TypeOK, SessionInvAt, RolesAt, IsClient
<1>4. /\ opened'[e] = opened[e] + 1 /\ sent'[e] = 0 /\ acknowledged'[e] = 0
      /\ opened'[s] = opened[s] /\ sent'[s] = sent[s] /\ acknowledged'[s] = acknowledged[s]
      /\ accepted' = accepted
  BY <1>1, <1>2, <1>3 DEF CountSession, HistoryType
<1>5. /\ sendSequence'[e] = 0 /\ receiveSequence'[e] = 0 /\ acknowledgeSequence'[e] = 0
      /\ sendSequence'[s] = sendSequence[s] /\ receiveSequence'[s] = receiveSequence[s]
      /\ acknowledgeSequence'[s] = acknowledgeSequence[s]
  BY <1>1, <1>2 DEF ResetSequences, TypeOK
<1>6. OthersKeep(e)
  BY <1>1, <1>2, <1>3 DEF OthersKeep
<1>7. Numbers({e}) => Numbers({})'
  <2> SUFFICES ASSUME Numbers({e}) PROVE Numbers({})'
    OBVIOUS
  <2>1. InSession(Peer[e])' => InSession(Peer[e])
    BY <1>3 DEF InSession
  <2> QED
    BY <1>4, <1>5, <2>1, BegunNumbers
<1>8. state[s] = "Disconnected" /\ Carries(e, {"SNRM"}) /\ wire'[s] = <<>> => Numbers({s})'
  <2> SUFFICES ASSUME state[s] = "Disconnected", Carries(e, {"SNRM"}), wire'[s] = <<>>
               PROVE  Numbers({s})'
    OBVIOUS
  <2>1. /\ Sent(e, {s})' = 0 /\ Known(e, {s})' = 0 /\ Taken(e, {s})' = 0
        /\ Sent(s, {s})' = 0 /\ Known(s, {s})' = 0 /\ Taken(s, {s})' = 0
    BY <1>4, OpenedCounts DEF Sent, Known, Taken
  <2>2. wire'[e] = wire[e]
    BY <1>1 DEF Leaves, WireType
  <2>3. \A i \in 1 .. Len(wire'[e]) : ~Sequenced(wire'[e][i])
    BY <2>2 DEF Carries, Sequenced
  <2>4. \A i \in 1 .. Len(wire'[s]) : FALSE
    BY <1>1, EmptyWire
  <2>5. ~InSession(s)' /\ e \notin {s}
    BY <1>1, <1>3 DEF InSession
  <2>6. ASSUME NEW x \in Endpoint
        PROVE  /\ Sent(x, {s})' = 0 /\ Known(x, {s})' = 0 /\ Taken(x, {s})' = 0
               /\ InSession(x)' => /\ x \notin {s}
                                   /\ sendSequence'[x] = 0 /\ receiveSequence'[x] = 0
                                   /\ acknowledgeSequence'[x] = 0
               /\ \A i \in 1 .. Len(wire'[x]) : Live(x, i)' => ~Sequenced(wire'[x][i])
    <3>1. CASE x = e
      BY <1>5, <2>1, <2>3, <2>5, <3>1
    <3>2. CASE x = s
      BY <2>1, <2>4, <2>5, <3>2
    <3> QED
      BY <1>1, <3>1, <3>2
  <2> HIDE DEF s
  <2> QED
    BY <2>6, ScratchNumbers
<1>9. state[s] \in {"Disconnected", "Connected", "AwaitingDisconnect"}
  BY <1>3, ServerStates
<1>10. restarts[e] = 0 => Steady(e, Peer[e])'
  BY <1>2, <1>3, <1>6, <1>7, ChartNow, ConnectUaSteady
<1>11. restarts[e] # 0 => Anew(e, Peer[e])'
  BY <1>2, <1>3, <1>6, <1>7, <1>8, <1>9, ChartNow, ConnectUaAnew
<1> QED
  BY <1>3, <1>10, <1>11, ChartNext

LEMMA OtherCharts ==
    ASSUME SessionInv, WireType, HistoryType, Opened, Charts, NEW e \in Endpoint,
           DeliverOther(e)
    PROVE  Charts'
<1> DEFINE f == wire[Peer[e]][1]
<1>1. /\ Peer[e] \in Endpoint /\ Leaves(Peer[e]) /\ WireType' /\ \A x \in Endpoint : Thinned(x)
      /\ \/ ReceiveSnrm(e, f) \/ ReceiveMalformedSnrm(e, f) \/ ReceiveConnectUa(e, f)
         \/ ReceiveDisconnectUa(e, f) \/ ReceiveDisc(e, f) \/ RejectFrame(e, f)
      /\ CountSession(e) /\ UNCHANGED <<restarts, accepted>> /\ TypeOK
  BY OtherArrives, TwoRoles DEF SessionInv
<1>2. CASE ReceiveMalformedSnrm(e, f) \/ RejectFrame(e, f)
  <2>1. UNCHANGED <<state, sequences, connectResponsePending, disconnectResponsePending>>
    BY <1>2 DEF ReceiveMalformedSnrm, RejectFrame, sessionVars, pending
  <2>2. UNCHANGED history
    BY <1>1, <2>1 DEF CountSession, history
  <2>3. NumbersKept
    BY <1>1, <2>1, <2>2, QuietNumbers
  <2> QED
    BY <1>1, <2>1, <2>3, LeavesCharts
<1> QED
  BY <1>1, <1>2, SnrmCharts, DiscCharts, DisconnectUaCharts, ConnectUaCharts

-----------------------------------------------------------------------------
(***************************************************************************)
(* The steps, by what they do to the sessions and to the line.             *)
(***************************************************************************)
Writes(e) ==
    \/ Connect(e) \/ AcceptConnection(e) \/ Disconnect(e) \/ AnswerDisconnect(e)
    \/ SendMessage(e) \/ AcknowledgeReceipt(e)

Delivers(e) == DeliverData(e) \/ DeliverOther(e)

RestartStep(e) == Restart(e) \/ Writes(e) \/ Delivers(e) \/ Lose(e)

LEMMA NextIsRestartStep == RestartNext <=> \E e \in Endpoint : RestartStep(e)
BY DEF RestartNext, RestartStep, Writes, Delivers

LEMMA DeliversEffect ==
    ASSUME WireType, NEW e \in Endpoint, Delivers(e)
    PROVE  /\ wire[Peer[e]] # <<>> /\ wire[Peer[e]][1] \in Frame
           /\ ReceiveFrame(e, wire[Peer[e]][1])
           /\ Leaves(Peer[e]) /\ WireType'
<1>1. wire[Peer[e]] # <<>> /\ Take(e)
  BY DEF Delivers, DeliverData, DeliverOther
<1>2. /\ Leaves(Peer[e]) /\ WireType' /\ Head(wire[Peer[e]]) = wire[Peer[e]][1]
      /\ wire[Peer[e]][1] \in Frame
  BY <1>1, TakeEffect
<1>3. ReceiveFrame(e, wire[Peer[e]][1])
  BY <1>2 DEF Delivers, DeliverData, DeliverOther
<1> QED
  BY <1>1, <1>2, <1>3

LEMMA RestartStepOfSession ==
    ASSUME WireType, NEW e \in Endpoint, Writes(e) \/ Delivers(e) \/ Lose(e)
    PROVE  FrameStep(e) \/ UNCHANGED sessionVars
<1>1. CASE Delivers(e)
  BY <1>1, DeliversEffect DEF FrameStep
<1>2. CASE Lose(e)
  BY <1>2 DEF Lose
<1>3. CASE Connect(e) \/ AcceptConnection(e) \/ Disconnect(e)
  BY <1>3 DEF Connect, AcceptConnection, Disconnect, FrameStep
<1>4. CASE AnswerDisconnect(e) \/ SendMessage(e) \/ AcknowledgeReceipt(e)
  BY <1>4 DEF AnswerDisconnect, SendMessage, AcknowledgeReceipt, FrameStep
<1> QED
  BY <1>1, <1>2, <1>3, <1>4 DEF Writes

\* The constructor establishes at one end what Init establishes at all.
LEMMA ConstructTypeOK ==
    ASSUME TypeOK, NEW e \in Endpoint, Construct(e)
    PROVE  TypeOK'
<1>1. /\ LocalLimits(e) \in Limits /\ LocalLimits(e).windowTransmit \in Nat
      /\ Options[e].limits.maximumInformationFieldSize \in Nat
  BY LocalLimitsType, OptionsAssumption DEF Limits, HdlcSessionOptions, CodecLimits
<1>2. NoBlock \in NegotiationBlock /\ "Disconnected" \in SessionState /\ 0 \in Nat
  BY NoBlockType DEF SessionState
<1>3. /\ sendSequence' \in [Endpoint -> SequenceNumber]
      /\ receiveSequence' \in [Endpoint -> SequenceNumber]
      /\ acknowledgeSequence' \in [Endpoint -> SequenceNumber]
  BY ResetType DEF Construct
<1>4. /\ state' \in [Endpoint -> SessionState]
      /\ connectResponsePending' \in [Endpoint -> BOOLEAN]
      /\ disconnectResponsePending' \in [Endpoint -> BOOLEAN]
      /\ dmResponsePending' \in [Endpoint -> BOOLEAN]
  BY <1>2 DEF Construct, TypeOK
<1>5. /\ pendingNegotiation' \in [Endpoint -> NegotiationBlock]
      /\ negotiatedLimits' \in [Endpoint -> Limits]
      /\ receivedUserInformation' \in [Endpoint -> Nat]
  BY <1>1, <1>2 DEF Construct, TypeOK
<1>6. /\ windowSizeTransmit' \in [Endpoint -> Nat]
      /\ maximumInformationFieldSize' \in [Endpoint -> Nat]
  BY <1>1 DEF Construct, TypeOK
<1> QED
  BY <1>3, <1>4, <1>5, <1>6 DEF TypeOK

LEMMA ConstructSessionInv ==
    ASSUME SessionInv, NEW e \in Endpoint, Construct(e)
    PROVE  SessionInv'
<1>1. TypeOK /\ TypeOK'
  BY ConstructTypeOK DEF SessionInv
<1>2. ASSUME NEW x \in Endpoint PROVE SessionInvAt(x)'
  <2>1. CASE x = e
    <3>1. FreshAt(e)' /\ WindowAt(e)'
      BY <1>1, ResetGivesInv DEF Construct
    <3>2. RolesAt(e)'
      BY <1>1 DEF Construct, TypeOK, RolesAt
    <3> QED
      BY <2>1, <3>1, <3>2 DEF SessionInvAt
  <2>2. CASE x # e
    <3>1. /\ state'[x] = state[x] /\ connectResponsePending'[x] = connectResponsePending[x]
          /\ sendSequence'[x] = sendSequence[x] /\ receiveSequence'[x] = receiveSequence[x]
          /\ acknowledgeSequence'[x] = acknowledgeSequence[x]
          /\ windowSizeTransmit'[x] = windowSizeTransmit[x]
      BY <1>1, <2>2 DEF Construct, ResetSequences, TypeOK
    <3> QED
      BY <3>1 DEF SessionInv, SessionInvAt, FreshAt, RolesAt, WindowAt, Outstanding
  <2> QED
    BY <2>1, <2>2
<1> QED
  BY <1>1, <1>2 DEF SessionInv

LEMMA RestartStepSessionInv ==
    ASSUME SessionInv, WireType, NEW e \in Endpoint, RestartStep(e)
    PROVE  SessionInv'
<1>1. CASE Restart(e)
  BY <1>1, ConstructSessionInv DEF Restart
<1>2. CASE Writes(e) \/ Delivers(e) \/ Lose(e)
  BY <1>2, RestartStepOfSession, FrameStepSessionInv, UnchangedSessionInv
<1> QED
  BY <1>1, <1>2 DEF RestartStep

\* What an end writes is one frame, and proposes a window of its own.
LEMMA WritesFrame ==
    ASSUME NarrowWindows, TypeOK, HistoryType, Opened, NEW e \in Endpoint, Writes(e)
    PROVE  \E f \in Frame :
              Send(e, f) /\ (f.kind = "UA" => f.block.params.windowTx < Modulus)
<1>1. CASE Connect(e)
  BY <1>1, SnrmType DEF Connect
<1>2. CASE AcceptConnection(e)
  BY <1>2, AnswerNarrow, ConnectResponseType DEF AcceptConnection
<1>3. CASE Disconnect(e)
  BY <1>3, DiscType DEF Disconnect
<1>4. CASE AnswerDisconnect(e)
  <2>1. NoBlock.params.windowTx < Modulus
    BY DEF NoBlock, DefaultSnrmParams, DefaultWindowSize, Modulus
  <2> QED
    BY <1>4, <2>1, DisconnectResponseType DEF AnswerDisconnect
<1>5. CASE SendMessage(e)
  <2>1. sent[e] < MaxMessages[e] /\ InSession(e)
    BY <1>5 DEF SendMessage, BuildInformationFrame, InSession
  <2> QED
    BY <1>5, <2>1, MessageInBounds, IFrameType DEF SendMessage
<1>6. CASE AcknowledgeReceipt(e)
  BY <1>6, ReceiveReadyType DEF AcknowledgeReceipt
<1> QED
  BY <1>1, <1>2, <1>3, <1>4, <1>5, <1>6 DEF Writes

LEMMA RestartStepWires ==
    ASSUME NarrowWindows, SessionInv, RestartInv, NEW e \in Endpoint, RestartStep(e)
    PROVE  WireType' /\ \A x \in Endpoint : NarrowWire(x)'
<1>1. /\ TypeOK /\ HistoryType /\ WireType /\ Opened /\ Narrow /\ Charts
      /\ \A x \in Endpoint : NarrowWire(x)
  BY DEF SessionInv, RestartInv, Narrow, NarrowAt
<1>2. CASE Writes(e)
  <2>1. PICK f \in Frame :
            Send(e, f) /\ (f.kind = "UA" => f.block.params.windowTx < Modulus)
    BY <1>1, <1>2, WritesFrame
  <2> QED
    BY <1>1, <2>1, SendEffect, SendNarrow
<1>3. CASE Delivers(e)
  BY <1>1, <1>3, DeliversEffect, ShiftNarrow, TwoRoles DEF Leaves
<1>4. CASE Lose(e)
  BY <1>1, <1>4, LoseCharts, ShiftNarrow DEF Lose, LoseFrame
<1>5. CASE Restart(e)
  <2>1. WireType' /\ \A x \in Endpoint : Thinned(x)
    BY <1>1, <1>5, RestartWire
  <2>2. ASSUME NEW x \in Endpoint PROVE NarrowWire(x)'
    <3>1. PICK k \in 0 .. Len(wire[x]) :
              /\ Len(wire'[x]) = Len(wire[x]) - k
              /\ \A i \in 1 .. Len(wire'[x]) : wire'[x][i] = wire[x][i + k]
      BY <2>1 DEF Thinned
    <3>2. Len(wire[x]) \in Nat
      BY <1>1, EmptyWire
    <3>3. \A i \in 1 .. Len(wire'[x]) : i + k \in 1 .. Len(wire[x])
      BY <3>1, <3>2
    <3> QED
      BY <1>1, <3>1, <3>3 DEF NarrowWire
  <2> QED
    BY <2>1, <2>2
<1> QED
  BY <1>2, <1>3, <1>4, <1>5 DEF RestartStep

\* A window in force is the local one, or was negotiated.
LEMMA RestartStepNarrow ==
    ASSUME NarrowWindows, SessionInv, RestartInv, NEW e \in Endpoint, RestartStep(e)
    PROVE  Narrow'
<1> SUFFICES ASSUME NEW x \in Endpoint PROVE windowSizeTransmit'[x] < Modulus
  BY RestartStepWires DEF Narrow, NarrowAt
<1>1. /\ TypeOK /\ HistoryType /\ WireType /\ Opened /\ Charts /\ Narrow
      /\ windowSizeTransmit \in [Endpoint -> Nat] /\ windowSizeTransmit[x] < Modulus
  BY DEF SessionInv, RestartInv, TypeOK, Narrow, NarrowAt
<1>2. CASE Restart(e)
  BY <1>1, <1>2 DEF Restart, Construct, NarrowWindows
<1>3. CASE AcceptConnection(e)
  <2>1. AdoptAnswer(e)
    BY <1>3 DEF AcceptConnection, BuildConnectResponse
  <2> QED
    BY <1>1, <2>1, AnswerNarrow DEF AdoptAnswer, Adopt, negotiated
<1>4. CASE Delivers(e)
  <2> DEFINE f == wire[Peer[e]][1]
  <2>1. ReceiveFrame(e, f) /\ f \in Frame /\ 1 \in 1 .. Len(wire[Peer[e]])
        /\ Peer[e] \in Endpoint
    BY <1>1, <1>4, DeliversEffect, TwoRoles, EmptyWire
  <2>2. f.kind = "UA" => f.block.params.windowTx < Modulus
    BY <1>1, <2>1 DEF Narrow, NarrowAt, NarrowWire
  <2> HIDE DEF f
  <2>3. CASE ReceiveConnectUa(e, f)
    <3>1. f.kind = "UA" /\ (UNCHANGED negotiated \/ Adopt(e, ClientLimits(f.block.params)))
      BY <2>3 DEF ReceiveConnectUa
    <3>2. f.block.params.windowTx \in Nat
      <4>1. f.block \in NegotiationBlock
        BY <2>1, <3>1, UnnumberedArrives DEF UnnumberedKind
      <4> QED
        BY <4>1 DEF NegotiationBlock, Params
    <3>3. ClientLimits(f.block.params).windowTransmit < Modulus
      BY <2>2, <3>1, <3>2, NarrowByte DEF ClientLimits
    <3> QED
      BY <1>1, <3>1, <3>3 DEF Adopt, negotiated
  <2>4. CASE ~ReceiveConnectUa(e, f)
    <3>1. UNCHANGED negotiated
      BY <2>1, <2>4 DEF ReceiveFrame, ReceiveInformationFrame, ReceiveSupervisoryFrame,
                        ReceiveSnrm, ReceiveMalformedSnrm, ReceiveDisconnectUa, ReceiveDisc,
                        ReceiveDm, RejectFrame, sessionVars
    <3> QED
      BY <1>1, <3>1 DEF negotiated
  <2> QED
    BY <2>3, <2>4
<1>5. CASE \/ Connect(e) \/ Disconnect(e) \/ AnswerDisconnect(e) \/ SendMessage(e)
           \/ AcknowledgeReceipt(e) \/ Lose(e)
  <2>1. UNCHANGED negotiated
    BY <1>5 DEF Connect, Disconnect, AnswerDisconnect, SendMessage, AcknowledgeReceipt, Lose,
                BuildConnectRequest, BuildDisconnectRequest, BuildDisconnectResponse,
                BuildInformationFrame, BuildReceiveReadyFrame, sessionVars
  <2> QED
    BY <1>1, <2>1 DEF negotiated
<1> QED
  BY <1>2, <1>3, <1>4, <1>5 DEF RestartStep, Writes

LEMMA RestartStepCharts ==
    ASSUME OneEndAbandons, SessionInv, RestartInv, NEW e \in Endpoint, RestartStep(e)
    PROVE  Charts'
<1>1. HistoryType /\ WireType /\ Opened /\ Narrow /\ Charts
  BY DEF RestartInv
<1>2. CASE Writes(e)
  BY <1>1, <1>2, ConnectCharts, AcceptCharts, DisconnectCharts, AnswerCharts, SequencedCharts
     DEF Writes
<1>3. CASE Delivers(e)
  BY <1>1, <1>3, DataCharts, OtherCharts DEF Delivers
<1>4. CASE Lose(e) \/ Restart(e)
  BY <1>1, <1>4, LoseCharts, RestartCharts
<1> QED
  BY <1>2, <1>3, <1>4 DEF RestartStep

-----------------------------------------------------------------------------
(***************************************************************************)
(* The histories.  A step of e opens a session, takes a message, or does   *)
(* neither.                                                                *)
(***************************************************************************)
Opens(e) ==
    /\ state[e] # "Connected" /\ opened[e] < MaxOpened
    /\ opened' = [opened EXCEPT ![e] = @ + 1]
    /\ sent' = [sent EXCEPT ![e] = 0]
    /\ acknowledged' = [acknowledged EXCEPT ![e] = 0]
    /\ UNCHANGED <<restarts, accepted>>
    /\ state'[e] = "Connected" /\ \A x \in Endpoint : x # e => state'[x] = state[x]

Stays(e) ==
    /\ UNCHANGED <<opened, accepted, acknowledged>>
    /\ sent' = sent \/ sent' = [sent EXCEPT ![e] = @ + 1]
    /\ restarts' = restarts \/ restarts' = [restarts EXCEPT ![e] = @ + 1]
    /\ \A x \in Endpoint :
          /\ InSession(x)' => InSession(x)
          /\ state'[x] = "AwaitingConnection" =>
                state[x] = "AwaitingConnection" \/ opened[x] < MaxOpened

\* Nothing is opened by a frame but by the UA that a client waits for.
LEMMA OtherHistory ==
    ASSUME SessionInv, WireType, Opened, Charts, NEW e \in Endpoint, DeliverOther(e)
    PROVE  Opens(e) \/ Stays(e)
<1> DEFINE f == wire[Peer[e]][1]
<1>1. /\ \/ ReceiveSnrm(e, f) \/ ReceiveMalformedSnrm(e, f) \/ ReceiveConnectUa(e, f)
         \/ ReceiveDisconnectUa(e, f) \/ ReceiveDisc(e, f) \/ RejectFrame(e, f)
      /\ CountSession(e) /\ UNCHANGED <<restarts, accepted>> /\ TypeOK
  BY OtherArrives DEF SessionInv
<1> HIDE DEF f
<1>2. CASE ReceiveConnectUa(e, f)
  <2>1. state[e] = "AwaitingConnection" /\ state' = [state EXCEPT ![e] = "Connected"]
    BY <1>2 DEF ReceiveConnectUa, UaConnects
  <2>2. state'[e] = "Connected" /\ \A x \in Endpoint : x # e => state'[x] = state[x]
    BY <1>1, <2>1 DEF TypeOK
  <2>3. opened[e] < MaxOpened
    BY <2>1 DEF Opened, OpenedAt
  <2> QED
    BY <1>1, <2>1, <2>2, <2>3 DEF CountSession, Opens
<1>3. CASE ReceiveDisconnectUa(e, f)
  <2>1. state' = [state EXCEPT ![e] = "Disconnected"]
    BY <1>3 DEF ReceiveDisconnectUa
  <2>2. state'[e] = "Disconnected" /\ \A x \in Endpoint : x # e => state'[x] = state[x]
    BY <1>1, <2>1 DEF TypeOK
  <2> QED
    BY <1>1, <2>2 DEF CountSession, Stays, InSession
<1>4. CASE \/ ReceiveSnrm(e, f) \/ ReceiveMalformedSnrm(e, f)
           \/ ReceiveDisc(e, f) \/ RejectFrame(e, f)
  <2>1. state' = state
    BY <1>4 DEF ReceiveSnrm, ReceiveMalformedSnrm, ReceiveDisc, RejectFrame, sessionVars
  <2> QED
    BY <1>1, <2>1 DEF CountSession, Stays, InSession
<1> QED
  BY <1>1, <1>2, <1>3, <1>4

LEMMA StepHistory ==
    ASSUME SessionInv, RestartInv, NEW e \in Endpoint, RestartStep(e)
    PROVE  Opens(e) \/ Stays(e) \/ DeliverData(e)
<1>1. TypeOK /\ HistoryType /\ WireType /\ Opened /\ Narrow /\ Charts
  BY DEF SessionInv, RestartInv
<1>2. ASSUME Restart(e) PROVE Stays(e)
  <2>1. state' = [state EXCEPT ![e] = "Disconnected"]
    BY <1>2 DEF Restart, Construct
  <2>2. state'[e] = "Disconnected" /\ \A x \in Endpoint : x # e => state'[x] = state[x]
    BY <1>1, <2>1 DEF TypeOK
  <2> QED
    BY <1>2, <2>2 DEF Restart, history, Stays, InSession
<1>3. ASSUME Connect(e) PROVE Stays(e)
  <2>1. state' = [state EXCEPT ![e] = "AwaitingConnection"]
    BY <1>3 DEF Connect, BuildConnectRequest
  <2>2. state'[e] = "AwaitingConnection" /\ \A x \in Endpoint : x # e => state'[x] = state[x]
    BY <1>1, <2>1 DEF TypeOK
  <2> QED
    BY <1>3, <2>2 DEF Connect, history, Stays, InSession
<1>4. ASSUME AcceptConnection(e) PROVE Opens(e)
  <2>1. /\ state[e] # "Connected" /\ state'[e] = "Connected"
        /\ \A x \in Endpoint : x # e => state'[x] = state[x]
    BY <1>1, <1>4, AcceptCharts
  <2> QED
    BY <1>4, <2>1 DEF AcceptConnection, CountSession, Opens
<1>5. ASSUME Disconnect(e) \/ AnswerDisconnect(e) PROVE Stays(e)
  <2>1. /\ \/ state' = [state EXCEPT ![e] = "Disconnected"]
           \/ state[e] = "Connected" /\ state' = [state EXCEPT ![e] = "AwaitingDisconnect"]
        /\ UNCHANGED <<restarts, history>>
    BY <1>5 DEF Disconnect, AnswerDisconnect, BuildDisconnectRequest, BuildDisconnectResponse
  <2>2. /\ \/ state'[e] = "Disconnected"
           \/ state[e] = "Connected" /\ state'[e] = "AwaitingDisconnect"
        /\ \A x \in Endpoint : x # e => state'[x] = state[x]
    BY <1>1, <2>1 DEF TypeOK
  <2> QED
    BY <2>1, <2>2 DEF history, Stays, InSession
<1>6. ASSUME SendMessage(e) \/ AcknowledgeReceipt(e) \/ Lose(e) PROVE Stays(e)
  <2>1. state' = state
    BY <1>6 DEF SendMessage, AcknowledgeReceipt, Lose, BuildInformationFrame,
                BuildReceiveReadyFrame, sessionVars
  <2> QED
    BY <1>6, <2>1 DEF SendMessage, AcknowledgeReceipt, Lose, history, Stays, InSession
<1>7. ASSUME DeliverOther(e) PROVE Opens(e) \/ Stays(e)
  BY <1>1, <1>7, OtherHistory
<1> QED
  BY <1>2, <1>3, <1>4, <1>5, <1>6, <1>7 DEF RestartStep, Writes, Delivers

\* In a session some numbers are in force.
LEMMA NumbersInForce ==
    ASSUME Charts, NEW e \in Endpoint, state[e] = "Connected"
    PROVE  \E F : Numbers(F)
<1>1. PICK c \in Endpoint : IsClient(c) /\ (e = c \/ e = Peer[c])
  BY TheClient
<1>2. Steady(c, Peer[c]) \/ Anew(c, Peer[c])
  BY <1>1 DEF Charts, Chart
<1>3. ~Apart(c, Peer[c]) /\ ~AnewApart(c, Peer[c])
  BY <1>1 DEF Apart, AnewApart
<1> QED
  BY <1>2, <1>3 DEF Steady, Anew

LEMMA StepOpened ==
    ASSUME SessionInv, RestartInv, NEW e \in Endpoint, RestartStep(e)
    PROVE  HistoryType' /\ Opened'
<1>1. TypeOK /\ HistoryType /\ WireType /\ Opened /\ Charts /\ MaxOpened \in Nat
  BY RestartAssumption DEF SessionInv, RestartInv
<1>2. ASSUME NEW x \in Endpoint
      PROVE  /\ opened[x] \in Nat /\ opened[x] <= MaxOpened
             /\ InSession(x) => opened[x] > 0
             /\ state[x] = "AwaitingConnection" => opened[x] < MaxOpened
             /\ accepted[x] \in Seq(Receipt)
             /\ \A i \in 1 .. Len(accepted[x]) :
                   accepted[x][i][1] \in Nat /\ accepted[x][i][1] <= opened[x]
  <2>1. accepted[x] \in Seq(Receipt) /\ opened[x] \in Nat
    BY <1>1 DEF HistoryType
  <2>2. \A i \in 1 .. Len(accepted[x]) : accepted[x][i][1] \in Nat
    BY <2>1 DEF Receipt
  <2> QED
    BY <1>1, <2>1, <2>2 DEF Opened, OpenedAt
<1>3. CASE Opens(e)
  <2>1. HistoryType'
    BY <1>1, <1>3 DEF Opens, HistoryType
  <2>2. ASSUME NEW x \in Endpoint PROVE OpenedAt(x)'
    <3>1. accepted'[x] = accepted[x]
      BY <1>3 DEF Opens
    <3>2. CASE x = e
      <4>1. opened'[x] = opened[x] + 1 /\ opened[x] < MaxOpened /\ state'[x] = "Connected"
        BY <1>1, <1>3, <3>2 DEF Opens, HistoryType
      <4>2. \A i \in 1 .. Len(accepted[x]) : accepted[x][i][1] <= opened[x] + 1
        BY <1>2
      <4> QED
        BY <1>1, <1>2, <3>1, <4>1, <4>2 DEF OpenedAt
    <3>3. CASE x # e
      <4>1. opened'[x] = opened[x] /\ state'[x] = state[x]
        BY <1>1, <1>3, <3>3 DEF Opens, HistoryType
      <4> QED
        BY <1>2, <3>1, <4>1 DEF OpenedAt, InSession
    <3> QED
      BY <3>2, <3>3
  <2> QED
    BY <2>1, <2>2 DEF Opened
<1>4. CASE Stays(e)
  <2>1. HistoryType'
    <3>1. /\ sent' = sent \/ sent' = [sent EXCEPT ![e] = @ + 1]
          /\ restarts' = restarts \/ restarts' = [restarts EXCEPT ![e] = @ + 1]
          /\ UNCHANGED <<opened, accepted, acknowledged>>
      BY <1>4 DEF Stays
    <3>2. sent \in [Endpoint -> Nat] /\ restarts \in [Endpoint -> Nat]
      BY <1>1 DEF HistoryType
    <3>3. sent[e] + 1 \in Nat /\ restarts[e] + 1 \in Nat
      BY <3>2
    <3>4. sent' \in [Endpoint -> Nat] /\ restarts' \in [Endpoint -> Nat]
      BY <3>1, <3>2, <3>3
    <3> QED
      BY <1>1, <3>1, <3>4 DEF HistoryType
  <2>2. ASSUME NEW x \in Endpoint PROVE OpenedAt(x)'
    BY <1>2, <1>4 DEF Stays, OpenedAt
  <2> QED
    BY <2>1, <2>2 DEF Opened
<1>5. CASE DeliverData(e)
  <2>1. Arrives(e) /\ state[e] = "Connected" /\ UNCHANGED <<state, restarts, opened, sent>>
    BY <1>1, <1>5, DataArrives DEF Arrives
  <2>2. PICK F : Numbers(F)
    BY <1>1, <2>1, NumbersInForce
  <2> DEFINE n == CountOf(Known(e, F), wire[Peer[e]][1].nr)
             l == Len(accepted[e])
  <2>3. /\ acknowledged' = [acknowledged EXCEPT ![e] = n] /\ n \in Nat
        /\ accepted' \in [Endpoint -> Seq(Receipt)]
        /\ accepted'[Peer[e]] = accepted[Peer[e]]
        /\ \/ accepted'[e] = accepted[e]
           \/ /\ Len(accepted'[e]) = l + 1 /\ accepted'[e][l + 1][1] = opened[e]
              /\ \A i \in 1 .. l : accepted'[e][i] = accepted[e][i]
    <3>1. n \in Nat
      BY <1>1, <2>1, <2>2, HeadNumbers
    <3> QED
      BY <1>1, <2>1, <2>2, <3>1, ArrivalHistory
  <2> HIDE DEF n, l
  <2>4. HistoryType'
    BY <1>1, <2>1, <2>3 DEF HistoryType
  <2>5. ASSUME NEW x \in Endpoint PROVE OpenedAt(x)'
    <3>1. \A i \in 1 .. Len(accepted'[x]) : accepted'[x][i][1] <= opened[x]
      <4>1. CASE accepted'[x] = accepted[x]
        BY <1>2, <4>1
      <4>2. CASE accepted'[x] # accepted[x]
        <5>1. x = e
          BY <2>3, <4>2, TwoRoles
        <5>2. l \in Nat
          BY <1>2 DEF l
        <5>3. \A i \in 1 .. l + 1 : i \in 1 .. l \/ i = l + 1
          BY <5>2
        <5> QED
          BY <1>2, <2>3, <4>2, <5>1, <5>3 DEF l
      <4> QED
        BY <4>1, <4>2
    <3> QED
      BY <1>2, <2>1, <3>1 DEF OpenedAt, InSession
  <2> QED
    BY <2>4, <2>5 DEF Opened
<1> QED
  BY <1>3, <1>4, <1>5, StepHistory

-----------------------------------------------------------------------------
(***************************************************************************)
(* The two promises.  Only an I-frame that is accepted adds to accepted,   *)
(* and N(R) counts no more messages than the peer has accepted.            *)
(***************************************************************************)
LEMMA StepOneSender ==
    ASSUME SessionInv, RestartInv, NEW e \in Endpoint, RestartStep(e), OneSenderSession
    PROVE  OneSenderSession'
<1>1. HistoryType /\ WireType /\ Charts
  BY DEF RestartInv
<1>2. CASE Opens(e) \/ Stays(e)
  BY <1>2 DEF Opens, Stays, OneSenderSession
<1>3. CASE DeliverData(e)
  <2> DEFINE p == Peer[e]
             f == wire[p][1]
             l == Len(accepted[e])
  <2>1. Arrives(e) /\ state[e] = "Connected" /\ p \in Endpoint
    BY <1>1, <1>3, DataArrives, TwoRoles
  <2>2. PICK F : Numbers(F)
    BY <1>1, <2>1, NumbersInForce
  <2> DEFINE t == Taken(e, F)
             r == <<opened[e], <<opened[p], t + 1>>>>
  <2>3. /\ accepted'[p] = accepted[p]
        /\ f.kind # "I" => accepted'[e] = accepted[e]
        /\ f.kind = "I" => /\ Len(accepted'[e]) = l + 1 /\ accepted'[e][l + 1] = r
                           /\ \A i \in 1 .. l : accepted'[e][i] = accepted[e][i]
        /\ accepted' \in [Endpoint -> Seq(Receipt)]
    BY <1>1, <2>1, <2>2, ArrivalHistory
  <2>4. e \notin F /\ (t # 0 => Last(e)[2][1] = opened[p])
    <3>1. CountsAt(p, F) /\ Peer[p] = e
      BY <2>1, <2>2, TwoRoles DEF Numbers, NumbersAt
    <3>2. e \notin F
      BY <1>1, <2>1, <2>2, HeadNumbers
    <3> QED
      BY <3>1, <3>2 DEF CountsAt
  <2>5. \A x \in Endpoint : accepted[x] \in Seq(Receipt) /\ Len(accepted[x]) \in Nat
    BY <1>1 DEF HistoryType
  <2>6. CASE accepted'[e] = accepted[e]
    <3>1. \A x \in Endpoint : accepted'[x] = accepted[x]
      BY <2>3, <2>6, TwoRoles
    <3> QED
      BY <3>1 DEF OneSenderSession
  <2>7. CASE f.kind = "I"
    <3>1. t # 0 <=> l > 0 /\ accepted[e][l][1] = opened[e]
      <4>1. l \in Nat /\ (l > 0 <=> accepted[e] # <<>>)
        BY <2>5
      <4> QED
        BY <1>1, <2>4, <4>1, LastType DEF Taken, Last
    <3>2. t # 0 => t = accepted[e][l][2][2] /\ opened[p] = accepted[e][l][2][1]
      BY <2>4 DEF Taken, Last
    <3> HIDE DEF t, l, f
    <3>3. l \in Nat
      BY <2>5 DEF l
    <3>4. ASSUME NEW i \in 1 .. l + 1
          PROVE  LET a == accepted'[e][i]
                     before == accepted'[e][i - 1]
                 IN  IF i > 1 /\ before[1] = a[1]
                     THEN a[2] = <<before[2][1], before[2][2] + 1>>
                     ELSE a[2][2] = 1
      <4>1. CASE i \in 1 .. l
        <5>1. accepted'[e][i] = accepted[e][i]
          BY <2>3, <2>7, <4>1
        <5>2. i > 1 => i - 1 \in 1 .. l
          BY <3>3, <4>1
        <5>3. i > 1 => accepted'[e][i - 1] = accepted[e][i - 1]
          BY <2>3, <2>7, <5>2
        <5>4. i \in DOMAIN accepted[e]
          BY <2>5, <4>1 DEF l
        <5> QED
          BY <5>1, <5>3, <5>4 DEF OneSenderSession
      <4>2. CASE i = l + 1
        <5>1. accepted'[e][i] = r /\ i - 1 = l /\ (i > 1 <=> l > 0)
          BY <2>3, <2>7, <3>3, <4>2
        <5>2. l > 0 => accepted'[e][i - 1] = accepted[e][l]
          <6>1. l > 0 => l \in 1 .. l
            BY <3>3
          <6> QED
            BY <2>3, <2>7, <5>1, <6>1
        <5>3. CASE t # 0
          BY <3>1, <3>2, <5>1, <5>2, <5>3
        <5>4. CASE t = 0
          <6>1. ~(i > 1 /\ accepted'[e][i - 1][1] = accepted'[e][i][1])
            BY <3>1, <5>1, <5>2, <5>4
          <6>2. accepted'[e][i][2][2] = 1
            BY <5>1, <5>4
          <6> QED
            BY <6>1, <6>2
        <5> QED
          BY <5>3, <5>4
      <4> QED
        BY <3>3, <4>1, <4>2
    <3>5. ASSUME NEW x \in Endpoint, NEW i \in DOMAIN accepted'[x]
          PROVE  LET a == accepted'[x][i]
                     before == accepted'[x][i - 1]
                 IN  IF i > 1 /\ before[1] = a[1]
                     THEN a[2] = <<before[2][1], before[2][2] + 1>>
                     ELSE a[2][2] = 1
      <4>1. CASE x = e
        <5>1. accepted'[e] \in Seq(Receipt) /\ Len(accepted'[e]) = l + 1
          BY <2>3, <2>7
        <5>2. i \in 1 .. l + 1
          BY <3>5, <4>1, <5>1
        <5> QED
          BY <3>4, <4>1, <5>2
      <4>2. CASE x # e
        <5>1. accepted'[x] = accepted[x]
          BY <2>3, <4>2, TwoRoles
        <5> QED
          BY <3>5, <5>1 DEF OneSenderSession
      <4> QED
        BY <4>1, <4>2
    <3> QED
      BY <3>5 DEF OneSenderSession
  <2> QED
    BY <2>3, <2>6, <2>7
<1> QED
  BY <1>2, <1>3, StepHistory

LEMMA StepAcknowledged ==
    ASSUME SessionInv, RestartInv, NEW e \in Endpoint, RestartStep(e), AcknowledgedWasAccepted
    PROVE  AcknowledgedWasAccepted'
<1>1. HistoryType /\ WireType /\ Charts
  BY DEF RestartInv
<1>2. CASE Stays(e)
  <2>1. opened' = opened /\ accepted' = accepted /\ acknowledged' = acknowledged
    BY <1>2 DEF Stays
  <2> QED
    BY <2>1 DEF AcknowledgedWasAccepted
<1>3. CASE Opens(e)
  <2>1. acknowledged'[e] = 0 /\ accepted' = accepted
        /\ \A x \in Endpoint : x # e => acknowledged'[x] = acknowledged[x] /\ opened'[x] = opened[x]
    BY <1>1, <1>3 DEF Opens, HistoryType
  <2> SUFFICES ASSUME NEW x \in Endpoint, NEW m \in 1 .. acknowledged'[x]
               PROVE  \E i \in DOMAIN accepted'[Peer[x]] :
                         accepted'[Peer[x]][i][2] = <<opened'[x], m>>
    BY DEF AcknowledgedWasAccepted
  <2>2. x # e
    BY <2>1
  <2>3. acknowledged'[x] = acknowledged[x] /\ opened'[x] = opened[x] /\ accepted' = accepted
    BY <2>1, <2>2
  <2>4. \E i \in DOMAIN accepted[Peer[x]] : accepted[Peer[x]][i][2] = <<opened[x], m>>
    BY <2>3 DEF AcknowledgedWasAccepted
  <2> QED
    BY <2>3, <2>4
<1>4. CASE DeliverData(e)
  <2> DEFINE p == Peer[e]
             f == wire[p][1]
             l == Len(accepted[e])
  <2>1. /\ Arrives(e) /\ state[e] = "Connected" /\ p \in Endpoint /\ p # e /\ Peer[p] = e
        /\ \A x \in Endpoint : x = e \/ x = p
    <3>1. Arrives(e) /\ state[e] = "Connected"
      BY <1>1, <1>4, DataArrives
    <3> QED
      BY <3>1, TwoRoles
  <2>2. PICK F : Numbers(F)
    BY <1>1, <2>1, NumbersInForce
  <2> DEFINE n == CountOf(Known(e, F), f.nr)
  <2>3. /\ acknowledged' = [acknowledged EXCEPT ![e] = n]
        /\ accepted'[p] = accepted[p] /\ accepted' \in [Endpoint -> Seq(Receipt)]
        /\ f.kind # "I" => accepted'[e] = accepted[e]
        /\ f.kind = "I" => /\ Len(accepted'[e]) = l + 1
                           /\ \A i \in 1 .. l : accepted'[e][i] = accepted[e][i]
        /\ n \in Nat /\ n <= Taken(p, F)
    <3>1. n \in Nat /\ n <= Taken(p, F)
      BY <1>1, <2>1, <2>2, HeadNumbers
    <3> QED
      BY <1>1, <2>1, <2>2, <3>1, ArrivalHistory
  <2>4. /\ acknowledged'[e] = n /\ acknowledged'[p] = acknowledged[p]
        /\ opened' = opened
    BY <1>1, <2>1, <2>3 DEF HistoryType, Arrives
  <2>5. \A x \in Endpoint : accepted[x] \in Seq(Receipt) /\ accepted'[x] \in Seq(Receipt)
    BY <1>1, <2>3 DEF HistoryType
  <2>6. ASSUME NEW m \in 1 .. acknowledged'[e]
        PROVE  \E i \in DOMAIN accepted'[p] : accepted'[p][i][2] = <<opened'[e], m>>
    <3>1. CountsAt(e, F) /\ Taken(p, F) \in Nat
      BY <1>1, <2>1, <2>2, CountsType DEF Numbers, NumbersAt
    <3>2. m \in 1 .. Taken(p, F)
      BY <2>3, <2>4, <3>1
    <3>3. PICK i \in 1 .. Len(accepted[p]) : accepted[p][i][2] = <<opened[e], m>>
      BY <3>1, <3>2 DEF CountsAt
    <3> QED
      BY <2>1, <2>3, <2>4, <2>5, <3>3
  <2>7. ASSUME NEW m \in 1 .. acknowledged'[p]
        PROVE  \E i \in DOMAIN accepted'[e] : accepted'[e][i][2] = <<opened'[p], m>>
    <3>1. PICK i \in DOMAIN accepted[e] : accepted[e][i][2] = <<opened[p], m>>
      <4>1. p \in Endpoint /\ m \in 1 .. acknowledged[p]
        BY <2>1, <2>4, <2>7
      <4>2. \E i \in DOMAIN accepted[Peer[p]] : accepted[Peer[p]][i][2] = <<opened[p], m>>
        BY <4>1 DEF AcknowledgedWasAccepted
      <4> QED
        BY <2>1, <4>2
    <3>2. l \in Nat /\ i \in 1 .. l /\ i \in 1 .. l + 1
      BY <2>5, <3>1
    <3> HIDE DEF l
    <3>3. i \in DOMAIN accepted'[e] /\ accepted'[e][i] = accepted[e][i]
      BY <2>3, <2>5, <3>1, <3>2
    <3> QED
      BY <2>4, <3>1, <3>3
  <2> HIDE DEF p
  <2>8. \A x \in Endpoint : \A m \in 1 .. acknowledged'[x] :
           \E i \in DOMAIN accepted'[Peer[x]] : accepted'[Peer[x]][i][2] = <<opened'[x], m>>
    BY <2>1, <2>6, <2>7 DEF p
  <2> QED
    BY <2>8 DEF AcknowledgedWasAccepted
<1> QED
  BY <1>2, <1>3, <1>4, StepHistory

-----------------------------------------------------------------------------
(***************************************************************************)
(* The theorems.                                                           *)
(***************************************************************************)
RestartSafety == SessionInv /\ RestartInv /\ OneSenderSession /\ AcknowledgedWasAccepted

LEMMA InitRestartSafety ==
    ASSUME NarrowWindows
    PROVE  RestartInit => RestartSafety
<1> SUFFICES ASSUME RestartInit PROVE RestartSafety
  OBVIOUS
<1>1. SessionInv
  BY InitSessionInv DEF RestartInit
<1>2. /\ losses = 0 /\ MaxLosses \in Nat /\ MaxOpened \in Nat
      /\ wire = [e \in Endpoint |-> <<>>] /\ accepted = [e \in Endpoint |-> <<>>]
      /\ restarts = [e \in Endpoint |-> 0] /\ opened = [e \in Endpoint |-> 0]
      /\ sent = [e \in Endpoint |-> 0] /\ acknowledged = [e \in Endpoint |-> 0]
      /\ state = [e \in Endpoint |-> "Disconnected"]
      /\ connectResponsePending = [e \in Endpoint |-> FALSE]
      /\ disconnectResponsePending = [e \in Endpoint |-> FALSE]
      /\ windowSizeTransmit = [e \in Endpoint |-> LocalLimits(e).windowTransmit]
  BY LineAssumption, RestartAssumption DEF RestartInit, Init, LineInit
<1>3. <<>> \in Seq(Frame) /\ <<>> \in Seq(Receipt) /\ Len(<<>>) = 0 /\ DOMAIN <<>> = 1 .. 0
  OBVIOUS
<1>4. HistoryType /\ WireType
  BY <1>2, <1>3 DEF HistoryType, WireType
<1>5. \A e \in Endpoint :
         /\ state[e] = "Disconnected" /\ opened[e] = 0 /\ restarts[e] = 0
         /\ ~connectResponsePending[e] /\ ~disconnectResponsePending[e]
         /\ wire[e] = <<>> /\ Len(wire[e]) = 0 /\ accepted[e] = <<>> /\ Len(accepted[e]) = 0
         /\ acknowledged[e] = 0
  BY <1>2, <1>3
<1>6. Opened
  BY <1>2, <1>5 DEF Opened, OpenedAt, InSession
<1>7. Narrow
  BY <1>2, <1>5 DEF Narrow, NarrowAt, NarrowWire, NarrowWindows
<1>8. ASSUME NEW c \in Endpoint PROVE Chart(c, Peer[c])
  <2>1. Peer[c] \in Endpoint
    BY TwoRoles
  <2>2. Apart(c, Peer[c])
    BY <1>5, <2>1 DEF Apart, Carries, Ends, Precedes, Lacks, NoneDue
  <2> QED
    BY <1>5, <2>2 DEF Chart, Steady
<1>9. RestartInv
  BY <1>4, <1>6, <1>7, <1>8 DEF RestartInv, Charts
<1>10. OneSenderSession
  BY <1>3, <1>5 DEF OneSenderSession
<1>11. AcknowledgedWasAccepted
  BY <1>5 DEF AcknowledgedWasAccepted
<1> QED
  BY <1>1, <1>9, <1>10, <1>11 DEF RestartSafety

LEMMA StepRestartSafety ==
    ASSUME NarrowWindows, OneEndAbandons
    PROVE  RestartSafety /\ [RestartNext]_restartVars => RestartSafety'
<1> SUFFICES ASSUME RestartSafety, [RestartNext]_restartVars PROVE RestartSafety'
  OBVIOUS
<1>1. SessionInv /\ RestartInv /\ OneSenderSession /\ AcknowledgedWasAccepted
  BY DEF RestartSafety
<1>2. HistoryType /\ WireType /\ Opened /\ Narrow /\ Charts
  BY <1>1 DEF RestartInv
<1>3. ASSUME NEW e \in Endpoint, RestartStep(e) PROVE RestartSafety'
  <2>1. SessionInv'
    BY <1>1, <1>2, <1>3, RestartStepSessionInv
  <2>2. RestartInv'
    BY <1>1, <1>3, RestartStepWires, RestartStepNarrow, RestartStepCharts, StepOpened
       DEF RestartInv
  <2>3. OneSenderSession' /\ AcknowledgedWasAccepted'
    BY <1>1, <1>3, StepOneSender, StepAcknowledged
  <2> QED
    BY <2>1, <2>2, <2>3 DEF RestartSafety
<1>4. CASE UNCHANGED restartVars
  <2>1. UNCHANGED sessionVars /\ UNCHANGED <<wire, losses, restarts>> /\ UNCHANGED history
    BY <1>4 DEF restartVars, lineVars
  <2>2. /\ UNCHANGED <<state, sequences, connectResponsePending, disconnectResponsePending>>
        /\ UNCHANGED windowSizeTransmit
        /\ UNCHANGED <<opened, sent, accepted, acknowledged>>
    BY <2>1 DEF sessionVars, pending, negotiated, history
  <2>3. SessionInv'
    BY <1>1, <2>1, UnchangedSessionInv
  <2>4. HistoryType' /\ WireType' /\ Opened' /\ Narrow'
    <3>1. HistoryType' /\ WireType'
      BY <1>2, <2>1, <2>2 DEF HistoryType, WireType
    <3>2. Opened'
      BY <1>2, <2>2 DEF Opened, OpenedAt, InSession
    <3>3. Narrow'
      BY <1>2, <2>1, <2>2 DEF Narrow, NarrowAt, NarrowWire
    <3> QED
      BY <3>1, <3>2, <3>3
  <2>5. ASSUME NEW x \in Endpoint PROVE Thinned(x) /\ Kept(x) /\ UNCHANGED Flags(x)
    <3>1. Thinned(x)
      BY <1>2, <2>1, SameIsThinned
    <3> QED
      BY <1>2, <2>1, <2>2, <2>4, <3>1, ThinnedIsKept DEF Flags
  <2>6. NumbersKept
    BY <1>2, <2>1, <2>2, <2>4, <2>5, PlainNumbers DEF InSession, sequences
  <2>7. ASSUME NEW c \in Endpoint, IsClient(c) PROVE Chart(c, Peer[c])'
    <3>1. Peer[c] \in Endpoint /\ Chart(c, Peer[c])
      BY <1>2, <2>7, TwoRoles DEF Charts
    <3>2. restarts[c] = 0 => Steady(c, Peer[c])'
      BY <1>2, <2>4, <2>5, <2>6, <3>1, ThinnedSteady DEF Chart
    <3>3. restarts[c] # 0 => Anew(c, Peer[c])'
      BY <1>2, <2>4, <2>5, <2>6, <3>1, ThinnedAnew DEF Chart
    <3> QED
      BY <2>1, <3>2, <3>3 DEF Chart
  <2>8. Charts'
    BY <2>7 DEF Charts, IsClient
  <2>9. OneSenderSession' /\ AcknowledgedWasAccepted'
    BY <1>1, <2>2 DEF OneSenderSession, AcknowledgedWasAccepted
  <2> QED
    BY <2>3, <2>4, <2>8, <2>9 DEF RestartSafety, RestartInv
<1> QED
  BY <1>3, <1>4, NextIsRestartStep

LEMMA RestartInvariant ==
    ASSUME NarrowWindows, OneEndAbandons
    PROVE  RestartSpec => []RestartSafety
BY InitRestartSafety, StepRestartSafety, PTL DEF RestartSpec

\* However often the server is constructed anew in mid-session, or once the
\* client: a message that a session accepts is the next one of the session of
\* the peer that its first message came from.  No I-frame of an abandoned
\* session has a number that its successor takes.
THEOREM NoForeignMessage ==
    ASSUME NarrowWindows, OneEndAbandons
    PROVE  RestartSpec => []OneSenderSession
<1>1. RestartSafety => OneSenderSession
  BY DEF RestartSafety
<1> QED
  BY <1>1, RestartInvariant, PTL

\* Nor is an N(R) of an abandoned session taken for an acknowledgement: what a
\* sender no longer keeps, its peer has accepted, although an end may be in a
\* session that the other has left or has not entered.
THEOREM NoForeignAcknowledgement ==
    ASSUME NarrowWindows, OneEndAbandons
    PROVE  RestartSpec => []AcknowledgedWasAccepted
<1>1. RestartSafety => AcknowledgedWasAccepted
  BY DEF RestartSafety
<1> QED
  BY <1>1, RestartInvariant, PTL
=============================================================================
