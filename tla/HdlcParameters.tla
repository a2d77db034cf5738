--------------------------- MODULE HdlcParameters ---------------------------
(***************************************************************************)
(* The Information field of SNRM and UA on octets: the negotiation block   *)
(* that EncodeSnrmNegotiationBlock writes and ParseSnrmInfoField reads     *)
(* (src/hdlc/hdlc_session.cpp), followed by user information.  HdlcFrames  *)
(* keeps of it whether the block is absent, malformed or present, its four *)
(* values and the size of the rest.                                        *)
(***************************************************************************)
EXTENDS Integers, Sequences

\* The four quantities, in the order of their tags 05h to 08h.
Quantity == <<"maxInfoTx", "maxInfoRx", "windowTx", "windowRx">>

DefaultValues == [maxInfoTx |-> 128, maxInfoRx |-> 128, windowTx |-> 1, windowRx |-> 1]

\* Two significant bytes for an information size, one for a window.
EncodeSnrmNegotiationBlock(p) ==
    <<129, 128, 20,
      5, 2, (p.maxInfoTx \div 256) % 256, p.maxInfoTx % 256,
      6, 2, (p.maxInfoRx \div 256) % 256, p.maxInfoRx % 256,
      7, 4, 0, 0, 0, p.windowTx % 256,
      8, 4, 0, 0, 0, p.windowRx % 256>>

\* Up to four bytes, most significant first.
ParseBeValue(octets) ==
    LET value[i \in 0 .. Len(octets)] == IF i = 0 THEN 0 ELSE value[i - 1] * 256 + octets[i]
    IN  value[Len(octets)]

\* Mutant: the bytes may lie beyond the group, in the user information.
FitsInField(octets, pos, end) ==
    /\ pos + 1 <= end
    /\ octets[pos + 1] \in 1 .. 4
    /\ pos + 1 + octets[pos + 1] <= Len(octets)

\* A tag, a length of one to four and that many bytes, inside the group.
Fits(octets, pos, end) ==
    /\ pos + 1 <= end
    /\ octets[pos + 1] \in 1 .. 4
    /\ pos + 1 + octets[pos + 1] <= end

ParameterValue(octets, pos) ==
    ParseBeValue(SubSeq(octets, pos + 2, pos + 1 + octets[pos + 1]))

\* A parameter that is given again later keeps its last value.
Assign(quantity, value, later) ==
    [q \in {quantity} \cup DOMAIN later |-> IF q \in DOMAIN later THEN later[q] ELSE value]

\* The while loop: from pos to the end of the group, the values given.  A length
\* that does not fit is noticed before an unknown tag is.
ParseGroup(octets, end) ==
    LET Read[pos \in 4 .. Len(octets) + 1] ==
            IF pos > end THEN [status |-> "Ok", values |-> <<>>]
            ELSE IF ~Fits(octets, pos, end) THEN [status |-> "InvalidFrameFormat"]
            ELSE IF octets[pos] \notin 5 .. 8 THEN [status |-> "UnsupportedFeature"]
            ELSE LET rest == Read[pos + 2 + octets[pos + 1]]
                 IN  IF rest.status # "Ok" THEN rest
                     ELSE [status |-> "Ok",
                           values |-> Assign(Quantity[octets[pos] - 4],
                                             ParameterValue(octets, pos), rest.values)]
    IN  Read[4]

\* consumed counts the octets of the block, none when the field does not begin
\* with its three-octet header.
ParseSnrmInfoField(octets) ==
    LET end == 3 + octets[3]
        group == ParseGroup(octets, end)
    IN  IF Len(octets) < 3 \/ SubSeq(octets, 1, 2) # <<129, 128>>
        THEN [status |-> "Ok", params |-> DefaultValues, consumed |-> 0]
        ELSE IF end > Len(octets) THEN [status |-> "InvalidFrameFormat"]
        ELSE IF group.status # "Ok" THEN [status |-> group.status]
        ELSE [status |-> "Ok", consumed |-> end,
              params |-> [q \in DOMAIN DefaultValues |->
                             IF q \in DOMAIN group.values THEN group.values[q]
                             ELSE DefaultValues[q]]]

-----------------------------------------------------------------------------
(***************************************************************************)
(* What the same field means by the grammar of docs/04, section 7.1: the   *)
(* group can be cut into parameters.  The documented lengths are two for   *)
(* an information size (or one) and four for a window; what strays from    *)
(* them is still a tag, a length and so many octets.                       *)
(***************************************************************************)
IsTagged(octets) ==
    Len(octets) \in 3 .. 6 /\ octets[1] \in 5 .. 8 /\ octets[2] = Len(octets) - 2

HasDocumentedLength(octets) == octets[2] \in IF octets[1] \in {5, 6} THEN {1, 2} ELSE {4}

Cuts(group) == {c \in SUBSET (0 .. Len(group)) : {0, Len(group)} \subseteq c}

Pieces(group, cuts) ==
    {piece \in cuts \X cuts :
        piece[1] < piece[2] /\ \A c \in cuts : c <= piece[1] \/ piece[2] <= c}

IsGroup(group, cuts) ==
    \A piece \in Pieces(group, cuts) : IsTagged(SubSeq(group, piece[1] + 1, piece[2]))

IsDocumentedGroup(group, cuts) ==
    /\ IsGroup(group, cuts)
    /\ \A piece \in Pieces(group, cuts) :
          HasDocumentedLength(SubSeq(group, piece[1] + 1, piece[2]))

\* The number that up to four octets write, the most significant first.
BigEndian(octets) ==
    LET digit(i) == IF i < Len(octets) THEN octets[Len(octets) - i] ELSE 0
    IN  digit(0) + 256 * digit(1) + 65536 * digit(2) + 16777216 * digit(3)

\* The last piece with this tag determines the quantity.
Meaning(group, cuts, q) ==
    LET given == {piece \in Pieces(group, cuts) : Quantity[group[piece[1] + 1] - 4] = q}
        last == CHOOSE piece \in given : \A other \in given : other[1] <= piece[1]
    IN  IF given = {} THEN DefaultValues[q]
        ELSE BigEndian(SubSeq(group, last[1] + 3, last[2]))
============================================================================
