----------------------------- MODULE MCTransfer -----------------------------
(***************************************************************************)
(* Frames, structures and Information fields for HdlcTransfer.             *)
(***************************************************************************)
EXTENDS HdlcTransfer, TLC

\* One client and servers at the corners of the three address forms.
Client == MakeClientAddress(16).address
Servers ==
    {MakeServerAddress(a[1], a[2]).address :
        a \in {<<1, 0>>, <<127, 127>>, <<128, 0>>, <<1, 128>>, <<16383, 16383>>}}
Near == MakeServerAddress(1, 17).address

MCAddress == Servers \cup {Client, Near}
MCAddressSize == [a \in MCAddress |-> a.size]

\* An octet that is a flag, and information that looks like a negotiation block.
LooksLikeBlock == <<129, 128, 3, 7, 1, 9>>
MCPayload == {<<0>>, <<126>>, LooksLikeBlock, [i \in 1 .. 20 |-> i]}

MCParams ==
    {[maxInfoTx |-> 128, maxInfoRx |-> 2030, windowTx |-> 1, windowRx |-> 7],
     [maxInfoTx |-> 65535, maxInfoRx |-> 256, windowTx |-> 255, windowRx |-> 0]}

Build(frame, user, pollFinal) == [frame |-> frame, user |-> user, pollFinal |-> pollFinal]

U(kind, to, from, block, user) ==
    Build([kind |-> kind, destination |-> to, source |-> from, block |-> block,
           user |-> Len(user)], user, TRUE)

MCBuilt ==
    {U("SNRM", to, Client, NoBlock, <<>>) : to \in Servers}
    \cup {U("SNRM", Near, Client, Block(p), user) : p \in MCParams, user \in {<<>>, LooksLikeBlock}}
    \cup {U("UA", Client, from, NoBlock, <<>>) : from \in Servers}
    \cup {U("UA", Client, Near, Block(p), <<>>) : p \in MCParams}
    \cup {U("DISC", Near, Client, NoBlock, user) : user \in {<<>>, <<126>>, LooksLikeBlock}}
    \cup {U("DM", Client, Near, NoBlock, <<>>)}
    \cup {Build([kind |-> "RR", destination |-> Near, source |-> Client, nr |-> nr], <<>>, pf) :
             nr \in SequenceNumber, pf \in BOOLEAN}
    \cup {Build([kind |-> "I", destination |-> Client, source |-> Near, ns |-> ns, nr |-> nr,
                 size |-> Len(payload), payload |-> payload], <<>>, pf) :
             ns \in SequenceNumber, nr \in SequenceNumber, pf \in BOOLEAN,
             payload \in MCPayload}

\* Nine octets, thirteen with an Information field, twelve with a long address.
MCExposed ==
    {U("SNRM", MakeServerAddress(1, 0).address, Client, NoBlock, <<>>),
     U("DISC", Near, Client, NoBlock, <<126>>),
     U("UA", Client, MakeServerAddress(128, 0).address, NoBlock, <<>>)}

\* Raw addresses at and beyond the limits of their size, control fields that exist
\* and some that do not.
MCHanded ==
    [segmented : {0, 255}, destination_address_raw : {16, 128, 16383, 16384, 268435456},
     destination_address_size : {1, 2, 3, 4}, source_address_raw : {1},
     source_address_size : {1}, control : {19, 23, 50, 85, 147},
     information : {<<>>, <<126>>, <<1, 2, 3, 4, 5>>}]

\* Every group of up to six octets 0, 1, 4 and 5, with a length that is right, one
\* too short or one too long; fields that end early; a larger group.
Groups == UNION {[1 .. n -> {0, 1, 4, 5}] : n \in 0 .. 6}
MCForeign ==
    UNION {{<<129, 128, length>> \o g : length \in (Len(g) - 1 .. Len(g) + 1) \cap Nat} :
              g \in Groups}
    \cup {<<>>, <<129>>, <<129, 128>>, <<129, 129, 0>>, LooksLikeBlock,
          <<129, 128, 10, 8, 4, 0, 0, 1, 2, 6, 2, 1, 0, 255>>,
          <<129, 128, 9, 6, 2, 1, 0, 5, 1, 7, 9, 1>>,
          <<129, 128, 13, 5, 1, 200, 7, 4, 0, 0, 0, 3, 5, 2, 1, 44, 5, 1, 126>>}

MCLimits ==
    {[maximumFrameSize |-> f, maximumInformationFieldSize |-> i] : f \in {0, 14, 40}, i \in {0, 5}}
============================================================================
