---------------------------- MODULE HdlcFrames ----------------------------
(***************************************************************************)
(* What the session layer of src/hdlc sees of a frame: the decoded control *)
(* field, the two addresses and the size of the Information field; the     *)
(* arithmetic of the three-bit sequence numbers; the SNRM/UA negotiation   *)
(* parameters.  Octets, CRCs and the Poll/Final bit are abstracted: no     *)
(* session decision depends on them.  HdlcTransfer checks that a frame     *)
(* encoded by HdlcCodec is seen by the receiver as the same value.         *)
(***************************************************************************)
EXTENDS HdlcSizes

CONSTANTS
    Address,      \* HDLC addresses: a raw value together with its encoded size
    AddressSize,  \* the encoded size of each address, in bytes
    Payload       \* what the user puts into an I-frame (opaque to the session)

ASSUME AddressSizeAssumption == AddressSize \in [Address -> {1, 2, 4}]

(***************************************************************************)
(* Sequence numbers V(S), V(R), V(A), N(S), N(R).                          *)
(***************************************************************************)
Modulus == 8
SequenceNumber == 0 .. Modulus - 1

\* Mutant: the mask is forgotten.
UnmaskedNextSequence(n) == n + 1

NextSequence(n) == (n + 1) % Modulus

\* (to - from) & 0x07: how far "to" is ahead of "from".
Distance(from, to) == (to - from) % Modulus

(***************************************************************************)
(* SNRM/UA negotiation parameters.  Tags 05h..08h name the quantities from *)
(* the point of view of the client (the primary station).                  *)
(***************************************************************************)
DefaultMaxInfoFieldLength == 128
DefaultWindowSize == 1

Params == [maxInfoTx : Nat, maxInfoRx : Nat, windowTx : Nat, windowRx : Nat]

DefaultSnrmParams ==
    [maxInfoTx |-> DefaultMaxInfoFieldLength, maxInfoRx |-> DefaultMaxInfoFieldLength,
     windowTx |-> DefaultWindowSize, windowRx |-> DefaultWindowSize]

\* HdlcSessionNegotiationLimits: what one station can do, and after a
\* handshake what it has agreed to do.
Limits == [infoTransmit : Nat, infoReceive : Nat, windowTransmit : Nat, windowReceive : Nat]

DefaultLimits ==
    [infoTransmit |-> DefaultMaxInfoFieldLength, infoReceive |-> DefaultMaxInfoFieldLength,
     windowTransmit |-> DefaultWindowSize, windowReceive |-> DefaultWindowSize]

\* The HdlcSession constructor replaces every zero field by its default.
Normalise(l) ==
    [infoTransmit   |-> OrDefault(l.infoTransmit, DefaultMaxInfoFieldLength),
     infoReceive    |-> OrDefault(l.infoReceive, DefaultMaxInfoFieldLength),
     windowTransmit |-> OrDefault(l.windowTransmit, DefaultWindowSize),
     windowReceive  |-> OrDefault(l.windowReceive, DefaultWindowSize)]

Smaller(a, b) == IF a <= b THEN a ELSE b

\* Mutant: each proposal is bounded by the capability for the same direction.
SameDirectionNegotiateParams(proposed, local) ==
    [maxInfoTx |-> Smaller(proposed.maxInfoTx, local.infoTransmit),
     maxInfoRx |-> Smaller(proposed.maxInfoRx, local.infoReceive),
     windowTx  |-> Smaller(proposed.windowTx, local.windowTransmit),
     windowRx  |-> Smaller(proposed.windowRx, local.windowReceive)]

\* The server's answer: each parameter bounded by its own capability for the
\* opposite direction.
NegotiateParams(proposed, local) ==
    [maxInfoTx |-> Smaller(proposed.maxInfoTx, local.infoReceive),
     maxInfoRx |-> Smaller(proposed.maxInfoRx, local.infoTransmit),
     windowTx  |-> Smaller(proposed.windowTx, local.windowReceive),
     windowRx  |-> Smaller(proposed.windowRx, local.windowTransmit)]

\* What the two-byte and the one significant byte on the wire keep of a value.
EncodedParams(p) ==
    [maxInfoTx |-> p.maxInfoTx % 65536, maxInfoRx |-> p.maxInfoRx % 65536,
     windowTx |-> p.windowTx % 256, windowRx |-> p.windowRx % 256]

\* The parameters a client proposes, and the limits each side draws from the
\* parameters agreed on (the windows are narrowed to one byte).
ProposalOf(local) ==
    [maxInfoTx |-> local.infoTransmit, maxInfoRx |-> local.infoReceive,
     windowTx |-> local.windowTransmit, windowRx |-> local.windowReceive]

\* Mutant: the server reads the tags as if they named its own directions.
ClientSideServerLimits(p) ==
    [infoTransmit |-> p.maxInfoTx, infoReceive |-> p.maxInfoRx,
     windowTransmit |-> p.windowTx % 256, windowReceive |-> p.windowRx % 256]

ServerLimits(p) ==
    [infoTransmit |-> p.maxInfoRx, infoReceive |-> p.maxInfoTx,
     windowTransmit |-> p.windowRx % 256, windowReceive |-> p.windowTx % 256]

ClientLimits(p) ==
    [infoTransmit |-> p.maxInfoTx, infoReceive |-> p.maxInfoRx,
     windowTransmit |-> p.windowTx % 256, windowReceive |-> p.windowRx % 256]

(***************************************************************************)
(* Frames.  ParseSnrmInfoField finds a negotiation block that is absent,   *)
(* present, or malformed (truncated, or with an unrecognised tag); bytes   *)
(* beyond the block are opaque user information.                           *)
(***************************************************************************)
NegotiationBlock == [form : {"absent", "present", "malformed"}, params : Params]

NoBlock == [form |-> "absent", params |-> DefaultSnrmParams]
Block(p) == [form |-> "present", params |-> EncodedParams(p)]

UnnumberedKind == {"SNRM", "UA", "DISC", "DM", "FRMR", "UI"}
SupervisoryKind == {"RR", "RNR", "REJ", "SREJ"}

UnnumberedFrame ==
    [kind : UnnumberedKind, destination : Address, source : Address,
     block : NegotiationBlock, user : Nat]
SupervisoryFrame ==
    [kind : SupervisoryKind, destination : Address, source : Address, nr : SequenceNumber]
InformationFrame ==
    [kind : {"I"}, destination : Address, source : Address,
     ns : SequenceNumber, nr : SequenceNumber, size : Nat, payload : Payload]

Frame == UnnumberedFrame \cup SupervisoryFrame \cup InformationFrame

NegotiationBlockSize == 23

InformationSize(block, user) ==
    (IF block.form = "absent" THEN 0 ELSE NegotiationBlockSize) + user

(***************************************************************************)
(* Whether the codec can build a frame of this size (HdlcSizes).           *)
(***************************************************************************)
HeaderSize(destination, source) == 2 + AddressSize[destination] + AddressSize[source] + 1

Encodable(destination, source, size, limits) ==
    FitsLimits(HeaderSize(destination, source), size, limits)
============================================================================
