---------------------------- MODULE HdlcTransfer ----------------------------
(***************************************************************************)
(* One frame on its way: built by a session or handed to the C API,        *)
(* encoded into a buffer, perhaps damaged on the line, decoded, and seen   *)
(* by the session at the other end.  It ties the values of HdlcFrames,     *)
(* which the session modules exchange, to the octets of HdlcCodec and      *)
(* HdlcParameters.  An Information field that no session of this library   *)
(* would write may arrive as well, in an SNRM of some other client.        *)
(***************************************************************************)
EXTENDS HdlcFrames, HdlcCodec, HdlcParameters, FiniteSets

CONSTANTS
    Built,         \* what sessions build: [frame, user, pollFinal]
    Exposed,       \* those of them that are sent over a bad line
    Handed,        \* structures that callers of the C API pass
    Foreign,       \* Information fields of other clients' SNRMs
    LimitsOfCodec, \* codec limits, the same at both ends
    Rooms,         \* sizes of the buffers of the C API
    MaxFlips       \* bound: bits inverted on the line

\* Without a block SNRM, UA and DM are empty; a DISC carries user information only.
BuiltBySession(b) ==
    /\ b.frame \in Frame /\ b.user \in Seq(Octet) /\ b.pollFinal \in BOOLEAN
    /\ b.frame.kind \in {"I", "RR", "SNRM", "UA", "DISC", "DM"}
    /\ b.frame.kind = "I" => b.frame.size = Len(b.frame.payload)
    /\ b.frame.kind \in UnnumberedKind =>
          /\ b.frame.user = Len(b.user)
          /\ \/ b.frame.block = NoBlock /\ (b.frame.kind # "DISC" => b.user = <<>>)
             \/ /\ b.frame.kind \in {"SNRM", "UA"} /\ b.frame.block.form = "present"
                /\ b.frame.block.params = EncodedParams(b.frame.block.params)

ASSUME TransferAssumption ==
    /\ Address \subseteq HdlcAddress /\ \A a \in Address : AddressSize[a] = a.size
    /\ Payload \subseteq Seq(Octet)
    /\ \A b \in Built : BuiltBySession(b)
    /\ Handed \subseteq CFrame /\ Foreign \subseteq Seq(Octet) /\ Rooms \subseteq Nat
    /\ LimitsOfCodec \subseteq [maximumFrameSize : Nat, maximumInformationFieldSize : Nat]
    /\ Exposed \subseteq Built /\ MaxFlips \in Nat

VARIABLES
    given,    \* what is to be sent, by whom, with which limits and buffer
    line,     \* the octets written; empty before, and when encoding failed
    flips,    \* the bits inverted, each an octet and a weight
    outcome   \* what encoding (if it failed) or decoding returned

transferVars == <<given, line, flips, outcome>>

-----------------------------------------------------------------------------
(***************************************************************************)
(* What a session writes (the Build... methods and BuildFrame).            *)
(***************************************************************************)
MakeInformationControl(ns, nr, pollFinal) ==
    2 * (ns % 8) + (IF pollFinal THEN 16 ELSE 0) + 32 * (nr % 8)

MakeReceiveReadyControl(nr, pollFinal) ==
    1 + (IF pollFinal THEN 16 ELSE 0) + 32 * (nr % 8)

\* All with the Poll/Final bit set.
SessionControl == [SNRM |-> 147, UA |-> 115, DISC |-> 83, DM |-> 31]

ControlOf(b) ==
    CASE b.frame.kind = "I" -> MakeInformationControl(b.frame.ns, b.frame.nr, b.pollFinal)
      [] b.frame.kind = "RR" -> MakeReceiveReadyControl(b.frame.nr, b.pollFinal)
      [] OTHER -> SessionControl[b.frame.kind]

InformationOf(b) ==
    CASE b.frame.kind = "I" -> b.frame.payload
      [] b.frame.kind = "RR" -> <<>>
      [] OTHER -> (IF b.frame.block.form = "present"
                   THEN EncodeSnrmNegotiationBlock(b.frame.block.params) ELSE <<>>) \o b.user

BuildFrame(b) ==
    [segmented |-> FALSE, destination |-> b.frame.destination, source |-> b.frame.source,
     control |-> ControlOf(b), information |-> InformationOf(b)]

(***************************************************************************)
(* What the session at the other end reads out of a decoded frame          *)
(* (ReceiveFrame and its helpers).                                         *)
(***************************************************************************)
\* Only SNRM and UA are parsed; a DISC is user information as a whole.
Parsed(frame) ==
    IF ControlKind(frame.control) \in {"SNRM", "UA"} /\ frame.information # <<>>
    THEN ParseSnrmInfoField(frame.information)
    ELSE [status |-> "Ok", params |-> DefaultValues, consumed |-> 0]

BlockOf(parsed) ==
    IF parsed.status # "Ok" THEN [NoBlock EXCEPT !.form = "malformed"]
    ELSE IF parsed.consumed = 0 THEN NoBlock
    ELSE [form |-> "present", params |-> parsed.params]

UserInformation(frame) ==
    IF Parsed(frame).status = "Ok" THEN From(frame.information, Parsed(frame).consumed + 1)
    ELSE <<>>

AsSeen(frame) ==
    LET c == frame.control
    IN  IF IsInformation(c)
        THEN [kind |-> "I", destination |-> frame.destination, source |-> frame.source,
              ns |-> SendSequence(c), nr |-> ReceiveSequence(c),
              size |-> Len(frame.information), payload |-> frame.information]
        ELSE IF IsSupervisory(c)
        THEN [kind |-> ControlKind(c), destination |-> frame.destination,
              source |-> frame.source, nr |-> ReceiveSequence(c)]
        ELSE [kind |-> ControlKind(c), destination |-> frame.destination,
              source |-> frame.source, block |-> BlockOf(Parsed(frame)),
              user |-> Len(UserInformation(frame))]

-----------------------------------------------------------------------------
NoOutcome == [status |-> "none"]

DefaultHdlcCodecLimits == [maximumFrameSize |-> 2049, maximumInformationFieldSize |-> 0]

Given(from, what, limits, room) ==
    [from |-> from, what |-> what, limits |-> limits, room |-> room]

TransferInit ==
    /\ \/ \E b \in Built \ Exposed, l \in LimitsOfCodec :
             given = Given("session", b, l, EffectiveMaximumFrameSize(l))
       \/ \E b \in Exposed : given = Given("session", b, DefaultHdlcCodecLimits, 2049)
       \/ \E c \in Handed, l \in LimitsOfCodec, room \in Rooms :
             given = Given("caller", c, l, room)
       \/ \E octets \in Foreign :
             given = Given("stranger", octets, DefaultHdlcCodecLimits, 2049)
    /\ line = <<>>
    /\ flips = {}
    /\ outcome = NoOutcome

\* An SNRM whose Information field is not this library's.
ForeignSnrm(octets) ==
    [segmented |-> FALSE, destination |-> [raw |-> 1, size |-> 1],
     source |-> [raw |-> 16, size |-> 1], control |-> SessionControl["SNRM"],
     information |-> octets]

Encoded ==
    CASE given.from = "session" ->
             EncodeFrameToBuffer(BuildFrame(given.what), given.limits, given.room)
      [] given.from = "caller" ->
             dlms_hdlc_encode_frame(given.what, given.limits, given.room)
      [] given.from = "stranger" ->
             EncodeFrameToBuffer(ForeignSnrm(given.what), given.limits, given.room)

Encode ==
    /\ line = <<>> /\ outcome = NoOutcome
    /\ LET result == Encoded
       IN  IF result.status = "Ok"
           THEN line' = result.octets /\ UNCHANGED outcome
           ELSE outcome' = result /\ UNCHANGED line
    /\ UNCHANGED <<given, flips>>

\* The line inverts a bit.
Damage ==
    /\ line # <<>> /\ outcome = NoOutcome
    /\ given.from = "session" /\ given.what \in Exposed
    /\ Cardinality(flips) < MaxFlips
    /\ \E i \in DOMAIN line, bit \in 0 .. 7 :
          /\ <<i, bit>> \notin flips
          /\ line' = [line EXCEPT ![i] = Flip(@, 2 ^ bit)]
          /\ flips' = flips \cup {<<i, bit>>}
    /\ UNCHANGED <<given, outcome>>

\* The receiver uses DecodeFrame, or the C API with a buffer for the information.
Decode ==
    /\ line # <<>> /\ outcome = NoOutcome
    /\ outcome' = IF given.from = "caller"
                  THEN dlms_hdlc_decode_frame(line, given.limits, given.room)
                  ELSE DecodeFrame(line, given.limits)
    /\ UNCHANGED <<given, line, flips>>

TransferNext == Encode \/ Damage \/ Decode

TransferSpec == TransferInit /\ [][TransferNext]_transferVars

-----------------------------------------------------------------------------
(***************************************************************************)
(* Properties.                                                             *)
(***************************************************************************)
Decoded == line # <<>> /\ outcome # NoOutcome

Arrived == Decoded /\ outcome.status = "Ok"

\* EncodeFrameToBuffer computes the size before it writes: what it then writes
\* stays inside the caller's buffer and the maximum frame size, and the format
\* field tells its true length.
WrittenWithinBounds ==
    line # <<>> /\ flips = {} =>
        /\ Len(line) <= given.room
        /\ Len(line) <= EffectiveMaximumFrameSize(given.limits)
        /\ Len(line) = FullFrameSize(line)

\* The checks of the encoder and the decoder agree: a frame that one end's limits
\* let out is let in by the other end with the same limits.
OwnFramesAccepted == Decoded /\ flips = {} => outcome.status = "Ok"

\* What a session or a caller of the C API put in comes out: address forms, control
\* field, negotiated values and user information, even where the information looks
\* like a flag or like a negotiation block.
ArrivesUnchanged ==
    Arrived /\ flips = {} =>
        CASE given.from = "session" ->
                 /\ AsSeen(outcome.frame) = given.what.frame
                 /\ given.what.frame.kind \in UnnumberedKind =>
                        UserInformation(outcome.frame) = given.what.user
          [] given.from = "caller" ->
                 outcome.frame = [given.what EXCEPT !.segmented = IF @ = 0 THEN 0 ELSE 1]
          [] given.from = "stranger" ->
                 outcome.frame.information = given.what

\* Header and frame check sequence find one or two inverted bits wherever they
\* are: in the length, in the extension bits of an address, in the sequences
\* themselves or in the flags.
DamageDetected == Decoded /\ flips # {} => outcome.status # "Ok"

\* ParseSnrmInfoField takes in every group whose parameters have their documented
\* lengths, the last of a repeated one counting, as well as a field without a block.
\* It may take in others (it does, and docs/04 does not say what becomes of them), but
\* only what is made of known tags with so many octets as they announce: no value is
\* read beyond the group, and no octet of it is left over.
DocumentedFieldsRead ==
    Arrived /\ given.from = "stranger" =>
        LET octets == given.what
            parsed == Parsed(outcome.frame)
            group == SubSeq(octets, 4, 3 + octets[3])
            readBy(cuts) ==
                /\ parsed.status = "Ok" /\ parsed.consumed = 3 + octets[3]
                /\ \A k \in DOMAIN Quantity :
                      parsed.params[Quantity[k]] = Meaning(group, cuts, Quantity[k])
        IN  IF Len(octets) < 3 \/ octets[1] # 129 \/ octets[2] # 128
            THEN parsed.status = "Ok" /\ parsed.consumed = 0
            ELSE IF 3 + octets[3] > Len(octets) THEN parsed.status # "Ok"
            ELSE /\ \A cuts \in Cuts(group) : IsDocumentedGroup(group, cuts) => readBy(cuts)
                 /\ parsed.status = "Ok" =>
                       \E cuts \in Cuts(group) : IsGroup(group, cuts) /\ readBy(cuts)
============================================================================
