----------------------------- MODULE HdlcCodec -----------------------------
(***************************************************************************)
(* Frames as octets: addresses, the control field, the check sequences,    *)
(* EncodeFrameToBuffer and DecodeFrameFromBuffer (src/hdlc/hdlc_address,   *)
(* hdlc_control, hdlc_crc, hdlc_codec) and the structures of the C API     *)
(* (hdlc_c_api.cpp).  An octet is a number, a buffer a sequence of them.   *)
(* Null pointers and std::bad_alloc, which return before anything is       *)
(* written, are left out.                                                  *)
(***************************************************************************)
EXTENDS HdlcSizes, Sequences

Octet == 0 .. 255
Flag == 126

LowByte(value) == value % 256
HighByte(value) == (value \div 256) % 256
LowByteFirst(value) == <<LowByte(value), HighByte(value)>>

Failure(status) == [status |-> status]

Least(numbers) == CHOOSE n \in numbers : \A m \in numbers : n <= m

From(octets, i) == SubSeq(octets, i, Len(octets))

-----------------------------------------------------------------------------
(***************************************************************************)
(* Addresses: 7 bits in each of 1, 2 or 4 octets, most significant first;  *)
(* the low bit of an octet is set in the last one only.                    *)
(***************************************************************************)
SupportedEncodedSize == {1, 2, 4}

\* 128 to the power of 0 to 4.
Weight == <<1, 128, 16384, 2097152, 268435456>>

MaximumRawValue(size) == Weight[size + 1] - 1

\* The seven bits of each octet of an address of a supported size, put together.
RawValue(octets, size) ==
    LET bits(i) == octets[i] \div 2
    IN  IF size = 1 THEN bits(1)
        ELSE IF size = 2 THEN bits(1) * 128 + bits(2)
        ELSE bits(1) * 2097152 + bits(2) * 16384 + bits(3) * 128 + bits(4)

\* Up to four octets are looked at.
AddressFromBytes(octets) ==
    LET ends == {i \in DOMAIN octets : i <= 4 /\ octets[i] % 2 = 1}
        size == Least(ends)
    IN  IF ends = {}
        THEN Failure(IF Len(octets) < 4 THEN "NeedMoreData" ELSE "InvalidAddress")
        ELSE IF size \notin SupportedEncodedSize THEN Failure("UnsupportedAddress")
        ELSE [status |-> "Ok", address |-> [raw |-> RawValue(octets, size), size |-> size]]

AddressFromRaw(raw, size) ==
    IF size \notin SupportedEncodedSize THEN Failure("UnsupportedAddress")
    ELSE IF raw > MaximumRawValue(size) THEN Failure("InvalidAddress")
    ELSE [status |-> "Ok", address |-> [raw |-> raw, size |-> size]]

\* Bits of a group of seven, counted from the least significant one.
SevenBits(raw, group) == (raw \div Weight[group + 1]) % 128

\* Mutant: every octet is marked as the last one.
AllMarkedEncodeAddress(a) == [i \in 1 .. a.size |-> 2 * SevenBits(a.raw, a.size - i) + 1]

EncodeAddress(a) ==
    [i \in 1 .. a.size |->
        2 * SevenBits(a.raw, a.size - i) + (IF i = a.size THEN 1 ELSE 0)]

MakeClientAddress(client) ==
    IF client > 127 THEN Failure("InvalidAddress") ELSE AddressFromRaw(client, 1)

\* The shortest form that holds both parts; a physical address of zero is left
\* out of the one-octet form.
MakeServerAddress(logical, physical) ==
    IF logical > 16383 \/ physical > 16383 THEN Failure("InvalidAddress")
    ELSE IF physical = 0 /\ logical <= 127 THEN AddressFromRaw(logical, 1)
    ELSE IF logical <= 127 /\ physical <= 127 THEN AddressFromRaw(logical * 128 + physical, 2)
    ELSE AddressFromRaw(logical * 16384 + physical, 4)

-----------------------------------------------------------------------------
(***************************************************************************)
(* The control field.                                                      *)
(***************************************************************************)
PollFinal(c) == (c \div 16) % 2 = 1

WithoutPollFinal(c) == IF PollFinal(c) THEN c - 16 ELSE c

UnnumberedCode ==
    [SNRM |-> 131, UA |-> 99, DISC |-> 67, DM |-> 15, FRMR |-> 135, UI |-> 3]

SupervisoryCode == <<"RR", "RNR", "REJ", "SREJ">>

IsInformation(c) == c % 2 = 0
IsSupervisory(c) == c % 4 = 1
IsUnnumbered(c) == c % 4 = 3

\* HdlcControl::Decode
SupportedControl(c) ==
    IsUnnumbered(c) => \E k \in DOMAIN UnnumberedCode : UnnumberedCode[k] = WithoutPollFinal(c)

\* FrameKind, SupervisoryKind and UnnumberedKind, of a supported control field.
ControlKind(c) ==
    IF IsInformation(c) THEN "I"
    ELSE IF IsSupervisory(c) THEN SupervisoryCode[((c \div 4) % 4) + 1]
    ELSE CHOOSE k \in DOMAIN UnnumberedCode : UnnumberedCode[k] = WithoutPollFinal(c)

SendSequence(c) == IF IsInformation(c) THEN (c \div 2) % 8 ELSE 0

\* Mutant: N(R) is taken from the wrong place.
ShiftedReceiveSequence(c) == IF IsUnnumbered(c) THEN 0 ELSE (c \div 64) % 8

ReceiveSequence(c) == IF IsUnnumbered(c) THEN 0 ELSE (c \div 32) % 8

-----------------------------------------------------------------------------
(***************************************************************************)
(* The check sequences: CRC-16 with the polynomial 8408h, least            *)
(* significant bit first.                                                  *)
(***************************************************************************)
Flip(value, weight) ==
    IF (value \div weight) % 2 = 1 THEN value - weight ELSE value + weight

\* std::uint16_t.
Word == 0 .. 65535

\* One round of UpdateCrc: shift, and exclusive-or with 8408h (the bits of
\* weight 32768, which the shift has cleared, 1024 and 8) if a one fell out.
ShiftCrc(crc) ==
    LET half == crc \div 2
    IN  IF crc % 2 = 0 THEN half ELSE 32768 + Flip(Flip(half, 1024), 8)

\* The octet is combined with the low byte, bit by bit as it is shifted out.
\* (A loop is a function of its counter that gives a function of what it changes.)
UpdateCrc(value, octet) ==
    LET round[bit \in 0 .. 8] ==
            [crc \in Word |->
                IF bit = 8 THEN crc
                ELSE round[bit + 1][ShiftCrc(IF (octet \div 2 ^ bit) % 2 = 0 THEN crc
                                             ELSE Flip(crc, 1))]]
    IN  round[0][value]

CalculateHdlcCrc(octets) ==
    LET update[index \in 1 .. Len(octets) + 1] ==
            [crc \in Word |->
                IF index > Len(octets) THEN crc
                ELSE update[index + 1][UpdateCrc(crc, octets[index])]]
    IN  65535 - update[1][65535]

-----------------------------------------------------------------------------
(***************************************************************************)
(* Frames: format field, destination, source, control, [HCS, information], *)
(* FCS, between two flags.                                                 *)
(***************************************************************************)
\* What the factories hand out: the value fits into the octets.
HdlcAddress ==
    {a \in [raw : Nat, size : SupportedEncodedSize] : a.raw <= MaximumRawValue(a.size)}

HdlcFrame ==
    [segmented : BOOLEAN, destination : HdlcAddress, source : HdlcAddress,
     control : Octet, information : Seq(Octet)]

HeaderLength(frame) == 2 + frame.destination.size + frame.source.size + 1

\* Type 3, the segmentation bit and the length.
FormatField(frame) ==
    40960 + (IF frame.segmented THEN 2048 ELSE 0)
          + EncodedLength(HeaderLength(frame), Len(frame.information))

FrameHeader(frame) ==
    <<HighByte(FormatField(frame)), LowByte(FormatField(frame))>>
    \o EncodeAddress(frame.destination) \o EncodeAddress(frame.source)
    \o <<frame.control>>

\* What the FCS covers.
FrameBody(frame) ==
    LET header == FrameHeader(frame)
    IN  IF frame.information = <<>> THEN header
        ELSE header \o LowByteFirst(CalculateHdlcCrc(header)) \o frame.information

EncodeFrameToBuffer(frame, limits, room) ==
    LET status == EncodeStatus(HeaderLength(frame), Len(frame.information), limits, room)
        body == FrameBody(frame)
    IN  IF status # "Ok" THEN Failure(status)
        ELSE [status |-> "Ok",
              octets |-> <<Flag>> \o body \o LowByteFirst(CalculateHdlcCrc(body)) \o <<Flag>>]

(***************************************************************************)
(* Decoding.  The length is read from the format field; the checks that    *)
(* follow run in the order of the code, each needing the ones before it.   *)
(***************************************************************************)
FrameFormat(octets) == octets[2] * 256 + octets[3]
FormatType3(octets) == FrameFormat(octets) \div 4096 = 10
Segmented(octets) == (FrameFormat(octets) \div 2048) % 2 = 1
FormatFieldLength(octets) == FrameFormat(octets) % 2048
FullFrameSize(octets) == FormatFieldLength(octets) + 2

\* Up to the closing flag.
FormatStatus(octets, limits) ==
    IF Len(octets) < 4 THEN "NeedMoreData"
    ELSE IF octets[1] # Flag THEN "InvalidFlag"
    ELSE IF ~FormatType3(octets) THEN "InvalidFrameFormat"
    ELSE IF FormatFieldLength(octets) < 6 THEN "InvalidFrameLength"
    ELSE IF FullFrameSize(octets) > EffectiveMaximumFrameSize(limits) THEN "FrameTooLarge"
    ELSE IF Len(octets) < FullFrameSize(octets) THEN "NeedMoreData"
    ELSE IF Len(octets) # FullFrameSize(octets) THEN "InvalidFrameLength"
    ELSE IF octets[Len(octets)] # Flag THEN "InvalidFlag"
    ELSE "Ok"

\* The octets from the second to the last given are followed by their check
\* sequence.  Mutant: only its low byte is compared.
LowByteChecked(octets, last) ==
    octets[last + 1] = LowByte(CalculateHdlcCrc(SubSeq(octets, 2, last)))

Checked(octets, last) ==
    SubSeq(octets, last + 1, last + 2) = LowByteFirst(CalculateHdlcCrc(SubSeq(octets, 2, last)))

DecodeAddresses(octets) ==
    LET destination == AddressFromBytes(SubSeq(octets, 4, Len(octets) - 1))
        source == AddressFromBytes(SubSeq(octets, 4 + destination.address.size, Len(octets) - 1))
    IN  IF destination.status # "Ok" THEN destination
        ELSE IF source.status # "Ok" THEN source
        ELSE [status |-> "Ok", destination |-> destination.address, source |-> source.address]

\* An HCS is expected as soon as anything lies between control field and FCS,
\* and may be followed by no information at all.
DecodeFrameFromBuffer(octets, limits, room) ==
    LET format == FormatStatus(octets, limits)
        addresses == DecodeAddresses(octets)
        control == 4 + addresses.destination.size + addresses.source.size
        last == Len(octets) - 3
        information == SubSeq(octets, control + 3, last)
    IN  IF format # "Ok" THEN Failure(format)
        ELSE IF addresses.status # "Ok" THEN addresses
        ELSE IF control > last THEN Failure("InvalidFrameLength")
        ELSE IF ~SupportedControl(octets[control]) THEN Failure("InvalidControlField")
        ELSE IF control = last - 1 THEN Failure("InvalidFrameLength")
        ELSE IF control < last /\ ~Checked(octets, control) THEN Failure("InvalidHeaderChecksum")
        ELSE IF ~Checked(octets, last) THEN Failure("InvalidFrameChecksum")
        ELSE IF Len(information) > room THEN Failure("OutputBufferTooSmall")
        ELSE IF Len(information) > EffectiveMaximumInformationFieldSize(control - 1, limits)
             THEN Failure("InformationFieldTooLarge")
        ELSE [status |-> "Ok",
              frame |-> [segmented |-> Segmented(octets),
                         destination |-> addresses.destination, source |-> addresses.source,
                         control |-> octets[control], information |-> information]]

\* DecodeFrame brings a buffer of the maximum frame size of its own.
DecodeFrame(octets, limits) ==
    DecodeFrameFromBuffer(octets, limits, EffectiveMaximumFrameSize(limits))

-----------------------------------------------------------------------------
(***************************************************************************)
(* The C API: a structure of raw fields, each of which ToCppFrame checks.  *)
(***************************************************************************)
CFrame ==
    [segmented : Octet, destination_address_raw : Nat, destination_address_size : Nat,
     source_address_raw : Nat, source_address_size : Nat,
     control : Octet, information : Seq(Octet)]

ToCppFrame(c) ==
    LET destination == AddressFromRaw(c.destination_address_raw, c.destination_address_size)
        source == AddressFromRaw(c.source_address_raw, c.source_address_size)
    IN  IF destination.status # "Ok" THEN destination
        ELSE IF source.status # "Ok" THEN source
        ELSE IF ~SupportedControl(c.control) THEN Failure("InvalidControlField")
        ELSE [status |-> "Ok",
              frame |-> [segmented |-> c.segmented # 0, destination |-> destination.address,
                         source |-> source.address, control |-> c.control,
                         information |-> c.information]]

FromCppFrame(frame) ==
    [segmented |-> IF frame.segmented THEN 1 ELSE 0,
     destination_address_raw |-> frame.destination.raw,
     destination_address_size |-> frame.destination.size,
     source_address_raw |-> frame.source.raw, source_address_size |-> frame.source.size,
     control |-> frame.control, information |-> frame.information]

dlms_hdlc_encode_frame(c, limits, room) ==
    LET cpp == ToCppFrame(c)
    IN  IF cpp.status # "Ok" THEN cpp ELSE EncodeFrameToBuffer(cpp.frame, limits, room)

dlms_hdlc_decode_frame(octets, limits, room) ==
    LET cpp == DecodeFrameFromBuffer(octets, limits, room)
    IN  IF cpp.status # "Ok" THEN cpp ELSE [status |-> "Ok", frame |-> FromCppFrame(cpp.frame)]
============================================================================
