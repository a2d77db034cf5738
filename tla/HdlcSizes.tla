----------------------------- MODULE HdlcSizes -----------------------------
(***************************************************************************)
(* The sizes of a frame and the size checks of EncodeFrameToBuffer, which  *)
(* the session, the codec and the stream decoder share.  header stands for *)
(* the number of octets of format field, addresses and control field.      *)
(***************************************************************************)
EXTENDS Integers

\* What a limit of zero stands for.
OrDefault(value, default) == IF value = 0 THEN default ELSE value

MaximumFormatFieldLength == 2047

EffectiveMaximumFrameSize(limits) == OrDefault(limits.maximumFrameSize, 2049)

\* Two flags, the header, HCS and FCS leave this much of the frame; zero when
\* nothing is left.
EffectiveMaximumInformationFieldSize(header, limits) ==
    LET frameSize == EffectiveMaximumFrameSize(limits)
    IN  IF limits.maximumInformationFieldSize # 0
        THEN limits.maximumInformationFieldSize
        ELSE IF frameSize < header + 6 THEN 0 ELSE frameSize - header - 6

\* Mutant: the HCS is not counted.
LengthWithoutHcs(header, size) == header + size + 2

\* header + [HCS] + information + FCS, as written into the format field; a frame
\* without information has no HCS.
EncodedLength(header, size) == header + (IF size = 0 THEN 0 ELSE 2) + size + 2

\* What EncodeFrameToBuffer answers for an Information field of this size and an
\* output buffer with this room.
EncodeStatus(header, size, limits, room) ==
    IF size > EffectiveMaximumInformationFieldSize(header, limits)
    THEN "InformationFieldTooLarge"
    ELSE IF EncodedLength(header, size) > MaximumFormatFieldLength THEN "InvalidFrameLength"
    ELSE IF EncodedLength(header, size) + 2 > EffectiveMaximumFrameSize(limits)
         THEN "FrameTooLarge"
    ELSE IF room < EncodedLength(header, size) + 2 THEN "OutputBufferTooSmall"
    ELSE "Ok"

\* EncodeFrame brings a buffer of the maximum frame size of its own.
FitsLimits(header, size, limits) ==
    EncodeStatus(header, size, limits, EffectiveMaximumFrameSize(limits)) = "Ok"
============================================================================
