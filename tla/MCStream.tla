------------------------------ MODULE MCStream ------------------------------
(***************************************************************************)
(* Three encoded frames, one with a flag as its Information field, and     *)
(* noise without a flag in front of two of them.                           *)
(***************************************************************************)
EXTENDS HdlcStream

\* The one with the Information field is a frame of the maximum size.
MCLimits == [maximumFrameSize |-> 12, maximumInformationFieldSize |-> 0]

Encoded(control, information) ==
    EncodeFrameToBuffer(
        [segmented |-> FALSE, destination |-> [raw |-> 1, size |-> 1],
         source |-> [raw |-> 16, size |-> 1], control |-> control,
         information |-> information], MCLimits, 12).octets

Snrm == Encoded(147, <<>>)
FlagAsInformation == Encoded(48, <<Flag>>)
Disc == Encoded(83, <<>>)

MCTransmission == <<<<0>>, Snrm, FlagAsInformation, <<3, 160>>, Disc>>

ASSUME FramesAndNoise
============================================================================
