------------------------------ MODULE HdlcStream ------------------------------
(***************************************************************************)
(* HdlcStreamDecoder (src/hdlc/hdlc_stream_decoder.cpp) behind the handle  *)
(* of the C API (dlms_hdlc_stream_decoder_*, src/hdlc/hdlc_c_api.cpp).     *)
(* A serial line brings octets, in chunks of any size; the handle keeps    *)
(* the decoded frames until the caller has taken them, one per call, into  *)
(* buffers that may be too small.  Octets are lost, changed and added on   *)
(* the line, memory runs out, the caller resets the handle.                *)
(*                                                                         *)
(* Octets are numbers, frames are encoded and decoded by HdlcCodec: a flag *)
(* may also occur inside a frame.                                          *)
(***************************************************************************)
EXTENDS HdlcCodec

CONSTANTS
    Transmission,      \* what the stations send: frames, and noise between them
    NoisePolicy,       \* the policies a decoder is constructed with
    Limits,            \* options_.limits
    Rooms,             \* sizes of the caller's Information buffers
    NoiseOctet,        \* what a disturbed octet turns into
    MaxDisturbances    \* bound: mishaps of all kinds

ASSUME StreamAssumption ==
    /\ Transmission \in Seq(Seq(Octet))
    /\ NoisePolicy \subseteq {"IgnoreUntilOpeningFlag", "ReportError"}
    /\ NoiseOctet \subseteq Octet
    /\ Limits \in [maximumFrameSize : Nat, maximumInformationFieldSize : Nat]
    /\ MaxDisturbances \in Nat /\ Rooms \subseteq Nat

VARIABLES
    noisePolicy, buffer,  \* the fields of HdlcStreamDecoder
    pending,              \* the frames the C handle keeps
    line,                 \* the octets still to come
    taken,                \* history: the frames the caller received, in order
    disturbances          \* history: mishaps so far

streamVars == <<noisePolicy, buffer, pending, line, taken, disturbances>>

-----------------------------------------------------------------------------
(***************************************************************************)
(* HdlcStreamDecoder::Push.                                                *)
(***************************************************************************)
Noisy(b) == b # <<>> /\ b[1] # Flag

\* Mutant: the noise stays in the buffer.
NoiseKept(b) == b

SkipNoise(b) ==
    LET flags == {i \in DOMAIN b : b[i] = Flag}
    IN  IF flags = {} THEN <<>> ELSE From(b, Least(flags))

Complete(b) == Len(b) >= 3 /\ Len(b) >= FullFrameSize(b)

\* Mutant: the length is not compared with the limit.
AnySizeRefused(b) ==
    /\ Len(b) >= 3
    /\ ~FormatType3(b) \/ FormatFieldLength(b) < 6

Refused(b) ==
    /\ Len(b) >= 3
    /\ \/ ~FormatType3(b)
       \/ FormatFieldLength(b) < 6
       \/ FullFrameSize(b) > EffectiveMaximumFrameSize(Limits)

\* Mutant: the closing flag of the frame is left in the buffer.
ClosingFlagKept(b) == From(b, FullFrameSize(b))

AfterFrame(b) == From(b, FullFrameSize(b) + 1)

Incomplete(b) == [ok |-> TRUE, buffer |-> b, frames |-> <<>>]
ResetOnError == [ok |-> FALSE, buffer |-> <<>>, frames |-> <<>>]

\* The loop of Push, from what the buffer holds when it is entered.
Scan[b \in Seq(Octet)] ==
    LET c == SkipNoise(b)
        decoded == DecodeFrame(SubSeq(c, 1, FullFrameSize(c)), Limits)
        rest == Scan[AfterFrame(c)]
    IN  IF (noisePolicy = "ReportError" /\ Noisy(b)) \/ Refused(c) THEN ResetOnError
        ELSE IF ~Complete(c) THEN Incomplete(c)
        ELSE IF decoded.status # "Ok" THEN ResetOnError
        ELSE [rest EXCEPT !.frames = <<decoded.frame>> \o @]

-----------------------------------------------------------------------------
(***************************************************************************)
(* The handle of the C API.                                                *)
(***************************************************************************)
\* Mutant: the frame the caller has received stays.
FrontKept(queue) == queue

WithoutFront(queue) == Tail(queue)

\* The second half of dlms_hdlc_stream_decoder_push: NEED_MORE_DATA,
\* OUTPUT_BUFFER_TOO_SMALL, or the front of the queue.
HandOut(queue, room) ==
    IF queue = <<>> \/ Len(Head(queue).information) > room
    THEN pending' = queue /\ UNCHANGED taken
    ELSE pending' = WithoutFront(queue) /\ taken' = Append(taken, Head(queue))

Chunk(n) == SubSeq(line, 1, n)

Push(n, room) ==
    LET result == Scan[buffer \o Chunk(n)]
    IN  /\ result.ok
        /\ buffer' = result.buffer
        /\ HandOut(pending \o result.frames, room)
        /\ line' = From(line, n + 1)
        /\ UNCHANGED <<noisePolicy, disturbances>>

\* The decoder is reset, the frames this call had decoded are dropped, and the
\* frames of earlier calls stay.
PushError(n) ==
    LET result == Scan[buffer \o Chunk(n)]
    IN  /\ ~result.ok
        /\ buffer' = result.buffer
        /\ line' = From(line, n + 1)
        /\ UNCHANGED <<noisePolicy, pending, taken, disturbances>>

\* data_size = 0: the decoder is not entered.
Drain(room) ==
    /\ pending # <<>>
    /\ HandOut(pending, room)
    /\ UNCHANGED <<noisePolicy, buffer, line, disturbances>>

Disturbed == disturbances < MaxDisturbances /\ disturbances' = disturbances + 1

\* std::bad_alloc: in the decoder, which resets itself, or once the frames have
\* left it, where nothing does.
PushOutOfMemory(n) ==
    /\ buffer' \in {<<>>, Scan[buffer \o Chunk(n)].buffer}
    /\ line' = From(line, n + 1)
    /\ Disturbed
    /\ UNCHANGED <<noisePolicy, pending, taken>>

\* dlms_hdlc_stream_decoder_reset.
Reset ==
    /\ buffer' = <<>>
    /\ pending' = <<>>
    /\ Disturbed
    /\ UNCHANGED <<noisePolicy, line, taken>>

-----------------------------------------------------------------------------
(***************************************************************************)
(* The line.                                                               *)
(***************************************************************************)
OctetLost ==
    /\ line # <<>>
    /\ line' = Tail(line)
    /\ Disturbed
    /\ UNCHANGED <<noisePolicy, buffer, pending, taken>>

OctetChanged ==
    /\ line # <<>>
    /\ \E x \in NoiseOctet : line' = <<x>> \o Tail(line)
    /\ Disturbed
    /\ UNCHANGED <<noisePolicy, buffer, pending, taken>>

OctetAdded ==
    /\ \E x \in NoiseOctet : line' = <<x>> \o line
    /\ Disturbed
    /\ UNCHANGED <<noisePolicy, buffer, pending, taken>>

\* The octets of the first k transmissions, one after the other.
Octets[k \in 0 .. Len(Transmission)] ==
    IF k = 0 THEN <<>> ELSE Octets[k - 1] \o Transmission[k]

StreamInit ==
    /\ noisePolicy \in NoisePolicy
    /\ buffer = <<>>
    /\ pending = <<>>
    /\ line = Octets[Len(Transmission)]
    /\ taken = <<>>
    /\ disturbances = 0

StreamNext ==
    \/ \E n \in 1 .. Len(line) :
          \/ \E room \in Rooms : Push(n, room)
          \/ PushError(n)
          \/ PushOutOfMemory(n)
    \/ \E room \in Rooms : Drain(room)
    \/ Reset
    \/ OctetLost
    \/ OctetChanged
    \/ OctetAdded

StreamSpec == StreamInit /\ [][StreamNext]_streamVars

-----------------------------------------------------------------------------
(***************************************************************************)
(* Properties.                                                             *)
(***************************************************************************)
\* The fields keep their types.  Between calls the buffer is empty or starts with
\* a flag, and never holds a frame that could have been handed out.
StreamTypeOK ==
    /\ buffer \in Seq(Octet)
    /\ ~Noisy(buffer) /\ ~Complete(buffer)
    /\ pending \in Seq(HdlcFrame) /\ taken \in Seq(HdlcFrame)
    /\ line \in Seq(Octet)
    /\ disturbances \in 0 .. MaxDisturbances

\* A partial frame never grows to the maximum frame size, whatever length its
\* (perhaps damaged) format field announces.
BufferBounded == Len(buffer) < EffectiveMaximumFrameSize(Limits)

SentFrame == [i \in DOMAIN Transmission |-> DecodeFrame(Transmission[i], Limits)]

\* The frames among the first k transmissions.
FramesOf[k \in 0 .. Len(Transmission)] ==
    IF k = 0 THEN <<>>
    ELSE IF SentFrame[k].status = "Ok" THEN Append(FramesOf[k - 1], SentFrame[k].frame)
    ELSE FramesOf[k - 1]

\* Between the frames there is only noise without a flag.
FramesAndNoise ==
    \A k \in DOMAIN Transmission :
        \/ SentFrame[k].status = "Ok"
        \/ \A i \in DOMAIN Transmission[k] : Transmission[k][i] # Flag

Position(f) == CHOOSE k \in DOMAIN SentFrame : SentFrame[k] = [status |-> "Ok", frame |-> f]

\* No frame is handed out twice or overtakes another one, through errors, resets,
\* buffers that were too small and frames left in the queue.  (The frames of
\* Transmission are different from each other.)
InOrderOnce ==
    LET out == taken \o pending
    IN  \A i, j \in 1 .. Len(out) : i < j => Position(out[i]) < Position(out[j])

Consumed == Len(Octets[Len(Transmission)]) - Len(line)

\* The first k transmissions have been pushed and the next one not entirely.
Arrived(k) ==
    /\ Len(Octets[k]) <= Consumed
    /\ k < Len(Transmission) => Consumed < Len(Octets[k + 1])

\* hdlc_stream_decoder.hpp: the decoder "accepts arbitrary byte chunks and
\* extracts complete HDLC frames".  Until a mishap, the frames taken and pending
\* are exactly those whose last octet has been pushed, however the octets were cut
\* into chunks, whatever flags the frames contain and noise lies between them.
ExactUntilDisturbed ==
    disturbances = 0 /\ noisePolicy = "IgnoreUntilOpeningFlag" =>
        \A k \in 0 .. Len(Transmission) : Arrived(k) => taken \o pending = FramesOf[k]
============================================================================
