-------------------------- MODULE HdlcSegmentation --------------------------
(***************************************************************************)
(* HdlcSegmenter and HdlcReassembler (src/hdlc/hdlc_segmentation.cpp), and *)
(* the push function of the C API that hands a completed message to a      *)
(* buffer of the caller.  Several sources send their messages, segmented,  *)
(* over one line to one reassembler: their frames interleave, a frame can  *)
(* be lost, memory can run out, the owner can call Reset.                  *)
(*                                                                         *)
(* A byte of a message is <<source, message, index>>, so that what comes   *)
(* out of the reassembler tells where it went in.                          *)
(***************************************************************************)
EXTENDS Integers, Sequences, FiniteSets

CONSTANTS
    Source,              \* one per sending station and kind of frame it sends
    Origin,              \* the pair of addresses in the frames of each source
    Kind,                \* and their HdlcFrameKind
    Script,              \* messages of each source: their size and the maximum
                         \* Information field their segmenter is configured with
    MaximumReassembled,  \* limits_.maximumReassembledInformationSize, not zero
    SizeModulus,         \* std::size_t arithmetic is modulo this
    Rooms,               \* output buffer sizes of callers
    MaxDisturbances      \* bound: mishaps of all kinds

ASSUME ScriptAssumption ==
    /\ Script \in [Source -> Seq([size : Nat, field : Nat])]
    /\ IsFiniteSet(Source)

\* The address pair and the kind of its frames tell a source from the others.
ASSUME SourceAssumption ==
    \A s, t \in Source : Origin[s] = Origin[t] /\ Kind[s] = Kind[t] => s = t

ASSUME SizeAssumption ==
    /\ MaximumReassembled \in Nat \ {0}
    /\ SizeModulus \in Nat
    /\ MaximumReassembled < SizeModulus
    /\ Rooms \subseteq Nat
    /\ MaxDisturbances \in Nat

VARIABLES
    hasPending, pendingFrame,  \* the fields of HdlcReassembler
    message, segment,          \* what each source sends next
    completed,                 \* history: the frames handed to the caller, in order
    disturbances,              \* history: mishaps so far
    hit                        \* history: the messages <<s, m>> a mishap touched

reassembler == <<hasPending, pendingFrame>>
sending == <<message, segment>>
segmentationVars == <<reassembler, sending, completed, disturbances, hit>>

-----------------------------------------------------------------------------
(***************************************************************************)
(* The segmenter.                                                          *)
(***************************************************************************)
EffectiveMaximumInformationFieldSize(field) == IF field = 0 THEN 2030 ELSE field

Smaller(a, b) == IF a <= b THEN a ELSE b

\* The i-th stretch of at most max bytes.
Chunk(information, max, i) ==
    SubSeq(information, (i - 1) * max + 1, Smaller(i * max, Len(information)))

SegmentCount(size, max) == IF size <= max THEN 1 ELSE (size + max - 1) \div max

HasMore(size, max, i) == i * max < size

SegmentInformation(s, information, max) ==
    [i \in 1 .. SegmentCount(Len(information), max) |->
        [segmented |-> HasMore(Len(information), max, i),
         origin |-> Origin[s], kind |-> Kind[s],
         information |-> Chunk(information, max, i)]]

Information(s, m) == [i \in 1 .. Script[s][m].size |-> <<s, m, i>>]

Segments(s, m) ==
    SegmentInformation(s, Information(s, m),
                       EffectiveMaximumInformationFieldSize(Script[s][m].field))

-----------------------------------------------------------------------------
(***************************************************************************)
(* The reassembler.                                                        *)
(***************************************************************************)
NoFrame == [segmented |-> FALSE, origin |-> {}, kind |-> {}, information |-> <<>>]

\* Mutant: the pending sequence is kept.
ForgottenReset == UNCHANGED reassembler

Reset == hasPending' = FALSE /\ pendingFrame' = NoFrame

\* Mutant: the addresses are not compared.
AnyAddressCompatible(f, g) == f.kind = g.kind

\* SameAddress for both addresses, and CompatibleFrameType.
Compatible(f, g) == f.origin = g.origin /\ f.kind = g.kind

\* Mutants: a message of exactly the maximum is refused; the new segment is
\* not counted.
TightOverflows(f) ==
    Len(pendingFrame.information) >= (MaximumReassembled - Len(f.information)) % SizeModulus
LateOverflows(f) == Len(pendingFrame.information) > MaximumReassembled

\* pending.size() > maximum - new.size(), in unsigned arithmetic.
Overflows(f) ==
    Len(pendingFrame.information) > (MaximumReassembled - Len(f.information)) % SizeModulus

Extended(f) == [pendingFrame EXCEPT !.information = @ \o f.information]

\* Mutant: the completed frame keeps the segmentation bit of its first segment.
StillSegmented(f) == Extended(f)

Joined(f) == [Extended(f) EXCEPT !.segmented = FALSE]

Touched(f) == {<<f.information[i][1], f.information[i][2]>> : i \in DOMAIN f.information}

\* A mishap: the messages with a byte in frames have been interfered with.
Disturb(frames) ==
    /\ disturbances < MaxDisturbances
    /\ disturbances' = disturbances + 1
    /\ hit' = hit \cup UNION {Touched(f) : f \in frames}

Undisturbed == UNCHANGED <<disturbances, hit>>

\* dlms_hdlc_reassembler_push_frame: a completed message that is larger than the
\* caller's buffer is gone.  (For HdlcReassembler itself there is always room.)
HandOver(f, room) ==
    IF Len(f.information) <= room
    THEN completed' = Append(completed, f) /\ Undisturbed
    ELSE UNCHANGED completed /\ Disturb({f})

RefuseTooLarge(f) ==
    /\ ~hasPending
    /\ Len(f.information) > MaximumReassembled
    /\ Undisturbed
    /\ UNCHANGED <<reassembler, completed>>

CompleteAtOnce(f, room) ==
    /\ ~hasPending
    /\ Len(f.information) <= MaximumReassembled
    /\ ~f.segmented
    /\ HandOver(f, room)
    /\ UNCHANGED reassembler

BeginSequence(f) ==
    /\ ~hasPending
    /\ Len(f.information) <= MaximumReassembled
    /\ f.segmented
    /\ hasPending' = TRUE
    /\ pendingFrame' = f
    /\ Undisturbed
    /\ UNCHANGED completed

\* std::bad_alloc while the frame is copied, to the caller or to pendingFrame_:
\* nothing is caught here, and hasPending_ has not been set yet.
LoseOutOfMemory(f) ==
    /\ ~hasPending
    /\ Len(f.information) <= MaximumReassembled
    /\ Disturb({f})
    /\ UNCHANGED <<reassembler, completed>>

\* SegmentationError: both the pending sequence and the new frame are dropped.
DropIncompatible(f) ==
    /\ hasPending
    /\ ~Compatible(pendingFrame, f)
    /\ Reset
    /\ Disturb({pendingFrame, f})
    /\ UNCHANGED completed

\* SegmentationOverflow.
DropOverflow(f) ==
    /\ hasPending
    /\ Compatible(pendingFrame, f)
    /\ Overflows(f)
    /\ Reset
    /\ Undisturbed
    /\ UNCHANGED completed

\* std::bad_alloc while the segment is appended.
DropOutOfMemory(f) ==
    /\ hasPending
    /\ Compatible(pendingFrame, f)
    /\ ~Overflows(f)
    /\ Reset
    /\ Disturb({pendingFrame, f})
    /\ UNCHANGED completed

ContinueSequence(f) ==
    /\ hasPending
    /\ Compatible(pendingFrame, f)
    /\ ~Overflows(f)
    /\ f.segmented
    /\ pendingFrame' = Extended(f)
    /\ Undisturbed
    /\ UNCHANGED <<hasPending, completed>>

CompleteSequence(f, room) ==
    /\ hasPending
    /\ Compatible(pendingFrame, f)
    /\ ~Overflows(f)
    /\ ~f.segmented
    /\ HandOver(Joined(f), room)
    /\ Reset

\* std::bad_alloc while the completed message is copied to the caller: it stays
\* pending, final segment and all, and the next frame is appended to it.
KeepOutOfMemory(f) ==
    /\ hasPending
    /\ Compatible(pendingFrame, f)
    /\ ~Overflows(f)
    /\ ~f.segmented
    /\ pendingFrame' = Extended(f)
    /\ Disturb({pendingFrame, f})
    /\ UNCHANGED <<hasPending, completed>>

PushFrame(f, room) ==
    \/ RefuseTooLarge(f)
    \/ LoseOutOfMemory(f)
    \/ CompleteAtOnce(f, room)
    \/ BeginSequence(f)
    \/ DropIncompatible(f)
    \/ DropOverflow(f)
    \/ DropOutOfMemory(f)
    \/ ContinueSequence(f)
    \/ CompleteSequence(f, room)
    \/ KeepOutOfMemory(f)

-----------------------------------------------------------------------------
(***************************************************************************)
(* The sources and the line.                                               *)
(***************************************************************************)
SegmentationInit ==
    /\ hasPending = FALSE
    /\ pendingFrame = NoFrame
    /\ message = [s \in Source |-> 1]
    /\ segment = [s \in Source |-> 1]
    /\ completed = <<>>
    /\ disturbances = 0
    /\ hit = {}

HasFrame(s) == message[s] <= Len(Script[s])

NextFrame(s) == Segments(s, message[s])[segment[s]]

Advance(s) ==
    IF segment[s] < Len(Segments(s, message[s]))
    THEN /\ segment' = [segment EXCEPT ![s] = @ + 1]
         /\ UNCHANGED message
    ELSE /\ segment' = [segment EXCEPT ![s] = 1]
         /\ message' = [message EXCEPT ![s] = @ + 1]

Arrive(s) ==
    /\ HasFrame(s)
    /\ \E room \in Rooms : PushFrame(NextFrame(s), room)
    /\ Advance(s)

Lose(s) ==
    /\ HasFrame(s)
    /\ Disturb({NextFrame(s)})
    /\ Advance(s)
    /\ UNCHANGED <<reassembler, completed>>

OwnerResets ==
    /\ hasPending
    /\ Reset
    /\ Disturb({pendingFrame})
    /\ UNCHANGED <<sending, completed>>

SegmentationNext ==
    \/ \E s \in Source : Arrive(s) \/ Lose(s)
    \/ OwnerResets

SegmentationSpec == SegmentationInit /\ [][SegmentationNext]_segmentationVars

-----------------------------------------------------------------------------
(***************************************************************************)
(* Properties.                                                             *)
(***************************************************************************)
Byte == Source \X Nat \X Nat

IsFrame(f) ==
    /\ f.segmented \in BOOLEAN
    /\ \E s \in Source : f.origin = Origin[s] /\ f.kind = Kind[s]
    /\ \A i \in 1 .. Len(f.information) : f.information[i] \in Byte

\* The fields of the reassembler keep their types; a frame is pending exactly
\* while hasPending_ is set, and a frame handed over is never itself a segment.
SegmentationTypeOK ==
    /\ hasPending \in BOOLEAN
    /\ IF hasPending THEN IsFrame(pendingFrame) /\ pendingFrame.segmented
                     ELSE pendingFrame = NoFrame
    /\ message \in [Source -> Nat] /\ segment \in [Source -> Nat]
    /\ \A k \in 1 .. Len(completed) : IsFrame(completed[k]) /\ ~completed[k].segmented
    /\ disturbances \in 0 .. MaxDisturbances

\* No completed or pending message holds bytes of two stations, or of frames of
\* two kinds, however the sources interleave and whatever is lost.
OfOneOrigin(f) ==
    \A i \in 1 .. Len(f.information) :
        /\ Origin[f.information[i][1]] = f.origin
        /\ Kind[f.information[i][1]] = f.kind

NeverMixed ==
    /\ OfOneOrigin(pendingFrame)
    /\ \A k \in 1 .. Len(completed) : OfOneOrigin(completed[k])

\* The bytes a source has got across, the pending ones included, are in the order
\* it sent them and none comes twice, although frames are lost and the pending
\* sequence is thrown away, or kept by a copy that failed, half way through.
Before(a, b) == a[1] = b[1] => a[2] < b[2] \/ (a[2] = b[2] /\ a[3] < b[3])

Ascending(info) ==
    \A i, j \in 1 .. Len(info) : i < j => Before(info[i], info[j])

BytesInOrder ==
    /\ Ascending(pendingFrame.information)
    /\ \A k \in 1 .. Len(completed) :
          /\ Ascending(completed[k].information)
          /\ \A i \in 1 .. Len(completed[k].information) :
                /\ \A j \in 1 .. Len(pendingFrame.information) :
                      Before(completed[k].information[i], pendingFrame.information[j])
                /\ \A l \in k + 1 .. Len(completed) :
                      \A j \in 1 .. Len(completed[l].information) :
                          Before(completed[k].information[i], completed[l].information[j])

\* One mishap costs at most one message beside those it touched: a message that
\* fits, whose every frame arrived and none of whose frames was interfered with,
\* is handed over byte for byte, but for one such message per mishap (the one
\* that follows a lost final segment).
Intact ==
    {x \in UNION {{s} \X (1 .. message[s] - 1) : s \in Source} :
        x \notin hit /\ Script[x[1]][x[2]].size <= MaximumReassembled}

HandedOver(s, m) ==
    \E k \in 1 .. Len(completed) :
        /\ completed[k].information = Information(s, m)
        /\ completed[k].origin = Origin[s] /\ completed[k].kind = Kind[s]

DamageContained ==
    Cardinality({x \in Intact : ~HandedOver(x[1], x[2])}) <= disturbances

\* docs/03 section 6: no accumulation exceeds the maximum.
WithinMaximum ==
    /\ Len(pendingFrame.information) <= MaximumReassembled
    /\ \A k \in 1 .. Len(completed) :
          Len(completed[k].information) <= MaximumReassembled
============================================================================
