----------------------- MODULE HdlcSegmentationProofs -----------------------
(***************************************************************************)
(* Theorems about reassembly, for every set of sources, every script of    *)
(* messages, every maximum and every number of mishaps.                    *)
(***************************************************************************)
EXTENDS HdlcSegmentation, TLAPS, FiniteSetTheorems, SequenceTheorems

\* The frames there are, by type.
FrameRecord ==
    [segmented : BOOLEAN,
     origin : {Origin[s] : s \in Source} \cup {{}},
     kind : {Kind[s] : s \in Source} \cup {{}},
     information : Seq(Byte)]

-----------------------------------------------------------------------------
(***************************************************************************)
(* What the segmenter makes.                                               *)
(***************************************************************************)
\* A stretch of a message is a sequence of its bytes.
LEMMA ChunkIsPart ==
    ASSUME NEW info \in Seq(Byte), NEW max \in Nat \ {0}, NEW i \in Nat \ {0}
    PROVE  /\ Chunk(info, max, i) \in Seq(Byte)
           /\ \A j \in 1 .. Len(Chunk(info, max, i)) :
                 \E k \in 1 .. Len(info) : Chunk(info, max, i)[j] = info[k]
<1> DEFINE lo == (i - 1) * max + 1
           hi == Smaller(i * max, Len(info))
<1>1. lo \in Nat \ {0} /\ hi \in Nat /\ hi <= Len(info)
    <2>1. (i - 1) * max \in Nat /\ i * max \in Nat
        OBVIOUS
    <2> QED
        BY <2>1 DEF Smaller
<1> HIDE DEF lo, hi
<1>2. /\ SubSeq(info, lo, hi) \in Seq(Byte)
      /\ \A j \in 1 .. Len(SubSeq(info, lo, hi)) :
            /\ lo + j - 1 \in 1 .. Len(info)
            /\ SubSeq(info, lo, hi)[j] = info[lo + j - 1]
    BY <1>1, SMTT(30)
<1>3. Chunk(info, max, i) = SubSeq(info, lo, hi)
    BY DEF Chunk, lo, hi
<1> QED
    BY <1>2, <1>3

\* What a sequence over S holds is in S.
LEMMA Element ==
    ASSUME NEW S, NEW q \in Seq(S), NEW i \in 1 .. Len(q)
    PROVE  q[i] \in S
OBVIOUS

\* A message is a sequence of bytes of its source; there is room for at least one
\* of them in a segment.
LEMMA InformationType ==
    ASSUME NEW s \in Source, NEW m \in 1 .. Len(Script[s])
    PROVE  /\ Information(s, m) \in Seq(Byte)
           /\ Len(Information(s, m)) = Script[s][m].size
           /\ \A i \in 1 .. Len(Information(s, m)) : Information(s, m)[i][1] = s
           /\ Script[s][m].size \in Nat
           /\ EffectiveMaximumInformationFieldSize(Script[s][m].field) \in Nat \ {0}
<1>1. Script[s] \in Seq([size : Nat, field : Nat])
    BY ScriptAssumption
<1>2. Script[s][m] \in [size : Nat, field : Nat]
    BY <1>1, Element
<1> DEFINE n == Script[s][m].size
<1>3. n \in Nat /\ Script[s][m].field \in Nat
    BY <1>2
<1>4. Information(s, m) = [i \in 1 .. n |-> <<s, m, i>>]
    BY DEF Information
<1>5. m \in Nat
    BY <1>1
<1> HIDE DEF n
<1>6. \A i \in 1 .. n : <<s, m, i>> \in Byte
    BY <1>3, <1>5 DEF Byte
<1>7. Information(s, m) \in Seq(Byte) /\ Len(Information(s, m)) = n
    BY <1>3, <1>4, <1>6
<1>8. \A i \in 1 .. n : Information(s, m)[i][1] = s
    BY <1>4
<1> QED
    BY <1>3, <1>7, <1>8 DEF n, EffectiveMaximumInformationFieldSize

\* Every message, the empty one included, has a segment.
LEMMA SegmentCountPositive ==
    ASSUME NEW size \in Nat, NEW max \in Nat \ {0}
    PROVE  SegmentCount(size, max) \in Nat \ {0}
<1> DEFINE q == (size + max - 1) \div max
<1>1. CASE size <= max
    BY <1>1 DEF SegmentCount
<1>2. CASE size > max
    <2>1. q \in Nat
        OBVIOUS
    <2>2. size + max - 1 < max * (q + 1)
        OBVIOUS
    <2>3. q # 0
        BY <1>2, <2>2
    <2> QED
        BY <1>2, <2>1, <2>3 DEF SegmentCount
<1> QED
    BY <1>1, <1>2

\* A frame of bytes that all come from the station and kind the frame names.
Pure(f) == f \in FrameRecord /\ OfOneOrigin(f)

\* The segmenter makes pure frames.
LEMMA SegmentsOf ==
    ASSUME NEW s \in Source, NEW m \in 1 .. Len(Script[s])
    PROVE  /\ Len(Segments(s, m)) \in Nat \ {0}
           /\ \A k \in 1 .. Len(Segments(s, m)) : Pure(Segments(s, m)[k])
<1> DEFINE info == Information(s, m)
           max == EffectiveMaximumInformationFieldSize(Script[s][m].field)
           n == SegmentCount(Len(info), max)
           frame(k) == [segmented |-> HasMore(Len(info), max, k),
                        origin |-> Origin[s], kind |-> Kind[s],
                        information |-> Chunk(info, max, k)]
<1>1. /\ info \in Seq(Byte) /\ max \in Nat \ {0} /\ Len(info) \in Nat
      /\ \A i \in 1 .. Len(info) : info[i][1] = s
    BY InformationType
<1>2. n \in Nat \ {0}
    BY <1>1, SegmentCountPositive
<1>3. Segments(s, m) = [k \in 1 .. n |-> frame(k)]
    BY DEF Segments, SegmentInformation
<1> HIDE DEF info, max, n
<1>4. ASSUME NEW k \in 1 .. n
      PROVE  Pure(frame(k))
    <2>1. /\ Chunk(info, max, k) \in Seq(Byte)
          /\ \A j \in 1 .. Len(Chunk(info, max, k)) :
                \E i \in 1 .. Len(info) : Chunk(info, max, k)[j] = info[i]
        <3>1. k \in Nat \ {0}
            BY <1>2
        <3> QED
            BY <1>1, <3>1, ChunkIsPart
    <2>2. HasMore(Len(info), max, k) \in BOOLEAN
        BY DEF HasMore
    <2>3. frame(k) \in FrameRecord
        BY <2>1, <2>2 DEF FrameRecord
    <2>4. OfOneOrigin(frame(k))
        BY <1>1, <2>1 DEF OfOneOrigin
    <2> QED
        BY <2>3, <2>4 DEF Pure
<1> HIDE DEF frame
<1>5. Len(Segments(s, m)) = n
    BY <1>2, <1>3
<1> QED
    BY <1>2, <1>3, <1>4, <1>5

-----------------------------------------------------------------------------
(***************************************************************************)
(* No mixing.                                                              *)
(***************************************************************************)
SendingOK ==
    /\ message \in [Source -> Nat \ {0}]
    /\ segment \in [Source -> Nat \ {0}]
    /\ \A s \in Source : HasFrame(s) => segment[s] \in 1 .. Len(Segments(s, message[s]))

ReassemblerPure ==
    /\ hasPending \in BOOLEAN
    /\ Pure(pendingFrame)
    /\ completed \in Seq(FrameRecord)
    /\ \A k \in 1 .. Len(completed) : Pure(completed[k])

\* What is inductive: every frame in the reassembler, handed over or yet to be
\* sent is pure.
PureInv == SendingOK /\ ReassemblerPure

\* So the next frame of a source is pure.
LEMMA NextFramePure ==
    ASSUME SendingOK, NEW s \in Source, HasFrame(s)
    PROVE  Pure(NextFrame(s))
<1>1. message[s] \in 1 .. Len(Script[s])
    <2>1. Script[s] \in Seq([size : Nat, field : Nat])
        BY ScriptAssumption
    <2> QED
        BY <2>1 DEF SendingOK, HasFrame
<1> QED
    BY <1>1, SegmentsOf DEF SendingOK, NextFrame

\* An element of a concatenation is one of either part.
LEMMA Concatenation ==
    ASSUME NEW S, NEW a \in Seq(S), NEW b \in Seq(S), NEW i \in 1 .. Len(a \o b)
    PROVE  \/ i \in 1 .. Len(a) /\ (a \o b)[i] = a[i]
           \/ i - Len(a) \in 1 .. Len(b) /\ (a \o b)[i] = b[i - Len(a)]
<1>1. Len(a) \in Nat /\ Len(b) \in Nat /\ Len(a \o b) = Len(a) + Len(b)
    OBVIOUS
<1>2. CASE i <= Len(a)
    BY <1>1, <1>2
<1>3. CASE i > Len(a)
    <2>1. i - Len(a) \in 1 .. Len(b)
        BY <1>1, <1>3
    <2> QED
        BY <1>1, <1>3, <2>1
<1> QED
    BY <1>1, <1>2, <1>3

\* Concatenating compatible frames gives a pure one.
LEMMA ExtendedPure ==
    ASSUME Pure(pendingFrame), NEW f, Pure(f), Compatible(pendingFrame, f)
    PROVE  Pure(Extended(f)) /\ Pure(Joined(f))
<1> DEFINE a == pendingFrame.information
           b == f.information
<1>1. a \in Seq(Byte) /\ b \in Seq(Byte)
    BY DEF Pure, FrameRecord
<1>2. /\ Extended(f) = [pendingFrame EXCEPT !.information = a \o b]
      /\ Joined(f) = [pendingFrame EXCEPT !.information = a \o b, !.segmented = FALSE]
    BY DEF Extended, Joined, Pure, FrameRecord
<1>3. a \o b \in Seq(Byte)
    BY <1>1
<1>4. /\ Extended(f) \in FrameRecord /\ Extended(f).information = a \o b
      /\ Extended(f).origin = pendingFrame.origin /\ Extended(f).kind = pendingFrame.kind
      /\ Joined(f) \in FrameRecord /\ Joined(f).information = a \o b
      /\ Joined(f).origin = pendingFrame.origin /\ Joined(f).kind = pendingFrame.kind
    BY <1>2, <1>3 DEF Pure, FrameRecord
<1>5. \A i \in 1 .. Len(a \o b) :
          /\ Origin[(a \o b)[i][1]] = pendingFrame.origin
          /\ Kind[(a \o b)[i][1]] = pendingFrame.kind
    <2> SUFFICES ASSUME NEW i \in 1 .. Len(a \o b)
                 PROVE  /\ Origin[(a \o b)[i][1]] = pendingFrame.origin
                        /\ Kind[(a \o b)[i][1]] = pendingFrame.kind
        OBVIOUS
    <2>1. CASE i \in 1 .. Len(a) /\ (a \o b)[i] = a[i]
        BY <2>1 DEF Pure, OfOneOrigin
    <2>2. CASE i - Len(a) \in 1 .. Len(b) /\ (a \o b)[i] = b[i - Len(a)]
        BY <2>2 DEF Pure, OfOneOrigin, Compatible
    <2> QED
        BY <1>1, <2>1, <2>2, Concatenation, ZenonT(30)
<1> QED
    BY <1>4, <1>5 DEF Pure, OfOneOrigin

\* So is the empty frame.
LEMMA NoFramePure == Pure(NoFrame)
BY DEF Pure, NoFrame, FrameRecord, OfOneOrigin

\* Handing over a pure frame, or dropping it, leaves pure ones.
LEMMA HandOverPure ==
    ASSUME ReassemblerPure, NEW f, Pure(f), NEW room, HandOver(f, room)
    PROVE  /\ completed' \in Seq(FrameRecord)
           /\ \A k \in 1 .. Len(completed') : Pure(completed'[k])
<1>1. CASE completed' = Append(completed, f)
    <2>1. f \in FrameRecord /\ completed \in Seq(FrameRecord)
        BY DEF Pure, ReassemblerPure
    <2>2. /\ completed' \in Seq(FrameRecord) /\ Len(completed') = Len(completed) + 1
          /\ \A k \in 1 .. Len(completed) : completed'[k] = completed[k]
          /\ completed'[Len(completed) + 1] = f
        BY <1>1, <2>1
    <2> QED
        BY <2>1, <2>2 DEF ReassemblerPure
<1>2. CASE completed' = completed
    BY <1>2 DEF ReassemblerPure
<1> QED
    BY <1>1, <1>2 DEF HandOver

\* Every way out of PushFrame keeps the reassembler pure.
LEMMA PushFramePure ==
    ASSUME ReassemblerPure, NEW f, Pure(f), NEW room, PushFrame(f, room)
    PROVE  ReassemblerPure'
<1> USE DEF reassembler
<1>1. CASE RefuseTooLarge(f)
    BY <1>1 DEF RefuseTooLarge, ReassemblerPure, Pure, OfOneOrigin
<1>2. CASE LoseOutOfMemory(f)
    BY <1>2 DEF LoseOutOfMemory, ReassemblerPure, Pure, OfOneOrigin
<1>3. CASE CompleteAtOnce(f, room)
    BY <1>3, HandOverPure DEF CompleteAtOnce, ReassemblerPure, Pure, OfOneOrigin
<1>4. CASE BeginSequence(f)
    BY <1>4 DEF BeginSequence, ReassemblerPure, Pure, OfOneOrigin
<1>5. CASE DropIncompatible(f)
    BY <1>5, NoFramePure DEF DropIncompatible, Reset, ReassemblerPure, Pure, OfOneOrigin
<1>6. CASE DropOverflow(f)
    BY <1>6, NoFramePure DEF DropOverflow, Reset, ReassemblerPure, Pure, OfOneOrigin
<1>7. CASE DropOutOfMemory(f)
    BY <1>7, NoFramePure DEF DropOutOfMemory, Reset, ReassemblerPure, Pure, OfOneOrigin
<1>8. CASE ContinueSequence(f)
    BY <1>8, ExtendedPure DEF ContinueSequence, ReassemblerPure, Pure, OfOneOrigin
<1>9. CASE CompleteSequence(f, room)
    <2>1. Pure(Joined(f))
        BY <1>9, ExtendedPure DEF CompleteSequence, ReassemblerPure
    <2> QED
        BY <1>9, <2>1, HandOverPure, NoFramePure
        DEF CompleteSequence, Reset, ReassemblerPure, Pure, OfOneOrigin
<1>10. CASE KeepOutOfMemory(f)
    BY <1>10, ExtendedPure DEF KeepOutOfMemory, ReassemblerPure, Pure, OfOneOrigin
<1> QED
    BY <1>1, <1>2, <1>3, <1>4, <1>5, <1>6, <1>7, <1>8, <1>9, <1>10 DEF PushFrame

\* The sources stay within their scripts.
LEMMA AdvanceOK ==
    ASSUME SendingOK, NEW s \in Source, HasFrame(s), Advance(s)
    PROVE  SendingOK'
<1>1. message[s] \in 1 .. Len(Script[s]) /\ Len(Script[s]) \in Nat
    <2>1. Script[s] \in Seq([size : Nat, field : Nat])
        BY ScriptAssumption
    <2> QED
        BY <2>1 DEF SendingOK, HasFrame
<1>2. CASE segment[s] < Len(Segments(s, message[s]))
    <2>1. /\ segment' = [segment EXCEPT ![s] = @ + 1] /\ message' = message
          /\ segment[s] + 1 \in 1 .. Len(Segments(s, message[s]))
        BY <1>1, <1>2, SegmentsOf DEF SendingOK, Advance
    <2> QED
        BY <2>1 DEF SendingOK, HasFrame
<1>3. CASE ~(segment[s] < Len(Segments(s, message[s])))
    <2>1. /\ segment' = [segment EXCEPT ![s] = 1]
          /\ message' = [message EXCEPT ![s] = @ + 1]
        BY <1>3 DEF Advance
    <2>2. /\ message' \in [Source -> Nat \ {0}] /\ segment' \in [Source -> Nat \ {0}]
        BY <2>1 DEF SendingOK
    <2>3. ASSUME NEW x \in Source, HasFrame(x)'
          PROVE  segment'[x] \in 1 .. Len(Segments(x, message'[x]))
        <3>1. CASE x = s
            <4>1. Script[s] \in Seq([size : Nat, field : Nat])
                BY ScriptAssumption
            <4>2. message'[s] \in 1 .. Len(Script[s])
                BY <2>2, <2>3, <3>1, <4>1 DEF HasFrame
            <4>3. segment'[s] = 1
                BY <2>1 DEF SendingOK
            <4> QED
                BY <3>1, <4>2, <4>3, SegmentsOf
        <3>2. CASE x # s
            BY <2>1, <2>3, <3>2 DEF SendingOK, HasFrame
        <3> QED
            BY <3>1, <3>2
    <2> QED
        BY <2>2, <2>3 DEF SendingOK
<1> QED
    BY <1>2, <1>3

\* The invariant holds at first.
LEMMA InitPureInv == SegmentationInit => PureInv
<1> SUFFICES ASSUME SegmentationInit
             PROVE  PureInv
    OBVIOUS
<1>1. SendingOK
    <2>1. ASSUME NEW s \in Source, HasFrame(s)
          PROVE  segment[s] \in 1 .. Len(Segments(s, message[s]))
        <3>1. Script[s] \in Seq([size : Nat, field : Nat])
            BY ScriptAssumption
        <3>2. message[s] = 1 /\ segment[s] = 1 /\ 1 \in 1 .. Len(Script[s])
            BY <2>1, <3>1 DEF SegmentationInit, HasFrame
        <3> QED
            BY <3>2, SegmentsOf
    <2> QED
        BY <2>1 DEF SegmentationInit, SendingOK
<1>2. ReassemblerPure
    <2>1. completed = <<>> /\ Len(completed) = 0 /\ completed \in Seq(FrameRecord)
        BY DEF SegmentationInit
    <2>2. hasPending \in BOOLEAN /\ Pure(pendingFrame)
        BY NoFramePure DEF SegmentationInit
    <2>3. \A k \in 1 .. Len(completed) : Pure(completed[k])
        BY <2>1
    <2> QED
        BY <2>1, <2>2, <2>3 DEF ReassemblerPure
<1> QED
    BY <1>1, <1>2 DEF PureInv

\* Every step keeps the invariant.
LEMMA StepPureInv == PureInv /\ [SegmentationNext]_segmentationVars => PureInv'
<1> SUFFICES ASSUME PureInv, [SegmentationNext]_segmentationVars
             PROVE  PureInv'
    OBVIOUS
<1> USE DEF PureInv
<1>1. ASSUME NEW s \in Source, Arrive(s)
      PROVE  PureInv'
    <2>1. HasFrame(s) /\ Advance(s) /\ \E room \in Rooms : PushFrame(NextFrame(s), room)
        BY <1>1 DEF Arrive
    <2>2. Pure(NextFrame(s))
        BY <2>1, NextFramePure
    <2> QED
        BY <2>1, <2>2, PushFramePure, AdvanceOK
<1>2. ASSUME NEW s \in Source, Lose(s)
      PROVE  PureInv'
    <2>1. SendingOK'
        BY <1>2, AdvanceOK DEF Lose
    <2>2. ReassemblerPure'
        BY <1>2 DEF Lose, reassembler, ReassemblerPure, Pure, OfOneOrigin
    <2> QED
        BY <2>1, <2>2
<1>3. CASE OwnerResets
    <2>1. SendingOK'
        BY <1>3 DEF OwnerResets, sending, SendingOK, HasFrame
    <2>2. ReassemblerPure'
        BY <1>3, NoFramePure DEF OwnerResets, Reset, ReassemblerPure, Pure, OfOneOrigin
    <2> QED
        BY <2>1, <2>2
<1>4. CASE UNCHANGED segmentationVars
    BY <1>4 DEF segmentationVars, reassembler, sending, SendingOK, HasFrame,
                ReassemblerPure, Pure, OfOneOrigin
<1> QED
    BY <1>1, <1>2, <1>3, <1>4 DEF SegmentationNext

\* So it holds always.
LEMMA PureInvariant == SegmentationSpec => []PureInv
BY InitPureInv, StepPureInv, PTL DEF SegmentationSpec

\* No message in the reassembler or handed over holds bytes of two stations or
\* of frames of two kinds, whatever the sources send, in whatever interleaving.
THEOREM NoMixing == SegmentationSpec => []NeverMixed
<1>1. PureInv => NeverMixed
    BY DEF PureInv, ReassemblerPure, Pure, NeverMixed
<1> QED
    BY <1>1, PureInvariant, PTL

-----------------------------------------------------------------------------
(***************************************************************************)
(* The size of what is accumulated.                                        *)
(***************************************************************************)
\* No sender was configured with segments larger than the receiver's maximum.
\* Without this the difference in Overflows wraps around: see the run
\* SegmentOverflow.
SegmentsFit ==
    \A s \in Source : \A m \in 1 .. Len(Script[s]) : \A k \in 1 .. Len(Segments(s, m)) :
        Len(Segments(s, m)[k].information) <= MaximumReassembled

\* The modulus does not touch a number below it.
LEMMA SmallModulo ==
    ASSUME NEW a \in Nat, NEW n \in Nat, a < n
    PROVE  a % n = a
OBVIOUS

\* For a frame within the maximum the unsigned test is the intended one.
LEMMA OverflowsExactly ==
    ASSUME Pure(pendingFrame), NEW f, Pure(f), Len(f.information) <= MaximumReassembled,
           ~Overflows(f)
    PROVE  /\ Len(Extended(f).information) <= MaximumReassembled
           /\ Len(Joined(f).information) <= MaximumReassembled
<1> DEFINE a == pendingFrame.information
           b == f.information
<1>1. a \in Seq(Byte) /\ b \in Seq(Byte) /\ Len(a) \in Nat /\ Len(b) \in Nat
    BY DEF Pure, FrameRecord
<1>2. /\ MaximumReassembled - Len(b) \in Nat
      /\ MaximumReassembled - Len(b) < SizeModulus
    BY <1>1, SizeAssumption
<1>3. (MaximumReassembled - Len(b)) % SizeModulus = MaximumReassembled - Len(b)
    BY <1>2, SizeAssumption, SmallModulo
<1>4. Len(a) <= MaximumReassembled - Len(b)
    BY <1>1, <1>2, <1>3 DEF Overflows
<1>5. Len(a \o b) <= MaximumReassembled
    <2> HIDE DEF a, b
    <2>1. Len(a \o b) = Len(a) + Len(b)
        BY <1>1
    <2>2. MaximumReassembled \in Nat
        BY SizeAssumption
    <2>3. Len(a) + Len(b) <= MaximumReassembled
        BY <1>1, <1>4, <2>2
    <2> QED
        BY <2>1, <2>3
<1>6. Extended(f).information = a \o b /\ Joined(f).information = a \o b
    BY DEF Extended, Joined, Pure, FrameRecord
<1> QED
    BY <1>5, <1>6

\* A message within the maximum is handed over or dropped.
LEMMA HandOverWithin ==
    ASSUME ReassemblerPure, WithinMaximum, NEW f, Len(f.information) <= MaximumReassembled,
           NEW room, HandOver(f, room), Pure(f)
    PROVE  \A k \in 1 .. Len(completed') : Len(completed'[k].information) <= MaximumReassembled
<1>1. CASE completed' = Append(completed, f)
    <2>1. f \in FrameRecord /\ completed \in Seq(FrameRecord)
        BY DEF Pure, ReassemblerPure
    <2>2. /\ Len(completed') = Len(completed) + 1
          /\ \A k \in 1 .. Len(completed) : completed'[k] = completed[k]
          /\ completed'[Len(completed) + 1] = f
        BY <1>1, <2>1
    <2>3. Len(completed) \in Nat
        BY <2>1
    <2> QED
        BY <2>2, <2>3 DEF WithinMaximum
<1>2. CASE completed' = completed
    BY <1>2 DEF WithinMaximum
<1> QED
    BY <1>1, <1>2 DEF HandOver

\* Every way out of PushFrame keeps to the maximum, for a frame that does.
LEMMA PushFrameWithin ==
    ASSUME ReassemblerPure, WithinMaximum, NEW f, Pure(f),
           Len(f.information) <= MaximumReassembled, NEW room, PushFrame(f, room)
    PROVE  WithinMaximum'
<1> USE DEF reassembler
<1>1. NoFrame.information = <<>> /\ Len(NoFrame.information) <= MaximumReassembled
    BY SizeAssumption DEF NoFrame
<1>2. CASE RefuseTooLarge(f) \/ LoseOutOfMemory(f)
    BY <1>2 DEF RefuseTooLarge, LoseOutOfMemory, WithinMaximum
<1>3. CASE CompleteAtOnce(f, room)
    BY <1>3, HandOverWithin DEF CompleteAtOnce, WithinMaximum
<1>4. CASE BeginSequence(f)
    BY <1>4 DEF BeginSequence, WithinMaximum
<1>5. CASE DropIncompatible(f) \/ DropOverflow(f) \/ DropOutOfMemory(f)
    BY <1>1, <1>5 DEF DropIncompatible, DropOverflow, DropOutOfMemory, Reset, WithinMaximum
<1>6. CASE ContinueSequence(f) \/ KeepOutOfMemory(f)
    BY <1>6, OverflowsExactly
    DEF ContinueSequence, KeepOutOfMemory, WithinMaximum, ReassemblerPure
<1>7. CASE CompleteSequence(f, room)
    <2>1. Pure(Joined(f)) /\ Len(Joined(f).information) <= MaximumReassembled
        BY <1>7, ExtendedPure, OverflowsExactly DEF CompleteSequence, ReassemblerPure
    <2> QED
        BY <1>1, <1>7, <2>1, HandOverWithin DEF CompleteSequence, Reset, WithinMaximum
<1> QED
    BY <1>2, <1>3, <1>4, <1>5, <1>6, <1>7 DEF PushFrame

\* If every segment on the line fits the maximum by itself, then nothing larger
\* is ever accumulated or handed over.
THEOREM SizesBounded ==
    ASSUME SegmentsFit
    PROVE  SegmentationSpec => []WithinMaximum
<1>1. SegmentationInit => WithinMaximum
    BY SizeAssumption DEF SegmentationInit, NoFrame, WithinMaximum
<1>2. ASSUME PureInv, WithinMaximum, [SegmentationNext]_segmentationVars
      PROVE  WithinMaximum'
    <2> USE <1>2 DEF PureInv
    <2>1. ASSUME NEW s \in Source, Arrive(s)
          PROVE  WithinMaximum'
        <3>1. HasFrame(s) /\ \E room \in Rooms : PushFrame(NextFrame(s), room)
            BY <2>1 DEF Arrive
        <3>2. Pure(NextFrame(s))
            BY <3>1, NextFramePure
        <3>3. message[s] \in 1 .. Len(Script[s])
            <4>1. Script[s] \in Seq([size : Nat, field : Nat])
                BY ScriptAssumption
            <4> QED
                BY <3>1, <4>1 DEF SendingOK, HasFrame
        <3>4. Len(NextFrame(s).information) <= MaximumReassembled
            BY <3>1, <3>3, SegmentsFit DEF SegmentsFit, SendingOK, NextFrame
        <3> QED
            BY <3>1, <3>2, <3>4, PushFrameWithin
    <2>2. ASSUME NEW s \in Source, Lose(s)
          PROVE  WithinMaximum'
        BY <2>2 DEF Lose, reassembler, WithinMaximum
    <2>3. CASE OwnerResets
        BY <2>3, SizeAssumption DEF OwnerResets, Reset, NoFrame, WithinMaximum
    <2>4. CASE UNCHANGED segmentationVars
        BY <2>4 DEF segmentationVars, reassembler, WithinMaximum
    <2> QED
        BY <2>1, <2>2, <2>3, <2>4 DEF SegmentationNext
<1> QED
    BY <1>1, <1>2, PureInvariant, PTL DEF SegmentationSpec

-----------------------------------------------------------------------------
(***************************************************************************)
(* Types, and where a byte stands.                                         *)
(***************************************************************************)
\* The room of the segments a message is cut into.
Field(s, m) == EffectiveMaximumInformationFieldSize(Script[s][m].field)

\* A segment holds consecutive bytes of its message, those after the segments
\* before it, and no more than there is room for.
LEMMA SegmentBytes ==
    ASSUME NEW s \in Source, NEW m \in 1 .. Len(Script[s]), NEW k \in 1 .. Len(Segments(s, m))
    PROVE  LET f == Segments(s, m)[k]
           IN  /\ f.origin = Origin[s] /\ f.kind = Kind[s]
               /\ f.information \in Seq(Byte)
               /\ \A j \in 1 .. Len(f.information) :
                     /\ f.information[j] = <<s, m, (k - 1) * Field(s, m) + j>>
                     /\ j <= Field(s, m)
<1> DEFINE info == Information(s, m)
           max == Field(s, m)
           n == Script[s][m].size
           c == SegmentCount(Len(info), max)
           lo == (k - 1) * max + 1
           hi == Smaller(k * max, Len(info))
<1>1. /\ info \in Seq(Byte) /\ max \in Nat \ {0} /\ n \in Nat /\ Len(info) = n
    BY InformationType DEF Field
<1>2. info = [i \in 1 .. n |-> <<s, m, i>>]
    BY DEF Information
<1>3. Segments(s, m) = [x \in 1 .. c |->
                           [segmented |-> HasMore(Len(info), max, x),
                            origin |-> Origin[s], kind |-> Kind[s],
                            information |-> Chunk(info, max, x)]]
    BY DEF Segments, SegmentInformation, Field
<1>4. c \in Nat \ {0}
    BY <1>1, SegmentCountPositive
<1> HIDE DEF info, max, n, c
<1>5. Len(Segments(s, m)) = c /\ k \in 1 .. c /\ k \in Nat \ {0}
    BY <1>3, <1>4
<1>6. /\ Segments(s, m)[k].origin = Origin[s] /\ Segments(s, m)[k].kind = Kind[s]
      /\ Segments(s, m)[k].information = Chunk(info, max, k)
    BY <1>3, <1>5
<1>7. Chunk(info, max, k) = SubSeq(info, lo, hi)
    BY DEF Chunk
<1>8. (k - 1) * max \in Nat /\ k * max = (k - 1) * max + max
    BY <1>1, <1>5
<1>9. lo \in Nat \ {0} /\ hi \in Nat /\ hi <= Len(info) /\ hi <= (k - 1) * max + max
    BY <1>1, <1>8 DEF Smaller
<1> DEFINE base == (k - 1) * max
<1>10. base \in Nat /\ lo = base + 1 /\ hi <= base + max
    BY <1>8, <1>9
<1> HIDE DEF lo, hi, base
<1>11. /\ SubSeq(info, lo, hi) \in Seq(Byte)
       /\ \A j \in 1 .. Len(SubSeq(info, lo, hi)) :
             /\ lo + j - 1 \in 1 .. n /\ lo + j - 1 <= hi
             /\ SubSeq(info, lo, hi)[j] = info[lo + j - 1]
    BY <1>1, <1>9
<1> DEFINE q == SubSeq(info, lo, hi)
<1>12. q \in Seq(Byte) /\ Len(q) \in Nat
    BY <1>11
<1>13. \A j \in 1 .. Len(q) : lo + j - 1 \in 1 .. n /\ lo + j - 1 <= hi /\ q[j] = info[lo + j - 1]
    BY <1>11
<1> HIDE DEF q
<1>14. ASSUME NEW j \in 1 .. Len(q)
       PROVE  q[j] = <<s, m, base + j>> /\ j <= max
    <2>1. j \in Nat /\ lo + j - 1 = base + j
        BY <1>10, <1>12
    <2>2. base + j \in 1 .. n /\ base + j <= hi /\ q[j] = info[base + j]
        BY <1>13, <2>1
    <2>3. j <= max
        BY <1>1, <1>9, <1>10, <2>1, <2>2
    <2>4. info[base + j] = <<s, m, base + j>>
        BY <1>2, <2>2
    <2> QED
        BY <2>2, <2>3, <2>4
<1> QED
    BY <1>6, <1>7, <1>12, <1>14 DEF base, max, q

\* SegmentationTypeOK but for the sources.
ReassemblerTypeOK ==
    /\ hasPending \in BOOLEAN
    /\ IF hasPending THEN IsFrame(pendingFrame) /\ pendingFrame.segmented
                     ELSE pendingFrame = NoFrame
    /\ \A k \in 1 .. Len(completed) : IsFrame(completed[k]) /\ ~completed[k].segmented
    /\ disturbances \in 0 .. MaxDisturbances

\* The next frame of a source is one.
LEMMA NextFrameIsFrame ==
    ASSUME SendingOK, NEW s \in Source, HasFrame(s)
    PROVE  IsFrame(NextFrame(s))
<1> DEFINE f == NextFrame(s)
<1>1. Script[s] \in Seq([size : Nat, field : Nat])
    BY ScriptAssumption
<1>2. message[s] \in 1 .. Len(Script[s]) /\ segment[s] \in 1 .. Len(Segments(s, message[s]))
    BY <1>1 DEF SendingOK, HasFrame
<1>3. f.origin = Origin[s] /\ f.kind = Kind[s] /\ f.information \in Seq(Byte)
    BY <1>2, SegmentBytes DEF NextFrame
<1>4. f.segmented \in BOOLEAN
    BY NextFramePure DEF Pure, FrameRecord
<1> HIDE DEF f
<1>5. \A i \in 1 .. Len(f.information) : f.information[i] \in Byte
    BY <1>3
<1> QED
    BY <1>3, <1>4, <1>5 DEF IsFrame, f

\* A concatenation keeps origin, kind and segmentation bit of its first part.
LEMMA ExtendedIsFrame ==
    ASSUME Pure(pendingFrame), IsFrame(pendingFrame), NEW f, Pure(f),
           Compatible(pendingFrame, f)
    PROVE  /\ IsFrame(Extended(f)) /\ Extended(f).segmented = pendingFrame.segmented
           /\ IsFrame(Joined(f)) /\ ~Joined(f).segmented
<1>1. pendingFrame \in FrameRecord
    BY DEF Pure
<1>2. /\ Extended(f).origin = pendingFrame.origin /\ Joined(f).origin = pendingFrame.origin
      /\ Extended(f).kind = pendingFrame.kind /\ Joined(f).kind = pendingFrame.kind
      /\ Extended(f).segmented = pendingFrame.segmented /\ Joined(f).segmented = FALSE
    BY <1>1 DEF Extended, Joined, FrameRecord
<1>3. Extended(f).information \in Seq(Byte) /\ Joined(f).information \in Seq(Byte)
    BY ExtendedPure DEF Pure, FrameRecord
<1>4. /\ \A i \in 1 .. Len(Extended(f).information) : Extended(f).information[i] \in Byte
      /\ \A i \in 1 .. Len(Joined(f).information) : Joined(f).information[i] \in Byte
    BY <1>3
<1> QED
    BY <1>2, <1>4 DEF IsFrame

LEMMA DisturbType ==
    ASSUME disturbances \in 0 .. MaxDisturbances, NEW F, Disturb(F) \/ Undisturbed
    PROVE  disturbances' \in 0 .. MaxDisturbances
BY SizeAssumption DEF Disturb, Undisturbed

LEMMA HandOverTypes ==
    ASSUME ReassemblerPure, ReassemblerTypeOK, NEW f, Pure(f), IsFrame(f), ~f.segmented,
           NEW room, HandOver(f, room)
    PROVE  /\ \A k \in 1 .. Len(completed') : IsFrame(completed'[k]) /\ ~completed'[k].segmented
           /\ disturbances' \in 0 .. MaxDisturbances
<1>1. CASE completed' = Append(completed, f) /\ Undisturbed
    <2>1. f \in FrameRecord /\ completed \in Seq(FrameRecord)
        BY DEF Pure, ReassemblerPure
    <2>2. /\ Len(completed') = Len(completed) + 1 /\ Len(completed) \in Nat
          /\ \A k \in 1 .. Len(completed) : completed'[k] = completed[k]
          /\ completed'[Len(completed) + 1] = f
        BY <1>1, <2>1
    <2>3. \A k \in 1 .. Len(completed') : k \in 1 .. Len(completed) \/ k = Len(completed) + 1
        BY <2>2
    <2> QED
        BY <1>1, <2>2, <2>3, DisturbType DEF ReassemblerTypeOK
<1>2. CASE completed' = completed /\ Disturb({f})
    BY <1>2, DisturbType DEF ReassemblerTypeOK
<1> QED
    BY <1>1, <1>2 DEF HandOver

LEMMA PushFrameTypes ==
    ASSUME ReassemblerPure, ReassemblerTypeOK, NEW f, Pure(f), IsFrame(f), NEW room,
           PushFrame(f, room)
    PROVE  ReassemblerTypeOK'
<1> USE DEF reassembler
<1>1. CASE RefuseTooLarge(f) \/ LoseOutOfMemory(f)
    BY <1>1, DisturbType DEF RefuseTooLarge, LoseOutOfMemory, ReassemblerTypeOK
<1>2. CASE CompleteAtOnce(f, room)
    BY <1>2, HandOverTypes DEF CompleteAtOnce, ReassemblerTypeOK
<1>3. CASE BeginSequence(f)
    BY <1>3, DisturbType DEF BeginSequence, ReassemblerTypeOK
<1>4. CASE DropIncompatible(f) \/ DropOverflow(f) \/ DropOutOfMemory(f)
    BY <1>4, DisturbType
    DEF DropIncompatible, DropOverflow, DropOutOfMemory, Reset, ReassemblerTypeOK
<1>5. CASE ContinueSequence(f) \/ KeepOutOfMemory(f)
    <2>1. IsFrame(pendingFrame) /\ pendingFrame.segmented /\ Pure(pendingFrame)
          /\ Compatible(pendingFrame, f)
        BY <1>5 DEF ContinueSequence, KeepOutOfMemory, ReassemblerTypeOK, ReassemblerPure
    <2> QED
        BY <1>5, <2>1, ExtendedIsFrame, DisturbType
        DEF ContinueSequence, KeepOutOfMemory, ReassemblerTypeOK
<1>6. CASE CompleteSequence(f, room)
    <2>1. IsFrame(Joined(f)) /\ ~Joined(f).segmented /\ Pure(Joined(f))
        BY <1>6, ExtendedIsFrame, ExtendedPure
        DEF CompleteSequence, ReassemblerTypeOK, ReassemblerPure
    <2> QED
        BY <1>6, <2>1, HandOverTypes DEF CompleteSequence, Reset, ReassemblerTypeOK
<1> QED
    BY <1>1, <1>2, <1>3, <1>4, <1>5, <1>6 DEF PushFrame

LEMMA TypesInvariant == SegmentationSpec => [](PureInv /\ ReassemblerTypeOK)
<1>1. SegmentationInit => ReassemblerTypeOK
    <2> SUFFICES ASSUME SegmentationInit PROVE ReassemblerTypeOK
        OBVIOUS
    <2>1. completed = <<>>
        BY DEF SegmentationInit
    <2>2. Len(completed) = 0
        BY <2>1
    <2>3. 1 .. Len(completed) = {}
        BY <2>2
    <2>4. \A k \in 1 .. Len(completed) : IsFrame(completed[k]) /\ ~completed[k].segmented
        BY <2>3
    <2>5. disturbances \in 0 .. MaxDisturbances
        BY SizeAssumption DEF SegmentationInit
    <2> QED
        BY <2>4, <2>5 DEF SegmentationInit, ReassemblerTypeOK
<1>2. PureInv /\ ReassemblerTypeOK /\ [SegmentationNext]_segmentationVars => ReassemblerTypeOK'
    <2> SUFFICES ASSUME PureInv, ReassemblerTypeOK, [SegmentationNext]_segmentationVars
                 PROVE  ReassemblerTypeOK'
        OBVIOUS
    <2>1. SendingOK /\ ReassemblerPure
        BY DEF PureInv
    <2>2. ASSUME NEW s \in Source, Arrive(s) PROVE ReassemblerTypeOK'
        BY <2>1, <2>2, NextFramePure, NextFrameIsFrame, PushFrameTypes DEF Arrive
    <2>3. ASSUME NEW s \in Source, Lose(s) PROVE ReassemblerTypeOK'
        BY <2>3, DisturbType DEF Lose, reassembler, ReassemblerTypeOK
    <2>4. CASE OwnerResets
        BY <2>4, DisturbType DEF OwnerResets, Reset, ReassemblerTypeOK
    <2>5. CASE UNCHANGED segmentationVars
        BY <2>5 DEF segmentationVars, reassembler, ReassemblerTypeOK
    <2> QED
        BY <2>2, <2>3, <2>4, <2>5 DEF SegmentationNext
<1> QED
    BY <1>1, <1>2, InitPureInv, StepPureInv, PTL DEF SegmentationSpec

\* hasPending_ tells whether there is a pending frame, on every way out of PushFrame,
\* a failed copy included; what is pending carries the segmentation bit and what is
\* handed over never does.
THEOREM TypesKept == SegmentationSpec => []SegmentationTypeOK
<1>1. PureInv /\ ReassemblerTypeOK => SegmentationTypeOK
    BY DEF PureInv, SendingOK, ReassemblerTypeOK, SegmentationTypeOK
<1> QED
    BY <1>1, TypesInvariant, PTL

-----------------------------------------------------------------------------
(***************************************************************************)
(* Order.                                                                  *)
(***************************************************************************)
\* A byte that lies before the place its source has reached.
Sent(b) ==
    \/ b[2] < message[b[1]]
    \/ b[2] = message[b[1]] /\ b[3] <= (segment[b[1]] - 1) * Field(b[1], b[2])

\* A byte in the pending sequence or in what was handed over.
Got(b) ==
    \/ \E i \in 1 .. Len(pendingFrame.information) : b = pendingFrame.information[i]
    \/ \E k \in 1 .. Len(completed) : \E i \in 1 .. Len(completed[k].information) :
           b = completed[k].information[i]

\* BytesInOrder looks back only; that what arrives next comes after everything
\* there is follows from where the sources are.
OrderInv == BytesInOrder /\ \A b \in Byte : Got(b) => Sent(b)

Precede(u, v) ==
    \A i \in 1 .. Len(u) : \A j \in 1 .. Len(v) : Before(u[i], v[j])

LEMMA NextBytes ==
    ASSUME SendingOK, NEW s \in Source, HasFrame(s)
    PROVE  LET f == NextFrame(s)
               room == Field(s, message[s])
           IN  /\ message[s] \in 1 .. Len(Script[s]) /\ message[s] \in Nat
               /\ segment[s] \in Nat \ {0} /\ room \in Nat \ {0}
               /\ Len(f.information) \in Nat
               /\ \A j \in 1 .. Len(f.information) :
                     /\ f.information[j] = <<s, message[s], (segment[s] - 1) * room + j>>
                     /\ j <= room
<1>1. Script[s] \in Seq([size : Nat, field : Nat])
    BY ScriptAssumption
<1>2. /\ message[s] \in 1 .. Len(Script[s]) /\ segment[s] \in 1 .. Len(Segments(s, message[s]))
      /\ message[s] \in Nat /\ segment[s] \in Nat \ {0}
    BY <1>1 DEF SendingOK, HasFrame
<1>3. Field(s, message[s]) \in Nat \ {0}
    BY <1>2, InformationType DEF Field
<1>4. NextFrame(s).information \in Seq(Byte)
    BY <1>2, SegmentBytes DEF NextFrame
<1>5. Len(NextFrame(s).information) \in Nat
    BY <1>4
<1> QED
    BY <1>2, <1>3, <1>5, SegmentBytes DEF NextFrame

\* The next frame of a source is in order and comes after what was sent.
LEMMA NextInOrder ==
    ASSUME SendingOK, NEW s \in Source, HasFrame(s)
    PROVE  /\ Ascending(NextFrame(s).information)
           /\ \A b \in Byte : Sent(b) =>
                 \A j \in 1 .. Len(NextFrame(s).information) :
                     Before(b, NextFrame(s).information[j])
<1> DEFINE q == NextFrame(s).information
           m == message[s]
           base == (segment[s] - 1) * Field(s, m)
<1>1. /\ Len(q) \in Nat /\ m \in Nat
      /\ \A j \in 1 .. Len(q) : q[j] = <<s, m, base + j>>
    BY NextBytes
<1>2. base \in Nat
    BY NextBytes
<1>3. ASSUME NEW b \in Byte, Sent(b), b[1] = s
      PROVE  b[2] < m \/ (b[2] = m /\ b[3] <= base)
    BY <1>3 DEF Sent
<1> HIDE DEF q, m, base
<1>4. ASSUME NEW i \in 1 .. Len(q), NEW j \in 1 .. Len(q), i < j
      PROVE  Before(q[i], q[j])
    <2>1. base + i < base + j
        BY <1>1, <1>2, <1>4
    <2> QED
        BY <1>1, <2>1 DEF Before
<1>5. ASSUME NEW b \in Byte, Sent(b), NEW j \in 1 .. Len(q)
      PROVE  Before(b, q[j])
    <2>1. q[j] = <<s, m, base + j>> /\ b[3] \in Nat /\ b[2] \in Nat
        BY <1>1 DEF Byte
    <2>2. SUFFICES ASSUME b[1] = s
                   PROVE  b[2] < m \/ (b[2] = m /\ b[3] < base + j)
        BY <2>1 DEF Before
    <2>3. b[2] < m \/ (b[2] = m /\ b[3] <= base)
        BY <1>3, <1>5, <2>2
    <2>4. base < base + j
        BY <1>1, <1>2
    <2> QED
        BY <1>2, <2>1, <2>3, <2>4
<1> QED
    BY <1>4, <1>5 DEF q, Ascending

\* A source moves on, and past the frame it has sent.
LEMMA AdvanceSent ==
    ASSUME SendingOK, NEW s \in Source, HasFrame(s), Advance(s)
    PROVE  /\ \A b \in Byte : Sent(b) => Sent(b)'
           /\ \A j \in 1 .. Len(NextFrame(s).information) :
                 \A b \in Byte : b = NextFrame(s).information[j] => Sent(b)'
<1> DEFINE m == message[s]
           r == Field(s, m)
           k == segment[s]
<1>1. m \in Nat /\ k \in Nat \ {0} /\ r \in Nat \ {0}
      /\ message \in [Source -> Nat \ {0}] /\ segment \in [Source -> Nat \ {0}]
    BY NextBytes DEF SendingOK
<1>2. (k - 1) * r \in Nat /\ k * r = (k - 1) * r + r
    BY <1>1
<1>3. \/ message' = message /\ segment' = [segment EXCEPT ![s] = k + 1]
      \/ message' = [message EXCEPT ![s] = m + 1] /\ segment' = [segment EXCEPT ![s] = 1]
    BY DEF Advance
<1>4. ASSUME NEW b \in Byte, b[1] = s, b[2] < m \/ (b[2] = m /\ b[3] <= k * r)
      PROVE  Sent(b)'
    <2>1. b[2] \in Nat /\ b[3] \in Nat
        BY DEF Byte
    <2>2. CASE message' = message /\ segment' = [segment EXCEPT ![s] = k + 1]
        <3>1. message'[s] = m /\ segment'[s] - 1 = k
            BY <1>1, <2>2
        <3> QED
            BY <1>4, <3>1 DEF Sent, Field
    <2>3. CASE message' = [message EXCEPT ![s] = m + 1] /\ segment' = [segment EXCEPT ![s] = 1]
        <3>1. message'[s] = m + 1
            BY <1>1, <2>3
        <3>2. b[2] < message'[b[1]]
            BY <1>1, <1>4, <2>1, <3>1
        <3> QED
            BY <3>2 DEF Sent
    <2> QED
        BY <1>3, <2>2, <2>3
<1>5. ASSUME NEW b \in Byte, Sent(b) PROVE Sent(b)'
    <2>1. b[1] \in Source /\ b[2] \in Nat /\ b[3] \in Nat
        BY DEF Byte
    <2>2. CASE b[1] = s
        <3>1. b[2] < m \/ (b[2] = m /\ b[3] <= (k - 1) * r)
            BY <1>5, <2>2 DEF Sent
        <3>2. b[2] < m \/ (b[2] = m /\ b[3] <= k * r)
            BY <1>1, <1>2, <2>1, <3>1
        <3> QED
            BY <1>4, <2>2, <3>2
    <2>3. CASE b[1] # s
        <3>1. message'[b[1]] = message[b[1]] /\ segment'[b[1]] = segment[b[1]]
            BY <1>1, <1>3, <2>1, <2>3
        <3> QED
            BY <1>5, <3>1 DEF Sent, Field
    <2> QED
        BY <2>2, <2>3
<1>6. ASSUME NEW j \in 1 .. Len(NextFrame(s).information), NEW b \in Byte,
             b = NextFrame(s).information[j]
      PROVE  Sent(b)'
    <2>1. b = <<s, m, (k - 1) * r + j>> /\ j <= r /\ j \in Nat
        BY <1>6, NextBytes
    <2>2. (k - 1) * r + j <= k * r
        BY <1>1, <1>2, <2>1
    <2>3. b[1] = s /\ b[2] = m /\ b[3] <= k * r
        BY <2>1, <2>2
    <2> HIDE DEF m, k, r
    <2> QED
        BY <1>4, <2>3
<1> QED
    BY <1>5, <1>6

\* BytesInOrder of pending bytes p and frames c handed over.
InOrder(p, c) ==
    /\ Ascending(p)
    /\ \A k \in 1 .. Len(c) :
          /\ Ascending(c[k].information)
          /\ Precede(c[k].information, p)
          /\ \A l \in k + 1 .. Len(c) : Precede(c[k].information, c[l].information)

LEMMA OrderOf ==
    /\ BytesInOrder => InOrder(pendingFrame.information, completed)
    /\ InOrder(pendingFrame.information, completed)' => BytesInOrder'
<1>1. BytesInOrder => InOrder(pendingFrame.information, completed)
    BY DEF BytesInOrder, InOrder, Precede
<1>2. InOrder(pendingFrame.information, completed)' => BytesInOrder'
    <2> SUFFICES ASSUME InOrder(pendingFrame.information, completed)' PROVE BytesInOrder'
        OBVIOUS
    <2>1. Ascending(pendingFrame.information)'
        BY DEF InOrder
    <2>2. ASSUME NEW k \in 1 .. Len(completed')
          PROVE  /\ Ascending(completed'[k].information)
                 /\ Precede(completed'[k].information, pendingFrame'.information)
                 /\ \A l \in k + 1 .. Len(completed') :
                        Precede(completed'[k].information, completed'[l].information)
        BY <2>2 DEF InOrder
    <2> QED
        BY <2>1, <2>2 DEF BytesInOrder, Precede, Ascending
<1> QED
    BY <1>1, <1>2

LEMMA OrderAppended ==
    ASSUME NEW p, NEW c \in Seq(FrameRecord), InOrder(p, c), NEW g \in FrameRecord,
           NEW none, Len(none) = 0, Ascending(g.information),
           \A k \in 1 .. Len(c) : Precede(c[k].information, g.information)
    PROVE  InOrder(none, Append(c, g))
<1> DEFINE n == Len(c)
           d == Append(c, g)
<1>1. /\ n \in Nat /\ Len(d) = n + 1 /\ d[n + 1] = g
      /\ \A k \in 1 .. n : d[k] = c[k]
    OBVIOUS
<1> HIDE DEF n, d
<1>2. Ascending(none)
    BY DEF Ascending
<1>3. \A k \in 1 .. n + 1 : Ascending(d[k].information)
    <2>1. \A k \in 1 .. n : Ascending(c[k].information)
        BY DEF InOrder, n
    <2>2. \A k \in 1 .. n + 1 : k \in 1 .. n \/ k = n + 1
        BY <1>1
    <2> QED
        BY <1>1, <2>1, <2>2
<1>4. ASSUME NEW k \in 1 .. n + 1, NEW l \in k + 1 .. n + 1
      PROVE  Precede(d[k].information, d[l].information)
    <2>1. k \in 1 .. n /\ d[k] = c[k]
        BY <1>1
    <2>2. CASE l = n + 1
        BY <1>1, <2>1, <2>2 DEF n
    <2>3. CASE l # n + 1
        <3>1. l \in k + 1 .. n /\ l \in 1 .. n
            BY <1>1, <2>3
        <3>2. Precede(c[k].information, c[l].information)
            BY <2>1, <3>1 DEF InOrder, n
        <3> QED
            BY <1>1, <2>1, <3>1, <3>2
    <2> QED
        BY <2>2, <2>3
<1>5. \A k \in 1 .. n + 1 : Precede(d[k].information, none)
    BY DEF Precede
<1> QED
    BY <1>1, <1>2, <1>3, <1>4, <1>5 DEF InOrder, d

\* New pending bytes, after all that was handed over.
LEMMA OrderPending ==
    ASSUME NEW p, NEW c, InOrder(p, c), NEW q, Ascending(q),
           \A k \in 1 .. Len(c) : Precede(c[k].information, q)
    PROVE  InOrder(q, c)
BY DEF InOrder

LEMMA EmptyInOrder ==
    ASSUME NEW q, Len(q) = 0
    PROVE  /\ Ascending(q)
           /\ \A u : Precede(u, q)
BY DEF Ascending, Precede

\* Two ascending stretches, one before the other, make one.
LEMMA AscendingTogether ==
    ASSUME NEW a \in Seq(Byte), NEW b \in Seq(Byte), Ascending(a), Ascending(b), Precede(a, b)
    PROVE  /\ Ascending(a \o b)
           /\ \A u \in Seq(Byte) : Precede(u, a) /\ Precede(u, b) => Precede(u, a \o b)
<1> DEFINE q == a \o b
           n == Len(a)
<1>1. n \in Nat /\ Len(b) \in Nat /\ Len(q) \in Nat
    OBVIOUS
<1>2. \A i \in 1 .. Len(q) : \/ i \in 1 .. n /\ q[i] = a[i]
                             \/ i - n \in 1 .. Len(b) /\ q[i] = b[i - n]
    BY Concatenation
<1> HIDE DEF q, n
<1>3. ASSUME NEW i \in 1 .. Len(q), NEW j \in 1 .. Len(q), i < j
      PROVE  Before(q[i], q[j])
    <2>1. CASE i \in 1 .. n /\ q[i] = a[i] /\ j \in 1 .. n /\ q[j] = a[j]
        BY <1>3, <2>1 DEF Ascending, n
    <2>2. CASE i \in 1 .. n /\ q[i] = a[i] /\ j - n \in 1 .. Len(b) /\ q[j] = b[j - n]
        BY <2>2 DEF Precede, n
    <2>3. CASE i - n \in 1 .. Len(b) /\ q[i] = b[i - n] /\ j - n \in 1 .. Len(b) /\ q[j] = b[j - n]
        <3>1. i - n < j - n
            BY <1>1, <1>3
        <3> QED
            BY <2>3, <3>1 DEF Ascending
    <2>4. CASE i - n \in 1 .. Len(b) /\ j \in 1 .. n
        BY <1>1, <1>3, <2>4
    <2> QED
        BY <1>2, <2>1, <2>2, <2>3, <2>4
<1>4. ASSUME NEW u \in Seq(Byte), Precede(u, a), Precede(u, b)
      PROVE  Precede(u, q)
    BY <1>2, <1>4 DEF Precede, n
<1> QED
    BY <1>3, <1>4 DEF q, Ascending


LEMMA ReassemblerBytes ==
    ASSUME ReassemblerPure
    PROVE  \A k \in 1 .. Len(completed) : completed[k].information \in Seq(Byte)
<1>1. completed \in Seq(FrameRecord)
    BY DEF ReassemblerPure
<1>2. \A k \in 1 .. Len(completed) : completed[k] \in FrameRecord
    BY <1>1, Element
<1> QED
    BY <1>2 DEF FrameRecord

\* A frame is handed over, or lost at that moment, and nothing is pending any more.
LEMMA HandOverOrder ==
    ASSUME ReassemblerPure, BytesInOrder, NEW g, Pure(g), Ascending(g.information),
           \A k \in 1 .. Len(completed) : Precede(completed[k].information, g.information),
           NEW room, HandOver(g, room), pendingFrame' = NoFrame
    PROVE  /\ BytesInOrder'
           /\ \A k \in 1 .. Len(completed') :
                 \/ k \in 1 .. Len(completed) /\ completed'[k] = completed[k]
                 \/ completed'[k] = g
<1>1. Len(NoFrame.information) = 0
    BY DEF NoFrame
<1>2. InOrder(pendingFrame.information, completed)
    BY OrderOf
<1>3. completed \in Seq(FrameRecord) /\ g \in FrameRecord
    BY DEF ReassemblerPure, Pure
<1>4. CASE completed' = Append(completed, g)
    <2>1. InOrder(NoFrame.information, Append(completed, g))
        BY <1>1, <1>2, <1>3, OrderAppended
    <2>2. InOrder(pendingFrame.information, completed)'
        BY <1>4, <2>1
    <2>3. BytesInOrder'
        BY <2>2, OrderOf
    <2>4. \A k \in 1 .. Len(completed') :
             \/ k \in 1 .. Len(completed) /\ completed'[k] = completed[k]
             \/ completed'[k] = g
        BY <1>3, <1>4
    <2> QED
        BY <2>3, <2>4
<1>5. CASE completed' = completed
    <2>1. InOrder(NoFrame.information, completed)
        BY <1>1, <1>2, EmptyInOrder, OrderPending
    <2>2. InOrder(pendingFrame.information, completed)'
        BY <1>5, <2>1
    <2>3. BytesInOrder'
        BY <2>2, OrderOf
    <2> QED
        BY <1>5, <2>3
<1> QED
    BY <1>4, <1>5 DEF HandOver

\* Whatever becomes of a frame that comes after all there is, the order holds and
\* no byte appears that was not there or in the frame.
LEMMA PushFrameOrder ==
    ASSUME ReassemblerPure, ReassemblerTypeOK, BytesInOrder, NEW f, Pure(f),
           Ascending(f.information),
           Precede(pendingFrame.information, f.information),
           \A k \in 1 .. Len(completed) : Precede(completed[k].information, f.information),
           NEW room, PushFrame(f, room)
    PROVE  /\ BytesInOrder'
           /\ \A b : Got(b)' => \/ Got(b)
                                \/ \E j \in 1 .. Len(f.information) : b = f.information[j]
<1> USE DEF reassembler
<1>1. InOrder(pendingFrame.information, completed)
    BY OrderOf
<1>2. Len(NoFrame.information) = 0 /\ 1 .. Len(NoFrame.information) = {}
    BY DEF NoFrame
<1>3. CASE pendingFrame' = pendingFrame /\ completed' = completed
    <2>1. InOrder(pendingFrame.information, completed)'
        BY <1>1, <1>3
    <2> QED
        BY <1>3, <2>1, OrderOf DEF Got
<1>4. CASE pendingFrame' = NoFrame /\ completed' = completed
    <2>1. InOrder(NoFrame.information, completed)
        BY <1>1, <1>2, EmptyInOrder, OrderPending
    <2>2. InOrder(pendingFrame.information, completed)'
        BY <1>4, <2>1
    <2> QED
        BY <1>2, <1>4, <2>2, OrderOf DEF Got
<1>5. CASE pendingFrame' = f /\ completed' = completed
    <2>1. InOrder(f.information, completed)
        BY <1>1, OrderPending
    <2>2. InOrder(pendingFrame.information, completed)'
        BY <1>5, <2>1
    <2> QED
        BY <1>5, <2>2, OrderOf DEF Got
<1> DEFINE joined == pendingFrame.information \o f.information
<1>6. ASSUME hasPending, Compatible(pendingFrame, f)
      PROVE  /\ Extended(f).information = joined /\ Joined(f).information = joined
             /\ Pure(Joined(f))
             /\ Ascending(joined)
             /\ \A k \in 1 .. Len(completed) : Precede(completed[k].information, joined)
             /\ \A i \in 1 .. Len(joined) :
                   \/ \E j \in 1 .. Len(pendingFrame.information) :
                          joined[i] = pendingFrame.information[j]
                   \/ \E j \in 1 .. Len(f.information) : joined[i] = f.information[j]
    <2>1. pendingFrame \in FrameRecord /\ f \in FrameRecord /\ Pure(pendingFrame)
        BY DEF ReassemblerPure, Pure
    <2>2. pendingFrame.information \in Seq(Byte) /\ f.information \in Seq(Byte)
        BY <2>1 DEF FrameRecord
    <2>3. Extended(f).information = joined /\ Joined(f).information = joined
        BY <2>1 DEF Extended, Joined, FrameRecord
    <2>4. Pure(Joined(f))
        BY <1>6, <2>1, ExtendedPure
    <2>5. Ascending(pendingFrame.information)
        BY <1>1 DEF InOrder
    <2>6. Ascending(joined)
        BY <2>2, <2>5, AscendingTogether
    <2>7. ASSUME NEW k \in 1 .. Len(completed)
          PROVE  Precede(completed[k].information, joined)
        <3>1. Precede(completed[k].information, pendingFrame.information)
            BY <1>1 DEF InOrder
        <3>2. completed[k].information \in Seq(Byte)
            BY ReassemblerBytes
        <3> QED
            BY <2>2, <2>5, <3>1, <3>2, AscendingTogether
    <2>8. ASSUME NEW i \in 1 .. Len(joined)
          PROVE  \/ \E j \in 1 .. Len(pendingFrame.information) :
                        joined[i] = pendingFrame.information[j]
                 \/ \E j \in 1 .. Len(f.information) : joined[i] = f.information[j]
        <3> DEFINE n == Len(pendingFrame.information)
        <3>1. \/ i \in 1 .. n /\ joined[i] = pendingFrame.information[i]
              \/ i - n \in 1 .. Len(f.information) /\ joined[i] = f.information[i - n]
            BY <2>2, Concatenation
        <3> HIDE DEF n, joined
        <3> QED
            BY <3>1 DEF n
    <2> QED
        BY <2>3, <2>4, <2>6, <2>7, <2>8
<1> HIDE DEF joined
<1>7. CASE CompleteAtOnce(f, room)
    <2>1. pendingFrame = NoFrame /\ pendingFrame' = NoFrame /\ HandOver(f, room)
        BY <1>7 DEF CompleteAtOnce, ReassemblerTypeOK
    <2>2. /\ BytesInOrder'
          /\ \A k \in 1 .. Len(completed') :
                \/ k \in 1 .. Len(completed) /\ completed'[k] = completed[k]
                \/ completed'[k] = f
        BY <2>1, HandOverOrder
    <2> QED
        BY <1>2, <2>1, <2>2 DEF Got
<1>8. CASE CompleteSequence(f, room)
    <2>1. pendingFrame' = NoFrame /\ HandOver(Joined(f), room)
          /\ hasPending /\ Compatible(pendingFrame, f)
        BY <1>8 DEF CompleteSequence, Reset
    <2>2. /\ BytesInOrder'
          /\ \A k \in 1 .. Len(completed') :
                \/ k \in 1 .. Len(completed) /\ completed'[k] = completed[k]
                \/ completed'[k] = Joined(f)
        BY <1>6, <2>1, HandOverOrder
    <2> QED
        BY <1>2, <1>6, <2>1, <2>2, SMTT(30) DEF Got
<1>9. CASE ContinueSequence(f) \/ KeepOutOfMemory(f)
    <2>1. pendingFrame' = Extended(f) /\ completed' = completed
          /\ hasPending /\ Compatible(pendingFrame, f)
        BY <1>9 DEF ContinueSequence, KeepOutOfMemory
    <2>2. InOrder(joined, completed)
        BY <1>1, <1>6, <2>1, OrderPending
    <2>3. pendingFrame'.information = joined
        BY <1>6, <2>1
    <2>4. InOrder(pendingFrame.information, completed)'
        BY <2>1, <2>2, <2>3
    <2> QED
        BY <1>6, <2>1, <2>3, <2>4, OrderOf, SMTT(30) DEF Got
<1> QED
    BY <1>3, <1>4, <1>5, <1>7, <1>8, <1>9
    DEF PushFrame, RefuseTooLarge, LoseOutOfMemory, BeginSequence, DropIncompatible,
        DropOverflow, DropOutOfMemory, Reset


\* What has been got was sent, and so comes before the next frame of every source.
LEMMA NextFollows ==
    ASSUME SendingOK, ReassemblerPure, OrderInv, NEW s \in Source, HasFrame(s)
    PROVE  LET q == NextFrame(s).information
           IN  /\ Ascending(q)
               /\ Precede(pendingFrame.information, q)
               /\ \A k \in 1 .. Len(completed) : Precede(completed[k].information, q)
<1> DEFINE q == NextFrame(s).information
<1>1. Ascending(q) /\ \A j \in 1 .. Len(q) : \A b \in Byte : Sent(b) => Before(b, q[j])
    BY NextInOrder
<1>2. pendingFrame.information \in Seq(Byte)
    BY DEF ReassemblerPure, Pure, FrameRecord
<1>3. \A k \in 1 .. Len(completed) : completed[k].information \in Seq(Byte)
    BY ReassemblerBytes
<1> HIDE DEF q
<1>4. Precede(pendingFrame.information, q)
    <2>1. ASSUME NEW i \in 1 .. Len(pendingFrame.information), NEW j \in 1 .. Len(q)
          PROVE  Before(pendingFrame.information[i], q[j])
        <3>1. pendingFrame.information[i] \in Byte /\ Got(pendingFrame.information[i])
            BY <1>2 DEF Got
        <3> QED
            BY <1>1, <3>1 DEF OrderInv
    <2> QED
        BY <2>1 DEF Precede
<1>5. ASSUME NEW k \in 1 .. Len(completed)
      PROVE  Precede(completed[k].information, q)
    <2>1. ASSUME NEW i \in 1 .. Len(completed[k].information), NEW j \in 1 .. Len(q)
          PROVE  Before(completed[k].information[i], q[j])
        <3>1. completed[k].information[i] \in Byte /\ Got(completed[k].information[i])
            BY <1>3 DEF Got
        <3> QED
            BY <1>1, <3>1 DEF OrderInv
    <2> QED
        BY <2>1 DEF Precede
<1> QED
    BY <1>1, <1>4, <1>5 DEF q

LEMMA InitOrder == SegmentationInit => OrderInv
<1> SUFFICES ASSUME SegmentationInit PROVE OrderInv
    OBVIOUS
<1>1. pendingFrame.information = <<>> /\ completed = <<>>
    BY DEF SegmentationInit, NoFrame
<1>2. Len(pendingFrame.information) = 0 /\ Len(completed) = 0
    BY <1>1
<1>3. 1 .. Len(pendingFrame.information) = {} /\ 1 .. Len(completed) = {}
    BY <1>2
<1> QED
    BY <1>3 DEF OrderInv, BytesInOrder, Ascending, Got

LEMMA StepOrder ==
    PureInv /\ ReassemblerTypeOK /\ OrderInv /\ [SegmentationNext]_segmentationVars => OrderInv'
<1> SUFFICES ASSUME PureInv, ReassemblerTypeOK, OrderInv,
                    [SegmentationNext]_segmentationVars
             PROVE  OrderInv'
    OBVIOUS
<1>1. SendingOK /\ ReassemblerPure /\ BytesInOrder
    BY DEF PureInv, OrderInv
<1>2. InOrder(pendingFrame.information, completed)
    BY <1>1, OrderOf
<1>3. ASSUME NEW s \in Source, Arrive(s) PROVE OrderInv'
    <2> DEFINE f == NextFrame(s)
    <2>1. HasFrame(s) /\ Advance(s) /\ Pure(f)
        BY <1>1, <1>3, NextFramePure DEF Arrive
    <2>2. PICK room \in Rooms : PushFrame(f, room)
        BY <1>3 DEF Arrive
    <2>3. /\ \A b \in Byte : Sent(b) => Sent(b)'
          /\ \A j \in 1 .. Len(f.information) :
                \A b \in Byte : b = f.information[j] => Sent(b)'
        BY <1>1, <2>1, AdvanceSent
    <2>4. /\ Ascending(f.information)
          /\ Precede(pendingFrame.information, f.information)
          /\ \A k \in 1 .. Len(completed) : Precede(completed[k].information, f.information)
        BY <1>1, <2>1, NextFollows
    <2> HIDE DEF f
    <2>5. /\ BytesInOrder'
          /\ \A b : Got(b)' => \/ Got(b)
                               \/ \E j \in 1 .. Len(f.information) : b = f.information[j]
        BY <1>1, <2>1, <2>2, <2>4, PushFrameOrder
    <2>6. ASSUME NEW b \in Byte, Got(b)' PROVE Sent(b)'
        <3>1. CASE Got(b)
            BY <2>3, <3>1 DEF OrderInv
        <3>2. CASE \E j \in 1 .. Len(f.information) : b = f.information[j]
            BY <2>3, <3>2
        <3> QED
            BY <2>5, <2>6, <3>1, <3>2
    <2> QED
        BY <2>5, <2>6 DEF OrderInv
<1>4. ASSUME NEW s \in Source, Lose(s) PROVE OrderInv'
    <2>1. HasFrame(s) /\ Advance(s) /\ pendingFrame' = pendingFrame /\ completed' = completed
        BY <1>4 DEF Lose, reassembler
    <2>2. InOrder(pendingFrame.information, completed)'
        BY <1>2, <2>1
    <2>3. BytesInOrder'
        BY <2>2, OrderOf
    <2>4. ASSUME NEW b \in Byte, Got(b)' PROVE Sent(b)'
        <3>1. Got(b)
            BY <2>1, <2>4 DEF Got
        <3> QED
            BY <1>1, <2>1, <3>1, AdvanceSent DEF OrderInv
    <2> QED
        BY <2>3, <2>4 DEF OrderInv
<1>5. CASE OwnerResets
    <2>1. pendingFrame' = NoFrame /\ completed' = completed
          /\ message' = message /\ segment' = segment
        BY <1>5 DEF OwnerResets, Reset, sending
    <2>2. Len(NoFrame.information) = 0 /\ 1 .. Len(NoFrame.information) = {}
        BY DEF NoFrame
    <2>3. InOrder(NoFrame.information, completed)
        BY <1>2, <2>2, EmptyInOrder, OrderPending
    <2>4. InOrder(pendingFrame.information, completed)'
        BY <2>1, <2>3
    <2>5. BytesInOrder'
        BY <2>4, OrderOf
    <2>6. ASSUME NEW b \in Byte, Got(b)' PROVE Sent(b)'
        <3>1. Got(b)
            BY <2>1, <2>2, <2>6 DEF Got
        <3> QED
            BY <2>1, <3>1 DEF OrderInv, Sent, Field
    <2> QED
        BY <2>5, <2>6 DEF OrderInv
<1>6. CASE UNCHANGED segmentationVars
    <2>1. pendingFrame' = pendingFrame /\ completed' = completed
          /\ message' = message /\ segment' = segment
        BY <1>6 DEF segmentationVars, reassembler, sending
    <2>2. InOrder(pendingFrame.information, completed)'
        BY <1>2, <2>1
    <2>3. BytesInOrder'
        BY <2>2, OrderOf
    <2>4. ASSUME NEW b \in Byte, Got(b)' PROVE Sent(b)'
        BY <2>1, <2>4 DEF OrderInv, Got, Sent, Field
    <2> QED
        BY <2>3, <2>4 DEF OrderInv
<1> QED
    BY <1>3, <1>4, <1>5, <1>6 DEF SegmentationNext

\* The bytes of every source come out in the order they went in and none twice,
\* for any scripts, any interleaving, any loss and any failed copy: the inductive
\* invariant adds that all there is lies before the place its source has reached.
THEOREM OrderPreserved == SegmentationSpec => []BytesInOrder
<1>1. OrderInv => BytesInOrder
    BY DEF OrderInv
<1> QED
    BY <1>1, InitOrder, StepOrder, TypesInvariant, PTL DEF SegmentationSpec

-----------------------------------------------------------------------------
(***************************************************************************)
(* Damage.                                                                 *)
(***************************************************************************)
\* The first n bytes of a message.
Bytes(s, m, n) == [j \in 1 .. n |-> <<s, m, j>>]

\* The pending sequence came from s.
Owns(s) == hasPending /\ pendingFrame.origin = Origin[s] /\ pendingFrame.kind = Kind[s]

\* It is all of what s has sent of its current message.
OnTrack(s) ==
    /\ Owns(s)
    /\ pendingFrame.information =
           Bytes(s, message[s], (segment[s] - 1) * Field(s, message[s]))

\* It was left behind by a message before the current one.
Stale == \E s \in Source : Owns(s) /\ segment[s] = 1

\* The message was not handed over, or will not be.
Gone(s, m) ==
    \/ m < message[s] /\ ~HandedOver(s, m)
    \/ m = message[s] /\ segment[s] > 1 /\ ~OnTrack(s)

\* The messages that a mishap is charged with, though it touched none of them.
Charged ==
    {x \in UNION {{s} \X (1 .. message[s]) : s \in Source} :
        x \notin hit /\ Gone(x[1], x[2]) /\ Script[x[1]][x[2]].size <= MaximumReassembled}

\* What is inductive: a stale sequence is a charge not yet made.
DamageInv ==
    /\ IsFiniteSet(Charged)
    /\ Cardinality(Charged) + (IF Stale THEN 1 ELSE 0) <= disturbances

\* The messages missing now are among the charged.
LEMMA ChargedCovers == PureInv /\ ReassemblerTypeOK /\ DamageInv => DamageContained
<1> SUFFICES ASSUME PureInv, ReassemblerTypeOK, DamageInv PROVE DamageContained
    OBVIOUS
<1> DEFINE M == {x \in Intact : ~HandedOver(x[1], x[2])}
<1>1. ASSUME NEW x \in M
      PROVE  x \in Charged
    <2>1. x \in Intact /\ ~HandedOver(x[1], x[2])
        OBVIOUS
    <2>2. PICK s \in Source : x \in {s} \X (1 .. message[s] - 1)
        BY <2>1 DEF Intact
    <2>3. x[1] = s /\ x[2] \in 1 .. message[s] - 1 /\ x = <<s, x[2]>>
        BY <2>2
    <2>4. message[s] \in Nat
        BY DEF PureInv, SendingOK
    <2>5. x[2] \in 1 .. message[s] /\ x[2] < message[s]
        BY <2>3, <2>4
    <2>6. x \in {s} \X (1 .. message[s])
        BY <2>3, <2>5
    <2>7. Gone(x[1], x[2])
        BY <2>1, <2>3, <2>5 DEF Gone
    <2>8. x \notin hit /\ Script[x[1]][x[2]].size <= MaximumReassembled
        BY <2>1 DEF Intact
    <2> QED
        BY <2>6, <2>7, <2>8 DEF Charged
<1> SUFFICES Cardinality(M) <= disturbances
    BY DEF DamageContained
<1> HIDE DEF M
<1>2. M \in SUBSET Charged
    BY <1>1
<1>3. IsFiniteSet(M) /\ Cardinality(M) <= Cardinality(Charged)
    BY <1>2, FS_Subset DEF DamageInv
<1>4. Cardinality(M) \in Nat /\ Cardinality(Charged) \in Nat
    BY <1>3, FS_CardinalityType DEF DamageInv
<1>5. disturbances \in Nat
    BY SizeAssumption DEF ReassemblerTypeOK
<1> QED
    BY <1>3, <1>4, <1>5 DEF DamageInv

\* A message more may be charged for a mishap more, or for a stale sequence gone.
Balanced(x) ==
    /\ Charged' \subseteq Charged \cup {x}
    /\ disturbances <= disturbances'
    /\ \/ Charged' \subseteq Charged /\ (Stale' => Stale)
       \/ Stale /\ ~Stale'
       \/ disturbances' = disturbances + 1 /\ (Stale' => Stale)
       \/ disturbances' = disturbances + 1 /\ Charged' \subseteq Charged

LEMMA Charge ==
    ASSUME ReassemblerTypeOK, ReassemblerTypeOK', DamageInv, NEW x, Balanced(x)
    PROVE  DamageInv'
<1>0. /\ Charged' \subseteq Charged \cup {x}
      /\ disturbances <= disturbances'
      /\ \/ Charged' \subseteq Charged /\ (Stale' => Stale)
         \/ Stale /\ ~Stale'
         \/ disturbances' = disturbances + 1 /\ (Stale' => Stale)
         \/ disturbances' = disturbances + 1 /\ Charged' \subseteq Charged
    BY DEF Balanced
<1> DEFINE n == Cardinality(Charged)
           k == Cardinality(Charged')
<1>1. IsFiniteSet(Charged) /\ IsFiniteSet(Charged \cup {x})
      /\ Cardinality(Charged \cup {x}) = (IF x \in Charged THEN n ELSE n + 1)
    BY FS_AddElement DEF DamageInv
<1>2. IsFiniteSet(Charged') /\ k <= Cardinality(Charged \cup {x})
    BY <1>0, <1>1, FS_Subset
<1>3. Charged' \subseteq Charged => k <= n
    BY <1>1, FS_Subset
<1>4. n \in Nat /\ k \in Nat
    BY <1>1, <1>2, FS_CardinalityType
<1>5. k <= n + 1
    BY <1>1, <1>2, <1>4
<1>6. disturbances \in Nat /\ disturbances' \in Nat
    BY SizeAssumption DEF ReassemblerTypeOK
<1>7. n + (IF Stale THEN 1 ELSE 0) <= disturbances
    BY DEF DamageInv
<1> DEFINE before == IF Stale THEN 1 ELSE 0
           after == IF Stale' THEN 1 ELSE 0
<1>8. before \in 0 .. 1 /\ after \in 0 .. 1
    OBVIOUS
<1>9. \/ k <= n /\ after <= before
      \/ after = 0 /\ before = 1
      \/ disturbances' = disturbances + 1 /\ after <= before
      \/ disturbances' = disturbances + 1 /\ k <= n
    BY <1>0, <1>3
<1>10. n + before <= disturbances
    BY <1>7
<1> SUFFICES k + after <= disturbances'
    BY <1>2 DEF DamageInv
<1> HIDE DEF n, k, before, after
<1> QED
    BY <1>0, <1>4, <1>5, <1>6, <1>8, <1>9, <1>10

\* A message needs another segment exactly if it is not the last one counted.
LEMMA MoreToCome ==
    ASSUME NEW n \in Nat, NEW max \in Nat \ {0}, NEW k \in 1 .. SegmentCount(n, max)
    PROVE  /\ HasMore(n, max, k) <=> k < SegmentCount(n, max)
           /\ (k - 1) * max <= n
           /\ k > 1 => (k - 1) * max < n
<1> DEFINE c == SegmentCount(n, max)
           q == (n + max - 1) \div max
<1>1. c \in Nat \ {0} /\ k \in Nat \ {0} /\ k <= c
    BY SegmentCountPositive
<1>2. CASE n <= max
    <2>1. c = 1 /\ k = 1
        BY <1>1, <1>2 DEF SegmentCount
    <2>2. 1 * max = max /\ (1 - 1) * max = 0
        OBVIOUS
    <2> QED
        BY <1>2, <2>1, <2>2 DEF HasMore
<1>3. CASE n > max
    <2>1. c = q
        BY <1>3 DEF SegmentCount
    <2>2. q \in Nat /\ max * q <= n + max - 1 /\ n + max - 1 < max * q + max
        BY SMT
    <2> HIDE DEF q, c
    <2>3. max * q < n + max /\ n <= max * q
        BY <2>2
    <2>4. ASSUME NEW j \in Nat, j < c
          PROVE  j * max < n
        <3>1. PICK d \in Nat : q = j + 1 + d
            <4>1. q - j - 1 \in Nat /\ q = j + 1 + (q - j - 1)
                BY <1>1, <2>1, <2>2, <2>4
            <4> QED
                BY <4>1
        <3>2. max * (j + 1 + d) = j * max + max + max * d /\ max * d \in Nat /\ j * max \in Nat
            BY SMT
        <3> QED
            BY <2>3, <3>1, <3>2
    <2>5. k < c => k * max < n
        BY <1>1, <2>4
    <2>6. k = c => ~(k * max < n)
        <3>1. c * max = max * q /\ c * max \in Nat
            BY <1>1, <2>1, <2>2
        <3> QED
            BY <2>3, <3>1
    <2>7. (k - 1) * max < n
        BY <1>1, <2>4
    <2>8. (k - 1) * max \in Nat
        BY <1>1
    <2> QED
        BY <1>1, <2>5, <2>6, <2>7, <2>8 DEF HasMore, c
<1> QED
    BY <1>2, <1>3

\* A segment fills its room unless it is the last one, which holds the rest.
LEMMA NextLength ==
    ASSUME SendingOK, NEW s \in Source, HasFrame(s)
    PROVE  LET f == NextFrame(s)
               room == Field(s, message[s])
               base == (segment[s] - 1) * room
               size == Script[s][message[s]].size
           IN  /\ f.origin = Origin[s] /\ f.kind = Kind[s]
               /\ f.segmented <=> segment[s] < Len(Segments(s, message[s]))
               /\ f.segmented => Len(f.information) = room /\ base + room <= size
               /\ ~f.segmented => base + Len(f.information) = size
               /\ segment[s] > 1 => Len(f.information) > 0
               /\ size \in Nat /\ room \in Nat \ {0} /\ base \in Nat
<1> DEFINE m == message[s]
           k == segment[s]
           info == Information(s, m)
           max == Field(s, m)
           n == Script[s][m].size
           c == SegmentCount(n, max)
           lo == (k - 1) * max + 1
           hi == Smaller(k * max, n)
           f == NextFrame(s)
<1>1. Script[s] \in Seq([size : Nat, field : Nat])
    BY ScriptAssumption
<1>2. m \in 1 .. Len(Script[s]) /\ k \in 1 .. Len(Segments(s, m))
    BY <1>1 DEF SendingOK, HasFrame
<1>3. /\ info \in Seq(Byte) /\ max \in Nat \ {0} /\ n \in Nat /\ Len(info) = n
    BY <1>2, InformationType DEF Field
<1>4. Segments(s, m) = [x \in 1 .. c |->
                           [segmented |-> HasMore(n, max, x),
                            origin |-> Origin[s], kind |-> Kind[s],
                            information |-> Chunk(info, max, x)]]
    BY <1>3 DEF Segments, SegmentInformation, Field
<1>5. c \in Nat \ {0}
    BY <1>3, SegmentCountPositive
<1> HIDE DEF info, max, n, c
<1>6. Len(Segments(s, m)) = c /\ k \in 1 .. c /\ k \in Nat \ {0}
    BY <1>2, <1>4, <1>5
<1>7. /\ f.origin = Origin[s] /\ f.kind = Kind[s] /\ f.segmented = HasMore(n, max, k)
      /\ f.information = Chunk(info, max, k)
    BY <1>4, <1>6 DEF NextFrame
<1>8. f.information = SubSeq(info, lo, hi)
    BY <1>3, <1>7 DEF Chunk
<1>9. /\ HasMore(n, max, k) <=> k < c
      /\ (k - 1) * max <= n
      /\ k > 1 => (k - 1) * max < n
    BY <1>3, <1>6, MoreToCome DEF c
<1> DEFINE base == (k - 1) * max
<1>10. base \in Nat /\ k * max = base + max /\ lo = base + 1 /\ base <= n
    <2>1. (k - 1) * max \in Nat
        BY <1>3, <1>6
    <2>2. k * max = (k - 1) * max + max
        BY <1>3, <1>6
    <2>3. (k - 1) * max <= n
        BY <1>9
    <2> QED
        BY <2>1, <2>2, <2>3
<1> DEFINE next == base + max
<1>21. next = k * max
    BY <1>10
<1>22. (f.segmented <=> next < n) /\ hi = (IF next <= n THEN next ELSE n)
    BY <1>7, <1>21 DEF HasMore, Smaller
<1>23. next \in Nat
    BY <1>3, <1>10
<1> HIDE DEF next, hi, f, base
<1>11. f.segmented => hi = base + max /\ base + max < n
    BY <1>3, <1>22, <1>23 DEF next
<1>12. ~f.segmented => hi = n
    BY <1>3, <1>22, <1>23
<1>13. k > 1 => base < n
    BY <1>9 DEF base
<1> HIDE DEF lo
<1>14. hi \in Nat /\ base <= hi /\ hi <= n
    BY <1>3, <1>7, <1>10, <1>11, <1>12 DEF HasMore
<1>15. Len(SubSeq(info, lo, hi)) = hi - base
    BY <1>3, <1>10, <1>14
<1>16. Len(f.information) = hi - base
    BY <1>8, <1>15
<1>17. f.segmented <=> k < c
    BY <1>7, <1>9
<1>18. f.segmented => Len(f.information) = max /\ base + max <= n
    BY <1>3, <1>10, <1>11, <1>16
<1>19. ~f.segmented => base + Len(f.information) = n
    BY <1>3, <1>10, <1>12, <1>16
<1>20. k > 1 => Len(f.information) > 0
    BY <1>3, <1>10, <1>11, <1>12, <1>13, <1>14, <1>16, <1>17
<1> QED
    BY <1>3, <1>6, <1>7, <1>10, <1>17, <1>18, <1>19, <1>20 DEF f, base, max, n

\* The bytes of a message one after the other.
LEMMA BytesJoined ==
    ASSUME NEW s \in Source, NEW m \in Nat, NEW n \in Nat, NEW q \in Seq(Byte),
           \A j \in 1 .. Len(q) : q[j] = <<s, m, n + j>>
    PROVE  /\ Bytes(s, m, n) \in Seq(Byte) /\ Len(Bytes(s, m, n)) = n
           /\ Bytes(s, m, n) \o q = Bytes(s, m, n + Len(q))
           /\ n = 0 => Bytes(s, m, n) = <<>> /\ q = Bytes(s, m, n + Len(q))
<1> DEFINE b == Bytes(s, m, n)
           c == Bytes(s, m, n + Len(q))
           l == Len(q)
<1>1. l \in Nat
    OBVIOUS
<1>2. /\ b = [j \in 1 .. n |-> <<s, m, j>>] /\ c = [j \in 1 .. n + l |-> <<s, m, j>>]
    BY DEF Bytes
<1>3. \A j \in Nat : <<s, m, j>> \in Byte
    BY DEF Byte
<1> HIDE DEF b, c, l
<1>4. /\ b \in Seq(Byte) /\ Len(b) = n /\ \A j \in 1 .. n : b[j] = <<s, m, j>>
    BY <1>2, <1>3
<1>5. n + l \in Nat
    BY <1>1
<1>6. /\ c \in Seq(Byte) /\ Len(c) = n + l /\ \A j \in 1 .. n + l : c[j] = <<s, m, j>>
    BY <1>2, <1>3, <1>5
<1>7. b \o q \in Seq(Byte) /\ Len(b \o q) = n + l
    <2>1. Len(q) = l
        BY DEF l
    <2> QED
        BY <1>4, <2>1, ConcatProperties
<1>8. ASSUME NEW j \in 1 .. n + l
      PROVE  (b \o q)[j] = <<s, m, j>>
    <2>1. CASE j <= n
        BY <1>1, <1>4, <2>1
    <2>2. CASE j > n
        <3> DEFINE i == j - n
        <3>1. i \in 1 .. l /\ j = n + i
            BY <1>1, <2>2
        <3>2. (b \o q)[j] = q[j - n]
            BY <1>1, <1>4, <2>2 DEF l
        <3> HIDE DEF i
        <3>3. q[i] = <<s, m, n + i>>
            BY <3>1 DEF l
        <3> QED
            BY <3>1, <3>2, <3>3 DEF i
    <2>3. j \in Int
        BY <1>5
    <2>4. j <= n \/ j > n
        BY <2>3
    <2> QED
        BY <2>1, <2>2, <2>4
<1>9. b \o q = c
    BY <1>6, <1>7, <1>8, SeqEqual
<1>10. ASSUME n = 0
       PROVE  b = <<>> /\ q = c
    <2>1. b = <<>>
        BY <1>4, <1>10
    <2>2. b \o q = q
        BY <2>1
    <2> QED
        BY <1>9, <2>1, <2>2
<1> QED
    BY <1>4, <1>9, <1>10 DEF b, c, l

\* A sequence has one owner.
LEMMA OneOwner ==
    ASSUME NEW s \in Source, NEW t \in Source, Owns(s)
    PROVE  Owns(t) => t = s
BY SourceAssumption DEF Owns

\* A mishap marks the messages that have bytes in what it destroys.
LEMMA Marked ==
    ASSUME NEW F, Disturb(F), NEW f \in F, NEW s, NEW m, NEW b,
           f.information = b, NEW i \in DOMAIN b, b[i][1] = s, b[i][2] = m
    PROVE  <<s, m>> \in hit'
<1>1. <<s, m>> \in Touched(f)
    BY DEF Touched
<1>2. Touched(f) \subseteq UNION {Touched(g) : g \in F}
    OBVIOUS
<1> QED
    BY <1>1, <1>2 DEF Disturb

\* No mark and no message handed over is taken back, and mishaps are counted.
Kept ==
    /\ hit \subseteq hit'
    /\ \A s, m : HandedOver(s, m) => HandedOver(s, m)'
    /\ disturbances <= disturbances'

LEMMA CountedUp ==
    ASSUME ReassemblerTypeOK, NEW F, Disturb(F) \/ Undisturbed
    PROVE  /\ hit \subseteq hit' /\ disturbances <= disturbances'
           /\ Disturb(F) => disturbances' = disturbances + 1
<1>1. disturbances \in Nat
    BY SizeAssumption DEF ReassemblerTypeOK
<1> QED
    BY <1>1 DEF Disturb, Undisturbed

LEMMA KeptWithout ==
    ASSUME ReassemblerTypeOK, NEW F, Disturb(F) \/ Undisturbed, completed' = completed
    PROVE  Kept
<1>1. \A s, m : HandedOver(s, m)' <=> HandedOver(s, m)
    BY DEF HandedOver, Information
<1> QED
    BY <1>1, CountedUp DEF Kept

\* A message is handed over for good, or is marked.
LEMMA HandOverKept ==
    ASSUME ReassemblerPure, ReassemblerTypeOK, NEW f, Pure(f), NEW room, HandOver(f, room)
    PROVE  /\ Kept
           /\ \/ Disturb({f})
              \/ Undisturbed /\ \A s, m : f.information = Information(s, m)
                                  /\ f.origin = Origin[s] /\ f.kind = Kind[s]
                                  => HandedOver(s, m)'
<1>1. CASE completed' = Append(completed, f) /\ Undisturbed
    <2>1. f \in FrameRecord /\ completed \in Seq(FrameRecord)
        BY DEF Pure, ReassemblerPure
    <2>2. /\ Len(completed') = Len(completed) + 1 /\ Len(completed) \in Nat
          /\ \A k \in 1 .. Len(completed) : completed'[k] = completed[k]
          /\ completed'[Len(completed) + 1] = f
        BY <1>1, <2>1
    <2>3. /\ \A k \in 1 .. Len(completed) : k \in 1 .. Len(completed')
          /\ Len(completed) + 1 \in 1 .. Len(completed')
        BY <2>2
    <2>4. ASSUME NEW s, NEW m, HandedOver(s, m)
          PROVE  HandedOver(s, m)'
        BY <2>2, <2>3, <2>4 DEF HandedOver, Information
    <2>5. ASSUME NEW s, NEW m, f.information = Information(s, m),
                 f.origin = Origin[s], f.kind = Kind[s]
          PROVE  HandedOver(s, m)'
        BY <2>2, <2>3, <2>5 DEF HandedOver, Information
    <2>6. hit \subseteq hit' /\ disturbances <= disturbances'
        BY <1>1, CountedUp
    <2> QED
        BY <1>1, <2>4, <2>5, <2>6 DEF Kept
<1>2. CASE completed' = completed /\ Disturb({f})
    BY <1>2, KeptWithout
<1> QED
    BY <1>1, <1>2 DEF HandOver

\* What it takes to be charged.
LEMMA IsCharged ==
    ASSUME NEW x
    PROVE  x \in Charged <=>
               /\ \E s \in Source : x \in {s} \X (1 .. message[s])
               /\ x \notin hit /\ Gone(x[1], x[2])
               /\ Script[x[1]][x[2]].size <= MaximumReassembled
BY DEF Charged

LEMMA IsChargedNext ==
    ASSUME NEW x
    PROVE  x \in Charged' <=>
               /\ \E s \in Source : x \in {s} \X (1 .. message'[s])
               /\ x \notin hit' /\ Gone(x[1], x[2])'
               /\ Script[x[1]][x[2]].size <= MaximumReassembled
BY DEF Charged

\* A frame that arrives or is lost brings a charge for its own message at most,
\* if no other source loses an unmarked sequence by it.
LEMMA OnlyTheNext ==
    ASSUME SendingOK, NEW s \in Source, Advance(s), Kept,
           \A t \in Source : t # s /\ segment[t] > 1 /\ OnTrack(t)
                                 => OnTrack(t)' \/ <<t, message[t]>> \in hit'
    PROVE  Charged' \subseteq Charged \cup {<<s, message[s]>>}
<1> SUFFICES ASSUME NEW x, x \in Charged', x # <<s, message[s]>>
             PROVE  x \in Charged
    OBVIOUS
<1>1. PICK t \in Source : x \in {t} \X (1 .. message'[t])
    BY IsChargedNext
<1> DEFINE m == x[2]
<1>2. x[1] = t /\ m \in 1 .. message'[t] /\ x = <<t, m>>
    BY <1>1
<1>3. /\ x \notin hit' /\ Gone(t, m)'
      /\ Script[t][m].size <= MaximumReassembled
    BY <1>2, IsChargedNext
<1> HIDE DEF m
<1>4. x \notin hit
    BY <1>3 DEF Kept
<1>5. message \in [Source -> Nat \ {0}] /\ segment \in [Source -> Nat \ {0}]
    BY DEF SendingOK
<1>6. \/ /\ segment' = [segment EXCEPT ![s] = segment[s] + 1] /\ message' = message
      \/ /\ segment' = [segment EXCEPT ![s] = 1]
         /\ message' = [message EXCEPT ![s] = message[s] + 1]
    BY DEF Advance
<1>7. /\ t # s => message'[t] = message[t] /\ segment'[t] = segment[t]
      /\ message'[s] = message[s] \/ (message'[s] = message[s] + 1 /\ segment'[s] = 1)
    BY <1>5, <1>6
<1>8. t = s => m # message[s]
    BY <1>2
<1>11. Gone(t, m)' => \/ m < message'[t] /\ ~HandedOver(t, m)'
                      \/ m = message'[t] /\ segment'[t] > 1 /\ ~OnTrack(t)'
    BY DEF Gone
<1>9. m \in Nat /\ m <= message[t] /\ m > 0
    <2>1. message[t] \in Nat \ {0} /\ message[s] \in Nat \ {0}
        BY <1>5
    <2>2. message'[t] = message[t] \/ message'[t] = message[t] + 1
        BY <1>7
    <2>3. m \in Nat \ {0} /\ m <= message[t] + 1
        BY <1>2, <2>1, <2>2
    <2>4. CASE t = s
        <3>1. m < message'[s] \/ (m = message'[s] /\ segment'[s] > 1)
            BY <1>3, <1>11, <2>4
        <3>2. m <= message[s]
            BY <1>7, <2>1, <2>3, <3>1
        <3> QED
            BY <2>3, <2>4, <3>2
    <2>5. CASE t # s
        BY <1>2, <1>7, <2>3, <2>5
    <2> QED
        BY <2>4, <2>5
<1>10. ~HandedOver(t, m)' => ~HandedOver(t, m)
    BY DEF Kept
<1>12. CASE t = s
    <2>1. m < message[s]
        BY <1>5, <1>8, <1>9, <1>12
    <2>2. m # message'[t] \/ ~(segment'[t] > 1)
        BY <1>5, <1>7, <1>12, <2>1
    <2>3. ~HandedOver(t, m)
        BY <1>3, <1>10, <1>11, <2>2
    <2>4. Gone(t, m)
        BY <1>12, <2>1, <2>3 DEF Gone
    <2> QED
        BY <1>2, <1>3, <1>4, <1>5, <1>9, <2>4, IsCharged
<1>13. CASE t # s
    <2>1. message'[t] = message[t] /\ segment'[t] = segment[t]
        BY <1>7, <1>13
    <2>2. ASSUME m < message'[t] /\ ~HandedOver(t, m)'
          PROVE  Gone(t, m)
        BY <1>10, <2>1, <2>2 DEF Gone
    <2>3. ASSUME m = message'[t] /\ segment'[t] > 1 /\ ~OnTrack(t)'
          PROVE  Gone(t, m)
        <3>1. <<t, message[t]>> \notin hit'
            BY <1>2, <1>3, <2>1, <2>3
        <3>2. ~OnTrack(t)
            BY <1>13, <2>1, <2>3, <3>1
        <3> QED
            BY <2>1, <2>3, <3>2 DEF Gone
    <2>4. Gone(t, m)
        BY <1>3, <1>11, <2>2, <2>3
    <2> QED
        BY <1>2, <1>3, <1>4, <1>5, <1>9, <2>4, IsCharged
<1> QED
    BY <1>12, <1>13

\* When its own message is not charged, or was already, no message is.
LEMMA NotEvenTheNext ==
    ASSUME SendingOK, NEW s \in Source, HasFrame(s), Advance(s), Kept,
           NEW m, m = message[s], Charged' \subseteq Charged \cup {<<s, m>>},
           \/ <<s, m>> \in hit'
           \/ Script[s][m].size > MaximumReassembled
           \/ NextFrame(s).segmented /\ OnTrack(s)'
           \/ ~NextFrame(s).segmented /\ HandedOver(s, m)'
           \/ segment[s] > 1 /\ ~OnTrack(s)
    PROVE  Charged' \subseteq Charged
<1> DEFINE x == <<s, m>>
<1>1. message \in [Source -> Nat \ {0}] /\ segment \in [Source -> Nat \ {0}]
    BY DEF SendingOK
<1>2. m \in Nat \ {0} /\ x[1] = s /\ x[2] = m
    BY <1>1
<1> HIDE DEF x
<1> SUFFICES ASSUME x \in Charged'
             PROVE  x \in Charged
    BY DEF x
<1>3. x \notin hit' /\ Gone(s, m)' /\ Script[s][m].size <= MaximumReassembled
    BY <1>2, IsChargedNext
<1>4. Script[s][m].size \in Nat /\ MaximumReassembled \in Nat
    BY SizeAssumption, NextLength
<1>5. ~(Script[s][m].size > MaximumReassembled)
    BY <1>3, <1>4
<1>6. /\ NextFrame(s).segmented => message'[s] = m
      /\ ~NextFrame(s).segmented => message'[s] = m + 1
    BY <1>1, NextLength DEF Advance
<1>7. Gone(s, m)' => \/ m < message'[s] /\ ~HandedOver(s, m)'
                     \/ m = message'[s] /\ segment'[s] > 1 /\ ~OnTrack(s)'
    BY DEF Gone
<1>8. segment[s] > 1 /\ ~OnTrack(s)
    BY <1>2, <1>3, <1>5, <1>6, <1>7 DEF x
<1>9. Gone(s, m)
    BY <1>8 DEF Gone
<1>10. x \notin hit
    BY <1>3 DEF Kept
<1>11. x \in {s} \X (1 .. message[s])
    BY <1>2 DEF x
<1> QED
    BY <1>2, <1>3, <1>9, <1>10, <1>11, IsCharged

\* What a source that moves on has done.
LEMMA MovedOn ==
    ASSUME SendingOK, NEW s \in Source, HasFrame(s), Advance(s)
    PROVE  /\ NextFrame(s).segmented =>
                  message'[s] = message[s] /\ segment'[s] = segment[s] + 1 /\ segment'[s] > 1
           /\ ~NextFrame(s).segmented => message'[s] = message[s] + 1 /\ segment'[s] = 1
           /\ \A t \in Source : t # s => message'[t] = message[t] /\ segment'[t] = segment[t]
           /\ message[s] \in Nat \ {0} /\ segment[s] \in Nat \ {0}
<1>1. message \in [Source -> Nat \ {0}] /\ segment \in [Source -> Nat \ {0}]
    BY DEF SendingOK
<1>2. \/ /\ segment[s] < Len(Segments(s, message[s]))
         /\ segment' = [segment EXCEPT ![s] = segment[s] + 1] /\ message' = message
      \/ /\ ~(segment[s] < Len(Segments(s, message[s])))
         /\ segment' = [segment EXCEPT ![s] = 1]
         /\ message' = [message EXCEPT ![s] = message[s] + 1]
    BY DEF Advance
<1> QED
    BY <1>1, <1>2, NextLength

\* The pending sequence has the addresses and the kind of the frame of its owner.
LEMMA OwnerCompatible ==
    ASSUME SendingOK, NEW s \in Source, HasFrame(s), hasPending
    PROVE  Compatible(pendingFrame, NextFrame(s)) <=> Owns(s)
BY NextLength DEF Compatible, Owns

\* Nothing pending, nothing stale.
LEMMA NotStale ==
    ASSUME NEW s \in Source, ~hasPending' \/ (Owns(s)' /\ segment'[s] # 1)
    PROVE  ~Stale'
<1>1. CASE ~hasPending'
    BY <1>1 DEF Stale, Owns
<1>2. CASE Owns(s)' /\ segment'[s] # 1
    <2>1. \A t \in Source : Owns(t)' => t = s
        BY <1>2, SourceAssumption DEF Owns
    <2> QED
        BY <1>2, <2>1 DEF Stale
<1> QED
    BY <1>1, <1>2

\* The first bytes of the next frame's message, the frame included.
LEMMA NextBytesJoined ==
    ASSUME SendingOK, NEW s \in Source, HasFrame(s)
    PROVE  LET f == NextFrame(s)
               m == message[s]
               base == (segment[s] - 1) * Field(s, m)
           IN  /\ Bytes(s, m, base) \o f.information = Bytes(s, m, base + Len(f.information))
               /\ segment[s] = 1 => f.information = Bytes(s, m, base + Len(f.information))
               /\ f.segmented => base + Len(f.information) = segment[s] * Field(s, m)
               /\ ~f.segmented => Bytes(s, m, base + Len(f.information)) = Information(s, m)
<1> DEFINE f == NextFrame(s)
           m == message[s]
           k == segment[s]
           room == Field(s, m)
           base == (k - 1) * room
           q == f.information
<1>1. /\ m \in Nat /\ k \in Nat \ {0} /\ room \in Nat \ {0} /\ base \in Nat
      /\ \A j \in 1 .. Len(q) : q[j] = <<s, m, base + j>>
    BY NextBytes, NextLength
<1>2. /\ f.segmented => Len(q) = room
      /\ ~f.segmented => base + Len(q) = Script[s][m].size
    BY NextLength
<1>3. q \in Seq(Byte)
    BY NextFramePure DEF Pure, FrameRecord
<1>4. k = 1 => base = 0
    BY <1>1
<1>5. base + room = k * room
    BY <1>1
<1> HIDE DEF q, m, k, room, base
<1>6. /\ Bytes(s, m, base) \o q = Bytes(s, m, base + Len(q))
      /\ base = 0 => q = Bytes(s, m, base + Len(q))
    <2>1. m \in Nat /\ base \in Nat /\ q \in Seq(Byte)
        BY <1>1, <1>3
    <2>2. \A j \in 1 .. Len(q) : q[j] = <<s, m, base + j>>
        BY <1>1
    <2> QED
        BY ONLY <2>1, <2>2, s \in Source, BytesJoined, ZenonT(60)
<1>7. ~f.segmented => Bytes(s, m, base + Len(q)) = Information(s, m)
    BY <1>2 DEF Bytes, Information
<1>8. f.segmented => base + Len(q) = k * room
    BY <1>2, <1>5
<1> QED
    BY <1>4, <1>6, <1>7, <1>8 DEF q, m, k, room, base

\* A sequence on track is marked when it is destroyed.
LEMMA TrackMarked ==
    ASSUME SendingOK, NEW t \in Source, HasFrame(t), segment[t] > 1, OnTrack(t),
           NEW F, Disturb(F), pendingFrame \in F
    PROVE  <<t, message[t]>> \in hit'
<1> DEFINE m == message[t]
           n == (segment[t] - 1) * Field(t, m)
           b == Bytes(t, m, n)
<1>1. /\ segment[t] \in Nat \ {0} /\ Field(t, m) \in Nat \ {0} /\ n \in Nat
    BY NextBytes, NextLength
<1>2. n # 0
    BY <1>1
<1> HIDE DEF n, m
<1>3. 1 \in DOMAIN b /\ b[1] = <<t, m, 1>>
    BY <1>1, <1>2 DEF Bytes
<1>4. pendingFrame.information = b
    BY DEF OnTrack, n, m
<1> HIDE DEF b
<1>5. b[1][1] = t /\ b[1][2] = m
    BY <1>3
<1>6. <<t, m>> \in hit'
    BY <1>3, <1>4, <1>5, Marked
<1> QED
    BY <1>6 DEF m

\* So is the message of the next frame, if that has bytes.
LEMMA NextMarked ==
    ASSUME SendingOK, NEW s \in Source, HasFrame(s), segment[s] > 1,
           NEW F, Disturb(F), NextFrame(s) \in F
    PROVE  <<s, message[s]>> \in hit'
<1> DEFINE m == message[s]
           b == NextFrame(s).information
           base == (segment[s] - 1) * Field(s, m)
<1>1. Len(b) \in Nat /\ Len(b) > 0 /\ \A j \in 1 .. Len(b) : b[j] = <<s, m, base + j>>
    BY NextBytes, NextLength
<1>2. b \in Seq(Byte)
    BY NextFramePure DEF Pure, FrameRecord
<1> HIDE DEF b, m, base
<1>3. 1 \in DOMAIN b /\ b[1] = <<s, m, base + 1>>
    BY <1>1, <1>2
<1>4. b[1][1] = s /\ b[1][2] = m
    BY <1>3
<1>5. <<s, m>> \in hit'
    BY <1>3, <1>4, Marked DEF b
<1> QED
    BY <1>5 DEF m

\* A frame that finds nothing pending.
LEMMA ArriveFirst ==
    ASSUME SendingOK, ReassemblerPure, ReassemblerTypeOK, NEW s \in Source, HasFrame(s),
           Advance(s), NEW room, PushFrame(NextFrame(s), room), ~hasPending
    PROVE  Balanced(<<s, message[s]>>)
<1> DEFINE f == NextFrame(s)
           len == Len(f.information)
           base == (segment[s] - 1) * Field(s, message[s])
<1>1. PICK m : m = message[s]
    OBVIOUS
<1>2. \A t \in Source : ~OnTrack(t) /\ ~Owns(t)
    BY DEF OnTrack, Owns
<1>3. Pure(f)
    BY NextFramePure
<1>4. ASSUME Kept
      PROVE  /\ Charged' \subseteq Charged \cup {<<s, m>>}
             /\ disturbances <= disturbances'
    BY <1>1, <1>2, <1>4, OnlyTheNext DEF Kept
<1>5. segment[s] \in Nat \ {0} /\ segment[s] # 1 => segment[s] > 1
    OBVIOUS
<1>6. segment[s] \in Nat \ {0} /\ m \in Nat
    BY <1>1, MovedOn
<1>7. CASE RefuseTooLarge(f)
    <2>1. Kept
        BY <1>7, KeptWithout DEF RefuseTooLarge
    <2>2. ~Stale'
        BY <1>7, NotStale DEF RefuseTooLarge, reassembler
    <2>3. Script[s][m].size > MaximumReassembled
        <3> DEFINE size == Script[s][m].size
        <3>1. len > MaximumReassembled
            BY <1>7 DEF RefuseTooLarge
        <3>2. size \in Nat /\ base \in Nat /\ len \in Nat
              /\ (f.segmented => len = Field(s, m) /\ base + Field(s, m) <= size)
              /\ (~f.segmented => base + len = size)
            BY <1>1, NextLength, NextBytes
        <3>3. MaximumReassembled \in Nat
            BY SizeAssumption
        <3> HIDE DEF size, base, len
        <3>4. size >= len
            BY <3>2
        <3> QED
            BY <3>1, <3>2, <3>3, <3>4 DEF size
    <2>4. Charged' \subseteq Charged
        BY <1>1, <1>4, <2>1, <2>3, NotEvenTheNext
    <2> QED
        BY <1>1, <1>4, <2>1, <2>2, <2>4 DEF Balanced
<1>8. CASE LoseOutOfMemory(f)
    <2>1. Kept /\ disturbances' = disturbances + 1
        BY <1>8, KeptWithout, CountedUp DEF LoseOutOfMemory
    <2>2. ~Stale'
        BY <1>8, NotStale DEF LoseOutOfMemory, reassembler
    <2> QED
        BY <1>1, <1>4, <2>1, <2>2 DEF Balanced
<1>9. CASE CompleteAtOnce(f, room)
    <2>1. /\ HandOver(f, room) /\ ~f.segmented
        BY <1>9 DEF CompleteAtOnce
    <2>2. ~Stale'
        BY <1>9, NotStale DEF CompleteAtOnce, reassembler
    <2>3. Kept
        BY <1>3, <2>1, HandOverKept
    <2>4. CASE Disturb({f})
        <3>1. disturbances' = disturbances + 1
            BY <2>4, CountedUp
        <3> QED
            BY <1>1, <1>4, <2>2, <2>3, <3>1 DEF Balanced
    <2>5. ASSUME f.information = Information(s, m)
                    /\ f.origin = Origin[s] /\ f.kind = Kind[s]
                    => HandedOver(s, m)'
          PROVE  Charged' \subseteq Charged
        <3>1. CASE segment[s] = 1
            <4>1. f.information = Information(s, m)
                BY <1>1, <2>1, <3>1, NextBytesJoined
            <4>2. f.origin = Origin[s] /\ f.kind = Kind[s]
                BY NextLength
            <4> QED
                BY <1>1, <1>4, <2>1, <2>3, <2>5, <4>1, <4>2, NotEvenTheNext
        <3>2. CASE segment[s] # 1
            BY <1>1, <1>2, <1>4, <1>5, <1>6, <2>3, <3>2, NotEvenTheNext
        <3> QED
            BY <3>1, <3>2
    <2> QED
        BY <1>1, <1>3, <1>4, <2>1, <2>2, <2>3, <2>4, <2>5, HandOverKept DEF Balanced
<1>10. CASE BeginSequence(f)
    <2>1. Kept
        BY <1>10, KeptWithout DEF BeginSequence
    <2>2. f.segmented /\ hasPending' /\ pendingFrame' = f
        BY <1>10 DEF BeginSequence
    <2>3. message'[s] = m /\ segment'[s] = segment[s] + 1 /\ segment'[s] > 1
        BY <1>1, <2>2, MovedOn
    <2>4. Owns(s)'
        BY <2>2, NextLength DEF Owns
    <2>5. ~Stale'
        BY <2>3, <2>4, NotStale
    <2>6. ASSUME segment[s] = 1
          PROVE  Charged' \subseteq Charged
        <3>1. f.information = Bytes(s, m, segment[s] * Field(s, m))
            BY <1>1, <2>2, <2>6, NextBytesJoined
        <3>2. (segment'[s] - 1) = segment[s]
            BY <1>6, <2>3
        <3>3. OnTrack(s)'
            BY <2>2, <2>3, <2>4, <3>1, <3>2 DEF OnTrack, Bytes, Field
        <3> QED
            BY <1>1, <1>4, <2>1, <2>2, <3>3, NotEvenTheNext
    <2>7. ASSUME segment[s] # 1
          PROVE  Charged' \subseteq Charged
        BY <1>1, <1>2, <1>4, <1>5, <1>6, <2>1, <2>7, NotEvenTheNext
    <2>8. Charged' \subseteq Charged
        BY <2>6, <2>7
    <2> QED
        BY <1>1, <1>4, <2>1, <2>5, <2>8 DEF Balanced
<1> QED
    BY <1>7, <1>8, <1>9, <1>10
    DEF PushFrame, DropIncompatible, DropOverflow, DropOutOfMemory, ContinueSequence,
        CompleteSequence, KeepOutOfMemory

\* A source is within a message only while it has one.
Begun == \A s \in Source : segment[s] > 1 => HasFrame(s)

LEMMA BegunKept ==
    ASSUME SendingOK, Begun, NEW s \in Source, HasFrame(s), Advance(s)
    PROVE  Begun'
<1> SUFFICES ASSUME NEW t \in Source, segment'[t] > 1
             PROVE  HasFrame(t)'
    BY DEF Begun
<1>1. CASE t = s
    <2>1. NextFrame(s).segmented
        BY <1>1, MovedOn
    <2>2. message'[s] = message[s]
        BY <2>1, MovedOn
    <2> QED
        BY <1>1, <2>2 DEF HasFrame
<1>2. CASE t # s
    BY <1>2, MovedOn DEF Begun, HasFrame
<1> QED
    BY <1>1, <1>2

\* A frame that finds a sequence pending.
LEMMA ArriveNext ==
    ASSUME SendingOK, ReassemblerPure, ReassemblerTypeOK, Begun, NEW s \in Source, HasFrame(s),
           Advance(s), NEW room, PushFrame(NextFrame(s), room), hasPending
    PROVE  Balanced(<<s, message[s]>>)
<1> DEFINE f == NextFrame(s)
<1>1. PICK m : m = message[s]
    OBVIOUS
<1>2. Pure(f) /\ Pure(pendingFrame)
    BY NextFramePure DEF ReassemblerPure
<1>3. Compatible(pendingFrame, f) <=> Owns(s)
    BY OwnerCompatible
<1>4. ASSUME Kept, Owns(s)
      PROVE  /\ Charged' \subseteq Charged \cup {<<s, m>>}
             /\ disturbances <= disturbances'
    <2>1. \A t \in Source : t # s => ~OnTrack(t)
        BY <1>4, OneOwner DEF OnTrack
    <2> QED
        BY <1>1, <1>4, <2>1, OnlyTheNext DEF Kept
<1>5. segment[s] \in Nat \ {0} /\ m \in Nat /\ (segment[s] # 1 => segment[s] > 1)
    BY <1>1, MovedOn
<1>6. ASSUME Owns(s), segment[s] = 1
      PROVE  Stale
    BY <1>6 DEF Stale
<1> DEFINE base == (segment[s] - 1) * Field(s, m)
           len == Len(f.information)
           whole == Script[s][m].size
<1>7. ASSUME OnTrack(s)
      PROVE  /\ pendingFrame.information \o f.information = Bytes(s, m, base + len)
             /\ Len(pendingFrame.information) = base
    <2>1. pendingFrame.information = Bytes(s, m, base)
        BY <1>1, <1>7 DEF OnTrack
    <2>2. base \in Nat
        BY <1>1, NextLength
    <2>3. Len(Bytes(s, m, base)) = base
        <3> HIDE DEF base
        <3> QED
            BY <2>2 DEF Bytes
    <2> QED
        BY <1>1, <2>1, <2>3, NextBytesJoined
<1>8. /\ Extended(f).information = pendingFrame.information \o f.information
      /\ Joined(f).information = pendingFrame.information \o f.information
      /\ Extended(f).origin = pendingFrame.origin /\ Extended(f).kind = pendingFrame.kind
      /\ Joined(f).origin = pendingFrame.origin /\ Joined(f).kind = pendingFrame.kind
    BY <1>2 DEF Extended, Joined, Pure, FrameRecord
<1>9. CASE DropIncompatible(f)
    <2>1. Kept /\ disturbances' = disturbances + 1 /\ Disturb({pendingFrame, f}) /\ ~hasPending'
        BY <1>9, KeptWithout, CountedUp DEF DropIncompatible, Reset
    <2>2. ~Stale'
        BY <2>1, NotStale
    <2>3. \A t \in Source : segment[t] > 1 /\ OnTrack(t) => <<t, message[t]>> \in hit'
        BY <2>1, TrackMarked DEF Begun
    <2>4. Charged' \subseteq Charged \cup {<<s, message[s]>>}
        BY <2>1, <2>3, OnlyTheNext
    <2> QED
        BY <2>1, <2>2, <2>4 DEF Balanced, Kept
<1>10. CASE DropOverflow(f)
    <2>1. Kept /\ Owns(s) /\ ~hasPending' /\ Overflows(f)
        BY <1>3, <1>10, KeptWithout DEF DropOverflow, Reset
    <2>2. ~Stale'
        BY <2>1, NotStale
    <2>3. CASE segment[s] = 1
        BY <1>1, <1>4, <1>6, <2>1, <2>2, <2>3 DEF Balanced
    <2>4. CASE segment[s] # 1
        <3>1. ASSUME OnTrack(s)
              PROVE  whole > MaximumReassembled
            <4>1. /\ whole \in Nat /\ base \in Nat /\ len \in Nat
                  /\ (f.segmented => len = Field(s, m) /\ base + Field(s, m) <= whole)
                  /\ (~f.segmented => base + len = whole)
                BY <1>1, NextLength, NextBytes
            <4>2. base + len <= whole
                <5> HIDE DEF base, len, whole
                <5> QED
                    BY <4>1
            <4>3. Len(pendingFrame.information) = base
                BY <1>7, <3>1
            <4>4. base > (MaximumReassembled - len) % SizeModulus
                BY <2>1, <4>3 DEF Overflows
            <4>5. /\ MaximumReassembled \in Nat /\ SizeModulus \in Nat
                  /\ MaximumReassembled < SizeModulus
                BY SizeAssumption
            <4> HIDE DEF base, len, whole
            <4> SUFFICES ASSUME whole <= MaximumReassembled
                         PROVE  FALSE
                BY <4>1, <4>5
            <4>6. MaximumReassembled - len \in Nat /\ MaximumReassembled - len < SizeModulus
                BY <4>1, <4>2, <4>5
            <4>7. (MaximumReassembled - len) % SizeModulus = MaximumReassembled - len
                BY <4>5, <4>6, SmallModulo
            <4> QED
                BY <4>1, <4>2, <4>4, <4>5, <4>7
        <3>2. Charged' \subseteq Charged
            BY <1>1, <1>4, <1>5, <2>1, <2>4, <3>1, NotEvenTheNext
        <3> QED
            BY <1>1, <1>4, <2>1, <2>2, <3>2 DEF Balanced
    <2> QED
        BY <2>3, <2>4
<1>11. CASE DropOutOfMemory(f)
    <2>1. Kept /\ disturbances' = disturbances + 1 /\ Owns(s) /\ ~hasPending'
        BY <1>3, <1>11, KeptWithout, CountedUp DEF DropOutOfMemory, Reset
    <2>2. ~Stale'
        BY <2>1, NotStale
    <2> QED
        BY <1>1, <1>4, <2>1, <2>2 DEF Balanced
<1>12. CASE ContinueSequence(f)
    <2>1. Kept /\ Owns(s) /\ hasPending' /\ pendingFrame' = Extended(f) /\ f.segmented
        BY <1>3, <1>12, KeptWithout DEF ContinueSequence
    <2>2. message'[s] = m /\ segment'[s] = segment[s] + 1 /\ segment'[s] > 1
        BY <1>1, <2>1, MovedOn
    <2>3. Owns(s)'
        BY <1>8, <2>1 DEF Owns
    <2>4. ~Stale'
        BY <2>2, <2>3, NotStale
    <2>5. CASE segment[s] = 1
        BY <1>1, <1>4, <1>6, <2>1, <2>4, <2>5 DEF Balanced
    <2>6. CASE segment[s] # 1
        <3>1. ASSUME OnTrack(s)
              PROVE  OnTrack(s)'
            <4>1. pendingFrame'.information = Bytes(s, m, segment[s] * Field(s, m))
                BY <1>1, <1>7, <1>8, <2>1, <3>1, NextBytesJoined
            <4>2. segment'[s] - 1 = segment[s]
                BY <1>5, <2>2
            <4> QED
                BY <2>2, <2>3, <4>1, <4>2 DEF OnTrack, Bytes, Field
        <3>2. Charged' \subseteq Charged
            BY <1>1, <1>4, <1>5, <2>1, <2>6, <3>1, NotEvenTheNext
        <3> QED
            BY <1>1, <1>4, <2>1, <2>4, <3>2 DEF Balanced
    <2> QED
        BY <2>5, <2>6
<1>13. CASE CompleteSequence(f, room)
    <2>1. Owns(s) /\ HandOver(Joined(f), room) /\ ~f.segmented /\ ~hasPending'
        BY <1>3, <1>13 DEF CompleteSequence, Reset
    <2>2. ~Stale'
        BY <2>1, NotStale
    <2>3. Pure(Joined(f))
        BY <1>2, <1>3, <2>1, ExtendedPure
    <2>4. Kept
        BY <2>1, <2>3, HandOverKept
    <2>5. CASE Disturb({Joined(f)})
        <3>1. disturbances' = disturbances + 1
            BY <2>5, CountedUp
        <3> QED
            BY <1>1, <1>4, <2>1, <2>2, <2>4, <3>1 DEF Balanced
    <2>6. ASSUME Joined(f).information = Information(s, m)
                    /\ Joined(f).origin = Origin[s] /\ Joined(f).kind = Kind[s]
                    => HandedOver(s, m)'
          PROVE  Balanced(<<s, message[s]>>)
        <3>1. CASE segment[s] = 1
            BY <1>1, <1>4, <1>6, <2>1, <2>2, <2>4, <3>1 DEF Balanced
        <3>2. CASE segment[s] # 1
            <4>1. ASSUME OnTrack(s)
                  PROVE  HandedOver(s, m)'
                <5>1. Joined(f).information = Information(s, m)
                    BY <1>1, <1>7, <1>8, <2>1, <4>1, NextBytesJoined
                <5>2. Joined(f).origin = Origin[s] /\ Joined(f).kind = Kind[s]
                    BY <1>8, <2>1 DEF Owns
                <5> QED
                    BY <2>6, <5>1, <5>2
            <4>2. Charged' \subseteq Charged
                BY <1>1, <1>4, <1>5, <2>1, <2>4, <3>2, <4>1, NotEvenTheNext
            <4> QED
                BY <1>1, <1>4, <2>1, <2>2, <2>4, <4>2 DEF Balanced
        <3> QED
            BY <3>1, <3>2
    <2> QED
        BY <2>1, <2>3, <2>5, <2>6, HandOverKept
<1>14. CASE KeepOutOfMemory(f)
    <2>1. /\ Kept /\ disturbances' = disturbances + 1 /\ Owns(s)
          /\ Disturb({pendingFrame, f})
        BY <1>3, <1>14, KeptWithout, CountedUp DEF KeepOutOfMemory
    <2>2. CASE segment[s] = 1
        BY <1>1, <1>4, <1>6, <2>1, <2>2 DEF Balanced
    <2>3. CASE segment[s] # 1
        <3>1. <<s, m>> \in hit'
            BY <1>1, <1>5, <2>1, <2>3, NextMarked
        <3>2. Charged' \subseteq Charged
            BY <1>1, <1>4, <2>1, <3>1, NotEvenTheNext
        <3> QED
            BY <1>1, <1>4, <2>1, <3>2 DEF Balanced
    <2> QED
        BY <2>2, <2>3
<1> QED
    BY <1>9, <1>10, <1>11, <1>12, <1>13, <1>14
    DEF PushFrame, RefuseTooLarge, LoseOutOfMemory, CompleteAtOnce, BeginSequence

\* A frame is lost on the line.
LEMMA LoseBalanced ==
    ASSUME SendingOK, ReassemblerTypeOK, NEW s \in Source, Lose(s)
    PROVE  Balanced(<<s, message[s]>>)
<1>1. PICK m : m = message[s]
    OBVIOUS
<1>2. /\ HasFrame(s) /\ Advance(s) /\ Disturb({NextFrame(s)}) /\ completed' = completed
      /\ hasPending' = hasPending /\ pendingFrame' = pendingFrame
    BY DEF Lose, reassembler
<1>3. Kept /\ disturbances' = disturbances + 1
    BY <1>2, KeptWithout, CountedUp
<1>4. \A t \in Source : t # s => message'[t] = message[t] /\ segment'[t] = segment[t]
    BY <1>2, MovedOn
<1>5. \A t \in Source : Owns(t)' <=> Owns(t)
    BY <1>2 DEF Owns
<1>6. \A t \in Source : t # s /\ OnTrack(t) => OnTrack(t)'
    BY <1>2, <1>4, <1>5 DEF OnTrack, Bytes, Field
<1>7. Charged' \subseteq Charged \cup {<<s, m>>}
    BY <1>1, <1>2, <1>3, <1>6, OnlyTheNext
<1>8. CASE Stale' => Stale
    BY <1>1, <1>3, <1>7, <1>8 DEF Balanced, Kept
<1>9. CASE Stale' /\ ~Stale
    <2>1. PICK t \in Source : Owns(t)' /\ segment'[t] = 1
        BY <1>9 DEF Stale
    <2>2. segment[t] # 1
        BY <1>5, <1>9, <2>1 DEF Stale
    <2>3. t = s
        BY <1>4, <2>1, <2>2
    <2>4. segment[s] > 1
        BY <1>2, <2>2, <2>3, MovedOn
    <2>5. <<s, m>> \in hit'
        BY <1>1, <1>2, <2>4, NextMarked
    <2>6. Charged' \subseteq Charged
        BY <1>1, <1>2, <1>3, <1>7, <2>5, NotEvenTheNext
    <2> QED
        BY <1>1, <1>3, <1>7, <2>6 DEF Balanced, Kept
<1> QED
    BY <1>8, <1>9

\* The owner throws the pending sequence away.
LEMMA ResetBalanced ==
    ASSUME SendingOK, ReassemblerTypeOK, Begun, OwnerResets, NEW x
    PROVE  Balanced(x)
<1>1. /\ Disturb({pendingFrame}) /\ completed' = completed /\ ~hasPending'
      /\ message' = message /\ segment' = segment
    BY DEF OwnerResets, Reset, sending
<1>2. Kept /\ disturbances' = disturbances + 1
    BY <1>1, KeptWithout, CountedUp
<1>3. ~Stale'
    BY <1>1 DEF Stale, Owns
<1>4. ASSUME NEW y, y \in Charged'
      PROVE  y \in Charged
    <2>1. PICK t \in Source : y \in {t} \X (1 .. message'[t])
        BY <1>4, IsChargedNext
    <2> DEFINE m == y[2]
    <2>2. y[1] = t /\ m \in 1 .. message'[t] /\ y = <<t, m>>
        BY <2>1
    <2>3. y \notin hit' /\ Gone(t, m)' /\ Script[t][m].size <= MaximumReassembled
        BY <1>4, <2>2, IsChargedNext
    <2> HIDE DEF m
    <2>4. y \notin hit
        BY <1>2, <2>3 DEF Kept
    <2>5. ~HandedOver(t, m)' => ~HandedOver(t, m)
        BY <1>2 DEF Kept
    <2>6. ASSUME m = message[t], segment[t] > 1, OnTrack(t)
          PROVE  FALSE
        <3>1. <<t, message[t]>> \in hit'
            BY <1>1, <2>6, TrackMarked DEF Begun
        <3> QED
            BY <2>2, <2>3, <2>6, <3>1
    <2>7. Gone(t, m)
        BY <1>1, <2>3, <2>5, <2>6 DEF Gone
    <2> QED
        BY <1>1, <2>1, <2>2, <2>3, <2>4, <2>7, IsCharged
<1> QED
    BY <1>2, <1>3, <1>4 DEF Balanced, Kept

\* Nothing is charged at first.
LEMMA InitDamage == SegmentationInit => Begun /\ DamageInv
<1> SUFFICES ASSUME SegmentationInit PROVE Begun /\ DamageInv
    OBVIOUS
<1>1. \A s \in Source : message[s] = 1 /\ segment[s] = 1
    BY DEF SegmentationInit
<1>2. Begun
    BY <1>1 DEF Begun
<1>3. ASSUME NEW x, x \in Charged
      PROVE  FALSE
    <2>1. PICK s \in Source : x \in {s} \X (1 .. message[s])
        BY <1>3, IsCharged
    <2>2. x[1] = s /\ x[2] = 1
        BY <1>1, <2>1
    <2>3. Gone(s, 1)
        BY <1>3, <2>2, IsCharged
    <2> QED
        BY <1>1, <2>3 DEF Gone
<1>4. Charged = {}
    BY <1>3
<1>5. ~Stale
    BY DEF SegmentationInit, Stale, Owns
<1>6. IsFiniteSet(Charged) /\ Cardinality(Charged) = 0
    BY <1>4, FS_EmptySet
<1>7. disturbances = 0
    BY DEF SegmentationInit
<1> QED
    BY <1>2, <1>5, <1>6, <1>7 DEF DamageInv

LEMMA StepDamage ==
    ASSUME PureInv, ReassemblerTypeOK, ReassemblerTypeOK', Begun, DamageInv,
           [SegmentationNext]_segmentationVars
    PROVE  Begun' /\ DamageInv'
<1>1. SendingOK /\ ReassemblerPure
    BY DEF PureInv
<1>2. ASSUME NEW s \in Source, Arrive(s) PROVE Begun' /\ DamageInv'
    <2>1. PICK room \in Rooms : PushFrame(NextFrame(s), room)
        BY <1>2 DEF Arrive
    <2>2. HasFrame(s) /\ Advance(s)
        BY <1>2 DEF Arrive
    <2>3. Balanced(<<s, message[s]>>)
        BY <1>1, <2>1, <2>2, ArriveFirst, ArriveNext
    <2> QED
        BY <1>1, <2>2, <2>3, Charge, BegunKept
<1>3. ASSUME NEW s \in Source, Lose(s) PROVE Begun' /\ DamageInv'
    <2>1. HasFrame(s) /\ Advance(s)
        BY <1>3 DEF Lose
    <2> QED
        BY <1>1, <1>3, <2>1, LoseBalanced, Charge, BegunKept
<1>4. CASE OwnerResets
    <2>1. message' = message /\ segment' = segment
        BY <1>4 DEF OwnerResets, sending
    <2>2. Begun'
        BY <2>1 DEF Begun, HasFrame
    <2>3. Balanced({})
        BY <1>1, <1>4, ResetBalanced
    <2> QED
        BY <2>2, <2>3, Charge
<1>5. CASE UNCHANGED segmentationVars
    <2>1. /\ message' = message /\ segment' = segment /\ hit' = hit /\ completed' = completed
          /\ hasPending' = hasPending /\ pendingFrame' = pendingFrame
          /\ disturbances' = disturbances
        BY <1>5 DEF segmentationVars, reassembler, sending
    <2>2. Begun'
        BY <2>1 DEF Begun, HasFrame
    <2>3. Charged' = Charged
        BY <2>1 DEF Charged, Gone, OnTrack, Owns, HandedOver, Information, Bytes, Field
    <2>4. Stale' <=> Stale
        BY <2>1 DEF Stale, Owns
    <2> QED
        BY <2>1, <2>2, <2>3, <2>4 DEF DamageInv
<1> QED
    BY <1>2, <1>3, <1>4, <1>5 DEF SegmentationNext

\* A mishap costs one message at most beside those it touched: the one that is
\* appended to what was left behind, or a message without bytes, which bears no mark.
THEOREM DamageStaysLocal == SegmentationSpec => []DamageContained
<1>1. SegmentationInit => Begun /\ DamageInv
    BY InitDamage
<1>2. /\ PureInv /\ ReassemblerTypeOK /\ ReassemblerTypeOK' /\ Begun /\ DamageInv
      /\ [SegmentationNext]_segmentationVars
      => Begun' /\ DamageInv'
    BY StepDamage
<1>3. PureInv /\ ReassemblerTypeOK /\ DamageInv => DamageContained
    BY ChargedCovers
<1> QED
    BY <1>1, <1>2, <1>3, TypesInvariant, PTL DEF SegmentationSpec
=============================================================================
