------------------------- MODULE HdlcTransferProofs -------------------------
(***************************************************************************)
(* What the encoder writes the decoder reads, for every frame, every       *)
(* limits and every buffer; what one inverted bit changes it refuses.      *)
(***************************************************************************)
EXTENDS HdlcTransfer, TLAPS, WellFoundedInduction, FiniteSetTheorems

-----------------------------------------------------------------------------
(***************************************************************************)
(* Addresses.                                                              *)
(***************************************************************************)
\* Seven bits and an extension bit share an octet.
LEMMA ExtensionBit ==
    ASSUME NEW bits \in 0 .. 127
    PROVE  /\ 2 * bits \in Octet /\ (2 * bits) % 2 = 0 /\ (2 * bits) \div 2 = bits
           /\ 2 * bits + 1 \in Octet /\ (2 * bits + 1) % 2 = 1 /\ (2 * bits + 1) \div 2 = bits
BY SMT DEF Octet

\* A value is made of its groups of seven bits.
LEMMA GroupsOfSeven ==
    ASSUME NEW raw \in Nat
    PROVE  /\ \A group \in 0 .. 3 : SevenBits(raw, group) \in 0 .. 127
           /\ raw <= MaximumRawValue(1) => raw = SevenBits(raw, 0)
           /\ raw <= MaximumRawValue(2) => raw = SevenBits(raw, 1) * 128 + SevenBits(raw, 0)
           /\ raw <= MaximumRawValue(4) =>
                 raw = SevenBits(raw, 3) * 2097152 + SevenBits(raw, 2) * 16384
                       + SevenBits(raw, 1) * 128 + SevenBits(raw, 0)
<1>1. /\ SevenBits(raw, 0) = (raw \div 1) % 128
      /\ SevenBits(raw, 1) = (raw \div 128) % 128
      /\ SevenBits(raw, 2) = (raw \div 16384) % 128
      /\ SevenBits(raw, 3) = (raw \div 2097152) % 128
  BY SMT DEF SevenBits, Weight
<1>2. /\ MaximumRawValue(1) = 127
      /\ MaximumRawValue(2) = 16383
      /\ MaximumRawValue(4) = 268435455
  BY SMT DEF MaximumRawValue, Weight
<1>3. \A group \in 0 .. 3 : SevenBits(raw, group) \in 0 .. 127
  BY <1>1, SMT
<1>4. raw <= MaximumRawValue(1) => raw = SevenBits(raw, 0)
  BY <1>1, <1>2, SMT
<1>5. raw <= MaximumRawValue(2) => raw = SevenBits(raw, 1) * 128 + SevenBits(raw, 0)
  BY <1>1, <1>2, SMT
<1>6. raw <= MaximumRawValue(4) =>
         raw = SevenBits(raw, 3) * 2097152 + SevenBits(raw, 2) * 16384
               + SevenBits(raw, 1) * 128 + SevenBits(raw, 0)
  <2>1. ASSUME raw < 268435456
        PROVE  raw = ((raw \div 2097152) % 128) * 2097152 + ((raw \div 16384) % 128) * 16384
                     + ((raw \div 128) % 128) * 128 + ((raw \div 1) % 128)
    BY <2>1, SMT
  <2>2. raw <= MaximumRawValue(4) => raw < 268435456
    BY <1>2, SMT
  <2>3. raw < 268435456 =>
           raw = SevenBits(raw, 3) * 2097152 + SevenBits(raw, 2) * 16384
                 + SevenBits(raw, 1) * 128 + SevenBits(raw, 0)
    BY <1>1, <2>1, SMT
  <2> QED
    BY <2>2, <2>3, SMT
<1> QED
  BY <1>3, <1>4, <1>5, <1>6, SMT

\* The octets of an address: all but the last are even.
LEMMA EncodedAddress ==
    ASSUME NEW a \in HdlcAddress
    PROVE  /\ a.size \in {1, 2, 4} /\ EncodeAddress(a) \in Seq(Octet)
           /\ Len(EncodeAddress(a)) = a.size
           /\ \A i \in 1 .. a.size :
                 /\ EncodeAddress(a)[i] % 2 = (IF i = a.size THEN 1 ELSE 0)
                 /\ EncodeAddress(a)[i] \div 2 = SevenBits(a.raw, a.size - i)
<1>1. a.size \in {1, 2, 4} /\ a.raw \in Nat
  BY DEF HdlcAddress, SupportedEncodedSize
<1>2. \A i \in 1 .. a.size : a.size - i \in 0 .. 3
  BY <1>1, SMT
<1>3. ASSUME NEW i \in 1 .. a.size
      PROVE  /\ EncodeAddress(a)[i] \in Octet
             /\ EncodeAddress(a)[i] % 2 = (IF i = a.size THEN 1 ELSE 0)
             /\ EncodeAddress(a)[i] \div 2 = SevenBits(a.raw, a.size - i)
  <2> DEFINE bits == SevenBits(a.raw, a.size - i)
  <2>1. bits \in 0 .. 127
    BY <1>1, <1>2, GroupsOfSeven
  <2>2. EncodeAddress(a)[i] = 2 * bits + (IF i = a.size THEN 1 ELSE 0)
    BY SMT DEF EncodeAddress
  <2> HIDE DEF bits
  <2>3. CASE i = a.size
    BY <2>1, <2>2, <2>3, ExtensionBit, SMT DEF bits
  <2>4. CASE i # a.size
    <3>1. EncodeAddress(a)[i] = 2 * bits
      BY <2>1, <2>2, <2>4, SMT
    <3> QED
      BY <2>1, <2>4, <3>1, ExtensionBit, SMT DEF bits
  <2> QED
    BY <2>3, <2>4
<1>4. EncodeAddress(a) \in [1 .. a.size -> Octet]
  <2>1. EncodeAddress(a) = [i \in 1 .. a.size |-> EncodeAddress(a)[i]]
    BY DEF EncodeAddress
  <2> QED
    BY <1>3, <2>1
<1>5. EncodeAddress(a) \in Seq(Octet) /\ Len(EncodeAddress(a)) = a.size
  BY <1>1, <1>4, SMT
<1> QED
  BY <1>1, <1>3, <1>5

\* An address is read back from octets that begin with its own.
LEMMA AddressRead ==
    ASSUME NEW a \in HdlcAddress, NEW S, NEW q \in Seq(S), a.size <= Len(q),
           \A i \in 1 .. a.size : q[i] = EncodeAddress(a)[i]
    PROVE  AddressFromBytes(q) = [status |-> "Ok", address |-> a]
<1> DEFINE ends == {i \in DOMAIN q : i <= 4 /\ q[i] % 2 = 1}
<1>1. /\ a.size \in {1, 2, 4}
      /\ \A i \in 1 .. a.size : /\ q[i] % 2 = (IF i = a.size THEN 1 ELSE 0)
                                /\ q[i] \div 2 = SevenBits(a.raw, a.size - i)
  BY EncodedAddress
<1>2. DOMAIN q = 1 .. Len(q) /\ Len(q) \in Nat
  OBVIOUS
<1>3. a.size \in ends /\ \A m \in ends : m \in Nat /\ a.size <= m
  BY <1>1, <1>2, SMT
<1> HIDE DEF ends
<1>4. Least(ends) = a.size
  <2>1. ASSUME NEW n \in ends, \A m \in ends : n <= m
        PROVE  n = a.size
    BY <1>1, <1>3, <2>1, SMT
  <2>2. PICK n \in ends : n = Least(ends) /\ \A m \in ends : n <= m
    BY <1>3 DEF Least
  <2> QED
    BY <2>1, <2>2
<1>5. a.raw \in Nat /\ a = [raw |-> a.raw, size |-> a.size] /\ a.raw <= MaximumRawValue(a.size)
  BY DEF HdlcAddress
<1>6. RawValue(q, a.size) = a.raw
  <2>1. CASE a.size = 1
    BY <1>1, <1>5, <2>1, GroupsOfSeven, SMT DEF RawValue
  <2>2. CASE a.size = 2
    BY <1>1, <1>5, <2>2, GroupsOfSeven, SMT DEF RawValue
  <2>3. CASE a.size = 4
    BY <1>1, <1>5, <2>3, GroupsOfSeven, SMT DEF RawValue
  <2> QED
    BY <1>1, <2>1, <2>2, <2>3
<1>7. ends # {} /\ a.size \in SupportedEncodedSize
  BY <1>1, <1>3 DEF SupportedEncodedSize
<1> QED
  BY <1>4, <1>5, <1>6, <1>7 DEF AddressFromBytes, ends

-----------------------------------------------------------------------------
(***************************************************************************)
(* The layout of a frame.                                                  *)
(***************************************************************************)
\* Sequences put together, and taken apart.
LEMMA Joined ==
    ASSUME NEW S, NEW p \in Seq(S), NEW q \in Seq(S)
    PROVE  /\ p \o q \in Seq(S) /\ Len(p \o q) = Len(p) + Len(q)
           /\ \A i \in 1 .. Len(p) : (p \o q)[i] = p[i]
           /\ \A i \in 1 .. Len(q) : (p \o q)[Len(p) + i] = q[i]
BY SMT

LEMMA Stretch ==
    ASSUME NEW S, NEW q \in Seq(S), NEW lo \in Nat \ {0}, NEW hi \in Nat, hi <= Len(q), lo <= hi + 1
    PROVE  /\ SubSeq(q, lo, hi) \in Seq(S) /\ Len(SubSeq(q, lo, hi)) = hi - lo + 1
           /\ \A i \in 1 .. hi - lo + 1 : SubSeq(q, lo, hi)[i] = q[lo + i - 1]
BY SMT

LEMMA SameSequence ==
    ASSUME NEW S, NEW p \in Seq(S), NEW q \in Seq(S), Len(p) = Len(q),
           \A i \in 1 .. Len(p) : p[i] = q[i]
    PROVE  p = q
BY SMT

\* The part of q that repeats p.
LEMMA Repeats ==
    ASSUME NEW S, NEW p \in Seq(S), NEW q \in Seq(S), NEW skip \in Nat,
           skip + Len(p) <= Len(q), \A i \in 1 .. Len(p) : q[skip + i] = p[i]
    PROVE  SubSeq(q, skip + 1, skip + Len(p)) = p
<1>1. skip + 1 \in Nat \ {0} /\ skip + Len(p) \in Nat /\ Len(p) \in Nat
  BY SMT
<1> DEFINE part == SubSeq(q, skip + 1, skip + Len(p))
<1>2. /\ part \in Seq(S) /\ Len(part) = skip + Len(p) - (skip + 1) + 1
      /\ \A i \in 1 .. skip + Len(p) - (skip + 1) + 1 : part[i] = q[skip + 1 + i - 1]
  BY <1>1, Stretch, SMT
<1> HIDE DEF part
<1>3. Len(part) = Len(p) /\ \A i \in 1 .. Len(p) : part[i] = p[i]
  BY <1>1, <1>2, SMT
<1> QED
  BY <1>2, <1>3, SameSequence DEF part

\* Between two flags, a body and its check sequence.
Enclosed(q, S, flag, body, check) ==
    LET n == Len(body)
        m == Len(check)
    IN  /\ q \in Seq(S) /\ Len(q) = n + m + 2 /\ q[1] = flag /\ q[n + m + 2] = flag
        /\ \A i \in 1 .. n : q[1 + i] = body[i]
        /\ SubSeq(q, 2, n + 1) = body /\ SubSeq(q, n + 2, n + m + 1) = check

LEMMA BetweenFlags ==
    ASSUME NEW S, NEW flag \in S, NEW body \in Seq(S), NEW check \in Seq(S)
    PROVE  Enclosed(<<flag>> \o body \o check \o <<flag>>, S, flag, body, check)
<1> DEFINE n == Len(body)
           m == Len(check)
           p0 == <<flag>>
           p1 == p0 \o body
           p2 == p1 \o check
           q == p2 \o p0
<1>0. p0 \in Seq(S) /\ Len(p0) = 1 /\ p0[1] = flag /\ n \in Nat /\ m \in Nat
  BY SMT
<1> HIDE DEF p0
<1>1. /\ p1 \in Seq(S) /\ Len(p1) = Len(p0) + Len(body)
      /\ \A i \in 1 .. Len(p0) : p1[i] = p0[i]
      /\ \A i \in 1 .. Len(body) : p1[Len(p0) + i] = body[i]
  <2>1. p0 \in Seq(S)
    BY <1>0
  <2> QED
    BY <2>1, Joined
<1> HIDE DEF p1
<1>2. /\ p2 \in Seq(S) /\ Len(p2) = Len(p1) + Len(check)
      /\ \A i \in 1 .. Len(p1) : p2[i] = p1[i]
      /\ \A i \in 1 .. Len(check) : p2[Len(p1) + i] = check[i]
  <2>1. p1 \in Seq(S)
    BY <1>1
  <2> QED
    BY <2>1, Joined
<1> HIDE DEF p2
<1>3. /\ q \in Seq(S) /\ Len(q) = Len(p2) + Len(p0)
      /\ \A i \in 1 .. Len(p2) : q[i] = p2[i]
      /\ \A i \in 1 .. Len(p0) : q[Len(p2) + i] = p0[i]
  <2>1. p2 \in Seq(S) /\ p0 \in Seq(S)
    BY <1>0, <1>2
  <2> QED
    BY <2>1, Joined
<1>4. q = <<flag>> \o body \o check \o <<flag>>
  BY DEF q, p2, p1, p0
<1> HIDE DEF q
<1>5. Len(p1) = 1 + n /\ Len(p2) = 1 + n + m /\ Len(q) = n + m + 2
  BY <1>0, <1>1, <1>2, <1>3, SMT
<1>6. q[1] = flag
  <2>1. 1 \in 1 .. Len(p0) /\ 1 \in 1 .. Len(p1) /\ 1 \in 1 .. Len(p2)
    BY <1>0, <1>5, SMT
  <2> QED
    BY <1>0, <1>1, <1>2, <1>3, <2>1
<1>7. q[n + m + 2] = flag
  <2>1. 1 \in 1 .. Len(p0) /\ Len(p2) + 1 = n + m + 2
    BY <1>0, <1>5, SMT
  <2> QED
    BY <1>0, <1>3, <2>1
<1>8. ASSUME NEW i \in 1 .. n
      PROVE  q[1 + i] = body[i]
  <2>1. 1 + i \in 1 .. Len(p1) /\ 1 + i \in 1 .. Len(p2)
    BY <1>0, <1>5, SMT
  <2>2. p1[1 + i] = body[i]
    BY <1>0, <1>1
  <2> QED
    BY <1>2, <1>3, <2>1, <2>2
<1>9. ASSUME NEW i \in 1 .. m
      PROVE  q[n + 1 + i] = check[i]
  <2>1. n + 1 + i = Len(p1) + i /\ Len(p1) + i \in 1 .. Len(p2)
    BY <1>0, <1>5, SMT
  <2>2. p2[Len(p1) + i] = check[i]
    BY <1>2
  <2> QED
    BY <1>3, <2>1, <2>2
<1>10. SubSeq(q, 2, n + 1) = body
  <2>1. 1 + Len(body) <= Len(q) /\ 1 \in Nat /\ 1 + 1 = 2 /\ 1 + Len(body) = n + 1
    BY <1>0, <1>5, SMT
  <2>2. SubSeq(q, 1 + 1, 1 + Len(body)) = body
    BY <1>3, <1>8, <2>1, Repeats
  <2> QED
    BY <2>1, <2>2
<1>11. SubSeq(q, n + 2, n + m + 1) = check
  <2>1. /\ n + 1 + Len(check) <= Len(q) /\ n + 1 \in Nat
        /\ n + 1 + 1 = n + 2 /\ n + 1 + Len(check) = n + m + 1
    BY <1>0, <1>5, SMT
  <2>2. SubSeq(q, n + 1 + 1, n + 1 + Len(check)) = check
    BY <1>3, <1>9, <2>1, Repeats
  <2> QED
    BY <2>1, <2>2
<1> QED
  BY <1>3, <1>4, <1>5, <1>6, <1>7, <1>8, <1>10, <1>11 DEF n, m, Enclosed

-----------------------------------------------------------------------------
(***************************************************************************)
(* What EncodeFrameToBuffer writes.                                        *)
(***************************************************************************)
ValidFrame == {f \in HdlcFrame : SupportedControl(f.control)}

CodecLimits == [maximumFrameSize : Nat, maximumInformationFieldSize : Nat]

Size(f) == EncodedLength(HeaderLength(f), Len(f.information))

\* The sizes are numbers, and a frame without information has no HCS.
LEMMA FrameSizes ==
    ASSUME NEW f \in ValidFrame
    PROVE  /\ f.destination.size \in {1, 2, 4} /\ f.source.size \in {1, 2, 4}
           /\ f.information \in Seq(Octet) /\ Len(f.information) \in Nat
           /\ HeaderLength(f) = f.destination.size + f.source.size + 3
           /\ f.information = <<>> <=> Len(f.information) = 0
           /\ f.information = <<>> => Size(f) = HeaderLength(f) + 2
           /\ f.information # <<>> => Size(f) = HeaderLength(f) + Len(f.information) + 4
           /\ Size(f) \in Nat /\ 7 <= Size(f)
<1>1. f.destination.size \in {1, 2, 4} /\ f.source.size \in {1, 2, 4} /\ f.information \in Seq(Octet)
  BY DEF ValidFrame, HdlcFrame, HdlcAddress, SupportedEncodedSize
<1>2. Len(f.information) \in Nat /\ (f.information = <<>> <=> Len(f.information) = 0)
  BY <1>1, SMT
<1>3. HeaderLength(f) = f.destination.size + f.source.size + 3
  BY <1>1, SMT DEF HeaderLength
<1> DEFINE h == HeaderLength(f)
           n == Len(f.information)
<1>4. h \in Nat /\ 5 <= h
  BY <1>1, <1>3, SMT
<1>5. Size(f) = h + (IF n = 0 THEN 0 ELSE 2) + n + 2
  BY DEF Size, EncodedLength
<1> HIDE DEF h, n
<1>6. /\ n = 0 => Size(f) = h + 2
      /\ n # 0 => Size(f) = h + n + 4
      /\ Size(f) \in Nat /\ 7 <= Size(f)
  <2>1. n \in Nat
    BY <1>2 DEF n
  <2> QED
    BY <1>4, <1>5, <2>1, SMT
<1> QED
  BY <1>1, <1>2, <1>3, <1>6 DEF h, n

\* A successful encoding is within the limits and the buffer.
LEMMA EncodedWithinLimits ==
    ASSUME NEW f \in ValidFrame, NEW limits \in CodecLimits, NEW room \in Nat,
           EncodeFrameToBuffer(f, limits, room).status = "Ok"
    PROVE  /\ Len(f.information)
                 <= EffectiveMaximumInformationFieldSize(HeaderLength(f), limits)
           /\ Size(f) <= 2047
           /\ Size(f) + 2 <= EffectiveMaximumFrameSize(limits)
           /\ Size(f) + 2 <= room
           /\ EffectiveMaximumFrameSize(limits) \in Nat
           /\ EffectiveMaximumInformationFieldSize(HeaderLength(f), limits) \in Nat
<1> DEFINE status == EncodeStatus(HeaderLength(f), Len(f.information), limits, room)
<1>1. status = "Ok"
  <2>1. status # "Ok" => EncodeFrameToBuffer(f, limits, room) = Failure(status)
    BY DEF EncodeFrameToBuffer
  <2> QED
    BY <2>1 DEF Failure
<1>2. /\ EffectiveMaximumFrameSize(limits) \in Nat
      /\ EffectiveMaximumInformationFieldSize(HeaderLength(f), limits) \in Nat
  <2> DEFINE h == HeaderLength(f)
  <2>1. h \in Nat /\ limits.maximumFrameSize \in Nat /\ limits.maximumInformationFieldSize \in Nat
    <3>1. f.destination.size \in Nat /\ f.source.size \in Nat
      BY FrameSizes
    <3> QED
      BY <3>1, FrameSizes DEF CodecLimits
  <2> HIDE DEF h
  <2>2. EffectiveMaximumFrameSize(limits) \in Nat
    BY <2>1, SMT DEF EffectiveMaximumFrameSize, OrDefault
  <2>3. EffectiveMaximumInformationFieldSize(h, limits) \in Nat
    BY <2>1, <2>2, SMT DEF EffectiveMaximumInformationFieldSize
  <2> QED
    BY <2>2, <2>3 DEF h
<1>3. /\ ~(Len(f.information) > EffectiveMaximumInformationFieldSize(HeaderLength(f), limits))
      /\ ~(Size(f) > MaximumFormatFieldLength)
      /\ ~(Size(f) + 2 > EffectiveMaximumFrameSize(limits))
      /\ ~(room < Size(f) + 2)
  BY <1>1 DEF EncodeStatus, Size
<1> QED
  BY <1>2, <1>3, FrameSizes, SMT DEF MaximumFormatFieldLength

\* Two octets make a number, and the format field is one.
LEMMA TwoOctets ==
    ASSUME NEW field \in Nat, field <= 65535
    PROVE  /\ (field \div 256) % 256 \in Nat /\ (field \div 256) % 256 <= 255
           /\ field % 256 \in Nat /\ field % 256 <= 255
           /\ ((field \div 256) % 256) * 256 + (field % 256) = field
<1>1. /\ (field \div 256) % 256 \in Nat /\ (field \div 256) % 256 <= 255
      /\ field % 256 \in Nat /\ field % 256 <= 255
  BY SMT
<1>2. ((field \div 256) % 256) * 256 + (field % 256) = field
  BY SMT
<1> QED
  BY <1>1, <1>2

LEMMA FormatParts ==
    ASSUME NEW size \in Nat, size <= 2047, NEW bit \in {0, 2048}
    PROVE  LET field == 40960 + bit + size
           IN  /\ field \in Nat /\ field <= 65535
               /\ field \div 4096 = 10
               /\ (field \div 2048) % 2 = (IF bit = 0 THEN 0 ELSE 1)
               /\ field % 2048 = size
<1> DEFINE field == 40960 + bit + size
<1>1. field \in Nat /\ field <= 65535
  BY SMT
<1>2. field \div 4096 = 10
  BY SMT
<1>3. (field \div 2048) % 2 = (IF bit = 0 THEN 0 ELSE 1)
  BY SMT
<1>4. field % 2048 = size
  BY SMT
<1> HIDE DEF field
<1> QED
  BY <1>1, <1>2, <1>3, <1>4 DEF field

\* The format field: type 3, the segmentation bit and the length.
LEMMA FormatRead ==
    ASSUME NEW f \in ValidFrame, Size(f) <= 2047
    PROVE  LET high == HighByte(FormatField(f))
               low == LowByte(FormatField(f))
               format == high * 256 + low
           IN  /\ high \in Octet /\ low \in Octet
               /\ format \div 4096 = 10
               /\ ((format \div 2048) % 2 = 1) = f.segmented
               /\ format % 2048 = Size(f)
<1> DEFINE bit == IF f.segmented THEN 2048 ELSE 0
           field == 40960 + bit + Size(f)
<1>1. f.segmented \in BOOLEAN /\ Size(f) \in Nat
  BY FrameSizes DEF ValidFrame, HdlcFrame
<1>2. bit \in {0, 2048} /\ ((IF bit = 0 THEN 0 ELSE 1) = 1) = f.segmented
  BY <1>1, SMT
<1>3. FormatField(f) = field
  BY DEF FormatField, Size
<1> HIDE DEF bit
<1>4. /\ field \in Nat /\ field <= 65535
      /\ field \div 4096 = 10
      /\ (field \div 2048) % 2 = (IF bit = 0 THEN 0 ELSE 1)
      /\ field % 2048 = Size(f)
  BY <1>1, <1>2, FormatParts
<1> HIDE DEF field
<1> DEFINE high == (field \div 256) % 256
           low == field % 256
<1>5. /\ high \in Nat /\ high <= 255 /\ low \in Nat /\ low <= 255
      /\ high * 256 + low = field
  BY <1>4, TwoOctets
<1>6. HighByte(FormatField(f)) = high /\ LowByte(FormatField(f)) = low
  BY <1>3 DEF HighByte, LowByte
<1> HIDE DEF high, low
<1>7. high \in Octet /\ low \in Octet
  BY <1>5, SMT DEF Octet
<1> QED
  BY <1>2, <1>4, <1>5, <1>6, <1>7

\* Where the parts of the header are.
LEMMA HeaderLayout ==
    ASSUME NEW f \in ValidFrame, Size(f) <= 2047
    PROVE  LET header == FrameHeader(f)
           IN  /\ header \in Seq(Octet) /\ Len(header) = HeaderLength(f)
               /\ header[1] = HighByte(FormatField(f)) /\ header[2] = LowByte(FormatField(f))
               /\ \A i \in 1 .. f.destination.size :
                     header[2 + i] = EncodeAddress(f.destination)[i]
               /\ \A i \in 1 .. f.source.size :
                     header[2 + f.destination.size + i] = EncodeAddress(f.source)[i]
               /\ header[HeaderLength(f)] = f.control
<1> DEFINE high == HighByte(FormatField(f))
           low == LowByte(FormatField(f))
           d == EncodeAddress(f.destination)
           s == EncodeAddress(f.source)
           p0 == <<high, low>>
           p1 == p0 \o d
           p2 == p1 \o s
           tail == <<f.control>>
           header == p2 \o tail
<1>1. /\ d \in Seq(Octet) /\ Len(d) = f.destination.size
      /\ s \in Seq(Octet) /\ Len(s) = f.source.size
      /\ f.control \in Octet
      /\ f.destination.size \in Nat /\ f.source.size \in Nat
      /\ HeaderLength(f) = f.destination.size + f.source.size + 3
  <2>1. f.destination \in HdlcAddress /\ f.source \in HdlcAddress /\ f.control \in Octet
    BY DEF ValidFrame, HdlcFrame
  <2> QED
    BY <2>1, EncodedAddress, FrameSizes, SMT
<1> HIDE DEF d, s
<1>2. p0 \in Seq(Octet) /\ Len(p0) = 2 /\ p0[1] = high /\ p0[2] = low
  <2>1. high \in Octet /\ low \in Octet
    BY FormatRead
  <2> HIDE DEF high, low
  <2> QED
    BY <2>1, SMT
<1>3. tail \in Seq(Octet) /\ Len(tail) = 1 /\ tail[1] = f.control
  BY <1>1, SMT
<1> HIDE DEF p0, tail
<1>4. /\ p1 \in Seq(Octet) /\ Len(p1) = Len(p0) + Len(d)
      /\ \A i \in 1 .. Len(p0) : p1[i] = p0[i]
      /\ \A i \in 1 .. Len(d) : p1[Len(p0) + i] = d[i]
  <2>1. p0 \in Seq(Octet) /\ d \in Seq(Octet)
    BY <1>1, <1>2
  <2> QED
    BY <2>1, Joined
<1> HIDE DEF p1
<1>5. /\ p2 \in Seq(Octet) /\ Len(p2) = Len(p1) + Len(s)
      /\ \A i \in 1 .. Len(p1) : p2[i] = p1[i]
      /\ \A i \in 1 .. Len(s) : p2[Len(p1) + i] = s[i]
  <2>1. p1 \in Seq(Octet) /\ s \in Seq(Octet)
    BY <1>1, <1>4
  <2> QED
    BY <2>1, Joined
<1> HIDE DEF p2
<1>6. /\ header \in Seq(Octet) /\ Len(header) = Len(p2) + Len(tail)
      /\ \A i \in 1 .. Len(p2) : header[i] = p2[i]
      /\ \A i \in 1 .. Len(tail) : header[Len(p2) + i] = tail[i]
  <2>1. p2 \in Seq(Octet) /\ tail \in Seq(Octet)
    BY <1>3, <1>5
  <2> QED
    BY <2>1, Joined
<1>7. FrameHeader(f) = header
  BY DEF FrameHeader, header, p2, p1, p0, tail, d, s
<1> HIDE DEF header
<1> DEFINE ds == f.destination.size
           ss == f.source.size
<1>8. /\ ds \in Nat /\ ss \in Nat
      /\ Len(p1) = 2 + ds /\ Len(p2) = 2 + ds + ss /\ HeaderLength(f) = 2 + ds + ss + 1
  <2>1. /\ ds \in Nat /\ ss \in Nat /\ Len(d) = ds /\ Len(s) = ss
        /\ HeaderLength(f) = ds + ss + 3
    BY <1>1
  <2> HIDE DEF ds, ss
  <2> QED
    BY <1>2, <1>4, <1>5, <2>1, SMT
<1> HIDE DEF ds, ss
<1>9. Len(header) = HeaderLength(f) /\ header[HeaderLength(f)] = f.control
  <2>1. 1 \in 1 .. Len(tail)
    BY <1>3, SMT
  <2> QED
    BY <1>3, <1>6, <1>8, <2>1
<1>10. \A i \in 1 .. 2 : header[i] = p0[i]
  <2>1. \A i \in 1 .. 2 : i \in 1 .. Len(p0) /\ i \in 1 .. Len(p1) /\ i \in 1 .. Len(p2)
    BY <1>2, <1>8, SMT
  <2> QED
    BY <1>4, <1>5, <1>6, <2>1
<1>11. ASSUME NEW i \in 1 .. ds
       PROVE  header[2 + i] = d[i]
  <2>1. 2 + i \in 1 .. Len(p1) /\ 2 + i \in 1 .. Len(p2)
    BY <1>8, SMT
  <2>2. i \in 1 .. Len(d) /\ Len(p0) = 2
    BY <1>1, <1>2 DEF ds
  <2> QED
    BY <1>4, <1>5, <1>6, <2>1, <2>2
<1>12. ASSUME NEW i \in 1 .. ss
       PROVE  header[2 + ds + i] = s[i]
  <2>1. 2 + ds + i \in 1 .. Len(p2)
    BY <1>8, SMT
  <2>2. i \in 1 .. Len(s) /\ Len(p1) = 2 + ds
    BY <1>1, <1>8 DEF ss
  <2> QED
    BY <1>5, <1>6, <2>1, <2>2
<1>13. header[1] = high /\ header[2] = low
  BY <1>2, <1>10, SMT
<1> QED
  BY <1>6, <1>7, <1>9, <1>11, <1>12, <1>13 DEF d, s, ds, ss

\* A check sequence is two symbols, whatever the CRC of the octets is.
LEMMA CheckSequence ==
    ASSUME NEW value, NEW S, LowByte(value) \in S, HighByte(value) \in S
    PROVE  LowByteFirst(value) \in Seq(S) /\ Len(LowByteFirst(value)) = 2
<1> DEFINE low == LowByte(value)
           high == HighByte(value)
<1>1. LowByteFirst(value) = <<low, high>>
  BY DEF LowByteFirst
<1> HIDE DEF low, high
<1> QED
  BY <1>1, SMT DEF low, high

\* Where the parts of the body are.
LEMMA BodyLayout ==
    ASSUME NEW f \in ValidFrame, Size(f) <= 2047, NEW S, Octet \subseteq S,
           LowByteFirst(CalculateHdlcCrc(FrameHeader(f))) \in Seq(S),
           Len(LowByteFirst(CalculateHdlcCrc(FrameHeader(f)))) = 2
    PROVE  LET body == FrameBody(f)
               n == HeaderLength(f)
           IN  /\ body \in Seq(S) /\ Len(body) = Size(f) - 2
               /\ \A i \in 1 .. n : body[i] = FrameHeader(f)[i]
               /\ f.information # <<>> =>
                     /\ \A i \in 1 .. 2 :
                           body[n + i] = LowByteFirst(CalculateHdlcCrc(FrameHeader(f)))[i]
                     /\ \A i \in 1 .. Len(f.information) : body[n + 2 + i] = f.information[i]
<1> DEFINE header == FrameHeader(f)
           hcs == LowByteFirst(CalculateHdlcCrc(header))
           info == f.information
           p1 == header \o hcs
           long == p1 \o info
           n == HeaderLength(f)
<1>1. header \in Seq(S) /\ hcs \in Seq(S) /\ info \in Seq(S)
  <2>1. header \in Seq(Octet) /\ info \in Seq(Octet)
    BY HeaderLayout, FrameSizes
  <2> HIDE DEF header, info
  <2>2. header \in Seq(S) /\ info \in Seq(S)
    BY <2>1, SMT
  <2> QED
    BY <2>2 DEF header
<1>2. /\ Len(header) = n /\ Len(hcs) = 2 /\ n \in Nat /\ Len(info) \in Nat
      /\ info = <<>> => Size(f) = n + 2
      /\ info # <<>> => Size(f) = n + Len(info) + 4
  <2>1. Len(header) = n /\ Len(hcs) = 2
    BY HeaderLayout
  <2>2. n \in Nat
    <3>1. Len(header) \in Nat
      BY <1>1, SMT
    <3> QED
      BY <2>1, <3>1
  <2> QED
    BY <2>1, <2>2, FrameSizes
<1>3. FrameBody(f) = IF info = <<>> THEN header ELSE long
  BY DEF FrameBody
<1> HIDE DEF header, hcs, info, n
<1>4. /\ p1 \in Seq(S) /\ Len(p1) = Len(header) + Len(hcs)
      /\ \A i \in 1 .. Len(header) : p1[i] = header[i]
      /\ \A i \in 1 .. Len(hcs) : p1[Len(header) + i] = hcs[i]
  BY <1>1, Joined
<1> HIDE DEF p1
<1>5. /\ long \in Seq(S) /\ Len(long) = Len(p1) + Len(info)
      /\ \A i \in 1 .. Len(p1) : long[i] = p1[i]
      /\ \A i \in 1 .. Len(info) : long[Len(p1) + i] = info[i]
  <2>1. p1 \in Seq(S) /\ info \in Seq(S)
    BY <1>1, <1>4
  <2> QED
    BY <2>1, Joined
<1> HIDE DEF long
<1>6. CASE info = <<>>
  <2>1. FrameBody(f) = header
    BY <1>3, <1>6
  <2>2. Len(header) = Size(f) - 2
    BY <1>2, <1>6, SMT
  <2> QED
    BY <1>1, <1>6, <2>1, <2>2 DEF header, info, n
<1>7. CASE info # <<>>
  <2>1. FrameBody(f) = long
    BY <1>3, <1>7
  <2>2. Len(p1) = n + 2 /\ Len(long) = Size(f) - 2
    BY <1>2, <1>4, <1>5, <1>7, SMT
  <2>3. ASSUME NEW i \in 1 .. n
        PROVE  long[i] = header[i]
    <3>1. i \in 1 .. Len(p1) /\ i \in 1 .. Len(header)
      BY <1>2, <2>2, SMT
    <3> QED
      BY <1>4, <1>5, <3>1
  <2>4. ASSUME NEW i \in 1 .. 2
        PROVE  long[n + i] = hcs[i]
    <3>1. n + i \in 1 .. Len(p1) /\ i \in 1 .. Len(hcs)
      BY <1>2, <2>2, SMT
    <3> QED
      BY <1>2, <1>4, <1>5, <3>1
  <2>5. \A i \in 1 .. Len(info) : long[n + 2 + i] = info[i]
    BY <1>5, <2>2
  <2> QED
    BY <1>5, <2>1, <2>2, <2>3, <2>4, <2>5 DEF header, hcs, info, n
<1> QED
  BY <1>6, <1>7

\* Where everything is in the octets that EncodeFrameToBuffer writes.
LEMMA FrameLayout ==
    ASSUME NEW f \in ValidFrame, NEW limits \in CodecLimits, NEW room \in Nat,
           EncodeFrameToBuffer(f, limits, room).status = "Ok"
    PROVE  LET q == EncodeFrameToBuffer(f, limits, room).octets
               header == FrameHeader(f)
               body == FrameBody(f)
               n == HeaderLength(f)
           IN  \E S :
               /\ q \in Seq(S) /\ Len(q) = Size(f) + 2
               /\ q[1] = Flag /\ q[Len(q)] = Flag
               /\ \A i \in 1 .. n : q[1 + i] = header[i]
               /\ SubSeq(q, 2, n + 1) = header
               /\ SubSeq(q, 2, Len(q) - 3) = body
               /\ SubSeq(q, Len(q) - 2, Len(q) - 1) = LowByteFirst(CalculateHdlcCrc(body))
               /\ f.information # <<>> =>
                     SubSeq(q, n + 2, n + 3) = LowByteFirst(CalculateHdlcCrc(header))
               /\ SubSeq(q, n + 4, Len(q) - 3) = f.information
<1> DEFINE header == FrameHeader(f)
           body == FrameBody(f)
           info == f.information
           hc == CalculateHdlcCrc(header)
           fc == CalculateHdlcCrc(body)
           hcs == LowByteFirst(hc)
           fcs == LowByteFirst(fc)
           S == Octet \cup {LowByte(hc), HighByte(hc), LowByte(fc), HighByte(fc)}
           q == EncodeFrameToBuffer(f, limits, room).octets
           n == HeaderLength(f)
           b == Len(body)
<1>1. q = <<Flag>> \o body \o fcs \o <<Flag>>
  BY DEF EncodeFrameToBuffer, Failure
<1>2. /\ Size(f) <= 2047 /\ Size(f) \in Nat
      /\ info = <<>> <=> Len(info) = 0
      /\ info = <<>> => Size(f) = n + 2
      /\ info # <<>> => Size(f) = n + Len(info) + 4
      /\ Len(info) \in Nat
  BY EncodedWithinLimits, FrameSizes
<1>3. /\ hcs \in Seq(S) /\ Len(hcs) = 2 /\ fcs \in Seq(S) /\ Len(fcs) = 2
      /\ Octet \subseteq S
  <2> HIDE DEF hc, fc
  <2>1. /\ LowByte(hc) \in S /\ HighByte(hc) \in S /\ LowByte(fc) \in S /\ HighByte(fc) \in S
        /\ Octet \subseteq S
    OBVIOUS
  <2> HIDE DEF S
  <2> QED
    BY <2>1, CheckSequence
<1>4. Flag \in S
  <2>1. Flag \in Octet
    BY SMT DEF Flag, Octet
  <2> QED
    BY <1>3, <2>1
<1>5. /\ header \in Seq(Octet) /\ Len(header) = n /\ info \in Seq(Octet)
  BY <1>2, HeaderLayout, FrameSizes
<1> HIDE DEF S
<1>6. /\ body \in Seq(S) /\ b = Size(f) - 2
      /\ \A i \in 1 .. n : body[i] = header[i]
      /\ info # <<>> =>
            /\ \A i \in 1 .. 2 : body[n + i] = hcs[i]
            /\ \A i \in 1 .. Len(info) : body[n + 2 + i] = info[i]
  <2>1. Size(f) <= 2047 /\ Octet \subseteq S /\ hcs \in Seq(S) /\ Len(hcs) = 2
    BY <1>2, <1>3
  <2>2. /\ body \in Seq(S) /\ Len(body) = Size(f) - 2
        /\ \A i \in 1 .. n : body[i] = header[i]
        /\ info # <<>> =>
              /\ \A i \in 1 .. 2 : body[n + i] = hcs[i]
              /\ \A i \in 1 .. Len(info) : body[n + 2 + i] = info[i]
    BY <2>1, BodyLayout
  <2> QED
    BY <2>2
<1> HIDE DEF header, body, info, hc, fc, hcs, fcs, q, n
<1>7. /\ q \in Seq(S) /\ Len(q) = b + 4 /\ q[1] = Flag /\ q[b + 4] = Flag
      /\ \A i \in 1 .. b : q[1 + i] = body[i]
      /\ SubSeq(q, 2, b + 1) = body /\ SubSeq(q, b + 2, b + 3) = fcs
  <2> DEFINE w == <<Flag>> \o body \o fcs \o <<Flag>>
  <2>1. Flag \in S /\ body \in Seq(S) /\ fcs \in Seq(S)
    BY <1>3, <1>4, <1>6
  <2>2. /\ w \in Seq(S) /\ Len(w) = Len(body) + Len(fcs) + 2
        /\ w[1] = Flag /\ w[Len(body) + Len(fcs) + 2] = Flag
        /\ \A i \in 1 .. Len(body) : w[1 + i] = body[i]
        /\ SubSeq(w, 2, Len(body) + 1) = body
        /\ SubSeq(w, Len(body) + 2, Len(body) + Len(fcs) + 1) = fcs
    <3>1. Enclosed(w, S, Flag, body, fcs)
      BY <2>1, BetweenFlags
    <3> HIDE DEF w
    <3> QED
      BY <3>1 DEF Enclosed
  <2>3. q = w
    BY <1>1
  <2>4. Len(body) + Len(fcs) + 2 = b + 4 /\ Len(body) + Len(fcs) + 1 = b + 3
    <3>1. Len(body) \in Nat
      BY <1>6, SMT
    <3> QED
      BY <1>3, <3>1, SMT
  <2> QED
    BY <2>2, <2>3, <2>4
<1>8. n \in Nat /\ b \in Nat /\ Len(q) = Size(f) + 2 /\ n <= b
  <2>1. n \in Nat
    <3>1. Len(header) \in Nat
      BY <1>5, SMT
    <3> QED
      BY <1>5, <3>1
  <2>2. b \in Nat
    <3>1. Len(body) \in Nat
      BY <1>6, SMT
    <3> QED
      BY <3>1
  <2> HIDE DEF b
  <2>3. b = Size(f) - 2 /\ Len(q) = b + 4
    BY <1>6, <1>7
  <2>4. Size(f) = n + 2 \/ Size(f) = n + Len(info) + 4
    BY <1>2
  <2> QED
    BY <1>2, <2>1, <2>2, <2>3, <2>4, SMT
<1> HIDE DEF b
<1>9. \A i \in 1 .. n : q[1 + i] = header[i]
  <2>1. \A i \in 1 .. n : i \in 1 .. b
    BY <1>8, SMT
  <2> QED
    BY <1>6, <1>7, <2>1
<1>10. header \in Seq(S) /\ info \in Seq(S)
  BY <1>3, <1>5, SMT
<1>11. SubSeq(q, 2, n + 1) = header
  <2>1. 1 + Len(header) <= Len(q) /\ 1 + 1 = 2 /\ 1 + Len(header) = n + 1
    BY <1>5, <1>7, <1>8, SMT
  <2>2. \A i \in 1 .. Len(header) : q[1 + i] = header[i]
    BY <1>5, <1>9
  <2>3. header \in Seq(S) /\ q \in Seq(S) /\ 1 \in Nat
    BY <1>7, <1>10
  <2>4. SubSeq(q, 1 + 1, 1 + Len(header)) = header
    BY <2>1, <2>2, <2>3, Repeats
  <2> QED
    BY <2>1, <2>4
<1>12. SubSeq(q, 2, Len(q) - 3) = body /\ SubSeq(q, Len(q) - 2, Len(q) - 1) = fcs
  <2>1. Len(q) - 3 = b + 1 /\ Len(q) - 2 = b + 2 /\ Len(q) - 1 = b + 3
    BY <1>7, <1>8, SMT
  <2> QED
    BY <1>7, <2>1
<1>13. ASSUME info # <<>>
       PROVE  SubSeq(q, n + 2, n + 3) = hcs
  <2>1. /\ n + 1 + Len(hcs) <= Len(q) /\ n + 1 + 1 = n + 2 /\ n + 1 + Len(hcs) = n + 3
        /\ n + 1 \in Nat /\ \A i \in 1 .. Len(hcs) : n + i \in 1 .. b /\ n + 1 + i = 1 + (n + i)
    BY <1>2, <1>3, <1>6, <1>7, <1>8, <1>13, SMT
  <2>2. ASSUME NEW i \in 1 .. Len(hcs)
        PROVE  q[n + 1 + i] = hcs[i]
    <3>1. n + i \in 1 .. b /\ n + 1 + i = 1 + (n + i) /\ i \in 1 .. 2
      BY <1>3, <2>1
    <3>2. q[1 + (n + i)] = body[n + i] /\ body[n + i] = hcs[i]
      BY <1>6, <1>7, <1>13, <3>1
    <3> QED
      BY <3>1, <3>2
  <2>3. hcs \in Seq(S) /\ q \in Seq(S) /\ n + 1 \in Nat /\ n + 1 + Len(hcs) <= Len(q)
    BY <1>3, <1>7, <2>1
  <2>4. SubSeq(q, n + 1 + 1, n + 1 + Len(hcs)) = hcs
    BY <2>2, <2>3, Repeats
  <2> QED
    BY <2>1, <2>4
<1>14. SubSeq(q, n + 4, Len(q) - 3) = info
  <2>1. CASE info = <<>>
    <3>1. Len(q) - 3 < n + 4
      BY <1>2, <1>8, <2>1, SMT
    <3>2. SubSeq(q, n + 4, Len(q) - 3) = <<>>
      BY <1>7, <1>8, <3>1, SMT
    <3> QED
      BY <2>1, <3>2
  <2>2. CASE info # <<>>
    <3>1. /\ n + 3 + Len(info) <= Len(q) /\ n + 3 + 1 = n + 4 /\ n + 3 + Len(info) = Len(q) - 3
          /\ n + 3 \in Nat
          /\ \A i \in 1 .. Len(info) : n + 2 + i \in 1 .. b /\ n + 3 + i = 1 + (n + 2 + i)
      BY <1>2, <1>6, <1>7, <1>8, <2>2, SMT
    <3>2. ASSUME NEW i \in 1 .. Len(info)
          PROVE  q[n + 3 + i] = info[i]
      <4>1. n + 2 + i \in 1 .. b /\ n + 3 + i = 1 + (n + 2 + i)
        BY <3>1
      <4>2. q[1 + (n + 2 + i)] = body[n + 2 + i] /\ body[n + 2 + i] = info[i]
        BY <1>6, <1>7, <2>2, <4>1
      <4> QED
        BY <4>1, <4>2
    <3>3. SubSeq(q, n + 3 + 1, n + 3 + Len(info)) = info
      BY <1>7, <1>10, <3>1, <3>2, Repeats
    <3> QED
      BY <3>1, <3>3
  <2> QED
    BY <2>1, <2>2
<1>15. q[Len(q)] = Flag
  BY <1>7
<1> QED
  BY <1>7, <1>8, <1>9, <1>11, <1>12, <1>13, <1>14, <1>15
     DEF header, body, info, hcs, hc, fcs, fc, q, n

-----------------------------------------------------------------------------
(***************************************************************************)
(* What DecodeFrameFromBuffer reads out of it.                             *)
(***************************************************************************)
\* The format field of a written frame passes, and tells its size.
LEMMA FormatAccepted ==
    ASSUME NEW f \in ValidFrame, NEW limits \in CodecLimits, NEW room \in Nat,
           EncodeFrameToBuffer(f, limits, room).status = "Ok"
    PROVE  LET q == EncodeFrameToBuffer(f, limits, room).octets
           IN  /\ Len(q) = Size(f) + 2 /\ FullFrameSize(q) = Len(q)
               /\ Segmented(q) = f.segmented
               /\ FormatStatus(q, limits) = "Ok"
<1> DEFINE q == EncodeFrameToBuffer(f, limits, room).octets
           header == FrameHeader(f)
           n == HeaderLength(f)
           high == HighByte(FormatField(f))
           low == LowByte(FormatField(f))
<1>1. /\ Len(q) = Size(f) + 2 /\ q[1] = Flag /\ q[Len(q)] = Flag
      /\ \A i \in 1 .. n : q[1 + i] = header[i]
  BY FrameLayout
<1>2. /\ Size(f) <= 2047 /\ Size(f) \in Nat /\ 7 <= Size(f)
      /\ Size(f) + 2 <= EffectiveMaximumFrameSize(limits)
      /\ EffectiveMaximumFrameSize(limits) \in Nat
  BY EncodedWithinLimits, FrameSizes
<1>3. header[1] = high /\ header[2] = low
  BY <1>2, HeaderLayout
<1>4. LET format == high * 256 + low
      IN  /\ format \div 4096 = 10
          /\ ((format \div 2048) % 2 = 1) = f.segmented
          /\ format % 2048 = Size(f)
  BY <1>2, FormatRead
<1>5. 1 \in 1 .. n /\ 2 \in 1 .. n
  <2>1. n = f.destination.size + f.source.size + 3
    BY FrameSizes
  <2>2. f.destination.size \in Nat /\ f.source.size \in Nat
    BY FrameSizes
  <2> HIDE DEF n
  <2> QED
    BY <2>1, <2>2, SMT
<1> HIDE DEF q, header, high, low, n
<1>6. q[2] = high /\ q[3] = low
  <2>1. 1 + 1 = 2 /\ 1 + 2 = 3
    BY SMT
  <2> QED
    BY <1>1, <1>3, <1>5, <2>1
<1>7. FrameFormat(q) = high * 256 + low
  BY <1>6 DEF FrameFormat
<1>8. /\ FormatType3(q) /\ Segmented(q) = f.segmented
      /\ FormatFieldLength(q) = Size(f) /\ FullFrameSize(q) = Size(f) + 2
  BY <1>4, <1>7 DEF FormatType3, Segmented, FormatFieldLength, FullFrameSize
<1>9. FormatStatus(q, limits) = "Ok"
  <2> DEFINE z == Size(f)
             maximum == EffectiveMaximumFrameSize(limits)
  <2>1. z \in Nat /\ 7 <= z /\ maximum \in Nat /\ z + 2 <= maximum
    BY <1>2
  <2>2. /\ FormatType3(q) /\ FormatFieldLength(q) = z /\ FullFrameSize(q) = z + 2
        /\ Len(q) = z + 2
    BY <1>1, <1>8
  <2> HIDE DEF z, maximum
  <2>3. /\ ~(z + 2 < 4) /\ ~(z < 6) /\ ~(z + 2 > maximum) /\ ~(z + 2 < z + 2)
    BY <2>1, SMT
  <2> QED
    BY <1>1, <2>2, <2>3 DEF FormatStatus, maximum
<1> QED
  BY <1>1, <1>8, <1>9 DEF q

\* The two addresses of a written frame are read back.
LEMMA AddressesRead ==
    ASSUME NEW f \in ValidFrame, NEW limits \in CodecLimits, NEW room \in Nat,
           EncodeFrameToBuffer(f, limits, room).status = "Ok"
    PROVE  DecodeAddresses(EncodeFrameToBuffer(f, limits, room).octets)
               = [status |-> "Ok", destination |-> f.destination, source |-> f.source]
<1> DEFINE q == EncodeFrameToBuffer(f, limits, room).octets
           header == FrameHeader(f)
           n == HeaderLength(f)
           ds == f.destination.size
           ss == f.source.size
           last == Len(q) - 1
<1>1. PICK S : /\ q \in Seq(S) /\ Len(q) = Size(f) + 2
               /\ \A i \in 1 .. n : q[1 + i] = header[i]
  BY FrameLayout
<1>2. /\ \A i \in 1 .. ds : header[2 + i] = EncodeAddress(f.destination)[i]
      /\ \A i \in 1 .. ss : header[2 + ds + i] = EncodeAddress(f.source)[i]
  <2>1. Size(f) <= 2047
    BY EncodedWithinLimits
  <2> QED
    BY <2>1, HeaderLayout
<1>3. /\ ds \in Nat /\ ss \in Nat /\ n = ds + ss + 3 /\ Size(f) \in Nat
      /\ n + 2 <= Size(f)
  <2> DEFINE m == Len(f.information)
             z == Size(f)
  <2>1. m \in Nat /\ n = ds + ss + 3 /\ z \in Nat /\ (z = n + 2 \/ z = n + m + 4)
    BY FrameSizes
  <2>2. ds \in Nat /\ ss \in Nat
    BY FrameSizes
  <2> HIDE DEF n, ds, ss, m, z
  <2>3. n \in Nat
    BY <2>1, <2>2, SMT
  <2>4. n + 2 <= z
    BY <2>1, <2>3, SMT
  <2> QED
    BY <2>1, <2>2, <2>4 DEF z
<1>4. f.destination \in HdlcAddress /\ f.source \in HdlcAddress
  BY DEF ValidFrame, HdlcFrame
<1> HIDE DEF q, header, n, ds, ss
<1>5. /\ last \in Nat /\ last <= Len(q) /\ 4 <= last + 1 /\ 4 + ds <= last + 1
      /\ ds <= last - 4 + 1 /\ ss <= last - (4 + ds) + 1
  <2> DEFINE z == Size(f)
             l == Len(q)
  <2>1. l = z + 2 /\ z \in Nat /\ n + 2 <= z /\ n = ds + ss + 3
    BY <1>1, <1>3
  <2> HIDE DEF l, z
  <2> QED
    BY <1>3, <2>1, SMT DEF l
<1> HIDE DEF last
<1>6. AddressFromBytes(SubSeq(q, 4, last)) = [status |-> "Ok", address |-> f.destination]
  <2> DEFINE part == SubSeq(q, 4, last)
  <2>1. 4 \in Nat \ {0}
    BY SMT
  <2>2. /\ part \in Seq(S) /\ Len(part) = last - 4 + 1
        /\ \A i \in 1 .. last - 4 + 1 : part[i] = q[4 + i - 1]
    BY <1>1, <1>5, <2>1, Stretch
  <2> HIDE DEF part
  <2>3. ASSUME NEW i \in 1 .. ds
        PROVE  part[i] = EncodeAddress(f.destination)[i]
    <3>1. /\ i \in 1 .. last - 4 + 1 /\ 4 + i - 1 = 1 + (2 + i) /\ 2 + i \in 1 .. n
      BY <1>3, <1>5, SMT
    <3> QED
      BY <1>1, <1>2, <2>2, <3>1
  <2>4. f.destination.size <= Len(part)
    BY <1>5, <2>2 DEF ds
  <2>5. part \in Seq(S) /\ \A i \in 1 .. f.destination.size : part[i] = EncodeAddress(f.destination)[i]
    BY <2>2, <2>3 DEF ds
  <2>6. AddressFromBytes(part) = [status |-> "Ok", address |-> f.destination]
    BY <1>4, <2>4, <2>5, AddressRead
  <2> QED
    BY <2>6 DEF part
<1>7. AddressFromBytes(SubSeq(q, 4 + ds, last)) = [status |-> "Ok", address |-> f.source]
  <2> DEFINE lo == 4 + ds
             part == SubSeq(q, lo, last)
  <2>1. lo \in Nat \ {0} /\ last \in Nat /\ last <= Len(q) /\ lo <= last + 1
    BY <1>3, <1>5, SMT
  <2> HIDE DEF lo
  <2>2. /\ part \in Seq(S) /\ Len(part) = last - lo + 1
        /\ \A i \in 1 .. last - lo + 1 : part[i] = q[lo + i - 1]
    BY <1>1, <2>1, Stretch
  <2> HIDE DEF part
  <2>3. ASSUME NEW i \in 1 .. ss
        PROVE  part[i] = EncodeAddress(f.source)[i]
    <3>1. /\ i \in 1 .. last - lo + 1 /\ lo + i - 1 = 1 + (2 + ds + i)
          /\ 2 + ds + i \in 1 .. n
      BY <1>3, <1>5, SMT DEF lo
    <3> QED
      BY <1>1, <1>2, <2>2, <3>1
  <2>4. f.source.size <= Len(part)
    BY <1>5, <2>2 DEF ss, lo
  <2>5. part \in Seq(S) /\ \A i \in 1 .. f.source.size : part[i] = EncodeAddress(f.source)[i]
    BY <2>2, <2>3 DEF ss
  <2>6. AddressFromBytes(part) = [status |-> "Ok", address |-> f.source]
    BY <1>4, <2>4, <2>5, AddressRead
  <2> QED
    BY <2>6 DEF part, lo
<1>8. DecodeAddresses(q) = [status |-> "Ok", destination |-> f.destination, source |-> f.source]
  BY <1>6, <1>7 DEF DecodeAddresses, last, ds
<1> QED
  BY <1>8 DEF q

\* Decoding gives back what encoding wrote: to a receiver with the limits of the
\* sender and space for the Information field, every frame arrives as it was sent.
THEOREM FrameRoundTrip ==
    ASSUME NEW f \in ValidFrame, NEW limits \in CodecLimits, NEW room \in Nat, NEW space \in Nat,
           EncodeFrameToBuffer(f, limits, room).status = "Ok",
           Len(f.information) <= space
    PROVE  DecodeFrameFromBuffer(EncodeFrameToBuffer(f, limits, room).octets, limits, space)
               = [status |-> "Ok", frame |-> f]
<1> DEFINE q == EncodeFrameToBuffer(f, limits, room).octets
           header == FrameHeader(f)
           n == HeaderLength(f)
           info == f.information
           control == 4 + f.destination.size + f.source.size
           last == Len(q) - 3
<1>1. /\ Len(q) = Size(f) + 2
      /\ \A i \in 1 .. n : q[1 + i] = header[i]
      /\ SubSeq(q, 2, n + 1) = header
      /\ SubSeq(q, 2, Len(q) - 3) = FrameBody(f)
      /\ SubSeq(q, Len(q) - 2, Len(q) - 1) = LowByteFirst(CalculateHdlcCrc(FrameBody(f)))
      /\ info # <<>> => SubSeq(q, n + 2, n + 3) = LowByteFirst(CalculateHdlcCrc(header))
      /\ SubSeq(q, n + 4, Len(q) - 3) = info
  BY FrameLayout
<1>2. /\ FormatStatus(q, limits) = "Ok" /\ Segmented(q) = f.segmented
  BY FormatAccepted
<1>3. DecodeAddresses(q) = [status |-> "Ok", destination |-> f.destination, source |-> f.source]
  BY AddressesRead
<1>4. /\ Len(info) \in Nat /\ Len(info) <= EffectiveMaximumInformationFieldSize(n, limits)
      /\ EffectiveMaximumInformationFieldSize(n, limits) \in Nat
      /\ info = <<>> <=> Len(info) = 0
      /\ info = <<>> => Size(f) = n + 2
      /\ info # <<>> => Size(f) = n + Len(info) + 4
      /\ n = f.destination.size + f.source.size + 3
      /\ header[n] = f.control
  BY EncodedWithinLimits, FrameSizes, HeaderLayout
<1>5. n \in Nat /\ 1 <= n /\ control = n + 1
  <2> DEFINE ds == f.destination.size
             ss == f.source.size
  <2>1. ds \in Nat /\ ss \in Nat /\ n = ds + ss + 3
    BY FrameSizes
  <2> HIDE DEF ds, ss, n
  <2>2. n \in Nat /\ 1 <= n /\ 4 + ds + ss = n + 1
    BY <2>1, SMT
  <2> QED
    BY <2>2 DEF ds, ss
<1> HIDE DEF q, header, n, info
<1>6. q[control] = f.control
  <2>1. control = 1 + n /\ n \in 1 .. n
    BY <1>5, SMT
  <2> QED
    BY <1>1, <1>4, <2>1
<1> HIDE DEF control
<1>7. /\ ~(control > last) /\ control # last - 1
      /\ control + 3 = n + 4 /\ control + 1 = n + 2 /\ control + 2 = n + 3 /\ control - 1 = n
      /\ last + 1 = Len(q) - 2 /\ last + 2 = Len(q) - 1
      /\ control < last => info # <<>>
  <2> DEFINE z == Size(f)
             l == Len(q)
             m == Len(info)
  <2>1. /\ l = z + 2 /\ m \in Nat
        /\ info = <<>> => z = n + 2
        /\ info # <<>> => z = n + m + 4
    BY <1>1, <1>4
  <2> HIDE DEF l, z, m
  <2>2. l = n + 4 \/ l = n + m + 6
    BY <2>1, <1>5, SMT
  <2>3. info = <<>> => l = n + 4
    BY <2>1, <1>5, SMT
  <2> QED
    BY <1>5, <2>1, <2>2, <2>3, SMT DEF l
<1> HIDE DEF last
<1>8. SupportedControl(q[control])
  BY <1>6 DEF ValidFrame
<1>9. control < last => Checked(q, control)
  BY <1>1, <1>5, <1>7 DEF Checked
<1>10. Checked(q, last)
  BY <1>1, <1>7 DEF Checked, last
<1>11. SubSeq(q, control + 3, last) = info
  BY <1>1, <1>7 DEF last
<1>12. ~(Len(info) > space) /\ ~(Len(info) > EffectiveMaximumInformationFieldSize(n, limits))
  BY <1>4, SMT DEF info
<1>13. f = [segmented |-> f.segmented, destination |-> f.destination, source |-> f.source,
            control |-> f.control, information |-> info]
  BY DEF ValidFrame, HdlcFrame, info
<1>14. DecodeFrameFromBuffer(q, limits, space) = [status |-> "Ok", frame |-> f]
  <2> DEFINE addresses == DecodeAddresses(q)
  <2>1. /\ addresses.status = "Ok" /\ addresses.destination = f.destination
        /\ addresses.source = f.source
        /\ 4 + addresses.destination.size + addresses.source.size = control
    BY <1>3 DEF control
  <2> HIDE DEF addresses
  <2> QED
    BY <1>2, <1>6, <1>7, <1>8, <1>9, <1>10, <1>11, <1>12, <1>13, <2>1
       DEF DecodeFrameFromBuffer, addresses, last
<1> QED
  BY <1>14 DEF q

-----------------------------------------------------------------------------
(***************************************************************************)
(* What is sent: by a session, by a caller of the C API, by a stranger.    *)
(***************************************************************************)
\* The control fields of the sessions.
LEMMA NumberedControls ==
    ASSUME NEW ns \in SequenceNumber, NEW nr \in SequenceNumber, NEW pollFinal \in BOOLEAN
    PROVE  LET i == MakeInformationControl(ns, nr, pollFinal)
               r == MakeReceiveReadyControl(nr, pollFinal)
           IN  /\ i \in Octet /\ i % 2 = 0 /\ r \in Octet /\ r % 4 = 1
               /\ SupportedControl(i) /\ SupportedControl(r)
<1> DEFINE p == IF pollFinal THEN 16 ELSE 0
           i == 2 * ns + p + 32 * nr
           r == 1 + p + 32 * nr
<1>1. /\ ns \in Nat /\ ns <= 7 /\ nr \in Nat /\ nr <= 7 /\ p \in {0, 16}
      /\ ns % 8 = ns /\ nr % 8 = nr
  BY SMT DEF SequenceNumber, Modulus
<1>2. MakeInformationControl(ns, nr, pollFinal) = i /\ MakeReceiveReadyControl(nr, pollFinal) = r
  BY <1>1 DEF MakeInformationControl, MakeReceiveReadyControl
<1> HIDE DEF p
<1>3. i \in Octet /\ i % 2 = 0 /\ r \in Octet /\ r % 4 = 1
  BY <1>1, SMT DEF Octet
<1>4. i % 4 # 3
  BY <1>1, SMT
<1> HIDE DEF i, r
<1>5. SupportedControl(i) /\ SupportedControl(r)
  <2>1. ~IsUnnumbered(i)
    BY <1>4 DEF IsUnnumbered
  <2>2. ~IsUnnumbered(r)
    BY <1>3, SMT DEF IsUnnumbered
  <2> QED
    BY <2>1, <2>2 DEF SupportedControl
<1> QED
  BY <1>2, <1>3, <1>5

LEMMA UnnumberedControls ==
    ASSUME NEW kind \in {"SNRM", "UA", "DISC", "DM"}
    PROVE  LET c == SessionControl[kind]
           IN  /\ c \in Octet /\ IsUnnumbered(c) /\ ~IsInformation(c) /\ ~IsSupervisory(c)
               /\ WithoutPollFinal(c) = UnnumberedCode[kind] /\ SupportedControl(c)
<1> DEFINE c == SessionControl[kind]
           code == UnnumberedCode[kind]
<1>1. /\ c \in Octet /\ IsUnnumbered(c) /\ ~IsInformation(c) /\ ~IsSupervisory(c)
      /\ WithoutPollFinal(c) = code
  <2>1. CASE kind = "SNRM"
    <3>1. c = 147 /\ code = 131
      BY <2>1 DEF SessionControl, UnnumberedCode
    <3> HIDE DEF c, code
    <3> QED
      BY <3>1, SMT DEF Octet, IsUnnumbered, IsInformation, IsSupervisory, WithoutPollFinal, PollFinal
  <2>2. CASE kind = "UA"
    <3>1. c = 115 /\ code = 99
      BY <2>2 DEF SessionControl, UnnumberedCode
    <3> HIDE DEF c, code
    <3> QED
      BY <3>1, SMT DEF Octet, IsUnnumbered, IsInformation, IsSupervisory, WithoutPollFinal, PollFinal
  <2>3. CASE kind = "DISC"
    <3>1. c = 83 /\ code = 67
      BY <2>3 DEF SessionControl, UnnumberedCode
    <3> HIDE DEF c, code
    <3> QED
      BY <3>1, SMT DEF Octet, IsUnnumbered, IsInformation, IsSupervisory, WithoutPollFinal, PollFinal
  <2>4. CASE kind = "DM"
    <3>1. c = 31 /\ code = 15
      BY <2>4 DEF SessionControl, UnnumberedCode
    <3> HIDE DEF c, code
    <3> QED
      BY <3>1, SMT DEF Octet, IsUnnumbered, IsInformation, IsSupervisory, WithoutPollFinal, PollFinal
  <2> QED
    BY <2>1, <2>2, <2>3, <2>4
<1>2. kind \in DOMAIN UnnumberedCode
  BY DEF UnnumberedCode
<1> QED
  BY <1>1, <1>2 DEF SupportedControl

\* A negotiation block is made of octets.
LEMMA BlockOctets ==
    ASSUME NEW p \in Params
    PROVE  EncodeSnrmNegotiationBlock(p) \in Seq(Octet)
<1> DEFINE th == (p.maxInfoTx \div 256) % 256
           tl == p.maxInfoTx % 256
           rh == (p.maxInfoRx \div 256) % 256
           rl == p.maxInfoRx % 256
           wt == p.windowTx % 256
           wr == p.windowRx % 256
<1>1. /\ th \in Octet /\ tl \in Octet /\ rh \in Octet /\ rl \in Octet
      /\ wt \in Octet /\ wr \in Octet
  <2>1. ASSUME NEW value \in Nat
        PROVE  (value \div 256) % 256 \in Octet /\ value % 256 \in Octet
    BY SMT DEF Octet
  <2>2. p.maxInfoTx \in Nat /\ p.maxInfoRx \in Nat /\ p.windowTx \in Nat /\ p.windowRx \in Nat
    BY DEF Params
  <2> QED
    BY <2>1, <2>2
<1>2. EncodeSnrmNegotiationBlock(p) =
          <<129, 128, 20, 5, 2, th, tl, 6, 2, rh, rl, 7, 4, 0, 0, 0, wt, 8, 4, 0, 0, 0, wr>>
  BY DEF EncodeSnrmNegotiationBlock
<1> HIDE DEF th, tl, rh, rl, wt, wr
<1>3. {129, 128, 20, 5, 2, 6, 7, 4, 0, 8} \subseteq Octet
  BY SMT DEF Octet
<1> QED
  BY <1>1, <1>2, <1>3

\* The frames a session builds can be sent.
LEMMA SessionFrameValid ==
    ASSUME NEW b \in Built
    PROVE  BuildFrame(b) \in ValidFrame
<1> DEFINE f == b.frame
           kind == f.kind
<1>1. /\ f \in Frame /\ b.user \in Seq(Octet) /\ b.pollFinal \in BOOLEAN
      /\ kind \in {"I", "RR", "SNRM", "UA", "DISC", "DM"}
  BY TransferAssumption DEF BuiltBySession
<1>2. Address \subseteq HdlcAddress /\ Payload \subseteq Seq(Octet)
  BY TransferAssumption
<1>3. f.destination \in HdlcAddress /\ f.source \in HdlcAddress
  BY <1>1, <1>2 DEF Frame, UnnumberedFrame, SupervisoryFrame, InformationFrame
<1>4. ControlOf(b) \in Octet /\ SupportedControl(ControlOf(b)) /\ InformationOf(b) \in Seq(Octet)
  <2>1. CASE kind = "I"
    <3>1. f.ns \in SequenceNumber /\ f.nr \in SequenceNumber /\ f.payload \in Payload
      BY <1>1, <2>1 DEF Frame, UnnumberedFrame, SupervisoryFrame, InformationFrame,
                        UnnumberedKind, SupervisoryKind
    <3>2. /\ ControlOf(b) = MakeInformationControl(f.ns, f.nr, b.pollFinal)
          /\ InformationOf(b) = f.payload
      BY <2>1 DEF ControlOf, InformationOf
    <3> QED
      BY <1>1, <1>2, <3>1, <3>2, NumberedControls
  <2>2. CASE kind = "RR"
    <3>1. f.nr \in SequenceNumber
      BY <1>1, <2>2 DEF Frame, UnnumberedFrame, SupervisoryFrame, InformationFrame,
                        UnnumberedKind, SupervisoryKind
    <3>2. /\ ControlOf(b) = MakeReceiveReadyControl(f.nr, b.pollFinal)
          /\ InformationOf(b) = <<>>
      BY <2>2 DEF ControlOf, InformationOf
    <3>3. <<>> \in Seq(Octet)
      OBVIOUS
    <3> QED
      BY <1>1, <3>1, <3>2, <3>3, NumberedControls
  <2>3. CASE kind \in {"SNRM", "UA", "DISC", "DM"}
    <3>1. f.block \in NegotiationBlock
      BY <1>1, <2>3 DEF Frame, UnnumberedFrame, SupervisoryFrame, InformationFrame,
                        UnnumberedKind, SupervisoryKind
    <3> DEFINE head == IF f.block.form = "present"
                       THEN EncodeSnrmNegotiationBlock(f.block.params) ELSE <<>>
    <3>2. ControlOf(b) = SessionControl[kind] /\ InformationOf(b) = head \o b.user
      BY <2>3 DEF ControlOf, InformationOf
    <3>3. head \in Seq(Octet)
      <4>1. EncodeSnrmNegotiationBlock(f.block.params) \in Seq(Octet)
        BY <3>1, BlockOctets DEF NegotiationBlock
      <4> QED
        BY <4>1
    <3> HIDE DEF head
    <3>4. head \o b.user \in Seq(Octet)
      BY <1>1, <3>3, Joined
    <3> QED
      BY <2>3, <3>2, <3>4, UnnumberedControls
  <2> QED
    BY <1>1, <2>1, <2>2, <2>3
<1> QED
  BY <1>3, <1>4 DEF BuildFrame, ValidFrame, HdlcFrame

\* So can a stranger's SNRM.
LEMMA ForeignFrameValid ==
    ASSUME NEW octets \in Foreign
    PROVE  ForeignSnrm(octets) \in ValidFrame
<1>1. octets \in Seq(Octet)
  BY TransferAssumption
<1>2. /\ SessionControl["SNRM"] \in Octet /\ SupportedControl(SessionControl["SNRM"])
  BY UnnumberedControls
<1>3. [raw |-> 1, size |-> 1] \in HdlcAddress /\ [raw |-> 16, size |-> 1] \in HdlcAddress
  <2>1. MaximumRawValue(1) = 127
    BY SMT DEF MaximumRawValue, Weight
  <2>2. 1 \in SupportedEncodedSize /\ 1 \in Nat /\ 16 \in Nat /\ 1 <= 127 /\ 16 <= 127
    BY SMT DEF SupportedEncodedSize
  <2> QED
    BY <2>1, <2>2 DEF HdlcAddress
<1> QED
  BY <1>1, <1>2, <1>3 DEF ForeignSnrm, ValidFrame, HdlcFrame

\* What AddressFromRaw hands out is an address with the value and size it was given.
LEMMA RawAddress ==
    ASSUME NEW raw \in Nat, NEW size \in Nat, AddressFromRaw(raw, size).status = "Ok"
    PROVE  /\ AddressFromRaw(raw, size).address = [raw |-> raw, size |-> size]
           /\ [raw |-> raw, size |-> size] \in HdlcAddress
<1>1. size \in SupportedEncodedSize /\ ~(raw > MaximumRawValue(size))
  BY DEF AddressFromRaw, Failure
<1>2. AddressFromRaw(raw, size).address = [raw |-> raw, size |-> size]
  BY <1>1 DEF AddressFromRaw
<1>3. MaximumRawValue(size) \in Nat
  <2>1. size \in {1, 2, 4}
    BY <1>1 DEF SupportedEncodedSize
  <2> QED
    BY <2>1, SMT DEF MaximumRawValue, Weight
<1>4. raw <= MaximumRawValue(size)
  BY <1>1, <1>3, SMT
<1> QED
  BY <1>1, <1>2, <1>4 DEF HdlcAddress

\* A structure that ToCppFrame accepts can be sent, and FromCppFrame gives it back
\* with a segmentation mark of 0 or 1.
LEMMA CallerFrameValid ==
    ASSUME NEW c \in CFrame, ToCppFrame(c).status = "Ok"
    PROVE  /\ ToCppFrame(c).frame \in ValidFrame
           /\ FromCppFrame(ToCppFrame(c).frame)
                  = [c EXCEPT !.segmented = IF @ = 0 THEN 0 ELSE 1]
<1> DEFINE destination == AddressFromRaw(c.destination_address_raw, c.destination_address_size)
           source == AddressFromRaw(c.source_address_raw, c.source_address_size)
           f == ToCppFrame(c).frame
<1>1. /\ destination.status = "Ok" /\ source.status = "Ok" /\ SupportedControl(c.control)
      /\ f = [segmented |-> c.segmented # 0, destination |-> destination.address,
              source |-> source.address, control |-> c.control, information |-> c.information]
  BY DEF ToCppFrame, Failure
<1>2. /\ destination.address = [raw |-> c.destination_address_raw, size |-> c.destination_address_size]
      /\ source.address = [raw |-> c.source_address_raw, size |-> c.source_address_size]
      /\ destination.address \in HdlcAddress /\ source.address \in HdlcAddress
  BY <1>1, RawAddress DEF CFrame
<1> HIDE DEF destination, source, f
<1>3. f \in ValidFrame
  BY <1>1, <1>2 DEF ValidFrame, HdlcFrame, CFrame
<1>4. FromCppFrame(f) = [c EXCEPT !.segmented = IF @ = 0 THEN 0 ELSE 1]
  <2> DEFINE mark == IF c.segmented = 0 THEN 0 ELSE 1
  <2>1. FromCppFrame(f) =
          [segmented |-> IF c.segmented # 0 THEN 1 ELSE 0,
           destination_address_raw |-> c.destination_address_raw,
           destination_address_size |-> c.destination_address_size,
           source_address_raw |-> c.source_address_raw,
           source_address_size |-> c.source_address_size,
           control |-> c.control, information |-> c.information]
    <3>1. /\ f.segmented = (c.segmented # 0)
          /\ f.destination.raw = c.destination_address_raw
          /\ f.destination.size = c.destination_address_size
          /\ f.source.raw = c.source_address_raw
          /\ f.source.size = c.source_address_size
          /\ f.control = c.control /\ f.information = c.information
      BY <1>1, <1>2
    <3>2. (IF f.segmented THEN 1 ELSE 0) = (IF c.segmented # 0 THEN 1 ELSE 0)
      BY <3>1
    <3> QED
      BY <3>1, <3>2, Zenon DEF FromCppFrame
  <2>2. [c EXCEPT !.segmented = mark] =
          [segmented |-> mark,
           destination_address_raw |-> c.destination_address_raw,
           destination_address_size |-> c.destination_address_size,
           source_address_raw |-> c.source_address_raw,
           source_address_size |-> c.source_address_size,
           control |-> c.control, information |-> c.information]
    <3> HIDE DEF mark
    <3> QED
      BY DEF CFrame
  <2>3. mark = IF c.segmented # 0 THEN 1 ELSE 0
    OBVIOUS
  <2> QED
    BY <2>1, <2>2, <2>3
<1> QED
  BY <1>3, <1>4 DEF f

-----------------------------------------------------------------------------
(***************************************************************************)
(* Induction, and the recursive functions of HdlcParameters.               *)
(***************************************************************************)
\* Every set of numbers has a least one.
LEMMA LeastNumber ==
    ASSUME NEW S \in SUBSET Nat, S # {}
    PROVE  \E m \in S : \A n \in S : m <= n
<1> DEFINE R == OpToRel(<, Nat)
<1>1. IsWellFoundedOn(R, Nat)
  BY NatLessThanWellFounded, Zenon
<1>2. \A p : p \in R <=> p \in {ss \in Nat \X Nat : ss[1] < ss[2]}
  BY DEF OpToRel
<1> HIDE DEF R
<1>3. \A x, y \in Nat : <<y, x>> \in R <=> y < x
  BY <1>2, SMT
<1>4. PICK x \in S : \A y \in S : ~(<<y, x>> \in R)
  BY <1>1, WFMin
<1>5. ASSUME NEW y \in S
      PROVE  x <= y
  <2>1. x \in Nat /\ y \in Nat
    OBVIOUS
  <2>2. ~(y < x)
    BY <1>3, <1>4, <2>1
  <2> QED
    BY <2>1, <2>2, SMT
<1> QED
  BY <1>5

\* A set of numbers that has zero and with each number the next one has them all.
LEMMA Induction ==
    ASSUME NEW S, S \subseteq Nat, 0 \in S, \A n \in S : n + 1 \in S
    PROVE  S = Nat
<1>1. SUFFICES ASSUME Nat \ S # {}
               PROVE  FALSE
  OBVIOUS
<1>2. PICK m \in Nat \ S : \A n \in Nat \ S : m <= n
  BY <1>1, LeastNumber
<1>3. m # 0
  BY <1>2
<1>4. m - 1 \in Nat
  BY <1>3, SMT
<1>5. m - 1 \in S
  BY <1>2, <1>4, SMT
<1>6. m - 1 + 1 = m
  BY SMT
<1> QED
  BY <1>5, <1>6

\* The loop of ParseBeValue reads the number that up to four octets are.
LEMMA BigEndianValue ==
    ASSUME NEW o, NEW n \in 1 .. 4, Len(o) = n, \A i \in 1 .. n : o[i] \in Nat
    PROVE  ParseBeValue(o) = BigEndian(o)
<1> DEFINE At(h, i) == IF i = 0 THEN 0 ELSE h[i - 1] * 256 + o[i]
           two == o[1] * 256 + o[2]
           three == two * 256 + o[3]
           four == three * 256 + o[4]
           w == [i \in 0 .. n |-> IF i = 0 THEN 0 ELSE IF i = 1 THEN o[1]
                                  ELSE IF i = 2 THEN two ELSE IF i = 3 THEN three ELSE four]
           f == CHOOSE value : value = [i \in 0 .. n |-> At(value, i)]
<1>1. w = [i \in 0 .. n |-> At(w, i)]
  <2>1. ASSUME NEW i \in 0 .. n
        PROVE  w[i] = At(w, i)
    <3>1. /\ w[i] = IF i = 0 THEN 0 ELSE IF i = 1 THEN o[1]
                    ELSE IF i = 2 THEN two ELSE IF i = 3 THEN three ELSE four
          /\ i # 0 => w[i - 1] = IF i = 1 THEN 0 ELSE IF i = 2 THEN o[1]
                                 ELSE IF i = 3 THEN two ELSE three
      <4> HIDE DEF two, three, four
      <4> QED
        BY SMT
    <3>2. i = 1 => o[i] \in Nat /\ 0 * 256 + o[i] = o[1]
      BY SMT
    <3> HIDE DEF w
    <3>3. i \in {0, 1, 2, 3, 4}
      BY SMT
    <3> QED
      BY <3>1, <3>2, <3>3, SMT
  <2> HIDE DEF w, At
  <2>2. w = [i \in 0 .. n |-> w[i]]
    BY DEF w
  <2> QED
    BY <2>1, <2>2
<1>2. f = [i \in 0 .. n |-> At(f, i)]
  <2> HIDE DEF w, At
  <2> QED
    BY <1>1
<1>3. \A i \in 0 .. n : f[i] = At(f, i)
  <2> HIDE DEF f
  <2> QED
    BY <1>2
<1>4. ParseBeValue(o) = f[n]
  BY DEF ParseBeValue
<1> HIDE DEF f, w
<1>5. /\ f[1] = o[1]
      /\ n >= 2 => f[2] = two
      /\ n >= 3 => f[3] = three
      /\ n >= 4 => f[4] = four
  <2>1. f[0] = 0 /\ f[1] = f[0] * 256 + o[1] /\ o[1] \in Nat
    BY <1>3, SMT
  <2>2. n >= 2 => f[2] = f[1] * 256 + o[2]
    BY <1>3, SMT
  <2>3. n >= 3 => f[3] = f[2] * 256 + o[3]
    BY <1>3, SMT
  <2>4. n >= 4 => f[4] = f[3] * 256 + o[4]
    BY <1>3, SMT
  <2>5. f[1] = o[1]
    BY <2>1, SMT
  <2>6. n >= 2 => f[2] = two
    BY <2>2, <2>5
  <2>7. n >= 3 => f[3] = three
    BY <2>3, <2>6, SMT
  <2>8. n >= 4 => f[4] = four
    BY <2>4, <2>7, SMT
  <2> QED
    BY <2>5, <2>6, <2>7, <2>8
<1>6. CASE n = 1
  <2>1. BigEndian(o) = o[1]
    BY <1>6, SMT DEF BigEndian
  <2> QED
    BY <1>4, <1>5, <1>6, <2>1
<1>7. CASE n = 2
  <2>1. BigEndian(o) = o[1] * 256 + o[2]
    BY <1>7, SMT DEF BigEndian
  <2> QED
    BY <1>4, <1>5, <1>7, <2>1
<1>8. CASE n = 3
  <2>1. BigEndian(o) = three
    BY <1>8, SMT DEF BigEndian
  <2> QED
    BY <1>4, <1>5, <1>8, <2>1
<1>9. CASE n = 4
  <2>1. BigEndian(o) = four
    BY <1>9, SMT DEF BigEndian
  <2> QED
    BY <1>4, <1>5, <1>9, <2>1
<1> QED
  BY <1>6, <1>7, <1>8, <1>9

\* Two octets, and four of which only the last counts.
LEMMA TwoByteValue ==
    ASSUME NEW o, Len(o) = 2, o[1] \in Nat, o[2] \in Nat
    PROVE  ParseBeValue(o) = o[1] * 256 + o[2]
<1>1. 2 \in 1 .. 4 /\ \A i \in 1 .. 2 : o[i] \in Nat
  BY SMT
<1>2. ParseBeValue(o) = BigEndian(o)
  BY <1>1, BigEndianValue
<1>3. BigEndian(o) = o[1] * 256 + o[2]
  BY SMT DEF BigEndian
<1> QED
  BY <1>2, <1>3

LEMMA LastByteValue ==
    ASSUME NEW o, Len(o) = 4, o[1] = 0, o[2] = 0, o[3] = 0, o[4] \in Nat
    PROVE  ParseBeValue(o) = o[4]
<1>1. 4 \in 1 .. 4 /\ \A i \in 1 .. 4 : o[i] \in Nat
  BY SMT
<1>2. ParseBeValue(o) = BigEndian(o)
  BY <1>1, BigEndianValue
<1>3. BigEndian(o) = o[4]
  BY SMT DEF BigEndian
<1> QED
  BY <1>2, <1>3

\* One round of the loop of ParseGroup: what is read at pos, when later tells what is
\* read behind it.
ReadAt(octets, end, later, pos) ==
    IF pos > end THEN [status |-> "Ok", values |-> <<>>]
    ELSE IF ~Fits(octets, pos, end) THEN [status |-> "InvalidFrameFormat"]
    ELSE IF octets[pos] \notin 5 .. 8 THEN [status |-> "UnsupportedFeature"]
    ELSE LET rest == later[pos + 2 + octets[pos + 1]]
         IN  IF rest.status # "Ok" THEN rest
             ELSE [status |-> "Ok",
                   values |-> Assign(Quantity[octets[pos] - 4],
                                     ParameterValue(octets, pos), rest.values)]

Reader(octets, end) ==
    CHOOSE read : read = [pos \in 4 .. Len(octets) + 1 |-> ReadAt(octets, end, read, pos)]

\* It looks at a later position only, and at one that is there.
LEMMA ReadsForward ==
    ASSUME NEW octets, NEW n \in Nat, NEW end \in Nat, end <= n, NEW pos \in 4 .. n + 1,
           NEW g, NEW h, \A q \in 4 .. n + 1 : q > pos => g[q] = h[q]
    PROVE  ReadAt(octets, end, g, pos) = ReadAt(octets, end, h, pos)
<1>1. CASE pos <= end /\ Fits(octets, pos, end)
  <2> DEFINE size == octets[pos + 1]
             next == pos + 2 + size
  <2>1. size \in 1 .. 4 /\ pos + 1 + size <= end
    BY <1>1 DEF Fits
  <2> HIDE DEF size
  <2>2. next \in 4 .. n + 1 /\ next > pos
    BY <1>1, <2>1, SMT
  <2> HIDE DEF next
  <2>3. g[next] = h[next]
    BY <2>2
  <2> QED
    BY <2>3 DEF ReadAt, next, size
<1>2. CASE pos > end \/ ~Fits(octets, pos, end)
  BY <1>2 DEF ReadAt
<1> QED
  BY <1>1, <1>2, SMT

\* So there is a function that the loop computes.
LEMMA ReaderExists ==
    ASSUME NEW octets, NEW n \in Nat, NEW end \in Nat, end <= n
    PROVE  \E read : read = [pos \in 4 .. n + 1 |-> ReadAt(octets, end, read, pos)]
<1> DEFINE D == 4 .. n + 1
           Right(h, k) == \A pos \in D : n + 1 - pos < k => h[pos] = ReadAt(octets, end, h, pos)
           T == {k \in Nat : \E h : h = [pos \in D |-> h[pos]] /\ Right(h, k)}
<1>1. 0 \in T
  <2> DEFINE h == [pos \in D |-> 0]
  <2>1. \A pos \in D : ~(n + 1 - pos < 0)
    BY SMT
  <2>2. Right(h, 0)
    <3> HIDE DEF h
    <3> QED
      BY <2>1
  <2>3. h = [pos \in D |-> h[pos]]
    OBVIOUS
  <2> HIDE DEF Right, h
  <2> QED
    BY <2>2, <2>3
<1>2. ASSUME NEW k \in T
      PROVE  k + 1 \in T
  <2>1. PICK h : h = [pos \in D |-> h[pos]] /\ Right(h, k)
    <3> HIDE DEF Right
    <3> QED
      BY <1>2
  <2>2. k \in Nat
    <3> HIDE DEF Right
    <3> QED
      OBVIOUS
  <2> DEFINE p == n + 1 - k
             g == [pos \in D |-> IF pos = p THEN ReadAt(octets, end, h, p) ELSE h[pos]]
  <2>3. g = [pos \in D |-> g[pos]]
    OBVIOUS
  <2>4. ASSUME NEW pos \in D, n + 1 - pos < k + 1
        PROVE  g[pos] = ReadAt(octets, end, g, pos)
    <3>1. pos \in Nat /\ p <= pos
      BY <2>2, <2>4, SMT
    <3>2. \A q \in D : q > pos => g[q] = h[q]
      <4>1. \A q \in D : q > pos => q # p
        BY <2>2, <3>1, SMT
      <4> HIDE DEF p
      <4> QED
        BY <4>1
    <3>3. ReadAt(octets, end, g, pos) = ReadAt(octets, end, h, pos)
      <4> HIDE DEF g
      <4> QED
        BY <3>2, ReadsForward
    <3>4. g[pos] = ReadAt(octets, end, h, pos)
      <4>1. CASE pos = p
        <5> HIDE DEF p
        <5> QED
          BY <4>1
      <4>2. CASE pos # p
        <5>1. n + 1 - pos < k
          BY <2>2, <3>1, <4>2, SMT
        <5> HIDE DEF p
        <5>2. g[pos] = h[pos]
          BY <4>2
        <5> QED
          BY <2>1, <5>1, <5>2
      <4> QED
        BY <4>1, <4>2
    <3> QED
      BY <3>3, <3>4
  <2>5. Right(g, k + 1)
    <3> HIDE DEF g
    <3> QED
      BY <2>4
  <2>6. k + 1 \in Nat
    BY <2>2, SMT
  <2> HIDE DEF g, Right
  <2> QED
    BY <2>3, <2>5, <2>6
<1>3. T = Nat
  <2>1. T \subseteq Nat
    <3> HIDE DEF Right
    <3> QED
      OBVIOUS
  <2> HIDE DEF T
  <2> QED
    BY <1>1, <1>2, <2>1, Induction
<1>4. PICK h : h = [pos \in D |-> h[pos]] /\ Right(h, n + 2)
  <2>1. n + 2 \in T
    BY <1>3, SMT
  <2> HIDE DEF Right
  <2> QED
    BY <2>1
<1>5. \A pos \in D : h[pos] = ReadAt(octets, end, h, pos)
  <2>1. \A pos \in D : n + 1 - pos < n + 2
    BY SMT
  <2> QED
    BY <1>4, <2>1
<1>6. h = [pos \in D |-> ReadAt(octets, end, h, pos)]
  BY <1>4, <1>5
<1> QED
  BY <1>6

\* ParseGroup is that function, from the first parameter on.
LEMMA GroupRead ==
    ASSUME NEW octets, Len(octets) \in Nat, NEW end \in Nat, end <= Len(octets)
    PROVE  /\ ParseGroup(octets, end) = Reader(octets, end)[4]
           /\ \A pos \in 4 .. Len(octets) + 1 :
                 Reader(octets, end)[pos] = ReadAt(octets, end, Reader(octets, end), pos)
<1> DEFINE n == Len(octets)
           r == Reader(octets, end)
<1>1. ParseGroup(octets, end) = r[4]
  BY DEF ParseGroup, Reader, ReadAt
<1>2. \E read : read = [pos \in 4 .. n + 1 |-> ReadAt(octets, end, read, pos)]
  <2> HIDE DEF n
  <2> QED
    BY ReaderExists DEF n
<1>3. r = [pos \in 4 .. n + 1 |-> ReadAt(octets, end, r, pos)]
  BY <1>2 DEF Reader
<1>4. \A pos \in 4 .. n + 1 : r[pos] = ReadAt(octets, end, r, pos)
  <2> HIDE DEF r
  <2> QED
    BY <1>3
<1> QED
  BY <1>1, <1>4

\* A parameter is read where it lies whole inside the group.
LEMMA ParameterRead ==
    ASSUME NEW q \in Seq(Octet), NEW pos \in Nat, 4 <= pos, NEW size \in {2, 4},
           pos + 1 + size <= 23, 23 <= Len(q), q[pos + 1] = size, q[pos] \in 5 .. 8,
           Reader(q, 23)[pos + 2 + size].status = "Ok"
    PROVE  Reader(q, 23)[pos] =
               [status |-> "Ok",
                values |-> Assign(Quantity[q[pos] - 4], ParameterValue(q, pos),
                                  Reader(q, 23)[pos + 2 + size].values)]
<1> DEFINE r == Reader(q, 23)
<1>1. /\ pos \in 4 .. Len(q) + 1 /\ ~(pos > 23) /\ Len(q) \in Nat /\ 23 \in Nat
      /\ pos + 1 <= 23 /\ size \in 1 .. 4
  BY SMT
<1>2. Fits(q, pos, 23)
  BY <1>1 DEF Fits
<1>3. r[pos] = ReadAt(q, 23, r, pos)
  BY <1>1, GroupRead
<1> HIDE DEF r
<1>4. r[pos + 2 + size].status = "Ok"
  BY DEF r
<1>5. ReadAt(q, 23, r, pos) =
          [status |-> "Ok",
           values |-> Assign(Quantity[q[pos] - 4], ParameterValue(q, pos), r[pos + 2 + size].values)]
  BY <1>1, <1>2, <1>4 DEF ReadAt
<1> QED
  BY <1>3, <1>5 DEF r

\* A block that EncodeSnrmNegotiationBlock wrote is read whole, whatever follows it,
\* and gives back the values that the octets have room for.
LEMMA BlockRead ==
    ASSUME NEW p \in Params, p = EncodedParams(p), NEW user \in Seq(Octet)
    PROVE  ParseSnrmInfoField(EncodeSnrmNegotiationBlock(p) \o user)
               = [status |-> "Ok", consumed |-> 23, params |-> p]
<1> DEFINE th == (p.maxInfoTx \div 256) % 256
           tl == p.maxInfoTx % 256
           rh == (p.maxInfoRx \div 256) % 256
           rl == p.maxInfoRx % 256
           wt == p.windowTx % 256
           wr == p.windowRx % 256
           block == EncodeSnrmNegotiationBlock(p)
           q == block \o user
<1>1. /\ th \in Nat /\ tl \in Nat /\ rh \in Nat /\ rl \in Nat /\ wt \in Nat /\ wr \in Nat
      /\ th * 256 + tl = p.maxInfoTx /\ rh * 256 + rl = p.maxInfoRx
      /\ wt = p.windowTx /\ wr = p.windowRx
  <2>1. /\ p.maxInfoTx \in Nat /\ p.maxInfoRx \in Nat /\ p.windowTx \in Nat /\ p.windowRx \in Nat
    BY DEF Params
  <2>2. /\ p.maxInfoTx = p.maxInfoTx % 65536 /\ p.maxInfoRx = p.maxInfoRx % 65536
        /\ p.windowTx = p.windowTx % 256 /\ p.windowRx = p.windowRx % 256
    BY DEF EncodedParams
  <2>3. \A v \in Nat : v % 65536 <= 65535
    BY SMT
  <2>4. p.maxInfoTx <= 65535 /\ p.maxInfoRx <= 65535
    BY <2>1, <2>2, <2>3
  <2> DEFINE Whole(v) == /\ ((v \div 256) % 256) * 256 + (v % 256) = v
                         /\ (v \div 256) % 256 \in Nat /\ v % 256 \in Nat
  <2>5. \A v \in Nat : v <= 65535 => Whole(v)
    BY TwoOctets
  <2> HIDE DEF Whole
  <2>6. Whole(p.maxInfoTx) /\ Whole(p.maxInfoRx)
    BY <2>1, <2>4, <2>5
  <2>8. /\ th * 256 + tl = p.maxInfoTx /\ th \in Nat /\ tl \in Nat
        /\ rh * 256 + rl = p.maxInfoRx /\ rh \in Nat /\ rl \in Nat
    <3> HIDE DEF block, q
    <3> QED
      BY <2>6, Zenon DEF Whole
  <2>7. wt = p.windowTx /\ wr = p.windowRx
    BY <2>2
  <2> HIDE DEF th, tl, rh, rl, wt, wr, block, q
  <2> QED
    BY <2>1, <2>7, <2>8
<1>2. block \in Seq(Octet)
  BY BlockOctets
<1>3. block = <<129, 128, 20, 5, 2, th, tl, 6, 2, rh, rl, 7, 4, 0, 0, 0, wt, 8, 4, 0, 0, 0, wr>>
  BY DEF EncodeSnrmNegotiationBlock
<1> HIDE DEF th, tl, rh, rl, wt, wr, block
<1>4. /\ Len(block) = 23
      /\ block[1] = 129 /\ block[2] = 128 /\ block[3] = 20
      /\ block[4] = 5 /\ block[5] = 2 /\ block[6] = th /\ block[7] = tl
      /\ block[8] = 6 /\ block[9] = 2 /\ block[10] = rh /\ block[11] = rl
      /\ block[12] = 7 /\ block[13] = 4
      /\ block[14] = 0 /\ block[15] = 0 /\ block[16] = 0 /\ block[17] = wt
      /\ block[18] = 8 /\ block[19] = 4
      /\ block[20] = 0 /\ block[21] = 0 /\ block[22] = 0 /\ block[23] = wr
  BY <1>3
<1>5. /\ q \in Seq(Octet) /\ Len(q) = Len(block) + Len(user)
      /\ \A i \in 1 .. Len(block) : q[i] = block[i]
  BY <1>2, Joined
<1> HIDE DEF q
<1>6. /\ Len(q) \in Nat /\ 23 <= Len(q) /\ \A i \in 1 .. 23 : q[i] = block[i]
  <2>1. Len(user) \in Nat /\ Len(q) \in Nat
    BY <1>5, SMT
  <2>2. Len(q) = 23 + Len(user)
    BY <1>4, <1>5
  <2> QED
    BY <1>4, <1>5, <2>1, <2>2, SMT
<1>7. /\ q[1] = 129 /\ q[2] = 128 /\ q[3] = 20
      /\ q[4] = 5 /\ q[5] = 2 /\ q[6] = th /\ q[7] = tl
      /\ q[8] = 6 /\ q[9] = 2 /\ q[10] = rh /\ q[11] = rl
      /\ q[12] = 7 /\ q[13] = 4
      /\ q[14] = 0 /\ q[15] = 0 /\ q[16] = 0 /\ q[17] = wt
      /\ q[18] = 8 /\ q[19] = 4
      /\ q[20] = 0 /\ q[21] = 0 /\ q[22] = 0 /\ q[23] = wr
  BY <1>4, <1>6, SMT
<1>8. ASSUME NEW lo \in Nat \ {0}, NEW hi \in Nat, hi <= 23, lo <= hi + 1
      PROVE  /\ Len(SubSeq(q, lo, hi)) = hi - lo + 1
             /\ \A i \in 1 .. hi - lo + 1 : SubSeq(q, lo, hi)[i] = q[lo + i - 1]
  <2>1. hi <= Len(q)
    BY <1>6, <1>8, SMT
  <2>2. q \in Seq(Octet) /\ lo <= hi + 1
    BY <1>5, <1>8
  <2> QED
    BY <2>1, <2>2, Stretch
<1>9. ParameterValue(q, 4) = p.maxInfoTx
  <2> DEFINE o == SubSeq(q, 6, 7)
  <2>1. Len(o) = 7 - 6 + 1 /\ \A i \in 1 .. 7 - 6 + 1 : o[i] = q[6 + i - 1]
    BY <1>8, SMT
  <2> HIDE DEF o
  <2>2. Len(o) = 2 /\ o[1] = q[6] /\ o[2] = q[7]
    BY <2>1, SMT
  <2>3. Len(o) = 2 /\ o[1] = th /\ o[2] = tl /\ o[1] \in Nat /\ o[2] \in Nat
    BY <1>1, <1>7, <2>2
  <2>5. ParseBeValue(o) = o[1] * 256 + o[2]
    BY <2>3, TwoByteValue
  <2>4. 4 + 2 = 6 /\ 4 + 1 = 5 /\ 4 + 1 + q[5] = 7
    BY <1>7, SMT
  <2> QED
    BY <1>1, <2>3, <2>4, <2>5 DEF ParameterValue, o
<1>10. ParameterValue(q, 8) = p.maxInfoRx
  <2> DEFINE o == SubSeq(q, 10, 11)
  <2>1. Len(o) = 11 - 10 + 1 /\ \A i \in 1 .. 11 - 10 + 1 : o[i] = q[10 + i - 1]
    BY <1>8, SMT
  <2> HIDE DEF o
  <2>2. Len(o) = 2 /\ o[1] = q[10] /\ o[2] = q[11]
    BY <2>1, SMT
  <2>3. Len(o) = 2 /\ o[1] = rh /\ o[2] = rl /\ o[1] \in Nat /\ o[2] \in Nat
    BY <1>1, <1>7, <2>2
  <2>5. ParseBeValue(o) = o[1] * 256 + o[2]
    BY <2>3, TwoByteValue
  <2>4. 8 + 2 = 10 /\ 8 + 1 = 9 /\ 8 + 1 + q[9] = 11
    BY <1>7, SMT
  <2> QED
    BY <1>1, <2>3, <2>4, <2>5 DEF ParameterValue, o
<1>11. ParameterValue(q, 12) = p.windowTx
  <2> DEFINE o == SubSeq(q, 14, 17)
  <2>1. Len(o) = 17 - 14 + 1 /\ \A i \in 1 .. 17 - 14 + 1 : o[i] = q[14 + i - 1]
    BY <1>8, SMT
  <2> HIDE DEF o
  <2>2. Len(o) = 4 /\ o[1] = q[14] /\ o[2] = q[15] /\ o[3] = q[16] /\ o[4] = q[17]
    BY <2>1, SMT
  <2>3. Len(o) = 4 /\ o[1] = 0 /\ o[2] = 0 /\ o[3] = 0 /\ o[4] = wt /\ o[4] \in Nat
    BY <1>1, <1>7, <2>2
  <2>5. ParseBeValue(o) = o[4]
    BY <2>3, LastByteValue
  <2>4. 12 + 2 = 14 /\ 12 + 1 = 13 /\ 12 + 1 + q[13] = 17
    BY <1>7, SMT
  <2> QED
    BY <1>1, <2>3, <2>4, <2>5 DEF ParameterValue, o
<1>12. ParameterValue(q, 18) = p.windowRx
  <2> DEFINE o == SubSeq(q, 20, 23)
  <2>1. Len(o) = 23 - 20 + 1 /\ \A i \in 1 .. 23 - 20 + 1 : o[i] = q[20 + i - 1]
    BY <1>8, SMT
  <2> HIDE DEF o
  <2>2. Len(o) = 4 /\ o[1] = q[20] /\ o[2] = q[21] /\ o[3] = q[22] /\ o[4] = q[23]
    BY <2>1, SMT
  <2>3. Len(o) = 4 /\ o[1] = 0 /\ o[2] = 0 /\ o[3] = 0 /\ o[4] = wr /\ o[4] \in Nat
    BY <1>1, <1>7, <2>2
  <2>5. ParseBeValue(o) = o[4]
    BY <2>3, LastByteValue
  <2>4. 18 + 2 = 20 /\ 18 + 1 = 19 /\ 18 + 1 + q[19] = 23
    BY <1>7, SMT
  <2> QED
    BY <1>1, <2>3, <2>4, <2>5 DEF ParameterValue, o
<1> DEFINE r == Reader(q, 23)
           v4 == <<>>
           v3 == Assign("windowRx", p.windowRx, v4)
           v2 == Assign("windowTx", p.windowTx, v3)
           v1 == Assign("maxInfoRx", p.maxInfoRx, v2)
           v0 == Assign("maxInfoTx", p.maxInfoTx, v1)
<1>13. /\ Quantity[1] = "maxInfoTx" /\ Quantity[2] = "maxInfoRx"
       /\ Quantity[3] = "windowTx" /\ Quantity[4] = "windowRx"
  BY DEF Quantity
<1>14. r[24] = [status |-> "Ok", values |-> v4]
  <2>1. 24 \in 4 .. Len(q) + 1 /\ 24 > 23 /\ 23 \in Nat
    BY <1>6, SMT
  <2>3. \A pos \in 4 .. Len(q) + 1 : r[pos] = ReadAt(q, 23, r, pos)
    <3>1. Len(q) \in Nat /\ 23 <= Len(q)
      BY <1>6
    <3> QED
      BY <2>1, <3>1, GroupRead, Zenon
  <2> HIDE DEF r
  <2>2. r[24] = ReadAt(q, 23, r, 24)
    BY <2>1, <2>3
  <2> QED
    BY <2>1, <2>2 DEF ReadAt
<1>15. r[18] = [status |-> "Ok", values |-> v3]
  <2>1. /\ 18 \in Nat /\ 4 <= 18 /\ 4 \in {2, 4} /\ 18 + 1 + 4 <= 23 /\ 18 + 1 = 19 /\ 18 + 2 + 4 = 24
        /\ q[18] \in 5 .. 8 /\ q[18] - 4 = 4
    BY <1>7, SMT
  <2> HIDE DEF v4, r
  <2>2. q[18 + 1] = 4 /\ r[18 + 2 + 4].status = "Ok" /\ r[18 + 2 + 4].values = v4
    <3>1. q[19] = 4 /\ r[24].status = "Ok" /\ r[24].values = v4
      BY <1>7, <1>14
    <3>2. 18 + 1 = 19 /\ 18 + 2 + 4 = 24
      BY SMT
    <3> QED
      BY <3>1, <3>2
  <2>3. r[18] = [status |-> "Ok",
                 values |-> Assign(Quantity[q[18] - 4], ParameterValue(q, 18), r[18 + 2 + 4].values)]
    BY <1>5, <1>6, <2>1, <2>2, ParameterRead DEF r
  <2> HIDE DEF r
  <2> QED
    BY <1>12, <1>13, <2>1, <2>2, <2>3
<1>16. r[12] = [status |-> "Ok", values |-> v2]
  <2>1. /\ 12 \in Nat /\ 4 <= 12 /\ 4 \in {2, 4} /\ 12 + 1 + 4 <= 23 /\ 12 + 1 = 13 /\ 12 + 2 + 4 = 18
        /\ q[12] \in 5 .. 8 /\ q[12] - 4 = 3
    BY <1>7, SMT
  <2> HIDE DEF v3, r
  <2>2. q[12 + 1] = 4 /\ r[12 + 2 + 4].status = "Ok" /\ r[12 + 2 + 4].values = v3
    <3>1. q[13] = 4 /\ r[18].status = "Ok" /\ r[18].values = v3
      BY <1>7, <1>15
    <3>2. 12 + 1 = 13 /\ 12 + 2 + 4 = 18
      BY SMT
    <3> QED
      BY <3>1, <3>2
  <2>3. r[12] = [status |-> "Ok",
                 values |-> Assign(Quantity[q[12] - 4], ParameterValue(q, 12), r[12 + 2 + 4].values)]
    BY <1>5, <1>6, <2>1, <2>2, ParameterRead DEF r
  <2> HIDE DEF r
  <2> QED
    BY <1>11, <1>13, <2>1, <2>2, <2>3
<1>17. r[8] = [status |-> "Ok", values |-> v1]
  <2>1. /\ 8 \in Nat /\ 4 <= 8 /\ 2 \in {2, 4} /\ 8 + 1 + 2 <= 23 /\ 8 + 1 = 9 /\ 8 + 2 + 2 = 12
        /\ q[8] \in 5 .. 8 /\ q[8] - 4 = 2
    BY <1>7, SMT
  <2> HIDE DEF v2, r
  <2>2. q[8 + 1] = 2 /\ r[8 + 2 + 2].status = "Ok" /\ r[8 + 2 + 2].values = v2
    <3>1. q[9] = 2 /\ r[12].status = "Ok" /\ r[12].values = v2
      BY <1>7, <1>16
    <3>2. 8 + 1 = 9 /\ 8 + 2 + 2 = 12
      BY SMT
    <3> QED
      BY <3>1, <3>2
  <2>3. r[8] = [status |-> "Ok",
                values |-> Assign(Quantity[q[8] - 4], ParameterValue(q, 8), r[8 + 2 + 2].values)]
    BY <1>5, <1>6, <2>1, <2>2, ParameterRead DEF r
  <2> HIDE DEF r
  <2> QED
    BY <1>10, <1>13, <2>1, <2>2, <2>3
<1>18. r[4] = [status |-> "Ok", values |-> v0]
  <2>1. /\ 4 \in Nat /\ 4 <= 4 /\ 2 \in {2, 4} /\ 4 + 1 + 2 <= 23 /\ 4 + 1 = 5 /\ 4 + 2 + 2 = 8
        /\ q[4] \in 5 .. 8 /\ q[4] - 4 = 1
    BY <1>7, SMT
  <2> HIDE DEF v1, r
  <2>2. q[4 + 1] = 2 /\ r[4 + 2 + 2].status = "Ok" /\ r[4 + 2 + 2].values = v1
    <3>1. q[5] = 2 /\ r[8].status = "Ok" /\ r[8].values = v1
      BY <1>7, <1>17
    <3>2. 4 + 1 = 5 /\ 4 + 2 + 2 = 8
      BY SMT
    <3> QED
      BY <3>1, <3>2
  <2>3. r[4] = [status |-> "Ok",
                values |-> Assign(Quantity[q[4] - 4], ParameterValue(q, 4), r[4 + 2 + 2].values)]
    BY <1>5, <1>6, <2>1, <2>2, ParameterRead DEF r
  <2> HIDE DEF r
  <2> QED
    BY <1>9, <1>13, <2>1, <2>2, <2>3
<1>19. ParseGroup(q, 23) = [status |-> "Ok", values |-> v0]
  <2>1. ParseGroup(q, 23) = r[4]
    <3>1. Len(q) \in Nat /\ 23 <= Len(q) /\ 23 \in Nat
      BY <1>6, SMT
    <3> QED
      BY <3>1, GroupRead, Zenon
  <2> HIDE DEF r, v0
  <2> QED
    BY <1>18, <2>1
<1>20. [d \in DOMAIN DefaultValues |-> IF d \in DOMAIN v0 THEN v0[d] ELSE DefaultValues[d]] = p
  <2>1. /\ DOMAIN v0 = {"maxInfoTx", "maxInfoRx", "windowTx", "windowRx"}
        /\ v0["maxInfoTx"] = p.maxInfoTx /\ v0["maxInfoRx"] = p.maxInfoRx
        /\ v0["windowTx"] = p.windowTx /\ v0["windowRx"] = p.windowRx
    BY DEF Assign
  <2> HIDE DEF v0
  <2>2. DOMAIN DefaultValues = {"maxInfoTx", "maxInfoRx", "windowTx", "windowRx"}
    BY DEF DefaultValues
  <2>3. p = [d \in {"maxInfoTx", "maxInfoRx", "windowTx", "windowRx"} |-> v0[d]]
    BY <2>1 DEF Params
  <2> QED
    BY <2>1, <2>2, <2>3
<1>21. SubSeq(q, 1, 2) = <<129, 128>>
  <2> DEFINE o == SubSeq(q, 1, 2)
  <2>1. o \in Seq(Octet) /\ Len(o) = 2 - 1 + 1 /\ \A i \in 1 .. 2 - 1 + 1 : o[i] = q[1 + i - 1]
    <3>1. 1 \in Nat \ {0} /\ 2 \in Nat /\ 2 <= Len(q) /\ 1 <= 2 + 1
      BY <1>6, SMT
    <3> QED
      BY <1>5, <3>1, Stretch
  <2> HIDE DEF o
  <2>2. Len(o) = 2 /\ o[1] = 129 /\ o[2] = 128
    <3>1. Len(o) = 2 /\ o[1] = q[1] /\ o[2] = q[2]
      BY <2>1, SMT
    <3> QED
      BY <1>7, <3>1
  <2>3. Len(<<129, 128>>) = 2 /\ <<129, 128>>[1] = 129 /\ <<129, 128>>[2] = 128 /\ <<129, 128>> \in Seq(Octet)
    BY SMT DEF Octet
  <2>4. \A i \in 1 .. 2 : o[i] = <<129, 128>>[i]
    BY <2>2, <2>3, SMT
  <2>5. o = <<129, 128>>
    BY <2>1, <2>2, <2>3, <2>4, SameSequence
  <2> QED
    BY <2>5 DEF o
<1>22. ParseSnrmInfoField(q) = [status |-> "Ok", consumed |-> 23, params |-> p]
  <2>1. 3 + q[3] = 23
    BY <1>7
  <2>0. ~(Len(q) < 3) /\ ~(23 > Len(q))
    <3>1. \A n \in Nat : 23 <= n => ~(n < 3) /\ ~(23 > n)
      BY SMT
    <3> QED
      BY <1>6, <3>1
  <2> HIDE DEF v0
  <2> QED
    BY <1>19, <1>20, <1>21, <2>0, <2>1 DEF ParseSnrmInfoField
<1> QED
  BY <1>22 DEF q, block

-----------------------------------------------------------------------------
(***************************************************************************)
(* What the session at the other end sees.                                 *)
(***************************************************************************)
\* The control fields of an I-frame and an RR give back their kind and sequence numbers.
LEMMA NumbersRead ==
    ASSUME NEW ns \in SequenceNumber, NEW nr \in SequenceNumber, NEW pollFinal \in BOOLEAN
    PROVE  LET i == MakeInformationControl(ns, nr, pollFinal)
               r == MakeReceiveReadyControl(nr, pollFinal)
           IN  /\ IsInformation(i) /\ SendSequence(i) = ns /\ ReceiveSequence(i) = nr
               /\ ~IsInformation(r) /\ IsSupervisory(r) /\ ControlKind(r) = "RR"
               /\ ReceiveSequence(r) = nr
<1> DEFINE p == IF pollFinal THEN 16 ELSE 0
           i == 2 * ns + p + 32 * nr
           r == 1 + p + 32 * nr
<1>1. /\ ns \in Nat /\ ns <= 7 /\ nr \in Nat /\ nr <= 7 /\ p \in {0, 16}
      /\ ns % 8 = ns /\ nr % 8 = nr
  BY SMT DEF SequenceNumber, Modulus
<1>2. MakeInformationControl(ns, nr, pollFinal) = i /\ MakeReceiveReadyControl(nr, pollFinal) = r
  BY <1>1 DEF MakeInformationControl, MakeReceiveReadyControl
<1> HIDE DEF p
<1>3. i % 2 = 0 /\ i % 4 # 3 /\ (i \div 2) % 8 = ns /\ (i \div 32) % 8 = nr
  BY <1>1, SMT
<1>4. r % 2 # 0 /\ r % 4 = 1 /\ r % 4 # 3 /\ (r \div 4) % 4 = 0 /\ (r \div 32) % 8 = nr
  BY <1>1, SMT
<1> HIDE DEF i, r
<1>5. IsInformation(i) /\ SendSequence(i) = ns /\ ReceiveSequence(i) = nr
  BY <1>3 DEF IsInformation, IsUnnumbered, SendSequence, ReceiveSequence
<1>6. SupervisoryCode[0 + 1] = "RR"
  BY SMT DEF SupervisoryCode
<1>7. ~IsInformation(r) /\ IsSupervisory(r) /\ ReceiveSequence(r) = nr
  BY <1>4 DEF IsInformation, IsSupervisory, IsUnnumbered, ReceiveSequence
<1>8. ControlKind(r) = "RR"
  BY <1>4, <1>6, <1>7 DEF ControlKind
<1> QED
  BY <1>2, <1>5, <1>7, <1>8

\* So do those of the unnumbered frames.
LEMMA KindRead ==
    ASSUME NEW kind \in {"SNRM", "UA", "DISC", "DM"}
    PROVE  ControlKind(SessionControl[kind]) = kind
<1> DEFINE c == SessionControl[kind]
<1>1. ~IsInformation(c) /\ ~IsSupervisory(c) /\ WithoutPollFinal(c) = UnnumberedCode[kind]
  BY UnnumberedControls
<1>2. kind \in DOMAIN UnnumberedCode
  BY DEF UnnumberedCode
<1>3. \A k \in DOMAIN UnnumberedCode : UnnumberedCode[k] = UnnumberedCode[kind] => k = kind
  BY SMT DEF UnnumberedCode
<1> HIDE DEF c
<1>4. ControlKind(c) = CHOOSE k \in DOMAIN UnnumberedCode : UnnumberedCode[k] = UnnumberedCode[kind]
  BY <1>1 DEF ControlKind
<1> QED
  BY <1>2, <1>3, <1>4 DEF c

\* What stands behind the first part of a sequence.
LEMMA FromBehind ==
    ASSUME NEW p \in Seq(Octet), NEW q \in Seq(Octet)
    PROVE  From(p \o q, Len(p) + 1) = q
<1> DEFINE s == p \o q
<1>1. /\ s \in Seq(Octet) /\ Len(s) = Len(p) + Len(q)
      /\ \A i \in 1 .. Len(q) : s[Len(p) + i] = q[i]
  BY Joined
<1> HIDE DEF s
<1>2. Len(p) \in Nat /\ Len(q) \in Nat /\ Len(s) \in Nat
  BY <1>1, SMT
<1>3. Len(p) + Len(q) <= Len(s)
  BY <1>1, <1>2, SMT
<1>4. SubSeq(s, Len(p) + 1, Len(p) + Len(q)) = q
  BY <1>1, <1>2, <1>3, Repeats
<1> QED
  BY <1>1, <1>4 DEF From, s

LEMMA FromStart ==
    ASSUME NEW q \in Seq(Octet)
    PROVE  From(q, 1) = q
<1>1. SubSeq(q, 1, Len(q)) = q
  BY SMT
<1> QED
  BY <1>1 DEF From

\* The receiver of a session's frame sees the frame, and the user information in it.
Seen(b) ==
    /\ AsSeen(BuildFrame(b)) = b.frame
    /\ b.frame.kind \in UnnumberedKind => UserInformation(BuildFrame(b)) = b.user

LEMMA NumberedSeen ==
    ASSUME NEW b \in Built, b.frame.kind \in {"I", "RR"}
    PROVE  Seen(b)
<1> DEFINE f == b.frame
           m == BuildFrame(b)
<1>1. f \in Frame /\ b.pollFinal \in BOOLEAN /\ (f.kind = "I" => f.size = Len(f.payload))
  BY TransferAssumption DEF BuiltBySession
<1>2. /\ m.destination = f.destination /\ m.source = f.source
      /\ m.control = ControlOf(b) /\ m.information = InformationOf(b)
  BY DEF BuildFrame
<1>3. CASE f.kind = "I"
  <2>1. f \in InformationFrame
    BY <1>1, <1>3 DEF Frame, UnnumberedFrame, SupervisoryFrame, UnnumberedKind, SupervisoryKind
  <2>2. /\ ControlOf(b) = MakeInformationControl(f.ns, f.nr, b.pollFinal)
        /\ InformationOf(b) = f.payload
    BY <1>3 DEF ControlOf, InformationOf
  <2>3. f.ns \in SequenceNumber /\ f.nr \in SequenceNumber
    BY <2>1 DEF InformationFrame
  <2> HIDE DEF f, m
  <2>4. IsInformation(m.control) /\ SendSequence(m.control) = f.ns /\ ReceiveSequence(m.control) = f.nr
    BY <1>1, <1>2, <2>2, <2>3, NumbersRead
  <2>5. AsSeen(m) = [kind |-> "I", destination |-> f.destination, source |-> f.source,
                     ns |-> f.ns, nr |-> f.nr, size |-> f.size, payload |-> f.payload]
    BY <1>1, <1>2, <1>3, <2>2, <2>4 DEF AsSeen
  <2>6. f = [kind |-> "I", destination |-> f.destination, source |-> f.source,
             ns |-> f.ns, nr |-> f.nr, size |-> f.size, payload |-> f.payload]
    BY <2>1 DEF InformationFrame
  <2> QED
    BY <1>3, <2>5, <2>6 DEF Seen, UnnumberedKind, f, m
<1>4. CASE f.kind = "RR"
  <2>1. f \in SupervisoryFrame
    BY <1>1, <1>4 DEF Frame, UnnumberedFrame, InformationFrame, UnnumberedKind, SupervisoryKind
  <2>2. ControlOf(b) = MakeReceiveReadyControl(f.nr, b.pollFinal)
    BY <1>4 DEF ControlOf
  <2>3. f.nr \in SequenceNumber
    BY <2>1 DEF SupervisoryFrame
  <2> HIDE DEF f, m
  <2>4. /\ ~IsInformation(m.control) /\ IsSupervisory(m.control)
        /\ ControlKind(m.control) = "RR" /\ ReceiveSequence(m.control) = f.nr
    BY <1>1, <1>2, <2>2, <2>3, NumbersRead
  <2>5. AsSeen(m) = [kind |-> "RR", destination |-> f.destination, source |-> f.source, nr |-> f.nr]
    BY <1>2, <2>4 DEF AsSeen
  <2>6. f = [kind |-> "RR", destination |-> f.destination, source |-> f.source, nr |-> f.nr]
    BY <1>4, <2>1 DEF SupervisoryFrame
  <2> QED
    BY <1>4, <2>5, <2>6 DEF Seen, UnnumberedKind, f, m
<1> QED
  BY <1>3, <1>4

LEMMA UnnumberedSeen ==
    ASSUME NEW b \in Built, b.frame.kind \in {"SNRM", "UA", "DISC", "DM"}
    PROVE  Seen(b)
<1> DEFINE f == b.frame
           m == BuildFrame(b)
<1>1. /\ f \in Frame /\ f.kind \in UnnumberedKind /\ b.user \in Seq(Octet) /\ f.user = Len(b.user)
      /\ \/ f.block = NoBlock /\ (f.kind # "DISC" => b.user = <<>>)
         \/ /\ f.kind \in {"SNRM", "UA"} /\ f.block.form = "present"
            /\ f.block.params = EncodedParams(f.block.params)
  BY TransferAssumption DEF BuiltBySession, UnnumberedKind
<1>2. /\ m.destination = f.destination /\ m.source = f.source
      /\ m.control = SessionControl[f.kind] /\ m.information = InformationOf(b)
  BY DEF BuildFrame, ControlOf
<1>3. InformationOf(b) = (IF f.block.form = "present"
                          THEN EncodeSnrmNegotiationBlock(f.block.params) ELSE <<>>) \o b.user
  BY DEF InformationOf
<1>4. /\ ControlKind(m.control) = f.kind /\ ~IsInformation(m.control) /\ ~IsSupervisory(m.control)
  <2> HIDE DEF f, m
  <2>1. f.kind \in {"SNRM", "UA", "DISC", "DM"}
    BY DEF f
  <2> QED
    BY <1>2, <2>1, KindRead, UnnumberedControls
<1>5. f \in UnnumberedFrame
  BY <1>1 DEF Frame, InformationFrame, SupervisoryFrame, UnnumberedKind, SupervisoryKind
<1>6. f = [kind |-> f.kind, destination |-> f.destination, source |-> f.source,
           block |-> f.block, user |-> f.user]
  BY <1>5 DEF UnnumberedFrame
<1> HIDE DEF f, m
<1>7. ASSUME BlockOf(Parsed(m)) = f.block, UserInformation(m) = b.user
      PROVE  Seen(b)
  <2>1. AsSeen(m) = [kind |-> f.kind, destination |-> f.destination, source |-> f.source,
                     block |-> f.block, user |-> f.user]
    BY <1>1, <1>2, <1>4, <1>7 DEF AsSeen
  <2> QED
    BY <1>6, <1>7, <2>1 DEF Seen, f, m
<1>8. CASE f.block = NoBlock /\ (f.kind # "DISC" => b.user = <<>>)
  <2>1. f.block.form # "present"
    BY <1>8 DEF NoBlock
  <2>2. m.information = <<>> \o b.user
    BY <1>2, <1>3, <2>1
  <2>3. <<>> \o b.user = b.user
    BY <1>1, SMT
  <2>4. Parsed(m) = [status |-> "Ok", params |-> DefaultValues, consumed |-> 0]
    BY <1>4, <1>8, <2>2, <2>3 DEF Parsed
  <2>5. BlockOf(Parsed(m)) = NoBlock
    BY <2>4 DEF BlockOf
  <2>6. From(m.information, 1) = b.user
    BY <1>1, <2>2, <2>3, FromStart
  <2>7. UserInformation(m) = b.user
    BY <2>4, <2>6 DEF UserInformation
  <2> QED
    BY <1>7, <1>8, <2>5, <2>7
<1>9. CASE /\ f.kind \in {"SNRM", "UA"} /\ f.block.form = "present"
           /\ f.block.params = EncodedParams(f.block.params)
  <2> DEFINE p == f.block.params
             block == EncodeSnrmNegotiationBlock(p)
  <2>1. p \in Params /\ f.block = [form |-> "present", params |-> p]
    BY <1>5, <1>9 DEF UnnumberedFrame, NegotiationBlock
  <2>2. m.information = block \o b.user
    BY <1>2, <1>3, <1>9
  <2>3. ParseSnrmInfoField(block \o b.user) = [status |-> "Ok", consumed |-> 23, params |-> p]
    BY <1>1, <1>9, <2>1, BlockRead
  <2>4. block \in Seq(Octet)
    BY <2>1, BlockOctets
  <2>5. Len(block) = 23
    BY DEF EncodeSnrmNegotiationBlock
  <2> HIDE DEF p, block
  <2>6. From(block \o b.user, 23 + 1) = b.user
    BY <1>1, <2>4, <2>5, FromBehind
  <2>7. block \o b.user # <<>>
    <3>1. Len(block \o b.user) = Len(block) + Len(b.user) /\ Len(b.user) \in Nat
      BY <1>1, <2>4, Joined
    <3>2. \A n \in Nat : 23 + n # 0
      BY SMT
    <3>3. Len(<<>>) = 0
      BY SMT
    <3> QED
      BY <2>5, <3>1, <3>2, <3>3
  <2>8. Parsed(m) = [status |-> "Ok", consumed |-> 23, params |-> p]
    BY <1>4, <1>9, <2>2, <2>3, <2>7 DEF Parsed
  <2>9. BlockOf(Parsed(m)) = f.block
    BY <2>1, <2>8 DEF BlockOf
  <2>10. UserInformation(m) = b.user
    BY <2>2, <2>6, <2>8 DEF UserInformation
  <2> QED
    BY <1>7, <2>9, <2>10
<1> QED
  BY <1>1, <1>8, <1>9

-----------------------------------------------------------------------------
(***************************************************************************)
(* The parameter block of a stranger.                                      *)
(***************************************************************************)
\* The n octets behind the first few, and what an octet is.
LEMMA Portion ==
    ASSUME NEW s \in Seq(Octet), NEW lo \in Nat, NEW n \in Nat, lo + n <= Len(s)
    PROVE  /\ SubSeq(s, lo + 1, lo + n) \in Seq(Octet) /\ Len(SubSeq(s, lo + 1, lo + n)) = n
           /\ \A i \in 1 .. n : SubSeq(s, lo + 1, lo + n)[i] = s[lo + i]
<1> DEFINE p == SubSeq(s, lo + 1, lo + n)
<1>1. /\ lo + 1 \in Nat \ {0} /\ lo + n \in Nat /\ lo + 1 <= lo + n + 1
      /\ lo + n - (lo + 1) + 1 = n
  BY SMT
<1>2. /\ p \in Seq(Octet) /\ Len(p) = lo + n - (lo + 1) + 1
      /\ \A i \in 1 .. lo + n - (lo + 1) + 1 : p[i] = s[lo + 1 + i - 1]
  BY <1>1, Stretch
<1>3. \A i \in 1 .. n : lo + 1 + i - 1 = lo + i
  BY SMT
<1> HIDE DEF p
<1>4. ASSUME NEW i \in 1 .. n
      PROVE  p[i] = s[lo + i]
  <2>1. p[i] = s[lo + 1 + i - 1]
    BY <1>1, <1>2
  <2>2. lo + 1 + i - 1 = lo + i
    BY <1>3
  <2> QED
    BY <2>1, <2>2
<1> QED
  BY <1>1, <1>2, <1>4 DEF p

LEMMA OctetsAreNumbers ==
    ASSUME NEW s \in Seq(Octet), NEW i \in 1 .. Len(s)
    PROVE  s[i] \in Nat
<1>1. s[i] \in Octet
  OBVIOUS
<1>2. \A o \in Octet : o \in Nat
  BY SMT DEF Octet
<1> QED
  BY <1>1, <1>2

\* The octets g are the group of the field q, and Read[pos] is what is read of q from pos
\* to the end of its group.
GroupOf(q, g) ==
    /\ q \in Seq(Octet) /\ g \in Seq(Octet) /\ 3 + Len(g) <= Len(q)
    /\ \A i \in 1 .. Len(g) : g[i] = q[i + 3]

ReadOf(q, g) == Reader(q, 3 + Len(g))

\* The tests of the loop are those of the grammar.
LEMMA FitsIsTagged ==
    ASSUME NEW q, NEW g, GroupOf(q, g), NEW c \in Nat, NEW d \in Nat, c < d, d <= Len(g)
    PROVE  IsTagged(SubSeq(g, c + 1, d)) <=>
               Fits(q, c + 4, 3 + Len(g)) /\ q[c + 4] \in 5 .. 8 /\ d = c + 2 + q[c + 5]
<1> DEFINE n == Len(g)
           p == SubSeq(g, c + 1, d)
<1>1. n \in Nat /\ d <= n /\ 3 + n <= Len(q) /\ Len(q) \in Nat /\ g \in Seq(Octet) /\ q \in Seq(Octet)
  BY DEF GroupOf
<1>2. Len(p) = d - c /\ \A i \in 1 .. d - c : p[i] = g[c + i]
  <2>1. d - c \in Nat /\ c + (d - c) = d
    BY SMT
  <2> QED
    BY <1>1, <2>1, Portion
<1> HIDE DEF p, n
<1>3. \A i \in 1 .. d - c : p[i] = q[c + i + 3]
  <2>1. \A i \in 1 .. n : g[i] = q[i + 3]
    BY DEF GroupOf, n
  <2>2. \A i \in 1 .. d - c : c + i \in 1 .. n
    BY <1>1, SMT
  <2> QED
    BY <1>2, <2>1, <2>2
<1>4. c + 4 \in 1 .. Len(q) /\ q[c + 4] \in Nat
  <2>1. c + 4 \in 1 .. Len(q)
    BY <1>1, SMT
  <2> QED
    BY <1>1, <2>1, OctetsAreNumbers
<1>5. c + 5 <= 3 + n => q[c + 5] \in Nat
  <2>1. c + 5 <= 3 + n => c + 5 \in 1 .. Len(q)
    BY <1>1, SMT
  <2> QED
    BY <1>1, <2>1, OctetsAreNumbers
<1>6. Fits(q, c + 4, 3 + n) <=>
          c + 5 <= 3 + n /\ q[c + 5] \in 1 .. 4 /\ c + 5 + q[c + 5] <= 3 + n
  <2>1. c + 4 + 1 = c + 5
    BY SMT
  <2> QED
    BY <2>1 DEF Fits
<1>7. ASSUME IsTagged(p)
      PROVE  Fits(q, c + 4, 3 + n) /\ q[c + 4] \in 5 .. 8 /\ d = c + 2 + q[c + 5]
  <2>1. d - c \in 3 .. 6 /\ p[1] \in 5 .. 8 /\ p[2] = d - c - 2
    BY <1>2, <1>7 DEF IsTagged
  <2>2. 1 \in 1 .. d - c /\ 2 \in 1 .. d - c /\ c + 1 + 3 = c + 4 /\ c + 2 + 3 = c + 5
    BY <2>1, SMT
  <2>3. p[1] = q[c + 4] /\ p[2] = q[c + 5]
    BY <1>3, <2>2
  <2>4. q[c + 5] = d - c - 2 /\ d - c - 2 \in 1 .. 4 /\ d = c + 2 + (d - c - 2)
        /\ c + 5 <= 3 + n /\ c + 5 + (d - c - 2) <= 3 + n
    BY <1>1, <2>1, <2>3, SMT
  <2> QED
    BY <1>6, <2>1, <2>3, <2>4
<1>8. ASSUME Fits(q, c + 4, 3 + n), q[c + 4] \in 5 .. 8, d = c + 2 + q[c + 5]
      PROVE  IsTagged(p)
  <2>1. c + 5 <= 3 + n /\ q[c + 5] \in 1 .. 4
    BY <1>6, <1>8
  <2>2. d - c \in 3 .. 6 /\ q[c + 5] = d - c - 2
    <3> DEFINE k == q[c + 5]
    <3>1. k \in 1 .. 4 /\ d = c + 2 + k
      BY <1>8, <2>1
    <3> HIDE DEF k
    <3>2. d - c \in 3 .. 6 /\ k = d - c - 2
      BY <3>1, SMT
    <3> QED
      BY <3>2 DEF k
  <2>3. 1 \in 1 .. d - c /\ 2 \in 1 .. d - c /\ c + 1 + 3 = c + 4 /\ c + 2 + 3 = c + 5
    BY <2>2, SMT
  <2>4. p[1] = q[c + 4] /\ p[2] = q[c + 5]
    BY <1>3, <2>3
  <2> QED
    BY <1>2, <1>8, <2>2, <2>4 DEF IsTagged
<1> QED
  BY <1>7, <1>8 DEF n, p

\* The value is read out of the same octets.
LEMMA PieceValue ==
    ASSUME NEW q, NEW g, GroupOf(q, g), NEW c \in Nat, Fits(q, c + 4, 3 + Len(g))
    PROVE  ParameterValue(q, c + 4) = BigEndian(SubSeq(g, c + 3, c + 2 + q[c + 5]))
<1> DEFINE n == q[c + 5]
           m == Len(g)
           o == SubSeq(q, c + 6, c + 5 + n)
           p == SubSeq(g, c + 3, c + 2 + n)
<1>1. m \in Nat /\ 3 + m <= Len(q) /\ Len(q) \in Nat /\ g \in Seq(Octet) /\ q \in Seq(Octet)
      /\ \A i \in 1 .. m : g[i] = q[i + 3]
  BY DEF GroupOf
<1>2. n \in 1 .. 4 /\ c + 5 + n <= 3 + m
  <2>1. c + 4 + 1 = c + 5
    BY SMT
  <2> QED
    BY <2>1 DEF Fits
<1> HIDE DEF n, m
<1>3. o \in Seq(Octet) /\ Len(o) = n /\ \A i \in 1 .. n : o[i] = q[c + 5 + i]
  <2>1. c + 5 \in Nat /\ n \in Nat /\ c + 5 + n <= Len(q) /\ c + 5 + 1 = c + 6
    BY <1>1, <1>2, SMT
  <2> QED
    BY <1>1, <2>1, Portion
<1>4. p \in Seq(Octet) /\ Len(p) = n /\ \A i \in 1 .. n : p[i] = q[c + 5 + i]
  <2>1. c + 2 \in Nat /\ n \in Nat /\ c + 2 + n <= m /\ c + 2 + 1 = c + 3
    BY <1>1, <1>2, SMT
  <2>2. p \in Seq(Octet) /\ Len(p) = n /\ \A i \in 1 .. n : p[i] = g[c + 2 + i]
    BY <1>1, <2>1, Portion DEF m
  <2> HIDE DEF p
  <2>3. ASSUME NEW i \in 1 .. n
        PROVE  p[i] = q[c + 5 + i]
    <3>1. c + 2 + i \in 1 .. m /\ c + 2 + i + 3 = c + 5 + i
      BY <1>1, <1>2, SMT
    <3>2. g[c + 2 + i] = q[c + 2 + i + 3]
      BY <1>1, <3>1
    <3> QED
      BY <2>2, <3>1, <3>2
  <2> QED
    BY <2>2, <2>3
<1> HIDE DEF o, p
<1>5. o = p
  BY <1>3, <1>4, SameSequence
<1>6. ParseBeValue(o) = BigEndian(o)
  <2>1. \A i \in 1 .. n : o[i] \in Nat
    BY <1>3, OctetsAreNumbers
  <2> QED
    BY <1>2, <1>3, <2>1, BigEndianValue
<1>7. ParameterValue(q, c + 4) = ParseBeValue(o)
  <2>1. c + 4 + 2 = c + 6 /\ c + 4 + 1 = c + 5 /\ c + 4 + 1 + n = c + 5 + n
    BY <1>2, SMT
  <2> QED
    BY <2>1 DEF ParameterValue, o, n
<1> QED
  BY <1>5, <1>6, <1>7 DEF p, n

\* A cut that is not the last one begins a piece.
LEMMA NextCut ==
    ASSUME NEW g, NEW C, C \subseteq Nat, NEW m \in C, \A x \in C : x <= m, NEW c \in C, c # m
    PROVE  \E d \in C : c < d /\ <<c, d>> \in Pieces(g, C)
<1> DEFINE B == {x \in C : c < x}
<1>1. m \in B
  BY SMT
<1>2. PICK d \in B : \A x \in B : d <= x
  BY <1>1, LeastNumber
<1>3. \A x \in C : x <= c \/ d <= x
  <2> SUFFICES ASSUME NEW x \in C, ~(x <= c) PROVE d <= x
    OBVIOUS
  <2>1. c < x
    BY SMT
  <2> QED
    BY <1>2, <2>1
<1> QED
  BY <1>2, <1>3 DEF Pieces

\* A group can be cut in one way only: each piece says how long it is.
LEMMA OneWayToCut ==
    ASSUME NEW q, NEW g, GroupOf(q, g), NEW C \in Cuts(g), IsGroup(g, C),
           NEW D \in Cuts(g), IsGroup(g, D)
    PROVE  C \subseteq D
<1> DEFINE m == Len(g)
           S == {k \in Nat : \A c \in C \cap D : m - c < k => \A x \in C : c <= x => x \in D}
<1>1. m \in Nat
  BY SMT DEF GroupOf
<1>2. /\ C \subseteq Nat /\ 0 \in C /\ m \in C /\ \A c \in C : c <= m
      /\ D \subseteq Nat /\ 0 \in D /\ m \in D /\ \A d \in D : d <= m
  BY <1>1, SMT DEF Cuts
<1> HIDE DEF m
<1>3. 0 \in S
  BY <1>1, <1>2, SMT
<1>4. ASSUME NEW k \in S
      PROVE  k + 1 \in S
  <2>1. k \in Nat /\ \A c \in C \cap D : m - c < k => \A x \in C : c <= x => x \in D
    OBVIOUS
  <2>2. ASSUME NEW c \in C \cap D, m - c < k + 1, NEW x \in C, c <= x
        PROVE  x \in D
    <3>1. CASE c = m
      <4>1. x = c
        BY <1>1, <1>2, <2>2, <3>1, SMT
      <4> QED
        BY <4>1
    <3>2. CASE c # m
      <4>1. PICK d \in C : c < d /\ <<c, d>> \in Pieces(g, C)
        BY <1>2, <3>2, NextCut
      <4>2. PICK e \in D : c < e /\ <<c, e>> \in Pieces(g, D)
        BY <1>2, <3>2, NextCut
      <4>3. IsTagged(SubSeq(g, c + 1, d)) /\ IsTagged(SubSeq(g, c + 1, e))
        BY <4>1, <4>2 DEF IsGroup
      <4>4. c \in Nat /\ d \in Nat /\ e \in Nat /\ d <= m /\ e <= m
        BY <1>2
      <4>5. d = c + 2 + q[c + 5] /\ e = c + 2 + q[c + 5]
        BY <4>1, <4>2, <4>3, <4>4, FitsIsTagged DEF m
      <4>6. d \in C \cap D /\ m - d < k
        <5>1. d \in C \cap D
          BY <4>5
        <5>2. m - d < k
          BY <1>1, <2>1, <2>2, <4>1, <4>4, SMT
        <5> QED
          BY <5>1, <5>2
      <4>7. x <= c \/ d <= x
        BY <4>1 DEF Pieces
      <4>8. CASE d <= x
        BY <2>1, <4>6, <4>8
      <4>9. CASE x <= c
        <5>1. x = c
          BY <1>2, <2>2, <4>4, <4>9, SMT
        <5> QED
          BY <5>1
      <4> QED
        BY <4>7, <4>8, <4>9
    <3> QED
      BY <3>1, <3>2
  <2> QED
    BY <2>1, <2>2, SMT
<1>5. S = Nat
  <2>1. S \subseteq Nat
    OBVIOUS
  <2> HIDE DEF S
  <2> QED
    BY <1>3, <1>4, <2>1, Induction
<1>6. m + 1 \in S /\ m - 0 < m + 1
  BY <1>1, <1>5, SMT
<1>7. \A x \in C : 0 <= x => x \in D
  BY <1>2, <1>6
<1> QED
  BY <1>2, <1>7, SMT

\* From wherever a group can be cut, it is read without an error.
LEMMA CutsAreRead ==
    ASSUME NEW q, NEW g, GroupOf(q, g), NEW C \in Cuts(g), IsGroup(g, C)
    PROVE  \A c \in C : ReadOf(q, g)[c + 4].status = "Ok"
<1> DEFINE m == Len(g)
           r == ReadOf(q, g)
           S == {k \in Nat : \A c \in C : m - c < k => r[c + 4].status = "Ok"}
<1>1. m \in Nat /\ 3 + m <= Len(q) /\ Len(q) \in Nat /\ 3 + m \in Nat
  BY SMT DEF GroupOf
<1>2. /\ C \subseteq Nat /\ m \in C /\ \A c \in C : c <= m
  BY <1>1, SMT DEF Cuts
<1>3. \A pos \in 4 .. Len(q) + 1 : r[pos] = ReadAt(q, 3 + m, r, pos)
  BY <1>1, GroupRead DEF ReadOf
<1> HIDE DEF m, r
<1>4. 0 \in S
  BY <1>1, <1>2, SMT
<1>5. ASSUME NEW k \in S
      PROVE  k + 1 \in S
  <2>1. k \in Nat /\ \A c \in C : m - c < k => r[c + 4].status = "Ok"
    OBVIOUS
  <2>2. ASSUME NEW c \in C, m - c < k + 1
        PROVE  r[c + 4].status = "Ok"
    <3>1. c \in Nat /\ c <= m /\ c + 4 \in 4 .. Len(q) + 1
      BY <1>1, <1>2, SMT
    <3>2. r[c + 4] = ReadAt(q, 3 + m, r, c + 4)
      BY <1>3, <3>1
    <3>3. CASE c = m
      <4>1. c + 4 > 3 + m
        BY <1>1, <3>3, SMT
      <4> QED
        BY <3>2, <4>1 DEF ReadAt
    <3>4. CASE c # m
      <4>1. PICK d \in C : c < d /\ <<c, d>> \in Pieces(g, C)
        BY <1>2, <3>4, NextCut
      <4>2. d \in Nat /\ d <= m /\ m - d < k /\ ~(c + 4 > 3 + m)
        BY <1>1, <1>2, <2>1, <2>2, <3>1, <4>1, SMT
      <4>3. IsTagged(SubSeq(g, c + 1, d))
        BY <4>1 DEF IsGroup
      <4>4. Fits(q, c + 4, 3 + m) /\ q[c + 4] \in 5 .. 8 /\ d = c + 2 + q[c + 5]
        BY <3>1, <4>1, <4>2, <4>3, FitsIsTagged DEF m
      <4>5. c + 4 + 1 = c + 5 /\ c + 4 + 2 + q[c + 5] = d + 4
        <5>1. c + 4 + 1 = c + 5
          BY <3>1, SMT
        <5>2. q[c + 5] \in 1 .. 4
          BY <4>4, <5>1 DEF Fits
        <5> DEFINE n == q[c + 5]
        <5>3. n \in 1 .. 4 /\ d = c + 2 + n /\ c \in Nat
          BY <3>1, <4>4, <5>2
        <5> HIDE DEF n
        <5>4. c + 4 + 2 + n = c + 2 + n + 4
          BY <5>3, SMT
        <5> QED
          BY <5>1, <5>3, <5>4 DEF n
      <4>6. r[d + 4].status = "Ok"
        BY <2>1, <4>2
      <4> QED
        BY <3>2, <4>2, <4>4, <4>5, <4>6 DEF ReadAt
    <3> QED
      BY <3>3, <3>4
  <2> QED
    BY <2>1, <2>2, SMT
<1>6. S = Nat
  <2>1. S \subseteq Nat
    OBVIOUS
  <2> HIDE DEF S
  <2> QED
    BY <1>4, <1>5, <2>1, Induction
<1>7. ASSUME NEW c \in C
      PROVE  r[c + 4].status = "Ok"
  <2>1. m - c + 1 \in S /\ m - c < m - c + 1
    BY <1>1, <1>2, <1>6, SMT
  <2> QED
    BY <2>1
<1> QED
  BY <1>7 DEF r

\* What is read into v are the values that the pieces of the group give: those of a
\* quantity's last one.
GivenBy(g, C, k) ==
    {piece \in Pieces(g, C) : Quantity[g[piece[1] + 1] - 4] = Quantity[k]}

LastGiven(g, C, k, p) == p \in GivenBy(g, C, k) /\ \A o \in GivenBy(g, C, k) : o[1] <= p[1]

PieceNumber(g, p) == BigEndian(SubSeq(g, p[1] + 3, p[2]))

Tells(g, C, k, v) ==
    \/ GivenBy(g, C, k) = {} /\ Quantity[k] \notin DOMAIN v
    \/ \E p : LastGiven(g, C, k, p) /\ Quantity[k] \in DOMAIN v /\ v[Quantity[k]] = PieceNumber(g, p)

\* The value in v, or the default.
Told(v, quantity) == IF quantity \in DOMAIN v THEN v[quantity] ELSE DefaultValues[quantity]

LEMMA LastPiece ==
    ASSUME NEW g, NEW C, C \subseteq Nat, NEW k, NEW p, LastGiven(g, C, k, p),
           NEW o, LastGiven(g, C, k, o)
    PROVE  o = p
<1>1. /\ p \in C \X C /\ o \in C \X C /\ p[1] < p[2] /\ o[1] < o[2]
      /\ \A x \in C : (x <= p[1] \/ p[2] <= x) /\ (x <= o[1] \/ o[2] <= x)
      /\ o[1] <= p[1] /\ p[1] <= o[1]
  BY DEF LastGiven, GivenBy, Pieces
<1>2. p[1] \in C /\ p[2] \in C /\ o[1] \in C /\ o[2] \in C /\ p = <<p[1], p[2]>> /\ o = <<o[1], o[2]>>
  BY <1>1
<1>3. p[1] \in Nat /\ p[2] \in Nat /\ o[1] \in Nat /\ o[2] \in Nat
  BY <1>2
<1>4. (o[2] <= p[1] \/ p[2] <= o[2]) /\ (p[2] <= o[1] \/ o[2] <= p[2])
  BY <1>1, <1>2
<1>5. p[1] = o[1] /\ p[2] = o[2]
  BY <1>1, <1>3, <1>4, SMT
<1> QED
  BY <1>2, <1>5

\* One more piece before the others: c comes before d, the first cut in C.
Before(c, d, C) ==
    C \subseteq Nat /\ c \in Nat /\ d \in C /\ c < d /\ \A x \in C : d <= x

LEMMA PieceBefore ==
    ASSUME NEW g, NEW C, NEW c, NEW d, Before(c, d, C)
    PROVE  Pieces(g, C \cup {c}) = Pieces(g, C) \cup {<<c, d>>}
<1> DEFINE B == C \cup {c}
<1> USE DEF Before
<1>1. \A x \in C : x \in Nat /\ c < x /\ ~(x <= c) /\ ~(x < c)
  BY SMT
<1>2. ~(c < c) /\ c <= c /\ d \in Nat
  BY SMT
<1>3. ASSUME NEW p \in Pieces(g, B)
      PROVE  p \in Pieces(g, C) \cup {<<c, d>>}
  <2>1. p \in B \X B /\ p[1] < p[2] /\ \A x \in B : x <= p[1] \/ p[2] <= x
    BY DEF Pieces
  <2>2. p[1] \in B /\ p[2] \in B /\ p = <<p[1], p[2]>>
    BY <2>1
  <2>3. CASE p[1] = c
    <3>1. p[2] \in C
      BY <1>2, <2>1, <2>2, <2>3
    <3>2. p[2] <= d /\ d <= p[2] /\ p[2] \in Nat
      BY <1>1, <2>1, <2>3, <3>1
    <3>3. p[2] = d
      BY <1>2, <3>2, SMT
    <3> QED
      BY <2>2, <2>3, <3>3
  <2>4. CASE p[1] # c
    <3>1. p[1] \in C
      BY <2>2, <2>4
    <3>2. p[2] # c
      BY <1>1, <2>1, <3>1
    <3>3. p \in C \X C
      BY <2>2, <3>1, <3>2
    <3> QED
      BY <2>1, <3>3 DEF Pieces
  <2> QED
    BY <2>3, <2>4
<1>4. ASSUME NEW p \in Pieces(g, C)
      PROVE  p \in Pieces(g, B)
  <2>1. p \in C \X C /\ p[1] < p[2] /\ \A x \in C : x <= p[1] \/ p[2] <= x
    BY DEF Pieces
  <2>2. p[1] \in C
    BY <2>1
  <2>3. p[1] \in Nat /\ c < p[1]
    BY <1>1, <2>2
  <2>4. c <= p[1]
    BY <2>3, SMT
  <2> QED
    BY <2>1, <2>4 DEF Pieces
<1>5. <<c, d>> \in Pieces(g, B)
  <2>1. \A x \in B : x <= c \/ d <= x
    BY <1>2
  <2> QED
    BY <2>1 DEF Pieces
<1> QED
  BY <1>3, <1>4, <1>5

LEMMA ToldBefore ==
    ASSUME NEW q, NEW g, GroupOf(q, g), NEW C, NEW c \in Nat, NEW d \in Nat,
           Before(c, d, C), d <= Len(g),
           Fits(q, c + 4, 3 + Len(g)), d = c + 2 + q[c + 5],
           NEW k, NEW v, Tells(g, C, k, v)
    PROVE  Tells(g, C \cup {c}, k, Assign(Quantity[q[c + 4] - 4], ParameterValue(q, c + 4), v))
<1> DEFINE B == C \cup {c}
           tag == Quantity[q[c + 4] - 4]
           value == ParameterValue(q, c + 4)
           w == Assign(tag, value, v)
           new == <<c, d>>
<1>1. Pieces(g, B) = Pieces(g, C) \cup {new}
  BY PieceBefore
<1>2. g[c + 1] = q[c + 4]
  <2>1. c + 1 \in 1 .. Len(g) /\ c + 1 + 3 = c + 4
    BY SMT DEF GroupOf, Before
  <2> QED
    BY <2>1 DEF GroupOf
<1>3. value = PieceNumber(g, new)
  BY PieceValue DEF PieceNumber
<1>4. /\ DOMAIN w = {tag} \cup DOMAIN v
      /\ \A x \in DOMAIN w : w[x] = IF x \in DOMAIN v THEN v[x] ELSE value
  BY DEF Assign
<1> HIDE DEF w, tag, value, new, B
<1>5. GivenBy(g, B, k) = GivenBy(g, C, k) \cup (IF tag = Quantity[k] THEN {new} ELSE {})
  <2>1. new[1] = c
    BY DEF new
  <2> QED
    BY <1>1, <1>2, <2>1 DEF GivenBy, tag
<1>6. CASE \E p : LastGiven(g, C, k, p) /\ Quantity[k] \in DOMAIN v
                  /\ v[Quantity[k]] = PieceNumber(g, p)
  <2>1. PICK p : LastGiven(g, C, k, p) /\ Quantity[k] \in DOMAIN v
                 /\ v[Quantity[k]] = PieceNumber(g, p)
    BY <1>6
  <2>2. p[1] \in C
    BY <2>1 DEF LastGiven, GivenBy, Pieces
  <2>3. p[1] \in Nat /\ d <= p[1] /\ c < d
    BY <2>2 DEF Before
  <2>4. c <= p[1] /\ new[1] = c
    BY <2>3, SMT DEF new
  <2>5. LastGiven(g, B, k, p)
    BY <1>5, <2>1, <2>4 DEF LastGiven
  <2>6. Quantity[k] \in DOMAIN w /\ w[Quantity[k]] = v[Quantity[k]]
    BY <1>4, <2>1
  <2> QED
    BY <2>1, <2>5, <2>6 DEF Tells, w, tag, value, B
<1>7. CASE GivenBy(g, C, k) = {} /\ Quantity[k] \notin DOMAIN v
  <2>1. CASE tag = Quantity[k]
    <3>1. GivenBy(g, B, k) = {new}
      BY <1>5, <1>7, <2>1
    <3>2. new[1] <= new[1]
      BY SMT DEF new
    <3>3. LastGiven(g, B, k, new)
      BY <3>1, <3>2 DEF LastGiven
    <3>4. Quantity[k] \in DOMAIN w /\ w[Quantity[k]] = PieceNumber(g, new)
      BY <1>3, <1>4, <1>7, <2>1
    <3> QED
      BY <3>3, <3>4 DEF Tells, w, tag, value, B
  <2>2. CASE tag # Quantity[k]
    <3>1. GivenBy(g, B, k) = {} /\ Quantity[k] \notin DOMAIN w
      BY <1>4, <1>5, <1>7, <2>2
    <3> QED
      BY <3>1 DEF Tells, w, tag, value, B
  <2> QED
    BY <2>1, <2>2
<1> QED
  BY <1>6, <1>7 DEF Tells

\* C cuts the group from c on, and v are the values of the pieces.
CutFrom(g, c, v, C) ==
    /\ C \in SUBSET (c .. Len(g)) /\ c \in C /\ Len(g) \in C
    /\ IsGroup(g, C)
    /\ \A k \in DOMAIN Quantity : Tells(g, C, k, v)

LEMMA MeaningTold ==
    ASSUME NEW g, NEW C, NEW v, CutFrom(g, 0, v, C), NEW k \in DOMAIN Quantity
    PROVE  Meaning(g, C, Quantity[k]) = Told(v, Quantity[k])
<1> DEFINE last == CHOOSE piece \in GivenBy(g, C, k) :
                       \A other \in GivenBy(g, C, k) : other[1] <= piece[1]
<1>1. Meaning(g, C, Quantity[k]) =
          IF GivenBy(g, C, k) = {} THEN DefaultValues[Quantity[k]] ELSE PieceNumber(g, last)
  BY DEF Meaning, GivenBy, PieceNumber
<1>4. C \subseteq Nat /\ Tells(g, C, k, v)
  BY SMT DEF CutFrom
<1>2. CASE GivenBy(g, C, k) = {} /\ Quantity[k] \notin DOMAIN v
  BY <1>1, <1>2 DEF Told
<1>3. CASE \E p : LastGiven(g, C, k, p) /\ Quantity[k] \in DOMAIN v
                  /\ v[Quantity[k]] = PieceNumber(g, p)
  <2>1. PICK p : LastGiven(g, C, k, p) /\ Quantity[k] \in DOMAIN v
                 /\ v[Quantity[k]] = PieceNumber(g, p)
    BY <1>3
  <2>2. LastGiven(g, C, k, last)
    BY <2>1 DEF LastGiven
  <2> HIDE DEF last
  <2>3. last = p
    BY <1>4, <2>1, <2>2, LastPiece
  <2>4. GivenBy(g, C, k) # {}
    BY <2>1 DEF LastGiven
  <2> QED
    BY <1>1, <2>1, <2>3, <2>4 DEF Told
<1> QED
  BY <1>2, <1>3, <1>4 DEF Tells

\* What is read without an error can be cut.
LEMMA ReadIsCut ==
    ASSUME NEW q, NEW g, GroupOf(q, g)
    PROVE  \A c \in 0 .. Len(g) :
              ReadOf(q, g)[c + 4].status = "Ok" =>
                  \E C : CutFrom(g, c, ReadOf(q, g)[c + 4].values, C)
<1> DEFINE m == Len(g)
           r == ReadOf(q, g)
           P(c) == r[c + 4].status = "Ok" => \E C : CutFrom(g, c, r[c + 4].values, C)
           S == {k \in Nat : \A c \in 0 .. m : m - c < k => P(c)}
<1>1. m \in Nat /\ 3 + m <= Len(q) /\ Len(q) \in Nat /\ 3 + m \in Nat
  BY SMT DEF GroupOf
<1>2. \A pos \in 4 .. Len(q) + 1 : r[pos] = ReadAt(q, 3 + m, r, pos)
  BY <1>1, GroupRead DEF ReadOf
<1> HIDE DEF m, r
<1>3. 0 \in S
  <2>1. \A c \in 0 .. m : ~(m - c < 0)
    BY <1>1, SMT
  <2> HIDE DEF P
  <2> QED
    BY <2>1
<1>4. ASSUME NEW k \in S
      PROVE  k + 1 \in S
  <2>1. k \in Nat /\ \A c \in 0 .. m : m - c < k => P(c)
    <3> HIDE DEF P
    <3> QED
      OBVIOUS
  <2>2. ASSUME NEW c \in 0 .. m, m - c < k + 1, r[c + 4].status = "Ok"
        PROVE  \E C : CutFrom(g, c, r[c + 4].values, C)
    <3>1. c \in Nat /\ c <= m /\ c + 4 \in 4 .. Len(q) + 1
      BY <1>1, SMT
    <3>2. r[c + 4] = ReadAt(q, 3 + m, r, c + 4)
      BY <1>2, <3>1
    <3>3. CASE c = m
      <4>1. c + 4 > 3 + m
        BY <1>1, <3>3, SMT
      <4>2. r[c + 4].values = <<>>
        BY <3>2, <4>1 DEF ReadAt
      <4> DEFINE C == {m}
      <4>3. Pieces(g, C) = {}
        <5>1. ~(m < m)
          BY <1>1, SMT
        <5> QED
          BY <5>1 DEF Pieces
      <4>4. C \in SUBSET (c .. m) /\ c \in C /\ m \in C
        BY <1>1, <3>3, SMT
      <4>5. IsGroup(g, C)
        BY <4>3 DEF IsGroup
      <4>6. ASSUME NEW i \in DOMAIN Quantity
            PROVE  Tells(g, C, i, <<>>)
        <5>1. DOMAIN <<>> = {}
          OBVIOUS
        <5> QED
          BY <4>3, <5>1 DEF Tells, GivenBy
      <4> HIDE DEF C
      <4> QED
        BY <4>2, <4>4, <4>5, <4>6 DEF CutFrom, m
    <3>4. CASE c # m
      <4> DEFINE d == c + 2 + q[c + 5]
      <4>1. ~(c + 4 > 3 + m) /\ c + 4 + 1 = c + 5
        BY <1>1, <3>1, <3>4, SMT
      <4>2. Fits(q, c + 4, 3 + m) /\ q[c + 4] \in 5 .. 8
        BY <2>2, <3>2, <4>1 DEF ReadAt
      <4>3. q[c + 5] \in 1 .. 4 /\ c + 5 + q[c + 5] <= 3 + m
        BY <4>1, <4>2 DEF Fits
      <4>4. d \in 0 .. m /\ c < d /\ d <= m /\ d \in Nat /\ m - d < k /\ c + 4 + 2 + q[c + 5] = d + 4
        <5> DEFINE n == q[c + 5]
        <5>1. n \in 1 .. 4 /\ c + 5 + n <= 3 + m
          BY <4>3
        <5> HIDE DEF n, S, P
        <5>2. n \in Nat /\ c \in Nat /\ m \in Nat /\ k \in Nat /\ m - c < k + 1 /\ 1 <= n
          BY <1>1, <2>1, <2>2, <3>1, <5>1, SMT
        <5>3. /\ c + 2 + n \in Nat /\ c + 2 + n <= m /\ c < c + 2 + n /\ m - (c + 2 + n) < k
              /\ c + 4 + 2 + n = c + 2 + n + 4
          BY <5>1, <5>2, SMT
        <5>4. c + 2 + n \in 0 .. m
          BY <5>2, <5>3, SMT
        <5> QED
          BY <5>3, <5>4 DEF n
      <4>5. r[c + 4] =
                IF r[d + 4].status # "Ok" THEN r[d + 4]
                ELSE [status |-> "Ok",
                      values |-> Assign(Quantity[q[c + 4] - 4], ParameterValue(q, c + 4),
                                        r[d + 4].values)]
        BY <3>2, <4>1, <4>2, <4>4 DEF ReadAt
      <4>6. r[d + 4].status = "Ok"
        BY <2>2, <4>5
      <4>7. PICK C : CutFrom(g, d, r[d + 4].values, C)
        BY <2>1, <4>4, <4>6
      <4> HIDE DEF d
      <4>8. C \subseteq d .. m /\ d \in C /\ m \in C /\ IsGroup(g, C)
            /\ \A i \in DOMAIN Quantity : Tells(g, C, i, r[d + 4].values)
        BY <4>7 DEF CutFrom, m
      <4>9. Before(c, d, C) /\ C \subseteq c .. m
        BY <3>1, <4>4, <4>8, SMT DEF Before
      <4>10. IsGroup(g, C \cup {c})
        <5>1. Pieces(g, C \cup {c}) = Pieces(g, C) \cup {<<c, d>>}
          BY <4>9, PieceBefore
        <5>2. IsTagged(SubSeq(g, c + 1, d))
          BY <3>1, <4>2, <4>4, FitsIsTagged DEF d, m
        <5> QED
          BY <4>8, <5>1, <5>2 DEF IsGroup
      <4>11. ASSUME NEW i \in DOMAIN Quantity
             PROVE  Tells(g, C \cup {c}, i, r[c + 4].values)
        <5>1. d = c + 2 + q[c + 5]
          BY DEF d
        <5>2. Tells(g, C \cup {c}, i, Assign(Quantity[q[c + 4] - 4], ParameterValue(q, c + 4),
                                             r[d + 4].values))
          BY <3>1, <4>2, <4>4, <4>8, <4>9, <5>1, ToldBefore DEF m
        <5> QED
          BY <4>5, <4>6, <5>2
      <4>12. C \cup {c} \in SUBSET (c .. m)
        BY <3>1, <4>9, SMT
      <4> QED
        BY <4>8, <4>10, <4>11, <4>12 DEF CutFrom, m
    <3> QED
      BY <3>3, <3>4
  <2> QED
    BY <2>1, <2>2, SMT
<1>5. S = Nat
  <2>1. S \subseteq Nat
    <3> HIDE DEF P
    <3> QED
      OBVIOUS
  <2> HIDE DEF S
  <2> QED
    BY <1>3, <1>4, <2>1, Induction
<1>6. ASSUME NEW c \in 0 .. m
      PROVE  P(c)
  <2>1. m - c + 1 \in Nat /\ m - c < m - c + 1
    BY <1>1, SMT
  <2>2. m - c + 1 \in S
    BY <1>5, <2>1
  <2> HIDE DEF P
  <2> QED
    BY <2>1, <2>2
<1> QED
  BY <1>6 DEF r, m

-----------------------------------------------------------------------------
(***************************************************************************)
(* The transfer.                                                           *)
(***************************************************************************)
\* The frame that is sent, and what the receiver gets of it.
Sent(g) ==
    CASE g.from = "session" -> BuildFrame(g.what)
      [] g.from = "caller" -> ToCppFrame(g.what).frame
      [] g.from = "stranger" -> ForeignSnrm(g.what)

AsReceived(g) ==
    [status |-> "Ok", frame |-> IF g.from = "caller" THEN FromCppFrame(Sent(g)) ELSE Sent(g)]

\* What may be given: DecodeFrame brings a buffer of the maximum frame size, a
\* caller of the C API one of any size.
Givens ==
    {g \in [from : {"session", "caller", "stranger"}, what : Built \cup Handed \cup Foreign,
            limits : CodecLimits, room : Nat] :
        /\ g.from = "session" => g.what \in Built
        /\ g.from = "caller" => g.what \in Handed
        /\ g.from = "stranger" => g.what \in Foreign
        /\ g.from # "caller" => g.room = EffectiveMaximumFrameSize(g.limits)}

\* While no bit is inverted, the line holds what was written of the frame sent, and
\* the outcome is that frame.
Undamaged(g, octets, result) ==
    /\ Sent(g) \in ValidFrame
    /\ g.from = "caller" => ToCppFrame(g.what).status = "Ok"
    /\ EncodeFrameToBuffer(Sent(g), g.limits, g.room).status = "Ok"
    /\ octets = EncodeFrameToBuffer(Sent(g), g.limits, g.room).octets
    /\ result \in {NoOutcome, AsReceived(g)}

TransferInv ==
    /\ given \in Givens
    /\ line # <<>> /\ flips = {} => Undamaged(given, line, outcome)
    /\ flips # {} => given.from = "session"

LEMMA TransferInitInv ==
    TransferInit => TransferInv
<1> SUFFICES ASSUME TransferInit
             PROVE  TransferInv
  OBVIOUS
<1>1. line = <<>>
  BY DEF TransferInit
<1>2. /\ \A l \in CodecLimits : EffectiveMaximumFrameSize(l) \in Nat
      /\ DefaultHdlcCodecLimits \in CodecLimits
      /\ EffectiveMaximumFrameSize(DefaultHdlcCodecLimits) = 2049
  BY SMT DEF CodecLimits, EffectiveMaximumFrameSize, OrDefault, DefaultHdlcCodecLimits
<1>3. LimitsOfCodec \subseteq CodecLimits /\ Rooms \subseteq Nat /\ Exposed \subseteq Built /\ 2049 \in Nat
  BY TransferAssumption, SMT DEF CodecLimits
<1>4. given \in Givens
  <2>1. CASE \E b \in Built \ Exposed, l \in LimitsOfCodec :
                given = Given("session", b, l, EffectiveMaximumFrameSize(l))
    <3>1. PICK b \in Built, l \in CodecLimits :
              given = Given("session", b, l, EffectiveMaximumFrameSize(l))
      BY <1>3, <2>1
    <3> QED
      BY <1>2, <3>1 DEF Given, Givens
  <2>2. CASE \E b \in Exposed : given = Given("session", b, DefaultHdlcCodecLimits, 2049)
    <3>1. PICK b \in Built : given = Given("session", b, DefaultHdlcCodecLimits, 2049)
      BY <1>3, <2>2
    <3> QED
      BY <1>2, <1>3, <3>1 DEF Given, Givens
  <2>3. CASE \E c \in Handed, l \in LimitsOfCodec, room \in Rooms : given = Given("caller", c, l, room)
    <3>1. PICK c \in Handed, l \in CodecLimits, room \in Nat : given = Given("caller", c, l, room)
      BY <1>3, <2>3
    <3> QED
      BY <3>1 DEF Given, Givens
  <2>4. CASE \E octets \in Foreign : given = Given("stranger", octets, DefaultHdlcCodecLimits, 2049)
    <3>1. PICK octets \in Foreign : given = Given("stranger", octets, DefaultHdlcCodecLimits, 2049)
      BY <2>4
    <3> QED
      BY <1>2, <1>3, <3>1 DEF Given, Givens
  <2> QED
    BY <2>1, <2>2, <2>3, <2>4 DEF TransferInit
<1>5. flips = {}
  BY DEF TransferInit
<1> QED
  BY <1>1, <1>4, <1>5 DEF TransferInv

\* An encoding that succeeds is that of a frame the library can hold.
LEMMA EncodedIsSent ==
    ASSUME given \in Givens, Encoded.status = "Ok"
    PROVE  /\ Sent(given) \in ValidFrame
           /\ given.from = "caller" => ToCppFrame(given.what).status = "Ok"
           /\ Encoded = EncodeFrameToBuffer(Sent(given), given.limits, given.room)
<1>1. CASE given.from = "session"
  BY <1>1, SessionFrameValid DEF Givens, Encoded, Sent
<1>2. CASE given.from = "caller"
  <2>1. given.what \in CFrame
    BY <1>2, TransferAssumption DEF Givens
  <2>2. Encoded = dlms_hdlc_encode_frame(given.what, given.limits, given.room)
    BY <1>2 DEF Encoded
  <2>3. ToCppFrame(given.what).status = "Ok"
    BY <2>2 DEF dlms_hdlc_encode_frame
  <2>4. Encoded = EncodeFrameToBuffer(ToCppFrame(given.what).frame, given.limits, given.room)
    BY <2>2, <2>3 DEF dlms_hdlc_encode_frame
  <2> QED
    BY <1>2, <2>1, <2>3, <2>4, CallerFrameValid DEF Sent
<1>3. CASE given.from = "stranger"
  BY <1>3, ForeignFrameValid DEF Givens, Encoded, Sent
<1> QED
  BY <1>1, <1>2, <1>3 DEF Givens

\* What was written is decoded as it was sent.
LEMMA DecodedIsSent ==
    ASSUME NEW g \in Givens, NEW octets, NEW result, Undamaged(g, octets, result)
    PROVE  (IF g.from = "caller" THEN dlms_hdlc_decode_frame(octets, g.limits, g.room)
            ELSE DecodeFrame(octets, g.limits)) = AsReceived(g)
<1> DEFINE f == Sent(g)
<1>1. /\ f \in ValidFrame /\ g.limits \in CodecLimits /\ g.room \in Nat
      /\ EncodeFrameToBuffer(f, g.limits, g.room).status = "Ok"
      /\ octets = EncodeFrameToBuffer(f, g.limits, g.room).octets
  BY DEF Undamaged, Givens
<1> HIDE DEF f
<1>2. Len(f.information) <= g.room
  <2>1. /\ Size(f) + 2 <= g.room /\ Size(f) \in Nat /\ Len(f.information) \in Nat
        /\ f.information = <<>> => Len(f.information) = 0
        /\ f.information # <<>> => Size(f) = HeaderLength(f) + Len(f.information) + 4
    BY <1>1, EncodedWithinLimits, FrameSizes
  <2>2. HeaderLength(f) \in Nat
    <3>1. f.destination.size \in Nat /\ f.source.size \in Nat
      BY <1>1, FrameSizes
    <3> QED
      BY <3>1, SMT DEF HeaderLength
  <2> DEFINE z == Size(f)
             m == Len(f.information)
             h == HeaderLength(f)
  <2>3. /\ z + 2 <= g.room /\ z \in Nat /\ m \in Nat /\ h \in Nat /\ (m = 0 \/ z = h + m + 4)
    BY <2>1, <2>2
  <2> HIDE DEF z, m, h
  <2> QED
    BY <1>1, <2>3, SMT DEF m
<1>3. DecodeFrameFromBuffer(octets, g.limits, g.room) = [status |-> "Ok", frame |-> f]
  BY <1>1, <1>2, FrameRoundTrip
<1>4. CASE g.from = "caller"
  <2>1. dlms_hdlc_decode_frame(octets, g.limits, g.room) = [status |-> "Ok", frame |-> FromCppFrame(f)]
    BY <1>3 DEF dlms_hdlc_decode_frame
  <2> QED
    BY <1>4, <2>1 DEF AsReceived, f
<1>5. CASE g.from # "caller"
  <2>1. DecodeFrame(octets, g.limits) = DecodeFrameFromBuffer(octets, g.limits, g.room)
    BY <1>5 DEF Givens, DecodeFrame
  <2> QED
    BY <1>3, <1>5, <2>1 DEF AsReceived, f
<1> QED
  BY <1>4, <1>5

LEMMA TransferStepInv ==
    TransferInv /\ [TransferNext]_transferVars => TransferInv'
<1> SUFFICES ASSUME TransferInv, [TransferNext]_transferVars
             PROVE  TransferInv'
  OBVIOUS
<1>1. given' = given
  BY DEF TransferNext, Encode, Damage, Decode, transferVars
<1>2. given' \in Givens
  BY <1>1 DEF TransferInv
<1>3. ASSUME line' # <<>>, flips' = {}
      PROVE  Undamaged(given, line', outcome')
  <2>1. CASE Encode
    <3>1. CASE Encoded.status = "Ok"
      <4>1. line' = Encoded.octets /\ outcome' = NoOutcome
        BY <2>1, <3>1 DEF Encode
      <4>2. /\ Sent(given) \in ValidFrame
            /\ given.from = "caller" => ToCppFrame(given.what).status = "Ok"
            /\ Encoded = EncodeFrameToBuffer(Sent(given), given.limits, given.room)
        BY <3>1, EncodedIsSent DEF TransferInv
      <4> QED
        BY <3>1, <4>1, <4>2 DEF Undamaged
    <3>2. CASE Encoded.status # "Ok"
      BY <1>3, <2>1, <3>2 DEF Encode
    <3> QED
      BY <3>1, <3>2
  <2>2. CASE Damage
    <3>1. \E e : flips' = flips \cup {e}
      BY <2>2 DEF Damage
    <3> QED
      BY <1>3, <3>1
  <2>3. CASE Decode
    <3>1. /\ line' = line /\ flips' = flips /\ given \in Givens
          /\ outcome' = (IF given.from = "caller"
                         THEN dlms_hdlc_decode_frame(line, given.limits, given.room)
                         ELSE DecodeFrame(line, given.limits))
      BY <2>3 DEF Decode, TransferInv
    <3>2. Undamaged(given, line, outcome)
      BY <1>3, <3>1 DEF TransferInv
    <3>3. outcome' = AsReceived(given)
      BY <3>1, <3>2, DecodedIsSent
    <3> QED
      BY <3>1, <3>2, <3>3 DEF Undamaged
  <2>4. CASE UNCHANGED transferVars
    BY <1>3, <2>4 DEF transferVars, TransferInv
  <2> QED
    BY <2>1, <2>2, <2>3, <2>4 DEF TransferNext
<1>4. flips' # {} => given'.from = "session"
  <2>1. flips' = flips \/ given.from = "session"
    BY DEF TransferNext, Encode, Damage, Decode, transferVars
  <2> QED
    BY <1>1, <2>1 DEF TransferInv
<1> QED
  BY <1>1, <1>2, <1>3, <1>4 DEF TransferInv

LEMMA TransferInvariant ==
    TransferSpec => []TransferInv
<1> QED
  BY TransferInitInv, TransferStepInv, PTL DEF TransferSpec

\* What EncodeFrameToBuffer writes stays inside the caller's buffer and the maximum
\* frame size, and its format field tells its true length.
THEOREM WritingStaysInBounds == TransferSpec => []WrittenWithinBounds
<1>1. TransferInv => WrittenWithinBounds
  <2> SUFFICES ASSUME TransferInv, line # <<>>, flips = {}
               PROVE  /\ Len(line) <= given.room
                      /\ Len(line) <= EffectiveMaximumFrameSize(given.limits)
                      /\ Len(line) = FullFrameSize(line)
    BY DEF WrittenWithinBounds
  <2> DEFINE f == Sent(given)
  <2>1. /\ f \in ValidFrame /\ given.limits \in CodecLimits /\ given.room \in Nat
        /\ EncodeFrameToBuffer(f, given.limits, given.room).status = "Ok"
        /\ line = EncodeFrameToBuffer(f, given.limits, given.room).octets
    BY DEF TransferInv, Undamaged, Givens
  <2> HIDE DEF f
  <2>2. Len(line) = Size(f) + 2 /\ FullFrameSize(line) = Len(line)
    BY <2>1, FormatAccepted
  <2>3. Size(f) + 2 <= given.room /\ Size(f) + 2 <= EffectiveMaximumFrameSize(given.limits)
    BY <2>1, EncodedWithinLimits
  <2> QED
    BY <2>2, <2>3
<1> QED
  BY <1>1, TransferInvariant, PTL

\* The decoder accepts every frame that the encoder writes with the same limits.
THEOREM AcceptsOwnFrames == TransferSpec => []OwnFramesAccepted
<1>1. TransferInv => OwnFramesAccepted
  BY DEF TransferInv, OwnFramesAccepted, Decoded, Undamaged, AsReceived
<1> QED
  BY <1>1, TransferInvariant, PTL

\* Every frame of a session is seen by the other session as it was meant, and a caller
\* of the C API gets the structure that the other caller passed.
THEOREM ArrivesAsSent == TransferSpec => []ArrivesUnchanged
<1>1. TransferInv => ArrivesUnchanged
  <2> SUFFICES ASSUME TransferInv, Arrived, flips = {}
               PROVE  CASE given.from = "session" ->
                               /\ AsSeen(outcome.frame) = given.what.frame
                               /\ given.what.frame.kind \in UnnumberedKind =>
                                      UserInformation(outcome.frame) = given.what.user
                        [] given.from = "caller" ->
                               outcome.frame = [given.what EXCEPT !.segmented = IF @ = 0 THEN 0 ELSE 1]
                        [] given.from = "stranger" ->
                               outcome.frame.information = given.what
    BY DEF ArrivesUnchanged
  <2>1. /\ given \in Givens /\ line # <<>> /\ outcome # NoOutcome
        /\ Undamaged(given, line, outcome)
    BY DEF TransferInv, Arrived, Decoded
  <2>2. outcome.frame = IF given.from = "caller" THEN FromCppFrame(Sent(given)) ELSE Sent(given)
    BY <2>1 DEF Undamaged, AsReceived
  <2>3. CASE given.from = "session"
    <3>1. given.what \in Built /\ outcome.frame = BuildFrame(given.what)
      BY <2>1, <2>2, <2>3 DEF Sent, Givens
    <3>2. given.what.frame.kind \in {"I", "RR", "SNRM", "UA", "DISC", "DM"}
      BY <3>1, TransferAssumption DEF BuiltBySession
    <3>3. Seen(given.what)
      BY <3>1, <3>2, NumberedSeen, UnnumberedSeen
    <3> QED
      BY <2>3, <3>1, <3>3 DEF Seen
  <2>4. CASE given.from = "caller"
    <3>1. given.what \in CFrame
      BY <2>1, <2>4, TransferAssumption DEF Givens
    <3>2. outcome.frame = FromCppFrame(ToCppFrame(given.what).frame)
      BY <2>2, <2>4 DEF Sent
    <3>3. ToCppFrame(given.what).status = "Ok"
      BY <2>1, <2>4 DEF Undamaged
    <3> QED
      BY <2>4, <3>1, <3>2, <3>3, CallerFrameValid
  <2>5. CASE given.from = "stranger"
    BY <2>2, <2>5 DEF Sent, ForeignSnrm
  <2> QED
    BY <2>1, <2>3, <2>4, <2>5 DEF Givens
<1> QED
  BY <1>1, TransferInvariant, PTL

LEMMA FirstTwo ==
    ASSUME NEW octets \in Seq(Octet), 2 <= Len(octets)
    PROVE  SubSeq(octets, 1, 2) = <<octets[1], octets[2]>>
<1> DEFINE p == SubSeq(octets, 1, 2)
           w == <<octets[1], octets[2]>>
<1>1. 0 + 1 = 1 /\ 0 + 2 = 2 /\ 0 + 2 <= Len(octets) /\ 1 \in 1 .. Len(octets) /\ 2 \in 1 .. Len(octets)
  BY SMT
<1>2. p \in Seq(Octet) /\ Len(p) = 2 /\ \A i \in 1 .. 2 : p[i] = octets[0 + i]
  BY <1>1, Portion
<1>3. w \in Seq(Octet) /\ Len(w) = 2 /\ w[1] = octets[1] /\ w[2] = octets[2]
  <2>1. octets[1] \in Octet /\ octets[2] \in Octet
    BY <1>1
  <2> QED
    BY <2>1
<1> HIDE DEF p, w
<1>4. \A i \in 1 .. Len(p) : p[i] = w[i]
  <2>1. p[1] = octets[1] /\ p[2] = octets[2]
    BY <1>2, SMT
  <2>2. \A i \in 1 .. 2 : i = 1 \/ i = 2
    BY SMT
  <2> QED
    BY <1>2, <1>3, <2>1, <2>2
<1>5. p = w
  BY <1>2, <1>3, <1>4, SameSequence
<1> QED
  BY <1>5 DEF p, w

\* What ParseSnrmInfoField makes of the octets of a block: what they mean however they
\* are cut into parameters; if they cannot be cut, an error.
ReadBy(octets, parsed, cuts) ==
    /\ parsed.status = "Ok" /\ parsed.consumed = 3 + octets[3]
    /\ \A k \in DOMAIN Quantity :
          parsed.params[Quantity[k]] = Meaning(SubSeq(octets, 4, 3 + octets[3]), cuts, Quantity[k])

FollowsGrammar(octets, parsed) ==
    LET group == SubSeq(octets, 4, 3 + octets[3])
    IN  /\ \A cuts \in Cuts(group) : IsGroup(group, cuts) => ReadBy(octets, parsed, cuts)
        /\ parsed.status = "Ok" =>
              \E cuts \in Cuts(group) : IsGroup(group, cuts) /\ ReadBy(octets, parsed, cuts)

LEMMA FieldRead ==
    ASSUME NEW octets \in Seq(Octet), 3 <= Len(octets), octets[1] = 129, octets[2] = 128,
           3 + octets[3] <= Len(octets)
    PROVE  FollowsGrammar(octets, ParseSnrmInfoField(octets))
<1> DEFINE parsed == ParseSnrmInfoField(octets)
           n == octets[3]
           group == SubSeq(octets, 4, 3 + n)
           r == ReadOf(octets, group)
<1>1. n \in Nat /\ Len(octets) \in Nat
  <2>1. 3 \in 1 .. Len(octets) /\ Len(octets) \in Nat
    BY SMT
  <2> QED
    BY <2>1, OctetsAreNumbers
<1> HIDE DEF n
<1>2. group \in Seq(Octet) /\ Len(group) = n /\ \A i \in 1 .. n : group[i] = octets[3 + i]
  <2>1. 3 \in Nat /\ 3 + n <= Len(octets) /\ 3 + 1 = 4
    BY SMT DEF n
  <2> QED
    BY <1>1, <2>1, Portion
<1> HIDE DEF group
<1>3. GroupOf(octets, group)
  <2>1. \A i \in 1 .. n : 3 + i = i + 3
    BY SMT
  <2>2. 3 + n <= Len(octets)
    BY DEF n
  <2>3. ASSUME NEW i \in 1 .. n
        PROVE  group[i] = octets[i + 3]
    BY <1>2, <2>1
  <2> QED
    BY <1>2, <2>2, <2>3 DEF GroupOf
<1>4. ParseGroup(octets, 3 + n) = r[4]
  <2>1. 3 + n \in Nat /\ 3 + n <= Len(octets)
    BY <1>1, SMT DEF n
  <2> QED
    BY <1>1, <1>2, <2>1, GroupRead DEF ReadOf
<1>5. SubSeq(octets, 1, 2) = <<129, 128>>
  <2>1. 2 <= Len(octets)
    BY <1>1, SMT
  <2> QED
    BY <2>1, FirstTwo
<1>6. parsed = IF r[4].status # "Ok" THEN [status |-> r[4].status]
               ELSE [status |-> "Ok", consumed |-> 3 + n,
                     params |-> [x \in DOMAIN DefaultValues |->
                                    IF x \in DOMAIN r[4].values THEN r[4].values[x]
                                    ELSE DefaultValues[x]]]
  <2>1. ~(Len(octets) < 3) /\ ~(3 + n > Len(octets))
    BY <1>1, SMT DEF n
  <2> QED
    BY <1>4, <1>5, <2>1 DEF ParseSnrmInfoField, n
<1> HIDE DEF parsed, r
<1>7. CASE r[4].status = "Ok"
  <2>1. 0 \in 0 .. Len(group) /\ 0 + 4 = 4
    BY <1>1, <1>2, SMT
  <2>2. PICK C : CutFrom(group, 0, r[4].values, C)
    BY <1>3, <1>7, <2>1, ReadIsCut DEF r
  <2>3. C \in Cuts(group) /\ IsGroup(group, C) /\ C \subseteq Nat
    BY <1>1, <1>2, <2>2, SMT DEF CutFrom, Cuts
  <2>4. ASSUME NEW k \in DOMAIN Quantity
        PROVE  parsed.params[Quantity[k]] = Meaning(group, C, Quantity[k])
    <3>1. Quantity[k] \in DOMAIN DefaultValues
      BY SMT DEF Quantity, DefaultValues
    <3>2. parsed.params[Quantity[k]] = Told(r[4].values, Quantity[k])
      BY <1>6, <1>7, <3>1 DEF Told
    <3>3. Meaning(group, C, Quantity[k]) = Told(r[4].values, Quantity[k])
      BY <2>2, MeaningTold
    <3> QED
      BY <3>2, <3>3
  <2>5. parsed.status = "Ok" /\ parsed.consumed = 3 + n
    BY <1>6, <1>7
  <2>6. ReadBy(octets, parsed, C)
    BY <2>4, <2>5 DEF ReadBy, n, group
  <2>7. ASSUME NEW D \in Cuts(group), IsGroup(group, D)
        PROVE  ReadBy(octets, parsed, D)
    <3>1. D \subseteq C /\ C \subseteq D
      BY <1>3, <2>3, <2>7, OneWayToCut
    <3>2. D = C
      BY <3>1
    <3> QED
      BY <2>6, <3>2
  <2> QED
    BY <2>3, <2>6, <2>7 DEF FollowsGrammar, parsed, group, n
<1>8. CASE r[4].status # "Ok"
  <2>1. parsed.status # "Ok"
    BY <1>6, <1>8
  <2>2. ASSUME NEW C \in Cuts(group), IsGroup(group, C)
        PROVE  FALSE
    <3>1. 0 \in C /\ 0 + 4 = 4
      BY SMT DEF Cuts
    <3>2. r[0 + 4].status = "Ok"
      BY <1>3, <2>2, <3>1, CutsAreRead DEF r
    <3> QED
      BY <1>8, <3>1, <3>2
  <2> QED
    BY <2>1, <2>2 DEF FollowsGrammar, parsed, group, n
<1> QED
  BY <1>7, <1>8

\* ParseSnrmInfoField reads the Information field of another client's SNRM as docs/04
\* has it, and what else it takes in has the same form, inside the announced group.
THEOREM ForeignFieldsRead == TransferSpec => []DocumentedFieldsRead
<1>1. TransferInv => DocumentedFieldsRead
  <2> DEFINE octets == given.what
             parsed == Parsed(outcome.frame)
             group == SubSeq(octets, 4, 3 + octets[3])
  <2> SUFFICES ASSUME TransferInv, Arrived, given.from = "stranger"
               PROVE  IF Len(octets) < 3 \/ octets[1] # 129 \/ octets[2] # 128
                      THEN parsed.status = "Ok" /\ parsed.consumed = 0
                      ELSE IF 3 + octets[3] > Len(octets) THEN parsed.status # "Ok"
                      ELSE /\ \A cuts \in Cuts(group) :
                                 IsDocumentedGroup(group, cuts) => ReadBy(octets, parsed, cuts)
                           /\ parsed.status = "Ok" =>
                                 \E cuts \in Cuts(group) :
                                    IsGroup(group, cuts) /\ ReadBy(octets, parsed, cuts)
    BY DEF DocumentedFieldsRead, ReadBy
  <2>1. given \in Givens /\ line # <<>> /\ outcome # NoOutcome /\ Undamaged(given, line, outcome)
    BY DEF TransferInv, Arrived, Decoded
  <2>2. octets \in Seq(Octet)
    BY <2>1, TransferAssumption DEF Givens
  <2>3. outcome.frame = ForeignSnrm(octets)
    BY <2>1 DEF Undamaged, AsReceived, Sent
  <2>4. ControlKind(outcome.frame.control) = "SNRM" /\ outcome.frame.information = octets
    BY <2>3, KindRead DEF ForeignSnrm
  <2>5. parsed = IF octets # <<>> THEN ParseSnrmInfoField(octets)
                 ELSE [status |-> "Ok", params |-> DefaultValues, consumed |-> 0]
    BY <2>4 DEF Parsed
  <2> HIDE DEF octets, parsed
  <2>6. Len(octets) \in Nat /\ (octets = <<>> => Len(octets) < 3)
    BY <2>2, SMT
  <2>7. CASE Len(octets) < 3 \/ octets[1] # 129 \/ octets[2] # 128
    <3>1. Len(octets) < 3 \/ SubSeq(octets, 1, 2) # <<129, 128>>
      <4> SUFFICES ASSUME ~(Len(octets) < 3)
                   PROVE  SubSeq(octets, 1, 2) # <<129, 128>>
        OBVIOUS
      <4>1. 2 <= Len(octets)
        BY <2>6, SMT
      <4>2. SubSeq(octets, 1, 2) = <<octets[1], octets[2]>>
        BY <2>2, <4>1, FirstTwo
      <4>3. octets[1] # 129 \/ octets[2] # 128
        BY <2>7
      <4> HIDE DEF octets
      <4> QED
        BY <4>2, <4>3
    <3>2. parsed.status = "Ok" /\ parsed.consumed = 0
      BY <2>5, <3>1 DEF ParseSnrmInfoField
    <3> QED
      BY <2>7, <3>2
  <2>8. CASE ~(Len(octets) < 3 \/ octets[1] # 129 \/ octets[2] # 128)
    <3>1. 3 <= Len(octets) /\ octets[1] = 129 /\ octets[2] = 128 /\ octets # <<>>
      BY <2>6, <2>8, SMT
    <3>2. parsed = ParseSnrmInfoField(octets)
      BY <2>5, <3>1
    <3>3. octets[3] \in Nat
      <4>1. 3 \in 1 .. Len(octets)
        BY <2>6, <3>1, SMT
      <4> QED
        BY <2>2, <4>1, OctetsAreNumbers
    <3>4. CASE 3 + octets[3] > Len(octets)
      <4>1. parsed.status # "Ok"
        <5>1. ~(Len(octets) < 3) /\ SubSeq(octets, 1, 2) = <<129, 128>>
          <6>1. 2 <= Len(octets) /\ ~(Len(octets) < 3)
            BY <2>6, <3>1, SMT
          <6> QED
            BY <2>2, <3>1, <6>1, FirstTwo
        <5> QED
          BY <3>2, <3>4, <5>1 DEF ParseSnrmInfoField
      <4> QED
        BY <2>8, <3>4, <4>1
    <3>5. CASE ~(3 + octets[3] > Len(octets))
      <4>1. 3 + octets[3] <= Len(octets)
        BY <2>6, <3>3, <3>5, SMT
      <4>2. FollowsGrammar(octets, parsed)
        BY <2>2, <3>1, <3>2, <4>1, FieldRead
      <4> QED
        BY <2>8, <3>5, <4>2 DEF FollowsGrammar, IsDocumentedGroup
    <3> QED
      BY <3>4, <3>5
  <2> QED
    BY <2>7, <2>8
<1> QED
  BY <1>1, TransferInvariant, PTL

-----------------------------------------------------------------------------
(***************************************************************************)
(* The CRC: that it is a number of sixteen bits, and that it tells apart   *)
(* octets of which one bit differs.                                        *)
(***************************************************************************)
\* A loop that carries a word from a to b; step[i] is its round i.
Loop(step, a, b, f) ==
    f = [i \in a .. b |-> [c \in Word |-> IF i = b THEN c ELSE f[i + 1][step[i][c]]]]

LEMMA LoopRounds ==
    ASSUME NEW a \in Nat, NEW b \in Nat, NEW step, NEW f, Loop(step, a, b, f)
    PROVE  /\ \A i \in a .. b : \A c \in Word : i = b => f[i][c] = c
           /\ \A i \in a .. b - 1 : \A c \in Word : f[i][c] = f[i + 1][step[i][c]]
<1> HIDE DEF Word
<1>1. f = [i \in a .. b |-> [c \in Word |-> IF i = b THEN c ELSE f[i + 1][step[i][c]]]]
  BY DEF Loop
<1> DEFINE D == a .. b
           At(i) == [c \in Word |-> IF i = b THEN c ELSE f[i + 1][step[i][c]]]
<1>2. \A i \in D : \A c \in Word : f[i][c] = IF i = b THEN c ELSE f[i + 1][step[i][c]]
  <2>1. \A i \in D : f[i] = At(i)
    <3>1. f = [i \in D |-> At(i)]
      BY <1>1
    <3> HIDE DEF At, D
    <3> QED
      BY <3>1
  <2>2. ASSUME NEW i \in D, NEW c \in Word
        PROVE  At(i)[c] = IF i = b THEN c ELSE f[i + 1][step[i][c]]
    OBVIOUS
  <2> HIDE DEF At, D
  <2> QED
    BY <2>1, <2>2
<1>3. \A i \in a .. b - 1 : i \in D /\ i # b
  BY SMT
<1> QED
  BY <1>2, <1>3, Zenon

LEMMA LoopEnd ==
    ASSUME NEW a \in Nat, NEW b \in Nat, a <= b, NEW step, NEW f, Loop(step, a, b, f), NEW c \in Word
    PROVE  f[b][c] = c
<1>1. b \in a .. b
  BY SMT
<1> QED
  BY <1>1, LoopRounds

Carries(f, step, a, b) == \A i \in a .. b - 1 : \A c \in Word : f[i][c] = f[i + 1][step[i][c]]

LEMMA LoopCarries ==
    ASSUME NEW a \in Nat, NEW b \in Nat, NEW step, NEW f, Loop(step, a, b, f)
    PROVE  Carries(f, step, a, b)
BY LoopRounds DEF Carries

\* There is a function that such a loop computes.
LEMMA LoopExists ==
    ASSUME NEW a \in Nat, NEW b \in Nat, NEW step
    PROVE  \E f : Loop(step, a, b, f)
<1> HIDE DEF Word
<1> DEFINE D == a .. b
           At(h, i) == [c \in Word |-> IF i = b THEN c ELSE h[i + 1][step[i][c]]]
           Right(h, k) == h = [i \in D |-> h[i]] /\ \A i \in D : b - i < k => h[i] = At(h, i)
           T == {k \in Nat : \E h : Right(h, k)}
<1>1. 0 \in T
  <2> DEFINE h == [i \in D |-> 0]
  <2>1. \A i \in D : ~(b - i < 0)
    BY SMT
  <2>2. h = [i \in D |-> h[i]]
    OBVIOUS
  <2> HIDE DEF h, At
  <2>3. Right(h, 0)
    BY <2>1, <2>2
  <2> HIDE DEF Right
  <2> QED
    BY <2>3
<1>2. ASSUME NEW k \in T
      PROVE  k + 1 \in T
  <2>1. k \in Nat /\ \E h : Right(h, k)
    <3> HIDE DEF Right
    <3> QED
      OBVIOUS
  <2>2. PICK h : Right(h, k)
    BY <2>1
  <2> DEFINE p == b - k
             g == [i \in D |-> IF i = p THEN At(h, p) ELSE h[i]]
  <2>3. g = [i \in D |-> g[i]]
    <3> HIDE DEF At
    <3> QED
      OBVIOUS
  <2>4. ASSUME NEW i \in D, b - i < k + 1
        PROVE  g[i] = At(g, i)
    <3>1. p <= i /\ i \in Int /\ b - i >= 0
      BY <2>1, <2>4, SMT
    <3>2. At(g, i) = At(h, i)
      <4>1. CASE i = b
        <5> HIDE DEF g
        <5> QED
          BY <4>1, Zenon
      <4>2. CASE i # b
        <5>1. i + 1 \in D /\ i + 1 # p
          BY <2>1, <3>1, <4>2, SMT
        <5>2. g[i + 1] = h[i + 1]
          <6> HIDE DEF At, p, D
          <6> QED
            BY <5>1
        <5> HIDE DEF g
        <5> QED
          BY <5>2
      <4> QED
        BY <4>1, <4>2
    <3>3. g[i] = At(h, i)
      <4>1. CASE i = p
        <5> HIDE DEF p, At
        <5> QED
          BY <4>1
      <4>2. CASE i # p
        <5>1. b - i < k
          BY <2>1, <3>1, <4>2, SMT
        <5>2. h[i] = At(h, i)
          <6> HIDE DEF At
          <6> QED
            BY <2>2, <5>1
        <5> HIDE DEF p, At
        <5> QED
          BY <4>2, <5>2
      <4> QED
        BY <4>1, <4>2
    <3> QED
      BY <3>2, <3>3
  <2>5. Right(g, k + 1)
    <3> HIDE DEF g, At
    <3> QED
      BY <2>3, <2>4
  <2>6. k + 1 \in Nat
    BY <2>1, SMT
  <2> HIDE DEF g, Right
  <2> QED
    BY <2>5, <2>6
<1>3. T = Nat
  <2>1. T \subseteq Nat
    <3> HIDE DEF Right
    <3> QED
      OBVIOUS
  <2> HIDE DEF T
  <2> QED
    BY <1>1, <1>2, <2>1, Induction
<1>4. PICK h : Right(h, b + 1)
  <2>1. b + 1 \in T
    BY <1>3, SMT
  <2> HIDE DEF Right
  <2> QED
    BY <2>1
<1>5. \A i \in D : h[i] = At(h, i)
  <2>1. \A i \in D : b - i < b + 1
    BY SMT
  <2> HIDE DEF At
  <2> QED
    BY <1>4, <2>1
<1>6. h = [i \in D |-> At(h, i)]
  <2> HIDE DEF At
  <2> QED
    BY <1>4, <1>5
<1> QED
  BY <1>6 DEF Loop

\* A property of the positions of a loop that holds at its end, and at each position
\* if it holds at the next one, holds everywhere.
LEMMA FromTheEnd ==
    ASSUME NEW a \in Nat, NEW b \in Nat, NEW P, b \in P,
           \A i \in a .. b - 1 : i + 1 \in P => i \in P
    PROVE  a .. b \subseteq P
<1> DEFINE T == {k \in Nat : b - k < a \/ b - k \in P}
<1>1. 0 \in T
  BY SMT
<1>2. ASSUME NEW k \in T
      PROVE  k + 1 \in T
  <2>1. k \in Nat /\ (b - k < a \/ b - k \in P)
    OBVIOUS
  <2>2. k + 1 \in Nat /\ (b - k < a => b - (k + 1) < a)
    BY <2>1, SMT
  <2>3. ASSUME ~(b - (k + 1) < a), b - k \in P
        PROVE  b - (k + 1) \in P
    <3> DEFINE i == b - (k + 1)
    <3>1. i \in a .. b - 1 /\ i + 1 = b - k
      BY <2>1, <2>3, SMT
    <3> HIDE DEF i
    <3>2. i + 1 \in P
      BY <2>3, <3>1
    <3>3. i \in P
      BY <3>1, <3>2
    <3> QED
      BY <3>3 DEF i
  <2> QED
    BY <2>1, <2>2, <2>3
<1>3. T = Nat
  <2>1. T \subseteq Nat
    OBVIOUS
  <2> HIDE DEF T
  <2> QED
    BY <1>1, <1>2, <2>1, Induction
<1>4. ASSUME NEW i \in a .. b
      PROVE  i \in P
  <2> DEFINE k == b - i
  <2>1. k \in Nat /\ b - k = i /\ ~(i < a)
    BY SMT
  <2> HIDE DEF k
  <2>2. k \in T
    BY <1>3, <2>1
  <2> QED
    BY <2>1, <2>2
<1> QED
  BY <1>4

StaysWord(step, a, b) ==
    \A i \in a .. b - 1 : \A c \in Word : step[i][c] \in Word

\* A loop whose rounds give words gives words.
LEMMA LoopWord ==
    ASSUME NEW a \in Nat, NEW b \in Nat, a <= b, NEW step, StaysWord(step, a, b),
           NEW f, Loop(step, a, b, f)
    PROVE  \A c \in Word : f[a][c] \in Word
<1> HIDE DEF Word
<1> DEFINE P == {i \in a .. b : \A c \in Word : f[i][c] \in Word}
<1>1. b \in P
  <2>1. b \in a .. b
    BY SMT
  <2> QED
    BY <2>1, LoopEnd
<1>2. ASSUME NEW i \in a .. b - 1, i + 1 \in P
      PROVE  i \in P
  <2>1. i \in a .. b
    BY SMT
  <2>2. \A c \in Word : f[i][c] = f[i + 1][step[i][c]]
    BY LoopCarries DEF Carries
  <2>3. \A c \in Word : step[i][c] \in Word
    BY DEF StaysWord
  <2>4. \A c \in Word : f[i + 1][c] \in Word
    BY <1>2
  <2> QED
    BY <2>1, <2>2, <2>3, <2>4
<1>3. a .. b \subseteq P
  <2> HIDE DEF P
  <2> QED
    BY <1>1, <1>2, FromTheEnd
<1>4. a \in a .. b
  BY SMT
<1> QED
  BY <1>3, <1>4

TellsApart(round) == \A c, d \in Word : round[c] = round[d] => c = d

Apart(one, other) == \A c \in Word : one[c] # other[c]

KeepsApart(step, a, b) == \A i \in a .. b - 1 : TellsApart(step[i])

SameBut(one, other, a, b, k) ==
    \A i \in a .. b - 1 : i # k => \A c \in Word : one[i][c] = other[i][c]

\* Two loops that differ in round k only, and there whatever the word, end with
\* different words, if no later round makes different words the same.
LEMMA LoopsApart ==
    ASSUME NEW a \in Nat, NEW b \in Nat, NEW s, StaysWord(s, a, b), NEW t, StaysWord(t, a, b),
           NEW f, Loop(s, a, b, f), NEW g, Loop(t, a, b, g), NEW k \in a .. b - 1,
           SameBut(s, t, a, b, k), KeepsApart(s, a, b), Apart(s[k], t[k])
    PROVE  Apart(f[a], g[a])
<1> HIDE DEF Word
<1> DEFINE Same(i) == \A c \in Word : f[i][c] = g[i][c]
           P == {i \in a .. b : IF i <= k THEN Apart(f[i], g[i])
                                ELSE Same(i) /\ TellsApart(f[i])}
<1>1. b \in P
  <2>1. b \in a .. b /\ ~(b <= k)
    BY SMT
  <2>3. a <= b
    BY SMT
  <2>2. \A c \in Word : f[b][c] = c /\ g[b][c] = c
    BY <2>3, LoopEnd
  <2> QED
    BY <2>1, <2>2 DEF TellsApart
<1>2. ASSUME NEW i \in a .. b - 1, i + 1 \in P
      PROVE  i \in P
  <2>1. i \in a .. b /\ i \in Int /\ k \in Int
    BY SMT
  <2>2. \A c \in Word : f[i][c] = f[i + 1][s[i][c]] /\ g[i][c] = g[i + 1][t[i][c]]
    <3>1. Carries(f, s, a, b) /\ Carries(g, t, a, b)
      BY LoopCarries
    <3> QED
      BY <3>1 DEF Carries
  <2>3. \A c \in Word : s[i][c] \in Word /\ t[i][c] \in Word
    BY DEF StaysWord
  <2>4. CASE i < k
    <3>1. i <= k /\ i + 1 <= k /\ i # k
      BY <2>1, <2>4, SMT
    <3>2. Apart(f[i + 1], g[i + 1])
      BY <1>2, <3>1
    <3>3. \A c \in Word : s[i][c] = t[i][c]
      BY <3>1 DEF SameBut
    <3>4. Apart(f[i], g[i])
      BY <2>2, <2>3, <3>2, <3>3 DEF Apart
    <3> QED
      BY <2>1, <3>1, <3>4
  <2>5. CASE i >= k
    <3>1. ~(i + 1 <= k)
      BY <2>1, <2>5, SMT
    <3>2. Same(i + 1) /\ TellsApart(f[i + 1])
      BY <1>2, <3>1
    <3>3. CASE i = k
      <4>1. Apart(s[i], t[i])
        BY <3>3
      <4>2. Apart(f[i], g[i])
        BY <2>2, <2>3, <3>2, <4>1 DEF Apart, TellsApart
      <4>3. i <= k
        BY <2>1, <3>3, SMT
      <4> QED
        BY <2>1, <4>2, <4>3
    <3>4. CASE i # k
      <4>1. ~(i <= k)
        BY <2>1, <2>5, <3>4, SMT
      <4>2. \A c \in Word : s[i][c] = t[i][c]
        BY <3>4 DEF SameBut
      <4>3. Same(i)
        BY <2>2, <2>3, <3>2, <4>2
      <4>4. TellsApart(f[i])
        BY <2>2, <2>3, <3>2 DEF TellsApart, KeepsApart
      <4> QED
        BY <2>1, <4>1, <4>3, <4>4
    <3> QED
      BY <3>3, <3>4
  <2> QED
    BY <2>1, <2>4, <2>5, SMT
<1>3. a .. b \subseteq P
  <2> HIDE DEF P
  <2> QED
    BY <1>1, <1>2, FromTheEnd
<1>4. a \in a .. b /\ a <= k
  BY SMT
<1> QED
  BY <1>3, <1>4

\* The weights of the bits that the CRC inverts.
CrcWeight == {1, 8, 1024}

LEMMA Halved ==
    ASSUME NEW n \in Nat
    PROVE  n \div 2 \in Nat /\ n = 2 * (n \div 2) + (n % 2) /\ (n % 2 = 0 \/ n % 2 = 1)
<1>1. n \div 2 \in Nat
  BY SMT
<1>2. n % 2 = 0 \/ n % 2 = 1
  BY SMT
<1>3. n = 2 * (n \div 2) + (n % 2)
  BY <1>1, <1>2, SMT
<1> QED
  BY <1>1, <1>2, <1>3

\* What is above a bit, the bit itself and what is below it.
Parts(v, w, h, b, r) == h \in Nat /\ b \in {0, 1} /\ r \in 0 .. w - 1 /\ v = 2 * w * h + w * b + r

LEMMA BitParts ==
    ASSUME NEW w \in CrcWeight, NEW v \in Nat
    PROVE  \E h, b, r : Parts(v, w, h, b, r)
<1>1. CASE w = 1
  <2>1. v \div 2 \in Nat /\ v % 2 \in {0, 1} /\ v = 2 * (v \div 2) + (v % 2)
    BY Halved
  <2> DEFINE h == v \div 2
             b == v % 2
  <2> HIDE DEF h, b
  <2>2. 0 \in 0 .. w - 1 /\ v = 2 * w * h + w * b + 0
    BY <1>1, <2>1, SMT DEF h, b
  <2> QED
    BY <2>1, <2>2 DEF Parts, h, b
<1>2. CASE w = 8
  <2> DEFINE h == v \div 16
             b == (v \div 8) % 2
             r == v % 8
  <2>1. h \in Nat /\ b \in {0, 1} /\ r \in 0 .. 7 /\ v = 16 * h + 8 * b + r
    BY SMT
  <2> HIDE DEF h, b, r
  <2>2. r \in 0 .. w - 1 /\ v = 2 * w * h + w * b + r
    BY <1>2, <2>1, SMT
  <2> QED
    BY <2>1, <2>2 DEF Parts
<1>3. CASE w = 1024
  <2> DEFINE h == v \div 2048
             b == (v \div 1024) % 2
             r == v % 1024
  <2>1. h \in Nat /\ b \in {0, 1} /\ r \in 0 .. 1023 /\ v = 2048 * h + 1024 * b + r
    BY SMT
  <2> HIDE DEF h, b, r
  <2>2. r \in 0 .. w - 1 /\ v = 2 * w * h + w * b + r
    BY <1>3, <2>1, SMT
  <2> QED
    BY <2>1, <2>2 DEF Parts
<1> QED
  BY <1>1, <1>2, <1>3 DEF CrcWeight

LEMMA FlipParts ==
    ASSUME NEW w \in CrcWeight, NEW v, NEW h, NEW b, NEW r, Parts(v, w, h, b, r)
    PROVE  Parts(Flip(v, w), w, h, 1 - b, r)
<1>0. h \in Nat /\ b \in {0, 1} /\ r \in 0 .. w - 1 /\ v = 2 * w * h + w * b + r /\ w \in {1, 8, 1024}
  BY DEF Parts, CrcWeight
<1>1. v \div w = 2 * h + b
  <2>1. CASE w = 1
    BY <1>0, <2>1, SMT
  <2>2. CASE w = 8
    BY <1>0, <2>2, SMT
  <2>3. CASE w = 1024
    BY <1>0, <2>3, SMT
  <2> QED
    BY <1>0, <2>1, <2>2, <2>3
<1>2. (2 * h + b) % 2 = b
  BY <1>0, SMT
<1>3. v \in Int /\ w \in Int
  BY <1>0, SMT
<1>4. CASE b = 0
  <2>1. w * b = 0 /\ w * (1 - b) = w /\ 2 * w * h \in Int /\ 1 - b \in {0, 1}
    BY <1>0, <1>4, SMT
  <2>2. Flip(v, w) = v + w
    BY <1>1, <1>2, <1>4 DEF Flip
  <2>3. Flip(v, w) = 2 * w * h + w * (1 - b) + r
    BY <1>0, <1>3, <2>1, <2>2, SMT
  <2> QED
    BY <1>0, <2>1, <2>3 DEF Parts
<1>5. CASE b = 1
  <2>1. w * b = w /\ w * (1 - b) = 0 /\ 2 * w * h \in Int /\ 1 - b \in {0, 1}
    BY <1>0, <1>5, SMT
  <2>2. Flip(v, w) = v - w
    BY <1>1, <1>2, <1>5 DEF Flip
  <2>3. Flip(v, w) = 2 * w * h + w * (1 - b) + r
    BY <1>0, <1>3, <2>1, <2>2, SMT
  <2> QED
    BY <1>0, <2>1, <2>3 DEF Parts
<1> QED
  BY <1>0, <1>4, <1>5

\* Inverting it twice changes nothing, and once something, within a block of 2048.
LEMMA FlipTwice ==
    ASSUME NEW w \in CrcWeight, NEW v \in Nat
    PROVE  /\ Flip(v, w) \in Nat /\ Flip(Flip(v, w), w) = v /\ Flip(v, w) # v
           /\ Flip(v, w) \div 2048 = v \div 2048
<1> DEFINE e == Flip(v, w)
<1>1. PICK h, b, r : Parts(v, w, h, b, r)
  BY BitParts
<1>2. Parts(e, w, h, 1 - b, r) /\ Parts(Flip(e, w), w, h, 1 - (1 - b), r)
  BY <1>1, FlipParts
<1> HIDE DEF e
<1>3. w \in {1, 8, 1024} /\ h \in Nat /\ b \in {0, 1} /\ r \in 0 .. w - 1
  BY <1>1 DEF Parts, CrcWeight
<1>4. /\ v = 2 * w * h + w * b + r /\ e = 2 * w * h + w * (1 - b) + r
      /\ Flip(e, w) = 2 * w * h + w * (1 - (1 - b)) + r
  BY <1>1, <1>2 DEF Parts
<1>5. Flip(e, w) = v
  <2>1. 1 - (1 - b) = b
    BY <1>3, SMT
  <2> QED
    BY <1>4, <2>1
<1>6. e \in Nat /\ e # v /\ e \div 2048 = v \div 2048
  <2>1. CASE w = 1
    <3>1. e = 2 * h + (1 - b) /\ v = 2 * h + b
      BY <1>3, <1>4, <2>1, SMT
    <3> QED
      BY <1>3, <3>1, SMT
  <2>2. CASE w = 8
    <3>1. e = 16 * h + 8 * (1 - b) + r /\ v = 16 * h + 8 * b + r /\ r \in 0 .. 7
      BY <1>3, <1>4, <2>2, SMT
    <3> QED
      BY <1>3, <3>1, SMT
  <2>3. CASE w = 1024
    <3>1. e = 2048 * h + 1024 * (1 - b) + r /\ v = 2048 * h + 1024 * b + r /\ r \in 0 .. 1023
      BY <1>3, <1>4, <2>3, SMT
    <3> QED
      BY <1>3, <3>1, SMT
  <2> QED
    BY <1>3, <2>1, <2>2, <2>3
<1> QED
  BY <1>5, <1>6 DEF e

LEMMA WordNumber ==
    \A c : c \in Word <=> c \in Nat /\ c <= 65535
<1> DEFINE top == 65535
<1>1. Word = 0 .. top /\ top \in Nat
  BY DEF Word
<1>2. ASSUME NEW n \in Nat
      PROVE  0 .. n = {c \in Nat : c <= n}
  BY SMT
<1>3. Word = {c \in Nat : c <= top}
  <2> HIDE DEF top
  <2> QED
    BY <1>1, <1>2
<1>4. \A c : c \in Word <=> c \in Nat /\ c <= top
  <2> HIDE DEF top
  <2> QED
    BY <1>3
<1> QED
  BY <1>4

LEMMA FlipBack ==
    ASSUME NEW w \in CrcWeight, NEW v \in Nat
    PROVE  Flip(v, w) \in Nat /\ Flip(Flip(v, w), w) = v
BY FlipTwice

\* Within a word it stays within the word.
LEMMA FlipWord ==
    ASSUME NEW w \in CrcWeight, NEW c \in Nat
    PROVE  /\ c <= 65535 => Flip(c, w) <= 65535
           /\ c <= 32767 => Flip(c, w) <= 32767
<1> DEFINE e == Flip(c, w)
<1>1. e \in Nat /\ e \div 2048 = c \div 2048
  BY FlipTwice
<1> HIDE DEF e
<1>2. /\ c <= 65535 => c \div 2048 <= 31
      /\ c <= 32767 => c \div 2048 <= 15
  BY SMT
<1>3. /\ e \div 2048 <= 31 => e <= 65535
      /\ e \div 2048 <= 15 => e <= 32767
  BY <1>1, SMT
<1> QED
  BY <1>1, <1>2, <1>3 DEF e

\* A round of UpdateCrc gives a word, and different ones for different words: the
\* highest bit tells whether a one fell out.
LEMMA ShiftWord ==
    ASSUME NEW c \in Word
    PROVE  /\ ShiftCrc(c) \in Word
           /\ c % 2 = 0 => ShiftCrc(c) = c \div 2 /\ ShiftCrc(c) <= 32767
           /\ c % 2 # 0 => /\ ShiftCrc(c) = 32768 + Flip(Flip(c \div 2, 1024), 8)
                           /\ ShiftCrc(c) > 32767
<1> DEFINE half == c \div 2
           one == Flip(half, 1024)
           two == Flip(one, 8)
<1>1. half \in Nat /\ half <= 32767
  <2>1. c \in Nat /\ c <= 65535
    BY WordNumber
  <2> QED
    BY <2>1, SMT
<1>2. one \in Nat /\ one <= 32767
  <2> HIDE DEF half
  <2>1. 1024 \in CrcWeight
    BY DEF CrcWeight
  <2> QED
    BY <1>1, <2>1, FlipTwice, FlipWord
<1>3. two \in Nat /\ two <= 32767
  <2> HIDE DEF one
  <2>1. 8 \in CrcWeight
    BY DEF CrcWeight
  <2> QED
    BY <1>2, <2>1, FlipTwice, FlipWord
<1>4. ShiftCrc(c) = IF c % 2 = 0 THEN half ELSE 32768 + two
  BY DEF ShiftCrc
<1> HIDE DEF two, half
<1>5. half \in Word /\ 32768 + two \in Word /\ 32768 + two > 32767
  <2>1. half <= 65535 /\ 32768 + two \in Nat /\ 32768 + two <= 65535 /\ 32768 + two > 32767
    BY <1>1, <1>3, SMT
  <2> QED
    BY <1>1, <2>1, WordNumber
<1> QED
  BY <1>1, <1>4, <1>5 DEF two, half

LEMMA ShiftApart ==
    ASSUME NEW c \in Word, NEW d \in Word, ShiftCrc(c) = ShiftCrc(d)
    PROVE  c = d
<1> DEFINE hc == c \div 2
           hd == d \div 2
<1>1. c \in Nat /\ d \in Nat
  BY WordNumber
<1>2. /\ hc \in Nat /\ hd \in Nat /\ c = 2 * hc + (c % 2) /\ d = 2 * hd + (d % 2)
      /\ (c % 2 = 0 \/ c % 2 = 1) /\ (d % 2 = 0 \/ d % 2 = 1)
  BY <1>1, Halved
<1>3. c % 2 = d % 2
  <2> DEFINE s == ShiftCrc(c)
  <2>1. /\ s \in Nat
        /\ (c % 2 = 0 => s <= 32767) /\ (c % 2 # 0 => s > 32767)
        /\ (d % 2 = 0 => s <= 32767) /\ (d % 2 # 0 => s > 32767)
    BY ShiftWord, WordNumber
  <2> HIDE DEF s, hc, hd
  <2> QED
    BY <1>2, <2>1, SMT
<1>4. hc = hd
  <2>1. CASE c % 2 = 0
    <3>1. ShiftCrc(c) = hc /\ ShiftCrc(d) = hd
      BY <1>3, <2>1, ShiftWord
    <3> QED
      BY <3>1
  <2>2. CASE c % 2 # 0
    <3> DEFINE oc == Flip(hc, 1024)
               od == Flip(hd, 1024)
               tc == Flip(oc, 8)
               td == Flip(od, 8)
               top == 32768
    <3>1. ShiftCrc(c) = top + tc /\ ShiftCrc(d) = top + td
      BY <1>3, <2>2, ShiftWord
    <3>0. top \in Nat
      OBVIOUS
    <3> HIDE DEF top
    <3>2. 1024 \in CrcWeight /\ 8 \in CrcWeight
      BY DEF CrcWeight
    <3> HIDE DEF hc, hd
    <3>3. oc \in Nat /\ od \in Nat /\ Flip(oc, 1024) = hc /\ Flip(od, 1024) = hd
      <4>1. oc \in Nat /\ Flip(oc, 1024) = hc
        BY <1>2, <3>2, FlipBack
      <4>2. od \in Nat /\ Flip(od, 1024) = hd
        BY <1>2, <3>2, FlipBack
      <4> QED
        BY <4>1, <4>2
    <3> HIDE DEF oc, od
    <3>4. tc \in Nat /\ td \in Nat /\ Flip(tc, 8) = oc /\ Flip(td, 8) = od
      <4>1. tc \in Nat /\ Flip(tc, 8) = oc
        BY <3>2, <3>3, FlipBack
      <4>2. td \in Nat /\ Flip(td, 8) = od
        BY <3>2, <3>3, FlipBack
      <4> QED
        BY <4>1, <4>2
    <3> HIDE DEF tc, td
    <3>5. tc = td
      <4>1. top + tc = top + td
        BY <3>1, Zenon
      <4> QED
        BY <3>0, <3>4, <4>1, SMT
    <3> QED
      BY <3>3, <3>4, <3>5
  <2> QED
    BY <2>1, <2>2
<1> HIDE DEF hc, hd
<1> DEFINE rc == c % 2
           rd == d % 2
<1>5. c = 2 * hc + rc /\ d = 2 * hd + rd /\ rc = rd
  BY <1>2, <1>3
<1> HIDE DEF rc, rd
<1> QED
  BY <1>4, <1>5

LEMMA Powers ==
    /\ 2 ^ 0 = 1 /\ 2 ^ 1 = 2 /\ 2 ^ 2 = 4 /\ 2 ^ 3 = 8
    /\ 2 ^ 4 = 16 /\ 2 ^ 5 = 32 /\ 2 ^ 6 = 64 /\ 2 ^ 7 = 128
BY SMT

\* The bits of an octet, and the octet of its bits.
IsBits(b) == \A i \in 0 .. 7 : b[i] = 0 \/ b[i] = 1

Together(b) ==
    b[0] + 2 * b[1] + 4 * b[2] + 8 * b[3] + 16 * b[4] + 32 * b[5] + 64 * b[6] + 128 * b[7]

LEMMA OctetBits ==
    ASSUME NEW o \in Octet
    PROVE  \E b : IsBits(b) /\ o = Together(b)
<1> DEFINE b == [i \in 0 .. 7 |-> (o \div 2 ^ i) % 2]
<1>1. o \in Nat /\ o <= 255
  BY SMT DEF Octet
<1>2. /\ b[0] = (o \div 1) % 2 /\ b[1] = (o \div 2) % 2 /\ b[2] = (o \div 4) % 2
      /\ b[3] = (o \div 8) % 2 /\ b[4] = (o \div 16) % 2 /\ b[5] = (o \div 32) % 2
      /\ b[6] = (o \div 64) % 2 /\ b[7] = (o \div 128) % 2
  <2>1. \A i \in 0 .. 7 : b[i] = (o \div 2 ^ i) % 2
    OBVIOUS
  <2> HIDE DEF b
  <2> QED
    BY <2>1, Powers
<1> HIDE DEF b
<1>3. IsBits(b)
  <2>1. \A n \in Nat : (n % 2 = 0 \/ n % 2 = 1)
    BY SMT
  <2>2. /\ o \div 1 \in Nat /\ o \div 2 \in Nat /\ o \div 4 \in Nat /\ o \div 8 \in Nat
        /\ o \div 16 \in Nat /\ o \div 32 \in Nat /\ o \div 64 \in Nat /\ o \div 128 \in Nat
    BY <1>1, SMT
  <2> QED
    BY <1>2, <2>1, <2>2, SMT DEF IsBits
<1>4. o = Together(b)
  BY <1>1, <1>2, SMT DEF Together
<1> QED
  BY <1>3, <1>4

LEMMA BitOf ==
    ASSUME NEW b, IsBits(b), NEW i \in 0 .. 7
    PROVE  /\ Together(b) \in Nat /\ Together(b) <= 255
           /\ (Together(b) \div 2 ^ i) % 2 = b[i]
<1> DEFINE o == Together(b)
<1>1. /\ (b[0] = 0 \/ b[0] = 1) /\ (b[1] = 0 \/ b[1] = 1) /\ (b[2] = 0 \/ b[2] = 1)
      /\ (b[3] = 0 \/ b[3] = 1) /\ (b[4] = 0 \/ b[4] = 1) /\ (b[5] = 0 \/ b[5] = 1)
      /\ (b[6] = 0 \/ b[6] = 1) /\ (b[7] = 0 \/ b[7] = 1)
  BY DEF IsBits
<1>2. o \in Nat /\ o <= 255
  BY <1>1, SMT DEF Together
<1>3. /\ (o \div 1) % 2 = b[0] /\ (o \div 2) % 2 = b[1] /\ (o \div 4) % 2 = b[2]
      /\ (o \div 8) % 2 = b[3]
  BY <1>1, SMT DEF Together
<1>4. /\ (o \div 16) % 2 = b[4] /\ (o \div 32) % 2 = b[5] /\ (o \div 64) % 2 = b[6]
      /\ (o \div 128) % 2 = b[7]
  BY <1>1, SMT DEF Together
<1>5. i = 0 \/ i = 1 \/ i = 2 \/ i = 3 \/ i = 4 \/ i = 5 \/ i = 6 \/ i = 7
  BY SMT
<1> HIDE DEF o
<1>6. (o \div 2 ^ i) % 2 = b[i]
  <2>0. CASE i = 0
    BY <1>3, <2>0, Powers
  <2>1. CASE i = 1
    BY <1>3, <2>1, Powers
  <2>2. CASE i = 2
    BY <1>3, <2>2, Powers
  <2>3. CASE i = 3
    BY <1>3, <2>3, Powers
  <2>4. CASE i = 4
    BY <1>4, <2>4, Powers
  <2>5. CASE i = 5
    BY <1>4, <2>5, Powers
  <2>6. CASE i = 6
    BY <1>4, <2>6, Powers
  <2>7. CASE i = 7
    BY <1>4, <2>7, Powers
  <2> QED
    BY <1>5, <2>0, <2>1, <2>2, <2>3, <2>4, <2>5, <2>6, <2>7
<1> QED
  BY <1>2, <1>6 DEF o

LEMMA OctetBit ==
    ASSUME NEW o \in Octet, NEW i \in 0 .. 7
    PROVE  (o \div 2 ^ i) % 2 = 0 \/ (o \div 2 ^ i) % 2 = 1
<1>1. PICK b : IsBits(b) /\ o = Together(b)
  BY OctetBits
<1> QED
  BY <1>1, BitOf DEF IsBits

\* What inverting a bit of an octet leaves of the other bits, and what it makes of
\* the octet.
LEMMA FlippedBits ==
    ASSUME NEW o \in Octet, NEW k \in 0 .. 7
    PROVE  /\ Flip(o, 2 ^ k) \in Octet /\ Flip(o, 2 ^ k) # o
           /\ \A i \in 0 .. 7 : i # k => (Flip(o, 2 ^ k) \div 2 ^ i) % 2 = (o \div 2 ^ i) % 2
           /\ (Flip(o, 2 ^ k) \div 2 ^ k) % 2 # (o \div 2 ^ k) % 2
<1>1. PICK b : IsBits(b) /\ o = Together(b)
  BY OctetBits
<1> DEFINE other == [i \in 0 .. 7 |-> IF i = k THEN 1 - b[i] ELSE b[i]]
<1>2. IsBits(other)
  <2>1. \A i \in 0 .. 7 : 1 - b[i] = 0 \/ 1 - b[i] = 1
    BY <1>1, SMT DEF IsBits
  <2> QED
    BY <1>1, <2>1 DEF IsBits
<1>3. other[k] = 1 - b[k] /\ \A i \in 0 .. 7 : i # k => other[i] = b[i]
  OBVIOUS
<1> HIDE DEF other
<1>4. (o \div 2 ^ k) % 2 = b[k] /\ (b[k] = 0 \/ b[k] = 1)
  BY <1>1, BitOf DEF IsBits
<1>5. Flip(o, 2 ^ k) = Together(other)
  <2> DEFINE x0 == b[0]
             x1 == b[1]
             x2 == b[2]
             x3 == b[3]
             x4 == b[4]
             x5 == b[5]
             x6 == b[6]
             x7 == b[7]
  <2>1. Flip(o, 2 ^ k) = IF b[k] = 1 THEN o - 2 ^ k ELSE o + 2 ^ k
    BY <1>4 DEF Flip
  <2>2. k = 0 \/ k = 1 \/ k = 2 \/ k = 3 \/ k = 4 \/ k = 5 \/ k = 6 \/ k = 7
    BY SMT
  <2>3. /\ x0 \in {0, 1} /\ x1 \in {0, 1} /\ x2 \in {0, 1} /\ x3 \in {0, 1}
        /\ x4 \in {0, 1} /\ x5 \in {0, 1} /\ x6 \in {0, 1} /\ x7 \in {0, 1}
    BY <1>1 DEF IsBits
  <2>4. o = x0 + 2 * x1 + 4 * x2 + 8 * x3 + 16 * x4 + 32 * x5 + 64 * x6 + 128 * x7
    BY <1>1 DEF Together
  <2>5. CASE k = 0
    <3>1. /\ other[1] = x1 /\ other[2] = x2 /\ other[3] = x3
          /\ other[4] = x4 /\ other[5] = x5 /\ other[6] = x6 /\ other[7] = x7
          /\ other[0] = 1 - x0
      BY <1>3, <2>5
    <3>2. Flip(o, 2 ^ k) = IF x0 = 1 THEN o - 1 ELSE o + 1
      BY <2>1, <2>5, Powers
    <3> HIDE DEF x0, x1, x2, x3, x4, x5, x6, x7
    <3>3. Together(other) = (1 - x0) + 2 * x1 + 4 * x2 + 8 * x3 + 16 * x4 + 32 * x5 + 64 * x6 + 128 * x7
      BY <3>1 DEF Together
    <3> QED
      BY <2>3, <2>4, <3>2, <3>3, SMT
  <2>6. CASE k = 1
    <3>1. /\ other[0] = x0 /\ other[2] = x2 /\ other[3] = x3
          /\ other[4] = x4 /\ other[5] = x5 /\ other[6] = x6 /\ other[7] = x7
          /\ other[1] = 1 - x1
      BY <1>3, <2>6
    <3>2. Flip(o, 2 ^ k) = IF x1 = 1 THEN o - 2 ELSE o + 2
      BY <2>1, <2>6, Powers
    <3> HIDE DEF x0, x1, x2, x3, x4, x5, x6, x7
    <3>3. Together(other) = x0 + 2 * (1 - x1) + 4 * x2 + 8 * x3 + 16 * x4 + 32 * x5 + 64 * x6 + 128 * x7
      BY <3>1 DEF Together
    <3> QED
      BY <2>3, <2>4, <3>2, <3>3, SMT
  <2>7. CASE k = 2
    <3>1. /\ other[0] = x0 /\ other[1] = x1 /\ other[3] = x3
          /\ other[4] = x4 /\ other[5] = x5 /\ other[6] = x6 /\ other[7] = x7
          /\ other[2] = 1 - x2
      BY <1>3, <2>7
    <3>2. Flip(o, 2 ^ k) = IF x2 = 1 THEN o - 4 ELSE o + 4
      BY <2>1, <2>7, Powers
    <3> HIDE DEF x0, x1, x2, x3, x4, x5, x6, x7
    <3>3. Together(other) = x0 + 2 * x1 + 4 * (1 - x2) + 8 * x3 + 16 * x4 + 32 * x5 + 64 * x6 + 128 * x7
      BY <3>1 DEF Together
    <3> QED
      BY <2>3, <2>4, <3>2, <3>3, SMT
  <2>8. CASE k = 3
    <3>1. /\ other[0] = x0 /\ other[1] = x1 /\ other[2] = x2
          /\ other[4] = x4 /\ other[5] = x5 /\ other[6] = x6 /\ other[7] = x7
          /\ other[3] = 1 - x3
      BY <1>3, <2>8
    <3>2. Flip(o, 2 ^ k) = IF x3 = 1 THEN o - 8 ELSE o + 8
      BY <2>1, <2>8, Powers
    <3> HIDE DEF x0, x1, x2, x3, x4, x5, x6, x7
    <3>3. Together(other) = x0 + 2 * x1 + 4 * x2 + 8 * (1 - x3) + 16 * x4 + 32 * x5 + 64 * x6 + 128 * x7
      BY <3>1 DEF Together
    <3> QED
      BY <2>3, <2>4, <3>2, <3>3, SMT
  <2>9. CASE k = 4
    <3>1. /\ other[0] = x0 /\ other[1] = x1 /\ other[2] = x2 /\ other[3] = x3
          /\ other[5] = x5 /\ other[6] = x6 /\ other[7] = x7
          /\ other[4] = 1 - x4
      BY <1>3, <2>9
    <3>2. Flip(o, 2 ^ k) = IF x4 = 1 THEN o - 16 ELSE o + 16
      BY <2>1, <2>9, Powers
    <3> HIDE DEF x0, x1, x2, x3, x4, x5, x6, x7
    <3>3. Together(other) = x0 + 2 * x1 + 4 * x2 + 8 * x3 + 16 * (1 - x4) + 32 * x5 + 64 * x6 + 128 * x7
      BY <3>1 DEF Together
    <3> QED
      BY <2>3, <2>4, <3>2, <3>3, SMT
  <2>10. CASE k = 5
    <3>1. /\ other[0] = x0 /\ other[1] = x1 /\ other[2] = x2 /\ other[3] = x3
          /\ other[4] = x4 /\ other[6] = x6 /\ other[7] = x7
          /\ other[5] = 1 - x5
      BY <1>3, <2>10
    <3>2. Flip(o, 2 ^ k) = IF x5 = 1 THEN o - 32 ELSE o + 32
      BY <2>1, <2>10, Powers
    <3> HIDE DEF x0, x1, x2, x3, x4, x5, x6, x7
    <3>3. Together(other) = x0 + 2 * x1 + 4 * x2 + 8 * x3 + 16 * x4 + 32 * (1 - x5) + 64 * x6 + 128 * x7
      BY <3>1 DEF Together
    <3> QED
      BY <2>3, <2>4, <3>2, <3>3, SMT
  <2>11. CASE k = 6
    <3>1. /\ other[0] = x0 /\ other[1] = x1 /\ other[2] = x2 /\ other[3] = x3
          /\ other[4] = x4 /\ other[5] = x5 /\ other[7] = x7
          /\ other[6] = 1 - x6
      BY <1>3, <2>11
    <3>2. Flip(o, 2 ^ k) = IF x6 = 1 THEN o - 64 ELSE o + 64
      BY <2>1, <2>11, Powers
    <3> HIDE DEF x0, x1, x2, x3, x4, x5, x6, x7
    <3>3. Together(other) = x0 + 2 * x1 + 4 * x2 + 8 * x3 + 16 * x4 + 32 * x5 + 64 * (1 - x6) + 128 * x7
      BY <3>1 DEF Together
    <3> QED
      BY <2>3, <2>4, <3>2, <3>3, SMT
  <2>12. CASE k = 7
    <3>1. /\ other[0] = x0 /\ other[1] = x1 /\ other[2] = x2 /\ other[3] = x3
          /\ other[4] = x4 /\ other[5] = x5 /\ other[6] = x6
          /\ other[7] = 1 - x7
      BY <1>3, <2>12
    <3>2. Flip(o, 2 ^ k) = IF x7 = 1 THEN o - 128 ELSE o + 128
      BY <2>1, <2>12, Powers
    <3> HIDE DEF x0, x1, x2, x3, x4, x5, x6, x7
    <3>3. Together(other) = x0 + 2 * x1 + 4 * x2 + 8 * x3 + 16 * x4 + 32 * x5 + 64 * x6 + 128 * (1 - x7)
      BY <3>1 DEF Together
    <3> QED
      BY <2>3, <2>4, <3>2, <3>3, SMT
  <2> QED
    BY <2>2, <2>5, <2>6, <2>7, <2>8, <2>9, <2>10, <2>11, <2>12
<1>6. Flip(o, 2 ^ k) \in Octet
  <2>1. Together(other) \in Nat /\ Together(other) <= 255
    <3>1. 0 \in 0 .. 7
      BY SMT
    <3> QED
      BY <1>2, <3>1, BitOf
  <2> QED
    BY <1>5, <2>1, SMT DEF Octet
<1>7. \A i \in 0 .. 7 : (Flip(o, 2 ^ k) \div 2 ^ i) % 2 = other[i] /\ (o \div 2 ^ i) % 2 = b[i]
  BY <1>1, <1>2, <1>5, BitOf
<1>8. 1 - b[k] # b[k]
  BY <1>4, SMT
<1>9. (Flip(o, 2 ^ k) \div 2 ^ k) % 2 # (o \div 2 ^ k) % 2
  BY <1>3, <1>7, <1>8
<1> QED
  BY <1>3, <1>6, <1>7, <1>9

\* The rounds of UpdateCrc with this octet.
BitSteps(octet) ==
    [bit \in 0 .. 7 |->
        [c \in Word |-> ShiftCrc(IF (octet \div 2 ^ bit) % 2 = 0 THEN c ELSE Flip(c, 1))]]

LEMMA FlipLowBit ==
    ASSUME NEW c \in Word
    PROVE  Flip(c, 1) \in Word /\ Flip(c, 1) # c /\ Flip(Flip(c, 1), 1) = c
<1>1. 1 \in CrcWeight
  BY DEF CrcWeight
<1>2. c \in Nat /\ c <= 65535
  BY WordNumber
<1>3. Flip(c, 1) \in Nat /\ Flip(Flip(c, 1), 1) = c /\ Flip(c, 1) # c /\ Flip(c, 1) <= 65535
  BY <1>1, <1>2, FlipTwice, FlipWord
<1> QED
  BY <1>3, WordNumber

LEMMA BitStep ==
    ASSUME NEW octet, NEW bit \in 0 .. 7
    PROVE  /\ \A c \in Word : BitSteps(octet)[bit][c] \in Word
           /\ TellsApart(BitSteps(octet)[bit])
<1> DEFINE one == (octet \div 2 ^ bit) % 2 = 0
           In(c) == IF one THEN c ELSE Flip(c, 1)
<1>1. \A c \in Word : BitSteps(octet)[bit][c] = ShiftCrc(In(c))
  BY DEF BitSteps
<1>2. \A c \in Word : In(c) \in Word
  <2> HIDE DEF one
  <2> QED
    BY FlipLowBit
<1>3. ASSUME NEW c \in Word, NEW d \in Word, In(c) = In(d)
      PROVE  c = d
  <2> HIDE DEF one
  <2>1. Flip(Flip(c, 1), 1) = c /\ Flip(Flip(d, 1), 1) = d
    BY FlipLowBit
  <2> QED
    BY <1>3, <2>1
<1> HIDE DEF In
<1>4. \A c \in Word : ShiftCrc(In(c)) \in Word
  BY <1>2, ShiftWord
<1>5. ASSUME NEW c \in Word, NEW d \in Word, BitSteps(octet)[bit][c] = BitSteps(octet)[bit][d]
      PROVE  c = d
  <2>1. ShiftCrc(In(c)) = ShiftCrc(In(d)) /\ In(c) \in Word /\ In(d) \in Word
    BY <1>1, <1>2, <1>5
  <2>2. In(c) = In(d)
    BY <2>1, ShiftApart
  <2> QED
    BY <1>3, <2>2
<1> QED
  BY <1>1, <1>4, <1>5 DEF TellsApart

\* UpdateCrc is the loop of these rounds.
LEMMA UpdateIsLoop ==
    ASSUME NEW octet
    PROVE  \E f : Loop(BitSteps(octet), 0, 8, f) /\ \A v : UpdateCrc(v, octet) = f[0][v]
<1> DEFINE In(bit, c) == ShiftCrc(IF (octet \div 2 ^ bit) % 2 = 0 THEN c ELSE Flip(c, 1))
           Rounds(g) == [bit \in 0 .. 8 |-> [crc \in Word |->
                            IF bit = 8 THEN crc ELSE g[bit + 1][In(bit, crc)]]]
           f == CHOOSE g : g = Rounds(g)
<1>1. \A v : UpdateCrc(v, octet) = f[0][v]
  BY DEF UpdateCrc
<1>2. ASSUME NEW g
      PROVE  Loop(BitSteps(octet), 0, 8, g) <=> g = Rounds(g)
  <2> DEFINE s == BitSteps(octet)
             One(bit, c) == IF bit = 8 THEN c ELSE g[bit + 1][s[bit][c]]
             Other(bit, c) == IF bit = 8 THEN c ELSE g[bit + 1][In(bit, c)]
  <2>1. ASSUME NEW bit \in 0 .. 8, NEW c \in Word
        PROVE  One(bit, c) = Other(bit, c)
    <3>1. CASE bit = 8
      BY <3>1
    <3>2. CASE bit # 8
      <4>1. bit \in 0 .. 7
        BY <3>2, SMT
      <4>2. s[bit][c] = In(bit, c)
        BY <4>1 DEF BitSteps
      <4> HIDE DEF s, In
      <4> QED
        BY <4>2
    <3> QED
      BY <3>1, <3>2
  <2>2. Loop(s, 0, 8, g) <=> g = [bit \in 0 .. 8 |-> [c \in Word |-> One(bit, c)]]
    BY DEF Loop
  <2>3. Rounds(g) = [bit \in 0 .. 8 |-> [c \in Word |-> Other(bit, c)]]
    OBVIOUS
  <2>4. [bit \in 0 .. 8 |-> [c \in Word |-> One(bit, c)]] =
        [bit \in 0 .. 8 |-> [c \in Word |-> Other(bit, c)]]
    <3> DEFINE D == 0 .. 8
    <3>1. \A bit \in D : \A c \in Word : One(bit, c) = Other(bit, c)
      BY <2>1
    <3> HIDE DEF One, Other, D
    <3>2. \A bit \in D : [c \in Word |-> One(bit, c)] = [c \in Word |-> Other(bit, c)]
      BY <3>1
    <3>3. [bit \in D |-> [c \in Word |-> One(bit, c)]] = [bit \in D |-> [c \in Word |-> Other(bit, c)]]
      BY <3>2
    <3> QED
      BY <3>3 DEF D
  <2> HIDE DEF One, Other, s, Rounds
  <2> QED
    BY <2>2, <2>3, <2>4 DEF s
<1> HIDE DEF Rounds
<1>3. PICK g : Loop(BitSteps(octet), 0, 8, g)
  <2>1. 0 \in Nat /\ 8 \in Nat
    OBVIOUS
  <2> QED
    BY <2>1, LoopExists
<1>4. f = Rounds(f)
  BY <1>2, <1>3
<1>5. Loop(BitSteps(octet), 0, 8, f)
  <2> HIDE DEF f
  <2> QED
    BY <1>2, <1>4
<1> HIDE DEF f
<1> QED
  BY <1>1, <1>5

\* A loop of rounds that tell words apart tells them apart.
LEMMA LoopTellsApart ==
    ASSUME NEW a \in Nat, NEW b \in Nat, a <= b, NEW s, StaysWord(s, a, b), NEW f, Loop(s, a, b, f),
           KeepsApart(s, a, b)
    PROVE  TellsApart(f[a])
<1> DEFINE P == {i \in a .. b : TellsApart(f[i])}
<1>1. b \in P
  <2>1. b \in a .. b
    BY SMT
  <2>2. \A c \in Word : f[b][c] = c
    BY LoopEnd
  <2> QED
    BY <2>1, <2>2 DEF TellsApart
<1>2. ASSUME NEW i \in a .. b - 1, i + 1 \in P
      PROVE  i \in P
  <2>1. i \in a .. b
    BY SMT
  <2>2. \A c \in Word : f[i][c] = f[i + 1][s[i][c]]
    BY LoopCarries DEF Carries
  <2>3. \A c \in Word : s[i][c] \in Word
    BY DEF StaysWord
  <2>4. TellsApart(f[i + 1]) /\ TellsApart(s[i])
    BY <1>2 DEF KeepsApart
  <2>5. TellsApart(f[i])
    BY <2>2, <2>3, <2>4 DEF TellsApart
  <2> QED
    BY <2>1, <2>5
<1>3. a .. b \subseteq P
  <2> HIDE DEF P
  <2> QED
    BY <1>1, <1>2, FromTheEnd
<1>4. a \in a .. b
  BY SMT
<1> QED
  BY <1>3, <1>4

LEMMA BitStepsStay ==
    ASSUME NEW octet
    PROVE  /\ StaysWord(BitSteps(octet), 0, 8)
           /\ KeepsApart(BitSteps(octet), 0, 8)
<1>1. 8 - 1 = 7
  BY SMT
<1> QED
  BY <1>1, BitStep DEF StaysWord, KeepsApart

\* UpdateCrc gives a word, different ones for different words, and different ones for
\* octets of which one bit differs.
LEMMA UpdateApart ==
    ASSUME NEW octet
    PROVE  /\ \A c \in Word : UpdateCrc(c, octet) \in Word
           /\ \A c, d \in Word : UpdateCrc(c, octet) = UpdateCrc(d, octet) => c = d
<1>1. PICK f : Loop(BitSteps(octet), 0, 8, f) /\ \A v : UpdateCrc(v, octet) = f[0][v]
  BY UpdateIsLoop
<1>2. 0 \in Nat /\ 8 \in Nat /\ 0 <= 8
  BY SMT
<1>3. \A c \in Word : f[0][c] \in Word
  BY <1>1, <1>2, BitStepsStay, LoopWord
<1>4. TellsApart(f[0])
  BY <1>1, <1>2, BitStepsStay, LoopTellsApart
<1> QED
  BY <1>1, <1>3, <1>4 DEF TellsApart

LEMMA UpdateFlipped ==
    ASSUME NEW o \in Octet, NEW k \in 0 .. 7, NEW c \in Word
    PROVE  UpdateCrc(c, o) # UpdateCrc(c, Flip(o, 2 ^ k))
<1> DEFINE e == Flip(o, 2 ^ k)
           s == BitSteps(o)
           t == BitSteps(e)
<1>1. PICK f : Loop(s, 0, 8, f) /\ \A v : UpdateCrc(v, o) = f[0][v]
  BY UpdateIsLoop
<1>2. PICK g : Loop(t, 0, 8, g) /\ \A v : UpdateCrc(v, e) = g[0][v]
  BY UpdateIsLoop
<1>3. /\ (e \div 2 ^ k) % 2 # (o \div 2 ^ k) % 2
      /\ \A i \in 0 .. 7 : i # k => (e \div 2 ^ i) % 2 = (o \div 2 ^ i) % 2
  BY FlippedBits
<1>4. SameBut(s, t, 0, 8, k)
  <2>1. ASSUME NEW i \in 0 .. 7, i # k, NEW d \in Word
        PROVE  s[i][d] = t[i][d]
    <3>1. (e \div 2 ^ i) % 2 = (o \div 2 ^ i) % 2
      BY <1>3, <2>1
    <3>2. /\ s[i][d] = ShiftCrc(IF (o \div 2 ^ i) % 2 = 0 THEN d ELSE Flip(d, 1))
          /\ t[i][d] = ShiftCrc(IF (e \div 2 ^ i) % 2 = 0 THEN d ELSE Flip(d, 1))
      BY DEF BitSteps
    <3> QED
      BY <3>1, <3>2
  <2>2. 8 - 1 = 7
    BY SMT
  <2> HIDE DEF s, t
  <2> QED
    BY <2>1, <2>2 DEF SameBut
<1>5. Apart(s[k], t[k])
  <2>1. ASSUME NEW d \in Word
        PROVE  s[k][d] # t[k][d]
    <3>1. /\ s[k][d] = ShiftCrc(IF (o \div 2 ^ k) % 2 = 0 THEN d ELSE Flip(d, 1))
          /\ t[k][d] = ShiftCrc(IF (e \div 2 ^ k) % 2 = 0 THEN d ELSE Flip(d, 1))
      BY DEF BitSteps
    <3>2. ((o \div 2 ^ k) % 2 = 0) # ((e \div 2 ^ k) % 2 = 0)
      <4>1. ((o \div 2 ^ k) % 2 = 0 \/ (o \div 2 ^ k) % 2 = 1)
            /\ ((e \div 2 ^ k) % 2 = 0 \/ (e \div 2 ^ k) % 2 = 1)
        <5>1. e \in Octet
          BY FlippedBits
        <5> QED
          BY <5>1, OctetBit
      <4> QED
        BY <1>3, <4>1
    <3>3. ShiftCrc(d) # ShiftCrc(Flip(d, 1))
      BY FlipLowBit, ShiftApart
    <3> QED
      BY <3>1, <3>2, <3>3
  <2> QED
    BY <2>1 DEF Apart
<1> HIDE DEF e, s, t
<1>6. 0 \in Nat /\ 8 \in Nat /\ 0 <= 8 /\ k \in 0 .. 8 - 1
  BY SMT
<1>7. StaysWord(s, 0, 8) /\ KeepsApart(s, 0, 8) /\ StaysWord(t, 0, 8)
  BY BitStepsStay DEF s, t
<1>8. Apart(f[0], g[0])
  BY <1>1, <1>2, <1>4, <1>5, <1>6, <1>7, LoopsApart
<1> QED
  BY <1>1, <1>2, <1>8 DEF Apart, e

\* The rounds of CalculateHdlcCrc.
OctetSteps(octets) ==
    [index \in 1 .. Len(octets) |-> [c \in Word |-> UpdateCrc(c, octets[index])]]

LEMMA CrcIsLoop ==
    ASSUME NEW octets, NEW n \in Nat, Len(octets) = n
    PROVE  \E f : /\ Loop(OctetSteps(octets), 1, n + 1, f)
                  /\ CalculateHdlcCrc(octets) = 65535 - f[1][65535]
<1> DEFINE top == 65535
           Rounds(g) == [index \in 1 .. n + 1 |-> [crc \in Word |->
                            IF index > n THEN crc ELSE g[index + 1][UpdateCrc(crc, octets[index])]]]
           f == CHOOSE g : g = Rounds(g)
<1>1. CalculateHdlcCrc(octets) = 65535 - f[1][65535]
  BY DEF CalculateHdlcCrc
<1>2. ASSUME NEW g
      PROVE  Loop(OctetSteps(octets), 1, n + 1, g) <=> g = Rounds(g)
  <2> DEFINE s == OctetSteps(octets)
             D == 1 .. n + 1
             One(index, c) == IF index = n + 1 THEN c ELSE g[index + 1][s[index][c]]
             Other(index, c) ==
                 IF index > n THEN c ELSE g[index + 1][UpdateCrc(c, octets[index])]
  <2>1. ASSUME NEW index \in D, NEW c \in Word
        PROVE  One(index, c) = Other(index, c)
    <3>1. CASE index = n + 1
      <4>1. index > n
        BY <3>1, SMT
      <4> QED
        BY <3>1, <4>1
    <3>2. CASE index # n + 1
      <4>1. index \in 1 .. n /\ ~(index > n)
        BY <3>2, SMT
      <4>2. s[index][c] = UpdateCrc(c, octets[index])
        BY <4>1 DEF OctetSteps
      <4> HIDE DEF s
      <4> QED
        BY <3>2, <4>1, <4>2
    <3> QED
      BY <3>1, <3>2
  <2>2. Loop(s, 1, n + 1, g) <=> g = [index \in D |-> [c \in Word |-> One(index, c)]]
    BY DEF Loop
  <2>3. Rounds(g) = [index \in D |-> [c \in Word |-> Other(index, c)]]
    OBVIOUS
  <2>4. [index \in D |-> [c \in Word |-> One(index, c)]] =
        [index \in D |-> [c \in Word |-> Other(index, c)]]
    <3> HIDE DEF One, Other, D
    <3>1. \A index \in D : [c \in Word |-> One(index, c)] = [c \in Word |-> Other(index, c)]
      BY <2>1
    <3> QED
      BY <3>1
  <2> HIDE DEF One, Other, s, Rounds, D
  <2> QED
    BY <2>2, <2>3, <2>4 DEF s
<1> HIDE DEF Rounds
<1>3. PICK g : Loop(OctetSteps(octets), 1, n + 1, g)
  <2>1. 1 \in Nat /\ n + 1 \in Nat
    BY SMT
  <2> QED
    BY <2>1, LoopExists
<1>4. f = Rounds(f)
  BY <1>2, <1>3
<1>5. Loop(OctetSteps(octets), 1, n + 1, f)
  <2> HIDE DEF f
  <2> QED
    BY <1>2, <1>4
<1> HIDE DEF f
<1> QED
  BY <1>1, <1>5

LEMMA OctetStepsStay ==
    ASSUME NEW octets, NEW n \in Nat, Len(octets) = n
    PROVE  /\ StaysWord(OctetSteps(octets), 1, n + 1)
           /\ KeepsApart(OctetSteps(octets), 1, n + 1)
<1> DEFINE s == OctetSteps(octets)
<1>1. \A index \in 1 .. n : \A c \in Word : s[index][c] = UpdateCrc(c, octets[index])
  BY DEF OctetSteps
<1>2. n + 1 - 1 = n
  BY SMT
<1> HIDE DEF s
<1>3. \A index \in 1 .. n : \A c \in Word : s[index][c] \in Word
  BY <1>1, UpdateApart
<1>4. \A index \in 1 .. n : TellsApart(s[index])
  BY <1>1, UpdateApart DEF TellsApart
<1> QED
  BY <1>2, <1>3, <1>4 DEF s, StaysWord, KeepsApart

LEMMA WordComplement ==
    /\ 65535 \in Word
    /\ \A c \in Word : 65535 - c \in Word
    /\ \A c, d \in Word : 65535 - c = 65535 - d => c = d
<1>1. ASSUME NEW c \in Nat, NEW d \in Nat, c <= 65535
      PROVE  /\ 65535 - c \in Nat /\ 65535 - c <= 65535
             /\ 65535 - c = 65535 - d => c = d
  BY <1>1, SMT
<1> QED
  BY <1>1, WordNumber

\* The CRC is a number of sixteen bits.
LEMMA CrcWord ==
    ASSUME NEW octets, Len(octets) \in Nat
    PROVE  CalculateHdlcCrc(octets) \in Word
<1> DEFINE n == Len(octets)
<1>1. PICK f : /\ Loop(OctetSteps(octets), 1, n + 1, f)
               /\ CalculateHdlcCrc(octets) = 65535 - f[1][65535]
  BY CrcIsLoop
<1>2. 1 \in Nat /\ n + 1 \in Nat /\ 1 <= n + 1
  BY SMT
<1> DEFINE s == OctetSteps(octets)
           m == n + 1
<1>3. \A c \in Word : f[1][c] \in Word
  <2>1. StaysWord(s, 1, m) /\ Loop(s, 1, m, f)
    BY <1>1, OctetStepsStay
  <2> HIDE DEF s, m
  <2> QED
    BY <1>2, <2>1, LoopWord DEF m
<1> QED
  BY <1>1, <1>3, WordComplement

\* Octets that differ in one bit have different CRCs.
LEMMA CrcApart ==
    ASSUME NEW p, NEW q, NEW n \in Nat, Len(p) = n, Len(q) = n, NEW k \in 1 .. n,
           p[k] \in Octet, NEW bit \in 0 .. 7, q[k] = Flip(p[k], 2 ^ bit),
           \A i \in 1 .. n : i # k => p[i] = q[i]
    PROVE  CalculateHdlcCrc(p) # CalculateHdlcCrc(q)
<1> DEFINE s == OctetSteps(p)
           t == OctetSteps(q)
<1>1. PICK f : Loop(s, 1, n + 1, f) /\ CalculateHdlcCrc(p) = 65535 - f[1][65535]
  BY CrcIsLoop
<1>2. PICK g : Loop(t, 1, n + 1, g) /\ CalculateHdlcCrc(q) = 65535 - g[1][65535]
  BY CrcIsLoop
<1>3. /\ \A i \in 1 .. n : \A c \in Word : s[i][c] = UpdateCrc(c, p[i])
      /\ \A i \in 1 .. n : \A c \in Word : t[i][c] = UpdateCrc(c, q[i])
  BY DEF OctetSteps
<1>4. /\ 1 \in Nat /\ n + 1 \in Nat /\ 1 <= n + 1 /\ n + 1 - 1 = n /\ k \in 1 .. n + 1 - 1
  BY SMT
<1> HIDE DEF s, t
<1>5. SameBut(s, t, 1, n + 1, k)
  BY <1>3, <1>4 DEF SameBut
<1>6. Apart(s[k], t[k])
  <2>1. ASSUME NEW c \in Word
        PROVE  s[k][c] # t[k][c]
    <3>1. s[k][c] = UpdateCrc(c, p[k]) /\ t[k][c] = UpdateCrc(c, Flip(p[k], 2 ^ bit))
      BY <1>3
    <3>2. UpdateCrc(c, p[k]) # UpdateCrc(c, Flip(p[k], 2 ^ bit))
      BY UpdateFlipped
    <3> QED
      BY <3>1, <3>2
  <2> QED
    BY <2>1 DEF Apart
<1>7. StaysWord(s, 1, n + 1) /\ KeepsApart(s, 1, n + 1) /\ StaysWord(t, 1, n + 1)
  BY OctetStepsStay DEF s, t
<1>8. Apart(f[1], g[1])
  BY <1>1, <1>2, <1>4, <1>5, <1>6, <1>7, LoopsApart
<1>9. \A c \in Word : f[1][c] \in Word /\ g[1][c] \in Word
  <2> DEFINE m == n + 1
  <2>1. m \in Nat /\ 1 \in Nat /\ 1 <= m /\ Loop(s, 1, m, f) /\ Loop(t, 1, m, g)
    BY <1>1, <1>2, <1>4
  <2>2. StaysWord(s, 1, m) /\ StaysWord(t, 1, m)
    BY <1>7
  <2> HIDE DEF m
  <2>3. \A c \in Word : f[1][c] \in Word
    BY <2>1, <2>2, LoopWord
  <2>4. \A c \in Word : g[1][c] \in Word
    BY <2>1, <2>2, LoopWord
  <2> QED
    BY <2>3, <2>4
<1>10. f[1][65535] # g[1][65535]
  BY <1>8, WordComplement DEF Apart
<1> QED
  BY <1>1, <1>2, <1>9, <1>10, WordComplement

\* A check sequence is two octets, and tells what the CRC was.
LEMMA CheckOctets ==
    ASSUME NEW v \in Word
    PROVE  /\ LowByte(v) \in Octet /\ HighByte(v) \in Octet
           /\ v = HighByte(v) * 256 + LowByte(v)
<1>1. v \in Nat /\ v <= 65535
  BY WordNumber
<1>2. /\ v % 256 \in Nat /\ v % 256 <= 255
      /\ (v \div 256) % 256 \in Nat /\ (v \div 256) % 256 <= 255
      /\ v = ((v \div 256) % 256) * 256 + (v % 256)
  BY <1>1, TwoOctets
<1>3. \A n \in Nat : n <= 255 => n \in Octet
  BY SMT DEF Octet
<1> QED
  BY <1>2, <1>3 DEF LowByte, HighByte

LEMMA SequencesApart ==
    ASSUME NEW v \in Word, NEW w \in Word, LowByteFirst(v) = LowByteFirst(w)
    PROVE  v = w
<1>1. LowByte(v) = LowByte(w) /\ HighByte(v) = HighByte(w)
  BY DEF LowByteFirst
<1> QED
  BY <1>1, CheckOctets

\* What EncodeFrameToBuffer writes are octets.
LEMMA FrameOctets ==
    ASSUME NEW f \in ValidFrame, NEW limits \in CodecLimits, NEW room \in Nat,
           EncodeFrameToBuffer(f, limits, room).status = "Ok"
    PROVE  EncodeFrameToBuffer(f, limits, room).octets \in Seq(Octet)
<1> DEFINE header == FrameHeader(f)
           body == FrameBody(f)
           hcs == LowByteFirst(CalculateHdlcCrc(header))
           fcs == LowByteFirst(CalculateHdlcCrc(body))
           q == EncodeFrameToBuffer(f, limits, room).octets
<1>1. q = <<Flag>> \o body \o fcs \o <<Flag>>
  BY DEF EncodeFrameToBuffer, Failure
<1>2. Size(f) <= 2047
  BY EncodedWithinLimits
<1>3. \A octets \in Seq(Octet) : /\ LowByteFirst(CalculateHdlcCrc(octets)) \in Seq(Octet)
                                 /\ Len(LowByteFirst(CalculateHdlcCrc(octets))) = 2
  <2>1. ASSUME NEW octets \in Seq(Octet)
        PROVE  /\ LowByteFirst(CalculateHdlcCrc(octets)) \in Seq(Octet)
               /\ Len(LowByteFirst(CalculateHdlcCrc(octets))) = 2
    <3>1. CalculateHdlcCrc(octets) \in Word
      BY CrcWord
    <3>2. LowByte(CalculateHdlcCrc(octets)) \in Octet /\ HighByte(CalculateHdlcCrc(octets)) \in Octet
      BY <3>1, CheckOctets
    <3> QED
      BY <3>2, CheckSequence
  <2> QED
    BY <2>1
<1>4. header \in Seq(Octet)
  BY <1>2, HeaderLayout, FrameSizes
<1>5. hcs \in Seq(Octet) /\ Len(hcs) = 2
  BY <1>3, <1>4
<1>6. body \in Seq(Octet)
  BY <1>2, <1>5, BodyLayout
<1>7. fcs \in Seq(Octet)
  BY <1>3, <1>6
<1>8. Flag \in Octet
  BY SMT DEF Flag, Octet
<1> HIDE DEF header, body, fcs, hcs
<1> QED
  BY <1>1, <1>6, <1>7, <1>8

\* What DecodeFrame accepts lies between two flags and ends with its check sequence.
LEMMA AcceptedOctets ==
    ASSUME NEW q, NEW n \in Nat, Len(q) = n, NEW limits, DecodeFrame(q, limits).status = "Ok"
    PROVE  /\ 4 <= n /\ q[1] = Flag /\ q[n] = Flag
           /\ SubSeq(q, n - 3 + 1, n - 3 + 2) = LowByteFirst(CalculateHdlcCrc(SubSeq(q, 2, n - 3)))
<1>1. FormatStatus(q, limits) = "Ok"
  BY DEF DecodeFrame, DecodeFrameFromBuffer, Failure
<1>2. ~(n < 4) /\ q[1] = Flag /\ q[n] = Flag
  BY <1>1 DEF FormatStatus
<1>3. Checked(q, n - 3)
  BY DEF DecodeFrame, DecodeFrameFromBuffer, Failure
<1>4. 4 <= n
  BY <1>2, SMT
<1> QED
  BY <1>2, <1>3, <1>4 DEF Checked

\* No two octet sequences that DecodeFrame accepts differ in one bit only.
LEMMA OneBitApart ==
    ASSUME NEW q \in Seq(Octet), NEW limits, DecodeFrame(q, limits).status = "Ok",
           NEW i \in 1 .. Len(q), NEW bit \in 0 .. 7
    PROVE  DecodeFrame([q EXCEPT ![i] = Flip(@, 2 ^ bit)], limits).status # "Ok"
<1> DEFINE n == Len(q)
           e == Flip(q[i], 2 ^ bit)
           r == [q EXCEPT ![i] = e]
<1>1. n \in Nat /\ q[i] \in Octet
  OBVIOUS
<1>2. e \in Octet /\ e # q[i]
  BY <1>1, FlippedBits
<1> HIDE DEF e
<1>3. /\ r \in Seq(Octet) /\ Len(r) = n /\ r[i] = e
      /\ \A j \in 1 .. n : j # i => r[j] = q[j]
  BY <1>2
<1>4. SUFFICES ASSUME DecodeFrame(r, limits).status = "Ok"
               PROVE  FALSE
  BY DEF e
<1> HIDE DEF r
<1> DEFINE Body(o) == SubSeq(o, 2, n - 3)
           Fcs(o) == SubSeq(o, n - 3 + 1, n - 3 + 2)
<1>5. /\ 4 <= n /\ q[1] = Flag /\ q[n] = Flag
      /\ Fcs(q) = LowByteFirst(CalculateHdlcCrc(Body(q)))
  BY <1>1, AcceptedOctets
<1>6. /\ r[1] = Flag /\ r[n] = Flag
      /\ Fcs(r) = LowByteFirst(CalculateHdlcCrc(Body(r)))
  BY <1>1, <1>3, <1>4, AcceptedOctets
<1>7. i # 1 /\ i # n
  BY <1>2, <1>3, <1>5, <1>6
<1>8. ASSUME NEW o \in Seq(Octet), Len(o) = n
      PROVE  /\ Body(o) \in Seq(Octet) /\ Len(Body(o)) = n - 4
             /\ \A j \in 1 .. n - 4 : Body(o)[j] = o[1 + j]
             /\ Fcs(o) \in Seq(Octet) /\ Len(Fcs(o)) = 2
             /\ Fcs(o)[1] = o[n - 2] /\ Fcs(o)[2] = o[n - 1]
  <2>1. n - 4 \in Nat /\ 1 + 1 = 2 /\ 1 + (n - 4) = n - 3 /\ 1 + (n - 4) <= Len(o) /\ 1 \in Nat
    BY <1>5, <1>8, SMT
  <2>2. /\ SubSeq(o, 1 + 1, 1 + (n - 4)) \in Seq(Octet) /\ Len(SubSeq(o, 1 + 1, 1 + (n - 4))) = n - 4
        /\ \A j \in 1 .. n - 4 : SubSeq(o, 1 + 1, 1 + (n - 4))[j] = o[1 + j]
    <3> DEFINE m == n - 4
    <3>1. m \in Nat /\ 1 \in Nat /\ 1 + m <= Len(o)
      BY <2>1
    <3> HIDE DEF m
    <3>2. /\ SubSeq(o, 1 + 1, 1 + m) \in Seq(Octet) /\ Len(SubSeq(o, 1 + 1, 1 + m)) = m
          /\ \A j \in 1 .. m : SubSeq(o, 1 + 1, 1 + m)[j] = o[1 + j]
      BY <3>1, Portion
    <3> QED
      BY <3>2 DEF m
  <2>3. /\ Fcs(o) \in Seq(Octet) /\ Len(Fcs(o)) = 2
        /\ Fcs(o)[1] = o[n - 2] /\ Fcs(o)[2] = o[n - 1]
    <3> DEFINE lo == n - 3
    <3>1. lo \in Nat /\ lo + 2 <= Len(o) /\ 2 \in Nat /\ lo + 1 = n - 2 /\ lo + 2 = n - 1
      BY <1>5, <1>8, SMT
    <3>2. Fcs(o) = SubSeq(o, lo + 1, lo + 2) /\ 1 \in 1 .. 2 /\ 2 \in 1 .. 2
      BY SMT
    <3> HIDE DEF lo, Fcs
    <3>3. /\ SubSeq(o, lo + 1, lo + 2) \in Seq(Octet) /\ Len(SubSeq(o, lo + 1, lo + 2)) = 2
          /\ \A j \in 1 .. 2 : SubSeq(o, lo + 1, lo + 2)[j] = o[lo + j]
      BY <3>1, Portion
    <3> QED
      BY <3>1, <3>2, <3>3
  <2> HIDE DEF Fcs, n
  <2> QED
    BY <2>1, <2>2, <2>3
<1> HIDE DEF Body, Fcs, n
<1>9. /\ CalculateHdlcCrc(Body(q)) \in Word /\ CalculateHdlcCrc(Body(r)) \in Word
  <2>1. Len(Body(q)) \in Nat /\ Len(Body(r)) \in Nat
    BY <1>3, <1>8 DEF n
  <2> QED
    BY <2>1, CrcWord
<1>10. Fcs(q)[1] = q[n - 2] /\ Fcs(q)[2] = q[n - 1]
  BY <1>8 DEF n
<1>11. Fcs(r)[1] = r[n - 2] /\ Fcs(r)[2] = r[n - 1]
  BY <1>3, <1>8
<1>12. CASE i <= n - 3
  <2> DEFINE k == i - 1
             m == n - 4
  <2>1. k \in 1 .. m /\ m \in Nat /\ 1 + k = i
    BY <1>1, <1>5, <1>7, <1>12, SMT DEF n
  <2>2. /\ Body(q)[k] \in Octet /\ Body(r)[k] = Flip(Body(q)[k], 2 ^ bit)
    <3>1. Body(q)[k] = q[1 + k] /\ Body(r)[k] = r[1 + k]
      BY <1>3, <1>8, <2>1 DEF n
    <3> QED
      BY <1>1, <1>3, <2>1, <3>1 DEF e
  <2>3. \A j \in 1 .. m : j # k => Body(q)[j] = Body(r)[j]
    <3>1. \A j \in 1 .. m : j # k => 1 + j \in 1 .. n /\ 1 + j # i
      BY <1>1, <1>5, SMT DEF n
    <3>2. \A j \in 1 .. m : Body(q)[j] = q[1 + j] /\ Body(r)[j] = r[1 + j]
      BY <1>3, <1>8 DEF n
    <3> HIDE DEF k, m
    <3> QED
      BY <1>3, <3>1, <3>2
  <2>4. Len(Body(q)) = m /\ Len(Body(r)) = m
    BY <1>3, <1>8 DEF n
  <2>5. CalculateHdlcCrc(Body(q)) # CalculateHdlcCrc(Body(r))
    <3> HIDE DEF k, m
    <3> QED
      BY <2>1, <2>2, <2>3, <2>4, CrcApart
  <2>6. Fcs(q) = Fcs(r)
    <3>1. n - 2 \in 1 .. n /\ n - 2 # i /\ n - 1 \in 1 .. n /\ n - 1 # i
      BY <1>1, <1>5, <1>12, SMT
    <3>2. r[n - 2] = q[n - 2] /\ r[n - 1] = q[n - 1]
      BY <1>3, <3>1
    <3>3. \A j \in 1 .. 2 : j = 1 \/ j = 2
      BY SMT
    <3>4. \A j \in 1 .. 2 : Fcs(q)[j] = Fcs(r)[j]
      BY <1>10, <1>11, <3>2, <3>3
    <3>5. /\ Fcs(q) \in Seq(Octet) /\ Fcs(r) \in Seq(Octet)
          /\ Len(Fcs(q)) = 2 /\ Len(Fcs(r)) = 2
      BY <1>3, <1>8 DEF n
    <3> QED
      BY <3>4, <3>5, SameSequence
  <2> QED
    BY <1>5, <1>6, <1>9, <2>5, <2>6, SequencesApart
<1>13. CASE ~(i <= n - 3)
  <2>1. i = n - 2 \/ i = n - 1
    BY <1>1, <1>5, <1>7, <1>13, SMT DEF n
  <2>2. Body(q) = Body(r)
    <3>1. \A j \in 1 .. n - 4 : 1 + j \in 1 .. n /\ 1 + j # i
      BY <1>1, <1>5, <1>13, SMT
    <3>2. \A j \in 1 .. n - 4 : Body(q)[j] = q[1 + j] /\ Body(r)[j] = r[1 + j]
      BY <1>3, <1>8 DEF n
    <3>3. \A j \in 1 .. n - 4 : Body(q)[j] = Body(r)[j]
      BY <1>3, <3>1, <3>2
    <3>4. /\ Body(q) \in Seq(Octet) /\ Body(r) \in Seq(Octet)
          /\ Len(Body(q)) = n - 4 /\ Len(Body(r)) = n - 4
      BY <1>3, <1>8 DEF n
    <3> QED
      BY <3>3, <3>4, SameSequence
  <2>3. Fcs(q) = Fcs(r)
    BY <1>5, <1>6, <2>2
  <2>4. q[i] = r[i]
    BY <1>10, <1>11, <2>1, <2>3
  <2> QED
    BY <1>2, <1>3, <2>4
<1> QED
  BY <1>12, <1>13

-----------------------------------------------------------------------------
(***************************************************************************)
(* A bit inverted on the line.                                             *)
(***************************************************************************)
\* When one bit is inverted, the line holds what was written but for that bit, and the
\* outcome is what decoding makes of the line.
OneBitOff(g, octets) ==
    \E q : /\ Undamaged(g, q, NoOutcome)
           /\ \E i \in DOMAIN q, bit \in 0 .. 7 : octets = [q EXCEPT ![i] = Flip(@, 2 ^ bit)]

DamageInv ==
    /\ IsFiniteSet(flips)
    /\ flips # {} => line # <<>>
    /\ Cardinality(flips) = 1 => OneBitOff(given, line)
    /\ Decoded /\ given.from = "session" => outcome = DecodeFrame(line, given.limits)

LEMMA DamageInitInv ==
    TransferInit => DamageInv
<1> SUFFICES ASSUME TransferInit
             PROVE  DamageInv
  OBVIOUS
<1>1. flips = {} /\ line = <<>>
  BY DEF TransferInit
<1>2. IsFiniteSet({}) /\ Cardinality({}) = 0
  BY FS_EmptySet
<1> QED
  BY <1>1, <1>2 DEF DamageInv, Decoded

LEMMA DamageStepInv ==
    TransferInv /\ DamageInv /\ [TransferNext]_transferVars => DamageInv'
<1> SUFFICES ASSUME TransferInv, DamageInv, [TransferNext]_transferVars
             PROVE  DamageInv'
  OBVIOUS
<1>1. CASE Encode
  <2>1. line = <<>> /\ flips' = flips /\ given' = given /\ outcome = NoOutcome
    BY <1>1 DEF Encode
  <2>2. flips = {}
    BY <2>1 DEF DamageInv
  <2>3. IsFiniteSet({}) /\ Cardinality({}) = 0
    BY FS_EmptySet
  <2>4. ~Decoded'
    BY <1>1, <2>1 DEF Encode, Decoded
  <2> QED
    BY <2>1, <2>2, <2>3, <2>4 DEF DamageInv
<1>2. CASE Damage
  <2>1. PICK i \in DOMAIN line, bit \in 0 .. 7 :
            /\ <<i, bit>> \notin flips
            /\ line' = [line EXCEPT ![i] = Flip(@, 2 ^ bit)]
            /\ flips' = flips \cup {<<i, bit>>}
    BY <1>2 DEF Damage
  <2>2. given' = given /\ outcome' = NoOutcome /\ line # <<>> /\ outcome = NoOutcome
    BY <1>2 DEF Damage
  <2>3. IsFiniteSet(flips') /\ Cardinality(flips') = Cardinality(flips) + 1 /\ Cardinality(flips) \in Nat
    BY <2>1, FS_AddElement, FS_CardinalityType DEF DamageInv
  <2>4. line' # <<>>
    <3>1. i \in DOMAIN line'
      BY <2>1
    <3>2. i \notin DOMAIN << >>
      BY SMT
    <3> QED
      BY <3>1, <3>2
  <2>5. Cardinality(flips') = 1 => OneBitOff(given, line')
    <3> SUFFICES ASSUME Cardinality(flips') = 1
                 PROVE  OneBitOff(given, line')
      OBVIOUS
    <3>1. Cardinality(flips) = 0
      BY <2>3, SMT
    <3>2. flips = {}
      BY <3>1, FS_EmptySet DEF DamageInv
    <3>3. Undamaged(given, line, NoOutcome)
      BY <2>2, <3>2 DEF TransferInv
    <3> QED
      BY <2>1, <3>3 DEF OneBitOff
  <2>6. ~Decoded'
    BY <2>2 DEF Decoded
  <2> QED
    BY <2>2, <2>3, <2>4, <2>5, <2>6 DEF DamageInv
<1>3. CASE Decode
  <2>1. line' = line /\ flips' = flips /\ given' = given
    BY <1>3 DEF Decode
  <2>2. given.from = "session" => outcome' = DecodeFrame(line, given.limits)
    BY <1>3 DEF Decode
  <2> QED
    BY <2>1, <2>2 DEF DamageInv
<1>4. CASE UNCHANGED transferVars
  BY <1>4 DEF transferVars, DamageInv, Decoded
<1> QED
  BY <1>1, <1>2, <1>3, <1>4 DEF TransferNext

\* One inverted bit, wherever it is, is detected: in a flag, in the length, in an
\* address, in the check sequences or in what they cover.
THEOREM SingleErrorsDetected == TransferSpec => [](Cardinality(flips) <= 1 => DamageDetected)
<1>1. TransferInv /\ DamageInv => (Cardinality(flips) <= 1 => DamageDetected)
  <2> SUFFICES ASSUME TransferInv, DamageInv, Cardinality(flips) <= 1, Decoded, flips # {}
               PROVE  outcome.status # "Ok"
    BY DEF DamageDetected
  <2>1. Cardinality(flips) = 1
    <3>1. Cardinality(flips) \in Nat /\ Cardinality(flips) # 0
      BY FS_EmptySet, FS_CardinalityType DEF DamageInv
    <3> QED
      BY <3>1, SMT
  <2>2. PICK q : /\ Undamaged(given, q, NoOutcome)
                 /\ \E i \in DOMAIN q, bit \in 0 .. 7 : line = [q EXCEPT ![i] = Flip(@, 2 ^ bit)]
    BY <2>1 DEF DamageInv, OneBitOff
  <2>3. PICK i \in DOMAIN q, bit \in 0 .. 7 : line = [q EXCEPT ![i] = Flip(@, 2 ^ bit)]
    BY <2>2
  <2>4. given \in Givens /\ given.from = "session"
    BY DEF TransferInv
  <2>5. DecodeFrame(q, given.limits) = AsReceived(given)
    BY <2>2, <2>4, DecodedIsSent
  <2>6. DecodeFrame(q, given.limits).status = "Ok"
    BY <2>5 DEF AsReceived
  <2>7. q \in Seq(Octet) /\ i \in 1 .. Len(q)
    <3>1. given.limits \in CodecLimits /\ given.room \in Nat
      BY <2>4 DEF Givens
    <3>2. q \in Seq(Octet)
      BY <2>2, <3>1, FrameOctets DEF Undamaged
    <3> QED
      BY <2>3, <3>2
  <2>8. DecodeFrame(line, given.limits).status # "Ok"
    BY <2>3, <2>6, <2>7, OneBitApart
  <2> QED
    BY <2>4, <2>8 DEF DamageInv
<1>2. TransferSpec => []DamageInv
  BY TransferInvariant, DamageInitInv, DamageStepInv, PTL DEF TransferSpec
<1> QED
  BY <1>1, <1>2, TransferInvariant, PTL
=============================================================================
